CONSTANTS
  UserTurns = {u1, u2}
  TeamTurns = {}
  Warmers = {w1}
  Callers = {u1, u2, w1}
  Deleters = {}
  Cancellers = {k1}
  NoTurn = NoTurn
  MaxCells = 2
  MaxContinuations = 1
  Acp = TRUE
  MayShutDown = TRUE
  MayReconfigure = TRUE
SPECIFICATION Safety
INVARIANTS TypeOK
PROPERTY UsesTaskManager
SYMMETRY RequestSymmetry
CHECK_DEADLOCK FALSE
