CONSTANTS
  UserTurns = {u1}
  TeamTurns = {m1}
  Warmers = {}
  Callers = {u1, m1}
  Deleters = {d1, d2}
  Cancellers = {}
  NoTurn = NoTurn
  MaxCells = 2
  MaxContinuations = 1
  Acp = FALSE
  MayShutDown = FALSE
  MayReconfigure = FALSE
SPECIFICATION Spec
INVARIANTS ClaimIsHeld DeletingHandedOver NoLostWakeup
PROPERTIES TurnsEnd DeletingEnds TurnsInLine
CHECK_DEADLOCK FALSE
