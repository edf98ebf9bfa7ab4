CONSTANTS
  Callers = {g1, g2, g3}
  MaxCells = 3
  Acp = TRUE
SPECIFICATION TasksSpec
INVARIANTS TasksTypeOK MapAgentAlive OneFactoryPerCell WaitersCanMove
PROPERTY AskersAreServed
CHECK_DEADLOCK FALSE
