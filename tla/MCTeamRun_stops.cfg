CONSTANTS
  NoMsg = NoMsg
  NoSource = NoSource
  Slots = {lead, worker}
  Loops = {worker}
  Lead = lead
  Sources = {"UserMessage", "UserIntervention", "McpSendMessage"}
  Msgs = {}
  LeaseIds = {l1}
  TurnIds = {t1, t2}
  NoTurn = NoTurn
  Stoppers = {p1}
  MaxRuns = 2
  MaxWork = 1
  MayRetryStart = TRUE
  MayFailStarted = TRUE
SPECIFICATION Spec
INVARIANTS TypeOK WorkOwned
PROPERTIES ImplementsLifecycle WindsDown
SYMMETRY IdSymmetry
CHECK_DEADLOCK FALSE
