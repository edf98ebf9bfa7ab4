CONSTANTS
  NoMsg = NoMsg
  NoSource = NoSource
  Slots = {lead, worker}
  Loops = {lead}
  Lead = lead
  Sources = {"UserMessage", "McpSendMessage", "SpawnWelcome", "RecoveryDrain"}
  Msgs = {}
  LeaseIds = {l1}
  TurnIds = {t1, t2}
  NoTurn = NoTurn
  Stoppers = {p1, p2}
  MaxRuns = 1
  MaxWork = 1
  MayRetryStart = FALSE
  MayFailStarted = FALSE
SPECIFICATION Spec
INVARIANTS LeaseKeepsRunOpen
SYMMETRY IdSymmetry
CHECK_DEADLOCK FALSE
