CONSTANTS
  NoMsg = NoMsg
  NoSource = NoSource
  Slots = {lead, worker}
  Loops = {worker}
  Lead = lead
  Sources = {"UserMessage", "McpSendMessage", "RecoveryDrain"}
  Msgs = {m1}
  LeaseIds = {l1}
  TurnIds = {t1}
  NoTurn = NoTurn
  Stoppers = {p1}
  MaxRuns = 1
  MaxWork = 1
  MayRetryStart = FALSE
  MayFailStarted = TRUE
  Note = Note
  Backlog = {m1}
  MaxFaults = 1
SPECIFICATION SessionSpec
INVARIANT CancelHasFinisher
PROPERTY CancelEnds
CHECK_DEADLOCK FALSE
