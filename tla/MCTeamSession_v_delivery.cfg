CONSTANTS
  NoMsg = NoMsg
  NoSource = NoSource
  Slots = {lead}
  Loops = {lead}
  Lead = lead
  Sources = {"UserMessage", "UserIntervention", "McpSendMessage", "RecoveryDrain"}
  Msgs = {m1, m2}
  LeaseIds = {l1, l2}
  TurnIds = {t1}
  NoTurn = NoTurn
  Stoppers = {}
  MaxRuns = 1
  MaxWork = 2
  MayRetryStart = FALSE
  MayFailStarted = FALSE
  Note = Note
  Backlog = {}
  MaxFaults = 0
SPECIFICATION SessionSpec
PROPERTIES AcceptedIsDelivered
CHECK_DEADLOCK FALSE
