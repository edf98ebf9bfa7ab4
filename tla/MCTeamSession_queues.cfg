CONSTANTS
  NoMsg = NoMsg
  NoSource = NoSource
  Slots = {lead}
  Loops = {lead}
  Lead = lead
  Sources = {"UserMessage", "UserIntervention", "McpSendMessage", "RecoveryDrain"}
  Msgs = {m1, m2}
  LeaseIds = {l1, l2}
  TurnIds = {t1}
  NoTurn = NoTurn
  Stoppers = {}
  MaxRuns = 2
  MaxWork = 2
  MayRetryStart = FALSE
  MayFailStarted = FALSE
  Note = Note
  Backlog = {m1}
  MaxFaults = 1
SPECIFICATION SessionSpec
INVARIANTS SessionTypeOK NothingReadUnseen NeverSleepsOnWork ForegroundFirst
PROPERTIES DeliveredOnce WakeServed
CHECK_DEADLOCK FALSE
