CONSTANTS
  NoMsg = NoMsg
  NoSource = NoSource
  MaxSuppressed = 2
  MaxArrivals = 3
SPECIFICATION Spec
INVARIANTS QueueOrder PushIsInsert
PROPERTIES EntryFollowsGate
CHECK_DEADLOCK FALSE
