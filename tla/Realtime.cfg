CONSTANTS
  Conns = {c1}
  Buffer = 2
  BusCapacity = 2
  TimeoutTicks = 2
  MaxEvents = 4
SPECIFICATION Spec
INVARIANTS TypeOK GoneIsUnregistered
PROPERTIES NoticedLeaves StreamsEvents
CHECK_DEADLOCK FALSE
