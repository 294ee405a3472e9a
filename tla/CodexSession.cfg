SPECIFICATION Spec
CONSTANTS
  ClockModulus = 3
  MaxTime = 3
  SessionIdle = 1
  Settle = 1
  QueueCapacity = 1
  MaxFragments = 2
  MaxEpoch <- LongUsb
  FastReconnect = FALSE
  Kinds = {"config", "threads", "status"}
  Parts = {"whole"}
INVARIANTS
  TypeOK
  BaselineBeforeEvents
  StaleStampOnlyByRace
PROPERTIES
  RevivedOnlyByRpc
