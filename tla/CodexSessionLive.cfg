SPECIFICATION FairSpec
CONSTANTS
  ClockModulus = 16
  MaxTime = 3
  SessionIdle = 1
  Settle = 1
  QueueCapacity = 1
  MaxFragments = 2
  MaxEpoch <- ShortUsb
  FastReconnect = FALSE
  Kinds = {"other"}
  Parts = {"head", "tail"}
INVARIANTS
  OwnerIsLive
  NoSplicedLine
PROPERTIES
  LiveSessionTakesOver
