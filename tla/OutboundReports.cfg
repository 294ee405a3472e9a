SPECIFICATION FairSpec
CONSTANTS
  LastSession = 2
  Quotas <- OnePlug
  Kinds <- AllOutput
  RingCapacity = 2
  RetryCapacity = 1
  MaxMessages = 2
INVARIANTS
  TypeOK
  AtMostOnce
  WholeMessages
  NoStaleReport
PROPERTIES
  RingsDrain
