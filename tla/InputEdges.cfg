SPECIFICATION FairSpec
CONSTANTS
  Rows <- TwoRows
  Backends = {"matrix", "tca", "missing"}
  QueueCapacity = 2
  GhostLimits = {1, 2}
  Transports <- UsbThenBle
  MaxStrokes = 2
  MaxLosses = 1
INVARIANTS
  HeldIsExplained
PROPERTIES
  QueueKeepsPromise
  StickCentres
  MicCloses
