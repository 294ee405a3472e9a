SPECIFICATION FairSpec
CONSTANTS
  Profiles = 2
  MaxUser = 3
  MaxFaults = 1
  MaxLinks = 3
  MaxCuts = 1
INVARIANTS
  NothingUnsaved
  UsbStaysOff
  ChannelAgrees
PROPERTIES
  ComesBack
