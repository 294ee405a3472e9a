SPECIFICATION Spec
CONSTANTS
  Tables <- TwoTables
  Peers = {"a", "b", "c"}
  Capacity = 2
  MaxGen = 3
  MaxCalls = 4
  MaxFaults = 1
  MaxCuts = 2
INVARIANTS
  ConfirmedSurvives
  GoneStaysGone
