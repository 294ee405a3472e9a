SPECIFICATION FairSpec
CONSTANTS
  Decks <- TwoChats
  Pickers <- TwoValues
  MaxWire = 2
  MaxKeys = 2
INVARIANTS
  DeckFollowsHost
PROPERTIES
  EscEndsPage
