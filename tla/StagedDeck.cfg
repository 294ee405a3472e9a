SPECIFICATION Spec
CONSTANTS
  t1 = t1
  t2 = t2
  Threads = {t1, t2}
  Slots = 2
  Decks <- SomeDecks
  Hints = {0, 1}
  MaxBatches = 3
  MaxLost = 2
  MaxSessions = 1
INVARIANTS
  TypeOK
  OneBatch
PROPERTIES
  ReorderIsNoNews
  BackgroundStaysUnread
