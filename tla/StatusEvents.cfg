SPECIFICATION Spec
CONSTANTS
  s1 = s1
  s2 = s2
  Slots = {s1, s2}
  Lamps <- WorkLamps
  FrameSlots <- OneSlot
  Tokens = {"some"}
  Previews = {}
  Options = {}
SYMMETRY SlotSymmetry
INVARIANTS
  TypeOK
  AnnouncedNewsIsCurrent
  AnnouncedHoldHasOwner
PROPERTIES
  NewsKeepsItsTurn
