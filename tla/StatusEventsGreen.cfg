SPECIFICATION Spec
CONSTANTS
  s1 = s1
  s2 = s2
  Slots = {s1, s2}
  Lamps <- WorkLamps
  FrameSlots <- FirstSlot
  Tokens = {"some"}
  Previews = {}
  Options = {}
INVARIANTS
  HoldHasOwner
