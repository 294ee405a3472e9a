SPECIFICATION FairSpec
CONSTANTS
  s1 = s1
  s2 = s2
  Slots = {s1, s2}
  Lamps <- ReadLamps
  FrameSlots <- FirstSlot
  Tokens = {"some"}
  Previews = {"done"}
  Options = {"composer", "quiet"}
INVARIANTS
  UnreadFollowsLamp
PROPERTIES
  BackgroundStaysUnread
  QueueDrains
  SelectedSettles
