SPECIFICATION FairAudioSpec
CONSTANTS
  Chats <- TwoChats
  Cues <- OneCue
  MaxEvents = 2
  Switches = {"mute", "chime_lab", "reset"}
INVARIANTS
  HeardWhole
PROPERTIES
  ArmsOwnScore
  NoSilentTakeover
  RequestIsServed
