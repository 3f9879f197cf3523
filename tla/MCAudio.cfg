SPECIFICATION Spec
CONSTANTS
  Slots <- MCSlots
  GenMax = 4
  ClipSlots <- MCClipSlots
  Sfx = sfx
  Buses = {sfx, music}
  Main = main
  Threads = {main}
  MaxPlays = 3
  MaxPulls = 2
  MaxStops = 1
INVARIANTS
  NoDanglingClip
  OnOneOfItsBuses
  RenderedInTurn
PROPERTIES
  ImplementsVoiceMap
CHECK_DEADLOCK FALSE
