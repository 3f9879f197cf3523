SPECIFICATION Spec
CONSTANTS
  Slots <- MCSlots
  GenMax = 4
  ClipSlots <- MCClipSlots
  Sfx = sfx
  Buses = {sfx, music}
  Main = main
  Threads = {main, worker}
  MaxPlays = 2
  MaxPulls = 0
  MaxStops = 0
INVARIANTS
  LiveIsRoutable
CHECK_DEADLOCK FALSE
