\* The instance of Firmware.cfg, for the gestures that may be left without a trigger.
CONSTANTS
  p = p
  q = q
  one = one
  two = two
  three = three
  Profiles <- MCProfiles
  NoProfile = NoProfile
  Patches <- MCPatches
  First = one
  DraftsMax = 2
  MaxEdits = 3
  Span = 7
  Debounce = 1
  Window = 2
  LongPress = 2
  HoldTime = 2
  MaxLate = 1
  Fifo = 1
  MaxOpens = 2
  MaxGeneration = 4
  Locations <- MCLocations
  FirstLocation = 11
  MaxChanges = 3
SPECIFICATION FirmwareSpec
INVARIANTS GesturesAnswered
