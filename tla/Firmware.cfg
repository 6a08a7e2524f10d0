\* Two profiles, three patches, a table with room for two drafts, and three edits; a
\* clock that wraps soon after the limits of a switch; a port the host opens twice; and
\* two locations and three changes to tell a client of.
CONSTANTS
  p = p
  q = q
  one = one
  two = two
  three = three
  Profiles <- MCProfiles
  NoProfile = NoProfile
  Patches <- MCPatches
  First = one
  DraftsMax = 2
  MaxEdits = 3
  Span = 7
  Debounce = 1
  Window = 2
  LongPress = 2
  HoldTime = 2
  MaxLate = 1
  Fifo = 1
  MaxOpens = 2
  MaxGeneration = 4
  Locations <- MCLocations
  FirstLocation = 11
  MaxChanges = 3
SPECIFICATION FirmwareSpec
SYMMETRY Alike
INVARIANTS TypeOK DraftsFit TableIsDrafts PlayingIsStored TriggersFit SessionsApart EventsTell
PROPERTY StoreIsKept
