CONSTANTS
  s1 = s1  s2 = s2
  r1 = r1  r2 = r2  r3 = r3
  active = active  named = named
  here = here
  Subs = {s1, s2}
  Requests = {r1, r3}
  Owner <- MCOwner
  Keys = {active, named}
  SavedKeys = {named}
  Locations = {here}
  LocOf <- MCLocOf
  WireMax = 2
  WaitersMax = 2
  WaitersPerSubMax = 1
  MaxWrites = 2
  MaxSessions = 2
  MaxPosted = 0
  LoopKeepsUp = FALSE
SPECIFICATION Spec
CHECK_DEADLOCK FALSE
INVARIANTS TypeOK CacheFresh ActiveCacheCurrent NoLostWaiter
PROPERTY ReadsAreFresh
