CONSTANTS
  s1 = s1  s2 = s2
  ctx1 = ctx1  ctx2 = ctx2  ctx3 = ctx3  open1 = open1  read2 = read2  com2 = com2
  c1 = c1
  Subs = {s1, s2}
  Requests = {ctx1, ctx2, ctx3, open1, read2, com2}
  Batches = {{ctx1, ctx2, ctx3}, {open1, com2}, {read2, com2}}
  Owner <- MCOwner
  KindOf <- MCKindOf
  Changes = {c1}
  NoChange = NoChange
  NoRequest = NoRequest
  WireMax = 2
  RequestsMax = 2
  RequestsPerSubMax = 1
  ContextMax = 2
  ContextPerSubMax = 1
  MaxSessions = 2
  MaxPosted = 2
SPECIFICATION FairSpec
CHECK_DEADLOCK FALSE
INVARIANTS TypeOK NothingLost IndexExact
PROPERTIES AnswersAreOwn EveryRequestAnswered MaintenanceDrains
