CONSTANTS
  e1 = e1
  data = data  console = console  emulator = emulator
  MaxLines = 2
  Events = {e1}
  MaySend <- MCMaySend
  Ports = {data, console, emulator}
  PortKind <- MCPortKind
  Candidates <- MCCandidates
  NoPort = NoPort
  Stale = Stale
  OutMax = 1
  InMax = 2
  MaxOpens = 2
  MaxFailing = 1
SPECIFICATION FairSpec
CHECK_DEADLOCK FALSE
INVARIANTS TypeOK NoLostWakeup OnlyFirstCut
PROPERTIES LinesInSession StopEnds AcceptedSettled
