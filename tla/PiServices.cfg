CONSTANTS
  Stage = {"ws"}
  Raw = {"tcp"}
  QueueMax = 3
  Visits <- MCVisits
  MaxLines = 4
  MaxMoves = 1
  MaxAttempts = 3
  MaxPanels = 2
  MaxFaults = 2
  Others = {"piano"}
  MaxReplugs = 4
  MaxCut = 1
  Chunks = 2
  MaxPlugs = 2
  MaxWrites = 1
  Catalogs <- MCCatalogs
  First <- MCFirst
  PageSize = 1
  MaxChanges = 2
  MaxTraffic = 2
SPECIFICATION FairSpec
CHECK_DEADLOCK FALSE
INVARIANTS TypeOK PinnedOnly SnapshotWhole
PROPERTIES GapIsSeen ShutdownEnds PanelSettled MidiWired
