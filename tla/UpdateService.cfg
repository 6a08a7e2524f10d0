\* Two jobs, a package of one chunk, and a disk whose failed writes leave nothing or the write.
CONSTANTS
  j1 = j1
  j2 = j2
  Jobs <- MCJobs
  NoJob = NoJob
  Installed = Installed
  DiskFaults = {"lost", "kept"}
  Size = 1
SPECIFICATION Spec
INVARIANTS TypeOK BackupHeld PingKept
PROPERTIES ReportsAreTrue TaskEnds
