\* A disk without faults: the hub only has to die.
CONSTANTS
  j1 = j1
  j2 = j2
  Jobs <- MCJobs
  NoJob = NoJob
  Installed = Installed
  DiskFaults = {}
  Size = 1
SPECIFICATION Spec
INVARIANTS CheckPossible
