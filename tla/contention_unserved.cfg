CONSTANTS
  WaitCapacity = 31
  NJobs = 3
  IOJobs <- EveryJob
  LoadOutcomes <- AllLoad
  TickLimit = 10
  MaxTraps = 1
  MaxCycles = 200
SPECIFICATION Spec
INVARIANTS ServedBeforeResume
