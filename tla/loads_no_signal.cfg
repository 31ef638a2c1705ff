CONSTANTS
  WaitCapacity = 31
  NJobs = 3
  IOJobs <- ThirdJob
  LoadOutcomes <- MayFail
  TickLimit = 10
  MaxTraps = 1
  MaxCycles = 200
SPECIFICATION Spec
INVARIANTS LoaderSignals
