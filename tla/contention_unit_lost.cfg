CONSTANTS
  WaitCapacity = 31
  NJobs = 3
  IOJobs <- EveryJob
  LoadOutcomes <- AllLoad
  TickLimit = 10
  MaxTraps = 2
  MaxCycles = 200
SPECIFICATION FairSpec
PROPERTIES JobsFinish
