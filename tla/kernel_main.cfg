CONSTANTS
  WaitCapacity = 31
  NJobs = 3
  IOJobs <- ThirdJob
  LoadOutcomes <- AllLoad
  TickLimit = 10
  MaxTraps = 12
  MaxCycles = 200
SPECIFICATION FairSpec
INVARIANTS JobsInv ServedBeforeResume BlockedHasWaker LoaderSignals CleanExit
PROPERTIES TransferCompletes JobsFinish
