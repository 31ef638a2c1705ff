CONSTANTS
  WaitCapacity = 31
  NJobs = 4
  IOJobs = {102, 104, 105}
  LoadOutcomes <- SomeFail
  TickLimit = 2
  MaxTraps = 2
  MaxCycles = 30
SPECIFICATION FairSpec
INVARIANTS JobsInv KernelInv UnitsReturned DeviceExclusive WaitQueueSound PendingAlive NeverStranded
PROPERTIES LostOnlyByHandOver ShutdownKillsNoJob ImplementsLifecycle MainReturns PlainJobsFinish
