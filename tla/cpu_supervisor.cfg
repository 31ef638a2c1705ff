CONSTANTS
  OperandSize = 8
  TickLimit = 3
  NSectors = 3
  WordsPerSector = 4
  Images <- Memories
  Modes = {"supervisor"}
  Storages <- Disks
  Fresh <- FreshMemories
  MaxCalls = 2
  Typed = {3}
  Transfers <- SomeTransfers
  Places = {0, 1, 9}
SPECIFICATION FairSpecMachine
INVARIANT MachineInv
PROPERTIES OverflowExact StraightHalts LoadsWholeImage
