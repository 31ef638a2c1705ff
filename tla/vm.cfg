CONSTANTS
  VMSize = 20
  SectorSize = 8
  NSectors = 6
  SwapStart = 3
  SwapSectors = 3
  Slots = {0, 1}
  Disks <- AllDisks
  Files <- AllFiles
SPECIFICATION FairSpecSwapping
INVARIANTS TypeOK LoadDecides LoadedImage TransferInBounds SwappedOnlyToWait
PROPERTIES EndsOrWaits ComesBackAsItWent
