CONSTANTS
  MaxSlot = 6
  SysLow = 3
  SelfSlot = 5
  SelfPid = 2
  PidMod = 5
  MaxCreated = 12
  Free = Free
SPECIFICATION Spec
INVARIANTS TypeOK ScanCoversTable PidsApart
PROPERTIES EndsItself
CHECK_DEADLOCK FALSE
