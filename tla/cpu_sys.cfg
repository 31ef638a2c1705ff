CONSTANTS
  OperandSize = 4
  TickLimit = 3
  Images <- SystemCalls
  Modes = {"user", "supervisor"}
SPECIFICATION FairSpec
PROPERTIES InterruptsCleared
