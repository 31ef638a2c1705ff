CONSTANTS
  OperandSize = 4
  TickLimit = 3
  Images <- LoopingPrograms
  Secrets <- SupervisorWords
  Modes = {"user"}
SPECIFICATION FairSpecBoth
INVARIANTS TypeOK SameView
PROPERTIES UserConfined TimerGoesOn
