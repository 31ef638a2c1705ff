CONSTANTS
  Item = {98, 104, 105}
  Size = 4
  NoItem = 0
SPECIFICATION Spec
INVARIANT RingInv
PROPERTIES ImplementsFifo
