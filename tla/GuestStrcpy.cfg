SPECIFICATION Spec
CONSTANTS
  Bits = 12
  ByteBits = 3
  TextLimit = 6
  Images <- MCImages
  Starts <- MCStarts
  HostAt <- MCHostAt
  Promise <- MCPromise
  Promising <- MCPromising
CHECK_DEADLOCK FALSE
INVARIANTS StrcpyCopies
