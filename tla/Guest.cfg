SPECIFICATION Spec
CONSTANTS
  Bits = 12
  ByteBits = 3
  TextLimit = 6
  Images <- MCImages
  Starts <- MCStarts
  HostAt <- MCHostAt
  Promise <- MCPromise
  Promising <- MCPromising
INVARIANTS TypeOK ConditionsMean CallsReturn
PROPERTIES ShiftsExact FaultsStay StringsLikeC
CHECK_DEADLOCK FALSE
