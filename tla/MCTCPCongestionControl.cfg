SPECIFICATION Spec
CONSTANTS
  IntMax = 16
  initCwnd = 3
  MSS = 4
  MaxBytes = 5
  MaxAcked = 30
INVARIANTS TypeOK WindowAtLeastInitial StageAgrees AvoidanceIsLinear OverflowNeedsLongTransfer
CHECK_DEADLOCK FALSE
