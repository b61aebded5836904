SPECIFICATION Spec
CONSTANTS
  Time <- Times
  Uninitialized <- Garbage
  MaxSamples = 2
CHECK_DEADLOCK FALSE
INVARIANT EstimateFollowsSamples
