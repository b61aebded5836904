SPECIFICATION Spec
CONSTANTS
  Thread = {t1, t2, t3}
  IdMod = 3
  maxOutgoingConnections = 2
  MaxCalls = 6
SYMMETRY ThreadSymmetry
CHECK_DEADLOCK FALSE
INVARIANTS TypeOK IdsRepeatOnlyAfterWrap LimitHoldsUnlessRaced
