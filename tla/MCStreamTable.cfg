SPECIFICATION FairSpec
CONSTANTS
  Thread = {t1, t2, t3}
  RequestId = {0, 1, 2}
  maxStreams = 2
  None = None
  MaxCalls = 3
CHECK_DEADLOCK FALSE
INVARIANTS TypeOK OneThreadPerSlot GrantedOnce RefusedOnlyIfGranted
PROPERTIES ImplementsRegistry EveryCallReturns
