SPECIFICATION Spec
CONSTANTS
  Connection = {c1, c2, c3, c4}
  nullptr = nullptr
  RandFails = FALSE
  Byte <- MCByte
  Zero = 0
  CONNECTION_ID_SIZE = 2
  ConnectionId <- MCConnectionId
  BufSize = 2
  Unset = Unset
  InboxCap = 1
  MaxArrivals = 2
  MaxErrors = 1
  MaxAppCalls = 2
SYMMETRY ObjectSymmetry
INVARIANTS TypeOK KnownIdKeepsConnection RepeatedGoesToPrevious EveryConnectionReachable
PROPERTY RoutesAreStable
