SPECIFICATION Spec
CONSTANTS
  Connection = {c1, c2, c3, c4}
  nullptr = nullptr
  RandFails = FALSE
  Byte <- MCByte
  Zero = 0
  CONNECTION_ID_SIZE = 2
  ConnectionId <- MCConnectionId
  BufSize = 2
  Unset = Unset
  InboxCap = 1
  MaxArrivals = 2
  MaxErrors = 0
  MaxAppCalls = 0
INVARIANT SameIdSameConnection
