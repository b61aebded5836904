SPECIFICATION FairSpec
CONSTANTS
  Connection = {c1, c2, c3, c4}
  nullptr = nullptr
  RandFails = TRUE
  Byte <- MCByte
  Zero = 0
  CONNECTION_ID_SIZE = 1
  ConnectionId <- MCShortConnectionId
  BufSize = 1
  Unset = Unset
  InboxCap = 2
  MaxArrivals = 2
  MaxErrors = 1
  MaxAppCalls = 1
INVARIANTS RecheckNeverRejects OneLostPerRepeatedId
PROPERTIES WholeIdsDispatched TimeKeepsAdvancing
