SPECIFICATION PathSpec
CONSTANTS
  SendPacket = {p1, p2}
  SizeMod = 3
  RequestSize <- Sizes
  margin = 1
  ByteMod = 2
  IntegralType <- IntegralTypes
  Index <- Indexes
SYMMETRY ObjectSymmetry
INVARIANTS
  TypeOK FreePacketsInPlace HeldPacketsLargeEnough RegisteredSizesFit NoMorePacketsThanPeak
  StraysOnlyIfMisused DatagramIsWhatWasWritten
CHECK_DEADLOCK FALSE
