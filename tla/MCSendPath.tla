------------------------------ MODULE MCSendPath ------------------------------
(* Small instances of SendPath: bytes of one bit, values of one byte and   *)
(* signed ones of two, positions from below a packet to above the largest. *)
EXTENDS SendPath, TLC

IntegralTypes == {uint8, [size |-> 2, signed |-> TRUE]}
Sizes == Size \ {0}
Indexes == -1 .. SizeMod
ObjectSymmetry == Permutations(SendPacket)
=============================================================================
