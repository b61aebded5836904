---------------------------- MODULE MCReceiveLoop ----------------------------
(* Small instances of ReceiveLoop: ids of two bytes, a receive array just  *)
(* as long, so that every datagram length from 0 to a full id occurs.      *)
EXTENDS ReceiveLoop, TLC

MCByte == {0, 1}
MCConnectionId == [1..2 -> MCByte]

(* For liveness a header of one byte is enough: what matters is the order *)
(* of arrivals, errors and rounds.                                        *)
MCShortConnectionId == [1..1 -> MCByte]

ObjectSymmetry == Permutations(Connection)
=============================================================================
