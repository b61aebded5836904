------------------------------ MODULE BufferUtil ------------------------------
(***************************************************************************)
(* The integer codecs of Data/buffer/BufferUtil.h.  An integral type is    *)
(* its size in bytes and whether it is signed; a byte is a number below    *)
(* ByteMod.  A shift right by a byte is a division rounded down, also of a *)
(* negative number.                                                        *)
(***************************************************************************)
EXTENDS Integers, Sequences

CONSTANTS ByteMod  \* 256

ASSUME ByteAssumption == ByteMod \in Nat \ {0, 1}

Byte == 0 .. ByteMod - 1

(* ByteMod to the n-th: a shift by n bytes multiplies or divides by it.    *)
Power[n \in Nat] == IF n = 0 THEN 1 ELSE ByteMod * Power[n - 1]

(* The values of a type.                                                   *)
Values(T) ==
  LET mod == Power[T.size]
  IN  IF T.signed THEN -(mod \div 2) .. (mod - 1) \div 2 ELSE 0 .. mod - 1

(* Faulty variant: least significant byte first, as the host stores it.    *)
WriteIntHostOrder(T, value) ==
  [i \in 1 .. T.size |-> (value \div Power[i - 1]) % ByteMod]

(* The bytes of value, most significant first.                             *)
writeInt(T, value) ==
  [i \in 1 .. T.size |-> (value \div Power[T.size - i]) % ByteMod]

(* The value of the bytes of data behind position at.  They are or-ed      *)
(* together as the bits of a T, the upper half of which is negative if T   *)
(* is signed.                                                              *)
readInt(T, data, at) ==
  LET bits[i \in 0 .. T.size] ==
        IF i = 0 THEN 0
                 ELSE bits[i - 1] + data[at + i] * Power[T.size - i]
      mod == Power[T.size]
  IN  IF T.signed /\ bits[T.size] > (mod - 1) \div 2 THEN bits[T.size] - mod
                                                    ELSE bits[T.size]
=============================================================================
