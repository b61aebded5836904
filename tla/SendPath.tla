------------------------------- MODULE SendPath -------------------------------
(***************************************************************************)
(* An outgoing packet from the pool to the wire: SendPacketPool with the   *)
(* contents of the packets, the writer every packet has                    *)
(* (WriteBufferWrapper), and the handler that sends the first              *)
(* getWriteIndex() bytes.  A packet keeps its bytes and its write position *)
(* when it goes back to the pool, and no one resets it there: its next     *)
(* holder writes behind what the last one left, unless it rewinds.         *)
(*                                                                         *)
(* The writer checks nothing, and takes any int for a position.  A write   *)
(* or a send that leaves the packet is undefined behaviour, of which       *)
(* nothing more is said.  The address of a packet is left out.             *)
(***************************************************************************)
EXTENDS SendPacketPool, BufferUtil

CONSTANTS
  IntegralType,  \* the types of the values written, [size, signed] records
  Index          \* the ints setWriteIndex is called with

ASSUME IntegralTypeAssumption == \A T \in IntegralType : T.size \in Nat
ASSUME IndexAssumption == Index \subseteq Int

VARIABLES
  buffer,      \* the bytes of every packet that exists
  writeIndex,  \* the position of its writer, counted from 0
  before,      \* history: the bytes in front of where its holder began
  written,     \* history: what its holder has written since, with its type
  room,        \* history: the bytes its holder may still write of those it
               \* asked for
  misused,     \* history: the packets whose position was set outside, and
               \* the one that was left by writing more than was asked for
  strayed      \* the packet that was left, if any: no step follows then

contentVars == <<buffer, writeIndex, before, written, room, misused, strayed>>
pathVars == <<poolVars, contentVars>>

PathInit ==
  /\ Init
  /\ buffer = [p \in SendPacket |-> <<>>]
  /\ writeIndex = [p \in SendPacket |-> 0]
  /\ before = [p \in SendPacket |-> <<>>]
  /\ written = [p \in SendPacket |-> <<>>]
  /\ room = [p \in SendPacket |-> 0]
  /\ misused = {}
  /\ strayed = {}

-----------------------------------------------------------------------------
(* The pool.                                                               *)

AddClassSize(bufferSize) ==
  strayed = {} /\ addClassSize(bufferSize) /\ UNCHANGED contentVars

(* The bytes of p in front of index; none if that is outside of p.         *)
Front(p, index) ==
  SubSeq(buffer[p], 1, IF index \in 0 .. capacity[p] THEN index ELSE 0)

(* A new holder begins behind the bytes it finds, with nothing written.    *)
Begin(p, bytes) ==
  /\ before' = [before EXCEPT ![p] = bytes]
  /\ written' = [written EXCEPT ![p] = <<>>]
  /\ room' = [room EXCEPT ![p] = 0]

(* A new object is zeroed and its position is 0; one from the pool is as   *)
(* its last holder left it.                                                *)
GetSendPacket(p, bufferSize) ==
  /\ strayed = {}
  /\ getSendPacket(p, bufferSize)
  /\ \/ /\ p \in Alive
        /\ Begin(p, Front(p, writeIndex[p]))
        /\ UNCHANGED <<buffer, writeIndex>>
     \/ /\ p \notin Alive
        /\ Begin(p, <<>>)
        /\ buffer' = [buffer EXCEPT ![p] = [n \in 1 .. capacity'[p] |-> 0]]
        /\ writeIndex' = [writeIndex EXCEPT ![p] = 0]
  /\ UNCHANGED <<misused, strayed>>

(* The holder is done with p; the contents go if the object goes.          *)
End(p) ==
  /\ strayed = {}
  /\ Begin(p, <<>>)
  /\ \/ p \in Alive' /\ UNCHANGED <<buffer, writeIndex, misused>>
     \/ /\ p \notin Alive'
        /\ buffer' = [buffer EXCEPT ![p] = <<>>]
        /\ writeIndex' = [writeIndex EXCEPT ![p] = 0]
        /\ misused' = misused \ {p}
  /\ UNCHANGED strayed

ReleaseSendPacket(p) == releaseSendPacket(p) /\ End(p)

(* A step of p's holder touches bytes outside of p: numBytes written, or   *)
(* none and the bytes up to the position read.                             *)
Stray(p, numBytes) ==
  /\ strayed = {}
  /\ strayed' = {p}
  /\ misused' = IF numBytes > room[p] THEN misused \union {p} ELSE misused
  /\ UNCHANGED <<poolVars, buffer, writeIndex, before, written, room>>

(* The handler reads the bytes up to the position.                         *)
Send(p) ==
  /\ p \in held
  /\ \/ writeIndex[p] \in 0 .. capacity[p] /\ sendPacket(p) /\ End(p)
     \/ writeIndex[p] \notin 0 .. capacity[p] /\ Stray(p, 0)

-----------------------------------------------------------------------------
(* The writer.                                                             *)

getWritableBytes(p) == capacity[p] - writeIndex[p]

(* Faulty variant: one byte more than is left counts as writable.         *)
EnsureWritableBytesOffByOne(p, numBytes) == getWritableBytes(p) + 1 >= numBytes

ensureWritableBytes(p, numBytes) == getWritableBytes(p) >= numBytes

(* A holder asks whether it may write numBytes, and may.  The question     *)
(* changes nothing in the program; here it is remembered, if it is about   *)
(* more than the holder may write already.                                 *)
Ask(p, numBytes) ==
  /\ strayed = {}
  /\ p \in held
  /\ room[p] < numBytes
  /\ ensureWritableBytes(p, numBytes)
  /\ room' = [room EXCEPT ![p] = numBytes]
  /\ UNCHANGED <<poolVars, buffer, writeIndex, before, written, misused, strayed>>

(* The bytes go over the buffer from the writer's position on, wherever    *)
(* that is; they stand for values.                                         *)
Put(p, bytes, values) ==
  LET inside == \A i \in DOMAIN bytes : writeIndex[p] + i \in DOMAIN buffer[p]
  IN  \/ /\ strayed = {} /\ inside
         /\ buffer' = [buffer EXCEPT ![p] =
              [n \in DOMAIN @ |-> IF n - writeIndex[p] \in DOMAIN bytes
                                    THEN bytes[n - writeIndex[p]] ELSE @[n]]]
         /\ writeIndex' = [writeIndex EXCEPT ![p] = @ + Len(bytes)]
         /\ written' = [written EXCEPT ![p] = @ \o values]
         /\ room' = [room EXCEPT ![p] =
                       IF @ > Len(bytes) THEN @ - Len(bytes) ELSE 0]
         /\ UNCHANGED <<poolVars, before, misused, strayed>>
      \/ ~inside /\ Stray(p, Len(bytes))

Write(p, T, value) ==
  /\ p \in held
  /\ Put(p, writeInt(T, value), <<[type |-> T, value |-> value]>>)

uint8 == [size |-> 1, signed |-> FALSE]

writeFromArray(p, bytes) ==
  /\ p \in held
  /\ Put(p, bytes, [n \in DOMAIN bytes |-> [type |-> uint8, value |-> bytes[n]]])

(* The holder begins anew at a place of the packet, 0 to rewind, or at one *)
(* outside of it.                                                          *)
setWriteIndex(p, index) ==
  /\ strayed = {}
  /\ p \in held
  /\ writeIndex' = [writeIndex EXCEPT ![p] = index]
  /\ Begin(p, Front(p, index))
  /\ misused' = IF index \in 0 .. capacity[p] THEN misused \ {p}
                                                 ELSE misused \union {p}
  /\ UNCHANGED <<poolVars, buffer, strayed>>

PathNext ==
  \/ \E bufferSize \in RequestSize : AddClassSize(bufferSize)
  \/ \E p \in SendPacket, bufferSize \in RequestSize : GetSendPacket(p, bufferSize)
  \/ \E p \in SendPacket : ReleaseSendPacket(p) \/ Send(p)
  \/ \E p \in SendPacket, numBytes \in Size : Ask(p, numBytes)
  \/ \E p \in SendPacket, index \in Index : setWriteIndex(p, index)
  \/ \E p \in SendPacket, T \in IntegralType :
       \E value \in Values(T) : Write(p, T, value)
  \/ \E p \in SendPacket, b1, b2 \in Byte : writeFromArray(p, <<b1, b2>>)

PathSpec == PathInit /\ [][PathNext]_pathVars

-----------------------------------------------------------------------------
(* The wire.                                                               *)

(* What the handler would give to send_to now.                             *)
Datagram(p) == Front(p, writeIndex[p])

(* Where the k-th of the values begins that were written from first on.    *)
Position(first, values, k) ==
  LET behind[j \in 0 .. Len(values)] ==
        IF j = 0 THEN first ELSE behind[j - 1] + values[j].type.size
  IN  behind[k - 1]

-----------------------------------------------------------------------------
(* Properties.                                                             *)

(* One question is enough for many writes: as long as a holder writes no   *)
(* more than it asked ensureWritableBytes for, no write leaves the packet, *)
(* whatever the packet's earlier holders left in it and whichever class it *)
(* went back to; and no send does.  This holds unless someone put the      *)
(* packet's position outside of it, perhaps an earlier holder.             *)
StraysOnlyIfMisused == strayed \subseteq misused

(* What a peer gets that reads the datagram from its first byte: first the *)
(* bytes that were in front of where the holder began (none if the packet  *)
(* was new or it rewound; an earlier holder's, as they were, if the packet *)
(* was used before), then the values the holder wrote since, in order,     *)
(* and nothing behind them.                                                *)
DatagramIsWhatWasWritten ==
  \A p \in held \ misused :
    LET first == Len(before[p])
    IN  /\ \A n \in 1 .. first : Datagram(p)[n] = before[p][n]
        /\ \A k \in DOMAIN written[p] :
             readInt(written[p][k].type, Datagram(p), Position(first, written[p], k))
               = written[p][k].value
        /\ Position(first, written[p], Len(written[p]) + 1) = Len(Datagram(p))
=============================================================================
