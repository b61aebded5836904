---------------------------- MODULE SendPacketPool ----------------------------
(***************************************************************************)
(* The pool of outgoing packets (Protocol/packet/SendPacketPool.h), used   *)
(* through Protocol::createSendPacket and Protocol::sendPacket.            *)
(*                                                                         *)
(* The pool keeps one vector of free packets per class size.  A packet is  *)
(* either in one of those vectors, or held by whoever asked for it, or     *)
(* does not exist: a unique_ptr has one owner.  The contents of a packet   *)
(* (its bytes, write position and address) are left out: the pool never    *)
(* looks at them.  Memory is assumed not to run out.                       *)
(***************************************************************************)
EXTENDS Integers, Sequences, FiniteSets

CONSTANTS
  SendPacket,  \* the packet objects that can exist at a time
  SizeMod,     \* a size_t is a number below SizeMod; sums wrap around
  RequestSize, \* the sizes that callers register and ask for
  margin       \* SendPacketPool::margin (32 in Protocol.h, line 139)

Size == 0 .. SizeMod - 1

ASSUME PacketAssumption == IsFiniteSet(SendPacket)
ASSUME SizeAssumption == SizeMod \in Nat \ {0} /\ margin \in Size
ASSUME RequestAssumption == RequestSize \subseteq Size

VARIABLES
  classes,      \* the keys of the map sendPackets
  sendPackets,  \* the free packets of each class; <<>> where there is none
  capacity,     \* bufferCapacity() of every packet that exists
  held,         \* the packets the callers own
  request,      \* history: the size a held packet was asked for with
  registered,   \* history: the sizes addClassSize was called with
  promised,     \* history: held packets asked for with a registered size
  peak          \* history: most packets of a capacity ever held at a time

poolVars ==
  <<classes, sendPackets, capacity, held, request, registered, promised, peak>>

Pooled(k) == {sendPackets[k][i] : i \in DOMAIN sendPackets[k]}

(* The packets that exist.                                                 *)
Alive == held \union UNION {Pooled(k) : k \in Size}

Init ==
  /\ classes = {}
  /\ sendPackets = [k \in Size |-> <<>>]
  /\ capacity = [p \in SendPacket |-> 0]
  /\ held = {}
  /\ request = [p \in SendPacket |-> 0]
  /\ registered = {}
  /\ promised = {}
  /\ peak = [k \in Size |-> 0]

-----------------------------------------------------------------------------
(* The operations.                                                         *)

(* The end of the range in which a class serves bufferSize, a size_t.      *)
Upper(bufferSize) == (bufferSize + margin) % SizeMod

(* Faulty variant: a class just below the size is taken for suitable.      *)
AddClassSizeBelow(bufferSize) ==
  /\ registered' = registered \union {bufferSize}
  /\ classes' = IF \E k \in classes : bufferSize - margin <= k /\ k <= bufferSize
                  THEN classes ELSE classes \union {bufferSize}
  /\ UNCHANGED <<sendPackets, capacity, held, request, promised, peak>>

(* A new class, unless one in [bufferSize, Upper(bufferSize)] exists.      *)
addClassSize(bufferSize) ==
  /\ registered' = registered \union {bufferSize}
  /\ classes' = IF \E k \in classes : bufferSize <= k /\ k <= Upper(bufferSize)
                  THEN classes ELSE classes \union {bufferSize}
  /\ UNCHANGED <<sendPackets, capacity, held, request, promised, peak>>

(* k is the first class that is large enough: map::lower_bound.            *)
IsLowerBound(k, bufferSize) ==
  /\ k \in classes
  /\ bufferSize <= k
  /\ \A j \in classes : bufferSize <= j => k <= j

HeldOf(k) == {p \in held : capacity[p] = k}

(* Packet p, of capacity k, goes to the caller that asked for bufferSize.  *)
HandOut(p, k, bufferSize) ==
  /\ capacity' = [capacity EXCEPT ![p] = k]
  /\ held' = held \union {p}
  /\ request' = [request EXCEPT ![p] = bufferSize]
  /\ promised' = IF bufferSize \in registered THEN promised \union {p} ELSE promised
  /\ peak' = [peak EXCEPT ![k] =
                IF Cardinality(HeldOf(k)') > @ THEN Cardinality(HeldOf(k)') ELSE @]
  /\ UNCHANGED <<classes, registered>>

(* make_unique<SendPacket>(k): an object that did not exist.               *)
Allocate(p, k, bufferSize) ==
  /\ p \in SendPacket \ Alive
  /\ HandOut(p, k, bufferSize)
  /\ UNCHANGED sendPackets

(* The last packet of the class leaves its vector.                         *)
Reuse(p, k, bufferSize) ==
  /\ sendPackets[k] # <<>>
  /\ p = sendPackets[k][Len(sendPackets[k])]
  /\ sendPackets' = [sendPackets EXCEPT ![k] = SubSeq(@, 1, Len(@) - 1)]
  /\ HandOut(p, capacity[p], bufferSize)

(* Faulty variant: the pool may allocate although the class has a free     *)
(* packet.                                                                 *)
GetSendPacketAllocating(p, bufferSize) ==
  \/ /\ \A k \in classes : k < bufferSize
     /\ Allocate(p, bufferSize, bufferSize)
  \/ \E k \in classes :
       /\ IsLowerBound(k, bufferSize)
       /\ Allocate(p, k, bufferSize) \/ Reuse(p, k, bufferSize)

(* An on-demand packet if no class is large enough; otherwise a packet of  *)
(* the first such class, a free one if it has any.                         *)
getSendPacket(p, bufferSize) ==
  \/ /\ \A k \in classes : k < bufferSize
     /\ Allocate(p, bufferSize, bufferSize)
  \/ \E k \in classes :
       /\ IsLowerBound(k, bufferSize)
       /\ \/ sendPackets[k] = <<>> /\ Allocate(p, k, bufferSize)
          \/ Reuse(p, k, bufferSize)

(* The caller gives p away: into the vector of class k ...                 *)
PutBack(p, k) ==
  /\ sendPackets' = [sendPackets EXCEPT ![k] = Append(@, p)]
  /\ UNCHANGED capacity

(* ... or for good.                                                        *)
Destroy(p) ==
  /\ capacity' = [capacity EXCEPT ![p] = 0]
  /\ UNCHANGED sendPackets

NoLongerHeld(p) ==
  /\ p \in held
  /\ held' = held \ {p}
  /\ promised' = promised \ {p}
  /\ request' = [request EXCEPT ![p] = 0]
  /\ UNCHANGED <<classes, registered, peak>>

(* Faulty variant: the packet goes to the class that would serve its       *)
(* capacity, as it does in getSendPacket.                                  *)
ReleaseToLowerBound(p) ==
  /\ NoLongerHeld(p)
  /\ \/ (\A k \in classes : k < capacity[p]) /\ Destroy(p)
     \/ \E k \in classes : IsLowerBound(k, capacity[p]) /\ PutBack(p, k)

(* Faulty variant: the result of find is not compared with end().          *)
ReleaseUnchecked(p) == NoLongerHeld(p) /\ PutBack(p, capacity[p])

(* Back to the class of exactly its capacity; if there is none, p is       *)
(* destroyed.                                                              *)
releaseSendPacket(p) ==
  /\ NoLongerHeld(p)
  /\ \/ capacity[p] \in classes /\ PutBack(p, capacity[p])
     \/ capacity[p] \notin classes /\ Destroy(p)

(* Protocol::sendPacket: the handler takes p over and destroys it once it  *)
(* is sent; it has no access to the pool.                                  *)
sendPacket(p) == NoLongerHeld(p) /\ Destroy(p)

Next ==
  \/ \E bufferSize \in RequestSize : addClassSize(bufferSize)
  \/ \E p \in SendPacket, bufferSize \in RequestSize : getSendPacket(p, bufferSize)
  \/ \E p \in SendPacket : releaseSendPacket(p)
  \/ \E p \in SendPacket : sendPacket(p)

Spec == Init /\ [][Next]_poolVars

-----------------------------------------------------------------------------
(* Properties.                                                             *)

(* The variables have their types, and only classes have free packets.     *)
TypeOK ==
  /\ classes \in SUBSET Size
  /\ sendPackets \in [Size -> Seq(SendPacket)]
  /\ \A k \in Size \ classes : sendPackets[k] = <<>>
  /\ capacity \in [SendPacket -> Size]
  /\ held \in SUBSET SendPacket
  /\ request \in [SendPacket -> Size]
  /\ registered \in SUBSET Size
  /\ promised \in SUBSET held
  /\ peak \in [Size -> Nat]

(* Every free packet is in the vector of its own capacity, at one place,   *)
(* and no caller owns it: no step hands one packet to two callers or       *)
(* passes a small packet off as a larger one.                              *)
FreePacketsInPlace ==
  \A k \in Size : \A i \in DOMAIN sendPackets[k] :
    /\ capacity[sendPackets[k][i]] = k
    /\ sendPackets[k][i] \notin held
    /\ \A j \in DOMAIN sendPackets[k] : sendPackets[k][j] = sendPackets[k][i] => j = i

(* A caller's packet has room for the size it asked for, whatever was      *)
(* registered, released and reused before.                                 *)
HeldPacketsLargeEnough == \A p \in held : request[p] <= capacity[p]

(* A size that was registered when the packet was asked for wastes at most *)
(* margin bytes, and the packet has a class to go back to, even if         *)
(* addClassSize added no class of its own for that size.                   *)
RegisteredSizesFit ==
  \A p \in promised :
    /\ capacity[p] <= request[p] + margin
    /\ capacity[p] \in classes

(* The pool is no larger than its use was: there are never more packets of *)
(* a capacity than callers once held at the same time.                     *)
NoMorePacketsThanPeak ==
  \A k \in Size : Cardinality({p \in Alive : capacity[p] = k}) <= peak[k]
=============================================================================
