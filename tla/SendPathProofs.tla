---------------------------- MODULE SendPathProofs ----------------------------
(***************************************************************************)
(* Proofs about SendPacketPool and, on top of them, about SendPath.  What  *)
(* a caller may rely on (its packet is large enough, wastes little and can *)
(* go back) is not inductive: it rests on FreePacketsInPlace, because a    *)
(* packet that is reused takes its capacity from the past, and on          *)
(* RegisteredServed, which says why a registered size never needs an       *)
(* on-demand packet.  The path adds the writer, which checks nothing: a    *)
(* packet keeps its write position in the pool, so what its next holder    *)
(* may write rests on the capacity it keeps there (WriterFits).  That the  *)
(* datagram reads back needs the codec, whose loop brings back the bytes   *)
(* of any value, and HeldEncoded: what the holder wrote lies in the        *)
(* packet, one value behind the other, between the bytes it found and the  *)
(* write position.                                                         *)
(***************************************************************************)
EXTENDS SendPath, RecursionLemmas

(* Every registered size has a class that wastes at most margin bytes.     *)
RegisteredServed ==
  \A s \in registered : \E k \in classes : s <= k /\ k <= s + margin

PoolInv ==
  /\ TypeOK /\ FreePacketsInPlace /\ RegisteredServed
  /\ HeldPacketsLargeEnough /\ RegisteredSizesFit
  /\ NoMorePacketsThanPeak

-----------------------------------------------------------------------------
(* Lemmas about the operators.                                             *)

(* The range of addClassSize never reaches too far, although its end is a  *)
(* sum that may wrap around: where it does, no size_t lies beyond it.      *)
LEMMA UpperWraps ==
  ASSUME NEW s \in Size, NEW k \in Size, s <= k, k <= Upper(s)
  PROVE  k <= s + margin
<1> USE SizeAssumption DEF Size
<1>1. CASE s + margin < SizeMod
  <2>1. (s + margin) % SizeMod = s + margin
    BY <1>1
  <2>2. QED
    BY <2>1 DEF Upper
<1>2. CASE s + margin >= SizeMod
  BY <1>2
<1>3. QED
  BY <1>1, <1>2

LEMMA HeldOfFinite ==
  ASSUME TypeOK, NEW k PROVE IsFiniteSet(HeldOf(k)) /\ Cardinality(HeldOf(k)) \in Nat
<1>1. HeldOf(k) \subseteq SendPacket
  BY DEF TypeOK, HeldOf
<1>2. QED
  BY <1>1, PacketAssumption, FS_Subset, FS_CardinalityType

(* The last element of a vector, and what pop_back leaves.                 *)
LEMMA PopBack ==
  ASSUME NEW S, NEW v \in Seq(S), v # <<>>,
         NEW w, w = SubSeq(v, 1, Len(v) - 1)
  PROVE  /\ Len(v) \in DOMAIN v /\ v[Len(v)] \in S
         /\ w \in Seq(S) /\ DOMAIN w = 1 .. Len(v) - 1
         /\ \A i \in DOMAIN w : i \in DOMAIN v /\ w[i] = v[i] /\ i # Len(v)
OBVIOUS

LEMMA PushBack ==
  ASSUME NEW S, NEW v \in Seq(S), NEW e \in S, NEW w, w = Append(v, e)
  PROVE  /\ w \in Seq(S) /\ DOMAIN w = DOMAIN v \union {Len(v) + 1}
         /\ Len(v) + 1 \notin DOMAIN v
         /\ w[Len(v) + 1] = e
         /\ \A i \in DOMAIN v : w[i] = v[i]
OBVIOUS

LEMMA PoolInvInit == Init => PoolInv
<1> SUFFICES ASSUME Init PROVE PoolInv
  OBVIOUS
<1> USE DEF Init
<1>1. TypeOK
  BY SizeAssumption DEF TypeOK, Size
<1>2. FreePacketsInPlace /\ RegisteredServed /\ HeldPacketsLargeEnough /\ RegisteredSizesFit
  BY DEF FreePacketsInPlace, RegisteredServed, HeldPacketsLargeEnough, RegisteredSizesFit
<1>3. NoMorePacketsThanPeak
  <2> SUFFICES ASSUME NEW k \in Size
               PROVE  Cardinality({p \in Alive : capacity[p] = k}) <= peak[k]
    BY DEF NoMorePacketsThanPeak
  <2>1. Alive = {}
    BY DEF Alive, Pooled
  <2>2. {p \in Alive : capacity[p] = k} = {}
    BY <2>1
  <2>3. Cardinality({p \in Alive : capacity[p] = k}) = 0
    BY <2>2, FS_EmptySet
  <2>4. QED
    BY <2>3
<1>4. QED
  BY <1>1, <1>2, <1>3 DEF PoolInv

-----------------------------------------------------------------------------
(* addClassSize.                                                           *)

LEMMA AddClassSizeInv ==
  ASSUME PoolInv, NEW s \in Size, addClassSize(s) PROVE PoolInv'
<1> USE DEF PoolInv, addClassSize
<1>0. classes \subseteq classes' /\ classes' \subseteq classes \union {s}
  OBVIOUS
<1>1. TypeOK'
  BY <1>0 DEF TypeOK
<1>2. FreePacketsInPlace' /\ HeldPacketsLargeEnough'
  BY DEF FreePacketsInPlace, HeldPacketsLargeEnough
<1>3. RegisteredServed'
  <2>1. \E k \in classes' : s <= k /\ k <= s + margin
    <3>1. CASE \E k \in classes : s <= k /\ k <= Upper(s)
      <4>1. PICK k \in classes : s <= k /\ k <= Upper(s)
        BY <3>1
      <4>2. k <= s + margin
        BY <4>1, UpperWraps DEF TypeOK
      <4>3. QED
        BY <1>0, <4>1, <4>2
    <3>2. CASE ~ \E k \in classes : s <= k /\ k <= Upper(s)
      <4>1. s \in classes'
        BY <3>2
      <4>2. s <= s /\ s <= s + margin
        BY SizeAssumption DEF Size
      <4>3. QED
        BY <4>1, <4>2
    <3>3. QED
      BY <3>1, <3>2
  <2>2. QED
    BY <1>0, <2>1 DEF RegisteredServed
<1>4. RegisteredSizesFit'
  BY <1>0 DEF RegisteredSizesFit
<1>5. NoMorePacketsThanPeak'
  BY DEF NoMorePacketsThanPeak, Alive, Pooled
<1>6. QED
  BY <1>1, <1>2, <1>3, <1>4, <1>5

-----------------------------------------------------------------------------
(* getSendPacket.                                                          *)

(* The history of the packets handed out: only p and its capacity change.  *)
LEMMA HandOutTypes ==
  ASSUME TypeOK, NEW p \in SendPacket, NEW k \in Size, NEW s \in Size,
         HandOut(p, k, s)
  PROVE  /\ capacity' \in [SendPacket -> Size] /\ held' \in SUBSET SendPacket
         /\ request' \in [SendPacket -> Size] /\ promised' \in SUBSET held'
         /\ peak' \in [Size -> Nat]
         /\ \A j \in Size : peak[j] <= peak'[j]
         /\ Cardinality(HeldOf(k)') <= peak'[k]
<1>1. capacity' \in [SendPacket -> Size] /\ held' \in SUBSET SendPacket
      /\ request' \in [SendPacket -> Size] /\ promised' \in SUBSET held'
  BY DEF TypeOK, HandOut
<1>2. Cardinality(HeldOf(k)') \in Nat
  <2>1. HeldOf(k)' \subseteq SendPacket
    BY <1>1 DEF HeldOf
  <2>2. QED
    BY <2>1, PacketAssumption, FS_Subset, FS_CardinalityType
<1>3. DEFINE c == Cardinality(HeldOf(k)')
<1>4. peak' = [peak EXCEPT ![k] = IF c > @ THEN c ELSE @]
  BY DEF HandOut
<1>5. c \in Nat
  BY <1>2
<1>6. HIDE DEF c
<1>7. /\ peak' \in [Size -> Nat]
      /\ \A j \in Size : peak[j] <= peak'[j]
      /\ c <= peak'[k]
  BY <1>4, <1>5 DEF TypeOK
<1>8. QED
  BY <1>1, <1>7 DEF c

(* What a caller may rely on, from the class it was served from.           *)
LEMMA HandOutFits ==
  ASSUME PoolInv, NEW p \in SendPacket, NEW k \in Size, NEW s \in Size,
         HandOut(p, k, s), s <= k,
         s \in registered => IsLowerBound(k, s),
         p \notin held
  PROVE  HeldPacketsLargeEnough' /\ RegisteredSizesFit' /\ RegisteredServed'
<1> USE DEF PoolInv, TypeOK, HandOut
<1>1. capacity'[p] = k /\ request'[p] = s
  OBVIOUS
<1>2. HeldPacketsLargeEnough'
  BY <1>1 DEF HeldPacketsLargeEnough
<1>3. RegisteredServed'
  BY DEF RegisteredServed
<1>4. RegisteredSizesFit'
  <2>1. ASSUME s \in registered
        PROVE  k <= s + margin /\ k \in classes
    <3>1. IsLowerBound(k, s)
      BY <2>1
    <3>2. PICK j \in classes : s <= j /\ j <= s + margin
      BY <2>1 DEF RegisteredServed
    <3>3. k \in classes /\ k <= j
      BY <3>1, <3>2 DEF IsLowerBound
    <3>4. QED
      BY <3>2, <3>3, SizeAssumption DEF Size
  <2>2. p \notin promised
    OBVIOUS
  <2>3. QED
    BY <1>1, <2>1, <2>2 DEF RegisteredSizesFit
<1>5. QED
  BY <1>2, <1>3, <1>4

(* The packets of a capacity, free or held.                                *)
OfCapacity(k) == {p \in Alive : capacity[p] = k}

LEMMA OfCapacityFinite ==
  ASSUME TypeOK, NEW k
  PROVE  IsFiniteSet(OfCapacity(k)) /\ Cardinality(OfCapacity(k)) \in Nat
<1>1. Alive \subseteq SendPacket
  BY DEF TypeOK, Alive, Pooled
<1>2. OfCapacity(k) \subseteq SendPacket
  BY <1>1 DEF OfCapacity
<1>3. QED
  BY <1>2, PacketAssumption, FS_Subset, FS_CardinalityType

(* A step that adds no packet of a capacity keeps below its peak.          *)
LEMMA NoNewPackets ==
  ASSUME PoolInv, TypeOK', NEW j \in Size,
         OfCapacity(j)' \subseteq OfCapacity(j), peak[j] <= peak'[j]
  PROVE  Cardinality(OfCapacity(j)') <= peak'[j]
<1>1. /\ IsFiniteSet(OfCapacity(j)) /\ Cardinality(OfCapacity(j)) \in Nat
      /\ peak[j] \in Nat /\ peak'[j] \in Nat
  BY OfCapacityFinite DEF PoolInv, TypeOK
<1>2. /\ Cardinality(OfCapacity(j)') <= Cardinality(OfCapacity(j))
      /\ Cardinality(OfCapacity(j)') \in Nat
  BY <1>1, FS_Subset, FS_CardinalityType
<1>3. Cardinality(OfCapacity(j)) <= peak[j]
  BY DEF PoolInv, NoMorePacketsThanPeak, OfCapacity
<1>4. QED
  BY <1>1, <1>2, <1>3

LEMMA PeakMeaning ==
  ASSUME \A j \in Size : Cardinality(OfCapacity(j)') <= peak'[j]
  PROVE  NoMorePacketsThanPeak'
BY DEF NoMorePacketsThanPeak, OfCapacity

(* Allocation happens when the class is empty: all packets of its capacity *)
(* are held, the new one included.                                         *)
LEMMA AllocateInv ==
  ASSUME PoolInv, NEW p \in SendPacket, NEW k \in Size, NEW s \in Size,
         Allocate(p, k, s), s <= k, s \in registered => IsLowerBound(k, s),
         sendPackets[k] = <<>>
  PROVE  PoolInv'
<1>1. /\ HandOut(p, k, s) /\ sendPackets' = sendPackets /\ p \notin Alive
      /\ TypeOK /\ FreePacketsInPlace
  BY DEF Allocate, PoolInv
<1>2. TypeOK'
  BY <1>1, HandOutTypes DEF TypeOK, HandOut
<1>3. HeldPacketsLargeEnough' /\ RegisteredSizesFit' /\ RegisteredServed'
  BY <1>1, HandOutFits DEF Alive
<1>4. FreePacketsInPlace'
  <2> SUFFICES ASSUME NEW j \in Size, NEW i \in DOMAIN sendPackets[j]
               PROVE  /\ capacity'[sendPackets[j][i]] = j
                      /\ sendPackets[j][i] \notin held'
                      /\ \A m \in DOMAIN sendPackets[j] :
                           sendPackets[j][m] = sendPackets[j][i] => m = i
    BY <1>1 DEF FreePacketsInPlace
  <2>1. sendPackets[j][i] \in SendPacket /\ sendPackets[j][i] # p
    BY <1>1 DEF TypeOK, Alive, Pooled
  <2>2. QED
    BY <1>1, <2>1 DEF FreePacketsInPlace, HandOut, TypeOK
<1>5. ASSUME NEW j \in Size PROVE Cardinality(OfCapacity(j)') <= peak'[j]
  <2>1. Alive' = Alive \union {p}
    BY <1>1 DEF Alive, Pooled, HandOut
  <2>2. CASE j = k
    <3>1. ASSUME NEW q \in Alive', capacity'[q] = k
          PROVE  q \in held'
      <4>1. CASE q = p \/ q \in held
        BY <1>1, <4>1 DEF HandOut
      <4>2. CASE q # p /\ q \notin held
        <5>1. PICK m \in Size : q \in Pooled(m)
          BY <2>1, <3>1, <4>2 DEF Alive
        <5>2. q \in SendPacket /\ capacity[q] = m
          BY <1>1, <5>1 DEF Pooled, FreePacketsInPlace, TypeOK
        <5>3. m = k
          BY <1>1, <3>1, <4>2, <5>2 DEF HandOut, TypeOK
        <5>4. QED
          BY <5>1, <5>3 DEF Pooled
      <4>3. QED
        BY <4>1, <4>2
    <3>2. OfCapacity(k)' = HeldOf(k)'
      BY <3>1 DEF OfCapacity, HeldOf, Alive
    <3>3. QED
      BY <1>1, <2>2, <3>2, HandOutTypes
  <2>3. CASE j # k
    <3>1. OfCapacity(j)' \subseteq OfCapacity(j)
      BY <1>1, <2>1, <2>3 DEF OfCapacity, HandOut, TypeOK, Alive, Pooled
    <3>2. QED
      BY <1>1, <1>2, <3>1, NoNewPackets, HandOutTypes
  <2>4. QED
    BY <2>2, <2>3
<1>6. QED
  BY <1>2, <1>3, <1>4, <1>5, PeakMeaning DEF PoolInv

(* A reused packet changes hands: it leaves its vector with its capacity.  *)
LEMMA ReuseInv ==
  ASSUME PoolInv, NEW p \in SendPacket, NEW k \in Size, NEW s \in Size,
         Reuse(p, k, s), IsLowerBound(k, s)
  PROVE  PoolInv'
<1> DEFINE v == sendPackets[k]
           w == SubSeq(v, 1, Len(v) - 1)
<1>1. /\ TypeOK /\ FreePacketsInPlace
      /\ v \in Seq(SendPacket) /\ v # <<>> /\ p = v[Len(v)]
      /\ sendPackets' = [sendPackets EXCEPT ![k] = w]
      /\ HandOut(p, capacity[p], s)
  BY DEF Reuse, PoolInv, TypeOK
<1>2. /\ Len(v) \in DOMAIN v /\ w \in Seq(SendPacket)
      /\ \A i \in DOMAIN w : i \in DOMAIN v /\ w[i] = v[i] /\ i # Len(v)
  BY <1>1, PopBack
<1>3. capacity[p] = k /\ p \notin held
  BY <1>1, <1>2 DEF FreePacketsInPlace
<1>4. capacity' = capacity /\ held' = held \union {p} /\ classes' = classes
  BY <1>1, <1>3 DEF HandOut, TypeOK
<1>5. TypeOK'
  <2>1. sendPackets' \in [Size -> Seq(SendPacket)]
    BY <1>1, <1>2 DEF TypeOK
  <2>2. \A j \in Size \ classes' : sendPackets'[j] = <<>>
    BY <1>1, <1>4 DEF TypeOK, IsLowerBound
  <2>3. /\ capacity' \in [SendPacket -> Size] /\ held' \in SUBSET SendPacket
        /\ request' \in [SendPacket -> Size] /\ promised' \in SUBSET held'
        /\ peak' \in [Size -> Nat]
    BY <1>1, <1>3, HandOutTypes
  <2>4. registered' \in SUBSET Size /\ classes' \in SUBSET Size
    BY <1>1 DEF TypeOK, HandOut
  <2>5. QED
    BY <2>1, <2>2, <2>3, <2>4 DEF TypeOK
<1>6. HeldPacketsLargeEnough' /\ RegisteredSizesFit' /\ RegisteredServed'
  BY <1>1, <1>3, HandOutFits DEF IsLowerBound
<1>7. ASSUME NEW j \in Size, NEW i \in DOMAIN sendPackets'[j]
      PROVE  /\ i \in DOMAIN sendPackets[j] /\ sendPackets'[j][i] = sendPackets[j][i]
             /\ sendPackets[j][i] # p
  <2>1. CASE j = k
    BY <1>1, <1>2, <2>1 DEF FreePacketsInPlace, TypeOK
  <2>2. CASE j # k
    <3>1. sendPackets'[j] = sendPackets[j]
      BY <1>1, <2>2 DEF TypeOK
    <3>2. QED
      BY <1>1, <1>3, <2>2, <3>1 DEF FreePacketsInPlace
  <2>3. QED
    BY <2>1, <2>2
<1>8. FreePacketsInPlace'
  BY <1>1, <1>4, <1>7 DEF FreePacketsInPlace
<1>9. ASSUME NEW j \in Size PROVE Cardinality(OfCapacity(j)') <= peak'[j]
  <2>1. Alive' \subseteq Alive
    <3>1. p \in Pooled(k)
      BY <1>1, <1>2 DEF Pooled
    <3>2. \A m \in Size : Pooled(m)' \subseteq Pooled(m)
      BY <1>7 DEF Pooled
    <3>3. QED
      BY <1>4, <3>1, <3>2 DEF Alive
  <2>2. OfCapacity(j)' \subseteq OfCapacity(j)
    BY <1>4, <2>1 DEF OfCapacity
  <2>3. QED
    BY <1>1, <1>3, <1>5, <2>2, NoNewPackets, HandOutTypes
<1>10. QED
  BY <1>5, <1>6, <1>8, <1>9, PeakMeaning DEF PoolInv

LEMMA GetSendPacketInv ==
  ASSUME PoolInv, NEW p \in SendPacket, NEW s \in Size, getSendPacket(p, s)
  PROVE  PoolInv'
<1>1. CASE (\A k \in classes : k < s) /\ Allocate(p, s, s)
  <2>1. s \notin classes /\ sendPackets[s] = <<>>
    BY <1>1 DEF PoolInv, TypeOK, Size
  <2>2. s \notin registered
    BY <1>1, SizeAssumption DEF PoolInv, TypeOK, RegisteredServed, Size
  <2>3. QED
    BY <1>1, <2>1, <2>2, AllocateInv DEF Size
<1>2. CASE \E k \in classes :
              /\ IsLowerBound(k, s)
              /\ \/ sendPackets[k] = <<>> /\ Allocate(p, k, s)
                 \/ Reuse(p, k, s)
  <2>1. PICK k \in classes :
              /\ IsLowerBound(k, s)
              /\ \/ sendPackets[k] = <<>> /\ Allocate(p, k, s)
                 \/ Reuse(p, k, s)
    BY <1>2
  <2>2. k \in Size /\ s <= k
    BY <2>1 DEF PoolInv, TypeOK, IsLowerBound
  <2>3. QED
    BY <2>1, <2>2, AllocateInv, ReuseInv
<1>3. QED
  BY <1>1, <1>2 DEF getSendPacket

-----------------------------------------------------------------------------
(* releaseSendPacket and sendPacket.                                       *)

LEMMA NoLongerHeldTypes ==
  ASSUME TypeOK, NEW p \in SendPacket, NoLongerHeld(p)
  PROVE  /\ classes' \in SUBSET Size /\ registered' \in SUBSET Size
         /\ held' \in SUBSET SendPacket /\ promised' \in SUBSET held'
         /\ request' \in [SendPacket -> Size] /\ peak' \in [Size -> Nat]
<1>1. 0 \in Size
  BY SizeAssumption DEF Size
<1>2. QED
  BY <1>1 DEF TypeOK, NoLongerHeld

(* What every way of giving a packet away does to what callers hold.       *)
LEMMA NoLongerHeldFits ==
  ASSUME PoolInv, NEW p \in SendPacket, NoLongerHeld(p),
         \A q \in SendPacket \ {p} : capacity'[q] = capacity[q]
  PROVE  HeldPacketsLargeEnough' /\ RegisteredSizesFit' /\ RegisteredServed'
<1>1. \A q \in held' :
        q \in held /\ request'[q] = request[q] /\ capacity'[q] = capacity[q]
  BY DEF NoLongerHeld, PoolInv, TypeOK
<1>2. \A q \in promised' :
        q \in promised /\ request'[q] = request[q] /\ capacity'[q] = capacity[q]
  BY DEF NoLongerHeld, PoolInv, TypeOK
<1>3. HeldPacketsLargeEnough'
  BY <1>1 DEF PoolInv, HeldPacketsLargeEnough
<1>4. RegisteredSizesFit'
  BY <1>2 DEF PoolInv, RegisteredSizesFit, NoLongerHeld
<1>5. RegisteredServed'
  BY DEF PoolInv, RegisteredServed, NoLongerHeld
<1>6. QED
  BY <1>3, <1>4, <1>5

LEMMA DestroyInv ==
  ASSUME PoolInv, NEW p \in SendPacket, NoLongerHeld(p), Destroy(p)
  PROVE  PoolInv'
<1>1. TypeOK'
  <2>1. 0 \in Size /\ TypeOK
    BY SizeAssumption DEF Size, PoolInv
  <2>2. /\ capacity' \in [SendPacket -> Size] /\ sendPackets' = sendPackets
        /\ classes' = classes
    BY <2>1 DEF Destroy, NoLongerHeld, TypeOK
  <2>3. QED
    BY <2>1, <2>2, NoLongerHeldTypes DEF TypeOK
<1>2. HeldPacketsLargeEnough' /\ RegisteredSizesFit' /\ RegisteredServed'
  BY NoLongerHeldFits DEF Destroy, PoolInv, TypeOK
<1>3. \A k \in Size : \A i \in DOMAIN sendPackets[k] :
        /\ sendPackets[k][i] \in SendPacket /\ sendPackets[k][i] # p
        /\ capacity[sendPackets[k][i]] = k /\ sendPackets[k][i] \notin held
  BY DEF PoolInv, TypeOK, FreePacketsInPlace, NoLongerHeld
<1>4. FreePacketsInPlace'
  BY <1>3 DEF PoolInv, TypeOK, FreePacketsInPlace, NoLongerHeld, Destroy
<1>5. ASSUME NEW j \in Size PROVE Cardinality(OfCapacity(j)') <= peak'[j]
  <2>1. p \notin Alive' /\ Alive' \subseteq Alive /\ Alive \subseteq SendPacket
    BY <1>3 DEF Alive, Pooled, NoLongerHeld, Destroy, PoolInv, TypeOK
  <2>2. OfCapacity(j)' \subseteq OfCapacity(j)
    BY <2>1 DEF OfCapacity, Destroy, PoolInv, TypeOK
  <2>3. peak[j] <= peak'[j]
    BY DEF NoLongerHeld, PoolInv, TypeOK
  <2>4. QED
    BY <1>1, <2>2, <2>3, NoNewPackets
<1>6. QED
  BY <1>1, <1>2, <1>4, <1>5, PeakMeaning DEF PoolInv

LEMMA PutBackInv ==
  ASSUME PoolInv, NEW p \in SendPacket, NEW k \in classes, capacity[p] = k,
         NoLongerHeld(p), PutBack(p, k)
  PROVE  PoolInv'
<1> DEFINE v == sendPackets[k]
           w == Append(v, p)
<1>1. /\ TypeOK /\ FreePacketsInPlace /\ k \in Size
      /\ v \in Seq(SendPacket)
      /\ sendPackets' = [sendPackets EXCEPT ![k] = w]
      /\ capacity' = capacity /\ classes' = classes
      /\ p \in held /\ held' = held \ {p} /\ peak' = peak
  BY DEF PutBack, PoolInv, TypeOK, NoLongerHeld
<1>2. /\ w \in Seq(SendPacket) /\ DOMAIN w = DOMAIN v \union {Len(v) + 1}
      /\ Len(v) + 1 \notin DOMAIN v /\ w[Len(v) + 1] = p
      /\ \A i \in DOMAIN v : w[i] = v[i]
  BY <1>1, PushBack
<1>3. TypeOK'
  <2>1. sendPackets' \in [Size -> Seq(SendPacket)]
    BY <1>1, <1>2 DEF TypeOK
  <2>2. \A j \in Size \ classes' : sendPackets'[j] = <<>>
    BY <1>1 DEF TypeOK
  <2>3. QED
    BY <1>1, <2>1, <2>2, NoLongerHeldTypes DEF TypeOK
<1>4. HeldPacketsLargeEnough' /\ RegisteredSizesFit' /\ RegisteredServed'
  BY <1>1, NoLongerHeldFits
<1>5. FreePacketsInPlace'
  <2> SUFFICES ASSUME NEW j \in Size, NEW i \in DOMAIN sendPackets'[j]
               PROVE  /\ capacity'[sendPackets'[j][i]] = j
                      /\ sendPackets'[j][i] \notin held'
                      /\ \A m \in DOMAIN sendPackets'[j] :
                           sendPackets'[j][m] = sendPackets'[j][i] => m = i
    BY DEF FreePacketsInPlace
  <2>1. CASE j = k
    <3>1. sendPackets'[j] = w
      BY <1>1, <2>1 DEF TypeOK
    <3>2. \A m \in DOMAIN v : v[m] # p /\ capacity[v[m]] = k /\ v[m] \notin held
      BY <1>1 DEF FreePacketsInPlace
    <3>3. \A m, l \in DOMAIN v : v[m] = v[l] => m = l
      BY <1>1 DEF FreePacketsInPlace
    <3>4. QED
      BY <1>1, <1>2, <2>1, <3>1, <3>2, <3>3
  <2>2. CASE j # k
    <3>1. sendPackets'[j] = sendPackets[j]
      BY <1>1, <2>2 DEF TypeOK
    <3>2. QED
      BY <1>1, <3>1 DEF FreePacketsInPlace
  <2>3. QED
    BY <2>1, <2>2
<1>6. ASSUME NEW j \in Size PROVE Cardinality(OfCapacity(j)') <= peak'[j]
  <2>1. \A m \in Size : Pooled(m)' \subseteq Pooled(m) \union {p}
    BY <1>1, <1>2 DEF Pooled, TypeOK
  <2>2. Alive' \subseteq Alive
    BY <1>1, <2>1 DEF Alive
  <2>3. OfCapacity(j)' \subseteq OfCapacity(j)
    BY <1>1, <2>2 DEF OfCapacity
  <2>4. peak[j] <= peak'[j]
    BY <1>1 DEF TypeOK
  <2>5. QED
    BY <1>3, <2>3, <2>4, NoNewPackets
<1>7. QED
  BY <1>3, <1>4, <1>5, <1>6, PeakMeaning DEF PoolInv

-----------------------------------------------------------------------------
(* The theorems.                                                           *)

LEMMA PoolStep == PoolInv /\ [Next]_poolVars => PoolInv'
<1> SUFFICES ASSUME PoolInv, [Next]_poolVars PROVE PoolInv'
  OBVIOUS
<1>1. ASSUME NEW s \in Size, addClassSize(s) PROVE PoolInv'
  BY <1>1, AddClassSizeInv
<1>2. ASSUME NEW p \in SendPacket, NEW s \in Size, getSendPacket(p, s) PROVE PoolInv'
  BY <1>2, GetSendPacketInv
<1>3. ASSUME NEW p \in SendPacket, releaseSendPacket(p) PROVE PoolInv'
  BY <1>3, PutBackInv, DestroyInv DEF releaseSendPacket
<1>4. ASSUME NEW p \in SendPacket, sendPacket(p) PROVE PoolInv'
  BY <1>4, DestroyInv DEF sendPacket
<1>5. CASE UNCHANGED poolVars
  BY <1>5 DEF poolVars, PoolInv, TypeOK, FreePacketsInPlace, RegisteredServed,
              HeldPacketsLargeEnough, RegisteredSizesFit, NoMorePacketsThanPeak,
              Alive, Pooled
<1>6. QED
  BY <1>1, <1>2, <1>3, <1>4, <1>5, RequestAssumption DEF Next

LEMMA PoolInvariant == Spec => []PoolInv
BY PoolInvInit, PoolStep, PTL DEF Spec

(* The pool's variables keep their types, and only classes have free       *)
(* packets.                                                                *)
THEOREM PoolTypeCorrect == Spec => []TypeOK
BY PoolInvariant, PTL DEF PoolInv

(* A packet has one place at a time: in the vector of its own capacity,    *)
(* once, or with one caller.                                               *)
THEOREM PacketsStayInPlace == Spec => []FreePacketsInPlace
BY PoolInvariant, PTL DEF PoolInv

(* A caller never gets a packet smaller than it asked for.                 *)
THEOREM PacketsAreLargeEnough == Spec => []HeldPacketsLargeEnough
BY PoolInvariant, PTL DEF PoolInv

(* For a registered size the packet is at most margin too large and has a  *)
(* class to go back to, for every margin and width of size_t.              *)
THEOREM RegisteredSizesAreServed == Spec => []RegisteredSizesFit
BY PoolInvariant, PTL DEF PoolInv

(* The pool never outgrows the use that was made of it.                    *)
THEOREM PoolIsBounded == Spec => []NoMorePacketsThanPeak
BY PoolInvariant, PTL DEF PoolInv

-----------------------------------------------------------------------------
(* The path.                                                               *)

(* Who exists after getSendPacket, and with what capacity.                 *)
LEMMA HandOutKeepsOthers ==
  ASSUME PoolInv, NEW p \in SendPacket, NEW s \in Size, getSendPacket(p, s)
  PROVE  /\ Alive' \subseteq Alive \union {p}
         /\ \A q \in SendPacket \ {p} : capacity'[q] = capacity[q]
         /\ p \in Alive => capacity' = capacity
<1>1. ASSUME NEW k \in Size, Allocate(p, k, s)
      PROVE  /\ Alive' = Alive \union {p} /\ p \notin Alive
             /\ \A q \in SendPacket \ {p} : capacity'[q] = capacity[q]
  <2>1. Alive' = Alive \union {p} /\ p \notin Alive
    BY <1>1 DEF Allocate, HandOut, Alive, Pooled
  <2>2. QED
    BY <1>1, <2>1 DEF Allocate, HandOut, PoolInv, TypeOK
<1>2. ASSUME NEW k \in Size, Reuse(p, k, s)
      PROVE  Alive' \subseteq Alive \union {p} /\ capacity' = capacity
  <2> DEFINE v == sendPackets[k]
             w == SubSeq(v, 1, Len(v) - 1)
  <2>1. /\ v \in Seq(SendPacket) /\ v # <<>>
        /\ sendPackets' = [sendPackets EXCEPT ![k] = w]
        /\ HandOut(p, capacity[p], s)
    BY <1>2 DEF Reuse, PoolInv, TypeOK
  <2>2. \A i \in DOMAIN w : i \in DOMAIN v /\ w[i] = v[i]
    BY <2>1, PopBack
  <2>3. \A m \in Size : Pooled(m)' \subseteq Pooled(m)
    BY <2>1, <2>2 DEF Pooled, PoolInv, TypeOK
  <2>4. held' = held \union {p} /\ capacity' = capacity
    BY <2>1 DEF HandOut, PoolInv, TypeOK
  <2>5. QED
    BY <2>3, <2>4 DEF Alive
<1>3. CASE Allocate(p, s, s)
  BY <1>1, <1>3
<1>4. CASE \E k \in Size : Allocate(p, k, s) \/ Reuse(p, k, s)
  BY <1>1, <1>2, <1>4
<1>5. QED
  BY <1>3, <1>4 DEF getSendPacket, PoolInv, TypeOK

(* Who exists after a packet was given away.                               *)
LEMMA GivingAwayKeepsOthers ==
  ASSUME PoolInv, NEW p \in SendPacket, releaseSendPacket(p) \/ sendPacket(p)
  PROVE  Alive' \subseteq Alive /\ \A q \in Alive' : capacity'[q] = capacity[q]
<1>1. CASE NoLongerHeld(p) /\ Destroy(p)
  <2>1. \A k \in Size : p \notin Pooled(k)
    BY <1>1 DEF Pooled, NoLongerHeld, PoolInv, FreePacketsInPlace
  <2>2. p \notin Alive' /\ Alive' \subseteq Alive /\ Alive \subseteq SendPacket
    BY <1>1, <2>1 DEF Alive, Pooled, NoLongerHeld, Destroy, PoolInv, TypeOK
  <2>3. QED
    BY <1>1, <2>2 DEF Destroy, PoolInv, TypeOK
<1>2. CASE NoLongerHeld(p) /\ capacity[p] \in classes /\ PutBack(p, capacity[p])
  <2> DEFINE k == capacity[p]
             v == sendPackets[k]
             w == Append(v, p)
  <2>1. /\ k \in Size /\ v \in Seq(SendPacket)
        /\ sendPackets' = [sendPackets EXCEPT ![k] = w]
        /\ p \in held /\ held' = held \ {p} /\ capacity' = capacity
    BY <1>2 DEF PutBack, PoolInv, TypeOK, NoLongerHeld
  <2>2. /\ DOMAIN w = DOMAIN v \union {Len(v) + 1} /\ w[Len(v) + 1] = p
        /\ \A i \in DOMAIN v : w[i] = v[i]
    BY <2>1, PushBack
  <2>3. \A m \in Size : Pooled(m)' \subseteq Pooled(m) \union {p}
    BY <2>1, <2>2 DEF Pooled, PoolInv, TypeOK
  <2>4. QED
    BY <2>1, <2>3 DEF Alive
<1>3. QED
  BY <1>1, <1>2 DEF releaseSendPacket, sendPacket

(* Every step of the path is a step of the pool or leaves it alone.        *)
LEMMA StepsOfPool == [PathNext]_pathVars => [Next]_poolVars
BY DEF PathNext, pathVars, Next, AddClassSize, GetSendPacket, ReleaseSendPacket,
       Send, Stray, Ask, Write, writeFromArray, Put, setWriteIndex

(* The invariant: the contents follow the pool, and where the position was *)
(* not put outside, what a holder may still write fits behind it.          *)
ContentsType ==
  /\ buffer = [p \in SendPacket |-> buffer[p]]
  /\ writeIndex \in [SendPacket -> Int]
  /\ room \in [SendPacket -> Nat]

RoomFits(p) ==
  writeIndex[p] \in 0 .. capacity[p] /\ writeIndex[p] + room[p] <= capacity[p]

WriterFits ==
  \A p \in Alive : /\ DOMAIN buffer[p] = 1 .. capacity[p]
                   /\ p \notin misused => RoomFits(p)

PathInv == PoolInv /\ ContentsType /\ WriterFits /\ StraysOnlyIfMisused

(* A codec writes as many bytes as its type has.                           *)
LEMMA WriteIntLength ==
  ASSUME NEW T \in IntegralType, NEW value
  PROVE  Len(writeInt(T, value)) = T.size /\ DOMAIN writeInt(T, value) = 1 .. T.size
<1> DEFINE f == writeInt(T, value)
<1>1. T.size \in Nat
  BY IntegralTypeAssumption
<1>2. f \in Seq({f[i] : i \in 1 .. T.size}) /\ DOMAIN f = 1 .. T.size
  BY <1>1 DEF writeInt
<1>3. QED
  BY <1>1, <1>2

LEMMA PathInvInit == PathInit => PathInv
<1> SUFFICES ASSUME PathInit PROVE PathInv
  OBVIOUS
<1>1. PoolInv
  BY PoolInvInit DEF PathInit
<1>2. Alive = {}
  BY DEF PathInit, Init, Alive, Pooled
<1>3. QED
  BY <1>1, <1>2 DEF PathInit, PathInv, ContentsType, WriterFits, StraysOnlyIfMisused

(* A held packet, and what the steps of its holder leave alone.            *)
LEMMA HeldPacket ==
  ASSUME PathInv, NEW p \in held
  PROVE  /\ p \in SendPacket /\ p \in Alive /\ Alive \subseteq SendPacket
         /\ capacity[p] \in Nat /\ writeIndex[p] \in Int /\ room[p] \in Nat
         /\ DOMAIN buffer[p] = 1 .. capacity[p]
         /\ p \notin misused => RoomFits(p)
<1>1. /\ p \in SendPacket /\ p \in Alive /\ Alive \subseteq SendPacket
      /\ capacity[p] \in Nat
  BY DEF PathInv, PoolInv, TypeOK, Alive, Pooled, Size
<1>2. QED
  BY <1>1 DEF PathInv, ContentsType, WriterFits

(* Where p may be written, it has the bytes that are to be written.        *)
LEMMA RoomIsInside ==
  ASSUME PathInv, NEW p \in held \ misused, NEW n \in Nat, n <= room[p]
  PROVE  \A i \in 1 .. n : writeIndex[p] + i \in DOMAIN buffer[p]
BY HeldPacket DEF RoomFits

(* Leaving the packet has been misuse, before or by this step.             *)
LEMMA StrayInv ==
  ASSUME PathInv, NEW p \in held, NEW n, Stray(p, n), p \in misused \/ n > room[p]
  PROVE  ContentsType' /\ WriterFits' /\ StraysOnlyIfMisused'
<1>1. /\ Alive' = Alive /\ capacity' = capacity /\ buffer' = buffer
      /\ writeIndex' = writeIndex /\ room' = room /\ misused \subseteq misused'
  BY DEF Stray, poolVars, Alive, Pooled
<1>2. ContentsType' /\ WriterFits'
  BY <1>1 DEF PathInv, ContentsType, WriterFits, RoomFits
<1>3. p \in misused' /\ strayed' = {p}
  BY DEF Stray
<1>4. QED
  BY <1>2, <1>3 DEF StraysOnlyIfMisused

(* A write inside moves the position and uses up the room.                 *)
LEMMA PutInv ==
  ASSUME PathInv, NEW p \in held, NEW bytes, NEW values, Put(p, bytes, values),
         Len(bytes) \in Nat, DOMAIN bytes = 1 .. Len(bytes)
  PROVE  ContentsType' /\ WriterFits' /\ StraysOnlyIfMisused'
<1> DEFINE inside == \A i \in DOMAIN bytes : writeIndex[p] + i \in DOMAIN buffer[p]
           n == Len(bytes)
<1>1. /\ p \in SendPacket /\ p \in Alive /\ Alive \subseteq SendPacket
      /\ capacity[p] \in Nat /\ writeIndex[p] \in Int /\ room[p] \in Nat
      /\ DOMAIN buffer[p] = 1 .. capacity[p]
      /\ p \notin misused => RoomFits(p)
  BY HeldPacket
<1>2. CASE ~inside /\ Stray(p, n)
  <2>1. p \in misused \/ n > room[p]
    BY <1>1, <1>2, RoomIsInside
  <2>2. QED
    BY <1>2, <2>1, StrayInv
<1>3. CASE /\ inside
           /\ \E f : buffer' = [buffer EXCEPT ![p] = [k \in DOMAIN @ |-> f[k]]]
           /\ writeIndex' = [writeIndex EXCEPT ![p] = @ + n]
           /\ room' = [room EXCEPT ![p] = IF @ > n THEN @ - n ELSE 0]
           /\ UNCHANGED <<poolVars, misused, strayed>>
  <2>1. PICK f : buffer' = [buffer EXCEPT ![p] = [k \in DOMAIN @ |-> f[k]]]
    BY <1>3
  <2>2. Alive' = Alive /\ capacity' = capacity /\ misused' = misused /\ strayed' = strayed
    BY <1>3 DEF poolVars, Alive, Pooled
  <2>3. buffer' = [q \in SendPacket |-> buffer'[q]]
        /\ \A q \in SendPacket : DOMAIN buffer'[q] = DOMAIN buffer[q]
    BY <1>1, <2>1 DEF PathInv, ContentsType
  <2>4. /\ writeIndex' \in [SendPacket -> Int] /\ room' \in [SendPacket -> Nat]
        /\ \A q \in SendPacket \ {p} :
             writeIndex'[q] = writeIndex[q] /\ room'[q] = room[q]
        /\ writeIndex'[p] = writeIndex[p] + n
        /\ room'[p] = IF room[p] > n THEN room[p] - n ELSE 0
    BY <1>1, <1>3 DEF PathInv, ContentsType
  <2>5. ContentsType'
    BY <2>3, <2>4 DEF ContentsType
  <2>6. ASSUME p \notin misused PROVE RoomFits(p)'
    <3>1. n > 0 => writeIndex[p] + n \in 1 .. capacity[p]
      BY <1>1, <1>3
    <3>2. QED
      BY <1>1, <2>2, <2>4, <2>6, <3>1 DEF RoomFits
  <2>7. WriterFits'
    <3>1. \A q \in Alive \ {p} : RoomFits(q) <=> RoomFits(q)'
      BY <1>1, <2>2, <2>4 DEF RoomFits
    <3>2. QED
      BY <1>1, <2>2, <2>3, <2>6, <3>1 DEF PathInv, WriterFits
  <2>8. QED
    BY <2>2, <2>5, <2>7 DEF PathInv, StraysOnlyIfMisused
<1>4. QED
  <2>1. CASE ~inside /\ Stray(p, n)
    BY <1>2, <2>1
  <2>2. CASE ~(~inside /\ Stray(p, n))
    <3>1. /\ inside
          /\ buffer' = [buffer EXCEPT ![p] =
               [k \in DOMAIN @ |-> IF k - writeIndex[p] \in DOMAIN bytes
                                     THEN bytes[k - writeIndex[p]] ELSE @[k]]]
          /\ writeIndex' = [writeIndex EXCEPT ![p] = @ + n]
          /\ room' = [room EXCEPT ![p] = IF @ > n THEN @ - n ELSE 0]
          /\ UNCHANGED <<poolVars, misused, strayed>>
      BY <2>2 DEF Put
    <3> DEFINE g == [k \in DOMAIN buffer[p] |->
                       IF k - writeIndex[p] \in DOMAIN bytes
                         THEN bytes[k - writeIndex[p]] ELSE buffer[p][k]]
    <3>2. buffer' = [buffer EXCEPT ![p] = g] /\ DOMAIN g = DOMAIN buffer[p]
      BY <3>1
    <3>3. g = [k \in DOMAIN buffer[p] |-> g[k]]
      OBVIOUS
    <3> HIDE DEF g
    <3>4. \E f : buffer' = [buffer EXCEPT ![p] = [k \in DOMAIN @ |-> f[k]]]
      BY <3>2, <3>3
    <3>5. QED
      BY <1>3, <3>1, <3>4
  <2>3. QED
    BY <2>1, <2>2

LEMMA GetInv ==
  ASSUME PathInv, PoolInv', NEW p \in SendPacket, NEW s \in Size, GetSendPacket(p, s)
  PROVE  ContentsType' /\ WriterFits'
<1>1. PoolInv /\ TypeOK' /\ Alive' \subseteq SendPacket
  <2>1. PoolInv /\ TypeOK'
    BY DEF PathInv, PoolInv
  <2>2. QED
    BY <2>1 DEF TypeOK, Alive, Pooled
<1>2. /\ Alive' \subseteq Alive \union {p}
      /\ \A q \in SendPacket \ {p} : capacity'[q] = capacity[q]
      /\ p \in Alive => capacity' = capacity
  BY <1>1, HandOutKeepsOthers DEF GetSendPacket
<1>3. capacity'[p] \in Nat
  BY <1>1 DEF TypeOK, Size
<1>4. misused' = misused
  BY DEF GetSendPacket
<1>5. room' = [room EXCEPT ![p] = 0]
  BY DEF GetSendPacket, Begin
<1>6. /\ room' \in [SendPacket -> Nat] /\ room'[p] = 0
      /\ \A q \in SendPacket \ {p} : room'[q] = room[q]
  BY <1>5 DEF PathInv, ContentsType
<1>7. /\ buffer' = [q \in SendPacket |-> buffer'[q]]
      /\ writeIndex' \in [SendPacket -> Int]
      /\ \A q \in SendPacket \ {p} :
           buffer'[q] = buffer[q] /\ writeIndex'[q] = writeIndex[q]
      /\ \/ p \in Alive /\ buffer'[p] = buffer[p] /\ writeIndex'[p] = writeIndex[p]
         \/ DOMAIN buffer'[p] = 1 .. capacity'[p] /\ writeIndex'[p] = 0
  <2>1. CASE p \in Alive /\ UNCHANGED <<buffer, writeIndex>>
    BY <2>1 DEF PathInv, ContentsType
  <2>2. CASE /\ buffer' = [buffer EXCEPT ![p] = [n \in 1 .. capacity'[p] |-> 0]]
             /\ writeIndex' = [writeIndex EXCEPT ![p] = 0]
    <3> DEFINE f == [n \in 1 .. capacity'[p] |-> 0]
    <3>1. DOMAIN f = 1 .. capacity'[p] /\ buffer' = [buffer EXCEPT ![p] = f]
      BY <2>2
    <3> HIDE DEF f
    <3>2. buffer' = [q \in SendPacket |-> buffer'[q]]
      BY <3>1 DEF PathInv, ContentsType
    <3>3. buffer'[p] = f /\ \A q \in SendPacket \ {p} : buffer'[q] = buffer[q]
      BY <3>1 DEF PathInv, ContentsType
    <3>4. /\ writeIndex' \in [SendPacket -> Int] /\ writeIndex'[p] = 0
          /\ \A q \in SendPacket \ {p} : writeIndex'[q] = writeIndex[q]
      BY <2>2 DEF PathInv, ContentsType
    <3>5. QED
      BY <3>1, <3>2, <3>3, <3>4
  <2>3. QED
    BY <2>1, <2>2 DEF GetSendPacket
<1>8. ASSUME NEW q \in Alive'
      PROVE  /\ DOMAIN buffer'[q] = 1 .. capacity'[q]
             /\ q \notin misused' => RoomFits(q)'
  <2>1. CASE q # p
    BY <1>1, <1>2, <1>4, <1>6, <1>7, <2>1 DEF PathInv, WriterFits, RoomFits
  <2>2. CASE q = p /\ p \in Alive /\ buffer'[p] = buffer[p] /\ writeIndex'[p] = writeIndex[p]
    BY <1>2, <1>3, <1>4, <1>6, <2>2 DEF PathInv, WriterFits, RoomFits
  <2>3. CASE q = p /\ DOMAIN buffer'[p] = 1 .. capacity'[p] /\ writeIndex'[p] = 0
    BY <1>3, <1>6, <2>3 DEF RoomFits
  <2>4. QED
    BY <1>7, <2>1, <2>2, <2>3
<1>9. QED
  BY <1>6, <1>7, <1>8 DEF ContentsType, WriterFits

LEMMA EndInv ==
  ASSUME PathInv, NEW p \in SendPacket, releaseSendPacket(p) \/ sendPacket(p), End(p)
  PROVE  ContentsType' /\ WriterFits' /\ StraysOnlyIfMisused'
<1>1. /\ Alive' \subseteq Alive /\ \A q \in Alive' : capacity'[q] = capacity[q]
      /\ Alive \subseteq SendPacket
  <2>1. PoolInv
    BY DEF PathInv
  <2>2. Alive \subseteq SendPacket
    BY <2>1 DEF PoolInv, TypeOK, Alive, Pooled
  <2>3. QED
    BY <2>1, <2>2, GivingAwayKeepsOthers
<1>2. /\ room' \in [SendPacket -> Nat] /\ room'[p] = 0
      /\ \A q \in SendPacket \ {p} : room'[q] = room[q]
  BY DEF End, Begin, PathInv, ContentsType
<1>3. \/ p \in Alive' /\ UNCHANGED <<buffer, writeIndex, misused>>
      \/ /\ p \notin Alive'
         /\ buffer' = [buffer EXCEPT ![p] = <<>>]
         /\ writeIndex' = [writeIndex EXCEPT ![p] = 0]
         /\ misused' = misused \ {p}
  BY DEF End
<1>4. /\ buffer' = [q \in SendPacket |-> buffer'[q]]
      /\ writeIndex' \in [SendPacket -> Int]
      /\ \A q \in Alive' : /\ buffer'[q] = buffer[q] /\ writeIndex'[q] = writeIndex[q]
                           /\ q \in misused <=> q \in misused'
  <2>1. CASE p \in Alive' /\ UNCHANGED <<buffer, writeIndex, misused>>
    BY <2>1 DEF PathInv, ContentsType
  <2>2. CASE /\ p \notin Alive'
             /\ buffer' = [buffer EXCEPT ![p] = <<>>]
             /\ writeIndex' = [writeIndex EXCEPT ![p] = 0]
             /\ misused' = misused \ {p}
    <3>1. \A q \in SendPacket \ {p} : /\ buffer'[q] = buffer[q]
                                      /\ writeIndex'[q] = writeIndex[q]
                                      /\ q \in misused <=> q \in misused'
      BY <2>2 DEF PathInv, ContentsType
    <3>2. \A q \in Alive' : q \in SendPacket \ {p}
      BY <1>1, <2>2
    <3>3. writeIndex' \in [SendPacket -> Int]
      BY <2>2 DEF PathInv, ContentsType
    <3>4. PICK f : buffer' = [buffer EXCEPT ![p] = f]
      BY <2>2
    <3>5. buffer' = [q \in SendPacket |-> buffer'[q]]
      BY <3>4 DEF PathInv, ContentsType
    <3>6. QED
      BY <3>1, <3>2, <3>3, <3>5
  <2>3. QED
    BY <1>3, <2>1, <2>2
<1>5. ASSUME NEW q \in Alive'
      PROVE  /\ DOMAIN buffer'[q] = 1 .. capacity'[q]
             /\ q \notin misused' => RoomFits(q)'
  <2>1. /\ q \in Alive /\ q \in SendPacket /\ capacity'[q] = capacity[q]
        /\ buffer'[q] = buffer[q] /\ writeIndex'[q] = writeIndex[q]
        /\ q \in misused <=> q \in misused'
    BY <1>1, <1>4
  <2>2. DOMAIN buffer[q] = 1 .. capacity[q] /\ (q \notin misused => RoomFits(q))
    BY <2>1 DEF PathInv, WriterFits
  <2>3. capacity[q] \in Nat
    BY <2>1 DEF PathInv, PoolInv, TypeOK, Size
  <2>4. CASE q = p
    BY <1>2, <2>1, <2>2, <2>3, <2>4 DEF RoomFits
  <2>5. CASE q # p
    BY <1>2, <2>1, <2>2, <2>5 DEF RoomFits
  <2>6. QED
    BY <2>4, <2>5
<1>6. StraysOnlyIfMisused'
  BY DEF End, StraysOnlyIfMisused
<1>7. QED
  BY <1>2, <1>4, <1>5, <1>6 DEF ContentsType, WriterFits

(* Asking and moving the position change only p's writer.                  *)
LEMMA PositionInv ==
  ASSUME PathInv, NEW p \in held,
         \/ \E numBytes \in Size : Ask(p, numBytes)
         \/ \E index \in Index : setWriteIndex(p, index)
  PROVE  ContentsType' /\ WriterFits' /\ StraysOnlyIfMisused'
<1>1. /\ p \in SendPacket /\ p \in Alive /\ Alive \subseteq SendPacket
      /\ capacity[p] \in Nat /\ writeIndex[p] \in Int /\ room[p] \in Nat
      /\ p \notin misused => RoomFits(p)
  BY HeldPacket
<1>2. CASE \E numBytes \in Size : Ask(p, numBytes)
  <2>1. PICK n \in Size : Ask(p, n)
    BY <1>2
  <2>2. /\ n \in Nat /\ capacity[p] - writeIndex[p] >= n
        /\ room' = [room EXCEPT ![p] = n]
        /\ UNCHANGED <<poolVars, buffer, writeIndex, misused, strayed>>
    BY <2>1 DEF Ask, ensureWritableBytes, getWritableBytes, Size
  <2>3. Alive' = Alive /\ capacity' = capacity
    BY <2>2 DEF poolVars, Alive, Pooled
  <2>4. /\ room' \in [SendPacket -> Nat] /\ room'[p] = n
        /\ \A q \in SendPacket \ {p} : room'[q] = room[q]
    BY <1>1, <2>2 DEF PathInv, ContentsType
  <2>5. RoomFits(p) => RoomFits(p)'
    BY <1>1, <2>2, <2>3, <2>4 DEF RoomFits
  <2>6. \A q \in Alive \ {p} : RoomFits(q) => RoomFits(q)'
    BY <1>1, <2>2, <2>3, <2>4 DEF RoomFits
  <2>7. ContentsType' /\ StraysOnlyIfMisused'
    BY <2>2, <2>4 DEF PathInv, ContentsType, StraysOnlyIfMisused
  <2>8. WriterFits'
    BY <2>2, <2>3, <2>5, <2>6 DEF PathInv, WriterFits
  <2>9. QED
    BY <2>7, <2>8
<1>3. CASE \E index \in Index : setWriteIndex(p, index)
  <2>1. PICK index \in Index : setWriteIndex(p, index)
    BY <1>3
  <2>2. /\ index \in Int /\ strayed = {}
        /\ writeIndex' = [writeIndex EXCEPT ![p] = index]
        /\ room' = [room EXCEPT ![p] = 0]
        /\ UNCHANGED <<poolVars, buffer, strayed>>
    BY <2>1, IndexAssumption DEF setWriteIndex, Begin
  <2>3. Alive' = Alive /\ capacity' = capacity
    BY <2>2 DEF poolVars, Alive, Pooled
  <2>4. /\ room' \in [SendPacket -> Nat] /\ writeIndex' \in [SendPacket -> Int]
        /\ room'[p] = 0 /\ writeIndex'[p] = index
        /\ \A q \in SendPacket \ {p} :
             room'[q] = room[q] /\ writeIndex'[q] = writeIndex[q]
    BY <1>1, <2>2 DEF PathInv, ContentsType
  <2>5. /\ \A q \in SendPacket \ {p} : q \in misused' <=> q \in misused
        /\ p \notin misused' => index \in 0 .. capacity[p]
    BY <2>1 DEF setWriteIndex
  <2>6. p \notin misused' => RoomFits(p)'
    BY <1>1, <2>3, <2>4, <2>5 DEF RoomFits
  <2>7. \A q \in Alive \ {p} : RoomFits(q) => RoomFits(q)'
    BY <1>1, <2>3, <2>4 DEF RoomFits
  <2>8. ContentsType' /\ StraysOnlyIfMisused'
    BY <2>2, <2>4 DEF PathInv, ContentsType, StraysOnlyIfMisused
  <2>9. WriterFits'
    BY <1>1, <2>2, <2>3, <2>5, <2>6, <2>7 DEF PathInv, WriterFits
  <2>10. QED
    BY <2>8, <2>9
<1>4. QED
  BY <1>2, <1>3

LEMMA PathStep == PathInv /\ [PathNext]_pathVars => PathInv'
<1> SUFFICES ASSUME PathInv, [PathNext]_pathVars PROVE PathInv'
  OBVIOUS
<1> DEFINE Goal == ContentsType' /\ WriterFits' /\ StraysOnlyIfMisused'
<1>1. PoolInv /\ PoolInv' /\ RequestSize \subseteq Size
  BY StepsOfPool, PoolStep, RequestAssumption DEF PathInv
<1>2. ASSUME NEW s \in Size, AddClassSize(s) PROVE Goal
  <2>1. Alive' = Alive /\ capacity' = capacity /\ UNCHANGED contentVars
    BY <1>2 DEF AddClassSize, addClassSize, Alive, Pooled
  <2>2. QED
    BY <2>1 DEF contentVars, PathInv, ContentsType, WriterFits, RoomFits, StraysOnlyIfMisused
<1>3. ASSUME NEW p \in SendPacket, NEW s \in Size, GetSendPacket(p, s) PROVE Goal
  <2>1. StraysOnlyIfMisused'
    BY <1>3 DEF GetSendPacket, PathInv, StraysOnlyIfMisused
  <2>2. QED
    BY <1>1, <1>3, <2>1, GetInv
<1>4. ASSUME NEW p \in SendPacket, ReleaseSendPacket(p) PROVE Goal
  BY <1>4, EndInv DEF ReleaseSendPacket
<1>5. ASSUME NEW p \in SendPacket, Send(p) PROVE Goal
  <2>1. CASE sendPacket(p) /\ End(p)
    BY <2>1, EndInv
  <2>2. CASE writeIndex[p] \notin 0 .. capacity[p] /\ Stray(p, 0)
    <3>1. p \in held
      BY <1>5 DEF Send
    <3>2. p \in misused
      BY <2>2, <3>1, HeldPacket DEF RoomFits
    <3>3. QED
      BY <2>2, <3>1, <3>2, StrayInv
  <2>3. QED
    BY <1>5, <2>1, <2>2 DEF Send
<1>6. ASSUME NEW p \in SendPacket, NEW numBytes \in Size, Ask(p, numBytes) PROVE Goal
  <2>1. p \in held
    BY <1>6 DEF Ask
  <2>2. QED
    BY <1>6, <2>1, PositionInv
<1>7. ASSUME NEW p \in SendPacket, NEW index \in Index, setWriteIndex(p, index) PROVE Goal
  <2>1. p \in held
    BY <1>7 DEF setWriteIndex
  <2>2. QED
    BY <1>7, <2>1, PositionInv
<1>8. ASSUME NEW p \in SendPacket, NEW T \in IntegralType, NEW value, Write(p, T, value)
      PROVE  Goal
  <2>1. /\ Len(writeInt(T, value)) \in Nat
        /\ DOMAIN writeInt(T, value) = 1 .. Len(writeInt(T, value))
    BY WriteIntLength, IntegralTypeAssumption
  <2>2. PICK values : p \in held /\ Put(p, writeInt(T, value), values)
    BY <1>8 DEF Write
  <2>3. QED
    BY <2>1, <2>2, PutInv
<1>9. ASSUME NEW p \in SendPacket, NEW b1, NEW b2, writeFromArray(p, <<b1, b2>>)
      PROVE  Goal
  <2>1. Len(<<b1, b2>>) \in Nat /\ DOMAIN <<b1, b2>> = 1 .. Len(<<b1, b2>>)
    OBVIOUS
  <2>2. PICK values : p \in held /\ Put(p, <<b1, b2>>, values)
    BY <1>9 DEF writeFromArray
  <2>3. QED
    BY <2>1, <2>2, PutInv
<1>10. ASSUME UNCHANGED pathVars PROVE Goal
  <2>1. Alive' = Alive /\ capacity' = capacity /\ UNCHANGED contentVars
    BY <1>10 DEF pathVars, poolVars, Alive, Pooled
  <2>2. QED
    BY <2>1 DEF contentVars, PathInv, ContentsType, WriterFits, RoomFits, StraysOnlyIfMisused
<1>11. Goal
  <2> HIDE DEF Goal
  <2>1. CASE \/ \E s \in RequestSize : AddClassSize(s)
             \/ \E p \in SendPacket, s \in RequestSize : GetSendPacket(p, s)
             \/ \E p \in SendPacket : ReleaseSendPacket(p) \/ Send(p)
    BY <1>1, <1>2, <1>3, <1>4, <1>5, <2>1
  <2>2. CASE \/ \E p \in SendPacket, numBytes \in Size : Ask(p, numBytes)
             \/ \E p \in SendPacket, index \in Index : setWriteIndex(p, index)
    BY <1>6, <1>7, <2>2
  <2>3. CASE \E p \in SendPacket, T \in IntegralType :
               \E value \in Values(T) : Write(p, T, value)
    BY <1>8, <2>3
  <2>4. CASE \E p \in SendPacket, b1, b2 \in Byte : writeFromArray(p, <<b1, b2>>)
    BY <1>9, <2>4
  <2>5. QED
    BY <1>10, <2>1, <2>2, <2>3, <2>4 DEF PathNext
<1>12. QED
  BY <1>1, <1>11 DEF PathInv

(* The path uses the pool as the pool allows: what holds of the pool holds *)
(* of it on the path.                                                      *)
THEOREM PathUsesPool == PathSpec => Spec
<1>1. PathInit => Init
  BY DEF PathInit
<1>2. QED
  BY <1>1, StepsOfPool, PTL DEF PathSpec, Spec

(* The writer checks nothing, but no sequence of registrations, requests,  *)
(* writes, sends and reuses makes a holder that writes no more than it     *)
(* asked ensureWritableBytes for leave its packet, unless the packet's     *)
(* position was put outside of it; nor does a send.                        *)
THEOREM AskedWritesStayInside == PathSpec => []StraysOnlyIfMisused
<1>1. PathInv => StraysOnlyIfMisused
  BY DEF PathInv
<1>2. QED
  BY <1>1, PathInvInit, PathStep, PTL DEF PathSpec

-----------------------------------------------------------------------------
(* The codec.                                                              *)

(* A quotient is determined by its remainder.                              *)
LEMMA DivisionUnique ==
  ASSUME NEW v \in Int, NEW d \in Nat \ {0}, NEW q \in Int, NEW r \in 0 .. d - 1,
         v = d * q + r
  PROVE  v \div d = q
OBVIOUS

(* The recursion of Power is defined.                                      *)
LEMMA PowerDef ==
  /\ Power \in [Nat -> Nat \ {0}]
  /\ Power[0] = 1
  /\ \A n \in Nat : Power[n + 1] = ByteMod * Power[n]
<1> DEFINE step == [n \in Nat |-> [x \in Int |-> ByteMod * x]]
<1>0. ByteMod \in Nat \ {0, 1} /\ ByteMod \in Int
  BY ByteAssumption
<1>1. step \in [Nat -> [Int -> Int]]
  BY <1>0
<1>2. PICK f \in [Nat -> Int] : f[0] = 1 /\ \A n \in Nat : f[n + 1] = step[n + 1][f[n]]
  <2> HIDE DEF step
  <2>1. 1 \in Int
    OBVIOUS
  <2>2. QED
    BY <1>1, <2>1, RecursionDefines
<1>3. ASSUME NEW n \in Nat PROVE f[n] = IF n = 0 THEN 1 ELSE ByteMod * f[n - 1]
  <2>1. CASE n = 0
    BY <1>2, <2>1
  <2>2. CASE n # 0
    <3>1. n - 1 \in Nat /\ (n - 1) + 1 = n /\ f[n - 1] \in Int
      BY <2>2
    <3>2. f[n] = step[n][f[n - 1]]
      BY <1>2, <3>1
    <3>3. QED
      BY <2>2, <3>1, <3>2
  <2>3. QED
    BY <2>1, <2>2
<1>4. f = [n \in Nat |-> IF n = 0 THEN 1 ELSE ByteMod * f[n - 1]]
  <2> HIDE DEF step
  <2>1. f = [n \in Nat |-> f[n]]
    OBVIOUS
  <2>2. QED
    BY <1>3, <2>1
<1>5. Power = [n \in Nat |-> IF n = 0 THEN 1 ELSE ByteMod * Power[n - 1]]
  BY <1>4 DEF Power
<1>6. Power[0] = 1
  BY <1>5
<1>7. ASSUME NEW n \in Nat PROVE Power[n + 1] = ByteMod * Power[n]
  <2>1. n + 1 \in Nat /\ n + 1 # 0 /\ (n + 1) - 1 = n
    OBVIOUS
  <2>2. QED
    BY <1>5, <2>1
<1>8. \A n \in Nat : Power[n] \in Nat \ {0}
  <2> DEFINE S == {n \in Nat : Power[n] \in Nat \ {0}}
  <2>1. 0 \in S
    BY <1>6
  <2>2. ASSUME NEW n \in Nat, n \in S PROVE n + 1 \in S
    <3>1. Power[n] \in Nat \ {0} /\ n + 1 \in Nat
      BY <2>2
    <3>2. ByteMod * Power[n] \in Nat \ {0}
      BY <1>0, <3>1
    <3>3. QED
      BY <1>7, <3>1, <3>2
  <2>3. \A n \in Nat : n \in S
    <3> HIDE DEF S
    <3>1. QED
      BY <2>1, <2>2, SetInduction
  <2>4. QED
    BY <2>3
<1>9. QED
  BY <1>5, <1>6, <1>7, <1>8

(* Shifting by n bytes and then by one is shifting by n + 1.               *)
LEMMA ShiftOnce ==
  ASSUME NEW v \in Int, NEW n \in Nat
  PROVE  /\ v \div Power[n] \in Int
         /\ v \div Power[n + 1] = (v \div Power[n]) \div ByteMod
<1> DEFINE P == Power[n]
           q1 == v \div P
           q2 == q1 \div ByteMod
           r1 == v % P
           r2 == q1 % ByteMod
<1>1. P \in Nat \ {0} /\ Power[n + 1] = ByteMod * P /\ ByteMod \in Nat \ {0, 1}
  BY PowerDef, ByteAssumption
<1> HIDE DEF P
<1>2. q1 \in Int /\ r1 \in 0 .. P - 1 /\ v = P * q1 + r1
  BY <1>1
<1> HIDE DEF q1, r1
<1>3. q2 \in Int /\ r2 \in 0 .. ByteMod - 1 /\ q1 = ByteMod * q2 + r2
  BY <1>1, <1>2
<1> HIDE DEF q2, r2
<1>4. v = (ByteMod * P) * q2 + (P * r2 + r1)
  <2>1. P * (ByteMod * q2 + r2) = (ByteMod * P) * q2 + P * r2
    BY <1>1, <1>2, <1>3
  <2>2. P * r2 \in Int /\ (ByteMod * P) * q2 \in Int
    BY <1>1, <1>2, <1>3
  <2>3. QED
    BY <1>2, <1>3, <2>1, <2>2
<1>5. P * r2 + r1 \in 0 .. (ByteMod * P) - 1
  <2>1. r2 \in Nat /\ r2 <= ByteMod - 1 /\ ByteMod - 1 \in Nat
    BY <1>1, <1>3
  <2>2. P * r2 <= P * (ByteMod - 1) /\ P * r2 \in Nat
    BY <1>1, <2>1
  <2>3. P * (ByteMod - 1) = ByteMod * P - P
    BY <1>1
  <2>4. ByteMod * P \in Nat /\ r1 \in Nat /\ r1 <= P - 1
    BY <1>1, <1>2
  <2>5. QED
    BY <1>1, <2>2, <2>3, <2>4
<1>6. ByteMod * P \in Nat \ {0}
  BY <1>1
<1>7. v \div (ByteMod * P) = q2
  BY <1>3, <1>4, <1>5, <1>6, DivisionUnique
<1>8. QED
  BY <1>1, <1>2, <1>7 DEF q1, q2, P

(* The bytes written are the digits of the value, which its shifts give.   *)
LEMMA WrittenBytes ==
  ASSUME NEW T, T.size \in Nat, NEW value \in Int, NEW i \in 1 .. T.size
  PROVE  /\ writeInt(T, value)[i] \in Byte
         /\ value \div Power[T.size - i] =
              ByteMod * (value \div Power[T.size - i + 1]) + writeInt(T, value)[i]
<1> DEFINE k == T.size - i
           x == value \div Power[k]
<1>1. k \in Nat /\ ByteMod \in Nat \ {0, 1}
  BY ByteAssumption
<1>2. x \in Int /\ value \div Power[k + 1] = x \div ByteMod
  BY <1>1, ShiftOnce
<1>3. writeInt(T, value)[i] = x % ByteMod
  BY DEF writeInt
<1> HIDE DEF k, x
<1>4. x % ByteMod \in Byte /\ x = ByteMod * (x \div ByteMod) + (x % ByteMod)
  BY <1>1, <1>2 DEF Byte
<1>5. QED
  BY <1>2, <1>3, <1>4 DEF k, x

(* data has the bytes of value behind position at.                         *)
Encodes(data, at, T, value) ==
  \A i \in 1 .. T.size : data[at + i] = writeInt(T, value)[i]

(* What readInt's loop has or-ed together after each turn.                 *)
IsBits(bits, T, data, at) ==
  /\ bits[0] = 0
  /\ \A i \in 1 .. T.size : bits[i] = bits[i - 1] + data[at + i] * Power[T.size - i]

(* The loop brings the value back, up to what is above its bytes.          *)
LEMMA BitsRead ==
  ASSUME NEW T, T.size \in Nat, NEW value \in Int, NEW data, NEW at \in Nat,
         NEW bits, Encodes(data, at, T, value), IsBits(bits, T, data, at)
  PROVE  bits[T.size] = value - (value \div Power[T.size]) * Power[T.size]
<1> USE DEF Encodes, IsBits
<1> DEFINE N == T.size
           s(k) == value \div Power[k]
           c == s(N) * Power[N]
           Right == {m \in Nat : m <= N => bits[m] = s(N - m) * Power[N - m] - c}
<1>1. \A k \in Nat : Power[k] \in Nat \ {0} /\ s(k) \in Int
  BY PowerDef, ShiftOnce
<1>2. c \in Int
  <2>1. Power[N] \in Nat \ {0} /\ s(N) \in Int
    BY <1>1
  <2> HIDE DEF s
  <2>2. QED
    BY <2>1
<1>3. 0 \in Right
  <2>1. bits[0] = 0 /\ N - 0 = N
    OBVIOUS
  <2>2. s(N) * Power[N] - c = 0
    BY <1>2
  <2>3. QED
    BY <2>1, <2>2
<1>4. ASSUME NEW m \in Nat, m \in Right PROVE m + 1 \in Right
  <2>1. CASE m + 1 <= N
    <3> DEFINE P == Power[N - (m + 1)]
               x == s(N - (m + 1))
               y == s(N - m)
               b == writeInt(T, value)[m + 1]
    <3>1. /\ m + 1 \in 1 .. N /\ m + 1 # 0 /\ (m + 1) - 1 = m /\ m + 1 \in 0 .. N
          /\ N - (m + 1) \in Nat /\ N - m \in Nat /\ N - (m + 1) + 1 = N - m
      BY <2>1
    <3>2. bits[m + 1] = bits[m] + b * P
      BY <3>1
    <3>3. bits[m] = y * Power[N - m] - c
      BY <1>4, <2>1
    <3>4. Power[N - m] = ByteMod * P
      BY <3>1, PowerDef
    <3>5. b \in Byte /\ x = ByteMod * y + b
      BY <3>1, WrittenBytes
    <3>6. P \in Int /\ x \in Int /\ y \in Int /\ b \in Int /\ ByteMod \in Int
      <4>1. P \in Int /\ x \in Int /\ y \in Int
        <5> HIDE DEF s
        <5>1. QED
          BY <1>1, <3>1
      <4>2. b \in Int /\ ByteMod \in Int
        <5> HIDE DEF b
        <5>1. QED
          BY <3>5, ByteAssumption DEF Byte
      <4>3. QED
        BY <4>1, <4>2
    <3> HIDE DEF P, x, y, b, c, s
    <3>7. y * (ByteMod * P) - c + b * P = x * P - c
      BY <1>2, <3>5, <3>6
    <3>8. bits[m + 1] = x * P - c
      BY <3>2, <3>3, <3>4, <3>7
    <3>9. QED
      BY <3>8 DEF P, x
  <2>2. CASE ~ (m + 1 <= N)
    BY <2>2
  <2>3. QED
    BY <2>1, <2>2
<1>5. \A m \in Nat : m \in Right
  <2> HIDE DEF Right
  <2>1. QED
    BY <1>3, <1>4, SetInduction
<1>6. bits[N] = s(0) * Power[0] - c
  <2>1. N \in Right
    <3> HIDE DEF Right
    <3>1. QED
      BY <1>5
  <2>2. N <= N /\ N - N = 0
    OBVIOUS
  <2>3. QED
    BY <2>1, <2>2
<1>7. s(0) * Power[0] = value
  BY PowerDef
<1>8. QED
  BY <1>6, <1>7

(* There is nothing but the sign above the bytes of a value.               *)
LEMMA SignAbove ==
  ASSUME NEW T, T.size \in Nat, NEW value \in Values(T)
  PROVE  /\ value \in Int
         /\ value >= 0 => value \div Power[T.size] = 0
         /\ value < 0 => value \div Power[T.size] = -1 /\ T.signed
<1> DEFINE mod == Power[T.size]
<1>1. mod \in Nat \ {0}
  BY PowerDef
<1> HIDE DEF mod
<1>2. value \in IF T.signed THEN -(mod \div 2) .. (mod - 1) \div 2 ELSE 0 .. mod - 1
  BY DEF Values, mod
<1>3. /\ mod \div 2 \in Nat /\ mod \div 2 <= mod
      /\ (mod - 1) \div 2 \in Nat /\ (mod - 1) \div 2 <= mod - 1
  BY <1>1
<1>4. value \in Int /\ -mod <= value /\ value <= mod - 1 /\ (value < 0 => T.signed)
  BY <1>1, <1>2, <1>3
<1>5. ASSUME value >= 0 PROVE value \div mod = 0
  <2>1. value \in 0 .. mod - 1 /\ value = mod * 0 + value
    BY <1>1, <1>4, <1>5
  <2>2. QED
    BY <1>1, <1>4, <2>1, DivisionUnique
<1>6. ASSUME value < 0 PROVE value \div mod = -1
  <2>1. value + mod \in 0 .. mod - 1 /\ value = mod * (-1) + (value + mod) /\ -1 \in Int
    BY <1>1, <1>4, <1>6
  <2>2. QED
    BY <1>1, <1>4, <2>1, DivisionUnique
<1>7. QED
  BY <1>4, <1>5, <1>6 DEF mod

(* The loop of readInt is defined for every data.                          *)
LEMMA BitsDefined ==
  ASSUME NEW T, T.size \in Nat, NEW data, NEW at \in Nat,
         \A i \in 1 .. T.size : data[at + i] \in Int
  PROVE  \E bits \in [0 .. T.size -> Int] : IsBits(bits, T, data, at)
<1> DEFINE t == [i \in 1 .. T.size |-> data[at + i] * Power[T.size - i]]
<1>1. ASSUME NEW i \in 1 .. T.size PROVE t[i] \in Int
  <2>1. T.size - i \in Nat /\ data[at + i] \in Int
    OBVIOUS
  <2>2. Power[T.size - i] \in Int
    BY <2>1, PowerDef
  <2>3. QED
    BY <2>1, <2>2
<1>2. PICK bits \in [0 .. T.size -> Int] : Sums(bits, 0, T.size, t)
  <2> HIDE DEF t
  <2>1. 0 \in Int
    OBVIOUS
  <2>2. QED
    BY <1>1, <2>1, SumsDefined
<1>3. QED
  BY <1>2 DEF Sums, IsBits

(* Every value of every integral type reads back as it was written.        *)
THEOREM ReadIntInvertsWriteInt ==
  ASSUME NEW T, T.size \in Nat, NEW value \in Values(T), NEW data, NEW at \in Nat,
         Encodes(data, at, T, value)
  PROVE  readInt(T, data, at) = value
<1> DEFINE bits[i \in 0 .. T.size] ==
             IF i = 0 THEN 0 ELSE bits[i - 1] + data[at + i] * Power[T.size - i]
           mod == Power[T.size]
<1>1. value \in Int /\ mod \in Nat \ {0}
  BY SignAbove, PowerDef
<1>2. \A i \in 1 .. T.size : data[at + i] \in Int
  BY <1>1, WrittenBytes, ByteAssumption DEF Byte, Encodes
<1>3. bits = [i \in 0 .. T.size |->
                IF i = 0 THEN 0 ELSE bits[i - 1] + data[at + i] * Power[T.size - i]]
  <2>1. PICK f \in [0 .. T.size -> Int] : IsBits(f, T, data, at)
    BY <1>2, BitsDefined
  <2>2. ASSUME NEW i \in 0 .. T.size
        PROVE  f[i] = IF i = 0 THEN 0 ELSE f[i - 1] + data[at + i] * Power[T.size - i]
    BY <2>1 DEF IsBits
  <2>3. f = [i \in 0 .. T.size |-> f[i]]
    OBVIOUS
  <2>4. f = [i \in 0 .. T.size |->
               IF i = 0 THEN 0 ELSE f[i - 1] + data[at + i] * Power[T.size - i]]
    BY <2>2, <2>3
  <2>5. QED
    BY <2>4
<1>4. readInt(T, data, at) = IF T.signed /\ bits[T.size] > (mod - 1) \div 2
                               THEN bits[T.size] - mod ELSE bits[T.size]
  BY DEF readInt
<1> HIDE DEF bits
<1>5. bits[T.size] = value - (value \div mod) * mod
  <2>1. IsBits(bits, T, data, at)
    BY <1>3 DEF IsBits
  <2>2. bits[T.size] = value - (value \div Power[T.size]) * Power[T.size]
    BY <1>1, <2>1, BitsRead
  <2>3. QED
    BY <2>2 DEF mod
<1> HIDE DEF mod
<1>6. CASE value >= 0
  <2>1. bits[T.size] = value
    BY <1>1, <1>5, <1>6, SignAbove DEF mod
  <2>2. T.signed => value <= (mod - 1) \div 2
    BY <1>1 DEF Values, mod
  <2>3. QED
    BY <1>1, <1>4, <2>1, <2>2
<1>7. CASE value < 0
  <2>1. T.signed /\ value \div mod = -1
    BY <1>1, <1>7, SignAbove DEF mod
  <2>2. bits[T.size] = value + mod
    BY <1>1, <1>5, <2>1
  <2>3. value >= -(mod \div 2)
    BY <1>1, <2>1 DEF Values, mod
  <2>4. value + mod > (mod - 1) \div 2
    BY <1>1, <2>3
  <2>5. QED
    BY <1>1, <1>4, <2>1, <2>2, <2>4
<1>8. QED
  BY <1>1, <1>6, <1>7

-----------------------------------------------------------------------------
(* What a holder writes.                                                   *)

(* What a holder can have written: a value of one of the types.            *)
Entry ==
  {e \in [type : IntegralType \union {uint8}, value : Int] : e.value \in Values(e.type)}

LEMMA EntryMeaning ==
  ASSUME NEW e \in Entry
  PROVE  e.type.size \in Nat /\ e.value \in Values(e.type)
BY IntegralTypeAssumption DEF Entry, uint8

(* The recursion of Position is defined: a value begins where the one      *)
(* before it ends.                                                         *)
LEMMA PositionDef ==
  ASSUME NEW first \in Nat, NEW values \in Seq(Entry)
  PROVE  /\ \A k \in 1 .. Len(values) + 1 : Position(first, values, k) \in Int
         /\ Position(first, values, 1) = first
         /\ \A k \in 1 .. Len(values) :
              Position(first, values, k + 1) =
                Position(first, values, k) + values[k].type.size
<1> DEFINE n == Len(values)
           t == [i \in 1 .. n |-> values[i].type.size]
           behind[j \in 0 .. n] ==
             IF j = 0 THEN first ELSE behind[j - 1] + values[j].type.size
<1>1. n \in Nat /\ first \in Int
  OBVIOUS
<1>2. \A i \in 1 .. n : t[i] \in Int
  BY EntryMeaning
<1>3. PICK f \in [0 .. n -> Int] : Sums(f, first, n, t)
  <2> HIDE DEF t, n
  <2>1. QED
    BY <1>1, <1>2, SumsDefined
<1>4. f = [j \in 0 .. n |-> IF j = 0 THEN first ELSE f[j - 1] + values[j].type.size]
  <2>1. ASSUME NEW j \in 0 .. n
        PROVE  f[j] = IF j = 0 THEN first ELSE f[j - 1] + values[j].type.size
    BY <1>3 DEF Sums
  <2>2. f = [j \in 0 .. n |-> f[j]]
    OBVIOUS
  <2>3. QED
    BY <2>1, <2>2
<1>5. behind = [j \in 0 .. n |->
                  IF j = 0 THEN first ELSE behind[j - 1] + values[j].type.size]
  BY <1>4
<1>6. \A k : Position(first, values, k) = behind[k - 1]
  BY DEF Position
<1> HIDE DEF behind
<1>7. behind[0] = first
  BY <1>1, <1>5
<1>8. ASSUME NEW k \in 1 .. n
      PROVE  behind[k] = behind[k - 1] + values[k].type.size /\ values[k].type.size \in Int
  <2>1. k \in 0 .. n /\ k # 0 /\ values[k] \in Entry
    BY <1>1
  <2>2. behind[k] = behind[k - 1] + values[k].type.size
    BY <1>5, <2>1
  <2>3. values[k].type.size \in Int
    BY <2>1, EntryMeaning
  <2>4. QED
    BY <2>2, <2>3
<1>9. \A m \in Nat : m \in {j \in Nat : j <= n => behind[j] \in Int}
  <2> DEFINE S == {j \in Nat : j <= n => behind[j] \in Int}
  <2>1. 0 \in S
    BY <1>7
  <2>2. ASSUME NEW m \in Nat, m \in S PROVE m + 1 \in S
    <3>1. CASE m + 1 <= n
      <4>1. behind[m] \in Int /\ m + 1 \in 1 .. n /\ (m + 1) - 1 = m
        BY <1>1, <2>2, <3>1
      <4>2. behind[m + 1] \in Int
        BY <1>8, <4>1
      <4>3. QED
        BY <4>2
    <3>2. CASE ~ (m + 1 <= n)
      BY <3>2
    <3>3. QED
      BY <3>1, <3>2
  <2>3. \A m \in Nat : m \in S
    <3> HIDE DEF S
    <3>1. QED
      BY <2>1, <2>2, SetInduction
  <2>4. QED
    BY <2>3
<1>10. \A k \in 1 .. n + 1 : k - 1 \in Nat /\ k - 1 <= n /\ (k + 1) - 1 = k
  BY <1>1
<1>11. QED
  <2>1. \A k \in 1 .. n + 1 : behind[k - 1] \in Int
    BY <1>9, <1>10
  <2>2. \A k \in 1 .. n : behind[(k + 1) - 1] = behind[k - 1] + values[k].type.size
    BY <1>8
  <2>3. behind[1 - 1] = first
    BY <1>7
  <2>4. QED
    BY <1>6, <2>1, <2>2, <2>3

(* A value ends before the place where the last one ends.                  *)
LEMMA PositionsAscend ==
  ASSUME NEW first \in Nat, NEW values \in Seq(Entry), NEW k \in 1 .. Len(values)
  PROVE  /\ Position(first, values, k) \in Nat
         /\ Position(first, values, k) + values[k].type.size
              <= Position(first, values, Len(values) + 1)
<1> DEFINE P(j) == Position(first, values, j)
           n == Len(values)
           S == {m \in Nat : m <= n =>
                   P(m + 1) \in Nat /\ \A j \in 1 .. m : P(j) \in Nat /\ P(j + 1) <= P(m + 1)}
<1>1. P(1) = first /\ n \in Nat
  BY PositionDef
<1>2. \A j \in 1 .. n : P(j + 1) = P(j) + values[j].type.size /\ values[j].type.size \in Nat
  BY PositionDef, EntryMeaning
<1> HIDE DEF P
<1>3. 0 \in S
  BY <1>1
<1>4. ASSUME NEW m \in Nat, m \in S PROVE m + 1 \in S
  <2>1. CASE m + 1 <= n
    <3>1. m + 1 \in 1 .. n /\ P(m + 1) \in Nat
          /\ \A j \in 1 .. m : P(j) \in Nat /\ P(j + 1) <= P(m + 1)
      BY <1>1, <1>4, <2>1
    <3>2. P((m + 1) + 1) = P(m + 1) + values[m + 1].type.size
          /\ values[m + 1].type.size \in Nat
      BY <1>2, <3>1
    <3>3. P((m + 1) + 1) \in Nat /\ P(m + 1) <= P((m + 1) + 1)
      BY <3>1, <3>2
    <3>4. ASSUME NEW j \in 1 .. m + 1 PROVE P(j) \in Nat /\ P(j + 1) <= P((m + 1) + 1)
      <4>1. CASE j = m + 1
        BY <3>1, <3>3, <4>1
      <4>2. CASE j # m + 1
        <5>1. j \in 1 .. m /\ j \in 1 .. n
          BY <1>1, <2>1, <4>2
        <5>2. P(j) \in Nat /\ P(j + 1) <= P(m + 1) /\ P(j + 1) \in Int
          BY <1>2, <3>1, <5>1
        <5>3. QED
          BY <3>1, <3>3, <5>2
      <4>3. QED
        BY <4>1, <4>2
    <3>5. QED
      BY <3>3, <3>4
  <2>2. CASE ~ (m + 1 <= n)
    BY <2>2
  <2>3. QED
    BY <2>1, <2>2
<1>5. n \in S
  <2> HIDE DEF S
  <2>1. \A m \in Nat : m \in S
    BY <1>3, <1>4, SetInduction
  <2>2. QED
    BY <1>1, <2>1
<1>6. P(k) \in Nat /\ P(k + 1) <= P(n + 1)
  BY <1>1, <1>5
<1>7. QED
  BY <1>2, <1>6 DEF P

(* A value more leaves the others where they are.                          *)
LEMMA PositionAppend ==
  ASSUME NEW first \in Nat, NEW values \in Seq(Entry), NEW e \in Entry
  PROVE  LET more == Append(values, e)
         IN  /\ \A k \in 1 .. Len(values) + 1 :
                  Position(first, more, k) = Position(first, values, k)
             /\ Position(first, more, Len(values) + 2) =
                  Position(first, values, Len(values) + 1) + e.type.size
<1> DEFINE n == Len(values)
           more == Append(values, e)
           P(j) == Position(first, values, j)
           Q(j) == Position(first, more, j)
           S == {m \in Nat : m <= n => Q(m + 1) = P(m + 1)}
<1>1. /\ n \in Nat /\ more \in Seq(Entry) /\ Len(more) = n + 1 /\ more[n + 1] = e
      /\ \A j \in 1 .. n : more[j] = values[j] /\ j \in 1 .. n + 1
      /\ n + 1 \in 1 .. n + 1
  OBVIOUS
<1> HIDE DEF more
<1>2. P(1) = first /\ Q(1) = first
  BY <1>1, PositionDef
<1>3. \A j \in 1 .. n : P(j + 1) = P(j) + values[j].type.size
  BY PositionDef
<1>4. \A j \in 1 .. n + 1 : Q(j + 1) = Q(j) + more[j].type.size
  BY <1>1, PositionDef
<1> HIDE DEF P, Q, n
<1>5. 0 \in S
  BY <1>2
<1>6. ASSUME NEW m \in Nat, m \in S PROVE m + 1 \in S
  <2>1. CASE m + 1 <= n
    <3>1. m + 1 \in 1 .. n /\ Q(m + 1) = P(m + 1)
      BY <1>1, <1>6, <2>1
    <3>2. Q((m + 1) + 1) = P((m + 1) + 1)
      BY <1>1, <1>3, <1>4, <3>1
    <3>3. QED
      BY <3>2
  <2>2. CASE ~ (m + 1 <= n)
    BY <2>2
  <2>3. QED
    BY <2>1, <2>2
<1>7. \A m \in Nat : m \in S
  <2> HIDE DEF S
  <2>1. QED
    BY <1>5, <1>6, SetInduction
<1>8. ASSUME NEW k \in 1 .. n + 1 PROVE Q(k) = P(k)
  <2>1. k - 1 \in Nat /\ k - 1 <= n /\ (k - 1) + 1 = k
    BY <1>1
  <2>2. k - 1 \in S
    BY <1>7, <2>1
  <2>3. QED
    BY <2>1, <2>2
<1>9. Q(n + 2) = P(n + 1) + e.type.size
  <2>1. (n + 1) + 1 = n + 2
    BY <1>1
  <2>2. QED
    BY <1>1, <1>4, <1>8, <2>1
<1>10. QED
  BY <1>8, <1>9 DEF P, Q, n, more

-----------------------------------------------------------------------------
(* data has the bytes of all values, one behind the other, from first up   *)
(* to at.                                                                  *)
Holds(data, first, values, at) ==
  /\ \A k \in DOMAIN values :
       Encodes(data, Position(first, values, k), values[k].type, values[k].value)
  /\ Position(first, values, Len(values) + 1) = at

(* The first n bytes of data and newer are the same.                       *)
SameUpTo(n, data, newer) == \A i \in 1 .. n : newer[i] = data[i]

(* Writing a value behind the others adds it to them.                      *)
LEMMA AppendValue ==
  ASSUME NEW first \in Nat, NEW values \in Seq(Entry), NEW e \in Entry,
         NEW data, NEW newer, NEW at, Holds(data, first, values, at),
         SameUpTo(at, data, newer), Encodes(newer, at, e.type, e.value)
  PROVE  /\ Append(values, e) \in Seq(Entry)
         /\ Holds(newer, first, Append(values, e), at + e.type.size)
<1> DEFINE n == Len(values)
           more == Append(values, e)
<1>1. /\ n \in Nat /\ more \in Seq(Entry) /\ Len(more) = n + 1 /\ more[n + 1] = e
      /\ \A j \in 1 .. n : more[j] = values[j]
      /\ DOMAIN values = 1 .. n /\ DOMAIN more = 1 .. n + 1
  OBVIOUS
<1>2. /\ \A k \in 1 .. n + 1 : Position(first, more, k) = Position(first, values, k)
      /\ Position(first, more, n + 2) = at + e.type.size
      /\ Position(first, values, n + 1) = at
  BY PositionAppend DEF Holds
<1>3. at \in Int
  BY <1>1, <1>2, PositionDef
<1> HIDE DEF more
<1>4. ASSUME NEW k \in 1 .. n + 1
      PROVE  Encodes(newer, Position(first, more, k), more[k].type, more[k].value)
  <2>1. CASE k = n + 1
    BY <1>1, <1>2, <2>1
  <2>2. CASE k # n + 1
    <3> DEFINE P == Position(first, values, k)
               T == values[k].type
    <3>1. k \in 1 .. n /\ k \in DOMAIN values /\ more[k] = values[k]
          /\ values[k] \in Entry /\ Position(first, more, k) = P
      BY <1>1, <1>2, <2>2
    <3>2. P \in Nat /\ P + T.size <= at /\ T.size \in Nat
      BY <1>2, <3>1, PositionsAscend, EntryMeaning
    <3>3. Encodes(data, P, T, values[k].value)
      BY <3>1 DEF Holds
    <3> HIDE DEF P, T
    <3>4. \A i \in 1 .. T.size : P + i \in 1 .. at
      BY <1>3, <3>2
    <3>5. Encodes(newer, P, T, values[k].value)
      BY <3>3, <3>4 DEF Encodes, SameUpTo
    <3>6. QED
      BY <3>1, <3>5 DEF T
  <2>3. QED
    BY <2>1, <2>2
<1>5. Len(more) + 1 = n + 2
  BY <1>1
<1>6. Holds(newer, first, more, at + e.type.size)
  BY <1>1, <1>2, <1>4, <1>5 DEF Holds
<1>7. QED
  BY <1>1, <1>6 DEF more

(* What a reader finds where the bytes of a datagram end.                  *)
LEMMA DatagramReads ==
  ASSUME NEW first \in Nat, NEW values \in Seq(Entry), NEW data, NEW datagram,
         NEW at, Holds(data, first, values, at), SameUpTo(at, data, datagram),
         NEW k \in DOMAIN values
  PROVE  readInt(values[k].type, datagram, Position(first, values, k)) = values[k].value
<1> DEFINE P == Position(first, values, k)
           T == values[k].type
<1>1. /\ k \in 1 .. Len(values) /\ values[k] \in Entry /\ Len(values) \in Nat
      /\ Position(first, values, Len(values) + 1) = at
  BY DEF Holds
<1>2. P \in Nat /\ P + T.size <= at /\ T.size \in Nat /\ values[k].value \in Values(T)
  BY <1>1, PositionsAscend, EntryMeaning
<1>3. at \in Int
  BY <1>1, PositionDef
<1>4. Encodes(data, P, T, values[k].value)
  BY DEF Holds
<1> HIDE DEF P, T
<1>5. \A i \in 1 .. T.size : P + i \in 1 .. at
  BY <1>2, <1>3
<1>6. Encodes(datagram, P, T, values[k].value)
  BY <1>4, <1>5 DEF Encodes, SameUpTo
<1>7. readInt(T, datagram, P) = values[k].value
  BY <1>2, <1>6, ReadIntInvertsWriteInt
<1>8. QED
  BY <1>7 DEF P, T

(* A byte is encoded as itself.                                            *)
LEMMA ByteWritten ==
  ASSUME NEW b \in Byte
  PROVE  /\ [type |-> uint8, value |-> b] \in Entry
         /\ writeInt(uint8, b)[1] = b
<1>1. ByteMod \in Nat \ {0, 1} /\ b \in 0 .. ByteMod - 1
  BY ByteAssumption DEF Byte
<1>2. Power[0] = 1 /\ Power[1] = ByteMod
  <2>1. Power[0 + 1] = ByteMod * Power[0] /\ Power[0] = 1
    BY PowerDef
  <2>2. QED
    BY <1>1, <2>1
<1>3. b \in Values(uint8)
  BY <1>1, <1>2 DEF Values, uint8
<1>4. writeInt(uint8, b)[1] = (b \div 1) % ByteMod
  BY <1>2 DEF writeInt, uint8
<1>5. (b \div 1) % ByteMod = b
  BY <1>1
<1>6. QED
  BY <1>1, <1>3, <1>4, <1>5 DEF Entry

(* What was written begins behind the first position.                      *)
LEMMA FirstBelow ==
  ASSUME NEW first \in Nat, NEW values \in Seq(Entry), NEW data, NEW at,
         Holds(data, first, values, at)
  PROVE  first <= at
<1>1. Len(values) \in Nat /\ Position(first, values, Len(values) + 1) = at
  BY DEF Holds
<1>2. Position(first, values, 1) = first
  BY PositionDef
<1>3. CASE Len(values) = 0
  BY <1>1, <1>2, <1>3
<1>4. CASE Len(values) # 0
  <2>1. 1 \in 1 .. Len(values) /\ values[1] \in Entry
    BY <1>1, <1>4
  <2>2. /\ Position(first, values, 1) + values[1].type.size
             <= Position(first, values, Len(values) + 1)
        /\ values[1].type.size \in Nat
    BY <2>1, PositionsAscend, EntryMeaning
  <2>3. at \in Int
    BY <1>1, PositionDef
  <2>4. QED
    BY <1>1, <1>2, <2>2, <2>3
<1>5. QED
  BY <1>3, <1>4

(* What the holder of a packet wrote lies in it between what it found and  *)
(* the write position, unless the position was put outside.                *)
WrittenType ==
  /\ before = [p \in SendPacket |-> before[p]]
  /\ \A p \in SendPacket : Len(before[p]) \in Nat
  /\ written \in [SendPacket -> Seq(Entry)]

Encoded(p) ==
  /\ SameUpTo(Len(before[p]), before[p], buffer[p])
  /\ Holds(buffer[p], Len(before[p]), written[p], writeIndex[p])

HeldEncoded == \A p \in held \ misused : Encoded(p)

WrittenInv == PathInv /\ WrittenType /\ HeldEncoded

(* The bytes in front of a place of the packet.                            *)
LEMMA FrontOf ==
  ASSUME NEW p, capacity[p] \in Nat, NEW index
  PROVE  /\ Len(Front(p, index)) \in Nat
         /\ index \in 0 .. capacity[p] =>
              /\ Len(Front(p, index)) = index
              /\ SameUpTo(index, Front(p, index), buffer[p])
              /\ SameUpTo(index, buffer[p], Front(p, index))
<1> DEFINE n == IF index \in 0 .. capacity[p] THEN index ELSE 0
<1>1. n \in Nat /\ (index \in 0 .. capacity[p] => n = index)
  OBVIOUS
<1> HIDE DEF n
<1>2. Len(SubSeq(buffer[p], 1, n)) = n
      /\ \A i \in 1 .. n : SubSeq(buffer[p], 1, n)[i] = buffer[p][i]
  BY <1>1
<1>3. Front(p, index) = SubSeq(buffer[p], 1, n)
  BY DEF Front, n
<1>4. QED
  BY <1>1, <1>2, <1>3 DEF SameUpTo

(* A packet that changes hands, or whose position is moved: its holder, if *)
(* it has one, begins behind the bytes in front of the position.           *)
LEMMA BeginEncoded ==
  ASSUME WrittenInv, NEW p \in SendPacket, NEW bytes, Len(bytes) \in Nat,
         Begin(p, bytes), held' \subseteq held \union {p},
         \A q \in SendPacket \ {p} : /\ buffer'[q] = buffer[q]
                                     /\ writeIndex'[q] = writeIndex[q]
                                     /\ q \in misused => q \in misused',
         p \in held' \ misused' =>
           writeIndex'[p] = Len(bytes) /\ SameUpTo(Len(bytes), bytes, buffer'[p])
  PROVE  WrittenType' /\ HeldEncoded'
<1>1. held \subseteq SendPacket
  BY DEF WrittenInv, PathInv, PoolInv, TypeOK
<1>2. /\ before'[p] = bytes /\ written'[p] = <<>> /\ <<>> \in Seq(Entry)
      /\ before' = [q \in SendPacket |-> before'[q]]
      /\ \A q \in SendPacket \ {p} : before'[q] = before[q] /\ written'[q] = written[q]
  <2>1. /\ before' = [before EXCEPT ![p] = bytes]
        /\ written' = [written EXCEPT ![p] = <<>>]
        /\ before = [q \in SendPacket |-> before[q]]
        /\ written \in [SendPacket -> Seq(Entry)]
    BY DEF Begin, WrittenInv, WrittenType
  <2>2. /\ before'[p] = bytes /\ \A q \in SendPacket \ {p} : before'[q] = before[q]
    BY <2>1
  <2>3. before' = [q \in SendPacket |-> before'[q]]
    BY <2>1
  <2>4. /\ written'[p] = <<>> /\ <<>> \in Seq(Entry)
        /\ \A q \in SendPacket \ {p} : written'[q] = written[q]
    BY <2>1
  <2>5. QED
    BY <2>2, <2>3, <2>4
<1>3. written' \in [SendPacket -> Seq(Entry)]
  BY <1>2 DEF Begin, WrittenInv, WrittenType
<1>4. WrittenType'
  BY <1>2, <1>3 DEF WrittenInv, WrittenType
<1>5. ASSUME p \in held' \ misused' PROVE Encoded(p)'
  <2>1. /\ Position(Len(bytes), <<>>, 1) = Len(bytes)
        /\ Len(<<>>) + 1 = 1 /\ DOMAIN <<>> = {}
    <3>1. Position(Len(bytes), <<>>, 1) = Len(bytes)
      BY <1>2, PositionDef
    <3>2. Len(<<>>) + 1 = 1 /\ DOMAIN <<>> = {}
      OBVIOUS
    <3>3. QED
      BY <3>1, <3>2
  <2>2. Holds(buffer'[p], Len(bytes), <<>>, Len(bytes))
    BY <2>1 DEF Holds
  <2>3. QED
    BY <1>2, <1>5, <2>2 DEF Encoded
<1>6. ASSUME NEW q \in held' \ misused', q # p PROVE Encoded(q)'
  <2>1. q \in held \ misused /\ q \in SendPacket \ {p}
    BY <1>1, <1>6
  <2>2. QED
    BY <1>2, <2>1 DEF Encoded, WrittenInv, HeldEncoded
<1>7. QED
  BY <1>4, <1>5, <1>6 DEF HeldEncoded

(* Put leaves what is before the position and adds the bytes behind it.    *)
LEMMA PutBytes ==
  ASSUME PathInv, NEW p \in held \ misused, NEW bytes, NEW values,
         Put(p, bytes, values), ~ Stray(p, Len(bytes)),
         Len(bytes) \in Nat, DOMAIN bytes = 1 .. Len(bytes)
  PROVE  /\ SameUpTo(writeIndex[p], buffer[p], buffer'[p])
         /\ \A i \in 1 .. Len(bytes) : buffer'[p][writeIndex[p] + i] = bytes[i]
         /\ writeIndex'[p] = writeIndex[p] + Len(bytes)
<1>1. /\ p \in SendPacket /\ capacity[p] \in Nat
      /\ writeIndex[p] \in 0 .. capacity[p] /\ DOMAIN buffer[p] = 1 .. capacity[p]
  BY HeldPacket DEF RoomFits
<1> DEFINE w == writeIndex[p]
           f == [n \in DOMAIN buffer[p] |->
                   IF n - w \in DOMAIN bytes THEN bytes[n - w] ELSE buffer[p][n]]
<1>2. /\ \A i \in 1 .. Len(bytes) : w + i \in 1 .. capacity[p]
      /\ buffer' = [buffer EXCEPT ![p] = f]
      /\ writeIndex' = [writeIndex EXCEPT ![p] = w + Len(bytes)]
  BY <1>1 DEF Put
<1>3. buffer'[p] = f /\ writeIndex'[p] = w + Len(bytes)
  <2> HIDE DEF f
  <2>1. QED
    BY <1>1, <1>2 DEF PathInv, ContentsType
<1>4. ASSUME NEW n \in 1 .. w PROVE f[n] = buffer[p][n]
  BY <1>1
<1>5. ASSUME NEW i \in 1 .. Len(bytes) PROVE f[w + i] = bytes[i]
  <2>1. w + i \in 1 .. capacity[p] /\ (w + i) - w = i
    BY <1>1, <1>2
  <2>2. QED
    BY <1>1, <2>1
<1>6. QED
  <2> HIDE DEF f
  <2>1. QED
    BY <1>3, <1>4, <1>5 DEF SameUpTo

(* A write changes nothing but what its holder has written.                *)
LEMMA PutEncoded ==
  ASSUME WrittenInv, NEW p \in held, NEW bytes, NEW values \in Seq(Entry),
         Put(p, bytes, values), Len(bytes) \in Nat, DOMAIN bytes = 1 .. Len(bytes),
         p \notin misused /\ ~ Stray(p, Len(bytes)) =>
           Holds(buffer'[p], Len(before[p]), written[p] \o values, writeIndex'[p])
  PROVE  WrittenType' /\ HeldEncoded'
<1>1. PathInv /\ p \in SendPacket /\ held \subseteq SendPacket
  BY DEF WrittenInv, PathInv, PoolInv, TypeOK
<1>2. CASE Stray(p, Len(bytes))
  <2>1. /\ held' = held /\ misused \subseteq misused'
        /\ UNCHANGED <<buffer, writeIndex, before, written>>
    BY <1>2 DEF Stray, poolVars
  <2>2. \A q \in held' \ misused' : q \in held \ misused /\ (Encoded(q) <=> Encoded(q)')
    BY <2>1 DEF Encoded
  <2>3. QED
    BY <2>1, <2>2 DEF WrittenInv, WrittenType, HeldEncoded
<1>3. CASE ~ Stray(p, Len(bytes))
  <2> DEFINE g == [n \in DOMAIN buffer[p] |->
                     IF n - writeIndex[p] \in DOMAIN bytes
                       THEN bytes[n - writeIndex[p]] ELSE buffer[p][n]]
             more == written[p] \o values
  <2>1. /\ held' = held /\ before' = before /\ misused' = misused
        /\ buffer' = [buffer EXCEPT ![p] = g]
        /\ writeIndex' = [writeIndex EXCEPT ![p] = @ + Len(bytes)]
        /\ written' = [written EXCEPT ![p] = more]
    BY <1>3 DEF Put, poolVars
  <2> HIDE DEF g
  <2>2. more \in Seq(Entry)
    BY <1>1 DEF WrittenInv, WrittenType
  <2> HIDE DEF more
  <2>3. /\ \A q \in SendPacket \ {p} : /\ buffer'[q] = buffer[q] /\ written'[q] = written[q]
                                       /\ writeIndex'[q] = writeIndex[q]
        /\ written'[p] = more /\ written' \in [SendPacket -> Seq(Entry)]
    BY <1>1, <2>1, <2>2 DEF WrittenInv, WrittenType, PathInv, ContentsType
  <2>4. WrittenType'
    BY <2>1, <2>3 DEF WrittenInv, WrittenType
  <2>5. ASSUME p \notin misused PROVE Encoded(p)'
    <3> DEFINE first == Len(before[p])
    <3>1. /\ SameUpTo(first, before[p], buffer[p]) /\ first \in Nat
          /\ Holds(buffer[p], first, written[p], writeIndex[p])
          /\ written[p] \in Seq(Entry)
      BY <1>1, <2>5 DEF WrittenInv, WrittenType, HeldEncoded, Encoded
    <3>2. Holds(buffer'[p], first, more, writeIndex'[p])
      BY <1>3, <2>5 DEF more
    <3>3. SameUpTo(writeIndex[p], buffer[p], buffer'[p])
      BY <1>1, <1>3, <2>5, PutBytes
    <3> HIDE DEF first
    <3>4. first <= writeIndex[p]
      BY <3>1, FirstBelow
    <3>5. writeIndex[p] \in Int
      BY <1>1 DEF PathInv, ContentsType
    <3>6. SameUpTo(first, before[p], buffer'[p])
      BY <3>1, <3>3, <3>4, <3>5 DEF SameUpTo
    <3>7. QED
      BY <2>1, <2>3, <3>2, <3>6 DEF Encoded, first
  <2>6. ASSUME NEW q \in held' \ misused', q # p PROVE Encoded(q)'
    <3>1. q \in held \ misused /\ q \in SendPacket \ {p}
      BY <1>1, <2>1, <2>6
    <3>2. QED
      BY <2>1, <2>3, <3>1 DEF Encoded, WrittenInv, HeldEncoded
  <2>7. QED
    BY <2>1, <2>4, <2>5, <2>6 DEF HeldEncoded
<1>4. QED
  BY <1>2, <1>3

LEMMA WriteEncoded ==
  ASSUME WrittenInv, NEW p \in SendPacket, NEW T \in IntegralType,
         NEW value \in Values(T), Write(p, T, value)
  PROVE  WrittenType' /\ HeldEncoded'
<1> DEFINE e == [type |-> T, value |-> value]
           bytes == writeInt(T, value)
<1>1. PathInv /\ p \in held /\ Put(p, bytes, <<e>>) /\ T.size \in Nat
  BY IntegralTypeAssumption DEF WrittenInv, Write
<1>2. Len(bytes) = T.size /\ DOMAIN bytes = 1 .. Len(bytes)
  BY WriteIntLength
<1>3. e \in Entry
  <2>1. value \in Int
    BY <1>1, SignAbove
  <2>2. QED
    BY <2>1 DEF Entry
<1> HIDE DEF bytes
<1>4. ASSUME p \notin misused, ~ Stray(p, Len(bytes))
      PROVE  Holds(buffer'[p], Len(before[p]), written[p] \o <<e>>, writeIndex'[p])
  <2>1. /\ SameUpTo(writeIndex[p], buffer[p], buffer'[p])
        /\ \A i \in 1 .. T.size : buffer'[p][writeIndex[p] + i] = bytes[i]
        /\ writeIndex'[p] = writeIndex[p] + T.size
    BY <1>1, <1>2, <1>4, PutBytes
  <2>2. Encodes(buffer'[p], writeIndex[p], e.type, e.value) /\ e.type.size = T.size
    BY <2>1 DEF Encodes, bytes
  <2>3. /\ written[p] \in Seq(Entry) /\ Len(before[p]) \in Nat
        /\ Holds(buffer[p], Len(before[p]), written[p], writeIndex[p])
    BY <1>1, <1>4 DEF WrittenInv, WrittenType, HeldEncoded, Encoded
  <2> HIDE DEF e
  <2>4. Holds(buffer'[p], Len(before[p]), Append(written[p], e), writeIndex'[p])
    BY <1>3, <2>1, <2>2, <2>3, AppendValue
  <2>5. written[p] \o <<e>> = Append(written[p], e)
    BY <1>3, <2>3
  <2>6. QED
    BY <2>4, <2>5
<1>5. <<e>> \in Seq(Entry)
  <2> HIDE DEF e
  <2>1. QED
    BY <1>3
<1> HIDE DEF e
<1>6. QED
  BY <1>1, <1>2, <1>4, <1>5, PutEncoded

LEMMA ArrayEncoded ==
  ASSUME WrittenInv, NEW p \in SendPacket, NEW b1 \in Byte, NEW b2 \in Byte,
         writeFromArray(p, <<b1, b2>>)
  PROVE  WrittenType' /\ HeldEncoded'
<1> DEFINE e1 == [type |-> uint8, value |-> b1]
           e2 == [type |-> uint8, value |-> b2]
           one == Append(written[p], e1)
           w == writeIndex[p]
           first == Len(before[p])
           bytes == <<b1, b2>>
<1>1. PathInv /\ p \in held /\ Put(p, bytes, <<e1, e2>>)
  <2> DEFINE tail == [n \in DOMAIN bytes |-> [type |-> uint8, value |-> bytes[n]]]
  <2>1. tail = <<e1, e2>>
    BY DOMAIN bytes = 1 .. 2
  <2>2. PathInv /\ p \in held /\ Put(p, bytes, tail)
    BY DEF WrittenInv, writeFromArray
  <2> HIDE DEF tail
  <2>3. QED
    BY <2>1, <2>2
<1>2. e1 \in Entry /\ e2 \in Entry
  BY ByteWritten
<1>3. /\ Len(bytes) = 2 /\ Len(bytes) \in Nat /\ DOMAIN bytes = 1 .. Len(bytes)
      /\ bytes[1] = b1 /\ bytes[2] = b2
  OBVIOUS
<1> HIDE DEF bytes
<1>4. ASSUME p \notin misused, ~ Stray(p, Len(bytes))
      PROVE  Holds(buffer'[p], first, written[p] \o <<e1, e2>>, writeIndex'[p])
  <2>1. /\ written[p] \in Seq(Entry) /\ first \in Nat /\ w \in Int
        /\ Holds(buffer[p], first, written[p], w)
    BY <1>1, <1>4 DEF WrittenInv, WrittenType, HeldEncoded, Encoded, PathInv,
                      ContentsType, PoolInv, TypeOK
  <2>2. /\ SameUpTo(w, buffer[p], buffer'[p])
        /\ \A i \in 1 .. Len(bytes) : buffer'[p][w + i] = bytes[i]
        /\ writeIndex'[p] = w + Len(bytes)
    BY <1>1, <1>3, <1>4, PutBytes
  <2>3. buffer'[p][w + 1] = b1 /\ buffer'[p][w + 2] = b2 /\ writeIndex'[p] = (w + 1) + 1
    BY <1>3, <2>1, <2>2
  <2>4. /\ Encodes(buffer'[p], w, e1.type, e1.value)
        /\ Encodes(buffer'[p], w + 1, e2.type, e2.value)
        /\ e1.type.size = 1 /\ e2.type.size = 1
    <3>1. writeInt(uint8, b1)[1] = b1 /\ writeInt(uint8, b2)[1] = b2
      BY ByteWritten
    <3>2. w + 2 = (w + 1) + 1
      BY <2>1
    <3>3. uint8.size = 1
      BY DEF uint8
    <3>4. QED
      BY <2>3, <3>1, <3>2, <3>3 DEF Encodes
  <2> HIDE DEF e1, e2, w, first
  <2>5. one \in Seq(Entry) /\ Holds(buffer'[p], first, one, w + 1)
    BY <1>2, <2>1, <2>2, <2>4, AppendValue
  <2>6. written[p] \o <<e1, e2>> = Append(one, e2)
    BY <1>2, <2>1
  <2> HIDE DEF one
  <2>7. SameUpTo(w + 1, buffer'[p], buffer'[p])
    BY DEF SameUpTo
  <2>8. Holds(buffer'[p], first, Append(one, e2), writeIndex'[p])
    BY <1>2, <2>1, <2>3, <2>4, <2>5, <2>7, AppendValue
  <2>9. QED
    BY <2>6, <2>8
<1>5. <<e1, e2>> \in Seq(Entry)
  <2> HIDE DEF e1, e2
  <2>1. QED
    BY <1>2
<1> HIDE DEF e1, e2
<1>6. QED
  BY <1>1, <1>3, <1>4, <1>5, PutEncoded

LEMMA WrittenInvInit == PathInit => WrittenInv
<1> SUFFICES ASSUME PathInit PROVE WrittenInv
  OBVIOUS
<1>1. PathInv /\ held = {}
  BY PathInvInit DEF PathInit, Init
<1>2. <<>> \in Seq(Entry) /\ Len(<<>>) \in Nat
  OBVIOUS
<1>3. QED
  BY <1>1, <1>2 DEF PathInit, WrittenInv, WrittenType, HeldEncoded

LEMMA GetEncoded ==
  ASSUME WrittenInv, PathInv', NEW p \in SendPacket, NEW s \in Size, GetSendPacket(p, s)
  PROVE  WrittenType' /\ HeldEncoded'
<1>1. PathInv /\ PoolInv /\ held' = held \union {p} /\ misused' = misused
  BY DEF WrittenInv, PathInv, GetSendPacket, getSendPacket, Allocate, Reuse, HandOut
<1>2. CASE /\ p \in Alive /\ Begin(p, Front(p, writeIndex[p]))
           /\ UNCHANGED <<buffer, writeIndex>>
  <2> DEFINE bytes == Front(p, writeIndex[p])
  <2>1. capacity[p] \in Nat /\ (p \notin misused => writeIndex[p] \in 0 .. capacity[p])
    <3>1. capacity[p] \in Nat
      BY <1>1 DEF PoolInv, TypeOK, Size
    <3>2. p \notin misused => RoomFits(p)
      BY <1>1, <1>2 DEF PathInv, WriterFits
    <3>3. QED
      BY <3>1, <3>2 DEF RoomFits
  <2>2. /\ Len(bytes) \in Nat
        /\ p \notin misused =>
             writeIndex[p] = Len(bytes) /\ SameUpTo(Len(bytes), bytes, buffer[p])
    BY <2>1, FrontOf
  <2> HIDE DEF bytes
  <2>3. Begin(p, bytes)
    BY <1>2 DEF bytes
  <2>4. QED
    BY <1>1, <1>2, <2>2, <2>3, BeginEncoded
<1>3. CASE /\ Begin(p, <<>>)
           /\ buffer' = [buffer EXCEPT ![p] = [n \in 1 .. capacity'[p] |-> 0]]
           /\ writeIndex' = [writeIndex EXCEPT ![p] = 0]
  <2>1. /\ writeIndex'[p] = 0
        /\ \A q \in SendPacket \ {p} : buffer'[q] = buffer[q] /\ writeIndex'[q] = writeIndex[q]
    BY <1>1, <1>3 DEF PathInv, ContentsType
  <2>2. Len(<<>>) = 0 /\ SameUpTo(0, <<>>, buffer'[p])
    BY DEF SameUpTo
  <2>3. QED
    BY <1>1, <1>3, <2>1, <2>2, BeginEncoded
<1>4. QED
  BY <1>2, <1>3 DEF GetSendPacket

LEMMA EndEncoded ==
  ASSUME WrittenInv, NEW p \in SendPacket, NoLongerHeld(p), End(p)
  PROVE  WrittenType' /\ HeldEncoded'
<1>1. PathInv /\ held' = held \ {p} /\ Begin(p, <<>>) /\ Len(<<>>) \in Nat
  BY DEF WrittenInv, NoLongerHeld, End
<1>2. \A q \in SendPacket \ {p} : /\ buffer'[q] = buffer[q]
                                  /\ writeIndex'[q] = writeIndex[q]
                                  /\ q \in misused => q \in misused'
  BY <1>1 DEF End, PathInv, ContentsType
<1>3. QED
  BY <1>1, <1>2, BeginEncoded

LEMMA SetWriteIndexEncoded ==
  ASSUME WrittenInv, NEW p \in SendPacket, NEW index \in Index, setWriteIndex(p, index)
  PROVE  WrittenType' /\ HeldEncoded'
<1> DEFINE bytes == Front(p, index)
<1>1. /\ PathInv /\ p \in held /\ held' = held /\ buffer' = buffer
      /\ writeIndex' = [writeIndex EXCEPT ![p] = index] /\ Begin(p, bytes)
  BY DEF WrittenInv, setWriteIndex, poolVars
<1>2. capacity[p] \in Nat
  BY <1>1, HeldPacket
<1>3. /\ p \notin misused' => index \in 0 .. capacity[p]
      /\ \A q \in SendPacket \ {p} : q \in misused => q \in misused'
  BY DEF setWriteIndex
<1>4. /\ Len(bytes) \in Nat
      /\ p \notin misused' => index = Len(bytes) /\ SameUpTo(Len(bytes), bytes, buffer[p])
  BY <1>2, <1>3, FrontOf
<1> HIDE DEF bytes
<1>5. writeIndex'[p] = index /\ \A q \in SendPacket \ {p} : writeIndex'[q] = writeIndex[q]
  BY <1>1 DEF PathInv, ContentsType
<1>6. QED
  BY <1>1, <1>3, <1>4, <1>5, BeginEncoded

(* A step that changes nothing of the contents of a packet.                *)
LEMMA NothingWritten ==
  ASSUME WrittenInv, held' = held, misused \subseteq misused',
         UNCHANGED <<buffer, writeIndex, before, written>>
  PROVE  WrittenType' /\ HeldEncoded'
<1>1. \A q \in held' \ misused' : q \in held \ misused /\ (Encoded(q) <=> Encoded(q)')
  BY DEF Encoded
<1>2. QED
  BY <1>1 DEF WrittenInv, WrittenType, HeldEncoded

LEMMA WrittenStep == WrittenInv /\ [PathNext]_pathVars => WrittenInv'
<1> SUFFICES ASSUME WrittenInv, [PathNext]_pathVars PROVE WrittenInv'
  OBVIOUS
<1> DEFINE Goal == WrittenType' /\ HeldEncoded'
<1>1. PathInv' /\ RequestSize \subseteq Size
  BY PathStep, RequestAssumption DEF WrittenInv
<1>2. ASSUME NEW s \in Size, AddClassSize(s) PROVE Goal
  BY <1>2, NothingWritten DEF AddClassSize, addClassSize, contentVars
<1>3. ASSUME NEW p \in SendPacket, NEW s \in Size, GetSendPacket(p, s) PROVE Goal
  BY <1>1, <1>3, GetEncoded
<1>4. ASSUME NEW p \in SendPacket, ReleaseSendPacket(p) PROVE Goal
  BY <1>4, EndEncoded DEF ReleaseSendPacket, releaseSendPacket
<1>5. ASSUME NEW p \in SendPacket, Send(p) PROVE Goal
  <2>1. CASE sendPacket(p) /\ End(p)
    BY <2>1, EndEncoded DEF sendPacket
  <2>2. CASE Stray(p, 0)
    BY <2>2, NothingWritten DEF Stray, poolVars
  <2>3. QED
    BY <1>5, <2>1, <2>2 DEF Send
<1>6. ASSUME NEW p \in SendPacket, NEW numBytes \in Size, Ask(p, numBytes) PROVE Goal
  BY <1>6, NothingWritten DEF Ask, poolVars
<1>7. ASSUME NEW p \in SendPacket, NEW index \in Index, setWriteIndex(p, index) PROVE Goal
  BY <1>7, SetWriteIndexEncoded
<1>8. ASSUME NEW p \in SendPacket, NEW T \in IntegralType, NEW value \in Values(T),
             Write(p, T, value)
      PROVE  Goal
  BY <1>8, WriteEncoded
<1>9. ASSUME NEW p \in SendPacket, NEW b1 \in Byte, NEW b2 \in Byte,
             writeFromArray(p, <<b1, b2>>)
      PROVE  Goal
  BY <1>9, ArrayEncoded
<1>10. ASSUME UNCHANGED pathVars PROVE Goal
  BY <1>10, NothingWritten DEF pathVars, poolVars, contentVars
<1>11. Goal
  <2> HIDE DEF Goal
  <2>1. CASE \/ \E s \in RequestSize : AddClassSize(s)
             \/ \E p \in SendPacket, s \in RequestSize : GetSendPacket(p, s)
             \/ \E p \in SendPacket : ReleaseSendPacket(p) \/ Send(p)
    BY <1>1, <1>2, <1>3, <1>4, <1>5, <2>1
  <2>2. CASE \/ \E p \in SendPacket, numBytes \in Size : Ask(p, numBytes)
             \/ \E p \in SendPacket, index \in Index : setWriteIndex(p, index)
    BY <1>6, <1>7, <2>2
  <2>3. CASE \E p \in SendPacket, T \in IntegralType :
               \E value \in Values(T) : Write(p, T, value)
    BY <1>8, <2>3
  <2>4. CASE \E p \in SendPacket, b1, b2 \in Byte : writeFromArray(p, <<b1, b2>>)
    BY <1>9, <2>4
  <2>5. QED
    BY <1>10, <2>1, <2>2, <2>3, <2>4 DEF PathNext
<1>12. QED
  BY <1>1, <1>11 DEF WrittenInv

LEMMA WrittenInvReads == WrittenInv => DatagramIsWhatWasWritten
<1> SUFFICES ASSUME WrittenInv, NEW p \in held \ misused
             PROVE  LET first == Len(before[p])
                    IN  /\ \A n \in 1 .. first : Datagram(p)[n] = before[p][n]
                        /\ \A k \in DOMAIN written[p] :
                             readInt(written[p][k].type, Datagram(p),
                                     Position(first, written[p], k))
                               = written[p][k].value
                        /\ Position(first, written[p], Len(written[p]) + 1)
                             = Len(Datagram(p))
  BY DEF DatagramIsWhatWasWritten
<1> DEFINE w == writeIndex[p]
           first == Len(before[p])
<1>1. p \in SendPacket /\ w \in 0 .. capacity[p] /\ capacity[p] \in Nat
  BY HeldPacket DEF WrittenInv, RoomFits
<1>2. /\ written[p] \in Seq(Entry) /\ first \in Nat
      /\ Holds(buffer[p], first, written[p], w)
      /\ SameUpTo(first, before[p], buffer[p])
  BY <1>1 DEF WrittenInv, WrittenType, HeldEncoded, Encoded
<1>3. Len(Datagram(p)) = w /\ SameUpTo(w, buffer[p], Datagram(p))
  BY <1>1, FrontOf DEF Datagram
<1> HIDE DEF w, first
<1>4. first <= w /\ w \in Int
  BY <1>1, <1>2, FirstBelow
<1>5. ASSUME NEW n \in 1 .. first PROVE Datagram(p)[n] = before[p][n]
  BY <1>2, <1>3, <1>4 DEF SameUpTo
<1>6. ASSUME NEW k \in DOMAIN written[p]
      PROVE  readInt(written[p][k].type, Datagram(p),
                     Position(first, written[p], k)) = written[p][k].value
  BY <1>2, <1>3, DatagramReads
<1>7. Position(first, written[p], Len(written[p]) + 1) = Len(Datagram(p))
  BY <1>2, <1>3 DEF Holds
<1>8. QED
  BY <1>5, <1>6, <1>7 DEF first

(* A datagram is the bytes its holder found in front of where it began,    *)
(* which may be an earlier holder's, and behind them what the holder       *)
(* wrote, for every type, value and number of values.  The peer reads      *)
(* those where it skips exactly the bytes found.                           *)
THEOREM DatagramsReadBack == PathSpec => []DatagramIsWhatWasWritten
BY WrittenInvInit, WrittenStep, WrittenInvReads, PTL DEF PathSpec
=============================================================================
