----------------------- MODULE TCPCongestionControlProofs -----------------------
(***************************************************************************)
(* Proofs about TCPCongestionControl, for every size of an int, initial    *)
(* window and segment.  AvoidanceIsLinear is not inductive by itself: a    *)
(* quotient by the present window bounds one by base only because the      *)
(* window has not fallen below base since (HistoryFollows).                *)
(***************************************************************************)
EXTENDS TCPCongestionControl, TLAPS

HistoryFollows ==
  ~overflowed =>
    /\ initCwnd <= base
    /\ stage = "CongestionAvoidance" => base <= cWnd
    /\ cWnd <= initCwnd + MSS * acked

WindowInv ==
  /\ TypeOK /\ WindowAtLeastInitial /\ StageAgrees /\ HistoryFollows
  /\ AvoidanceIsLinear /\ OverflowNeedsLongTransfer

-----------------------------------------------------------------------------
(* Lemmas of arithmetic.                                                   *)

(* Integer division rounds down.                                           *)
LEMMA Quotient ==
  ASSUME NEW x \in Nat, NEW y \in Nat \ {0}
  PROVE  x \div y \in Nat /\ (x \div y) * y <= x
OBVIOUS

LEMMA Monotone ==
  ASSUME NEW k \in Nat, NEW x \in Nat, NEW y \in Nat, x <= y
  PROVE  k * x \in Nat /\ k * y \in Nat /\ k * x <= k * y
OBVIOUS

LEMMA Distribute ==
  ASSUME NEW k \in Int, NEW x \in Int, NEW y \in Int
  PROVE  k * (x + y) = k * x + k * y /\ (x + y) * k = x * k + y * k
OBVIOUS

(* What one acknowledgement adds in congestion avoidance.                  *)
LEMMA GrowthBound ==
  ASSUME cWnd \in Nat \ {0}, NEW n \in Nat, NEW b \in Nat, b <= cWnd
  PROVE  Growth(n) \in Nat /\ Growth(n) * b <= MSS * n /\ Growth(n) <= MSS * n
<1>1. MSS * n \in Nat
  BY WindowAssumption
<1>2. Growth(n) \in Nat /\ Growth(n) * cWnd <= MSS * n
  BY <1>1, Quotient DEF Growth
<1>3. Growth(n) * b <= Growth(n) * cWnd /\ Growth(n) * b \in Nat
  BY <1>2, Monotone
<1>4. Growth(n) * 1 <= Growth(n) * cWnd
  BY <1>2, Monotone
<1>5. Growth(n) * cWnd \in Nat
  BY <1>2, Monotone
<1>6. QED
  BY <1>1, <1>2, <1>3, <1>4, <1>5

(* A window that outgrows an int has had that much acknowledged.           *)
LEMMA AckedGrows ==
  ASSUME TypeOK, NEW n \in Nat, acked' = acked + n
  PROVE  /\ MSS * acked' = MSS * acked + MSS * n
         /\ MSS * acked \in Nat /\ MSS * n \in Nat /\ n <= MSS * n
<1>1. acked \in Nat /\ MSS \in Nat \ {0}
  BY WindowAssumption DEF TypeOK
<1>2. MSS * acked' = MSS * acked + MSS * n
  BY <1>1, Distribute
<1>3. MSS * acked \in Nat /\ MSS * n \in Nat
  BY <1>1
<1>4. n * 1 <= n * MSS
  BY <1>1, Monotone
<1>5. n * MSS = MSS * n /\ n * 1 = n
  BY <1>1
<1>6. QED
  BY <1>2, <1>3, <1>4, <1>5

-----------------------------------------------------------------------------
(* The inductive invariant.                                                *)

LEMMA WindowInit == Init => WindowInv
<1> SUFFICES ASSUME Init PROVE WindowInv
  OBVIOUS
<1> USE DEF Init
<1>1. TypeOK
  <2>1. initCwnd \in Int32 /\ initCwnd \in 0 .. IntMax /\ IntMax \in 0 .. IntMax
    BY WindowAssumption DEF Int32
  <2>2. 0 \in 0 .. MaxAcked /\ 0 \in 0 .. 0
    BY WindowAssumption
  <2>3. overflowed \in BOOLEAN
    OBVIOUS
  <2>4. QED
    BY <2>1, <2>2, <2>3 DEF TypeOK
<1>2. WindowAtLeastInitial /\ StageAgrees /\ AvoidanceIsLinear /\ OverflowNeedsLongTransfer
  BY WindowAssumption
  DEF WindowAtLeastInitial, StageAgrees, AvoidanceIsLinear, OverflowNeedsLongTransfer
<1>3. HistoryFollows
  <2>1. MSS * acked = 0
    BY WindowAssumption
  <2>2. QED
    BY <2>1, WindowAssumption DEF HistoryFollows
<1>4. QED
  BY <1>1, <1>2, <1>3 DEF WindowInv

(* Past an overflow only its cause is known.                               *)
LEMMA OverflowInv ==
  ASSUME WindowInv, NEW n \in Nat, acked + n <= MaxAcked, acked' = acked + n, Overflow,
         initCwnd + MSS * acked' > IntMax
  PROVE  WindowInv'
<1>1. overflowed' = TRUE /\ cWnd' \in Int32
      /\ UNCHANGED <<ssThresh, stage, base, ackedAtBase>>
  BY DEF Overflow
<1>2. TypeOK'
  BY <1>1, WindowAssumption DEF WindowInv, TypeOK
<1>3. QED
  BY <1>1, <1>2 DEF WindowInv, WindowAtLeastInitial, StageAgrees, HistoryFollows,
                    AvoidanceIsLinear, OverflowNeedsLongTransfer

LEMMA AckSlowStartInv ==
  ASSUME WindowInv, ~overflowed, NEW n \in Nat, acked + n <= MaxAcked,
         acked' = acked + n, AckSlowStart(n)
  PROVE  WindowInv'
<1>1. /\ cWnd \in Nat /\ initCwnd <= cWnd /\ cWnd <= IntMax
      /\ acked \in Nat /\ initCwnd \in Nat /\ IntMax \in Nat
      /\ cWnd <= initCwnd + MSS * acked
  BY WindowAssumption
  DEF WindowInv, TypeOK, WindowAtLeastInitial, HistoryFollows, Int32
<1>2. /\ MSS * acked' = MSS * acked + MSS * n
      /\ MSS * acked \in Nat /\ MSS * n \in Nat /\ n <= MSS * n
  BY AckedGrows DEF WindowInv
<1>3. CASE cWnd + n > IntMax /\ Overflow
  <2>1. initCwnd + MSS * acked' > IntMax
    BY <1>1, <1>2, <1>3
  <2>2. QED
    BY <1>3, <2>1, OverflowInv
<1>4. CASE cWnd + n <= IntMax
  <2>1. /\ cWnd' = cWnd + n
        /\ stage' = IF cWnd' >= ssThresh THEN "CongestionAvoidance" ELSE stage
        /\ stage = "SlowStart"
        /\ base' = cWnd' /\ ackedAtBase' = acked'
        /\ UNCHANGED <<ssThresh, overflowed>>
    BY <1>1, <1>4 DEF AckSlowStart
  <2>2. TypeOK'
    BY <1>1, <1>4, <2>1 DEF WindowInv, TypeOK, Int32
  <2>3. WindowAtLeastInitial' /\ StageAgrees' /\ OverflowNeedsLongTransfer'
    BY <1>1, <2>1 DEF WindowInv, TypeOK, WindowAtLeastInitial, StageAgrees,
                      OverflowNeedsLongTransfer
  <2>4. HistoryFollows'
    BY <1>1, <1>2, <2>1 DEF HistoryFollows
  <2>5. AvoidanceIsLinear'
    <3>1. cWnd' - base' = 0 /\ acked' - ackedAtBase' = 0
      BY <1>1, <2>1
    <3>2. 0 * base' = 0 /\ MSS * 0 = 0
      BY <1>1, <2>1, WindowAssumption
    <3>3. QED
      BY <3>1, <3>2 DEF AvoidanceIsLinear
  <2>6. QED
    BY <2>2, <2>3, <2>4, <2>5 DEF WindowInv
<1>5. QED
  BY <1>1, <1>3, <1>4 DEF AckSlowStart

LEMMA AckAvoidanceInv ==
  ASSUME WindowInv, ~overflowed, NEW n \in Nat, acked + n <= MaxAcked,
         acked' = acked + n, AckAvoidance(n)
  PROVE  WindowInv'
<1> DEFINE g == Growth(n)
<1>1. /\ cWnd \in Nat \ {0} /\ initCwnd <= cWnd /\ cWnd <= IntMax
      /\ acked \in Nat /\ initCwnd \in Nat /\ IntMax \in Nat
      /\ cWnd <= initCwnd + MSS * acked
      /\ base \in Nat /\ base <= cWnd /\ stage = "CongestionAvoidance"
      /\ ackedAtBase \in Nat /\ ackedAtBase <= acked
  BY WindowAssumption
  DEF WindowInv, TypeOK, WindowAtLeastInitial, HistoryFollows, Int32, AckAvoidance
<1>2. /\ MSS * acked' = MSS * acked + MSS * n
      /\ MSS * acked \in Nat /\ MSS * n \in Nat
  BY AckedGrows DEF WindowInv
<1>3. g \in Nat /\ g * base <= MSS * n /\ g <= MSS * n
  BY <1>1, GrowthBound
<1> HIDE DEF g
<1>4. CASE MSS * n > IntMax /\ Overflow
  <2>1. initCwnd + MSS * acked' > IntMax
    BY <1>1, <1>2, <1>4
  <2>2. QED
    BY <1>4, <2>1, OverflowInv
<1>5. CASE cWnd + g > IntMax /\ Overflow
  <2>1. initCwnd + MSS * acked' > IntMax
    BY <1>1, <1>2, <1>3, <1>5
  <2>2. QED
    BY <1>5, <2>1, OverflowInv
<1>6. CASE /\ cWnd + g <= IntMax /\ cWnd' = cWnd + g
           /\ UNCHANGED <<ssThresh, stage, overflowed, base, ackedAtBase>>
  <2>1. TypeOK'
    BY <1>1, <1>3, <1>6 DEF WindowInv, TypeOK, Int32
  <2>2. WindowAtLeastInitial' /\ StageAgrees' /\ OverflowNeedsLongTransfer'
    BY <1>1, <1>3, <1>6 DEF WindowInv, TypeOK, WindowAtLeastInitial, StageAgrees,
                            OverflowNeedsLongTransfer
  <2>3. HistoryFollows'
    BY <1>1, <1>2, <1>3, <1>6 DEF WindowInv, HistoryFollows
  <2>4. AvoidanceIsLinear'
    <3>1. (cWnd - base) * base <= MSS * (acked - ackedAtBase)
      BY <1>1 DEF WindowInv, AvoidanceIsLinear
    <3>2. cWnd' - base = (cWnd - base) + g
      BY <1>1, <1>3, <1>6
    <3>3. (cWnd' - base) * base = (cWnd - base) * base + g * base
      BY <1>1, <1>3, <3>2, Distribute
    <3>4. acked' - ackedAtBase = (acked - ackedAtBase) + n
      BY <1>1
    <3>5. MSS * (acked' - ackedAtBase) = MSS * (acked - ackedAtBase) + MSS * n
      BY <1>1, <3>4, WindowAssumption, Distribute
    <3>6. /\ (cWnd - base) * base \in Int /\ g * base \in Int
          /\ MSS * (acked - ackedAtBase) \in Int
      BY <1>1, <1>3, WindowAssumption
    <3>7. (cWnd' - base) * base <= MSS * (acked' - ackedAtBase)
      BY <1>2, <1>3, <3>1, <3>3, <3>5, <3>6
    <3>8. QED
      BY <1>6, <3>7 DEF AvoidanceIsLinear
  <2>5. QED
    BY <2>1, <2>2, <2>3, <2>4 DEF WindowInv
<1>7. QED
  BY <1>4, <1>5, <1>6 DEF AckAvoidance, g

LEMMA TimeoutInv == ASSUME WindowInv, onTimeout PROVE WindowInv'
<1>1. cWnd \in Nat /\ cWnd <= IntMax /\ cWnd \div 2 \in 0 .. IntMax
  BY WindowAssumption DEF WindowInv, TypeOK, WindowAtLeastInitial, Int32, onTimeout
<1>2. TypeOK'
  BY <1>1, WindowAssumption DEF WindowInv, TypeOK, Int32, onTimeout
<1>3. MSS * 0 = 0
  BY WindowAssumption
<1>4. QED
  BY <1>2, <1>3, WindowAssumption
  DEF WindowInv, WindowAtLeastInitial, StageAgrees, HistoryFollows,
      AvoidanceIsLinear, OverflowNeedsLongTransfer, onTimeout

LEMMA WindowStep == ASSUME WindowInv, [Next]_windowVars PROVE WindowInv'
<1>1. CASE \E n \in 0 .. MaxBytes : onAck(n)
  <2>1. PICK n \in 0 .. MaxBytes : onAck(n)
    BY <1>1
  <2>2. n \in Nat
    BY WindowAssumption
  <2>3. QED
    BY <2>1, <2>2, AckSlowStartInv, AckAvoidanceInv DEF onAck
<1>2. CASE onTimeout
  BY <1>2, TimeoutInv
<1>3. CASE UNCHANGED windowVars
  BY <1>3 DEF windowVars, WindowInv, TypeOK, WindowAtLeastInitial, StageAgrees,
              HistoryFollows, AvoidanceIsLinear, OverflowNeedsLongTransfer
<1>4. QED
  BY <1>1, <1>2, <1>3 DEF Next

LEMMA WindowInvariant == Spec => []WindowInv
<1>1. QED
  BY WindowInit, WindowStep, PTL DEF Spec

-----------------------------------------------------------------------------
(* The theorems.                                                           *)

(* The window, the threshold and the histories have their types.           *)
THEOREM WindowTypeCorrect == Spec => []TypeOK
<1>1. WindowInv => TypeOK
  BY DEF WindowInv
<1>2. QED
  BY <1>1, WindowInvariant, PTL

(* However acknowledgements and timeouts alternate, the window of          *)
(* TCPCongestionControl stays at or above initCwnd.                        *)
THEOREM WindowStaysOpen == Spec => []WindowAtLeastInitial
<1>1. WindowInv => WindowAtLeastInitial
  BY DEF WindowInv
<1>2. QED
  BY <1>1, WindowInvariant, PTL

(* The stage of TCPCongestionControl agrees with window and threshold,     *)
(* except between a timeout and the next acknowledged byte.                *)
THEOREM StageIsRight == Spec => []StageAgrees
<1>1. WindowInv => StageAgrees
  BY DEF WindowInv
<1>2. QED
  BY <1>1, WindowInvariant, PTL

(* In congestion avoidance onAck adds at most one segment per window.      *)
THEOREM AvoidanceGrowsLinearly == Spec => []AvoidanceIsLinear
<1>1. WindowInv => AvoidanceIsLinear
  BY DEF WindowInv
<1>2. QED
  BY <1>1, WindowInvariant, PTL

(* onAck overflows no int before (IntMax - initCwnd) / MSS bytes have been *)
(* acknowledged without a timeout.                                         *)
THEOREM NoEarlyOverflow == Spec => []OverflowNeedsLongTransfer
<1>1. WindowInv => OverflowNeedsLongTransfer
  BY DEF WindowInv
<1>2. QED
  BY <1>1, WindowInvariant, PTL
=============================================================================
