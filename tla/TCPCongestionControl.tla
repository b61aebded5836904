-------------------------- MODULE TCPCongestionControl --------------------------
(***************************************************************************)
(* The window of one path (congestioncontrol/TCPCongestionControl.h).      *)
(*                                                                         *)
(* Acknowledgements and timeouts may come in any order.  onSend does       *)
(* nothing, and the time arguments are ignored by the code.  A sum or a    *)
(* product above IntMax is undefined in C++: the window may then be any    *)
(* int, and the behaviour is followed no further (overflowed).             *)
(***************************************************************************)
EXTENDS Integers

CONSTANTS
  IntMax,    \* the largest int
  initCwnd,  \* the initial window (1200 in the code)
  MSS,       \* getMSS(), which is declared and defined nowhere
  MaxBytes,  \* an acknowledgement is of at most so many bytes
  MaxAcked   \* bound of acked

ASSUME WindowAssumption ==
  /\ IntMax \in Nat /\ initCwnd \in Nat \ {0} /\ initCwnd <= IntMax
  /\ MSS \in Nat \ {0} /\ MSS <= IntMax
  /\ MaxBytes \in Nat /\ MaxAcked \in Nat

Int32 == -IntMax - 1 .. IntMax

VARIABLES
  cWnd,
  ssThresh,
  stage,
  overflowed,  \* history: an int has overflowed
  acked,       \* history: bytes acknowledged since the last timeout
  base,        \* history: the window when congestion avoidance began
  ackedAtBase  \* history: acked at that time

windowVars == <<cWnd, ssThresh, stage, overflowed, acked, base, ackedAtBase>>

Init ==
  /\ cWnd = initCwnd
  /\ ssThresh = IntMax
  /\ stage = "SlowStart"
  /\ overflowed = FALSE
  /\ acked = 0 /\ base = initCwnd /\ ackedAtBase = 0

Overflow ==
  /\ overflowed' = TRUE
  /\ cWnd' \in Int32
  /\ UNCHANGED <<ssThresh, stage, base, ackedAtBase>>

(* Faulty variant: the stage is decided by the window before the sum.      *)
AckSlowStartLate(numBytes) ==
  /\ stage = "SlowStart"
  /\ \/ cWnd + numBytes > IntMax /\ Overflow
     \/ /\ cWnd + numBytes <= IntMax
        /\ cWnd' = cWnd + numBytes
        /\ stage' = IF cWnd >= ssThresh THEN "CongestionAvoidance" ELSE stage
        /\ base' = cWnd' /\ ackedAtBase' = acked + numBytes
        /\ UNCHANGED <<ssThresh, overflowed>>

(* The whole acknowledgement is added, even if it takes the window past    *)
(* the threshold.                                                          *)
AckSlowStart(numBytes) ==
  /\ stage = "SlowStart"
  /\ \/ cWnd + numBytes > IntMax /\ Overflow
     \/ /\ cWnd + numBytes <= IntMax
        /\ cWnd' = cWnd + numBytes
        /\ stage' = IF cWnd' >= ssThresh THEN "CongestionAvoidance" ELSE stage
        /\ base' = cWnd' /\ ackedAtBase' = acked + numBytes
        /\ UNCHANGED <<ssThresh, overflowed>>

(* Faulty variant: every acknowledgement adds a whole segment.             *)
GrowthOfSegment(numBytes) == MSS

Growth(numBytes) == (MSS * numBytes) \div cWnd

(* Faulty variant: the window is taken to be wider than an int.            *)
AckAvoidanceWide(numBytes) ==
  /\ stage = "CongestionAvoidance"
  /\ cWnd' = cWnd + Growth(numBytes)
  /\ UNCHANGED <<ssThresh, stage, overflowed, base, ackedAtBase>>

AckAvoidance(numBytes) ==
  /\ stage = "CongestionAvoidance"
  /\ \/ MSS * numBytes > IntMax /\ Overflow
     \/ MSS * numBytes <= IntMax /\ cWnd + Growth(numBytes) > IntMax /\ Overflow
     \/ /\ MSS * numBytes <= IntMax /\ cWnd + Growth(numBytes) <= IntMax
        /\ cWnd' = cWnd + Growth(numBytes)
        /\ UNCHANGED <<ssThresh, stage, overflowed, base, ackedAtBase>>

onAck(numBytes) ==
  /\ ~overflowed
  /\ acked + numBytes <= MaxAcked
  /\ acked' = acked + numBytes
  /\ AckSlowStart(numBytes) \/ AckAvoidance(numBytes)

(* Faulty variant: the window is halved, like the threshold.               *)
OnTimeoutHalving ==
  /\ ~overflowed
  /\ ssThresh' = cWnd \div 2
  /\ cWnd' = cWnd \div 2
  /\ stage' = "SlowStart"
  /\ acked' = 0 /\ base' = initCwnd /\ ackedAtBase' = 0
  /\ UNCHANGED overflowed

(* Faulty variant: the window is not reset.                                *)
OnTimeoutKeepingWindow ==
  /\ ~overflowed
  /\ ssThresh' = cWnd \div 2
  /\ stage' = "SlowStart"
  /\ acked' = 0 /\ base' = initCwnd /\ ackedAtBase' = 0
  /\ UNCHANGED <<cWnd, overflowed>>

onTimeout ==
  /\ ~overflowed
  /\ ssThresh' = cWnd \div 2
  /\ cWnd' = initCwnd
  /\ stage' = "SlowStart"
  /\ acked' = 0 /\ base' = initCwnd /\ ackedAtBase' = 0
  /\ UNCHANGED overflowed

Next == (\E numBytes \in 0 .. MaxBytes : onAck(numBytes)) \/ onTimeout

Spec == Init /\ [][Next]_windowVars

-----------------------------------------------------------------------------
(* Properties.                                                             *)

(* The variables have their types.                                         *)
TypeOK ==
  /\ cWnd \in Int32 /\ ssThresh \in 0 .. IntMax
  /\ stage \in {"SlowStart", "CongestionAvoidance"}
  /\ overflowed \in BOOLEAN
  /\ acked \in 0 .. MaxAcked /\ ackedAtBase \in 0 .. acked /\ base \in 0 .. IntMax

(* The window never falls below its initial value, so that a connection    *)
(* can always send and onAck never divides by zero.                        *)
WindowAtLeastInitial == ~overflowed => cWnd >= initCwnd

(* The stage is what the window and the threshold say, with one exception: *)
(* right after a timeout the window is in slow start whatever the new      *)
(* threshold is, until the first byte is acknowledged.                     *)
StageAgrees ==
  ~overflowed =>
    IF stage = "SlowStart" THEN cWnd < ssThresh \/ acked = 0
                           ELSE cWnd >= ssThresh

(* Congestion avoidance is linear: for every window of bytes that is       *)
(* acknowledged the window grows by at most one segment, however the       *)
(* acknowledgements are cut up and rounded.                                *)
AvoidanceIsLinear ==
  ~overflowed /\ stage = "CongestionAvoidance" =>
    (cWnd - base) * base <= MSS * (acked - ackedAtBase)

(* No int overflows before some IntMax / MSS bytes have been acknowledged  *)
(* without a timeout in between.                                           *)
OverflowNeedsLongTransfer == overflowed => initCwnd + MSS * acked > IntMax
=============================================================================
