----------------------------- MODULE RTTEstimator -----------------------------
(***************************************************************************)
(* The round-trip time estimator (Protocol/rtt): the class template        *)
(* RTTEstimator with its getters and setters, and DefaultRTTEstimator,     *)
(* which derives from it and takes the samples.                            *)
(*                                                                         *)
(* Both classes declare rtt and variance: an object has two of each.  A    *)
(* time is an integer, in 64ths of the clock's tick, so that alpha = 1/8   *)
(* and (1 - alpha) * alpha are exact; the variance, a double in the code,  *)
(* is rounded down.                                                        *)
(***************************************************************************)
EXTENDS Integers

CONSTANTS
  Time,             \* round-trip times, initial ones and samples, in ticks
  Uninitialized,    \* what an uninitialised double may hold, in 64ths
  MaxSamples        \* bound: calls of addSample

Tick == 64

VARIABLES
  base,     \* the rtt and variance of RTTEstimator
  derived,  \* the rtt and variance of DefaultRTTEstimator
  heard,    \* history: every round-trip time it was given, in 64ths
  samples   \* how many samples there were

estimatorVars == <<base, derived, heard, samples>>

(* The derived class's constructor initialises its own fields only.        *)
Init ==
  /\ base \in [rtt : Uninitialized, variance : Uninitialized]
  /\ \E initialRtt, initialVariance \in Time :
       /\ derived = [rtt |-> Tick * initialRtt, variance |-> Tick * initialVariance]
       /\ heard = {Tick * initialRtt}
  /\ samples = 0

-----------------------------------------------------------------------------

Distance(a, b) == IF a <= b THEN b - a ELSE a - b

(* addSampleImpl: variance = (1 - beta) * variance + beta * diff with beta *)
(* = 1/4, then rtt = (1 - alpha) * alpha + alpha * sampleRtt.              *)
addSample(sampleRtt) ==
  /\ samples < MaxSamples
  /\ samples' = samples + 1
  /\ heard' = heard \union {Tick * sampleRtt}
  /\ derived' = [rtt |-> 7 + 8 * sampleRtt,
                 variance |-> (3 * derived.variance
                                 + Distance(Tick * sampleRtt, derived.rtt)) \div 4]
  /\ UNCHANGED base

setRTTEstimate(rtt) ==
  /\ base' = [base EXCEPT !.rtt = Tick * rtt]
  /\ heard' = heard \union {Tick * rtt}
  /\ UNCHANGED <<derived, samples>>

setRTTVariance(variance) ==
  /\ base' = [base EXCEPT !.variance = Tick * variance]
  /\ UNCHANGED <<derived, heard, samples>>

Next ==
  \E time \in Time : addSample(time) \/ setRTTEstimate(time) \/ setRTTVariance(time)

Spec == Init /\ [][Next]_estimatorVars

-----------------------------------------------------------------------------

getRTTEstimate == base.rtt

(* "The RTTEstimator and CongestionControl algorithm will provide          *)
(* estimates of rtt" (MultiPath Functionality.md:17): once it has had a    *)
(* sample, the estimate is among the round-trip times the estimator was    *)
(* given, no larger than all of them and no smaller than all of them.      *)
EstimateFollowsSamples ==
  samples > 0 =>
    /\ \E time \in heard : time <= getRTTEstimate
    /\ \E time \in heard : getRTTEstimate <= time
=============================================================================
