---------------------------- MODULE MCRTTEstimator ----------------------------
(* Small instances of RTTEstimator.  Memory may hold any number: one that  *)
(* looks like a time, and one above every time.                            *)
EXTENDS RTTEstimator

Times == {1, 2}
Garbage == {64, 1000}
=============================================================================
