-------------------------- MODULE MCConnectionAdmission --------------------------
(* Small instances of ConnectionAdmission: the threads are interchangeable. *)
EXTENDS ConnectionAdmission, TLC

ThreadSymmetry == Permutations(Thread)
=============================================================================
