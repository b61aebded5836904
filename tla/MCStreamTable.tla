----------------------------- MODULE MCStreamTable -----------------------------
(* A small instance of StreamTable: two slots, and an id that has none.     *)
EXTENDS StreamTable, TLC
=============================================================================
