---------------------------- MODULE MCCreateProtocol ----------------------------
(* Every configuration, with and without assertions.                       *)
EXTENDS CreateProtocol
=============================================================================
