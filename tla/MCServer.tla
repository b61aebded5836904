-------------------------------- MODULE MCServer --------------------------------
(* Small instances of Server, with the messages of MCClientHandshake.      *)
EXTENDS MCClientHandshake, Server
=============================================================================
