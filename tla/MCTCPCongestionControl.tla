------------------------- MODULE MCTCPCongestionControl -------------------------
(* Small instances of TCPCongestionControl: ints up to 16, so that all     *)
(* three sums and products overflow, and a window that starts at 3.        *)
EXTENDS TCPCongestionControl
=============================================================================
