------------------------------ MODULE MCFanOut ------------------------------
(* A client that reconnects and a greeting server with two peers.          *)
EXTENDS FanOut

CONSTANTS p1, p2
=============================================================================
