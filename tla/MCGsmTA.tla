------------------------------ MODULE MCGsmTA ------------------------------
(* Both halves of serial.cpp, two slots, a ring and one reconnection. *)
EXTENDS GsmTA
=============================================================================
