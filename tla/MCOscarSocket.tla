--------------------------- MODULE MCOscarSocket ---------------------------
(***************************************************************************)
(* Bodies of up to two bytes, one of the byte values being the start code, *)
(* two connections: every cut of every header and body, a drop inside a    *)
(* packet and a reconnection after it.                                     *)
(***************************************************************************)
EXTENDS OscarSocket

MCChannel == {1}
MCPayload == {1, 2}
=============================================================================
