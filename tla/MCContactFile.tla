--------------------------- MODULE MCContactFile ---------------------------
(***************************************************************************)
(* Two contacts or groups, and an id that is no number and becomes 0; an   *)
(* ICQ client and a Jabber client that are loaded, and one that is not.    *)
(***************************************************************************)
EXTENDS ContactFile

MCStrayId == {-1, 0, 1}
=============================================================================
