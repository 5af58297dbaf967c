---------------------------- MODULE MCOscarLogin ----------------------------
(***************************************************************************)
(* Two redirect targets and three sign-ons: enough for a redirect whose    *)
(* connection fails, a sign-on that meets the cookie left behind, and one  *)
(* more after it.                                                          *)
(***************************************************************************)
EXTENDS OscarLogin
=============================================================================
