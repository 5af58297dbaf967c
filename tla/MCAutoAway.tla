----------------------------- MODULE MCAutoAway -----------------------------
(***************************************************************************)
(* Limits of one, two and three minutes; all of them enabled, N/A not, and *)
(* away not.                                                               *)
(***************************************************************************)
EXTENDS AutoAway

Limits(away, na, off) ==
    [enableAway |-> away, awayTime |-> 1, enableNA |-> na, naTime |-> 2,
     enableOff |-> off, offTime |-> 3]
MCConfig == {Limits(TRUE, TRUE, TRUE), Limits(TRUE, FALSE, TRUE),
             Limits(FALSE, TRUE, TRUE)}
MCStatus == {"online", "dnd", Away, NA, Offline}
=============================================================================
