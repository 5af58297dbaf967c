---------------------------- MODULE MCRosterView ----------------------------
(***************************************************************************)
(* Three contact items of two buddies.  Item 2 may come again with another *)
(* name, group and waitAuth, or with this name at first, which is AIM's;   *)
(* there is a group, an item of unknown type and a truncated one.  The     *)
(* user has no contacts, an ignored one, or an ignored one after another;  *)
(* the last two brought an ICQContact each of an item of the list.         *)
(***************************************************************************)
EXTENDS RosterView

Contact(id, s, g, w) == [kind |-> "contact", id |-> id, screen |-> s,
                         group |-> g, waitAuth |-> w]

MCItems == {Contact(1, "100", 1, TRUE), Contact(2, "200", 1, FALSE),
            Contact(3, "200", 1, FALSE), Contact(2, "aim", 2, TRUE),
            [kind |-> "group", id |-> 1, members |-> {1}],
            [kind |-> "other"], [kind |-> "short"]}

MCProfiles == {<<>>, <<[item |-> NoItem, ignore |-> TRUE]>>,
               <<[item |-> 1, ignore |-> FALSE], [item |-> 2, ignore |-> TRUE]>>}
=============================================================================
