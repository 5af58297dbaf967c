--------------------------- MODULE MCOscarSession ---------------------------
(***************************************************************************)
(* Two sign-ons to one server with lists of up to two packets: an item     *)
(* that has got another name, one after it, an AIM name behind a group,    *)
(* and a packet cut short behind an item that can be read.  The profile    *)
(* has a contact with an ICQContact of item 1, and one the user ignores,   *)
(* with the id that the second contact made for an item will be given.     *)
(***************************************************************************)
EXTENDS OscarSession

Contact(id, s) == [kind |-> "contact", id |-> id, screen |-> s, group |-> 1,
                   waitAuth |-> FALSE]
Group == [kind |-> "group", id |-> 1, members |-> {1, 2}]

MCList == {<<Contact(1, "100"), [kind |-> "short"]>>,
           <<Contact(1, "200"), Contact(2, "300")>>,
           <<Group, Contact(3, "aim")>>}
MCItems == UNION {{l[i] : i \in DOMAIN l} : l \in MCList}
MCAccount == {[uin |-> TRUE, screen |-> TRUE, md5 |-> FALSE]}
MCProfiles == {[i \in {1, 3} |-> [item |-> IF i = 1 THEN 1 ELSE 0, ignore |-> i = 3]]}
=============================================================================
