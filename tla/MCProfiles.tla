----------------------------- MODULE MCProfiles -----------------------------
(* Two profiles and two protocol plugins.  One profile's files go through    *)
(* every kind of entry load_new and load_old tell apart, the other has the   *)
(* same plugins and client names, so that each switch could mix them up.     *)
EXTENDS Profiles

CONSTANTS work, home, icq, jabber, n1, n2

Client(pl, n, d) == [plugin |-> pl, provides |-> TRUE, name |-> n, data |-> d]
Aim == [Client(icq, n2, "good") EXCEPT !.provides = FALSE]

MCProfile == {work, home}
MCPlugin == {icq, jabber}
MCName == {n1, n2}

WorkXml == {{}, {<<Client(icq, n1, "good"), Client(jabber, n2, "bad")>>},
            {<<Client(Missing, n1, "good"), Client(jabber, n1, "none"),
               Client(NoPlugin, n2, "good"), Client(icq, n2, "good")>>},
            {<<Client(jabber, n1, "good"), Aim>>}}
WorkConf == {{}, {<<Client(NoPlugin, n2, "good"), Client(jabber, n1, "good"), Aim>>}}
HomeXml == {{<<Client(icq, n1, "good")>>}, {<<Client(jabber, n2, "good")>>}}

WorkDirs == [profileConf : {FALSE}, profileXml : {Absent, Written({icq, Missing})},
             clientsXml : WorkXml, clientsConf : WorkConf]
HomeDirs == [profileConf : {TRUE}, profileXml : {Absent, Written(MCPlugin)},
             clientsXml : HomeXml, clientsConf : {{}}]

MCDisks == {[p \in MCProfile |-> IF p = work THEN w ELSE h] :
               w \in WorkDirs, h \in HomeDirs}
=============================================================================
