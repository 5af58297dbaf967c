------------------------------- MODULE Roster -------------------------------
(***************************************************************************)
(* The two contact lists behind the roster.  ICQContactList holds the      *)
(* items of the server's list by item id; StandardContactList holds the    *)
(* contacts of the user by contact id, read from the profile before the    *)
(* first packet arrives.  SsiSnacHandler merges every list packet into     *)
(* both; BuddySnacHandler finds a contact by name in the first and         *)
(* announces a status change for one of the second.                        *)
(*                                                                         *)
(* A contact of an old profile brings its ICQContact with it, item id and  *)
(* all, but nobody enters that one in ICQContactList: it stays offline,    *)
(* and the server's item gets a second contact.                            *)
(*                                                                         *)
(* An ICQContact keeps a raw pointer to its contact, which is destroyed if *)
(* the contact list refuses it: the id read through it is then anything.   *)
(***************************************************************************)
EXTENDS Integers, Sequences, FiniteSets

CONSTANTS
    ItemId,       \* ids of contact items in the server's list
    GroupId,      \* ids of groups in it
    Screen,       \* names of contacts: a UIN in digits, or
    AimScreen,    \* an AIM name, which toUInt refuses
    Items,        \* items the server may list
    Profiles,     \* contact lists a profile may hold: id -> which item has
                  \* the ICQContact it brings, is it ignored?
    StrayIds,     \* what a read of a destroyed contact's id may give
    MaxPacket,    \* items in one list packet
    MaxPackets    \* list packets in one behaviour

ContactItem == [kind : {"contact"}, id : ItemId, screen : Screen,
                group : GroupId, waitAuth : BOOLEAN]
GroupItem == [kind : {"group"}, id : GroupId, members : SUBSET ItemId]
OtherItem == [kind : {"other"}]
ShortItem == [kind : {"short"}]   \* ends before its name does

NoItem == 0
ProfileRec == [item : ItemId \cup {NoItem}, ignore : BOOLEAN]

Ignored(profile) == {i \in DOMAIN profile : profile[i].ignore}
Largest(S, m) == m \in S /\ \A i \in S : i <= m

ASSUME RosterAssumption ==
    /\ ItemId \subseteq Nat \ {0} /\ AimScreen \subseteq Screen
    /\ Items \subseteq ContactItem \cup GroupItem \cup OtherItem \cup ShortItem
    /\ StrayIds \subseteq Int
    /\ MaxPacket \in Nat /\ MaxPackets \in Nat

\* A profile has finitely many contacts, so those shown have a largest id.
ASSUME ProfileAssumption ==
    \A p \in Profiles :
        /\ DOMAIN p \subseteq Nat /\ p \in [DOMAIN p -> ProfileRec]
        /\ LET shown == DOMAIN p \ Ignored(p)
           IN  shown = {} \/ \E m \in shown : Largest(shown, m)

NoEvent == [item |-> NoItem, id |-> 0]

VARIABLES
    contacts,  \* StandardContactList::m_contacts: of each the item of its
               \* ICQContact, and is that the one in ICQContactList?
    icq,       \* ICQContactList::m_contacts
    groups,    \* ICQContactList::m_groups
    packet,    \* items of the list packet handled last
    rest,      \* those parseContactList has not reached
    stage,     \* where it is in that packet
    packets,   \* list packets so far
    told       \* the last contact_change_status: for which item, with what id

vars == <<contacts, icq, groups, packet, rest, stage, packets, told>>

Put(f, k, v) == [x \in DOMAIN f \cup {k} |-> IF x = k THEN v ELSE f[x]]
SetMax(S) == CHOOSE m \in S : Largest(S, m)

-----------------------------------------------------------------------------
(* StandardContactList *)

\* contactIds(): every contact but the ignored ones.
contactIds == {i \in DOMAIN contacts : ~contacts[i].ignore}

\* createContact() picks the id of the contact it makes.
createContactIdByCount == Cardinality(contactIds)   \* mutant
createContactId == IF contactIds = {} THEN 0 ELSE SetMax(contactIds) + 1

\* addContact(): refused when the id is taken.
addContact(id, c) == contacts' = IF id \in DOMAIN contacts
                                 THEN contacts
                                 ELSE Put(contacts, id, c)

Init ==
    /\ \E p \in Profiles :
           contacts = [i \in DOMAIN p |-> [item |-> p[i].item, listed |-> FALSE,
                                            ignore |-> p[i].ignore]]
    /\ icq = <<>> /\ groups = <<>>
    /\ packet = <<>> /\ rest = <<>> /\ stage = "idle" /\ packets = 0
    /\ told = NoEvent

-----------------------------------------------------------------------------
(* SsiSnacHandler::parseContactList, an item at a time *)

ListArrives ==
    /\ stage # "parsing" /\ packets < MaxPackets
    /\ \E n \in 0 .. MaxPacket : packet' \in [1 .. n -> Items]
    /\ rest' = packet' /\ stage' = "parsing" /\ packets' = packets + 1
    /\ UNCHANGED <<contacts, icq, groups, told>>

\* The next item, if it has the given kind.
Next1(kind) == stage = "parsing" /\ rest # <<>> /\ Head(rest).kind = kind

Advance == rest' = Tail(rest) /\ UNCHANGED <<packet, stage, packets, told>>
Abort == stage' = "aborted" /\ rest' = <<>>
         /\ UNCHANGED <<contacts, icq, groups, packet, packets, told>>

\* parseEntryContact for an item seen before: only waitAuth follows the list.
KnownContact ==
    /\ Next1("contact") /\ Head(rest).id \in DOMAIN icq
    /\ icq' = [icq EXCEPT ![Head(rest).id].waitAuth = Head(rest).waitAuth]
    /\ Advance
    /\ UNCHANGED <<contacts, groups>>

\* parseEntryContact for a new one: whether addContact took the contact is
\* not looked at.
CreateContact(e, metaContact) ==
    /\ addContact(createContactId,
                  [item |-> e.id, listed |-> TRUE, ignore |-> FALSE])
    /\ icq' = Put(icq, e.id, [screen |-> e.screen, group |-> e.group,
                              waitAuth |-> e.waitAuth, status |-> "offline",
                              metaContact |-> metaContact])
    /\ Advance
    /\ UNCHANGED groups

NewContactAlways ==      \* mutant: every item is taken for a new one
    /\ Next1("contact") /\ Head(rest).screen \notin AimScreen
    /\ CreateContact(Head(rest), createContactId)

NewContactUnlinked ==    \* mutant: setMetaContact is not called
    /\ Next1("contact") /\ Head(rest).id \notin DOMAIN icq
    /\ Head(rest).screen \notin AimScreen
    /\ CreateContact(Head(rest), -1)

NewContactUnlessTaken ==    \* mutant: a contact that is refused is dropped
    /\ Next1("contact") /\ Head(rest).id \notin DOMAIN icq
    /\ Head(rest).screen \notin AimScreen
    /\ IF createContactId \in DOMAIN contacts
       THEN Advance /\ UNCHANGED <<contacts, icq, groups>>
       ELSE CreateContact(Head(rest), createContactId)

NewContact ==
    /\ Next1("contact") /\ Head(rest).id \notin DOMAIN icq
    /\ Head(rest).screen \notin AimScreen
    /\ CreateContact(Head(rest), createContactId)

\* A new contact whose name is no number ends the packet.
BadContact ==
    /\ Next1("contact") /\ Head(rest).id \notin DOMAIN icq
    /\ Head(rest).screen \in AimScreen
    /\ Abort

\* parseEntryGroup: a group seen before keeps its name and members.
GroupEntry ==
    /\ Next1("group")
    /\ groups' = IF Head(rest).id \in DOMAIN groups
                 THEN groups
                 ELSE Put(groups, Head(rest).id, Head(rest).members)
    /\ Advance
    /\ UNCHANGED <<contacts, icq>>

OtherEntry == Next1("other") /\ Advance /\ UNCHANGED <<contacts, icq, groups>>
ShortEntry == Next1("short") /\ Abort

\* The loop ends: contact_list_updated is triggered and activate() sent.
ListUpdated ==
    /\ stage = "parsing" /\ rest = <<>>
    /\ stage' = "announced"
    /\ UNCHANGED <<contacts, icq, groups, packet, rest, packets, told>>

-----------------------------------------------------------------------------
(* BuddySnacHandler::processUserOnline *)

\* contactByScreen(): the first in the order of item ids.
contactByScreen(s, k) ==
    /\ k \in DOMAIN icq /\ icq[k].screen = s
    /\ \A j \in DOMAIN icq : icq[j].screen = s => k <= j

\* Is the contact an ICQContact points to still the one it was linked with?
Linked(k) == LET id == icq[k].metaContact
             IN  /\ id \in DOMAIN contacts
                 /\ contacts[id].item = k /\ contacts[id].listed

metaContactIdOfItem(k) == {k}    \* mutant: the event carries the item id
metaContactId(k) == IF Linked(k) THEN {icq[k].metaContact} ELSE StrayIds

\* ICQStatusConverter::makeStatus: only these two are built in
\* initDefaultStates, and getDefaultStatus finds nothing for "away".
makeStatus(s) == IF s = "online" THEN "online" ELSE "null"

processUserOnline ==
    /\ stage # "parsing"
    /\ \E s \in Screen, st \in {"online", "away", "other"}, k \in DOMAIN icq :
        /\ contactByScreen(s, k)
        /\ icq' = [icq EXCEPT ![k].status = makeStatus(st)]
        /\ \E id \in metaContactId(k) : told' = [item |-> k, id |-> id]
    /\ UNCHANGED <<contacts, groups, packet, rest, stage, packets>>

Next == \/ ListArrives \/ KnownContact \/ NewContact \/ BadContact
        \/ GroupEntry \/ OtherEntry \/ ShortEntry \/ ListUpdated
        \/ processUserOnline

Spec == Init /\ [][Next]_vars

-----------------------------------------------------------------------------
(* Properties *)

ContactRec == [item : ItemId \cup {NoItem}, listed : BOOLEAN, ignore : BOOLEAN]
ICQContactRec == [screen : Screen, group : GroupId, waitAuth : BOOLEAN,
                  status : {"offline", "online", "null"}, metaContact : Nat]

\* Every variable has its type; what is left of a packet is items.
TypeOK ==
    /\ DOMAIN contacts \subseteq Nat
    /\ contacts \in [DOMAIN contacts -> ContactRec]
    /\ DOMAIN icq \subseteq ItemId
    /\ icq \in [DOMAIN icq -> ICQContactRec]
    /\ DOMAIN groups \subseteq GroupId
    /\ groups \in [DOMAIN groups -> SUBSET ItemId]
    /\ packet \in Seq(Items) /\ rest \in Seq(Items)
    /\ stage \in {"idle", "parsing", "announced", "aborted"}
    /\ packets \in 0 .. MaxPackets
    /\ told \in [item : ItemId \cup {NoItem}, id : Int]

\* The id of an item's contact is that of a contact the user ignores.
HiddenByIgnored(k) == LET id == icq[k].metaContact
                      IN  id \in DOMAIN contacts /\ contacts[id].ignore

\* A contact of the server's list is linked with a contact of the user's
\* list, or the id it was given belongs to a contact the user ignores
\* (createContact does not see those): nothing else can push it out.
OnlyIgnoredHide == \A k \in DOMAIN icq : Linked(k) \/ HiddenByIgnored(k)

\* The lists give no item two contacts, however often they are sent again
\* (parseEntryContact looks the item up before it creates a contact).  Two
\* contacts stand for one item only when the profile brought one of them.
OneContactPerItem ==
    \A i, j \in DOMAIN contacts :
        contacts[i].item = contacts[j].item =>
            \/ i = j \/ contacts[i].item = NoItem
            \/ ~contacts[i].listed \/ ~contacts[j].listed

IsContact(n, id) == packet[n].kind = "contact" /\ packet[n].id = id

\* The first d items of the packet are in the ICQ list, each contact waiting
\* for authorisation if its last item so far says so.
Merged(d) ==
    \A n \in 1 .. d :
        LET e == packet[n] IN
        /\ e.kind = "contact" =>
             /\ e.id \in DOMAIN icq
             /\ \/ \E m \in n + 1 .. d : IsContact(m, e.id)
                \/ icq[e.id].waitAuth = e.waitAuth
        /\ e.kind = "group" => e.id \in DOMAIN groups

\* contact_list_updated is triggered and the session activated only when all
\* of the packet has been merged (parseContactList returns before at an item
\* it cannot read).
AnnouncedListIsComplete == stage = "announced" => Merged(Len(packet))

\* Merging a list neither drops nor rewrites a contact the user already has:
\* addContact refuses a taken id.
ContactsSurvive ==
    [][\A i \in DOMAIN contacts :
           i \in DOMAIN contacts' /\ contacts'[i] = contacts[i]]_contacts

\* An item met once keeps its name, its group and its contact whatever later
\* lists say of it (parseEntryContact sets them only on creation).
FirstListWins ==
    [][\A k \in DOMAIN icq :
           /\ k \in DOMAIN icq'
           /\ icq'[k].screen = icq[k].screen /\ icq'[k].group = icq[k].group
           /\ icq'[k].metaContact = icq[k].metaContact]_icq

NobodyIgnored == \A i \in DOMAIN contacts : ~contacts[i].ignore

\* Of a user who ignores nobody: a contact_change_status names a contact he can
\* see, the one that stands for the buddy (contact->metaContactId() in
\* processUserOnline follows a raw pointer).
StatusEventNamesBuddy ==
    NobodyIgnored /\ told # NoEvent =>
        /\ told.id \in contactIds
        /\ contacts[told.id].item = told.item /\ contacts[told.id].listed

\* Every contact of the server's list is one of contactIds(): what
\* testssisnachandler.cpp expects of a list packet with a contact.
EveryEntryListed ==
    \A k \in DOMAIN icq : Linked(k) /\ icq[k].metaContact \in contactIds

\* A user who ignores nobody sees every contact of the server's list.
AllListedIfNobodyIgnored == NobodyIgnored => EveryEntryListed
=============================================================================
