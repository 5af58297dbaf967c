--------------------------- MODULE Roster_proofs ---------------------------
(***************************************************************************)
(* Proofs about the two contact lists, for every profile, every set of     *)
(* items and every number of list packets.                                 *)
(*                                                                         *)
(* The heart is createContact: the id it picks is above every contact that *)
(* is shown, so the only contact it can collide with is an ignored one.    *)
(* The last part is about RosterView, the model behind the roster's tree.  *)
(***************************************************************************)
EXTENDS RosterView, FiniteSetTheorems, TLAPS

USE RosterAssumption, ProfileAssumption

\* Items by their kind.
LEMMA ItemKinds ==
    ASSUME NEW e \in Items
    PROVE  /\ e.kind = "contact" => /\ e.id \in ItemId /\ e.screen \in Screen
                                    /\ e.group \in GroupId
                                    /\ e.waitAuth \in BOOLEAN
           /\ e.kind = "group" => e.id \in GroupId /\ e.members \in SUBSET ItemId
BY DEF ContactItem, GroupItem, OtherItem, ShortItem

\* The contacts that are shown have a largest id.
HasLargest == contactIds = {} \/ \E m \in contactIds : Largest(contactIds, m)

\* createContact picks a natural number above every contact that is shown.
LEMMA FreshId ==
    ASSUME TypeOK, HasLargest
    PROVE  /\ createContactId \in Nat
           /\ \A i \in contactIds : i < createContactId
<1>1. contactIds \subseteq Nat
  BY DEF TypeOK, contactIds
<1>2. CASE contactIds = {}
  BY <1>2 DEF createContactId
<1>3. CASE contactIds # {}
  <2>1. Largest(contactIds, SetMax(contactIds))
    BY <1>3 DEF HasLargest, SetMax, Largest
  <2>2. /\ SetMax(contactIds) \in Nat
        /\ \A i \in contactIds : i <= SetMax(contactIds)
    BY <2>1, <1>1 DEF Largest
  <2>3. createContactId = SetMax(contactIds) + 1
    BY <1>3 DEF createContactId
  <2> HIDE DEF createContactId
  <2> QED BY <2>2, <2>3, <1>1
<1> QED BY <1>2, <1>3

-----------------------------------------------------------------------------
(* Types *)

IInv == TypeOK /\ HasLargest

LEMMA TypeInit == Init => IInv
<1> SUFFICES ASSUME Init PROVE IInv
  OBVIOUS
<1>1. PICK p \in Profiles :
          contacts = [i \in DOMAIN p |-> [item |-> p[i].item, listed |-> FALSE,
                                           ignore |-> p[i].ignore]]
  BY DEF Init
<1>2. TypeOK
  <2>1. /\ DOMAIN contacts \subseteq Nat
        /\ contacts \in [DOMAIN contacts -> ContactRec]
    <3>1. \A i \in DOMAIN p : p[i] \in ProfileRec
      OBVIOUS
    <3> QED BY <1>1, <3>1 DEF ContactRec, ProfileRec
  <2>2. /\ DOMAIN icq \subseteq ItemId /\ icq \in [DOMAIN icq -> ICQContactRec]
        /\ DOMAIN groups \subseteq GroupId
        /\ groups \in [DOMAIN groups -> SUBSET ItemId]
    BY DEF Init
  <2>3. /\ packet \in Seq(Items) /\ rest \in Seq(Items) /\ stage = "idle"
        /\ packets \in 0 .. MaxPackets
    BY DEF Init
  <2>4. told \in [item : ItemId \cup {NoItem}, id : Int]
    BY DEF Init, NoEvent
  <2> QED BY <2>1, <2>2, <2>3, <2>4 DEF TypeOK
<1>3. contactIds = DOMAIN p \ Ignored(p)
  BY <1>1 DEF contactIds, Ignored
<1> QED BY <1>2, <1>3 DEF IInv, HasLargest

\* The head of what is left of a packet is an item, and the rest is items.
LEMMA HeadIsItem ==
    ASSUME TypeOK, rest # <<>>
    PROVE  Head(rest) \in Items /\ Tail(rest) \in Seq(Items)
BY DEF TypeOK

\* The contact list after addContact keeps its type and its largest id.
LEMMA AddKeeps ==
    ASSUME IInv, NEW item \in ItemId,
           addContact(createContactId,
                      [item |-> item, listed |-> TRUE, ignore |-> FALSE])
    PROVE  /\ DOMAIN contacts' \subseteq Nat
           /\ contacts' \in [DOMAIN contacts' -> ContactRec]
           /\ HasLargest'
<1> DEFINE id == createContactId
           c == [item |-> item, listed |-> TRUE, ignore |-> FALSE]
<1>1. id \in Nat /\ \A i \in contactIds : i < id
  BY FreshId DEF IInv
<1>2. c \in ContactRec
  BY DEF ContactRec
<1>3. CASE id \in DOMAIN contacts
  <2>1. contacts' = contacts
    BY <1>3 DEF addContact
  <2> QED BY <2>1 DEF IInv, TypeOK, HasLargest, contactIds
<1>4. CASE id \notin DOMAIN contacts
  <2>1. contacts' = Put(contacts, id, c)
    BY <1>4 DEF addContact
  <2> HIDE DEF id
  <2>2. /\ DOMAIN contacts' = DOMAIN contacts \cup {id}
        /\ contacts'[id] = c
        /\ \A i \in DOMAIN contacts : contacts'[i] = contacts[i]
        /\ contacts' \in [DOMAIN contacts' -> ContactRec]
    BY <2>1, <1>2, <1>4 DEF Put, IInv, TypeOK
  <2>3. contactIds' = contactIds \cup {id}
    BY <2>2, <1>4 DEF contactIds
  <2>4. \A i \in contactIds : i \in Nat
    BY DEF contactIds, IInv, TypeOK
  <2>5. Largest(contactIds', id)
    BY <2>3, <2>4, <1>1 DEF Largest
  <2> QED BY <2>2, <2>5, <1>1 DEF HasLargest, Largest, IInv, TypeOK
<1> QED BY <1>3, <1>4

\* Setting one field of an ICQContact gives an ICQContact.
LEMMA FieldsKeepType ==
    ASSUME NEW r \in ICQContactRec, NEW w \in BOOLEAN,
           NEW st \in {"offline", "online", "null"}
    PROVE  /\ [r EXCEPT !.waitAuth = w] \in ICQContactRec
           /\ [r EXCEPT !.status = st] \in ICQContactRec
BY DEF ICQContactRec

LEMMA TypeStep == IInv /\ [Next]_vars => IInv'
<1> SUFFICES ASSUME IInv, [Next]_vars PROVE IInv'
  OBVIOUS
<1> USE DEF IInv
<1>0. ASSUME UNCHANGED contacts PROVE HasLargest'
  BY <1>0 DEF HasLargest, contactIds
<1>1. CASE ListArrives
  <2>1. packet' \in Seq(Items)
    BY <1>1 DEF ListArrives
  <2> QED BY <1>0, <1>1, <2>1 DEF ListArrives, TypeOK
<1>2. CASE KnownContact
  <2>1. rest # <<>> /\ Head(rest).kind = "contact" /\ Head(rest).id \in DOMAIN icq
    BY <1>2 DEF KnownContact, Next1
  <2>2. Head(rest).waitAuth \in BOOLEAN /\ Tail(rest) \in Seq(Items)
    BY <2>1, HeadIsItem, ItemKinds
  <2>3. DOMAIN icq' = DOMAIN icq /\ icq' \in [DOMAIN icq' -> ICQContactRec]
    BY <1>2, <2>1, <2>2, FieldsKeepType DEF KnownContact, TypeOK
  <2> QED BY <1>0, <1>2, <2>2, <2>3 DEF KnownContact, Advance, TypeOK
<1>3. CASE NewContact
  <2> DEFINE e == Head(rest)
  <2>1. rest # <<>> /\ e.kind = "contact"
    BY <1>3 DEF NewContact, Next1
  <2>2. /\ e.id \in ItemId /\ e.screen \in Screen /\ e.group \in GroupId
        /\ e.waitAuth \in BOOLEAN /\ Tail(rest) \in Seq(Items)
    BY <2>1, HeadIsItem, ItemKinds
  <2>3. createContactId \in Nat
    BY FreshId
  <2> DEFINE new == [screen |-> e.screen, group |-> e.group,
                     waitAuth |-> e.waitAuth, status |-> "offline",
                     metaContact |-> createContactId]
  <2>4. new \in ICQContactRec
    BY <2>2, <2>3 DEF ICQContactRec
  <2>5. /\ icq' = Put(icq, e.id, new)
        /\ addContact(createContactId,
                      [item |-> e.id, listed |-> TRUE, ignore |-> FALSE])
        /\ Advance /\ UNCHANGED groups
    BY <1>3 DEF NewContact, CreateContact
  <2> HIDE DEF new, e
  <2>6. DOMAIN icq' \subseteq ItemId /\ icq' \in [DOMAIN icq' -> ICQContactRec]
    BY <2>2, <2>4, <2>5 DEF Put, TypeOK
  <2>7. /\ DOMAIN contacts' \subseteq Nat /\ HasLargest'
        /\ contacts' \in [DOMAIN contacts' -> ContactRec]
    BY <2>2, <2>5, AddKeeps
  <2> QED BY <2>2, <2>5, <2>6, <2>7 DEF Advance, TypeOK
<1>4. CASE BadContact
  BY <1>0, <1>4 DEF BadContact, Abort, TypeOK
<1>5. CASE GroupEntry
  <2> DEFINE e == Head(rest)
  <2>1. rest # <<>> /\ e.kind = "group"
    BY <1>5 DEF GroupEntry, Next1
  <2>2. e.id \in GroupId /\ e.members \in SUBSET ItemId /\ Tail(rest) \in Seq(Items)
    BY <2>1, HeadIsItem, ItemKinds
  <2>3. DOMAIN groups' \subseteq GroupId /\ groups' \in [DOMAIN groups' -> SUBSET ItemId]
    BY <1>5, <2>2 DEF GroupEntry, Put, TypeOK
  <2> QED BY <1>0, <1>5, <2>2, <2>3 DEF GroupEntry, Advance, TypeOK
<1>6. CASE OtherEntry
  <2>1. rest # <<>>
    BY <1>6 DEF OtherEntry, Next1
  <2> QED BY <1>0, <1>6, <2>1, HeadIsItem DEF OtherEntry, Advance, TypeOK
<1>7. CASE ShortEntry
  BY <1>0, <1>7 DEF ShortEntry, Abort, TypeOK
<1>8. CASE ListUpdated
  BY <1>0, <1>8 DEF ListUpdated, TypeOK
<1>9. CASE processUserOnline
  <2>1. PICK st \in {"online", "away", "other"}, k \in DOMAIN icq :
            /\ icq' = [icq EXCEPT ![k].status = makeStatus(st)]
            /\ \E id \in metaContactId(k) : told' = [item |-> k, id |-> id]
    BY <1>9 DEF processUserOnline
  <2>2. makeStatus(st) \in {"offline", "online", "null"}
    BY DEF makeStatus
  <2>3. DOMAIN icq' = DOMAIN icq /\ icq' \in [DOMAIN icq' -> ICQContactRec]
    BY <2>1, <2>2, FieldsKeepType DEF TypeOK
  <2>4. k \in ItemId /\ metaContactId(k) \subseteq Int
    <3>1. icq[k].metaContact \in Nat
      BY DEF TypeOK, ICQContactRec
    <3> QED BY <3>1 DEF metaContactId, TypeOK
  <2>5. told' \in [item : ItemId \cup {NoItem}, id : Int]
    BY <2>1, <2>4
  <2> QED BY <1>0, <1>9, <2>3, <2>5 DEF processUserOnline, TypeOK
<1>10. CASE UNCHANGED vars
  BY <1>0, <1>10 DEF vars, TypeOK
<1> QED BY <1>1, <1>2, <1>3, <1>4, <1>5, <1>6, <1>7, <1>8, <1>9, <1>10
     DEF Next

\* Every variable keeps its type: Roster's TypeOK, for every profile and list.
THEOREM TypeCorrect == Spec => []TypeOK
<1>1. IInv => TypeOK
  BY DEF IInv
<1> QED BY TypeInit, TypeStep, <1>1, PTL DEF Spec

-----------------------------------------------------------------------------
(* What one step may do *)

\* addContact keeps what is there.
LEMMA AddIsMonotone ==
    ASSUME NEW id, NEW c, addContact(id, c)
    PROVE  \A i \in DOMAIN contacts : i \in DOMAIN contacts' /\ contacts'[i] = contacts[i]
BY DEF addContact, Put

\* Only NewContact touches the user's contacts.
LEMMA ContactsStep ==
    ASSUME [Next]_vars
    PROVE  contacts' = contacts \/ NewContact
BY DEF Next, vars, ListArrives, KnownContact, BadContact, GroupEntry, OtherEntry,
       ShortEntry, ListUpdated, processUserOnline, Advance, Abort

\* No list packet drops or rewrites a contact the user already has.
THEOREM UserContactsSurvive == Spec => ContactsSurvive
<1>1. [Next]_vars =>
          [\A i \in DOMAIN contacts :
               i \in DOMAIN contacts' /\ contacts'[i] = contacts[i]]_contacts
  <2> SUFFICES ASSUME NewContact
               PROVE  \A i \in DOMAIN contacts :
                          i \in DOMAIN contacts' /\ contacts'[i] = contacts[i]
    BY ContactsStep
  <2>1. addContact(createContactId,
                   [item |-> Head(rest).id, listed |-> TRUE, ignore |-> FALSE])
    BY DEF NewContact, CreateContact
  <2> QED BY <2>1, AddIsMonotone
<1> QED BY <1>1, PTL DEF Spec, ContactsSurvive

\* Every item stays, in its place.
LEMMA ItemsStep ==
    ASSUME TypeOK, [Next]_vars, NEW k \in DOMAIN icq
    PROVE  /\ k \in DOMAIN icq' /\ icq'[k].screen = icq[k].screen
           /\ icq'[k].group = icq[k].group
           /\ icq'[k].metaContact = icq[k].metaContact
<1>0. icq[k] \in ICQContactRec
  BY DEF TypeOK
<1>1. CASE KnownContact
  <2> DEFINE h == Head(rest).id  w == Head(rest).waitAuth
  <2>1. icq' = [icq EXCEPT ![h] = [icq[h] EXCEPT !.waitAuth = w]]
    BY <1>1 DEF KnownContact
  <2> HIDE DEF h, w
  <2>2. k = h => icq'[k] = [icq[k] EXCEPT !.waitAuth = w]
    BY <2>1
  <2>3. k # h => icq'[k] = icq[k]
    BY <2>1
  <2> QED BY <1>0, <2>1, <2>2, <2>3 DEF ICQContactRec
<1>2. CASE NewContact
  BY <1>2 DEF NewContact, CreateContact, Put
<1>3. CASE processUserOnline
  <2>1. PICK j \in DOMAIN icq, st \in {"online", "away", "other"} :
            icq' = [icq EXCEPT ![j] = [icq[j] EXCEPT !.status = makeStatus(st)]]
    BY <1>3 DEF processUserOnline
  <2>2. k = j => icq'[k] = [icq[k] EXCEPT !.status = makeStatus(st)]
    BY <2>1
  <2>3. k # j => icq'[k] = icq[k]
    BY <2>1
  <2> HIDE DEF makeStatus
  <2> QED BY <1>0, <2>1, <2>2, <2>3 DEF ICQContactRec
<1>4. CASE UNCHANGED icq
  BY <1>4
<1> QED BY <1>1, <1>2, <1>3, <1>4
     DEF Next, vars, ListArrives, BadContact, GroupEntry, OtherEntry, ShortEntry,
         ListUpdated, Abort

\* The first list that names an item decides on its name, group and contact.
THEOREM FirstListDecides == Spec => FirstListWins
<1>1. IInv /\ [Next]_vars =>
          [\A k \in DOMAIN icq :
               /\ k \in DOMAIN icq'
               /\ icq'[k].screen = icq[k].screen /\ icq'[k].group = icq[k].group
               /\ icq'[k].metaContact = icq[k].metaContact]_icq
  BY ItemsStep DEF IInv
<1> QED BY TypeInit, TypeStep, <1>1, PTL DEF Spec, FirstListWins

-----------------------------------------------------------------------------
(* How the two lists are linked *)

\* A contact made for an item is the one the item points to.
PointsBack ==
    \A i \in DOMAIN contacts :
        contacts[i].listed =>
            /\ contacts[i].item \in DOMAIN icq
            /\ icq[contacts[i].item].metaContact = i

LinkInv == IInv /\ OnlyIgnoredHide /\ PointsBack

LEMMA LinkInit == Init => LinkInv
<1> SUFFICES ASSUME Init PROVE LinkInv
  OBVIOUS
<1>1. DOMAIN icq = {}
  BY DEF Init
<1>2. \A i \in DOMAIN contacts : ~contacts[i].listed
  BY DEF Init
<1> QED BY TypeInit, <1>1, <1>2 DEF LinkInv, OnlyIgnoredHide, PointsBack

\* Links do not change while contacts do not change and items stay in place.
LEMMA LinkQuiet ==
    ASSUME LinkInv, [Next]_vars, contacts' = contacts, DOMAIN icq' = DOMAIN icq
    PROVE  OnlyIgnoredHide' /\ PointsBack'
<1>1. \A k \in DOMAIN icq : icq'[k].metaContact = icq[k].metaContact
  BY ItemsStep DEF LinkInv, IInv
<1>2. OnlyIgnoredHide'
  BY <1>1 DEF LinkInv, OnlyIgnoredHide, Linked, HiddenByIgnored
<1>3. PointsBack'
  BY <1>1 DEF LinkInv, PointsBack
<1> QED BY <1>2, <1>3

\* A new item is linked with the contact made for it, unless its id is taken
\* by an ignored one.
LEMMA LinkNew ==
    ASSUME LinkInv, NewContact
    PROVE  OnlyIgnoredHide' /\ PointsBack'
<1> DEFINE k == Head(rest).id
           c == [item |-> k, listed |-> TRUE, ignore |-> FALSE]
<1> USE DEF LinkInv, IInv
<1>1. k \in ItemId /\ k \notin DOMAIN icq
  BY HeadIsItem, ItemKinds DEF NewContact, Next1
<1>2. createContactId \in Nat /\ \A i \in contactIds : i < createContactId
  BY FreshId
<1>3. PICK id : id = createContactId
  OBVIOUS
<1>4. /\ addContact(id, c)
      /\ DOMAIN icq' = DOMAIN icq \cup {k}
      /\ icq'[k].metaContact = id
      /\ \A j \in DOMAIN icq : icq'[j] = icq[j]
  BY <1>1, <1>3 DEF NewContact, CreateContact, Put
<1> HIDE DEF k
<1>6. CASE id \in DOMAIN contacts
  <2>1. contacts' = contacts
    BY <1>4, <1>6 DEF addContact
  <2>2. contacts[id].ignore
    <3>1. id \notin contactIds
      BY <1>2, <1>3
    <3> QED BY <3>1, <1>6 DEF contactIds, TypeOK, ContactRec
  <2>3. OnlyIgnoredHide'
    BY <2>1, <2>2, <1>4, <1>6 DEF OnlyIgnoredHide, Linked, HiddenByIgnored
  <2>4. PointsBack'
    BY <2>1, <1>1, <1>4 DEF PointsBack
  <2> QED BY <2>3, <2>4
<1>7. CASE id \notin DOMAIN contacts
  <2>1. /\ DOMAIN contacts' = DOMAIN contacts \cup {id}
        /\ contacts'[id] = c
        /\ \A i \in DOMAIN contacts : contacts'[i] = contacts[i]
    BY <1>4, <1>7 DEF addContact, Put
  <2>2. OnlyIgnoredHide'
    <3> SUFFICES ASSUME NEW j \in DOMAIN icq'
                 PROVE  Linked(j)' \/ HiddenByIgnored(j)'
      BY DEF OnlyIgnoredHide
    <3>1. CASE j = k
      BY <3>1, <2>1, <1>4 DEF Linked
    <3>2. CASE j \in DOMAIN icq
      BY <3>2, <2>1, <1>4 DEF Linked, HiddenByIgnored, OnlyIgnoredHide
    <3> QED BY <3>1, <3>2, <1>4
  <2>3. PointsBack'
    <3> SUFFICES ASSUME NEW i \in DOMAIN contacts', contacts'[i].listed
                 PROVE  /\ contacts'[i].item \in DOMAIN icq'
                        /\ icq'[contacts'[i].item].metaContact = i
      BY DEF PointsBack
    <3>1. CASE i = id
      BY <3>1, <2>1, <1>4
    <3>2. CASE i \in DOMAIN contacts
      BY <3>2, <2>1, <1>1, <1>4 DEF PointsBack
    <3> QED BY <3>1, <3>2, <2>1
  <2> QED BY <2>2, <2>3
<1> QED BY <1>6, <1>7

LEMMA LinkStep == LinkInv /\ [Next]_vars => LinkInv'
<1> SUFFICES ASSUME LinkInv, [Next]_vars PROVE LinkInv'
  OBVIOUS
<1>1. IInv'
  BY TypeStep DEF LinkInv
<1>2. CASE NewContact
  BY <1>1, <1>2, LinkNew DEF LinkInv
<1>3. CASE ~NewContact
  <2>1. contacts' = contacts
    BY <1>3, ContactsStep
  <2>2. DOMAIN icq' = DOMAIN icq
    BY <1>3 DEF Next, vars, ListArrives, KnownContact, BadContact, GroupEntry,
                OtherEntry, ShortEntry, ListUpdated, processUserOnline, Advance, Abort
  <2> QED BY <1>1, <2>1, <2>2, LinkQuiet DEF LinkInv
<1> QED BY <1>2, <1>3

\* An item of the server's list can lose its contact to an ignored one only.
THEOREM OnlyIgnoredCanHide == Spec => []OnlyIgnoredHide
<1>1. LinkInv => OnlyIgnoredHide
  BY DEF LinkInv
<1> QED BY LinkInit, LinkStep, <1>1, PTL DEF Spec

\* No item is given two contacts, however often the list is sent, to whatever
\* profile: the contact made for an item is the one the item points to.
THEOREM NoDuplicates == Spec => []OneContactPerItem
<1>1. LinkInv => OneContactPerItem
  BY DEF LinkInv, PointsBack, OneContactPerItem
<1> QED BY LinkInit, LinkStep, <1>1, PTL DEF Spec

-----------------------------------------------------------------------------
(* A user who ignores nobody *)

LEMMA NobodyHides == LinkInv /\ NobodyIgnored => EveryEntryListed
BY DEF LinkInv, OnlyIgnoredHide, NobodyIgnored, EveryEntryListed, Linked,
       HiddenByIgnored, contactIds

\* Every contact of the server's list is shown to him.
THEOREM ListShownUnlessIgnored == Spec => []AllListedIfNobodyIgnored
<1>1. LinkInv => AllListedIfNobodyIgnored
  BY NobodyHides DEF AllListedIfNobodyIgnored
<1> QED BY LinkInit, LinkStep, <1>1, PTL DEF Spec

\* What was told last is still true: contacts only come.
LEMMA ToldStep ==
    ASSUME LinkInv, StatusEventNamesBuddy, [Next]_vars
    PROVE  StatusEventNamesBuddy'
<1> SUFFICES ASSUME NobodyIgnored', told' # NoEvent
             PROVE  /\ told'.id \in DOMAIN contacts'
                    /\ contacts'[told'.id].item = told'.item
                    /\ contacts'[told'.id].listed
  BY DEF StatusEventNamesBuddy, NobodyIgnored, contactIds
<1>1. \A i \in DOMAIN contacts : i \in DOMAIN contacts' /\ contacts'[i] = contacts[i]
  <2>1. CASE contacts' = contacts
    BY <2>1
  <2>2. CASE NewContact
    BY <2>2, AddIsMonotone DEF NewContact, CreateContact
  <2> QED BY <2>1, <2>2, ContactsStep
<1>2. NobodyIgnored
  BY <1>1 DEF NobodyIgnored
<1>3. CASE processUserOnline
  <2>1. PICK k \in DOMAIN icq : \E id \in metaContactId(k) :
            told' = [item |-> k, id |-> id]
    BY <1>3 DEF processUserOnline
  <2>2. Linked(k)
    BY <1>2, NobodyHides DEF EveryEntryListed
  <2>3. told' = [item |-> k, id |-> icq[k].metaContact]
    BY <2>1, <2>2 DEF metaContactId
  <2>4. contacts' = contacts
    BY <1>3 DEF processUserOnline
  <2> QED BY <2>2, <2>3, <2>4 DEF Linked
<1>4. CASE told' = told
  BY <1>1, <1>2, <1>4 DEF StatusEventNamesBuddy, contactIds
<1> QED BY <1>3, <1>4
        DEF Next, vars, ListArrives, KnownContact, NewContact, CreateContact,
            BadContact, GroupEntry, OtherEntry, ShortEntry, ListUpdated, Advance,
            Abort

\* A status event names the contact that stands for the buddy, although the id
\* is read through a raw pointer.
THEOREM EventsNameBuddies == Spec => []StatusEventNamesBuddy
<1>1. Init => StatusEventNamesBuddy
  BY DEF Init, StatusEventNamesBuddy
<1> QED BY LinkInit, LinkStep, <1>1, ToldStep, PTL DEF Spec

-----------------------------------------------------------------------------
(* parseContactList reads the packet from its first item to its last *)

\* How many items have been read.
ReadItems == Len(packet) - Len(rest)

\* `rest` is the end of the packet and what was read has been merged.
ParseInv ==
    stage \in {"parsing", "announced"} =>
        /\ Len(rest) <= Len(packet)
        /\ \A i \in 1 .. Len(rest) : rest[i] = packet[ReadItems + i]
        /\ stage = "announced" => rest = <<>>
        /\ Merged(ReadItems)

\* Reading one item: the items read before stay merged.
LEMMA ReadOne ==
    ASSUME IInv, ParseInv, stage = "parsing", rest # <<>>, Advance,
           DOMAIN icq \subseteq DOMAIN icq', DOMAIN groups \subseteq DOMAIN groups',
           Head(rest).kind = "contact" =>
               /\ Head(rest).id \in DOMAIN icq'
               /\ icq'[Head(rest).id].waitAuth = Head(rest).waitAuth,
           Head(rest).kind = "group" => Head(rest).id \in DOMAIN groups',
           \A k \in DOMAIN icq :
               \/ icq'[k].waitAuth = icq[k].waitAuth
               \/ Head(rest).kind = "contact" /\ Head(rest).id = k
    PROVE  ParseInv'
<1>0. PICK d : d = ReadItems
  OBVIOUS
<1>1. /\ packet \in Seq(Items) /\ rest \in Seq(Items)
      /\ packet' = packet /\ rest' = Tail(rest) /\ stage' = "parsing"
  BY DEF IInv, TypeOK, Advance
<1>2. /\ Len(rest) \in Nat /\ Len(rest) >= 1 /\ Len(packet) \in Nat
      /\ Len(rest') = Len(rest) - 1
      /\ \A i \in 1 .. Len(rest') : rest'[i] = rest[i + 1]
      /\ Head(rest) = rest[1]
  BY <1>1
<1>3. /\ d \in Nat /\ ReadItems' = d + 1 /\ d + 1 <= Len(packet)
      /\ Head(rest) = packet[d + 1]
  BY <1>0, <1>1, <1>2 DEF ParseInv, ReadItems
<1>4. \A i \in 1 .. Len(rest') : rest'[i] = packet'[ReadItems' + i]
  <2> SUFFICES ASSUME NEW i \in 1 .. Len(rest') PROVE rest'[i] = packet[d + 1 + i]
    BY <1>1, <1>3
  <2>1. rest[i + 1] = packet[d + (i + 1)]
    BY <1>0, <1>2 DEF ParseInv
  <2> QED BY <2>1, <1>2, <1>3
<1>5. Merged(d)
  BY <1>0 DEF ParseInv
<1>6. Merged(d + 1)'
  <2> SUFFICES ASSUME NEW n \in 1 .. d + 1
               PROVE  /\ packet[n].kind = "contact" =>
                           /\ packet[n].id \in DOMAIN icq'
                           /\ \/ \E m \in n + 1 .. d + 1 : IsContact(m, packet[n].id)
                              \/ icq'[packet[n].id].waitAuth = packet[n].waitAuth
                      /\ packet[n].kind = "group" => packet[n].id \in DOMAIN groups'
    BY <1>1, <1>3 DEF Merged, IsContact
  <2>1. CASE n = d + 1
    BY <2>1, <1>3
  <2>2. CASE n \in 1 .. d
    <3>1. packet[n].kind = "group" => packet[n].id \in DOMAIN groups'
      BY <2>2, <1>5 DEF Merged
    <3>2. ASSUME packet[n].kind = "contact"
          PROVE  /\ packet[n].id \in DOMAIN icq'
                 /\ \/ \E m \in n + 1 .. d + 1 : IsContact(m, packet[n].id)
                    \/ icq'[packet[n].id].waitAuth = packet[n].waitAuth
      <4>1. packet[n].id \in DOMAIN icq
        BY <2>2, <3>2, <1>5 DEF Merged
      <4>2. CASE IsContact(d + 1, packet[n].id)
        BY <4>1, <4>2, <2>2, <1>3
      <4>3. CASE ~IsContact(d + 1, packet[n].id)
        <5>1. icq'[packet[n].id].waitAuth = icq[packet[n].id].waitAuth
          BY <4>1, <4>3, <1>3 DEF IsContact
        <5>2. \/ \E m \in n + 1 .. d : IsContact(m, packet[n].id)
              \/ icq[packet[n].id].waitAuth = packet[n].waitAuth
          BY <2>2, <3>2, <1>5 DEF Merged
        <5>3. n + 1 .. d \subseteq n + 1 .. d + 1
          BY <1>3
        <5> QED BY <4>1, <5>1, <5>2, <5>3
      <4> QED BY <4>2, <4>3
    <3> QED BY <3>1, <3>2
  <2> QED BY <2>1, <2>2, <1>3
<1> QED BY <1>1, <1>2, <1>3, <1>4, <1>6 DEF ParseInv

LEMMA ParseStep == IInv /\ ParseInv /\ [Next]_vars => ParseInv'
<1> SUFFICES ASSUME IInv, ParseInv, [Next]_vars PROVE ParseInv'
  OBVIOUS
<1>1. CASE ListArrives
  <2>1. /\ rest' = packet' /\ stage' = "parsing"
        /\ packet' \in Seq(Items)
    BY <1>1, TypeStep DEF ListArrives, IInv, TypeOK
  <2>2. ReadItems' = 0
    BY <2>1 DEF ReadItems
  <2> QED BY <2>1, <2>2 DEF ParseInv, Merged
<1>2. CASE KnownContact
  <2> DEFINE h == Head(rest)
  <2>1. /\ stage = "parsing" /\ rest # <<>> /\ h.kind = "contact"
        /\ h.id \in DOMAIN icq /\ Advance /\ groups' = groups
        /\ icq' = [icq EXCEPT ![h.id] = [icq[h.id] EXCEPT !.waitAuth = h.waitAuth]]
    BY <1>2 DEF KnownContact, Next1
  <2>2. icq[h.id] \in ICQContactRec
    BY <2>1 DEF IInv, TypeOK
  <2> HIDE DEF h
  <2>3. /\ DOMAIN icq' = DOMAIN icq
        /\ \A k \in DOMAIN icq : k # h.id => icq'[k] = icq[k]
        /\ icq'[h.id] = [icq[h.id] EXCEPT !.waitAuth = h.waitAuth]
    BY <2>1
  <2>4. icq'[h.id].waitAuth = h.waitAuth
    BY <2>2, <2>3 DEF ICQContactRec
  <2> QED BY <2>1, <2>3, <2>4, ReadOne DEF h
<1>3. CASE NewContact
  <2> DEFINE h == Head(rest)
  <2>1. /\ stage = "parsing" /\ rest # <<>> /\ h.kind = "contact"
        /\ h.id \notin DOMAIN icq /\ Advance /\ groups' = groups
        /\ DOMAIN icq' = DOMAIN icq \cup {h.id}
        /\ icq'[h.id].waitAuth = h.waitAuth
        /\ \A k \in DOMAIN icq : icq'[k] = icq[k]
    BY <1>3 DEF NewContact, CreateContact, Next1, Put
  <2> QED BY <2>1, ReadOne
<1>4. CASE GroupEntry
  <2>1. /\ stage = "parsing" /\ rest # <<>> /\ Head(rest).kind = "group"
        /\ Advance /\ icq' = icq
        /\ DOMAIN groups' = DOMAIN groups \cup {Head(rest).id}
    BY <1>4 DEF GroupEntry, Next1, Put
  <2> QED BY <2>1, ReadOne
<1>5. CASE OtherEntry
  BY <1>5, ReadOne DEF OtherEntry, Next1
<1>6. CASE BadContact \/ ShortEntry
  BY <1>6 DEF BadContact, ShortEntry, Abort, ParseInv
<1>7. CASE ListUpdated
  BY <1>7 DEF ListUpdated, ParseInv, ReadItems, Merged, IsContact
<1>8. CASE processUserOnline
  <2>1. PICK j \in DOMAIN icq, st \in {"online", "away", "other"} :
            icq' = [icq EXCEPT ![j] = [icq[j] EXCEPT !.status = makeStatus(st)]]
    BY <1>8 DEF processUserOnline
  <2>2. icq[j] \in ICQContactRec
    BY DEF IInv, TypeOK
  <2> HIDE DEF makeStatus
  <2>3. \A k \in DOMAIN icq : icq'[k].waitAuth = icq[k].waitAuth
    BY <2>1, <2>2 DEF ICQContactRec
  <2>4. DOMAIN icq' = DOMAIN icq /\ UNCHANGED <<groups, packet, rest, stage>>
    BY <1>8, <2>1 DEF processUserOnline
  <2>5. ReadItems' = ReadItems
    BY <2>4 DEF ReadItems
  <2>6. Merged(ReadItems) => Merged(ReadItems)'
    BY <2>3, <2>4, <2>5 DEF Merged, IsContact
  <2> QED BY <2>4, <2>5, <2>6 DEF ParseInv
<1>9. CASE UNCHANGED vars
  BY <1>9 DEF vars, ParseInv, ReadItems, Merged, IsContact
<1> QED BY <1>1, <1>2, <1>3, <1>4, <1>5, <1>6, <1>7, <1>8, <1>9 DEF Next

\* A list is announced, and the session activated, only when it is all there.
THEOREM AnnouncementsAreComplete == Spec => []AnnouncedListIsComplete
<1>1. Init => ParseInv
  BY DEF Init, ParseInv
<1>2. IInv /\ ParseInv => AnnouncedListIsComplete
  <2> SUFFICES ASSUME IInv, ParseInv, stage = "announced" PROVE Merged(Len(packet))
    BY DEF AnnouncedListIsComplete
  <2>1. rest = <<>> /\ Len(packet) \in Nat
    BY DEF ParseInv, IInv, TypeOK
  <2>2. ReadItems = Len(packet)
    BY <2>1 DEF ReadItems
  <2> QED BY <2>2 DEF ParseInv
<1> QED BY TypeInit, TypeStep, <1>1, ParseStep, <1>2, PTL DEF Spec

-----------------------------------------------------------------------------
(* The roster's tree *)

LEMMA ViewStepIsListStep == [ViewNext]_allVars => [Next]_vars
BY DEF ViewNext, allVars, vars, viewVars, Next, Expand, Collapse, CountRows,
       AnnounceList, AnnounceStatus, Silent

\* What a step of the lists leaves behind: shown contacts stay shown, and no
\* path makes one of them offline.
LEMMA OnlineStays ==
    ASSUME LinkInv, [Next]_vars, NEW id \in contactIds
    PROVE  /\ id \in contactIds'
           /\ isOnline(id, icq) => isOnline(id, icq)'
<1>1. id \in DOMAIN contacts' /\ contacts'[id] = contacts[id]
  <2>1. CASE contacts' = contacts
    BY <2>1 DEF contactIds
  <2>2. CASE NewContact
    BY <2>2, AddIsMonotone DEF NewContact, CreateContact, contactIds
  <2> QED BY <2>1, <2>2, ContactsStep
<1>2. id \in contactIds'
  BY <1>1 DEF contactIds
<1> DEFINE k == contacts[id].item
<1>3. ASSUME isOnline(id, icq)
      PROVE  k \in DOMAIN icq /\ icq[k].status # "offline"
  BY <1>3 DEF isOnline, LinkInv, PointsBack, contactIds
<1>4. ASSUME NEW j \in DOMAIN icq, icq[j].status # "offline"
      PROVE  icq'[j].status # "offline"
  <2>0. icq[j] \in ICQContactRec /\ DOMAIN icq \subseteq ItemId
    BY DEF LinkInv, IInv, TypeOK
  <2>1. CASE KnownContact
    <3>1. icq' = [icq EXCEPT ![Head(rest).id].waitAuth = Head(rest).waitAuth]
      BY <2>1 DEF KnownContact
    <3> QED BY <1>4, <2>0, <3>1 DEF ICQContactRec
  <2>2. CASE NewContact
    <3>1. Head(rest).id \notin DOMAIN icq
      BY <2>2 DEF NewContact
    <3> QED BY <1>4, <2>2, <3>1 DEF NewContact, CreateContact, Put
  <2>3. CASE processUserOnline
    <3>1. PICK i \in DOMAIN icq, st \in {"online", "away", "other"} :
              icq' = [icq EXCEPT ![i].status = makeStatus(st)]
      BY <2>3 DEF processUserOnline
    <3>2. makeStatus(st) # "offline"
      BY DEF makeStatus
    <3> QED BY <1>4, <2>0, <3>1, <3>2 DEF ICQContactRec
  <2>4. CASE icq' = icq
    BY <1>4, <2>4
  <2> QED BY <2>1, <2>2, <2>3, <2>4
          DEF Next, vars, ListArrives, BadContact, GroupEntry, OtherEntry,
              ShortEntry, ListUpdated, Abort
<1>5. isOnline(id, icq) => isOnline(id, icq)'
  BY <1>1, <1>3, <1>4 DEF isOnline
<1> QED BY <1>2, <1>5

\* A profile has finitely many contacts that are shown.
LEMMA ShownIsFinite == LinkInv => IsFiniteSet(contactIds)
<1> SUFFICES ASSUME LinkInv PROVE IsFiniteSet(contactIds)
  OBVIOUS
<1>1. contactIds \subseteq Nat
  BY DEF LinkInv, IInv, TypeOK, contactIds
<1>2. CASE contactIds = {}
  BY <1>2, FS_EmptySet
<1>3. ASSUME NEW m \in contactIds, Largest(contactIds, m)
      PROVE  IsFiniteSet(contactIds)
  <2>1. contactIds \subseteq 0 .. m
    BY <1>1, <1>3 DEF Largest
  <2>2. IsFiniteSet(0 .. m)
    <3>1. 0 \in Int /\ m \in Int
      BY <1>1
    <3> QED BY <3>1, FS_Interval
  <2> QED BY <2>1, <2>2, FS_Subset
<1> QED BY <1>2, <1>3 DEF LinkInv, IInv, HasLargest

\* The ids the model keeps are contacts that are shown, and those it keeps as
\* online are online.
KeptIds ==
    /\ \A s \in Section : cache[s] \subseteq contactIds
    /\ \A id \in cache["online"] : isOnline(id, icq)

\* A section is never longer on the screen than in the model.
RowsCovered == laid["online"] <= Cardinality(cache["online"])

ViewInv ==
    LinkInv /\ ViewTypeOK /\ KeptIds /\ RowsCovered /\ AnnouncedContactsHaveRows

LEMMA FilledIs ==
    ASSUME NEW items
    PROVE  /\ \A s \in Section : Filled(items)[s] \subseteq contactIds
           /\ \A id \in Filled(items)["online"] : isOnline(id, items)
           /\ \A id \in contactIds : isOnline(id, items) => id \in Filled(items)["online"]
           /\ contactIds = Filled(items)["online"] \cup Filled(items)["offline"]
BY DEF Filled, Section

LEMMA ViewStart == ViewInit => ViewInv
<1> SUFFICES ASSUME ViewInit PROVE ViewInv
  OBVIOUS
<1>1. LinkInv
  BY LinkInit DEF ViewInit
<1>2. ViewTypeOK
  BY WiringsAssumption DEF ViewInit, ViewTypeOK, Section, Shut
<1>3. KeptIds
  BY DEF ViewInit, KeptIds, Section
<1>4. RowsCovered
  <2>1. laid["online"] = -1 /\ cache["online"] = {}
    BY DEF ViewInit, Section, Shut
  <2> QED BY <2>1, FS_EmptySet DEF RowsCovered
<1>5. AnnouncedContactsHaveRows
  BY DEF ViewInit, AnnouncedContactsHaveRows
<1> QED BY <1>1, <1>2, <1>3, <1>4, <1>5 DEF ViewInv

\* The cache after a step, and what that step may do to the rows.
LEMMA ViewStepOf ==
    ASSUME ViewInv, [ViewNext]_allVars, NEW items,
           \/ items = icq' /\ contacts' = contacts /\ cache' = Filled(items)
           \/ cache' = cache,
           ViewTypeOK', laid'["online"] <= Cardinality(cache'["online"]),
           AnnouncedContactsHaveRows'
    PROVE  ViewInv'
<1>1. LinkInv'
  BY ViewStepIsListStep, LinkStep DEF ViewInv
<1>2. KeptIds'
  <2>1. CASE items = icq' /\ contacts' = contacts /\ cache' = Filled(items)
    <3>1. contactIds' = contactIds
      BY <2>1 DEF contactIds
    <3> QED BY <2>1, <3>1, FilledIs DEF KeptIds, isOnline
  <2>2. CASE cache' = cache
    BY <2>2, ViewStepIsListStep, OnlineStays DEF ViewInv, KeptIds, Section
  <2> QED BY <2>1, <2>2
<1> QED BY <1>1, <1>2 DEF ViewInv, RowsCovered

LEMMA ViewStep == ViewInv /\ [ViewNext]_allVars => ViewInv'
<1> SUFFICES ASSUME ViewInv, [ViewNext]_allVars PROVE ViewInv'
  OBVIOUS
<1>0. /\ cache \in [Section -> SUBSET Nat] /\ laid \in [Section -> Nat \cup {-1}]
      /\ wired \in BOOLEAN /\ valid \in BOOLEAN
      /\ \A s \in Section : laid[s] # -1 => valid
      /\ "online" \in Section /\ "offline" \in Section
      /\ laid["online"] <= Cardinality(cache["online"])
      /\ IsFiniteSet(contactIds) /\ contactIds \subseteq Nat
  BY ShownIsFinite DEF ViewInv, ViewTypeOK, RowsCovered, Section, Shut, LinkInv, IInv,
                       TypeOK, contactIds
\* A refill never shortens the list of those online.
<1>1. ASSUME cache' = Filled(icq'), UNCHANGED <<contacts, icq>>
      PROVE  /\ cache' \in [Section -> SUBSET Nat]
             /\ Cardinality(cache["online"]) <= Cardinality(cache'["online"])
             /\ Cardinality(cache'["online"]) \in Nat
             /\ Cardinality(cache'["offline"]) \in Nat
             /\ contactIds' = cache'["online"] \cup cache'["offline"]
  <2>1. Filled(icq) \in [Section -> SUBSET Nat]
    BY <1>0 DEF Filled
  <2>2. cache["online"] \subseteq Filled(icq)["online"]
    BY <1>0, FilledIs DEF ViewInv, KeptIds
  <2>3. /\ IsFiniteSet(Filled(icq)["online"]) /\ IsFiniteSet(Filled(icq)["offline"])
    BY <1>0, FilledIs, FS_Subset
  <2>4. contactIds' = contactIds /\ cache' = Filled(icq)
    BY <1>1 DEF contactIds
  <2> QED BY <2>1, <2>2, <2>3, <2>4, FilledIs, FS_Subset, FS_CardinalityType
<1>2. CASE Expand
  <2>1. PICK s \in Section :
            /\ laid[s] = Shut
            /\ cache' = Filled(icq) /\ valid' = TRUE
            /\ laid' = [laid EXCEPT ![s] = Cardinality(cache'[s])]
            /\ UNCHANGED <<vars, wired>>
    BY <1>2 DEF Expand, rowCount
  <2>2. UNCHANGED <<contacts, icq, stage, wired>> /\ cache' = Filled(icq')
    BY <2>1 DEF vars
  <2>3. ViewTypeOK'
    BY <1>0, <1>1, <2>1, <2>2 DEF ViewTypeOK, Section, Shut
  <2>4. laid'["online"] <= Cardinality(cache'["online"])
    <3>1. CASE s = "online"
      BY <1>0, <1>1, <2>1, <2>2, <3>1
    <3>2. CASE s # "online"
      <4>1. laid'["online"] = laid["online"] /\ laid["online"] \in Int
        BY <1>0, <2>1, <3>2
      <4>2. Cardinality(cache["online"]) \in Nat
        BY <1>0, FS_Subset, FS_CardinalityType DEF ViewInv, KeptIds
      <4> QED BY <1>0, <1>1, <2>2, <4>1, <4>2
    <3> QED BY <3>1, <3>2
  <2>5. AnnouncedContactsHaveRows'
    BY <1>1, <2>2 DEF AnnouncedContactsHaveRows
  <2> QED BY <2>2, <2>3, <2>4, <2>5, ViewStepOf
<1>3. CASE Collapse
  <2>1. PICK s \in Section : laid' = [laid EXCEPT ![s] = Shut]
    BY <1>3 DEF Collapse
  <2>2. UNCHANGED <<contacts, icq, stage, wired, cache, valid>>
    BY <1>3 DEF Collapse, vars
  <2>3. ViewTypeOK'
    BY <1>0, <2>1, <2>2 DEF ViewTypeOK, Section, Shut
  <2>4. Cardinality(cache["online"]) \in Nat
    BY <1>0, FS_Subset, FS_CardinalityType DEF ViewInv, KeptIds
  <2>5. laid'["online"] <= Cardinality(cache'["online"])
    BY <1>0, <2>1, <2>2, <2>4 DEF Shut
  <2>6. AnnouncedContactsHaveRows'
    BY <1>0, <2>1, <2>2 DEF ViewInv, AnnouncedContactsHaveRows, contactIds, Section, Shut
  <2> QED BY <2>2, <2>3, <2>5, <2>6, ViewStepOf
<1>4. CASE CountRows
  <2>1. cache' = Filled(icq) /\ valid' = TRUE /\ UNCHANGED <<vars, wired, laid>>
    BY <1>4 DEF CountRows, rowCount
  <2>2. UNCHANGED <<contacts, icq, stage, wired, laid>> /\ cache' = Filled(icq')
    BY <2>1 DEF vars
  <2>3. ViewTypeOK'
    BY <1>0, <1>1, <2>1, <2>2 DEF ViewTypeOK, Shut
  <2>4. laid'["online"] <= Cardinality(cache'["online"])
    <3>1. Cardinality(cache["online"]) \in Nat /\ laid["online"] \in Int
      BY <1>0, FS_Subset, FS_CardinalityType DEF ViewInv, KeptIds
    <3> QED BY <1>0, <1>1, <2>2, <3>1
  <2>5. AnnouncedContactsHaveRows'
    BY <1>1, <2>2 DEF AnnouncedContactsHaveRows
  <2> QED BY <2>2, <2>3, <2>4, <2>5, ViewStepOf
<1>5. ASSUME UNCHANGED viewVars, wired' => stage' # "announced" PROVE ViewInv'
  <2>1. ViewTypeOK' /\ cache' = cache /\ laid' = laid
    BY <1>5 DEF viewVars, ViewInv, ViewTypeOK
  <2>2. laid'["online"] <= Cardinality(cache'["online"])
    BY <1>0, <2>1
  <2>3. AnnouncedContactsHaveRows'
    BY <1>5 DEF AnnouncedContactsHaveRows
  <2> QED BY <2>1, <2>2, <2>3, ViewStepOf
<1>6. CASE AnnounceList
  <2>1. CASE ~wired
    BY <1>5, <1>6, <2>1 DEF AnnounceList, viewVars
  <2>2. CASE wired
    <3>1. /\ laid' = [s \in Section |-> Shut] /\ UNCHANGED <<wired, cache, valid>>
      BY <1>6, <2>2 DEF AnnounceList, contactListUpdated
    <3>2. ViewTypeOK'
      BY <1>0, <3>1 DEF ViewTypeOK, Shut
    <3>3. Cardinality(cache["online"]) \in Nat
      BY <1>0, FS_Subset, FS_CardinalityType DEF ViewInv, KeptIds
    <3>4. laid'["online"] <= Cardinality(cache'["online"])
      BY <1>0, <3>1, <3>3 DEF Shut
    <3>5. AnnouncedContactsHaveRows'
      BY <3>1 DEF AnnouncedContactsHaveRows
    <3> QED BY <3>1, <3>2, <3>4, <3>5, ViewStepOf
  <2> QED BY <1>0, <2>1, <2>2
<1>7. CASE AnnounceStatus
  <2>1. UNCHANGED <<contacts, stage>>
    BY <1>7 DEF AnnounceStatus, processUserOnline
  <2>2. CASE ~wired
    BY <1>5, <1>7, <2>2 DEF AnnounceStatus, viewVars
  <2>3. CASE wired /\ valid
    <3>1. cache' = cache /\ valid' = TRUE /\ UNCHANGED <<wired, laid>>
      BY <1>7, <2>3 DEF AnnounceStatus, contactStatusChanged
    <3>2. ViewTypeOK' /\ laid'["online"] <= Cardinality(cache'["online"])
      BY <1>0, <3>1 DEF ViewTypeOK, Shut
    <3>3. AnnouncedContactsHaveRows'
      BY <2>1, <3>1 DEF ViewInv, AnnouncedContactsHaveRows, contactIds
    <3> QED BY <3>1, <3>2, <3>3, ViewStepOf
  \* Nothing is on the screen: the refill is the first.
  <2>4. CASE wired /\ ~valid
    <3>1. cache' = Filled(icq') /\ valid' = TRUE /\ UNCHANGED <<wired, laid>>
      BY <1>7, <2>4 DEF AnnounceStatus, contactStatusChanged
    <3>2. Filled(icq') \in [Section -> SUBSET Nat]
      BY <1>0 DEF Filled
    <3>3. \A s \in Section : laid[s] = -1
      BY <1>0, <2>4
    <3>4. ViewTypeOK'
      BY <1>0, <3>1, <3>2, <3>3 DEF ViewTypeOK, Shut
    <3>5. Cardinality(cache'["online"]) \in Nat
      BY <1>0, <3>1, FilledIs, FS_Subset, FS_CardinalityType
    <3>6. laid'["online"] <= Cardinality(cache'["online"])
      BY <1>0, <3>1, <3>3, <3>5
    <3>7. AnnouncedContactsHaveRows'
      BY <3>1, <3>3 DEF AnnouncedContactsHaveRows, Shut
    <3> QED BY <2>1, <3>1, <3>4, <3>6, <3>7, ViewStepOf
  <2> QED BY <1>0, <2>2, <2>3, <2>4
<1>8. CASE Silent
  <2>1. stage' # "announced"
    BY <1>8 DEF Silent, ListArrives, KnownContact, NewContact, CreateContact,
                BadContact, GroupEntry, OtherEntry, ShortEntry, Next1, Advance, Abort
  <2> QED BY <1>5, <1>8, <2>1 DEF Silent
<1>9. CASE UNCHANGED allVars
  <2>1. UNCHANGED <<contacts, icq, stage, wired, cache, valid, laid>>
    BY <1>9 DEF allVars
  <2>2. ViewTypeOK' /\ laid'["online"] <= Cardinality(cache'["online"])
    BY <1>0, <2>1 DEF ViewTypeOK, Shut
  <2>3. AnnouncedContactsHaveRows'
    BY <2>1 DEF ViewInv, AnnouncedContactsHaveRows, contactIds
  <2> QED BY <2>1, <2>2, <2>3, ViewStepOf
<1> QED BY <1>2, <1>3, <1>4, <1>6, <1>7, <1>8, <1>9 DEF ViewNext

\* A row laid out under "Online" always has a contact, shown and online, though
\* the model is told of no change: for every profile and every list.
THEOREM OnlineRowsAreOnline == ViewSpec => []OnlineRowsHold
<1>1. ViewInv => OnlineRowsHold
  BY DEF ViewInv, KeptIds, RowsCovered, OnlineRowsHold, Section
<1> QED BY ViewStart, ViewStep, <1>1, PTL DEF ViewSpec

\* With the slots connected, an open section shows the list that was announced.
THEOREM AnnouncedAreShown == ViewSpec => []AnnouncedContactsHaveRows
<1>1. ViewInv => AnnouncedContactsHaveRows
  BY DEF ViewInv
<1> QED BY ViewStart, ViewStep, <1>1, PTL DEF ViewSpec
=============================================================================
