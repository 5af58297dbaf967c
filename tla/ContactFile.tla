---------------------------- MODULE ContactFile ----------------------------
(***************************************************************************)
(* StandardContactList::load(), called once while the list is empty: the   *)
(* entries of contacts.xml, or, when load_new fails, the lines of          *)
(* contacts.conf.  load_old collects the lines of a section and hands them *)
(* to their owner when the next section begins (load_old_dispatch).        *)
(*                                                                         *)
(* A line is known by its number in the file.  A file is made up as it is  *)
(* read, so any file of up to MaxLines lines or entries is met.            *)
(***************************************************************************)
EXTENDS Integers, Sequences, FiniteSets

CONSTANTS
    Id,         \* what toInt() makes of the ids in the files
    Client,     \* clients that are loaded; their names have a dot
    Numbered,   \* those whose contacts have a name without a Nick line (ICQ)
    GoneClient, \* names with a dot of clients that are not loaded
    DataName,   \* names of sections without a dot
    StrayId,    \* what the ids of a ParserState may be before resetState
    MaxLines    \* bound on the length of the file

ASSUME ContactFileAssumption ==
    /\ Id \subseteq Int /\ StrayId \subseteq Int /\ StrayId # {}
    /\ Numbered \subseteq Client /\ MaxLines \in Nat
    /\ Client \cap GoneClient = {} /\ Client \cap DataName = {}
    /\ GoneClient \cap DataName = {}

Main == "main"   \* an empty dataname: the section of the header itself
ASSUME MainIsNoName == Main \notin Client \cup GoneClient \cup DataName

SectionName == Client \cup GoneClient \cup DataName
Key == {"name", "nick", "ignored", "shown", "field", "blank"}
Line == [kind : {"contact", "group"}, id : Id]
        \cup [kind : {"section"}, name : SectionName]
        \cup [kind : {"line"}, key : Key]

VARIABLES
    phase,     \* where load() is
    entries,   \* groups and contacts read from contacts.xml
    lines,     \* lines read from contacts.conf
    state,     \* ParserState
    contacts,  \* m_contacts
    groups     \* m_groups

vars == <<phase, entries, lines, state, contacts, groups>>

\* main: lines a contact was given for itself; im: its IM contacts; data:
\* lines in its user data.  name is 0, the line that set it, or -k for the
\* name of the k-th IM contact.
NewContact == [main |-> {}, name |-> 0, ignore |-> FALSE,
               im |-> <<>>, data |-> {}]
NewGroup == [im |-> <<>>, data |-> {}]

\* addContact(), addGroup(): refused when the id is taken.
AddTo(list, id, new) ==
    IF id \in DOMAIN list THEN list
    ELSE [i \in DOMAIN list \cup {id} |-> IF i = id THEN new ELSE list[i]]

Init ==
    /\ phase = "start" /\ entries = <<>> /\ lines = <<>>
    /\ \E c, g \in StrayId :
           state = [contactId |-> c, groupId |-> g, dataname |-> Main, data |-> {}]
    /\ contacts = <<>> /\ groups = <<>>

-----------------------------------------------------------------------------
(* load_new *)

\* No file, or no <userdata> in it: UserData::deserialize returns false.
LoadNewFails ==
    /\ phase = "start"
    /\ phase' = "old"
    /\ UNCHANGED <<entries, lines, state, contacts, groups>>

\* A <propertyhub> in it: m_userData, which nothing ever sets, is followed.
LoadNewDies ==
    /\ phase = "start"
    /\ phase' = "died"
    /\ UNCHANGED <<entries, lines, state, contacts, groups>>

LoadNewBegins ==
    /\ phase = "start"
    /\ phase' = "new"
    /\ UNCHANGED <<entries, lines, state, contacts, groups>>

\* The groups come first.
LoadGroup ==
    /\ phase = "new" /\ Len(entries) < MaxLines
    /\ \A n \in DOMAIN entries : entries[n].kind = "group"
    /\ \E id \in Id :
        /\ entries' = Append(entries, [kind |-> "group", id |-> id])
        /\ groups' = AddTo(groups, id, NewGroup)
    /\ UNCHANGED <<phase, lines, state, contacts>>

LoadContactStrict ==     \* mutant: a main part that cannot be read is an error
    /\ phase = "new" /\ Len(entries) < MaxLines
    /\ \E id \in Id, readable \in BOOLEAN :
        /\ entries' = Append(entries, [kind |-> "contact", id |-> id])
        /\ contacts' = AddTo(contacts, id, NewContact)
        /\ phase' = IF readable THEN phase ELSE "old"
    /\ UNCHANGED <<lines, state, groups>>

\* Contact::deserialize never fails, and the IM contacts it makes of the
\* entry's clientdata are added nowhere.
LoadContact ==
    /\ phase = "new" /\ Len(entries) < MaxLines
    /\ \E id \in Id, ignore \in BOOLEAN :
        /\ entries' = Append(entries, [kind |-> "contact", id |-> id])
        /\ contacts' = AddTo(contacts, id, [NewContact EXCEPT !.ignore = ignore])
    /\ UNCHANGED <<phase, lines, state, groups>>

LoadNewEnds ==
    /\ phase = "new"
    /\ phase' = "loaded"
    /\ UNCHANGED <<entries, lines, state, contacts, groups>>

-----------------------------------------------------------------------------
(* load_old *)

Opened ==
    /\ phase = "old"
    /\ phase' \in {"reading", "failed"}
    /\ UNCHANGED <<entries, lines, state, contacts, groups>>

KeyOf(n) == lines[n].key
Last(S) == CHOOSE n \in S : \A m \in S : m <= n

\* Contact::deserialize(data).
Deserialized(c, data) ==
    LET named == {n \in data : KeyOf(n) = "name"}
        flagged == {n \in data : KeyOf(n) \in {"ignored", "shown"}}
    IN  [c EXCEPT !.main = @ \cup data,
                  !.name = IF named = {} THEN @ ELSE Last(named),
                  !.ignore = IF flagged = {} THEN @
                             ELSE KeyOf(Last(flagged)) = "ignored"]

\* ICQContact::deserialize and JabberContact::deserialize stop at the first
\* empty line.
ReadByClientWhole(data) == {n \in data : KeyOf(n) # "blank"}   \* mutant
ReadByClient(data) ==
    {n \in data : \A m \in data : KeyOf(m) = "blank" => n < m}

\* Does the IM contact made of data have a name?
HasName(client, data) ==
    client \in Numbered \/ \E n \in ReadByClient(data) : KeyOf(n) = "nick"

WithClient(c, client, data) ==
    [c EXCEPT !.im = Append(@, [client |-> client, lines |-> ReadByClient(data)])]

\* addClientContact, then setName if the contact has no name.
WithIMContactRenamed(c, client, data) ==     \* mutant
    [WithClient(c, client, data) EXCEPT
        !.name = IF HasName(client, data) THEN -(Len(c.im) + 1) ELSE @]
WithIMContact(c, client, data) ==
    [WithClient(c, client, data) EXCEPT
        !.name = IF @ = 0 /\ HasName(client, data) THEN -(Len(c.im) + 1) ELSE @]

\* deserializeLines.
WithData(owner, name, data) ==
    [owner EXCEPT !.data = @ \cup ({name} \X data)]

\* load_old_dispatch: the contact, or else the group, that the lines in
\* state.data belong to takes them.  An IM group reads none.
GivenContact(c) ==
    CASE state.dataname = Main -> Deserialized(c, state.data)
      [] state.dataname \in Client -> WithIMContact(c, state.dataname, state.data)
      [] state.dataname \in DataName -> WithData(c, state.dataname, state.data)
      [] OTHER -> c
GivenGroup(g) ==
    CASE state.dataname \in Client -> [g EXCEPT !.im = Append(@, state.dataname)]
      [] state.dataname \in DataName -> WithData(g, state.dataname, state.data)
      [] OTHER -> g

DispatchedContacts ==
    IF state.contactId # -1 /\ state.contactId \in DOMAIN contacts
    THEN [contacts EXCEPT ![state.contactId] = GivenContact(@)]
    ELSE contacts
DispatchedGroups ==
    IF state.contactId = -1 /\ state.groupId # -1 /\ state.groupId \in DOMAIN groups
    THEN [groups EXCEPT ![state.groupId] = GivenGroup(@)]
    ELSE groups

\* resetState, and the id of the new header.
HeaderState(c, g) == [contactId |-> c, groupId |-> g, dataname |-> Main, data |-> {}]

Takes(line) ==
    /\ phase = "reading" /\ Len(lines) < MaxLines
    /\ lines' = Append(lines, line)
    /\ UNCHANGED <<phase, entries>>

ReadGroup ==
    \E id \in Id :
        /\ Takes([kind |-> "group", id |-> id])
        /\ contacts' = DispatchedContacts
        /\ groups' = IF id > 0 THEN AddTo(DispatchedGroups, id, NewGroup)
                     ELSE DispatchedGroups
        /\ state' = HeaderState(-1, id)

ReadContactKeepsData ==      \* mutant: the data is not reset
    \E id \in Id :
        /\ Takes([kind |-> "contact", id |-> id])
        /\ groups' = DispatchedGroups
        /\ contacts' = IF id > 0 THEN AddTo(DispatchedContacts, id, NewContact)
                       ELSE DispatchedContacts
        /\ state' = [HeaderState(id, -1) EXCEPT !.data = state.data]

ReadContact ==
    \E id \in Id :
        /\ Takes([kind |-> "contact", id |-> id])
        /\ groups' = DispatchedGroups
        /\ contacts' = IF id > 0 THEN AddTo(DispatchedContacts, id, NewContact)
                       ELSE DispatchedContacts
        /\ state' = HeaderState(id, -1)

\* Any other section: the data collected so far stays in state.
ReadSection ==
    \E name \in SectionName :
        /\ Takes([kind |-> "section", name |-> name])
        /\ contacts' = DispatchedContacts /\ groups' = DispatchedGroups
        /\ state' = [state EXCEPT !.dataname = name]

ReadLine ==
    \E key \in Key :
        /\ Takes([kind |-> "line", key |-> key])
        /\ state' = [state EXCEPT !.data = @ \cup {Len(lines) + 1}]
        /\ UNCHANGED <<contacts, groups>>

\* The last section is not dispatched.
LoadOldEnds ==
    /\ phase = "reading"
    /\ phase' = "loaded"
    /\ UNCHANGED <<entries, lines, state, contacts, groups>>

Next == \/ LoadNewFails \/ LoadNewDies \/ LoadNewBegins \/ LoadGroup
        \/ LoadContact \/ LoadNewEnds \/ Opened \/ ReadGroup \/ ReadContact
        \/ ReadSection \/ ReadLine \/ LoadOldEnds

Spec == Init /\ [][Next]_vars

-----------------------------------------------------------------------------
(* Properties *)

GroupRec == [im : Seq(Client), data : SUBSET (DataName \X (1 .. MaxLines))]
ContactRec == [main : SUBSET (1 .. MaxLines), name : Int, ignore : BOOLEAN,
               im : Seq([client : Client, lines : SUBSET (1 .. MaxLines)]),
               data : SUBSET (DataName \X (1 .. MaxLines))]

\* Every variable has its type, and once a header was read the parser is in
\* a contact or in a group, not in both (resetState).
TypeOK ==
    /\ phase \in {"start", "new", "old", "reading", "loaded", "failed", "died"}
    /\ entries \in Seq([kind : {"contact", "group"}, id : Id])
    /\ lines \in Seq(Line) /\ Len(lines) <= MaxLines
    /\ state \in [contactId : Int, groupId : Int,
                  dataname : SectionName \cup {Main}, data : SUBSET DOMAIN lines]
    /\ DOMAIN contacts \subseteq Id /\ contacts \in [DOMAIN contacts -> ContactRec]
    /\ DOMAIN groups \subseteq Id /\ groups \in [DOMAIN groups -> GroupRec]
    /\ (\E n \in DOMAIN lines : lines[n].kind \in {"contact", "group"})
         => state.contactId = -1 \/ state.groupId = -1

Header(n, kind, id) == lines[n] = [kind |-> kind, id |-> id]

\* Once contacts.conf is read, the contacts and groups are those of its headers
\* with a positive id: none that load_new read before it gave up (load() falls
\* back on any failure and clears nothing), and none of an unset ParserState.
ContactsOfFile ==
    lines # <<>> =>
        /\ DOMAIN contacts =
             {id \in Id : id > 0 /\ \E n \in DOMAIN lines : Header(n, "contact", id)}
        /\ DOMAIN groups =
             {id \in Id : id > 0 /\ \E n \in DOMAIN lines : Header(n, "group", id)}

\* Lines a .. b are lines of data, no header or section among them.
OnlyData(a, b) == \A n \in a .. b : lines[n].kind = "line"
\* A later section begins: the one line n stands in was dispatched.
Ended(n) == \E e \in n + 1 .. Len(lines) : lines[e].kind # "line"

MainLines(id) ==
    {n \in DOMAIN lines :
        /\ Ended(n)
        /\ \E h \in 1 .. n - 1 : Header(h, "contact", id) /\ OnlyData(h + 1, n)}

\* A contact is given for itself the lines between its headers and the
\* section that follows, all of them and no other's, unless nothing follows:
\* the last section of the file is lost (load_old_dispatch runs when the
\* next one begins).
MainReadBack ==
    lines # <<>> => \A id \in DOMAIN contacts : contacts[id].main = MainLines(id)

\* No other contact or group begins on lines a .. b.
NoHeader(a, b) == \A n \in a .. b : lines[n].kind \in {"section", "line"}

\* What the client of the section opened on line s reads for contact id: the
\* lines of the contact so far, not only the section's own, up to the first
\* blank one.
SectionLines(h, s) ==
    LET e == CHOOSE m \in s + 1 .. Len(lines) :
                 lines[m].kind # "line" /\ OnlyData(s + 1, m - 1)
    IN  {n \in h .. e : /\ lines[n].kind = "line"
                        /\ \A m \in h .. n : lines[m].kind = "line"
                                               => KeyOf(m) # "blank"}
ClientSections(id) ==
    {hs \in (DOMAIN lines) \X (DOMAIN lines) :
        /\ Header(hs[1], "contact", id) /\ hs[1] < hs[2]
        /\ NoHeader(hs[1] + 1, hs[2])
        /\ lines[hs[2]].kind = "section" /\ lines[hs[2]].name \in Client
        /\ Ended(hs[2])}

\* Each section of a loaded client gives its contact one IM contact, made of
\* that contact's own lines and of nobody else's.
IMReadBack ==
    lines # <<>> => \A id \in DOMAIN contacts :
        /\ Len(contacts[id].im) = Cardinality(ClientSections(id))
        /\ \A hs \in ClientSections(id) : \E k \in DOMAIN contacts[id].im :
               contacts[id].im[k] = [client |-> lines[hs[2]].name,
                                     lines |-> SectionLines(hs[1], hs[2])]

\* A contact goes by the last Name line of its own; an IM contact names it
\* only if there is none, and then the first one that has a name
\* (setName only when name() is empty); Ignore follows its last line too.
LastWord ==
    lines # <<>> => \A id \in DOMAIN contacts :
        LET c == contacts[id]
            named == {n \in c.main : KeyOf(n) = "name"}
            flagged == {n \in c.main : KeyOf(n) \in {"ignored", "shown"}}
            naming == {k \in DOMAIN c.im :
                          \/ c.im[k].client \in Numbered
                          \/ \E n \in c.im[k].lines : KeyOf(n) = "nick"}
        IN  /\ IF named # {} THEN c.name \in named /\ \A n \in named : n <= c.name
               ELSE IF naming # {}
               THEN -c.name \in naming /\ \A k \in naming : -c.name <= k
               ELSE c.name = 0
            /\ c.ignore <=> \E n \in flagged :
                   KeyOf(n) = "ignored" /\ \A m \in flagged : m <= n

=============================================================================
