---------------------------- MODULE OscarSession ----------------------------
(***************************************************************************)
(* A session: the sign-on of OscarLogin and the contact lists of Roster,   *)
(* with list packets and online notices travelling through the connections *)
(* of the first into the lists of the second.                              *)
(*                                                                         *)
(* A list packet is read an item at a time, inside one slot: the server    *)
(* goes on meanwhile, the client's event loop does not.  The lists outlive *)
(* a connection, and the server's own list may change between two.         *)
(***************************************************************************)
EXTENDS Naturals, Sequences, FiniteSets

CONSTANTS
    Account,        \* settings of the account, see OscarLogin's config
    LoginHost, BosHost, RateClass, MaxAttempts, MaxListPackets,
    ItemId, GroupId, Screen, AimScreen, Items, Profiles, StrayIds,
    MaxPacket, MaxPackets,
    List            \* what a list packet may hold: sequences of items

VARIABLES
    config, sock, host, cookie, rateInfo, rights, blinking, toClient, out, read,
    attempts, conn, issued, cookieHost, shown,
    contacts, icq, groups, packet, rest, stage, packets, told,
    sent,    \* external: contacts in the list the server sent last
    lost     \* history: of those, the ones in a packet parseContactList gave up,
             \* from the item it could not read on

session == <<config, sock, host, cookie, rateInfo, rights, blinking, toClient,
             out, read, attempts, conn, issued, cookieHost, shown>>
roster == <<contacts, icq, groups, packet, rest, stage, packets, told>>
vars == <<session, roster, sent, lost>>

ContactsIn(list) == {e \in {list[i] : i \in DOMAIN list} : e.kind = "contact"}

\* A list packet that parseContactList reads to its end.
Readable == {list \in List :
                /\ \A i \in DOMAIN list : list[i].kind # "short"
                /\ \A e \in ContactsIn(list) : e.screen \notin AimScreen}

\* An item with an AIM name has it from the start: it is always a new one.
ASSUME SessionAssumption ==
    /\ \A list \in List : list \in Seq(Items) /\ Len(list) <= MaxPacket
    /\ \A l, m \in List : \A e \in ContactsIn(l), f \in ContactsIn(m) :
           e.id = f.id => (e.screen \in AimScreen <=> f.screen \in AimScreen)
    /\ MaxPackets >= MaxAttempts * MaxListPackets

L == INSTANCE OscarLogin WITH Buddy <- Screen
R == INSTANCE Roster

ASSUME ComponentsAssumption ==
    L!OscarLoginAssumption /\ R!RosterAssumption /\ R!ProfileAssumption

Init == L!Init /\ config \in Account /\ R!Init /\ sent = {} /\ lost = {}

-----------------------------------------------------------------------------
EventLoop == stage # "parsing"

Environment ==
    /\ EventLoop
    /\ L!ChangeStatus \/ L!TcpConnected \/ L!TcpLost
    /\ UNCHANGED <<roster, sent, lost>>

ServerSendsList ==
    /\ L!ServerSendsList
    /\ sent' = UNION {ContactsIn(toClient'[i].list) :
                        i \in {j \in DOMAIN toClient' :
                                 toClient'[j].type = "ContactList"}}
    /\ lost' = {}
    /\ UNCHANGED roster

\* The server tells of buddies on the list it has sent.
ServerTellsOnline ==
    /\ L!ServerTellsOnline
    /\ \A i \in DOMAIN toClient' : toClient'[i].type = "UserOnline" =>
           \E e \in sent : e.screen = toClient'[i].buddy
    /\ UNCHANGED <<roster, sent, lost>>

ServerOther ==
    /\ \/ L!ServerRedirects \/ L!ServerRejects \/ L!ServerSendsKey
       \/ L!ServerAcceptsCookie \/ L!ServerSendsRates \/ L!ServerAnswers
       \/ L!ServerSilent
    /\ UNCHANGED <<roster, sent, lost>>

Server == ServerSendsList \/ ServerTellsOnline \/ ServerOther

-----------------------------------------------------------------------------
(* SsiSnacHandler::parseContactList *)

StartList ==
    /\ L!Gets({"ContactList"})
    /\ packet' = Head(toClient).list
    /\ R!ListArrives
    /\ UNCHANGED <<session, sent, lost>>

ReadItem ==
    /\ R!KnownContact \/ R!NewContact \/ R!GroupEntry \/ R!OtherEntry
    /\ UNCHANGED <<session, sent, lost>>

\* The packet is done with: activate() is called behind the loop, which two
\* kinds of items make parseContactList leave.
TakeList ==
    /\ toClient' = Tail(toClient)
    /\ lost' = lost \cup ContactsIn(rest)
    /\ UNCHANGED <<config, sock, host, cookie, rateInfo, rights, blinking, read,
                   attempts, conn, issued, cookieHost, shown, sent>>

EndListActivates ==          \* mutant: it is left with break, not return
    /\ R!ListUpdated \/ R!BadContact \/ R!ShortEntry
    /\ out' = Append(out, L!Plain("Activate"))
    /\ TakeList
EndList ==
    /\ \/ R!ListUpdated /\ out' = Append(out, L!Plain("Activate"))
       \/ (R!BadContact \/ R!ShortEntry) /\ UNCHANGED out
    /\ TakeList

\* BuddySnacHandler::processUserOnline: a name that is not found is passed over.
UserOnline ==
    /\ EventLoop /\ L!HandleUserOnline
    /\ \/ R!processUserOnline /\ icq[told'.item].screen = Head(toClient).buddy
       \/ /\ \A k \in DOMAIN icq : icq[k].screen # Head(toClient).buddy
          /\ UNCHANGED roster
    /\ UNCHANGED <<sent, lost>>

OtherPacket ==
    /\ EventLoop
    /\ \/ L!HandleNewWithCookie \/ L!HandleNewSignOn \/ L!HandleNewMd5
       \/ L!HandleAuthKeyResponse \/ L!HandleLoginRedirect
       \/ L!HandleServerReady \/ L!HandleCapabilitiesAck \/ L!HandleRateInfo
       \/ L!HandleRights \/ L!HandleIcbmParameters \/ L!HandleOther
       \/ L!HandleFin
    /\ UNCHANGED <<roster, sent, lost>>

Client == StartList \/ ReadItem \/ EndList \/ UserOnline \/ OtherPacket

Next == Environment \/ Server \/ Client

\* As in OscarLogin: TCP and the servers answer, the event loop goes on.
Spec == /\ Init /\ [][Next]_vars
        /\ WF_vars(Environment /\ L!TcpConnected)
        /\ WF_vars(Server) /\ WF_vars(Client)

-----------------------------------------------------------------------------
(* Properties *)

\* Every variable has its type, and a list is only read while its packet is
\* the first on the wire.
TypeOK ==
    /\ L!TypeOK /\ R!TypeOK
    /\ sent \subseteq R!ContactItem /\ lost \subseteq R!ContactItem
    /\ stage = "parsing" =>
           L!Gets({"ContactList"}) /\ packet = Head(toClient).list

\* A list read item by item while the server goes on looks to the sign-on like
\* one packet handled at once: it is activated exactly if all of it can be read,
\* though the reading also depends on the items met in earlier lists.
ImplementsLogin == L!Init /\ [][L!Next]_session

\* An online notice comes after the list it belongs to and finds its buddy in
\* it, over lost connections and lists sent again, unless the buddy stood
\* behind an item that could not be read or had another name when its item was
\* first listed.
NoticeFindsBuddy ==
    L!Gets({"UserOnline"}) /\ EventLoop =>
        LET buddy == Head(toClient).buddy IN
        \/ \E k \in DOMAIN icq : icq[k].screen = buddy
        \/ \E e \in sent :
              /\ e.screen = buddy
              /\ e \in lost \/ (e.id \in DOMAIN icq /\ icq[e.id].screen # buddy)

\* The user sees a contact for the item, or an ignored one has its id.
InRoster(k) == /\ k \in DOMAIN icq
               /\ R!HiddenByIgnored(k)
                  \/ (R!Linked(k) /\ icq[k].metaContact \in R!contactIds)

Listed == /\ EventLoop /\ L!ListRead
          /\ \A e \in sent \ lost : InRoster(e.id)

\* Every sign-on with a UIN ends with the connection gone, or with every contact
\* of the server's list in the roster but those in a packet given up.
SignOnListsAll ==
    (sock = "connecting" /\ config.uin) ~> (sock = "unconnected" \/ Listed)
=============================================================================
