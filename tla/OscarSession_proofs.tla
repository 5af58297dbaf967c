------------------------- MODULE OscarSession_proofs -------------------------
(***************************************************************************)
(* Proofs about a session: it is a sign-on of OscarLogin and a life of the *)
(* lists of Roster at once, what is proved of each holds of the two        *)
(* together, and an online notice finds its buddy in the lists - for any   *)
(* hosts, lists, profiles and number of sign-ons.                          *)
(*                                                                         *)
(* LP and RP are the components of the session again, L and R, with what   *)
(* was proved of them.  The lists are proved about without a view: theirs  *)
(* is shut here.                                                           *)
(***************************************************************************)
EXTENDS OscarSession, SequenceTheorems, TLAPS

LP == INSTANCE OscarLogin_proofs WITH Buddy <- Screen
RP == INSTANCE Roster_proofs
          WITH Wirings <- {}, wired <- FALSE, valid <- FALSE, cache <- {}, laid <- {}

-----------------------------------------------------------------------------
(* The components under their two names.                                   *)

LEMMA LoginInits == L!Init <=> LP!Init
  BY DEF L!Init, LP!Init, L!NoCookie, LP!NoCookie

LEMMA LoginSteps == L!Next <=> LP!Next
  BY DEF L!Cookie, LP!Cookie, L!NoCookie, LP!NoCookie, L!Password, LP!Password, L!Plain,
         LP!Plain, L!PlainSeq, LP!PlainSeq, L!LoginStep2, LP!LoginStep2, L!Answer,
         LP!Answer, L!Silent, LP!Silent, L!Good, LP!Good, L!net, LP!net, L!link, LP!link, L!login,
         LP!login, L!server, LP!server, L!service, LP!service, L!user, LP!user,
         L!ConnectToHost, LP!ConnectToHost, L!Disconnect, LP!Disconnect, L!TcpConnected,
         LP!TcpConnected, L!TcpLost, LP!TcpLost, L!ChangeStatus, LP!ChangeStatus,
         L!Reads, LP!Reads, L!Reply, LP!Reply, L!ServerRedirects, LP!ServerRedirects,
         L!ServerRejects, LP!ServerRejects, L!ServerSendsKey, LP!ServerSendsKey,
         L!ServerAcceptsCookie, LP!ServerAcceptsCookie, L!ServerSendsRates,
         LP!ServerSendsRates, L!ServerSendsList, LP!ServerSendsList,
         L!ServerTellsOnline, LP!ServerTellsOnline, L!ServerAnswers, LP!ServerAnswers,
         L!ServerSilent, LP!ServerSilent, L!Server, LP!Server, L!Gets, LP!Gets,
         L!Writes, LP!Writes, L!Shows, LP!Shows, L!HandleNewWithCookie,
         LP!HandleNewWithCookie, L!HandleNewSignOn, LP!HandleNewSignOn, L!HandleNewMd5,
         LP!HandleNewMd5, L!HandleAuthKeyResponse, LP!HandleAuthKeyResponse,
         L!HandleLoginRedirect, LP!HandleLoginRedirect, L!HandleServerReady,
         LP!HandleServerReady, L!HandleCapabilitiesAck, LP!HandleCapabilitiesAck,
         L!HandleRateInfo, LP!HandleRateInfo, L!HandleContactList, LP!HandleContactList,
         L!HandleUserOnline, LP!HandleUserOnline, L!HandleRights, LP!HandleRights,
         L!HandleIcbmParameters, LP!HandleIcbmParameters, L!HandleOther, LP!HandleOther,
         L!HandleFin, LP!HandleFin, L!Client, LP!Client, L!Next, LP!Next

LEMMA LoginTypes == L!TypeOK <=> LP!TypeOK
  BY DEF L!TypeOK, LP!TypeOK, L!Cookie, LP!Cookie, L!NoCookie, LP!NoCookie, L!Packet,
         LP!Packet, L!Written, LP!Written, L!Plain, LP!Plain, L!Answer, LP!Answer,
         L!Silent, LP!Silent

LEMMA LoginPromises ==
    /\ L!PasswordOnlyToLoginServer <=> LP!PasswordOnlyToLoginServer
    /\ L!CookieShownOnce <=> LP!CookieShownOnce
    /\ L!ServiceOrder <=> LP!ServiceOrder
  BY DEF L!PasswordOnlyToLoginServer, LP!PasswordOnlyToLoginServer, L!CookieShownOnce,
         LP!CookieShownOnce, L!ServiceOrder, LP!ServiceOrder, L!Password, LP!Password,
         L!WaitsFor, LP!WaitsFor, L!AnswerTo, LP!AnswerTo, L!Answered, LP!Answered,
         L!Heard, LP!Heard, L!Good, LP!Good, L!Wrote, LP!Wrote, L!Cardinality,
         LP!Cardinality

LEMMA ListInits == R!Init <=> RP!Init
  BY DEF R!Init, RP!Init, R!NoItem, RP!NoItem, R!NoEvent, RP!NoEvent

LEMMA ListSteps == R!Next <=> RP!Next
  BY DEF R!Largest, RP!Largest, R!NoItem, RP!NoItem, R!Put, RP!Put, R!SetMax, RP!SetMax,
         R!contactIds, RP!contactIds, R!createContactId, RP!createContactId,
         R!addContact, RP!addContact, R!ListArrives, RP!ListArrives, R!Next1, RP!Next1,
         R!Advance, RP!Advance, R!Abort, RP!Abort, R!KnownContact, RP!KnownContact,
         R!CreateContact, RP!CreateContact, R!NewContact, RP!NewContact, R!BadContact,
         RP!BadContact, R!GroupEntry, RP!GroupEntry, R!OtherEntry, RP!OtherEntry,
         R!ShortEntry, RP!ShortEntry, R!ListUpdated, RP!ListUpdated, R!contactByScreen,
         RP!contactByScreen, R!Linked, RP!Linked, R!metaContactId, RP!metaContactId,
         R!makeStatus, RP!makeStatus, R!processUserOnline, RP!processUserOnline, R!Next,
         RP!Next

LEMMA ListTypes == R!TypeOK <=> RP!TypeOK
  BY DEF R!TypeOK, RP!TypeOK, R!ContactRec, RP!ContactRec, R!ICQContactRec,
         RP!ICQContactRec, R!NoItem, RP!NoItem

LEMMA ListPromises ==
    /\ R!OnlyIgnoredHide <=> RP!OnlyIgnoredHide
    /\ R!OneContactPerItem <=> RP!OneContactPerItem
  BY DEF R!OnlyIgnoredHide, RP!OnlyIgnoredHide, R!OneContactPerItem,
         RP!OneContactPerItem, R!Linked, RP!Linked, R!HiddenByIgnored,
         RP!HiddenByIgnored, R!NoItem, RP!NoItem

\* What the components assume of their constants.
LEMMA Assumed ==
    /\ LP!OscarLoginAssumption
    /\ RP!RosterAssumption /\ RP!ProfileAssumption /\ RP!WiringsAssumption
  BY ComponentsAssumption
     DEF L!OscarLoginAssumption, LP!OscarLoginAssumption, R!RosterAssumption,
         RP!RosterAssumption, R!ProfileAssumption, RP!ProfileAssumption,
         RP!WiringsAssumption, R!ProfileRec, RP!ProfileRec, R!NoItem, RP!NoItem,
         R!Ignored, RP!Ignored, R!Largest, RP!Largest,
         R!ContactItem, RP!ContactItem, R!GroupItem, RP!GroupItem, R!OtherItem,
         RP!OtherItem, R!ShortItem, RP!ShortItem

LEMMA LoginStart == L!Init => LP!OrderInv /\ LP!SecretsInv
  BY Assumed, LoginInits, LP!OrderInit, LP!SecretsInit

LEMMA LoginKeeps ==
    /\ LP!OrderInv /\ [L!Next]_session => LP!OrderInv'
    /\ LP!SecretsInv /\ [L!Next]_session => LP!SecretsInv'
  <1>1. [L!Next]_session => [LP!Next]_(LP!vars)
    BY LoginSteps DEF session, LP!vars, LP!net, LP!link, LP!login, LP!server,
                      LP!service, LP!user
  <1> QED BY <1>1, Assumed, LP!OrderStep, LP!SecretsStep

LEMMA ListStart == R!Init => RP!LinkInv
  BY Assumed, ListInits, RP!LinkInit

LEMMA ListKeeps == RP!LinkInv /\ [R!Next]_roster => RP!LinkInv'
  <1>1. [R!Next]_roster => [RP!Next]_(RP!vars)
    BY ListSteps DEF roster, RP!vars
  <1> QED BY <1>1, Assumed, RP!LinkStep


-----------------------------------------------------------------------------
(* What a session does to the lists is what they do.                       *)

LEMMA StepIsOfLists == [Next]_vars => [R!Next]_roster
  <1> SUFFICES ASSUME [Next]_vars PROVE [R!Next]_roster
    OBVIOUS
  <1>1. CASE Environment
    BY <1>1 DEF Environment
  <1>2. CASE Server
    BY <1>2 DEF Server, ServerSendsList, ServerTellsOnline, ServerOther
  <1>3. CASE Client
    BY <1>3 DEF Client, StartList, ReadItem, EndList, UserOnline, OtherPacket,
                R!Next
  <1>4. CASE UNCHANGED vars
    BY <1>4 DEF vars
  <1> QED BY <1>1, <1>2, <1>3, <1>4 DEF Next

-----------------------------------------------------------------------------
(* What is known of the components.                                        *)

Parts == LP!OrderInv /\ LP!SecretsInv /\ RP!LinkInv

LEMMA PartsInit == Init => Parts
  BY LoginStart, ListStart DEF Init, Parts

-----------------------------------------------------------------------------
(* The wire.                                                               *)

InFlight(t) == {i \in DOMAIN toClient : toClient[i].type = t}

\* The server has read the request for its list, and sent it.
ListSent == \E i \in DOMAIN out : out[i].type = "SsiListRequest" /\ i <= read

WireTyped == /\ toClient \in Seq(LP!Packet) /\ out \in Seq(LP!Written)
             /\ read \in 0 .. Len(out)

\* What the order of the services says of the list.
LEMMA WireFacts ==
    ASSUME Parts
    PROVE  /\ WireTyped
           /\ sock = "connecting" => toClient = <<>> /\ out = <<>>
           /\ \A i, j \in DOMAIN out :
                  out[i].type = "SsiListRequest" /\ out[j].type = "SsiListRequest"
                      => i = j
           /\ \A j \in DOMAIN out : out[j].type = "Activate" => ListSent
  <1>1. WireTyped
    BY DEF Parts, LP!OrderInv, LP!TypeOK, WireTyped
  <1>2. sock = "connecting" => toClient = <<>> /\ out = <<>>
    BY DEF Parts, LP!OrderInv, LP!Greeted
  <1>3. LP!AtMostOne(LP!Wrote("SsiListRequest"))
    <2>1. "SsiListRequest" \in DOMAIN LP!WaitsFor
      BY DEF LP!WaitsFor
    <2> QED BY <2>1 DEF Parts, LP!OrderInv, LP!AskedOnce
  <1>4. LP!Wrote("Activate") # {} => LP!Answered("SsiListRequest")
    BY DEF Parts, LP!OrderInv, LP!ActivatedLast
  <1>5. LP!Answered("SsiListRequest") => ListSent
    BY DEF LP!Answered, LP!Wrote, ListSent
  <1> QED BY <1>1, <1>2, <1>3, <1>4, <1>5 DEF LP!AtMostOne, LP!Wrote

\* A list packet holds items, and its contacts are contacts.
LEMMA PacketFields ==
    ASSUME NEW p \in LP!Packet, p.type = "ContactList"
    PROVE  p.list \in List /\ p.list \in Seq(Items)
  <1>1. p.list \in List
    BY DEF LP!Packet, LP!Answer
  <1> QED BY <1>1, SessionAssumption

LEMMA ContactsAreItems ==
    ASSUME NEW list \in Seq(Items)
    PROVE  ContactsIn(list) \subseteq R!ContactItem
  <1>1. \A e \in Items : e.kind = "contact" => e \in R!ContactItem
    BY ComponentsAssumption DEF R!RosterAssumption, R!ContactItem, R!GroupItem,
                                R!OtherItem, R!ShortItem
  <1> QED BY <1>1 DEF ContactsIn

\* A queue that grows at its end, and one that loses its head.
LEMMA Grown ==
    ASSUME NEW S, NEW w \in Seq(S), NEW ps \in Seq(S)
    PROVE  /\ w \o ps \in Seq(S)
           /\ \A i \in DOMAIN w : i \in DOMAIN (w \o ps) /\ (w \o ps)[i] = w[i]
           /\ \A i \in DOMAIN (w \o ps) :
                  i \notin DOMAIN w =>
                      /\ \A k \in DOMAIN w : k < i
                      /\ \E j \in DOMAIN ps : (w \o ps)[i] = ps[j]
           /\ w # <<>> => w \o ps # <<>> /\ Head(w \o ps) = Head(w)
  <1>1. /\ w \o ps \in Seq(S) /\ Len(w \o ps) = Len(w) + Len(ps)
        /\ \A i \in 1 .. Len(w) + Len(ps) :
               (w \o ps)[i] = IF i <= Len(w) THEN w[i] ELSE ps[i - Len(w)]
    OBVIOUS
  <1>2. /\ DOMAIN w = 1 .. Len(w) /\ DOMAIN ps = 1 .. Len(ps)
        /\ DOMAIN (w \o ps) = 1 .. Len(w) + Len(ps)
        /\ Len(w) \in Nat /\ Len(ps) \in Nat
    BY <1>1
  <1>3. \A i \in DOMAIN w : i \in DOMAIN (w \o ps) /\ (w \o ps)[i] = w[i]
    BY <1>1, <1>2
  <1>4. ASSUME NEW i \in DOMAIN (w \o ps), i \notin DOMAIN w
        PROVE  /\ \A k \in DOMAIN w : k < i
               /\ \E j \in DOMAIN ps : (w \o ps)[i] = ps[j]
    <2>1. i - Len(w) \in DOMAIN ps /\ (w \o ps)[i] = ps[i - Len(w)] /\ i > Len(w)
      BY <1>1, <1>2, <1>4
    <2> QED BY <2>1, <1>2
  <1>5. w # <<>> => w \o ps # <<>> /\ Head(w \o ps) = Head(w)
    <2> SUFFICES ASSUME w # <<>> PROVE w \o ps # <<>> /\ Head(w \o ps) = Head(w)
      OBVIOUS
    <2>1. 1 \in DOMAIN w /\ Head(w) = w[1]
      BY <1>2
    <2>2. Len(w \o ps) # 0
      BY <1>1, <1>2, <2>1
    <2> QED BY <1>1, <1>3, <2>1, <2>2
  <1> QED BY <1>1, <1>3, <1>4, <1>5

LEMMA Shrunk ==
    ASSUME NEW S, NEW w \in Seq(S), w # <<>>
    PROVE  /\ Tail(w) \in Seq(S)
           /\ 1 \in DOMAIN w /\ Head(w) = w[1]
           /\ \A i \in DOMAIN Tail(w) : i + 1 \in DOMAIN w /\ Tail(w)[i] = w[i + 1]
           /\ \A i \in DOMAIN w \ {1} : /\ i - 1 \in DOMAIN Tail(w)
                                        /\ Tail(w)[i - 1] = w[i]
  <1>1. /\ Tail(w) \in Seq(S) /\ Len(Tail(w)) = Len(w) - 1 /\ Len(w) \in Nat
        /\ \A i \in 1 .. Len(w) - 1 : Tail(w)[i] = w[i + 1]
        /\ Len(w) # 0
    OBVIOUS
  <1>2. DOMAIN w = 1 .. Len(w) /\ DOMAIN Tail(w) = 1 .. Len(w) - 1
    BY <1>1
  <1>3. 1 \in DOMAIN w /\ Head(w) = w[1]
    BY <1>1, <1>2
  <1>4. \A i \in DOMAIN w \ {1} : i - 1 \in DOMAIN Tail(w) /\ Tail(w)[i - 1] = w[i]
    BY <1>1, <1>2
  <1> QED BY <1>1, <1>2, <1>3, <1>4

-----------------------------------------------------------------------------
(* What a step does to the wire.                                           *)

\* The server reads a request and answers with neither a list nor a notice.
QuietReply ==
    /\ read < Len(out) /\ read' = read + 1 /\ out' = out
    /\ out[read + 1].type # "SsiListRequest"
    /\ \E ps \in Seq(LP!Packet) :
          /\ toClient' = toClient \o ps
          /\ \A j \in DOMAIN ps : ps[j].type \notin {"ContactList", "UserOnline"}

\* The client takes the first packet and writes at most some requests.
Taken == /\ toClient # <<>> /\ toClient' = Tail(toClient) /\ read' = read
         /\ \E ws \in Seq(LP!Written) : out' = out \o ws

Cleared == toClient' = <<>> /\ out' = <<>> /\ read' = 0

LEMMA PlainPackets ==
    \A t \in LP!PlainPacket : /\ L!Plain(t) \in LP!Packet /\ L!Plain(t).type = t
                              /\ t \notin {"ContactList", "UserOnline"}
  BY Assumed, LP!PlainIsPacket DEF L!Plain, LP!Plain, LP!PlainPacket

LEMMA QuietByReply ==
    ASSUME NEW types, "SsiListRequest" \notin types, L!Reads(types)
    PROVE  \A ps \in Seq(LP!Packet) :
               /\ L!Reply(ps)
               /\ \A j \in DOMAIN ps : ps[j].type \notin {"ContactList", "UserOnline"}
               => QuietReply
  BY DEF L!Reads, L!Reply, QuietReply

LEMMA OtherIsQuiet ==
    ASSUME Parts, ServerOther
    PROVE  QuietReply
  <1>0. WireTyped
    BY WireFacts
  <1>1. CASE L!ServerRedirects
    <2>1. PICK h \in BosHost :
            L!Reply(<<[type |-> "Redirect", host |-> h, cookie |-> issued + 1],
                      L!Plain("EmptyClose"), L!Plain("Fin")>>)
      BY <1>1 DEF L!ServerRedirects
    <2>2. PICK r : r = [type |-> "Redirect", host |-> h, cookie |-> issued + 1]
      OBVIOUS
    <2>3. r \in LP!Packet /\ r.type = "Redirect"
      <3>1. issued + 1 \in LP!Cookie
        BY DEF Parts, LP!OrderInv, LP!TypeOK, LP!Cookie
      <3> QED BY <2>2, <3>1 DEF LP!Packet
    <2>4. /\ L!Plain("EmptyClose") \in LP!Packet /\ L!Plain("Fin") \in LP!Packet
          /\ L!Plain("EmptyClose").type = "EmptyClose" /\ L!Plain("Fin").type = "Fin"
      BY PlainPackets DEF LP!PlainPacket
    <2>5. L!Reads({"SignOn", "Md5Login"})
      BY <1>1 DEF L!ServerRedirects
    <2>6. PICK ps : ps = <<r, L!Plain("EmptyClose"), L!Plain("Fin")>>
      OBVIOUS
    <2>7. /\ ps \in Seq(LP!Packet) /\ L!Reply(ps)
          /\ \A j \in DOMAIN ps : ps[j].type \notin {"ContactList", "UserOnline"}
      BY <2>1, <2>2, <2>3, <2>4, <2>6
    <2> QED BY <2>5, <2>7, QuietByReply
  <1>2. CASE L!ServerRejects
    <2>1. /\ L!Plain("Error") \in LP!Packet /\ L!Plain("Error").type = "Error"
          /\ L!Plain("EmptyClose") \in LP!Packet /\ L!Plain("Fin") \in LP!Packet
          /\ L!Plain("EmptyClose").type = "EmptyClose" /\ L!Plain("Fin").type = "Fin"
      BY PlainPackets DEF LP!PlainPacket
    <2>2. L!Reads({"SignOn", "Md5Login", "Cookie"})
      BY <1>2 DEF L!ServerRejects
    <2>3. PICK ps : ps = <<L!Plain("Error"), L!Plain("EmptyClose"), L!Plain("Fin")>>
      OBVIOUS
    <2>4. /\ ps \in Seq(LP!Packet) /\ L!Reply(ps)
          /\ \A j \in DOMAIN ps : ps[j].type \notin {"ContactList", "UserOnline"}
      BY <1>2, <2>1, <2>3 DEF L!ServerRejects
    <2> QED BY <2>2, <2>4, QuietByReply
  <1>o. ASSUME NEW r \in LP!Packet, r.type \notin {"ContactList", "UserOnline"},
               NEW types, "SsiListRequest" \notin types, L!Reads(types),
               L!Reply(<<r>>)
        PROVE  QuietReply
    <2>1. PICK ps : ps = <<r>>
      OBVIOUS
    <2>2. /\ ps \in Seq(LP!Packet) /\ L!Reply(ps)
          /\ \A j \in DOMAIN ps : ps[j].type \notin {"ContactList", "UserOnline"}
      BY <1>o, <2>1
    <2> QED BY <1>o, <2>2, QuietByReply
  <1>3. CASE L!ServerSendsKey \/ L!ServerAcceptsCookie
    <2>1. PICK t \in {"KeyResponse", "ServerReady"} : L!Reply(<<L!Plain(t)>>)
      BY <1>3 DEF L!ServerSendsKey, L!ServerAcceptsCookie
    <2>2. L!Plain(t) \in LP!Packet /\ L!Plain(t).type = t
      BY PlainPackets DEF LP!PlainPacket
    <2>3. PICK types \in {{"KeyRequest"}, {"Cookie"}} : L!Reads(types)
      BY <1>3 DEF L!ServerSendsKey, L!ServerAcceptsCookie
    <2> QED BY <1>o, <2>1, <2>2, <2>3
  <1>4. CASE L!ServerSendsRates
    <2>1. PICK classes \in SUBSET RateClass, known \in BOOLEAN :
            L!Reply(<<[type |-> "RateInfo", classes |-> classes,
                       groupsKnown |-> known]>>)
      BY <1>4 DEF L!ServerSendsRates
    <2>2. PICK r : r = [type |-> "RateInfo", classes |-> classes, groupsKnown |-> known]
      OBVIOUS
    <2>3. r \in LP!Packet /\ r.type = "RateInfo"
      BY <2>2 DEF LP!Packet
    <2>4. L!Reads({"RateRequest"})
      BY <1>4 DEF L!ServerSendsRates
    <2> QED BY <1>o, <2>1, <2>2, <2>3, <2>4
  <1>5. CASE L!ServerAnswers
    <2>1. PICK t : t = L!Answer[out[read + 1].type]
      OBVIOUS
    <2>2. t \in LP!PlainPacket
      BY <1>5, <2>1, Assumed, LP!AnswerKinds
         DEF L!ServerAnswers, L!Reads, L!Answer, LP!Answer
    <2>3. /\ L!Plain(t) \in LP!Packet /\ L!Plain(t).type = t
          /\ t \notin {"ContactList", "UserOnline"}
      BY <2>2, PlainPackets
    <2>4. L!Reply(<<L!Plain(t)>>)
      BY <1>5, <2>1 DEF L!ServerAnswers
    <2>5. PICK types : types = DOMAIN L!Answer
      OBVIOUS
    <2>6. L!Reads(types) /\ "SsiListRequest" \notin types
      BY <1>5, <2>5 DEF L!ServerAnswers, L!Answer
    <2> QED BY <1>o, <2>3, <2>4, <2>6
  <1>6. CASE L!ServerSilent
    <2>1. PICK ps : ps = <<>>
      OBVIOUS
    <2>2. /\ ps \in Seq(LP!Packet) /\ L!Reply(ps)
          /\ \A j \in DOMAIN ps : ps[j].type \notin {"ContactList", "UserOnline"}
      BY <1>0, <1>6, <2>1 DEF WireTyped, L!Reply, L!ServerSilent
    <2>3. PICK types : types = L!Silent
      OBVIOUS
    <2>4. L!Reads(types) /\ "SsiListRequest" \notin types
      BY <1>6, <2>3 DEF L!ServerSilent, L!Silent
    <2> QED BY <2>2, <2>4, QuietByReply
  <1> QED BY <1>1, <1>2, <1>3, <1>4, <1>5, <1>6 DEF ServerOther

LEMMA WritesTakes ==
    ASSUME WireTyped, toClient # <<>>, NEW ts \in Seq(LP!PlainWritten), L!Writes(ts)
    PROVE  Taken
  <1>1. LP!PlainSeq(ts) \in Seq(LP!Written)
    BY Assumed, LP!WrittenSeq
  <1>2. L!PlainSeq(ts) = LP!PlainSeq(ts)
    BY DEF L!PlainSeq, LP!PlainSeq, L!Plain, LP!Plain
  <1> QED BY <1>1, <1>2 DEF Taken, L!Writes

FewRequests == {<<>>, <<"SignOn">>, <<"Hello", "KeyRequest">>, <<"Md5Login">>,
                <<"Capabilities">>, <<"RateRequest">>, <<"Activate">>,
                <<"SetUserInfo">>, <<"SetParameters">>}

LEMMA FewAreWritten == FewRequests \subseteq Seq(LP!PlainWritten)
  BY DEF FewRequests, LP!PlainWritten

\* Every handler takes its packet, or begins or ends a connection.
LEMMA HandlerTakes ==
    ASSUME Parts
    PROVE  /\ L!HandleContactList \/ L!HandleUserOnline => Taken
           /\ OtherPacket => Taken \/ Cleared
  <1>0. WireTyped
    BY WireFacts
  <1>f. ASSUME NEW ts \in FewRequests, L!Writes(ts), toClient # <<>>
        PROVE  Taken
    BY <1>0, <1>f, WritesTakes, FewAreWritten
  <1>1. ASSUME L!HandleContactList \/ L!HandleUserOnline PROVE Taken
    <2>1. PICK ts \in FewRequests : L!Writes(ts)
      BY <1>1 DEF L!HandleContactList, L!HandleUserOnline, FewRequests
    <2> QED BY <1>1, <1>f, <2>1 DEF L!HandleContactList, L!HandleUserOnline, L!Gets
  <1>2. CASE L!HandleNewWithCookie
    <2>1. PICK r : r = [type |-> "Cookie", cookie |-> cookie]
      OBVIOUS
    <2>2. r \in LP!Written
      <3>1. cookie \in LP!Cookie
        BY <1>2 DEF Parts, LP!OrderInv, LP!TypeOK, L!HandleNewWithCookie,
                    L!NoCookie, LP!NoCookie
      <3> QED BY <2>1, <3>1 DEF LP!Written
    <2>3. <<r>> \in Seq(LP!Written)
      BY <2>2
    <2>4. out \in Seq(LP!Written) /\ out' = Append(out, r)
      BY <1>0, <1>2, <2>1 DEF L!HandleNewWithCookie, WireTyped
    <2>5. out' = out \o <<r>>
      BY <2>2, <2>4
    <2> QED BY <1>2, <2>3, <2>5 DEF Taken, L!HandleNewWithCookie, L!Gets
  <1>3. CASE \/ L!HandleNewSignOn \/ L!HandleNewMd5 \/ L!HandleAuthKeyResponse
             \/ L!HandleServerReady \/ L!HandleCapabilitiesAck \/ L!HandleRights
             \/ L!HandleIcbmParameters \/ L!HandleOther
    <2>1. toClient # <<>>
      BY <1>3 DEF L!HandleNewSignOn, L!HandleNewMd5, L!HandleAuthKeyResponse,
                  L!HandleServerReady, L!HandleCapabilitiesAck, L!HandleRights,
                  L!HandleIcbmParameters, L!HandleOther, L!Gets
    <2>2. PICK ts \in FewRequests : L!Writes(ts)
      BY <1>3 DEF L!HandleNewSignOn, L!HandleNewMd5, L!HandleAuthKeyResponse,
                  L!HandleServerReady, L!HandleCapabilitiesAck, L!HandleRights,
                  L!HandleIcbmParameters, L!HandleOther, FewRequests
    <2> QED BY <1>f, <2>1, <2>2
  <1>4. CASE L!HandleRateInfo
    <2>1. PICK ack : /\ ack \in {<<"RateAck">>, <<>>}
                     /\ L!Writes(ack \o L!LoginStep2 \o <<"SelfInfoRequest">>)
      BY <1>4 DEF L!HandleRateInfo
    <2>2. /\ ack \in Seq(LP!PlainWritten)
          /\ <<"SelfInfoRequest">> \in Seq(LP!PlainWritten)
      <3>1. "RateAck" \in LP!PlainWritten /\ "SelfInfoRequest" \in LP!PlainWritten
        BY DEF LP!PlainWritten
      <3>2. /\ <<"RateAck">> \in Seq(LP!PlainWritten)
            /\ <<"SelfInfoRequest">> \in Seq(LP!PlainWritten)
        BY <3>1
      <3>3. <<>> \in Seq(LP!PlainWritten)
        OBVIOUS
      <3> QED BY <2>1, <3>2, <3>3
    <2>3. L!LoginStep2 \in Seq(LP!PlainWritten)
      BY DEF LP!PlainWritten, L!LoginStep2
    <2>4. ack \o L!LoginStep2 \o <<"SelfInfoRequest">> \in Seq(LP!PlainWritten)
      BY <2>2, <2>3
    <2> QED BY <1>0, <1>4, <2>1, <2>4, WritesTakes DEF L!HandleRateInfo, L!Gets
  <1>5. CASE L!HandleLoginRedirect \/ L!HandleFin
    BY <1>1, <1>5 DEF L!HandleLoginRedirect, L!HandleFin, L!ConnectToHost,
                      L!Disconnect, Cleared
  <1> QED BY <1>1, <1>2, <1>3, <1>4, <1>5 DEF OtherPacket

\* Lists and notices, in whatever numbers.
LEMMA ListPackets ==
    ASSUME NEW n \in Nat, NEW lists \in [1 .. n -> List]
    PROVE  [i \in 1 .. n |-> [type |-> "ContactList", list |-> lists[i]]]
               \in Seq(LP!Packet)
  <1>1. \A i \in 1 .. n : [type |-> "ContactList", list |-> lists[i]] \in LP!Packet
    BY DEF LP!Packet
  <1> QED BY <1>1

LEMMA NoticePackets ==
    ASSUME NEW n \in Nat, NEW buddies \in [1 .. n -> Screen]
    PROVE  [i \in 1 .. n |-> [type |-> "UserOnline", buddy |-> buddies[i]]]
               \in Seq(LP!Packet)
  <1>1. \A i \in 1 .. n : [type |-> "UserOnline", buddy |-> buddies[i]] \in LP!Packet
    BY DEF LP!Packet
  <1> QED BY <1>1

-----------------------------------------------------------------------------
(* The list and its notices.                                               *)

SentTyped == sent \subseteq R!ContactItem /\ lost \subseteq R!ContactItem

\* The list that is read is the first packet on the wire.
ReadsHead == stage = "parsing" => /\ sock = "connected" /\ toClient # <<>>
                                  /\ Head(toClient).type = "ContactList"
                                  /\ packet = Head(toClient).list

\* Lists and notices come when the list was sent, the notices last, and they
\* are of contacts on it.
AfterRequest == InFlight("ContactList") \cup InFlight("UserOnline") # {} => ListSent
NoticesLast ==
    \A i \in InFlight("ContactList"), j \in InFlight("UserOnline") : i < j
NoticesOfSent ==
    \A i \in InFlight("UserOnline") : \E e \in sent : e.screen = toClient[i].buddy

\* A contact that was sent is in the ICQ list, still on its way or given up; one
\* of the list that is read is in the ICQ list or still to be read.
Waiting(e) == \E i \in InFlight("ContactList") : e \in ContactsIn(toClient[i].list)
SentArrives == ListSent =>
    \A e \in sent : e.id \in DOMAIN icq \/ Waiting(e) \/ e \in lost
Reading == stage = "parsing" =>
               \A e \in ContactsIn(packet) : e.id \in DOMAIN icq \/ e \in ContactsIn(rest)

NoticeInv == /\ SentTyped /\ ReadsHead /\ AfterRequest /\ NoticesLast
             /\ NoticesOfSent /\ SentArrives /\ Reading

LEMMA ItemsStay ==
    ASSUME Parts, [Next]_vars
    PROVE  \A k \in DOMAIN icq : k \in DOMAIN icq'
  <1>1. [RP!Next]_(RP!vars)
    BY StepIsOfLists, ListSteps DEF roster, RP!vars
  <1>2. RP!TypeOK
    BY DEF Parts, RP!LinkInv, RP!IInv
  <1> QED BY <1>1, <1>2, Assumed, RP!ItemsStep

-----------------------------------------------------------------------------
(* How a list packet ends.                                                 *)

IsIn(e, list) == \E i \in DOMAIN list : list[i] = e

\* parseContactList stops at such an item, unless it knows the contact.
Stops(e) == e.kind = "short" \/ (e.kind = "contact" /\ e.screen \in AimScreen)

\* What is left of a packet is of the packet, and no item to stop at is behind.
RestOfPacket ==
    stage = "parsing" =>
        /\ \A e : IsIn(e, rest) => IsIn(e, packet)
        /\ \A e : IsIn(e, packet) /\ Stops(e) => IsIn(e, rest)

\* No item in the ICQ list was ever listed with a name to stop at.
NoAimKnown ==
    \A k \in DOMAIN icq : \E list \in List : \E e \in ContactsIn(list) :
        e.id = k /\ e.screen \notin AimScreen

ReadInv == RestOfPacket /\ NoAimKnown

IInv == Parts /\ NoticeInv /\ ReadInv

\* The packet that is read, and what is left of it.
LEMMA PacketRead ==
    ASSUME Parts, NoticeInv, stage = "parsing"
    PROVE  packet \in List /\ packet \in Seq(Items) /\ rest \in Seq(Items)
  <1>1. WireTyped /\ toClient # <<>>
    BY WireFacts DEF NoticeInv, ReadsHead
  <1>2. Head(toClient) \in LP!Packet
    BY <1>1 DEF WireTyped
  <1>3. packet \in List /\ packet \in Seq(Items)
    BY <1>2, PacketFields DEF NoticeInv, ReadsHead
  <1> QED BY <1>3 DEF Parts, RP!LinkInv, RP!IInv, RP!TypeOK

\* A contact that is known has no name to stop at.
LEMMA KnownIsReadable ==
    ASSUME Parts, NoticeInv, ReadInv, stage = "parsing", rest # <<>>,
           Head(rest).kind = "contact", Head(rest).id \in DOMAIN icq
    PROVE  Head(rest).screen \notin AimScreen
  <1>1. packet \in List /\ rest \in Seq(Items)
    BY PacketRead
  <1>2. IsIn(Head(rest), rest)
    BY <1>1 DEF IsIn
  <1>3. Head(rest) \in ContactsIn(packet)
    BY <1>2 DEF ReadInv, RestOfPacket, IsIn, ContactsIn
  <1>4. PICK list \in List : \E e \in ContactsIn(list) :
          e.id = Head(rest).id /\ e.screen \notin AimScreen
    BY DEF ReadInv, NoAimKnown
  <1> QED BY <1>1, <1>3, <1>4, SessionAssumption

\* A packet that ends is activated if, and only if, nothing in it was to stop at.
LEMMA ListEnds ==
    ASSUME Parts, NoticeInv, ReadInv, EndList
    PROVE  L!HandleContactList
  <1>1. /\ stage = "parsing" /\ TakeList
        /\ \/ rest = <<>> /\ out' = Append(out, L!Plain("Activate"))
           \/ /\ rest # <<>> /\ out' = out
              /\ \/ Head(rest).kind = "short"
                 \/ Head(rest).kind = "contact" /\ Head(rest).screen \in AimScreen
    BY DEF EndList, R!ListUpdated, R!BadContact, R!ShortEntry, R!Next1
  <1>2. packet \in List /\ packet \in Seq(Items) /\ rest \in Seq(Items)
    BY <1>1, PacketRead
  <1>3. /\ L!Gets({"ContactList"}) /\ packet = Head(toClient).list
        /\ out \in Seq(LP!Written)
    BY <1>1, WireFacts DEF NoticeInv, ReadsHead, L!Gets, WireTyped
  <1>4. L!Writes(IF packet \in Readable THEN <<"Activate">> ELSE <<>>)
    <2>1. CASE rest = <<>>
      <3>1. \A e : ~IsIn(e, rest)
        BY <2>1 DEF IsIn
      <3>2. \A e : IsIn(e, packet) => ~Stops(e)
        BY <1>1, <3>1 DEF ReadInv, RestOfPacket
      <3>3. packet \in Readable
        BY <1>2, <3>2 DEF Readable, ContactsIn, IsIn, Stops
      <3>4. out' = out \o L!PlainSeq(<<"Activate">>)
        <4>1. PICK r : r = L!Plain("Activate")
          OBVIOUS
        <4>2. L!PlainSeq(<<"Activate">>) = <<r>>
          BY <4>1 DEF L!PlainSeq
        <4>3. r \in LP!Written
          BY <4>1 DEF L!Plain, LP!Written
        <4>4. out' = Append(out, r)
          BY <1>1, <2>1, <4>1
        <4>5. out' = out \o <<r>>
          BY <1>3, <4>3, <4>4
        <4> QED BY <4>2, <4>5
      <3> QED BY <1>1, <3>3, <3>4 DEF L!Writes, TakeList
    <2>2. CASE rest # <<>>
      <3>1. IsIn(Head(rest), rest) /\ Stops(Head(rest))
        BY <1>1, <1>2, <2>2 DEF IsIn, Stops
      <3>2. IsIn(Head(rest), packet)
        BY <1>1, <3>1 DEF ReadInv, RestOfPacket
      <3>3. packet \notin Readable
        BY <3>1, <3>2 DEF Readable, ContactsIn, IsIn, Stops
      <3>4. out' = out \o L!PlainSeq(<<>>)
        <4>1. L!PlainSeq(<<>>) = <<>>
          BY DEF L!PlainSeq
        <4> QED BY <1>1, <1>3, <2>2, <4>1
      <3> QED BY <1>1, <3>3, <3>4 DEF L!Writes, TakeList
    <2> QED BY <2>1, <2>2
  <1> QED BY <1>1, <1>3, <1>4
          DEF L!HandleContactList, TakeList, L!link, L!login, L!server, L!service,
              L!user

\* An item that is read was none to stop at.
LEMMA ReadsOn ==
    ASSUME Parts, NoticeInv, ReadInv, ReadItem
    PROVE  ReadInv'
  <1>1. /\ stage = "parsing" /\ rest # <<>> /\ rest' = Tail(rest)
        /\ UNCHANGED <<packet, stage>>
    BY DEF ReadItem, R!KnownContact, R!NewContact, R!CreateContact, R!GroupEntry,
           R!OtherEntry, R!Next1, R!Advance
  <1>2. packet \in List /\ rest \in Seq(Items)
    BY <1>1, PacketRead
  <1>3. /\ Head(rest) = rest[1] /\ 1 \in DOMAIN rest
        /\ \A i \in DOMAIN rest' : i + 1 \in DOMAIN rest /\ rest'[i] = rest[i + 1]
        /\ \A i \in DOMAIN rest \ {1} : /\ i - 1 \in DOMAIN rest'
                                        /\ rest'[i - 1] = rest[i]
    BY <1>1, <1>2, Shrunk
  <1>4. /\ \A e : IsIn(e, rest') => IsIn(e, rest)
        /\ \A e : IsIn(e, rest) => e = Head(rest) \/ IsIn(e, rest')
    BY <1>3 DEF IsIn
  <1>5. ~Stops(Head(rest))
    <2>1. CASE Head(rest).kind = "contact" /\ Head(rest).id \in DOMAIN icq
      BY <1>1, <2>1, KnownIsReadable DEF Stops
    <2>2. CASE R!NewContact \/ R!GroupEntry \/ R!OtherEntry
      BY <2>2 DEF R!NewContact, R!GroupEntry, R!OtherEntry, R!Next1, Stops
    <2> QED BY <2>1, <2>2 DEF ReadItem, R!KnownContact, R!Next1
  <1>6. RestOfPacket'
    <2>1. /\ \A e : IsIn(e, rest') => IsIn(e, packet)
          /\ \A e : IsIn(e, packet) /\ Stops(e) => IsIn(e, rest')
      BY <1>1, <1>4, <1>5 DEF ReadInv, RestOfPacket
    <2> QED BY <1>1, <2>1 DEF RestOfPacket, IsIn, Stops
  <1>7. NoAimKnown'
    <2>1. CASE R!NewContact
      <3>1. /\ DOMAIN icq' = DOMAIN icq \cup {Head(rest).id}
            /\ Head(rest).kind = "contact" /\ Head(rest).screen \notin AimScreen
        BY <2>1 DEF R!NewContact, R!CreateContact, R!Put, R!Next1
      <3>2. Head(rest) \in ContactsIn(packet)
        <4>1. IsIn(Head(rest), packet)
          BY <1>1, <1>3 DEF ReadInv, RestOfPacket, IsIn
        <4> QED BY <3>1, <4>1 DEF IsIn, ContactsIn
      <3> QED BY <1>2, <3>1, <3>2 DEF ReadInv, NoAimKnown
    <2>2. CASE R!KnownContact \/ R!GroupEntry \/ R!OtherEntry
      <3>1. DOMAIN icq' = DOMAIN icq
        BY <2>2 DEF R!KnownContact, R!GroupEntry, R!OtherEntry
      <3> QED BY <3>1 DEF ReadInv, NoAimKnown
    <2> QED BY <2>1, <2>2 DEF ReadItem
  <1> QED BY <1>6, <1>7 DEF ReadInv

LEMMA ReadStep ==
    ASSUME Parts, NoticeInv, ReadInv, [Next]_vars
    PROVE  ReadInv'
  <1>q. ASSUME UNCHANGED <<packet, rest, stage>>, DOMAIN icq' = DOMAIN icq
        PROVE  ReadInv'
    BY <1>q DEF ReadInv, RestOfPacket, NoAimKnown, IsIn, Stops
  <1>1. CASE Environment
    BY <1>1, <1>q DEF Environment, roster
  <1>2. CASE Server
    BY <1>2, <1>q DEF Server, ServerSendsList, ServerTellsOnline, ServerOther, roster
  <1>3. CASE StartList
    <2>1. rest' = packet' /\ icq' = icq
      BY <1>3 DEF StartList, R!ListArrives
    <2> QED BY <2>1 DEF ReadInv, RestOfPacket, NoAimKnown, IsIn, Stops
  <1>4. CASE ReadItem
    BY <1>4, ReadsOn
  <1>5. CASE EndList
    <2>1. stage' # "parsing" /\ icq' = icq
      BY <1>5 DEF EndList, R!ListUpdated, R!BadContact, R!ShortEntry, R!Abort
    <2> QED BY <2>1 DEF ReadInv, RestOfPacket, NoAimKnown
  <1>6. CASE UserOnline
    <2>1. CASE R!processUserOnline
      BY <1>q, <2>1 DEF R!processUserOnline
    <2>2. CASE UNCHANGED roster
      BY <1>q, <2>2 DEF roster
    <2> QED BY <1>6, <2>1, <2>2 DEF UserOnline
  <1>7. CASE OtherPacket
    BY <1>7, <1>q DEF OtherPacket, roster
  <1>8. CASE UNCHANGED vars
    BY <1>8, <1>q DEF vars, roster
  <1> QED BY <1>1, <1>2, <1>3, <1>4, <1>5, <1>6, <1>7, <1>8 DEF Next, Client

-----------------------------------------------------------------------------
(* What a step does to the list and its notices.                           *)

\* Of a connection that begins or ends, nothing is in flight.
LEMMA NoticeCleared ==
    ASSUME NoticeInv, UNCHANGED <<roster, sent, lost>>, stage # "parsing",
           ~ListSent', InFlight("ContactList")' = {}, InFlight("UserOnline")' = {}
    PROVE  NoticeInv'
  BY DEF NoticeInv, SentTyped, ReadsHead, AfterRequest, NoticesLast, NoticesOfSent,
         SentArrives, Reading, roster

LEMMA ListSentRead ==
    ASSUME WireTyped, read < Len(out), read' = read + 1, out' = out,
           out[read + 1].type # "SsiListRequest"
    PROVE  ListSent' <=> ListSent
  <1>1. \A i \in DOMAIN out : i \in Nat
    BY DEF WireTyped
  <1>2. \A i \in DOMAIN out : out[i].type = "SsiListRequest" =>
            (i <= read + 1 <=> i <= read)
    BY <1>1 DEF WireTyped
  <1> QED BY <1>2 DEF ListSent

LEMMA ListSentWritten ==
    ASSUME WireTyped, read' = read, NEW ws \in Seq(LP!Written), out' = out \o ws
    PROVE  ListSent' <=> ListSent
  <1>1. /\ \A i \in DOMAIN out : i \in DOMAIN out' /\ out'[i] = out[i]
        /\ \A i \in DOMAIN out' : i <= read => i \in DOMAIN out
    BY DEF WireTyped
  <1> QED BY <1>1 DEF ListSent

\* What the server puts behind the packets in flight.
LEMMA FlightGrows ==
    ASSUME WireTyped, NEW ps \in Seq(LP!Packet), toClient' = toClient \o ps
    PROVE  /\ \A i \in DOMAIN toClient : i \in DOMAIN toClient' /\ toClient'[i] = toClient[i]
           /\ \A i \in DOMAIN toClient' :
                  \/ i \in DOMAIN toClient
                  \/ /\ \A k \in DOMAIN toClient : k < i
                     /\ \E j \in DOMAIN ps : toClient'[i] = ps[j]
           /\ toClient # <<>> => toClient' # <<>> /\ Head(toClient') = Head(toClient)
  <1>1. toClient \in Seq(LP!Packet)
    BY DEF WireTyped
  <1> QED BY <1>1, Grown

LEMMA NoticeQuiet ==
    ASSUME NoticeInv, WireTyped, QuietReply, UNCHANGED <<roster, sent, lost, sock>>
    PROVE  NoticeInv'
  <1>1. PICK ps \in Seq(LP!Packet) :
          /\ toClient' = toClient \o ps
          /\ \A j \in DOMAIN ps : ps[j].type \notin {"ContactList", "UserOnline"}
    BY DEF QuietReply
  <1>2. ListSent' <=> ListSent
    BY ListSentRead DEF QuietReply
  <1>3. /\ InFlight("ContactList")' = InFlight("ContactList")
        /\ InFlight("UserOnline")' = InFlight("UserOnline")
        /\ \A i \in DOMAIN toClient : toClient'[i] = toClient[i]
        /\ toClient # <<>> => toClient' # <<>> /\ Head(toClient') = Head(toClient)
    BY <1>1, FlightGrows DEF InFlight
  <1>4. \A e : Waiting(e)' <=> Waiting(e)
    BY <1>3 DEF Waiting, InFlight
  <1>5. NoticesOfSent'
    BY <1>3 DEF NoticeInv, NoticesOfSent, InFlight
  <1>6. SentArrives'
    BY <1>2, <1>4 DEF NoticeInv, SentArrives, roster
  <1> QED BY <1>2, <1>3, <1>5, <1>6
          DEF NoticeInv, SentTyped, ReadsHead, AfterRequest, NoticesLast, Reading, roster

\* The list comes once a connection: nothing of an earlier one is in flight.
LEMMA NoticeSendsList ==
    ASSUME Parts, NoticeInv, ServerSendsList
    PROVE  NoticeInv'
  <1>0. WireTyped
    BY WireFacts
  <1>1. /\ read < Len(out) /\ read' = read + 1 /\ out' = out
        /\ out[read + 1].type = "SsiListRequest"
    BY DEF ServerSendsList, L!ServerSendsList, L!Reads, L!Reply
  <1>2. read + 1 \in DOMAIN out /\ read \in Nat
    BY <1>0, <1>1 DEF WireTyped
  <1>3. ~ListSent /\ ListSent'
    <2>1. \A i \in DOMAIN out : out[i].type = "SsiListRequest" => i = read + 1
      BY <1>1, <1>2, WireFacts
    <2> QED BY <1>1, <1>2, <2>1 DEF ListSent
  <1>4. InFlight("ContactList") = {} /\ InFlight("UserOnline") = {}
    BY <1>3 DEF NoticeInv, AfterRequest
  <1>5. stage # "parsing"
    <2>1. toClient # <<>> /\ Head(toClient).type = "ContactList" =>
              1 \in InFlight("ContactList")
      BY <1>0, Shrunk DEF WireTyped, InFlight
    <2> QED BY <1>4, <2>1 DEF NoticeInv, ReadsHead
  <1>6. PICK ps \in Seq(LP!Packet) :
          toClient' = toClient \o ps /\ \A j \in DOMAIN ps : ps[j].type = "ContactList"
    <2>a. PICK n \in 1 .. MaxListPackets :
            \E lists \in [1 .. n -> List] :
              L!Reply([i \in 1 .. n |-> [type |-> "ContactList", list |-> lists[i]]])
      BY DEF ServerSendsList, L!ServerSendsList
    <2>1. PICK lists \in [1 .. n -> List] :
            L!Reply([i \in 1 .. n |-> [type |-> "ContactList", list |-> lists[i]]])
      BY <2>a
    <2>2. n \in Nat
      BY ComponentsAssumption DEF L!OscarLoginAssumption
    <2> DEFINE ps == [i \in 1 .. n |-> [type |-> "ContactList", list |-> lists[i]]]
    <2>3. ps \in Seq(LP!Packet) /\ \A j \in DOMAIN ps : ps[j].type = "ContactList"
      BY <2>2, ListPackets
    <2> QED BY <2>1, <2>3 DEF L!Reply
  <1>7. /\ InFlight("UserOnline")' = {}
        /\ toClient' \in Seq(LP!Packet)
    BY <1>0, <1>4, <1>6, FlightGrows DEF InFlight, WireTyped
  <1>8. sent' = UNION {ContactsIn(toClient'[i].list) : i \in InFlight("ContactList")'}
    BY DEF ServerSendsList, InFlight
  <1>9. SentTyped'
    <2>1. \A i \in InFlight("ContactList")' :
              ContactsIn(toClient'[i].list) \subseteq R!ContactItem
      BY <1>7, PacketFields, ContactsAreItems DEF InFlight
    <2> QED BY <1>8, <2>1 DEF SentTyped, ServerSendsList
  <1>10. SentArrives'
    BY <1>8 DEF SentArrives, Waiting
  <1> QED BY <1>3, <1>5, <1>7, <1>9, <1>10
          DEF NoticeInv, ReadsHead, AfterRequest, NoticesLast, NoticesOfSent, Reading,
              ServerSendsList, roster

\* A notice is of the list that was sent, and goes behind what is left of it.
LEMMA NoticeTellsOnline ==
    ASSUME Parts, NoticeInv, ServerTellsOnline
    PROVE  NoticeInv'
  <1>0. WireTyped
    BY WireFacts
  <1>1. /\ read < Len(out) /\ read' = read + 1 /\ out' = out
        /\ out[read + 1].type = "Activate"
    BY DEF ServerTellsOnline, L!ServerTellsOnline, L!Reads, L!Reply
  <1>2. read + 1 \in DOMAIN out /\ read \in Nat /\ \A i \in DOMAIN out : i \in Nat
    BY <1>0, <1>1 DEF WireTyped
  <1>3. ListSent /\ ListSent'
    <2>1. PICK i \in DOMAIN out : out[i].type = "SsiListRequest" /\ i <= read
      BY <1>1, <1>2, WireFacts DEF ListSent
    <2>2. i <= read + 1
      BY <1>2, <2>1
    <2> QED BY <1>1, <2>1, <2>2 DEF ListSent
  <1>4. PICK ps \in Seq(LP!Packet) :
          toClient' = toClient \o ps /\ \A j \in DOMAIN ps : ps[j].type = "UserOnline"
    <2>a. PICK n \in 0 .. 1 :
            \E buddies \in [1 .. n -> Screen] :
              L!Reply([i \in 1 .. n |-> [type |-> "UserOnline", buddy |-> buddies[i]]])
      BY DEF ServerTellsOnline, L!ServerTellsOnline
    <2>1. PICK buddies \in [1 .. n -> Screen] :
            L!Reply([i \in 1 .. n |-> [type |-> "UserOnline", buddy |-> buddies[i]]])
      BY <2>a
    <2> DEFINE ps == [i \in 1 .. n |-> [type |-> "UserOnline", buddy |-> buddies[i]]]
    <2>2. ps \in Seq(LP!Packet) /\ \A j \in DOMAIN ps : ps[j].type = "UserOnline"
      BY NoticePackets
    <2> QED BY <2>1, <2>2 DEF L!Reply
  <1>5. /\ InFlight("ContactList")' = InFlight("ContactList")
        /\ \A i \in InFlight("UserOnline")' :
               \/ i \in InFlight("UserOnline")
               \/ \A k \in DOMAIN toClient : k < i
        /\ \A i \in DOMAIN toClient : toClient'[i] = toClient[i]
        /\ toClient # <<>> => toClient' # <<>> /\ Head(toClient') = Head(toClient)
    BY <1>0, <1>4, FlightGrows DEF InFlight
  <1>6. \A e : Waiting(e)' <=> Waiting(e)
    BY <1>5 DEF Waiting, InFlight
  <1>7. UNCHANGED <<roster, sent, lost, sock>>
    BY DEF ServerTellsOnline, L!ServerTellsOnline, L!link
  <1>8. NoticesOfSent'
    BY <1>7 DEF ServerTellsOnline, NoticesOfSent, InFlight
  <1>9. NoticesLast'
    BY <1>5 DEF NoticeInv, NoticesLast, InFlight
  <1>10. SentArrives'
    BY <1>3, <1>6, <1>7 DEF NoticeInv, SentArrives, roster
  <1> QED BY <1>3, <1>5, <1>7, <1>8, <1>9, <1>10
          DEF NoticeInv, SentTyped, ReadsHead, AfterRequest, Reading, roster

\* The client is done with the first packet; of a list, it has every contact
\* but those it gave up.
LEMMA NoticeTaken ==
    ASSUME WireTyped, NoticeInv, Taken, stage' # "parsing",
           sent' = sent, lost' \subseteq R!ContactItem, lost \subseteq lost',
           \A k \in DOMAIN icq : k \in DOMAIN icq',
           Head(toClient).type = "ContactList" =>
               \A e \in ContactsIn(Head(toClient).list) :
                   e.id \in DOMAIN icq' \/ e \in lost'
    PROVE  NoticeInv'
  <1>1. toClient # <<>> /\ toClient' = Tail(toClient) /\ toClient \in Seq(LP!Packet)
    BY DEF Taken, WireTyped
  <1>2. ListSent' <=> ListSent
    BY ListSentWritten DEF Taken
  <1>3. /\ 1 \in DOMAIN toClient /\ Head(toClient) = toClient[1]
        /\ \A i \in DOMAIN toClient' : /\ i + 1 \in DOMAIN toClient /\ i \in Nat
                                       /\ toClient'[i] = toClient[i + 1]
        /\ \A i \in DOMAIN toClient \ {1} : /\ i - 1 \in DOMAIN toClient'
                                            /\ toClient'[i - 1] = toClient[i]
    BY <1>1, Shrunk
  <1>4. \A t \in {"ContactList", "UserOnline"} :
            {i + 1 : i \in InFlight(t)'} \subseteq InFlight(t)
    BY <1>3 DEF InFlight
  <1>5. AfterRequest'
    BY <1>2, <1>4 DEF NoticeInv, AfterRequest
  <1>6. NoticesLast'
    <2> SUFFICES ASSUME NEW i \in InFlight("ContactList")', NEW j \in InFlight("UserOnline")'
                 PROVE  i < j
      BY DEF NoticesLast
    <2>1. i + 1 < j + 1
      BY <1>4 DEF NoticeInv, NoticesLast
    <2> QED BY <1>3, <2>1 DEF InFlight
  <1>7. NoticesOfSent'
    BY <1>3, <1>4 DEF NoticeInv, NoticesOfSent, InFlight
  <1>8. SentArrives'
    <2> SUFFICES ASSUME ListSent', NEW e \in sent
                 PROVE  e.id \in DOMAIN icq' \/ Waiting(e)' \/ e \in lost'
      BY DEF SentArrives
    <2>1. e.id \in DOMAIN icq \/ Waiting(e) \/ e \in lost
      BY <1>2 DEF NoticeInv, SentArrives
    <2>2. CASE Waiting(e)
      <3>1. PICK i \in InFlight("ContactList") : e \in ContactsIn(toClient[i].list)
        BY <2>2 DEF Waiting
      <3>2. CASE i = 1
        BY <1>3, <3>1, <3>2 DEF InFlight
      <3>3. CASE i # 1
        BY <1>3, <3>1, <3>3 DEF Waiting, InFlight
      <3> QED BY <3>2, <3>3
    <2> QED BY <2>1, <2>2
  <1> QED BY <1>5, <1>6, <1>7, <1>8 DEF NoticeInv, SentTyped, ReadsHead, Reading

\* What is left of a packet when it ends is given up.
LEMMA NoticeEndList ==
    ASSUME Parts, NoticeInv, ReadInv, EndList
    PROVE  NoticeInv'
  <1>1. WireTyped /\ Taken
    BY WireFacts, HandlerTakes, ListEnds
  <1>2. stage = "parsing" /\ stage' # "parsing" /\ DOMAIN icq' = DOMAIN icq
    BY DEF EndList, R!ListUpdated, R!BadContact, R!ShortEntry, R!Next1, R!Abort
  <1>3. \A e \in ContactsIn(packet) : e.id \in DOMAIN icq \/ e \in ContactsIn(rest)
    BY <1>2 DEF NoticeInv, Reading
  <1>4. packet = Head(toClient).list
    BY <1>2 DEF NoticeInv, ReadsHead
  <1>5. sent' = sent /\ lost' = lost \cup ContactsIn(rest)
    BY DEF EndList, TakeList
  <1>6. lost \subseteq R!ContactItem /\ ContactsIn(rest) \subseteq R!ContactItem
    <2>1. rest \in Seq(Items)
      BY DEF Parts, RP!LinkInv, RP!IInv, RP!TypeOK
    <2> QED BY <2>1, ContactsAreItems DEF NoticeInv, SentTyped
  <1> QED BY <1>1, <1>2, <1>3, <1>4, <1>5, <1>6, NoticeTaken

\* Between two packets, or on to the next item of one.
LEMMA NoticeReads ==
    ASSUME Parts, NoticeInv, [Next]_vars, StartList \/ ReadItem
    PROVE  NoticeInv'
  <1>1. UNCHANGED <<session, sent, lost>>
    BY DEF StartList, ReadItem
  <1>2. /\ ListSent' <=> ListSent
        /\ InFlight("ContactList")' = InFlight("ContactList")
        /\ InFlight("UserOnline")' = InFlight("UserOnline")
    BY <1>1 DEF session, ListSent, InFlight
  <1>3. \A k \in DOMAIN icq : k \in DOMAIN icq'
    BY ItemsStay
  <1>4. /\ AfterRequest' /\ NoticesLast' /\ NoticesOfSent' /\ SentTyped'
        /\ \A e : Waiting(e)' <=> Waiting(e)
    BY <1>1, <1>2 DEF NoticeInv, AfterRequest, NoticesLast, NoticesOfSent, SentTyped,
                      Waiting, session
  <1>5. SentArrives'
    BY <1>1, <1>2, <1>3, <1>4 DEF NoticeInv, SentArrives
  <1>6. CASE StartList
    <2>1. ReadsHead' /\ Reading'
      BY <1>1, <1>6 DEF StartList, R!ListArrives, L!Gets, ReadsHead, Reading, session
    <2> QED BY <1>4, <1>5, <2>1 DEF NoticeInv
  <1>7. CASE ReadItem
    <2>1. /\ stage = "parsing" /\ rest # <<>> /\ rest \in Seq(Items)
          /\ rest' = Tail(rest) /\ UNCHANGED <<packet, stage>>
      <3>1. rest \in Seq(Items)
        BY DEF Parts, RP!LinkInv, RP!IInv, RP!TypeOK
      <3> QED BY <1>7, <3>1 DEF ReadItem, R!KnownContact, R!NewContact, R!CreateContact,
                                R!GroupEntry, R!OtherEntry, R!Next1, R!Advance
    <2>2. Head(rest).kind = "contact" => Head(rest).id \in DOMAIN icq'
      BY <1>7 DEF ReadItem, R!KnownContact, R!NewContact, R!CreateContact, R!Put,
                  R!GroupEntry, R!OtherEntry, R!Next1
    <2>3. \A e \in ContactsIn(rest) : e = Head(rest) \/ e \in ContactsIn(rest')
      <3>1. /\ Head(rest) = rest[1]
            /\ \A i \in DOMAIN rest \ {1} : /\ i - 1 \in DOMAIN rest'
                                            /\ rest'[i - 1] = rest[i]
        BY <2>1, Shrunk
      <3>2. \A i \in DOMAIN rest \ {1} : \E j \in DOMAIN rest' : rest'[j] = rest[i]
        BY <3>1
      <3> QED BY <3>1, <3>2 DEF ContactsIn
    <2>4. \A e \in ContactsIn(rest) : e.kind = "contact"
      BY DEF ContactsIn
    <2>5. Reading'
      BY <1>3, <2>1, <2>2, <2>3, <2>4 DEF NoticeInv, Reading
    <2>6. ReadsHead'
      BY <1>1, <2>1 DEF NoticeInv, ReadsHead, session
    <2> QED BY <1>4, <1>5, <2>5, <2>6 DEF NoticeInv
  <1> QED BY <1>6, <1>7

LEMMA NoticeStep ==
    ASSUME Parts, NoticeInv, ReadInv, [Next]_vars
    PROVE  NoticeInv'
  <1>0. WireTyped
    BY WireFacts
  <1>c. ASSUME Cleared, stage # "parsing", UNCHANGED <<roster, sent, lost>>
        PROVE  NoticeInv'
    BY <1>c, NoticeCleared DEF Cleared, InFlight, ListSent
  <1>1. CASE Environment
    <2>0. stage # "parsing" /\ UNCHANGED <<roster, sent, lost>>
      BY <1>1 DEF Environment, EventLoop
    <2>1. CASE L!TcpConnected
      <3>1. toClient' = <<L!Plain("New")>> /\ out' = <<>> /\ L!Plain("New").type = "New"
        BY <2>1, WireFacts, PlainPackets DEF L!TcpConnected, LP!PlainPacket
      <3>2. InFlight("ContactList")' = {} /\ InFlight("UserOnline")' = {} /\ ~ListSent'
        BY <3>1 DEF InFlight, ListSent
      <3> QED BY <2>0, <3>2, NoticeCleared
    <2>2. CASE L!TcpLost \/ (L!ChangeStatus /\ sock = "unconnected")
      BY <1>c, <2>0, <2>2 DEF L!TcpLost, L!Disconnect, L!ChangeStatus, L!ConnectToHost,
                              Cleared
    <2>3. CASE L!ChangeStatus /\ sock # "unconnected"
      <3>1. UNCHANGED <<toClient, out, read, sock>>
        BY <2>3 DEF L!ChangeStatus, L!net, L!link
      <3> QED BY <2>0, <3>1 DEF NoticeInv, SentTyped, ReadsHead, AfterRequest, NoticesLast,
                 NoticesOfSent, SentArrives, Waiting, Reading, ListSent, InFlight, roster
    <2> QED BY <1>1, <2>1, <2>2, <2>3 DEF Environment
  <1>2. CASE ServerSendsList
    BY <1>2, NoticeSendsList
  <1>3. CASE ServerTellsOnline
    BY <1>3, NoticeTellsOnline
  <1>4. CASE ServerOther
    <2>1. UNCHANGED <<roster, sent, lost, sock>>
      BY <1>4 DEF ServerOther, L!ServerRedirects, L!ServerRejects, L!ServerSendsKey,
                  L!ServerAcceptsCookie, L!ServerSendsRates, L!ServerAnswers,
                  L!ServerSilent, L!link
    <2> QED BY <1>0, <1>4, <2>1, OtherIsQuiet, NoticeQuiet
  <1>5. CASE StartList \/ ReadItem
    BY <1>5, NoticeReads
  <1>6. CASE EndList
    BY <1>6, NoticeEndList
  <1>t. ASSUME Taken, stage # "parsing", stage' = stage, UNCHANGED <<sent, lost>>,
               Head(toClient).type # "ContactList"
        PROVE  NoticeInv'
    <2>1. \A k \in DOMAIN icq : k \in DOMAIN icq'
      BY ItemsStay
    <2>2. lost' \subseteq R!ContactItem /\ lost \subseteq lost'
      BY <1>t DEF NoticeInv, SentTyped
    <2> QED BY <1>0, <1>t, <2>1, <2>2, NoticeTaken
  <1>7. CASE UserOnline
    <2>1. Taken
      BY <1>7, HandlerTakes DEF UserOnline
    <2>2. /\ stage # "parsing" /\ stage' = stage /\ UNCHANGED <<sent, lost>>
          /\ Head(toClient).type # "ContactList"
      BY <1>7 DEF UserOnline, EventLoop, R!processUserOnline, roster,
                  L!HandleUserOnline, L!Gets
    <2> QED BY <1>t, <2>1, <2>2
  <1>8. CASE OtherPacket
    <2>1. stage # "parsing" /\ UNCHANGED <<roster, sent, lost>> /\ stage' = stage
      BY <1>8 DEF OtherPacket, EventLoop, roster
    <2>2. Head(toClient).type # "ContactList"
      BY <1>8 DEF OtherPacket, L!HandleNewWithCookie, L!HandleNewSignOn,
                  L!HandleNewMd5, L!HandleAuthKeyResponse, L!HandleLoginRedirect,
                  L!HandleServerReady, L!HandleCapabilitiesAck, L!HandleRateInfo,
                  L!HandleRights, L!HandleIcbmParameters, L!HandleOther, L!HandleFin,
                  L!Gets
    <2>3. Taken \/ Cleared
      BY <1>8, HandlerTakes
    <2> QED BY <1>c, <1>t, <2>1, <2>2, <2>3
  <1>9. CASE UNCHANGED vars
    BY <1>9 DEF vars, session, roster, NoticeInv, SentTyped, ReadsHead, AfterRequest,
                NoticesLast, NoticesOfSent, SentArrives, Waiting, Reading, ListSent,
                InFlight
  <1> QED BY <1>1, <1>2, <1>3, <1>4, <1>5, <1>6, <1>7, <1>8, <1>9
          DEF Next, Server, Client

LEMMA NoticeInit == Init => NoticeInv
  <1> SUFFICES ASSUME Init PROVE NoticeInv
    OBVIOUS
  <1>1. toClient = <<>> /\ out = <<>> /\ sent = {} /\ lost = {} /\ stage = "idle"
    BY DEF Init, L!Init, R!Init
  <1>2. InFlight("ContactList") = {} /\ InFlight("UserOnline") = {} /\ ~ListSent
    BY <1>1 DEF InFlight, ListSent
  <1> QED BY <1>1, <1>2 DEF NoticeInv, SentTyped, ReadsHead, AfterRequest, NoticesLast,
                            NoticesOfSent, SentArrives, Reading

-----------------------------------------------------------------------------
(* A session is a sign-on.                                                 *)

LEMMA StepIsSignOn ==
    ASSUME IInv, [Next]_vars
    PROVE  [L!Next]_session
  <1>1. CASE Environment
    BY <1>1 DEF Environment, L!Next
  <1>2. CASE Server
    BY <1>2 DEF Server, ServerSendsList, ServerTellsOnline, ServerOther, L!Next,
                L!Server
  <1>3. CASE EndList
    BY <1>3, ListEnds DEF IInv, L!Next, L!Client
  <1>4. CASE Client /\ ~EndList
    BY <1>4 DEF Client, StartList, ReadItem, UserOnline, OtherPacket, L!Next, L!Client
  <1>5. CASE UNCHANGED vars
    BY <1>5 DEF vars
  <1> QED BY <1>1, <1>2, <1>3, <1>4, <1>5 DEF Next

LEMMA PartsStep == IInv /\ [Next]_vars => Parts'
  BY LoginKeeps, ListKeeps, StepIsSignOn, StepIsOfLists DEF IInv, Parts

LEMMA ReadInit == Init => ReadInv
  BY DEF Init, R!Init, ReadInv, RestOfPacket, NoAimKnown

LEMMA InvInit == Init => IInv
  BY PartsInit, NoticeInit, ReadInit DEF IInv

LEMMA InvStep == IInv /\ [Next]_vars => IInv'
  BY PartsStep, NoticeStep, ReadStep DEF IInv

\* A list read item by item, while the server goes on, looks to the sign-on like
\* one packet handled at once: it is activated exactly if nothing in it makes
\* parseContactList stop, whatever was listed before.
THEOREM ImplementsSignOn == Spec => ImplementsLogin
  <1>1. Init => L!Init
    BY DEF Init
  <1>2. IInv /\ [Next]_vars => [L!Next]_session
    BY StepIsSignOn
  <1> QED BY <1>1, <1>2, InvInit, InvStep, PTL DEF Spec, ImplementsLogin

\* Of a session as of a bare sign-on: the password is shown to the login server
\* only, a cookie on one connection, and a service is asked for nothing before its
\* answer to what goes before has come.
THEOREM SignOnStaysSafe ==
    Spec => [](L!PasswordOnlyToLoginServer /\ L!CookieShownOnce /\ L!ServiceOrder)
  <1>1. IInv => L!PasswordOnlyToLoginServer /\ L!CookieShownOnce /\ L!ServiceOrder
    <2>1. IInv => LP!PasswordOnlyToLoginServer /\ LP!CookieShownOnce
      BY DEF IInv, Parts, LP!SecretsInv
    <2>2. IInv => LP!ServiceOrder
      BY Assumed, LP!OrderIsServiceOrder DEF IInv, Parts
    <2> QED BY <2>1, <2>2, LoginPromises
  <1> QED BY <1>1, InvInit, InvStep, PTL DEF Spec

\* Of a session as of the bare lists: only an ignored contact can hide one of the
\* server's list, and none has two contacts but for one that the profile brought.
THEOREM ListsStaySound ==
    Spec => [](R!OnlyIgnoredHide /\ R!OneContactPerItem)
  <1>1. IInv => R!OnlyIgnoredHide /\ R!OneContactPerItem
    BY ListPromises DEF IInv, Parts, RP!LinkInv, RP!PointsBack, RP!OneContactPerItem,
                        RP!NoItem
  <1> QED BY <1>1, InvInit, InvStep, PTL DEF Spec

\* Every variable has its type, and a list is read while its packet is the
\* first on the wire.
THEOREM TypeCorrect == Spec => []TypeOK
  <1>1. IInv => TypeOK
    <2> SUFFICES ASSUME IInv PROVE TypeOK
      OBVIOUS
    <2>1. L!TypeOK /\ R!TypeOK
      BY LoginTypes, ListTypes
         DEF IInv, Parts, LP!OrderInv, RP!LinkInv, RP!IInv
    <2> QED BY <2>1 DEF TypeOK, IInv, NoticeInv, SentTyped, ReadsHead, L!Gets
  <1> QED BY <1>1, InvInit, InvStep, PTL DEF Spec

\* An online notice finds its buddy in the lists, unless the buddy stood behind an
\* item that could not be read or its item was first listed with another name: for
\* any lists, cut and interleaved with the server's work in any way.
THEOREM NoticesFindBuddies == Spec => []NoticeFindsBuddy
  <1>1. IInv => NoticeFindsBuddy
    <2> SUFFICES ASSUME IInv, L!Gets({"UserOnline"}), EventLoop
                 PROVE  LET buddy == Head(toClient).buddy IN
                        \/ \E k \in DOMAIN icq : icq[k].screen = buddy
                        \/ \E e \in sent :
                              /\ e.screen = buddy
                              /\ \/ e \in lost
                                 \/ e.id \in DOMAIN icq /\ icq[e.id].screen # buddy
      BY DEF NoticeFindsBuddy
    <2>1. WireTyped
      BY WireFacts DEF IInv
    <2>2. toClient # <<>> /\ Head(toClient).type = "UserOnline"
      BY DEF L!Gets
    <2>3. 1 \in InFlight("UserOnline") /\ toClient[1] = Head(toClient)
      BY <2>1, <2>2, Shrunk DEF WireTyped, InFlight
    <2>4. InFlight("ContactList") = {}
      <3>1. \A i \in InFlight("ContactList") : i \in Nat \ {0} /\ i < 1
        BY <2>1, <2>3 DEF IInv, NoticeInv, NoticesLast, WireTyped, InFlight
      <3> QED BY <3>1
    <2>5. PICK e \in sent : e.screen = Head(toClient).buddy
      BY <2>3 DEF IInv, NoticeInv, NoticesOfSent
    <2>6. e.id \in DOMAIN icq \/ e \in lost
      BY <2>3, <2>4 DEF IInv, NoticeInv, AfterRequest, SentArrives, Waiting
    <2> QED BY <2>5, <2>6
  <1> QED BY <1>1, InvInit, InvStep, PTL DEF Spec
=============================================================================
