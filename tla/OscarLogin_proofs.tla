-------------------------- MODULE OscarLogin_proofs --------------------------
(***************************************************************************)
(* The types of OscarLogin, what becomes of the secrets of a sign-on, and  *)
(* the order in which services are asked for, for any hosts, any number of *)
(* attempts and lists cut in any way.                                      *)
(***************************************************************************)
EXTENDS OscarLogin, FiniteSetTheorems, TLAPS

-----------------------------------------------------------------------------
(* Packets and messages.                                                   *)

PlainPacket == {"CapabilitiesAck", "SsiRights", "LocationRights", "BuddyRights",
                "PrivacyRights", "IcbmParameters", "SelfInfo", "New", "Error",
                "EmptyClose", "KeyResponse", "ServerReady", "Fin"}

PlainWritten == {"Capabilities", "SsiRightsRequest", "LocationRightsRequest",
                 "BuddyRightsRequest", "PrivacyRightsRequest",
                 "IcbmParametersRequest", "SelfInfoRequest", "Hello", "RateAck",
                 "SetUserInfo", "SetParameters", "Activate", "SignOn",
                 "KeyRequest", "Md5Login", "RateRequest", "SsiListRequest"}

\* What the server answers a request with never starts a sign-on over: it is
\* neither a greeting nor a key.
LEMMA AnswerKinds ==
    \A t \in DOMAIN Answer : /\ Answer[t] \in PlainPacket
                             /\ Answer[t] \notin {"New", "KeyResponse"}
  BY DEF Answer, PlainPacket

LEMMA PlainIsPacket == \A t \in PlainPacket : Plain(t) \in Packet
  <1>1. \A t \in PlainPacket :
            t \in {Answer[u] : u \in DOMAIN Answer} \cup
                  {"New", "Error", "EmptyClose", "KeyResponse", "ServerReady",
                   "Fin"}
    BY DEF Answer, PlainPacket
  <1> QED BY <1>1 DEF Packet, Plain

LEMMA PlainIsWritten == \A t \in PlainWritten : Plain(t) \in Written
  <1>1. \A t \in PlainWritten :
            t \in DOMAIN Answer \cup Silent \cup
                  {"SignOn", "KeyRequest", "Md5Login", "RateRequest",
                   "SsiListRequest", "Activate"}
    BY DEF Answer, Silent, PlainWritten
  <1> QED BY <1>1 DEF Written, Plain

LEMMA WrittenSeq ==
    ASSUME NEW ts \in Seq(PlainWritten)
    PROVE  PlainSeq(ts) \in Seq(Written)
  <1>1. \A i \in DOMAIN ts : Plain(ts[i]) \in Written
    BY PlainIsWritten
  <1> QED BY <1>1 DEF PlainSeq

\* handleNewConnection and the rest put their messages behind those already
\* written, and the server has read no more than before.
LEMMA WritesType ==
    ASSUME TypeOK, toClient # <<>>, NEW ts \in Seq(PlainWritten), Writes(ts)
    PROVE  /\ toClient' \in Seq(Packet)
           /\ out' \in Seq(Written)
           /\ read' \in 0 .. Len(out')
  <1>1. PlainSeq(ts) \in Seq(Written)
    BY WrittenSeq
  <1>2. out \in Seq(Written) /\ read \in 0 .. Len(out) /\ toClient \in Seq(Packet)
    BY DEF TypeOK
  <1>3. out' \in Seq(Written) /\ Len(out') = Len(out) + Len(PlainSeq(ts))
    BY <1>1, <1>2 DEF Writes
  <1>4. Len(PlainSeq(ts)) \in Nat
    BY <1>1
  <1> QED BY <1>2, <1>3, <1>4 DEF Writes

\* One reply put behind what is on its way.
LEMMA ReplyType ==
    ASSUME TypeOK, NEW ps \in Seq(Packet),
           read < Len(out), read' = read + 1, Reply(ps)
    PROVE  /\ toClient' \in Seq(Packet)
           /\ out' \in Seq(Written)
           /\ read' \in 0 .. Len(out')
  <1>1. out \in Seq(Written) /\ read \in 0 .. Len(out) /\ toClient \in Seq(Packet)
    BY DEF TypeOK
  <1>2. toClient' \in Seq(Packet)
    BY <1>1 DEF Reply
  <1>3. out' = out
    BY DEF Reply
  <1>4. Len(out) \in Nat
    BY <1>1
  <1>5. read + 1 \in 0 .. Len(out)
    BY <1>1, <1>4
  <1> QED BY <1>1, <1>2, <1>3, <1>5

-----------------------------------------------------------------------------
(* Type correctness.                                                       *)

LEMMA TypeInit == Init => TypeOK
  <1> SUFFICES ASSUME Init PROVE TypeOK
    OBVIOUS
  <1>1. /\ cookie \in Cookie \cup {NoCookie} /\ host \in BosHost \cup {LoginHost}
        /\ config \in [uin : BOOLEAN, screen : BOOLEAN, md5 : BOOLEAN]
    BY DEF Init
  <1>2. read \in 0 .. Len(out)
    BY DEF Init
  <1>3. /\ toClient \in Seq(Packet) /\ out \in Seq(Written)
        /\ cookieHost \in Seq(BosHost)
    BY DEF Init
  <1>4. /\ shown \subseteq [secret : Nat, conn : Nat,
                            host : BosHost \cup {LoginHost}]
        /\ rights \subseteq {"SsiRights", "LocationRights"}
        /\ rateInfo \subseteq RateClass
    BY DEF Init
  <1> QED BY <1>1, <1>2, <1>3, <1>4 DEF Init, TypeOK

\* The steps of the user, the sockets and the servers.
LEMMA TypeEnvironment ==
    ASSUME TypeOK, ChangeStatus \/ TcpConnected \/ TcpLost \/ Server
    PROVE  TypeOK'
  <1> USE DEF TypeOK, link, login, server, service, user
  <1>1. CASE ChangeStatus
    <2>1. CASE sock = "unconnected"
      BY <1>1, <2>1 DEF ChangeStatus, ConnectToHost
    <2>2. CASE sock # "unconnected"
      BY <1>1, <2>2 DEF ChangeStatus, net
    <2> QED BY <2>1, <2>2
  <1>2. CASE TcpConnected
    <2>1. Plain("New") \in Packet
      BY PlainIsPacket DEF PlainPacket
    <2> QED BY <1>2, <2>1 DEF TcpConnected
  <1>3. CASE TcpLost
    BY <1>3 DEF TcpLost, Disconnect
  <1>4. CASE ServerRedirects
    <2>1. PICK h \in BosHost :
            /\ cookieHost' = Append(cookieHost, h)
            /\ Reply(<<[type |-> "Redirect", host |-> h, cookie |-> issued + 1],
                       Plain("EmptyClose"), Plain("Fin")>>)
      BY <1>4 DEF ServerRedirects
    <2>2. [type |-> "Redirect", host |-> h, cookie |-> issued + 1] \in Packet
      BY DEF Packet, Cookie
    <2>3. Plain("EmptyClose") \in Packet /\ Plain("Fin") \in Packet
      BY PlainIsPacket DEF PlainPacket
    <2>4. /\ toClient' \in Seq(Packet) /\ out' \in Seq(Written)
          /\ read' \in 0 .. Len(out')
      <3>1. read < Len(out) /\ read' = read + 1
        BY <1>4 DEF ServerRedirects, Reads
      <3>2. <<[type |-> "Redirect", host |-> h, cookie |-> issued + 1],
              Plain("EmptyClose"), Plain("Fin")>> \in Seq(Packet)
        BY <2>2, <2>3
      <3> QED BY <2>1, <3>1, <3>2, ReplyType
    <2> QED BY <1>4, <2>1, <2>4 DEF ServerRedirects
  <1>5. CASE ServerRejects
    <2>1. {Plain("Error"), Plain("EmptyClose"), Plain("Fin")} \subseteq Packet
      BY PlainIsPacket DEF PlainPacket
    <2>2. <<Plain("Error"), Plain("EmptyClose"), Plain("Fin")>> \in Seq(Packet)
      BY <2>1
    <2>3. read < Len(out) /\ read' = read + 1
          /\ Reply(<<Plain("Error"), Plain("EmptyClose"), Plain("Fin")>>)
      BY <1>5 DEF ServerRejects, Reads
    <2>4. /\ toClient' \in Seq(Packet) /\ out' \in Seq(Written)
          /\ read' \in 0 .. Len(out')
      BY <2>2, <2>3, ReplyType
    <2> QED BY <1>5, <2>4 DEF ServerRejects
  <1>6. CASE ServerSendsKey
    <2>1. Plain("KeyResponse") \in Packet
      BY PlainIsPacket DEF PlainPacket
    <2>2. <<Plain("KeyResponse")>> \in Seq(Packet)
      BY <2>1
    <2>3. read < Len(out) /\ read' = read + 1
          /\ Reply(<<Plain("KeyResponse")>>)
      BY <1>6 DEF ServerSendsKey, Reads
    <2>4. /\ toClient' \in Seq(Packet) /\ out' \in Seq(Written)
          /\ read' \in 0 .. Len(out')
      BY <2>2, <2>3, ReplyType
    <2> QED BY <1>6, <2>4 DEF ServerSendsKey
  <1>7. CASE ServerAcceptsCookie
    <2>1. Plain("ServerReady") \in Packet
      BY PlainIsPacket DEF PlainPacket
    <2>2. <<Plain("ServerReady")>> \in Seq(Packet)
      BY <2>1
    <2>3. read < Len(out) /\ read' = read + 1
          /\ Reply(<<Plain("ServerReady")>>)
      BY <1>7 DEF ServerAcceptsCookie, Reads
    <2>4. /\ toClient' \in Seq(Packet) /\ out' \in Seq(Written)
          /\ read' \in 0 .. Len(out')
      BY <2>2, <2>3, ReplyType
    <2> QED BY <1>7, <2>4 DEF ServerAcceptsCookie
  <1>8. CASE ServerSendsRates
    <2>1. PICK classes \in SUBSET RateClass, known \in BOOLEAN :
            Reply(<<[type |-> "RateInfo", classes |-> classes,
                     groupsKnown |-> known]>>)
      BY <1>8 DEF ServerSendsRates
    <2>2. [type |-> "RateInfo", classes |-> classes, groupsKnown |-> known]
            \in Packet
      BY DEF Packet
    <2>3. /\ toClient' \in Seq(Packet) /\ out' \in Seq(Written)
          /\ read' \in 0 .. Len(out')
      <3>1. read < Len(out) /\ read' = read + 1
        BY <1>8 DEF ServerSendsRates, Reads
      <3>2. <<[type |-> "RateInfo", classes |-> classes, groupsKnown |-> known]>>
              \in Seq(Packet)
        BY <2>2
      <3> QED BY <2>1, <3>1, <3>2, ReplyType
    <2> QED BY <1>8, <2>3 DEF ServerSendsRates
  <1>9. CASE ServerSendsList
    <2>0. PICK n \in 1 .. MaxListPackets : \E lists \in [1 .. n -> List] :
            Reply([i \in 1 .. n |-> [type |-> "ContactList", list |-> lists[i]]])
      BY <1>9 DEF ServerSendsList
    <2>1. PICK lists \in [1 .. n -> List] :
            Reply([i \in 1 .. n |-> [type |-> "ContactList", list |-> lists[i]]])
      BY <2>0
    <2>2. \A i \in 1 .. n : [type |-> "ContactList", list |-> lists[i]] \in Packet
      BY DEF Packet
    <2>3. [i \in 1 .. n |-> [type |-> "ContactList", list |-> lists[i]]]
            \in Seq(Packet)
      BY <2>2, OscarLoginAssumption
    <2>4. /\ toClient' \in Seq(Packet) /\ out' \in Seq(Written)
          /\ read' \in 0 .. Len(out')
      <3>1. read < Len(out) /\ read' = read + 1
        BY <1>9 DEF ServerSendsList, Reads
      <3> QED BY <2>1, <2>3, <3>1, ReplyType
    <2> QED BY <1>9, <2>4 DEF ServerSendsList
  <1>10. CASE ServerAnswers
    <2>1. out[read + 1].type \in DOMAIN Answer
      BY <1>10 DEF ServerAnswers, Reads
    <2>2. Plain(Answer[out[read + 1].type]) \in Packet
      BY <2>1, AnswerKinds, PlainIsPacket
    <2>3. /\ toClient' \in Seq(Packet) /\ out' \in Seq(Written)
          /\ read' \in 0 .. Len(out')
      <3>1. /\ read < Len(out) /\ read' = read + 1
            /\ Reply(<<Plain(Answer[out[read + 1].type])>>)
        BY <1>10 DEF ServerAnswers, Reads
      <3>2. <<Plain(Answer[out[read + 1].type])>> \in Seq(Packet)
        BY <2>2
      <3> QED BY <3>1, <3>2, ReplyType
    <2> QED BY <1>10, <2>3 DEF ServerAnswers
  <1>11. CASE ServerSilent
    <2>1. Len(out) \in Nat
      OBVIOUS
    <2> QED BY <1>11, <2>1 DEF ServerSilent, Reads
  <1>12. CASE ServerTellsOnline
    <2>1. PICK n \in 0 .. 1 : \E buddies \in [1 .. n -> Buddy] :
            Reply([i \in 1 .. n |-> [type |-> "UserOnline",
                                     buddy |-> buddies[i]]])
      BY <1>12 DEF ServerTellsOnline
    <2>2. PICK buddies \in [1 .. n -> Buddy] :
            Reply([i \in 1 .. n |-> [type |-> "UserOnline",
                                     buddy |-> buddies[i]]])
      BY <2>1
    <2>3. \A i \in 1 .. n : [type |-> "UserOnline", buddy |-> buddies[i]]
                              \in Packet
      BY DEF Packet
    <2>4. [i \in 1 .. n |-> [type |-> "UserOnline", buddy |-> buddies[i]]]
            \in Seq(Packet)
      BY <2>3
    <2>5. /\ toClient' \in Seq(Packet) /\ out' \in Seq(Written)
          /\ read' \in 0 .. Len(out')
      <3>1. read < Len(out) /\ read' = read + 1
        BY <1>12 DEF ServerTellsOnline, Reads
      <3> QED BY <2>2, <2>4, <3>1, ReplyType
    <2> QED BY <1>12, <2>5 DEF ServerTellsOnline
  <1> QED BY <1>1, <1>2, <1>3, <1>4, <1>5, <1>6, <1>7, <1>8, <1>9, <1>10, <1>11,
             <1>12 DEF Server

\* The packet handlers.
LEMMA TypeClient ==
    ASSUME TypeOK, Client
    PROVE  TypeOK'
  <1> USE DEF link, login, server, service, user
  <1>0. /\ toClient # <<>> => /\ Head(toClient) \in Packet
                             /\ Tail(toClient) \in Seq(Packet)
        /\ out \in Seq(Written) /\ read \in 0 .. Len(out) /\ Len(out) \in Nat
    BY DEF TypeOK
  <1>w. ASSUME NEW ts \in Seq(PlainWritten), toClient # <<>>, Writes(ts)
        PROVE  /\ toClient' \in Seq(Packet) /\ out' \in Seq(Written)
               /\ read' \in 0 .. Len(out')
    BY <1>w, WritesType
  <1>s. ASSUME NEW secret \in Nat, Shows(secret)
        PROVE  shown' \subseteq [secret : Nat, conn : Nat,
                                 host : BosHost \cup {LoginHost}]
    BY <1>s DEF Shows, TypeOK
  <1>1. CASE HandleNewWithCookie
    <2>1. cookie \in Cookie
      BY <1>1 DEF HandleNewWithCookie, TypeOK
    <2>2. [type |-> "Cookie", cookie |-> cookie] \in Written
      BY <2>1 DEF Written
    <2>3. out' \in Seq(Written) /\ Len(out') = Len(out) + 1
      BY <1>0, <1>1, <2>2 DEF HandleNewWithCookie
    <2>4. read' \in 0 .. Len(out')
      BY <1>0, <1>1, <2>3 DEF HandleNewWithCookie
    <2>5. toClient' \in Seq(Packet)
      BY <1>0, <1>1 DEF HandleNewWithCookie, Gets
    <2>6. shown' \subseteq [secret : Nat, conn : Nat,
                            host : BosHost \cup {LoginHost}]
      BY <1>1, <1>s, <2>1 DEF HandleNewWithCookie, Cookie
    <2> QED BY <1>1, <2>3, <2>4, <2>5, <2>6
               DEF HandleNewWithCookie, TypeOK, NoCookie
  <1>2. CASE HandleNewSignOn
    <2>1. <<"SignOn">> \in Seq(PlainWritten)
      BY DEF PlainWritten
    <2>2. toClient # <<>> /\ Writes(<<"SignOn">>) /\ Shows(Password)
      BY <1>2 DEF HandleNewSignOn, Gets
    <2>3. /\ toClient' \in Seq(Packet) /\ out' \in Seq(Written)
          /\ read' \in 0 .. Len(out')
      BY <1>w, <2>1, <2>2
    <2>4. shown' \subseteq [secret : Nat, conn : Nat,
                            host : BosHost \cup {LoginHost}]
      BY <1>s, <2>2 DEF Password
    <2> QED BY <1>2, <2>3, <2>4 DEF HandleNewSignOn, TypeOK
  <1>3. CASE HandleNewMd5
    <2>1. <<"Hello", "KeyRequest">> \in Seq(PlainWritten)
      BY DEF PlainWritten
    <2>2. <<>> \in Seq(PlainWritten)
      OBVIOUS
    <2>3. toClient # <<>> /\ (Writes(<<"Hello", "KeyRequest">>) \/ Writes(<<>>))
      BY <1>3 DEF HandleNewMd5, Gets
    <2>4. /\ toClient' \in Seq(Packet) /\ out' \in Seq(Written)
          /\ read' \in 0 .. Len(out')
      BY <1>w, <2>1, <2>2, <2>3
    <2> QED BY <1>3, <2>4 DEF HandleNewMd5, TypeOK
  <1>4. CASE HandleAuthKeyResponse
    <2>1. <<"Md5Login">> \in Seq(PlainWritten) /\ <<>> \in Seq(PlainWritten)
      BY DEF PlainWritten
    <2>2. toClient # <<>> /\ (Writes(<<"Md5Login">>) \/ Writes(<<>>))
      BY <1>4 DEF HandleAuthKeyResponse, Gets
    <2>3. /\ toClient' \in Seq(Packet) /\ out' \in Seq(Written)
          /\ read' \in 0 .. Len(out')
      BY <1>w, <2>1, <2>2
    <2>4. shown' \subseteq [secret : Nat, conn : Nat,
                            host : BosHost \cup {LoginHost}]
      <3>1. CASE config.uin
        BY <1>4, <1>s, <3>1 DEF HandleAuthKeyResponse, Password
      <3>2. CASE ~config.uin
        BY <1>4, <3>2 DEF HandleAuthKeyResponse, TypeOK
      <3> QED BY <3>1, <3>2
    <2> QED BY <1>4, <2>3, <2>4 DEF HandleAuthKeyResponse, TypeOK
  <1>5. CASE HandleLoginRedirect
    <2>1. Head(toClient) \in Packet /\ Head(toClient).type = "Redirect"
      BY <1>0, <1>5 DEF HandleLoginRedirect, Gets
    <2>2. Head(toClient).host \in BosHost /\ Head(toClient).cookie \in Cookie
      BY <2>1, AnswerKinds DEF Packet, PlainPacket
    <2> QED BY <1>5, <2>2 DEF HandleLoginRedirect, ConnectToHost, TypeOK
  <1>6. CASE HandleServerReady
    <2>1. <<"Capabilities">> \in Seq(PlainWritten)
      BY DEF PlainWritten
    <2>2. toClient # <<>> /\ (Writes(<<"Capabilities">>))
      BY <1>6 DEF HandleServerReady, Gets
    <2>3. /\ toClient' \in Seq(Packet) /\ out' \in Seq(Written)
          /\ read' \in 0 .. Len(out')
      BY <1>w, <2>1, <2>2
    <2> QED BY <1>6, <2>3 DEF HandleServerReady, TypeOK
  <1>7. CASE HandleCapabilitiesAck
    <2>1. <<"RateRequest">> \in Seq(PlainWritten)
      BY DEF PlainWritten
    <2>2. toClient # <<>> /\ (Writes(<<"RateRequest">>))
      BY <1>7 DEF HandleCapabilitiesAck, Gets
    <2>3. /\ toClient' \in Seq(Packet) /\ out' \in Seq(Written)
          /\ read' \in 0 .. Len(out')
      BY <1>w, <2>1, <2>2
    <2> QED BY <1>7, <2>3 DEF HandleCapabilitiesAck, TypeOK
  <1>8. CASE HandleContactList
    <2>1. <<"Activate">> \in Seq(PlainWritten) /\ <<>> \in Seq(PlainWritten)
      BY DEF PlainWritten
    <2>2. toClient # <<>> /\ (Writes(<<"Activate">>) \/ Writes(<<>>))
      BY <1>8 DEF HandleContactList, Gets
    <2>3. /\ toClient' \in Seq(Packet) /\ out' \in Seq(Written)
          /\ read' \in 0 .. Len(out')
      BY <1>w, <2>1, <2>2
    <2> QED BY <1>8, <2>3 DEF HandleContactList, TypeOK
  <1>9. CASE HandleIcbmParameters
    <2>1. <<"SetParameters">> \in Seq(PlainWritten)
      BY DEF PlainWritten
    <2>2. toClient # <<>> /\ (Writes(<<"SetParameters">>))
      BY <1>9 DEF HandleIcbmParameters, Gets
    <2>3. /\ toClient' \in Seq(Packet) /\ out' \in Seq(Written)
          /\ read' \in 0 .. Len(out')
      BY <1>w, <2>1, <2>2
    <2> QED BY <1>9, <2>3 DEF HandleIcbmParameters, TypeOK
  <1>10. CASE HandleOther
    <2>1. <<>> \in Seq(PlainWritten)
      BY DEF PlainWritten
    <2>2. toClient # <<>> /\ (Writes(<<>>))
      BY <1>10 DEF HandleOther, Gets
    <2>3. /\ toClient' \in Seq(Packet) /\ out' \in Seq(Written)
          /\ read' \in 0 .. Len(out')
      BY <1>w, <2>1, <2>2
    <2> QED BY <1>10, <2>3 DEF HandleOther, TypeOK
  <1>13. CASE HandleUserOnline
    <2>1. <<>> \in Seq(PlainWritten)
      BY DEF PlainWritten
    <2>2. toClient # <<>> /\ (Writes(<<>>))
      BY <1>13 DEF HandleUserOnline, Gets
    <2>3. /\ toClient' \in Seq(Packet) /\ out' \in Seq(Written)
          /\ read' \in 0 .. Len(out')
      BY <1>w, <2>1, <2>2
    <2> QED BY <1>13, <2>3 DEF HandleUserOnline, TypeOK
  <1>11. CASE HandleRights
    <2>1. <<"SetUserInfo">> \in Seq(PlainWritten) /\ <<>> \in Seq(PlainWritten)
      BY DEF PlainWritten
    <2>2. toClient # <<>> /\ (Writes(<<"SetUserInfo">>) \/ Writes(<<>>))
      BY <1>11 DEF HandleRights, Gets
    <2>3. /\ toClient' \in Seq(Packet) /\ out' \in Seq(Written)
          /\ read' \in 0 .. Len(out')
      BY <1>w, <2>1, <2>2
    <2>4. rights' \subseteq {"SsiRights", "LocationRights"}
      BY <1>11 DEF HandleRights, Gets, TypeOK
    <2> QED BY <1>11, <2>3, <2>4 DEF HandleRights, TypeOK
  <1>12. CASE HandleRateInfo
    <2> DEFINE ack == IF Head(toClient).groupsKnown THEN <<"RateAck">> ELSE <<>>
    <2>1. ack \in Seq(PlainWritten)
      <3>1. <<"RateAck">> \in Seq(PlainWritten) /\ <<>> \in Seq(PlainWritten)
        BY DEF PlainWritten
      <3> QED BY <3>1
    <2>2. LoginStep2 \in Seq(PlainWritten)
      BY DEF LoginStep2, PlainWritten
    <2>3. <<"SelfInfoRequest">> \in Seq(PlainWritten)
      BY DEF PlainWritten
    <2>4. ack \o LoginStep2 \o <<"SelfInfoRequest">> \in Seq(PlainWritten)
      BY <2>1, <2>2, <2>3
    <2>5. toClient # <<>> /\ Writes(ack \o LoginStep2 \o <<"SelfInfoRequest">>)
      BY <1>12 DEF HandleRateInfo, Gets
    <2>6. /\ toClient' \in Seq(Packet) /\ out' \in Seq(Written)
          /\ read' \in 0 .. Len(out')
      BY <1>w, <2>4, <2>5
    <2>7. Head(toClient) \in Packet /\ Head(toClient).type = "RateInfo"
      BY <1>0, <1>12 DEF HandleRateInfo, Gets
    <2>8. Head(toClient).classes \subseteq RateClass
      BY <2>7, AnswerKinds DEF Packet, PlainPacket
    <2> QED BY <1>12, <2>6, <2>8 DEF HandleRateInfo, TypeOK
  <1>14. CASE HandleFin
    BY <1>14 DEF HandleFin, Disconnect, TypeOK
  <1> QED BY <1>1, <1>2, <1>3, <1>4, <1>5, <1>6, <1>7, <1>8, <1>9, <1>10,
             <1>11, <1>12, <1>13, <1>14 DEF Client

\* Every variable keeps its type: the server has never read more than was
\* written, and every packet is one the handlers know.
THEOREM TypeCorrect == Spec => []TypeOK
  <1>1. TypeOK /\ [Next]_vars => TypeOK'
    <2>1. TypeOK /\ UNCHANGED vars => TypeOK'
      BY DEF vars, net, link, login, server, service, user, TypeOK
    <2> QED BY <2>1, TypeEnvironment, TypeClient DEF Next
  <1> QED BY <1>1, TypeInit, PTL DEF Spec

-----------------------------------------------------------------------------
(* The secrets.  What keeps the password from the BOS servers is a         *)
(* relation between the socket and m_authCookie: on its way to such a      *)
(* server, and until it has been greeted there, the client holds a cookie. *)
(* What keeps a cookie from being shown twice is that every redirect on    *)
(* its way carries one that nobody holds and nobody has seen.              *)

InFlight == {toClient[i] : i \in DOMAIN toClient}

\* The greeting is the first packet of a connection, and there is no packet
\* without a connection.
GreetingFirst ==
    /\ \A i \in DOMAIN toClient : toClient[i].type = "New" => i = 1
    /\ sock # "connected" => toClient = <<>>

\* Whoever is about to be greeted by a BOS server holds a cookie.
BosNeedsCookie ==
    /\ sock = "connecting" /\ host # LoginHost => cookie # NoCookie
    /\ \A p \in InFlight :
          p.type = "New" /\ host # LoginHost => cookie # NoCookie

\* Only the login server sends keys.
KeyFromLogin == \A p \in InFlight : p.type = "KeyResponse" => host = LoginHost

Unseen(c) == /\ c \in Cookie /\ c <= issued
             /\ \A s \in shown : s.secret # c

FreshCookies ==
    /\ cookie # NoCookie => Unseen(cookie)
    /\ \A p \in InFlight :
          p.type = "Redirect" => Unseen(p.cookie) /\ p.cookie # cookie
    /\ \A s \in shown : s.secret <= issued

SecretsInv == /\ TypeOK
              /\ GreetingFirst /\ BosNeedsCookie /\ KeyFromLogin /\ FreshCookies
              /\ PasswordOnlyToLoginServer /\ CookieShownOnce

\* Taking the first packet adds none, and leaves no greeting.
LEMMA TailInFlight ==
    ASSUME toClient \in Seq(Packet), toClient # <<>>,
           toClient' = Tail(toClient)
    PROVE  /\ InFlight' \subseteq InFlight
           /\ Head(toClient) \in InFlight
           /\ GreetingFirst => \A p \in InFlight' : p.type # "New"
  <1>1. /\ Len(toClient) \in Nat \ {0} /\ DOMAIN toClient = 1 .. Len(toClient)
        /\ DOMAIN toClient' = 1 .. Len(toClient) - 1
        /\ \A i \in DOMAIN toClient' : toClient'[i] = toClient[i + 1]
    OBVIOUS
  <1>2. \A i \in DOMAIN toClient' : i + 1 \in DOMAIN toClient /\ i + 1 # 1
    BY <1>1
  <1>3. InFlight' \subseteq InFlight
    BY <1>1, <1>2 DEF InFlight
  <1>4. Head(toClient) = toClient[1] /\ 1 \in DOMAIN toClient
    BY <1>1
  <1>5. GreetingFirst => \A i \in DOMAIN toClient' : toClient'[i].type # "New"
    BY <1>1, <1>2 DEF GreetingFirst
  <1> QED BY <1>3, <1>4, <1>5 DEF InFlight

\* A reply adds its own packets, behind the greeting.
LEMMA ReplyInFlight ==
    ASSUME toClient \in Seq(Packet), NEW ps \in Seq(Packet),
           toClient' = toClient \o ps,
           \A i \in DOMAIN ps : ps[i].type # "New"
    PROVE  /\ InFlight' = InFlight \cup {ps[i] : i \in DOMAIN ps}
           /\ (\A i \in DOMAIN toClient : toClient[i].type = "New" => i = 1)
                => \A i \in DOMAIN toClient' : toClient'[i].type = "New" => i = 1
  <1>1. /\ Len(toClient) \in Nat /\ Len(ps) \in Nat
        /\ DOMAIN toClient = 1 .. Len(toClient) /\ DOMAIN ps = 1 .. Len(ps)
        /\ DOMAIN toClient' = 1 .. Len(toClient) + Len(ps)
    OBVIOUS
  <1>2. \A i \in DOMAIN toClient : i \in DOMAIN toClient' /\ toClient'[i] = toClient[i]
    BY <1>1
  <1>3. \A i \in DOMAIN ps : /\ i + Len(toClient) \in DOMAIN toClient'
                             /\ toClient'[i + Len(toClient)] = ps[i]
    BY <1>1
  <1>4. ASSUME NEW i \in DOMAIN toClient'
        PROVE  \/ i \in DOMAIN toClient /\ toClient'[i] = toClient[i]
               \/ /\ i - Len(toClient) \in DOMAIN ps
                  /\ toClient'[i] = ps[i - Len(toClient)]
    <2>1. CASE i <= Len(toClient)
      BY <1>1, <1>2, <2>1
    <2>2. CASE i > Len(toClient)
      <3>1. i - Len(toClient) \in 1 .. Len(ps)
        BY <1>1, <2>2
      <3>2. (i - Len(toClient)) + Len(toClient) = i
        BY <1>1
      <3>3. toClient'[(i - Len(toClient)) + Len(toClient)] = ps[i - Len(toClient)]
        BY <1>1, <1>3, <3>1
      <3> QED BY <1>1, <3>1, <3>2, <3>3
    <2> QED BY <1>1, <2>1, <2>2
  <1>5. InFlight' \subseteq InFlight \cup {ps[i] : i \in DOMAIN ps}
    BY <1>2, <1>4 DEF InFlight
  <1>6. InFlight \cup {ps[i] : i \in DOMAIN ps} \subseteq InFlight'
    <2>1. \A i \in DOMAIN ps : ps[i] \in InFlight'
      BY <1>3 DEF InFlight
    <2>2. InFlight \subseteq InFlight'
      BY <1>2 DEF InFlight
    <2> QED BY <2>1, <2>2
  <1> QED BY <1>2, <1>4, <1>5, <1>6

\* A step that leaves the connection, the secrets and the cookies alone, and
\* lets no greeting, key or redirect onto the wire.
LEMMA QuietStep ==
    ASSUME SecretsInv, TypeOK', UNCHANGED <<link, login, server>>, GreetingFirst',
           \A p \in InFlight' :
              p \in InFlight \/ p.type \notin {"New", "KeyResponse", "Redirect"}
    PROVE  SecretsInv'
  <1> USE DEF link, login, server
  <1>1. BosNeedsCookie'
    BY DEF SecretsInv, BosNeedsCookie
  <1>2. KeyFromLogin'
    BY DEF SecretsInv, KeyFromLogin
  <1>3. FreshCookies'
    BY DEF SecretsInv, FreshCookies, Unseen
  <1>4. PasswordOnlyToLoginServer' /\ CookieShownOnce'
    BY DEF SecretsInv, PasswordOnlyToLoginServer, CookieShownOnce
  <1> QED BY <1>1, <1>2, <1>3, <1>4 DEF SecretsInv

\* A step that empties the wire.
LEMMA EmptyWire ==
    ASSUME toClient' = <<>>
    PROVE  InFlight' = {} /\ GreetingFirst' /\ KeyFromLogin'
  BY DEF InFlight, GreetingFirst, KeyFromLogin

LEMMA SecretsInit == Init => SecretsInv
  <1> SUFFICES ASSUME Init PROVE SecretsInv
    OBVIOUS
  <1>1. InFlight = {}
    BY DEF Init, InFlight
  <1>2. GreetingFirst /\ BosNeedsCookie /\ KeyFromLogin
    BY <1>1 DEF Init, GreetingFirst, BosNeedsCookie, KeyFromLogin
  <1>3. FreshCookies /\ PasswordOnlyToLoginServer /\ CookieShownOnce
    BY <1>1 DEF Init, FreshCookies, PasswordOnlyToLoginServer, CookieShownOnce
  <1> QED BY <1>2, <1>3, TypeInit DEF SecretsInv

\* The user and the sockets: a connection to a BOS server is lost, but one is
\* only ever opened to the login server.
LEMMA SecretsLink ==
    ASSUME SecretsInv, TypeOK', ChangeStatus \/ TcpConnected \/ TcpLost
    PROVE  SecretsInv'
  <1> USE DEF link, login, server
  <1>1. CASE ChangeStatus /\ sock # "unconnected"
    <2>1. UNCHANGED <<toClient, sock, host, conn, cookie, shown, issued, cookieHost>>
      BY <1>1 DEF ChangeStatus, net
    <2> QED BY <2>1 DEF SecretsInv, GreetingFirst, BosNeedsCookie, KeyFromLogin,
                        FreshCookies, Unseen, InFlight,
                        PasswordOnlyToLoginServer, CookieShownOnce
  <1>2. CASE ChangeStatus /\ sock = "unconnected"
    <2>1. /\ toClient' = <<>> /\ host' = LoginHost /\ sock' = "connecting"
          /\ UNCHANGED <<cookie, shown, issued, cookieHost>>
      BY <1>2 DEF ChangeStatus, ConnectToHost
    <2>2. InFlight' = {} /\ GreetingFirst' /\ KeyFromLogin'
      BY <2>1, EmptyWire
    <2> QED BY <2>1, <2>2
            DEF SecretsInv, BosNeedsCookie, FreshCookies, Unseen,
                PasswordOnlyToLoginServer, CookieShownOnce
  <1>3. CASE TcpConnected
    <2>1. /\ sock = "connecting" /\ sock' = "connected"
          /\ toClient' = <<Plain("New")>>
          /\ UNCHANGED <<host, conn, cookie, shown, issued, cookieHost>>
      BY <1>3 DEF TcpConnected
    <2>2. InFlight' = {Plain("New")} /\ GreetingFirst'
      BY <2>1 DEF InFlight, GreetingFirst
    <2>3. BosNeedsCookie' /\ KeyFromLogin'
      BY <2>1, <2>2 DEF SecretsInv, BosNeedsCookie, KeyFromLogin, Plain
    <2> QED BY <2>1, <2>2, <2>3
            DEF SecretsInv, FreshCookies, Unseen, Plain,
                PasswordOnlyToLoginServer, CookieShownOnce
  <1>4. CASE TcpLost
    <2>1. /\ toClient' = <<>> /\ sock' = "unconnected"
          /\ UNCHANGED <<host, conn, cookie, shown, issued, cookieHost>>
      BY <1>4 DEF TcpLost, Disconnect
    <2>2. InFlight' = {} /\ GreetingFirst' /\ KeyFromLogin'
      BY <2>1, EmptyWire
    <2> QED BY <2>1, <2>2
            DEF SecretsInv, BosNeedsCookie, FreshCookies, Unseen,
                PasswordOnlyToLoginServer, CookieShownOnce
  <1> QED BY <1>1, <1>2, <1>3, <1>4

\* A server's answer that is neither a redirect nor a key.
LEMMA QuietReply ==
    ASSUME SecretsInv, TypeOK', sock = "connected",
           UNCHANGED <<link, login, server>>, NEW ps \in Seq(Packet), Reply(ps),
           \A i \in DOMAIN ps : ps[i].type \notin {"New", "KeyResponse", "Redirect"}
    PROVE  SecretsInv'
  <1>1. toClient \in Seq(Packet)
    BY DEF SecretsInv, TypeOK
  <1>2. toClient' = toClient \o ps
    BY DEF Reply
  <1>3. /\ InFlight' = InFlight \cup {ps[i] : i \in DOMAIN ps}
        /\ (\A i \in DOMAIN toClient : toClient[i].type = "New" => i = 1)
             => \A i \in DOMAIN toClient' : toClient'[i].type = "New" => i = 1
    BY <1>1, <1>2, ReplyInFlight
  <1>4. GreetingFirst'
    BY <1>3 DEF SecretsInv, GreetingFirst, link
  <1> QED BY <1>3, <1>4, QuietStep

LEMMA SecretsServer ==
    ASSUME SecretsInv, TypeOK', Server
    PROVE  SecretsInv'
  <1> USE DEF link, login, server
  <1>0. toClient \in Seq(Packet)
    BY DEF SecretsInv, TypeOK
  <1>1. CASE ServerRedirects
    <2> DEFINE redirect(h) == [type |-> "Redirect", host |-> h, cookie |-> issued + 1]
    <2>1. PICK h \in BosHost :
            /\ cookieHost' = Append(cookieHost, h)
            /\ Reply(<<redirect(h), Plain("EmptyClose"), Plain("Fin")>>)
      BY <1>1 DEF ServerRedirects
    <2> DEFINE ps == <<redirect(h), Plain("EmptyClose"), Plain("Fin")>>
    <2>2. /\ sock = "connected" /\ issued' = issued + 1
          /\ toClient' = toClient \o ps
          /\ UNCHANGED <<sock, host, conn, cookie, shown>>
      BY <1>1, <2>1 DEF ServerRedirects, Reads, Reply
    <2>3. issued \in Nat /\ issued + 1 \in Cookie
      BY DEF SecretsInv, TypeOK, Cookie
    <2>4. ps \in Seq(Packet)
      <3>1. redirect(h) \in Packet
        BY <2>3 DEF Packet
      <3>2. Plain("EmptyClose") \in Packet /\ Plain("Fin") \in Packet
        BY PlainIsPacket DEF PlainPacket
      <3> QED BY <3>1, <3>2
    <2>5. DOMAIN ps = 1 .. 3
      OBVIOUS
    <2>6. /\ ps[1] = redirect(h)
          /\ \A i \in {2, 3} : ps[i] \in {Plain("EmptyClose"), Plain("Fin")}
      OBVIOUS
    <2>7. \A i \in DOMAIN ps : ps[i] = redirect(h) \/
                               ps[i] \in {Plain("EmptyClose"), Plain("Fin")}
      BY <2>5, <2>6
    <2>8. \A i \in DOMAIN ps : ps[i].type \notin {"New", "KeyResponse"}
      BY <2>7 DEF Plain
    <2> HIDE DEF ps
    <2>9. /\ InFlight' = InFlight \cup {ps[i] : i \in DOMAIN ps}
          /\ (\A i \in DOMAIN toClient : toClient[i].type = "New" => i = 1)
               => \A i \in DOMAIN toClient' : toClient'[i].type = "New" => i = 1
      BY <1>0, <2>2, <2>4, <2>8, ReplyInFlight
    <2>10. GreetingFirst'
      BY <2>2, <2>9 DEF SecretsInv, GreetingFirst
    <2>11. BosNeedsCookie' /\ KeyFromLogin'
      BY <2>2, <2>8, <2>9 DEF SecretsInv, BosNeedsCookie, KeyFromLogin
    <2>12. FreshCookies'
      <3>1. \A c : Unseen(c) => Unseen(c)' /\ c # issued + 1
        BY <2>2, <2>3 DEF Unseen, Cookie
      <3>2. cookie # issued + 1
        BY <2>3, <3>1 DEF SecretsInv, FreshCookies, NoCookie, Cookie
      <3>3. \A c : c = issued + 1 => Unseen(c)'
        BY <2>2, <2>3 DEF SecretsInv, FreshCookies, TypeOK, Unseen
      <3>4. \A i \in DOMAIN ps : ps[i].type = "Redirect"
                                 => ps[i].cookie = issued + 1
        BY <2>7 DEF Plain
      <3>5. \A s \in shown' : s.secret <= issued'
        BY <2>2, <2>3 DEF SecretsInv, FreshCookies, TypeOK
      <3>6. \A q \in InFlight' : q.type = "Redirect"
                                   => Unseen(q.cookie)' /\ q.cookie # cookie
        <4>1. ASSUME NEW q \in InFlight, q.type = "Redirect"
              PROVE  Unseen(q.cookie)' /\ q.cookie # cookie
          BY <3>1, <4>1 DEF SecretsInv, FreshCookies
        <4>2. ASSUME NEW q \in {ps[i] : i \in DOMAIN ps}, q.type = "Redirect"
              PROVE  Unseen(q.cookie)' /\ q.cookie # cookie
          <5>1. q.cookie = issued + 1
            BY <3>4, <4>2
          <5> QED BY <3>2, <3>3, <5>1
        <4> QED BY <2>9, <4>1, <4>2
      <3> QED BY <2>2, <3>1, <3>5, <3>6 DEF SecretsInv, FreshCookies
    <2> QED BY <2>2, <2>10, <2>11, <2>12
            DEF SecretsInv, PasswordOnlyToLoginServer, CookieShownOnce
  <1>2. CASE ServerSendsKey
    <2> DEFINE ps == <<Plain("KeyResponse")>>
    <2>1. /\ sock = "connected" /\ host = LoginHost
          /\ toClient' = toClient \o ps
          /\ UNCHANGED <<sock, host, conn, cookie, shown, issued, cookieHost>>
      BY <1>2 DEF ServerSendsKey, Reads, Reply
    <2>2. Plain("KeyResponse") \in Packet
      BY PlainIsPacket DEF PlainPacket
    <2>3. ps \in Seq(Packet)
      BY <2>2
    <2>4. \A i \in DOMAIN ps : ps[i].type = "KeyResponse"
      BY DEF Plain
    <2> HIDE DEF ps
    <2>5. /\ InFlight' = InFlight \cup {ps[i] : i \in DOMAIN ps}
          /\ (\A i \in DOMAIN toClient : toClient[i].type = "New" => i = 1)
               => \A i \in DOMAIN toClient' : toClient'[i].type = "New" => i = 1
      BY <1>0, <2>1, <2>3, <2>4, ReplyInFlight
    <2>6. GreetingFirst' /\ BosNeedsCookie' /\ KeyFromLogin'
      BY <2>1, <2>4, <2>5 DEF SecretsInv, GreetingFirst, BosNeedsCookie,
                              KeyFromLogin
    <2>7. FreshCookies'
      BY <2>1, <2>4, <2>5 DEF SecretsInv, FreshCookies, Unseen
    <2> QED BY <2>1, <2>6, <2>7
            DEF SecretsInv, PasswordOnlyToLoginServer, CookieShownOnce
  <1>3. CASE ServerRejects
    <2>1. {Plain("Error"), Plain("EmptyClose"), Plain("Fin")} \subseteq Packet
      BY PlainIsPacket DEF PlainPacket
    <2> DEFINE ps == <<Plain("Error"), Plain("EmptyClose"), Plain("Fin")>>
    <2>2. ps \in Seq(Packet)
      BY <2>1
    <2>3. \A i \in DOMAIN ps : ps[i].type \notin {"New", "KeyResponse", "Redirect"}
      BY DEF Plain
    <2>4. sock = "connected" /\ Reply(ps) /\ UNCHANGED <<link, login, server>>
      BY <1>3 DEF ServerRejects, Reads
    <2> HIDE DEF ps
    <2> QED BY <2>2, <2>3, <2>4, QuietReply
  <1>4. CASE ServerAcceptsCookie
    <2>1. Plain("ServerReady") \in Packet
      BY PlainIsPacket DEF PlainPacket
    <2> DEFINE ps == <<Plain("ServerReady")>>
    <2>2. ps \in Seq(Packet)
      BY <2>1
    <2>3. \A i \in DOMAIN ps : ps[i].type \notin {"New", "KeyResponse", "Redirect"}
      BY DEF Plain
    <2>4. sock = "connected" /\ Reply(ps) /\ UNCHANGED <<link, login, server>>
      BY <1>4 DEF ServerAcceptsCookie, Reads
    <2> HIDE DEF ps
    <2> QED BY <2>2, <2>3, <2>4, QuietReply
  <1>5. CASE ServerSendsRates
    <2>0. PICK classes \in SUBSET RateClass, known \in BOOLEAN :
            Reply(<<[type |-> "RateInfo", classes |-> classes,
                     groupsKnown |-> known]>>)
      BY <1>5 DEF ServerSendsRates
    <2>1. [type |-> "RateInfo", classes |-> classes, groupsKnown |-> known]
            \in Packet
      BY DEF Packet
    <2> DEFINE ps == <<[type |-> "RateInfo", classes |-> classes,
                        groupsKnown |-> known]>>
    <2>2. ps \in Seq(Packet)
      BY <2>1
    <2>3. \A i \in DOMAIN ps : ps[i].type \notin {"New", "KeyResponse", "Redirect"}
      OBVIOUS
    <2>4. sock = "connected" /\ Reply(ps) /\ UNCHANGED <<link, login, server>>
      BY <1>5, <2>0 DEF ServerSendsRates, Reads
    <2> HIDE DEF ps
    <2> QED BY <2>2, <2>3, <2>4, QuietReply
  <1>6. CASE ServerSendsList
    <2>0. PICK n \in 1 .. MaxListPackets : \E lists \in [1 .. n -> List] :
            Reply([i \in 1 .. n |-> [type |-> "ContactList", list |-> lists[i]]])
      BY <1>6 DEF ServerSendsList
    <2>1. PICK lists \in [1 .. n -> List] :
            Reply([i \in 1 .. n |-> [type |-> "ContactList", list |-> lists[i]]])
      BY <2>0
    <2> DEFINE ps == [i \in 1 .. n |-> [type |-> "ContactList",
                                        list |-> lists[i]]]
    <2>2. \A i \in 1 .. n : [type |-> "ContactList", list |-> lists[i]] \in Packet
      BY DEF Packet
    <2>3. ps \in Seq(Packet)
      BY <2>2, OscarLoginAssumption
    <2>4. \A i \in DOMAIN ps : ps[i].type \notin {"New", "KeyResponse", "Redirect"}
      OBVIOUS
    <2>5. sock = "connected" /\ Reply(ps) /\ UNCHANGED <<link, login, server>>
      BY <1>6, <2>1 DEF ServerSendsList, Reads
    <2> HIDE DEF ps
    <2> QED BY <2>3, <2>4, <2>5, QuietReply
  <1>7. CASE ServerAnswers
    <2>1. out[read + 1].type \in DOMAIN Answer
      BY <1>7 DEF ServerAnswers, Reads
    <2> DEFINE answer == Answer[out[read + 1].type]
    <2>2. answer \in PlainPacket /\ answer \notin {"New", "KeyResponse", "Redirect"}
      BY <2>1, AnswerKinds DEF PlainPacket
    <2> DEFINE ps == <<Plain(answer)>>
    <2>3. Plain(answer) \in Packet /\ Plain(answer).type = answer
      BY <2>2, PlainIsPacket DEF Plain
    <2>4. ps \in Seq(Packet)
      BY <2>3
    <2>5. \A i \in DOMAIN ps : ps[i].type \notin {"New", "KeyResponse", "Redirect"}
      BY <2>2, <2>3
    <2>6. sock = "connected" /\ Reply(ps) /\ UNCHANGED <<link, login, server>>
      BY <1>7 DEF ServerAnswers, Reads
    <2> HIDE DEF ps
    <2> QED BY <2>4, <2>5, <2>6, QuietReply
  <1>8. CASE ServerSilent
    <2>1. UNCHANGED <<toClient, link, login, server>>
      BY <1>8 DEF ServerSilent
    <2>2. GreetingFirst' /\ InFlight' = InFlight
      BY <2>1 DEF SecretsInv, GreetingFirst, InFlight
    <2> QED BY <2>1, <2>2, QuietStep
  <1>9. CASE ServerTellsOnline
    <2>0. PICK n \in 0 .. 1 : \E buddies \in [1 .. n -> Buddy] :
            Reply([i \in 1 .. n |-> [type |-> "UserOnline",
                                     buddy |-> buddies[i]]])
      BY <1>9 DEF ServerTellsOnline
    <2>1. PICK buddies \in [1 .. n -> Buddy] :
            Reply([i \in 1 .. n |-> [type |-> "UserOnline",
                                     buddy |-> buddies[i]]])
      BY <2>0
    <2> DEFINE ps == [i \in 1 .. n |-> [type |-> "UserOnline",
                                        buddy |-> buddies[i]]]
    <2>2. \A i \in 1 .. n : [type |-> "UserOnline", buddy |-> buddies[i]]
                              \in Packet
      BY DEF Packet
    <2>3. ps \in Seq(Packet)
      BY <2>2
    <2>4. \A i \in DOMAIN ps : ps[i].type \notin {"New", "KeyResponse", "Redirect"}
      OBVIOUS
    <2>5. sock = "connected" /\ Reply(ps) /\ UNCHANGED <<link, login, server>>
      BY <1>9, <2>1 DEF ServerTellsOnline, Reads
    <2> HIDE DEF ps
    <2> QED BY <2>3, <2>4, <2>5, QuietReply
  <1> QED BY <1>1, <1>2, <1>3, <1>4, <1>5, <1>6, <1>7, <1>8, <1>9 DEF Server

\* A handler that writes requests and leaves connection and secrets alone.
LEMMA QuietHandler ==
    ASSUME SecretsInv, TypeOK', sock = "connected", toClient # <<>>,
           toClient' = Tail(toClient), UNCHANGED <<link, login, server>>
    PROVE  SecretsInv'
  <1>1. /\ InFlight' \subseteq InFlight
        /\ \A p \in InFlight' : p.type # "New"
    BY TailInFlight DEF SecretsInv, TypeOK
  <1>2. GreetingFirst'
    BY <1>1 DEF GreetingFirst, InFlight, link
  <1> QED BY <1>1, <1>2, QuietStep

\* After a greeting nothing greets again, and what is on its way was there.
LEMMA AfterGreeting ==
    ASSUME SecretsInv, Gets({"New"}), toClient' = Tail(toClient),
           UNCHANGED link
    PROVE  /\ InFlight' \subseteq InFlight
           /\ GreetingFirst' /\ BosNeedsCookie' /\ KeyFromLogin'
           /\ cookie = NoCookie => host = LoginHost
  <1>1. /\ InFlight' \subseteq InFlight /\ Head(toClient) \in InFlight
        /\ \A p \in InFlight' : p.type # "New"
    BY TailInFlight DEF SecretsInv, TypeOK, Gets
  <1>2. GreetingFirst' /\ BosNeedsCookie' /\ KeyFromLogin'
    BY <1>1 DEF GreetingFirst, BosNeedsCookie, KeyFromLogin, InFlight, link, Gets,
                SecretsInv
  <1>3. cookie = NoCookie => host = LoginHost
    BY <1>1 DEF SecretsInv, BosNeedsCookie, Gets
  <1> QED BY <1>1, <1>2, <1>3

\* The handlers that show a secret, and the one that takes a cookie.
LEMMA SecretsHandlers ==
    ASSUME SecretsInv, TypeOK',
           \/ HandleNewWithCookie \/ HandleNewSignOn
           \/ HandleAuthKeyResponse \/ HandleLoginRedirect
    PROVE  SecretsInv'
  <1> USE DEF link, login, server
  <1>1. CASE HandleNewWithCookie
    <2>1. /\ Gets({"New"}) /\ toClient' = Tail(toClient) /\ cookie # NoCookie
          /\ shown' = shown \cup {[secret |-> cookie, conn |-> conn, host |-> host]}
          /\ cookie' = NoCookie
          /\ UNCHANGED <<sock, host, conn, issued, cookieHost>>
      BY <1>1 DEF HandleNewWithCookie, Shows
    <2>2. Unseen(cookie) /\ cookie # Password
      BY <2>1 DEF SecretsInv, FreshCookies, Unseen, NoCookie, Password
    <2>3. /\ Head(toClient) \in InFlight /\ InFlight' \subseteq InFlight
          /\ \A p \in InFlight' : p.type # "New"
      BY <2>1, TailInFlight DEF SecretsInv, TypeOK, Gets
    <2>4. GreetingFirst' /\ BosNeedsCookie' /\ KeyFromLogin'
      BY <2>1, <2>3 DEF GreetingFirst, BosNeedsCookie, KeyFromLogin, InFlight,
                        Gets, SecretsInv
    <2>5. FreshCookies'
      <3>1. \A q \in InFlight' : q.type = "Redirect"
                => Unseen(q.cookie)' /\ q.cookie # cookie'
        BY <2>1, <2>3 DEF SecretsInv, FreshCookies, Unseen, Cookie, NoCookie
      <3>2. \A s \in shown' : s.secret <= issued'
        BY <2>1, <2>2 DEF SecretsInv, FreshCookies, Unseen
      <3> QED BY <2>1, <3>1, <3>2 DEF FreshCookies
    <2>6. PasswordOnlyToLoginServer'
      BY <2>1, <2>2 DEF SecretsInv, PasswordOnlyToLoginServer
    <2>7. CookieShownOnce'
      BY <2>1, <2>2 DEF SecretsInv, CookieShownOnce, Unseen
    <2> QED BY <2>4, <2>5, <2>6, <2>7 DEF SecretsInv
  <1>2. CASE HandleNewSignOn
    <2>1. /\ Gets({"New"}) /\ toClient' = Tail(toClient) /\ cookie = NoCookie
          /\ shown' = shown \cup {[secret |-> Password, conn |-> conn, host |-> host]}
          /\ cookie' = cookie
          /\ UNCHANGED <<sock, host, conn, issued, cookieHost>>
      BY <1>2 DEF HandleNewSignOn, Shows, Writes
    <2>2. /\ InFlight' \subseteq InFlight
          /\ GreetingFirst' /\ BosNeedsCookie' /\ KeyFromLogin'
          /\ host = LoginHost
      BY <2>1, AfterGreeting
    <2>3. FreshCookies'
      <3>1. \A c : Unseen(c) => Unseen(c)'
        BY <2>1 DEF Unseen, Cookie, Password
      <3>2. \A s \in shown' : s.secret <= issued'
        BY <2>1 DEF SecretsInv, FreshCookies, Password, TypeOK
      <3> QED BY <2>1, <2>2, <3>1, <3>2 DEF SecretsInv, FreshCookies
    <2>4. PasswordOnlyToLoginServer' /\ CookieShownOnce'
      BY <2>1, <2>2 DEF SecretsInv, PasswordOnlyToLoginServer, CookieShownOnce
    <2> QED BY <2>2, <2>3, <2>4 DEF SecretsInv
  <1>3. CASE HandleAuthKeyResponse
    <2>1. /\ Gets({"KeyResponse"}) /\ toClient' = Tail(toClient)
          /\ \/ shown' = shown \cup
                    {[secret |-> Password, conn |-> conn, host |-> host]}
             \/ shown' = shown
          /\ UNCHANGED <<sock, host, conn, cookie, issued, cookieHost>>
      BY <1>3 DEF HandleAuthKeyResponse, Shows, Writes
    <2>2. /\ InFlight' \subseteq InFlight /\ Head(toClient) \in InFlight
          /\ \A p \in InFlight' : p.type # "New"
      BY <2>1, TailInFlight DEF SecretsInv, TypeOK, Gets
    <2>3. host = LoginHost
      BY <2>1, <2>2 DEF SecretsInv, KeyFromLogin, Gets
    <2>4. GreetingFirst' /\ BosNeedsCookie' /\ KeyFromLogin'
      BY <2>1, <2>2, <2>3 DEF GreetingFirst, BosNeedsCookie, KeyFromLogin,
                              InFlight, Gets, SecretsInv
    <2>5. FreshCookies'
      <3>1. \A c : Unseen(c) => Unseen(c)'
        BY <2>1 DEF Unseen, Cookie, Password
      <3>2. \A s \in shown' : s.secret <= issued'
        BY <2>1 DEF SecretsInv, FreshCookies, Password, TypeOK
      <3> QED BY <2>1, <2>2, <3>1, <3>2 DEF SecretsInv, FreshCookies
    <2>6. PasswordOnlyToLoginServer' /\ CookieShownOnce'
      BY <2>1, <2>3 DEF SecretsInv, PasswordOnlyToLoginServer, CookieShownOnce
    <2> QED BY <2>4, <2>5, <2>6 DEF SecretsInv
  <1>4. CASE HandleLoginRedirect
    <2>1. /\ Gets({"Redirect"}) /\ toClient' = <<>>
          /\ sock' = "connecting"
          /\ cookie' = Head(toClient).cookie
          /\ UNCHANGED <<shown, issued, cookieHost>>
      BY <1>4 DEF HandleLoginRedirect, ConnectToHost
    <2>2. Head(toClient) \in InFlight
      BY <2>1 DEF Gets, InFlight, SecretsInv, TypeOK
    <2>3. Unseen(Head(toClient).cookie)
      BY <2>1, <2>2 DEF Gets, SecretsInv, FreshCookies
    <2>4. InFlight' = {} /\ GreetingFirst' /\ KeyFromLogin'
      BY <2>1, EmptyWire
    <2>5. cookie' # NoCookie
      BY <2>1, <2>3 DEF Unseen, Cookie, NoCookie
    <2>6. BosNeedsCookie' /\ FreshCookies'
      BY <2>1, <2>3, <2>4, <2>5 DEF BosNeedsCookie, FreshCookies, Unseen,
                                    SecretsInv
    <2> QED BY <2>1, <2>4, <2>6
            DEF SecretsInv, PasswordOnlyToLoginServer, CookieShownOnce
  <1> QED BY <1>1, <1>2, <1>3, <1>4

LEMMA SecretsClient ==
    ASSUME SecretsInv, TypeOK', Client
    PROVE  SecretsInv'
  <1>1. CASE \/ HandleNewWithCookie \/ HandleNewSignOn
             \/ HandleAuthKeyResponse \/ HandleLoginRedirect
    BY <1>1, SecretsHandlers
  <1>2. CASE \/ HandleNewMd5 \/ HandleServerReady \/ HandleCapabilitiesAck
             \/ HandleRateInfo \/ HandleContactList \/ HandleRights
             \/ HandleIcbmParameters \/ HandleUserOnline \/ HandleOther
    <2>1. /\ sock = "connected" /\ toClient # <<>> /\ toClient' = Tail(toClient)
          /\ UNCHANGED <<link, login, server>>
      BY <1>2 DEF HandleNewMd5, HandleServerReady, HandleCapabilitiesAck,
                  HandleRateInfo, HandleContactList, HandleRights,
                  HandleIcbmParameters, HandleUserOnline, HandleOther, Gets,
                  Writes
    <2> QED BY <2>1, QuietHandler
  <1>3. CASE HandleFin
    <2>1. /\ toClient' = <<>> /\ sock' = "unconnected"
          /\ UNCHANGED <<host, conn, cookie, shown, issued, cookieHost>>
      BY <1>3 DEF HandleFin, Disconnect, login, server
    <2>2. InFlight' = {} /\ GreetingFirst' /\ KeyFromLogin'
      BY <2>1, EmptyWire
    <2> QED BY <2>1, <2>2
            DEF SecretsInv, BosNeedsCookie, FreshCookies, Unseen,
                PasswordOnlyToLoginServer, CookieShownOnce
  <1> QED BY <1>1, <1>2, <1>3 DEF Client

LEMMA SecretsStuttering ==
    ASSUME SecretsInv, UNCHANGED vars
    PROVE  SecretsInv'
  BY DEF vars, net, link, login, server, service, user, SecretsInv, TypeOK,
         GreetingFirst, BosNeedsCookie, KeyFromLogin, FreshCookies, Unseen,
         InFlight, PasswordOnlyToLoginServer, CookieShownOnce

LEMMA SecretsStep == SecretsInv /\ [Next]_vars => SecretsInv'
  <1> SUFFICES ASSUME SecretsInv, [Next]_vars PROVE SecretsInv'
    OBVIOUS
  <1>1. CASE Next
    <2>1. TypeOK'
      BY <1>1, TypeEnvironment, TypeClient DEF Next, SecretsInv
    <2> QED BY <1>1, <2>1, SecretsLink, SecretsServer, SecretsClient DEF Next
  <1>2. CASE UNCHANGED vars
    BY <1>2, SecretsStuttering
  <1> QED BY <1>1, <1>2

LEMMA SecretsInvariant == Spec => []SecretsInv
  <1> QED BY SecretsStep, SecretsInit, PTL DEF Spec

\* However often connections fail, are refused or redirected, the password (or
\* its digest) is shown to the login server only.
THEOREM PasswordSafe == Spec => []PasswordOnlyToLoginServer
  <1>1. SecretsInv => PasswordOnlyToLoginServer
    BY DEF SecretsInv
  <1> QED BY <1>1, SecretsInvariant, PTL

\* No cookie is shown on two connections.
THEOREM CookieSafe == Spec => []CookieShownOnce
  <1>1. SecretsInv => CookieShownOnce
    BY DEF SecretsInv
  <1> QED BY <1>1, SecretsInvariant, PTL

-----------------------------------------------------------------------------
(* The order of the services.  Nothing in the client remembers how far the *)
(* exchange has come; what keeps it in order is that each packet a request *)
(* waits for is the answer to one that was made once: until the server has *)
(* read that one there is no such packet on the wire, afterwards one, and  *)
(* the handler that takes it is the only one to write what waits for it.   *)

Coming(p) == {i \in DOMAIN toClient : toClient[i].type = p}

AtMostOne(S) == \A x, y \in S : x = y

\* The server sends only what it was asked for.
Caused == /\ \A p \in DOMAIN AnswerTo : Coming(p) # {} => Answered(AnswerTo[p])
          /\ Coming("ContactList") # {} => Answered("SsiListRequest")

OneReply == \A p \in DOMAIN AnswerTo : AtMostOne(Coming(p))

\* The greeting comes first, before anything was written.
Greeted == /\ sock = "connecting" => toClient = <<>> /\ out = <<>>
           /\ Coming("New") # {} => Len(toClient) = 1 /\ out = <<>>

\* ServiceOrder, part by part.
Waited == \A t \in DOMAIN WaitsFor : Wrote(t) # {} => Heard(WaitsFor[t])
AskedOnce == \A t \in DOMAIN WaitsFor \cup {"Cookie"} : AtMostOne(Wrote(t))
ActivatedLast == Wrote("Activate") # {} => Answered("SsiListRequest")

OrderInv == /\ TypeOK /\ Greeted /\ Caused /\ OneReply
            /\ Waited /\ AskedOnce /\ ActivatedLast

\* Requests, what they wait for, and what that answers.
LEMMA Waiting ==
    /\ \A t \in DOMAIN WaitsFor : WaitsFor[t] \in DOMAIN AnswerTo
    /\ \A p \in DOMAIN AnswerTo : AnswerTo[p] \in DOMAIN WaitsFor \cup {"Cookie"}
    /\ "New" \notin DOMAIN AnswerTo
  BY DEF WaitsFor, AnswerTo

LEMMA HeardIs == \A p : Heard(p) <=> Answered(AnswerTo[p]) /\ Coming(p) = {}
  BY DEF Heard, Coming

LEMMA OrderIsServiceOrder == OrderInv => ServiceOrder
  <1> SUFFICES ASSUME OrderInv PROVE ServiceOrder
    OBVIOUS
  <1>1. ASSUME NEW t \in DOMAIN WaitsFor \cup {"Cookie"}
        PROVE  Cardinality(Wrote(t)) <= 1
    <2>1. AtMostOne(Wrote(t))
      BY DEF OrderInv, AskedOnce
    <2>2. CASE Wrote(t) = {}
      BY <2>2, FS_EmptySet
    <2>3. ASSUME NEW x \in Wrote(t)
          PROVE  Cardinality(Wrote(t)) <= 1
      <3>1. Wrote(t) = {x}
        BY <2>1 DEF AtMostOne
      <3> QED BY <3>1, FS_Singleton
    <2> QED BY <2>2, <2>3
  <1> QED BY <1>1 DEF ServiceOrder, OrderInv, Waited, ActivatedLast

\* A step that opens or ends a connection.
LEMMA OrderReset ==
    ASSUME TypeOK', toClient' = <<>>, out' = <<>>
    PROVE  OrderInv'
  <1>1. \A p : Coming(p)' = {} /\ Wrote(p)' = {}
    BY DEF Coming, Wrote
  <1> QED BY <1>1 DEF OrderInv, Greeted, Caused, OneReply, Waited, AskedOnce,
                      ActivatedLast, AtMostOne

LEMMA OrderInit == Init => OrderInv
  <1> SUFFICES ASSUME Init PROVE OrderInv
    OBVIOUS
  <1>1. toClient = <<>> /\ out = <<>> /\ TypeOK
    BY TypeInit DEF Init
  <1>2. \A p : Coming(p) = {} /\ Wrote(p) = {}
    BY <1>1 DEF Coming, Wrote
  <1> QED BY <1>1, <1>2 DEF OrderInv, Greeted, Caused, OneReply, Waited, AskedOnce,
                            ActivatedLast, AtMostOne

LEMMA OrderQuiet ==
    ASSUME OrderInv, TypeOK', UNCHANGED <<sock, host, cookieHost, net>>
    PROVE  OrderInv'
  <1>1. \A p : Coming(p)' = Coming(p) /\ Wrote(p)' = Wrote(p)
    BY DEF Coming, Wrote, net
  <1>2. \A t : Answered(t)' <=> Answered(t)
    BY <1>1 DEF Answered, Good, net
  <1>3. \A p : Heard(p)' <=> Heard(p)
    <2>1. \A p : Heard(p)' <=> Answered(AnswerTo[p])' /\ Coming(p)' = {}
      BY DEF Heard, Coming
    <2> QED BY <1>1, <1>2, <2>1, HeardIs
  <1> QED BY <1>1, <1>2, <1>3
          DEF OrderInv, Greeted, Caused, OneReply, Waited, AskedOnce, ActivatedLast,
              AtMostOne, net

\* The login server may make another cookie.
MoreCookies ==
    cookieHost' = cookieHost \/ \E b \in BosHost : cookieHost' = Append(cookieHost, b)

\* It makes none of the old ones bad.
LEMMA GoodStays ==
    ASSUME TypeOK, host' = host, MoreCookies
    PROVE  \A c : Good(c) => Good(c)'
  <1> SUFFICES ASSUME NEW c, c \in DOMAIN cookieHost, cookieHost[c] = host
               PROVE  c \in DOMAIN cookieHost' /\ cookieHost'[c] = host'
    BY DEF Good
  <1>1. CASE cookieHost' = cookieHost
    BY <1>1
  <1>2. ASSUME NEW b \in BosHost, cookieHost' = Append(cookieHost, b)
        PROVE  c \in DOMAIN cookieHost' /\ cookieHost'[c] = host'
    <2>1. cookieHost \in Seq(BosHost)
      BY DEF TypeOK
    <2>2. c \in 1 .. Len(cookieHost) /\ Len(cookieHost) \in Nat
      BY <2>1
    <2>3. DOMAIN cookieHost' = 1 .. Len(cookieHost) + 1 /\ cookieHost'[c] = cookieHost[c]
      BY <1>2, <2>1, <2>2
    <2> QED BY <2>2, <2>3
  <1> QED BY <1>1, <1>2 DEF MoreCookies

\* What was answered stays answered while the connection goes on.
LEMMA AnsweredStays ==
    ASSUME TypeOK, host' = host, MoreCookies, read' \in Nat, read <= read',
           \A i \in DOMAIN out : i \in DOMAIN out' /\ out'[i] = out[i],
           NEW t, Answered(t)
    PROVE  Answered(t)'
  <1>1. PICK i \in Wrote(t) : i <= read /\ (t = "Cookie" => Good(out[i].cookie))
    BY DEF Answered
  <1>2. i \in Wrote(t)' /\ out'[i] = out[i]
    BY <1>1 DEF Wrote
  <1>3. i <= read'
    <2>1. i \in Nat /\ read \in Nat
      BY <1>1 DEF TypeOK, Wrote
    <2> QED BY <1>1, <2>1
  <1>4. \A c : Good(c) => Good(c)'
    BY GoodStays
  <1> QED BY <1>1, <1>2, <1>3, <1>4 DEF Answered

\* The server reads a request and answers it with `ps'.
LEMMA OrderReads ==
    ASSUME OrderInv, TypeOK', sock = "connected", UNCHANGED <<sock, host, out>>,
           MoreCookies, read < Len(out), read' = read + 1,
           NEW ps \in Seq(Packet), toClient' = toClient \o ps,
           NEW q, q = out[read + 1].type,
           \A i \in DOMAIN ps : ps[i].type \in DOMAIN AnswerTo =>
               /\ Len(ps) = 1 /\ AnswerTo[ps[i].type] = q
               /\ q = "Cookie" => Good(out[read + 1].cookie),
           \A i \in DOMAIN ps : ps[i].type = "ContactList" => q = "SsiListRequest",
           \A i \in DOMAIN ps : ps[i].type # "New"
    PROVE  OrderInv'
  <1>1. /\ toClient \in Seq(Packet) /\ out \in Seq(Written) /\ read \in 0 .. Len(out)
        /\ Len(out) \in Nat /\ Len(toClient) \in Nat /\ Len(ps) \in Nat
        /\ DOMAIN toClient = 1 .. Len(toClient) /\ DOMAIN ps = 1 .. Len(ps)
        /\ DOMAIN out = 1 .. Len(out)
    BY DEF OrderInv, TypeOK
  <1>2. /\ DOMAIN toClient' = 1 .. Len(toClient) + Len(ps)
        /\ \A i \in DOMAIN toClient : toClient'[i] = toClient[i]
        /\ \A i \in DOMAIN toClient' :
              i \in DOMAIN toClient \/ (/\ i - Len(toClient) \in DOMAIN ps
                                        /\ toClient'[i] = ps[i - Len(toClient)])
    BY <1>1
  <1>3. read + 1 \in Wrote(q) /\ out # <<>>
    BY <1>1 DEF Wrote
  <1>4. \A t : Wrote(t)' = Wrote(t)
    BY DEF Wrote
  <1>5. \A t : Answered(t) => Answered(t)'
    BY <1>1, AnsweredStays DEF OrderInv
  <1>6. \A p : \A i \in Coming(p)' :
           i \in Coming(p) \/ (/\ i - Len(toClient) \in DOMAIN ps
                               /\ ps[i - Len(toClient)].type = p)
    BY <1>2 DEF Coming
  \* Nobody asked for the answer before.
  <1>7. ASSUME NEW p \in DOMAIN AnswerTo, NEW k \in DOMAIN ps, ps[k].type = p
        PROVE  /\ AnswerTo[p] = q /\ Len(ps) = 1
               /\ ~Answered(q) /\ Answered(q)' /\ Coming(p) = {}
    <2>1. /\ AnswerTo[p] = q /\ Len(ps) = 1
          /\ q = "Cookie" => Good(out[read + 1].cookie)
      BY <1>7
    <2>2. AtMostOne(Wrote(q))
      BY <2>1, Waiting DEF OrderInv, AskedOnce
    <2>3. ~Answered(q)
      <3>1. \A i \in Wrote(q) : i = read + 1
        BY <1>3, <2>2 DEF AtMostOne
      <3> QED BY <1>1, <3>1 DEF Answered
    <2>4. Answered(q)'
      <3>1. \A c : Good(c) => Good(c)'
        BY GoodStays DEF OrderInv
      <3>2. PICK k1 : k1 = read + 1
        OBVIOUS
      <3>3. k1 \in Wrote(q)' /\ k1 <= read' /\ out'[k1] = out[k1]
        BY <1>1, <1>3, <1>4, <3>2
      <3>4. q = "Cookie" => Good(out[k1].cookie)
        BY <2>1, <3>2
      <3> QED BY <3>1, <3>3, <3>4 DEF Answered
    <2> QED BY <2>1, <2>3, <2>4 DEF OrderInv, Caused
  <1>8. Caused'
    <2>1. ASSUME NEW p \in DOMAIN AnswerTo, NEW i \in Coming(p)'
          PROVE  Answered(AnswerTo[p])'
      BY <1>5, <1>6, <1>7 DEF OrderInv, Caused
    <2>2. ASSUME NEW i \in Coming("ContactList")'
          PROVE  Answered("SsiListRequest")'
      <3>1. CASE i \in Coming("ContactList")
        BY <1>5, <3>1 DEF OrderInv, Caused
      <3>2. CASE i \notin Coming("ContactList")
        <4>1. q = "SsiListRequest"
          BY <1>6, <3>2
        <4>2. read + 1 <= read'
          BY <1>1
        <4> QED BY <1>3, <1>4, <4>1, <4>2 DEF Answered
      <3> QED BY <3>1, <3>2
    <2> QED BY <2>1, <2>2 DEF Caused
  <1>9. OneReply'
    <2> SUFFICES ASSUME NEW p \in DOMAIN AnswerTo, NEW i \in Coming(p)', NEW j \in Coming(p)'
                 PROVE  i = j
      BY DEF OneReply, AtMostOne
    <2>1. CASE i \in Coming(p) /\ j \in Coming(p)
      BY <2>1 DEF OrderInv, OneReply, AtMostOne
    <2>2. CASE ~(i \in Coming(p) /\ j \in Coming(p))
      <3>1. Len(ps) = 1 /\ Coming(p) = {}
        BY <1>6, <1>7, <2>2
      <3>2. i - Len(toClient) = 1 /\ j - Len(toClient) = 1
        BY <1>1, <1>6, <3>1
      <3>3. i \in Int /\ j \in Int
        BY <1>1, <1>2 DEF Coming
      <3> QED BY <1>1, <3>2, <3>3
    <2> QED BY <2>1, <2>2
  <1>10. Waited'
    <2> SUFFICES ASSUME NEW t \in DOMAIN WaitsFor, Wrote(t) # {}
                 PROVE  Heard(WaitsFor[t])'
      BY <1>4 DEF Waited
    <2>1. Heard(WaitsFor[t]) /\ WaitsFor[t] \in DOMAIN AnswerTo
      BY Waiting DEF OrderInv, Waited
    <2>2. Answered(AnswerTo[WaitsFor[t]]) /\ Coming(WaitsFor[t]) = {}
      BY <2>1, HeardIs
    <2>3. Coming(WaitsFor[t])' = {}
      BY <1>6, <1>7, <2>1, <2>2
    <2>4. Heard(WaitsFor[t])' <=>
             Answered(AnswerTo[WaitsFor[t]])' /\ Coming(WaitsFor[t])' = {}
      BY DEF Heard, Coming
    <2> QED BY <1>5, <2>2, <2>3, <2>4
  <1>11. AskedOnce' /\ ActivatedLast'
    BY <1>4, <1>5 DEF OrderInv, AskedOnce, ActivatedLast, AtMostOne
  <1>12. Greeted'
    BY <1>3, <1>6 DEF OrderInv, Greeted
  <1> QED BY <1>8, <1>9, <1>10, <1>11, <1>12 DEF OrderInv

\* What a handler may write, having got a packet of type h: what waits for it.
Fits(h, w) ==
    /\ \A i \in DOMAIN w :
          /\ w[i].type \in DOMAIN WaitsFor => WaitsFor[w[i].type] = h
          /\ w[i].type = "Cookie" => h = "New"
          /\ w[i].type = "Activate" => h = "ContactList"
    /\ \A i, j \in DOMAIN w : w[i].type = w[j].type => i = j

\* A handler takes the first packet and writes `w'.
LEMMA OrderWrites ==
    ASSUME OrderInv, TypeOK', sock = "connected",
           UNCHANGED <<sock, host, cookieHost, read>>,
           toClient # <<>>, toClient' = Tail(toClient),
           NEW w \in Seq(Written), out' = out \o w, Fits(Head(toClient).type, w)
    PROVE  OrderInv'
  <1> DEFINE h == Head(toClient).type
  <1>1. /\ toClient \in Seq(Packet) /\ out \in Seq(Written) /\ read \in 0 .. Len(out)
        /\ Len(out) \in Nat /\ Len(toClient) \in Nat \ {0} /\ Len(w) \in Nat
        /\ DOMAIN toClient = 1 .. Len(toClient) /\ DOMAIN w = 1 .. Len(w)
        /\ DOMAIN out = 1 .. Len(out) /\ h = toClient[1].type
    BY DEF OrderInv, TypeOK
  <1>2. /\ DOMAIN toClient' = 1 .. Len(toClient) - 1
        /\ \A i \in DOMAIN toClient' : i + 1 \in DOMAIN toClient
                                       /\ toClient'[i] = toClient[i + 1]
    BY <1>1
  <1>3. /\ DOMAIN out' = 1 .. Len(out) + Len(w)
        /\ \A i \in DOMAIN out : i \in DOMAIN out' /\ out'[i] = out[i]
        /\ \A i \in DOMAIN out' :
              i \in DOMAIN out \/ (/\ i - Len(out) \in DOMAIN w
                                   /\ out'[i] = w[i - Len(out)])
    BY <1>1
  <1>4. Fits(h, w) /\ 1 \in Coming(h)
    BY <1>1 DEF Coming
  <1> HIDE DEF h
  <1>5. /\ \A p : \A i \in Coming(p)' : i + 1 \in Coming(p) /\ i + 1 # 1 /\ i \in Nat
        /\ \A p \in DOMAIN AnswerTo : p = h => Coming(p)' = {}
    <2>1. \A p : \A i \in Coming(p)' : i + 1 \in Coming(p) /\ i + 1 # 1 /\ i \in Nat
      BY <1>1, <1>2 DEF Coming
    <2> QED BY <1>4, <2>1 DEF OrderInv, OneReply, AtMostOne
  <1>6. \A t : Answered(t) => Answered(t)'
    <2>1. MoreCookies /\ read' \in Nat /\ read <= read'
      BY <1>1 DEF MoreCookies
    <2> QED BY <1>3, <2>1, AnsweredStays DEF OrderInv
  <1>7. /\ \A t : \A i \in Wrote(t)' :
              i \in Wrote(t) \/ (/\ i - Len(out) \in DOMAIN w
                                 /\ w[i - Len(out)].type = t)
        /\ \A t : \A i \in Wrote(t)' : i \in Nat
    BY <1>1, <1>3 DEF Wrote
  <1>8. Caused'
    BY <1>5, <1>6 DEF OrderInv, Caused
  <1>9. OneReply'
    <2> SUFFICES ASSUME NEW p \in DOMAIN AnswerTo, NEW i \in Coming(p)', NEW j \in Coming(p)'
                 PROVE  i = j
      BY DEF OneReply, AtMostOne
    <2>1. i + 1 = j + 1 /\ i \in Nat /\ j \in Nat
      BY <1>5 DEF OrderInv, OneReply, AtMostOne
    <2> QED BY <2>1
  \* What is written now waits for what was just taken.
  <1>10. ASSUME NEW t \in DOMAIN WaitsFor, NEW k \in DOMAIN w, w[k].type = t
         PROVE  WaitsFor[t] = h /\ h \in DOMAIN AnswerTo /\ Wrote(t) = {}
    <2>1. WaitsFor[t] = h /\ h \in DOMAIN AnswerTo
      BY <1>4, <1>10, Waiting DEF Fits
    <2>2. ~Heard(h)
      BY <1>4, HeardIs
    <2> QED BY <2>1, <2>2 DEF OrderInv, Waited
  <1>11. Waited'
    <2> SUFFICES ASSUME NEW t \in DOMAIN WaitsFor, NEW i \in Wrote(t)'
                 PROVE  Heard(WaitsFor[t])'
      BY DEF Waited
    <2>1. Answered(AnswerTo[WaitsFor[t]]) /\ Coming(WaitsFor[t])' = {}
      <3>1. CASE i \in Wrote(t)
        <4>1. Heard(WaitsFor[t])
          BY <3>1 DEF OrderInv, Waited
        <4> QED BY <1>5, <4>1, HeardIs
      <3>2. CASE i \notin Wrote(t)
        <4>1. WaitsFor[t] = h /\ h \in DOMAIN AnswerTo
          BY <1>7, <1>10, <3>2
        <4> QED BY <1>4, <1>5, <4>1 DEF OrderInv, Caused
      <3> QED BY <3>1, <3>2
    <2>2. Heard(WaitsFor[t])' <=>
             Answered(AnswerTo[WaitsFor[t]])' /\ Coming(WaitsFor[t])' = {}
      BY DEF Heard, Coming
    <2> QED BY <1>6, <2>1, <2>2
  <1>12. AskedOnce'
    <2> SUFFICES ASSUME NEW t \in DOMAIN WaitsFor \cup {"Cookie"},
                        NEW i \in Wrote(t)', NEW j \in Wrote(t)'
                 PROVE  i = j
      BY DEF AskedOnce, AtMostOne
    <2>1. CASE i \in Wrote(t) /\ j \in Wrote(t)
      BY <2>1 DEF OrderInv, AskedOnce, AtMostOne
    <2>2. CASE ~(i \in Wrote(t) /\ j \in Wrote(t))
      <3>1. PICK k \in DOMAIN w : w[k].type = t
        BY <1>7, <2>2
      <3>2. Wrote(t) = {}
        <4>1. CASE t \in DOMAIN WaitsFor
          BY <1>10, <3>1, <4>1
        <4>2. CASE t = "Cookie"
          <5>1. out = <<>>
            BY <1>4, <3>1, <4>2 DEF Fits, OrderInv, Greeted
          <5> QED BY <5>1 DEF Wrote
        <4> QED BY <4>1, <4>2
      <3>3. /\ i - Len(out) \in DOMAIN w /\ w[i - Len(out)].type = t
            /\ j - Len(out) \in DOMAIN w /\ w[j - Len(out)].type = t
        BY <1>7, <3>2
      <3>4. i - Len(out) = j - Len(out)
        BY <1>4, <3>3 DEF Fits
      <3> QED BY <1>1, <1>7, <3>4
    <2> QED BY <2>1, <2>2
  <1>13. ActivatedLast'
    <2> SUFFICES ASSUME NEW i \in Wrote("Activate")'
                 PROVE  Answered("SsiListRequest")'
      BY DEF ActivatedLast
    <2>1. CASE i \in Wrote("Activate")
      BY <1>6, <2>1 DEF OrderInv, ActivatedLast
    <2>2. CASE i \notin Wrote("Activate")
      <3>1. h = "ContactList"
        BY <1>4, <1>7, <2>2 DEF Fits
      <3> QED BY <1>4, <1>6, <3>1 DEF OrderInv, Caused
    <2> QED BY <2>1, <2>2
  <1>14. Greeted'
    <2>1. Coming("New")' = {}
      <3> SUFFICES ASSUME NEW i \in Coming("New")' PROVE FALSE
        OBVIOUS
      <3>1. i + 1 \in Coming("New") /\ i + 1 # 1
        BY <1>5
      <3>2. Len(toClient) = 1
        BY <3>1 DEF OrderInv, Greeted
      <3> QED BY <1>1, <3>1, <3>2 DEF Coming
    <2> QED BY <2>1 DEF Greeted
  <1> QED BY <1>8, <1>9, <1>11, <1>12, <1>13, <1>14 DEF OrderInv

\* A handler that writes plain messages.
LEMMA OrderPlain ==
    ASSUME OrderInv, TypeOK', sock = "connected",
           UNCHANGED <<sock, host, cookieHost>>, toClient # <<>>,
           NEW ts \in Seq(PlainWritten), Writes(ts),
           Fits(Head(toClient).type, PlainSeq(ts))
    PROVE  OrderInv'
  <1>1. PlainSeq(ts) \in Seq(Written)
    BY WrittenSeq
  <1> QED BY <1>1, OrderWrites DEF Writes

\* Nothing, one message, or two that wait for nothing.
LEMMA FitsFew ==
    ASSUME NEW h
    PROVE  /\ Fits(h, PlainSeq(<<>>))
           /\ \A t \in PlainWritten :
                 /\ t \in DOMAIN WaitsFor => WaitsFor[t] = h
                 /\ t = "Activate" => h = "ContactList"
                 => Fits(h, PlainSeq(<<t>>))
           /\ Fits(h, PlainSeq(<<"Hello", "KeyRequest">>))
  <1>1. Fits(h, PlainSeq(<<>>))
    BY DEF Fits, PlainSeq
  <1>2. ASSUME NEW t \in PlainWritten, t \in DOMAIN WaitsFor => WaitsFor[t] = h,
               t = "Activate" => h = "ContactList"
        PROVE  Fits(h, PlainSeq(<<t>>))
    <2>1. DOMAIN PlainSeq(<<t>>) = {1} /\ PlainSeq(<<t>>)[1].type = t
      BY DEF PlainSeq, Plain
    <2>2. t # "Cookie"
      BY DEF PlainWritten
    <2> HIDE DEF PlainSeq
    <2> QED BY <1>2, <2>1, <2>2 DEF Fits
  <1>3. Fits(h, PlainSeq(<<"Hello", "KeyRequest">>))
    <2> DEFINE w == PlainSeq(<<"Hello", "KeyRequest">>)
    <2>1. /\ DOMAIN w = 1 .. 2 /\ w[1].type = "Hello" /\ w[2].type = "KeyRequest"
      BY DEF PlainSeq, Plain
    <2> HIDE DEF w
    <2>2. \A i \in DOMAIN w : i = 1 \/ i = 2
      BY <2>1
    <2>3. \A i \in DOMAIN w : w[i].type \in {"Hello", "KeyRequest"}
      BY <2>1, <2>2
    <2>4. \A t \in {"Hello", "KeyRequest"} : t \notin DOMAIN WaitsFor \cup {"Cookie", "Activate"}
      BY DEF WaitsFor
    <2>5. \A i, j \in DOMAIN w : w[i].type = w[j].type => i = j
      BY <2>1, <2>2
    <2>6. Fits(h, w)
      BY <2>3, <2>4, <2>5 DEF Fits
    <2> QED BY <2>6 DEF w
  <1> QED BY <1>1, <1>2, <1>3

\* What HandleRateInfo writes: each request of loginStep2 once.
LEMMA FitsRates ==
    ASSUME NEW known \in BOOLEAN
    PROVE  LET ack == IF known THEN <<"RateAck">> ELSE <<>>
           IN  Fits("RateInfo", PlainSeq(ack \o LoginStep2 \o <<"SelfInfoRequest">>))
  <1> DEFINE ack == IF known THEN <<"RateAck">> ELSE <<>>
             ts == ack \o LoginStep2 \o <<"SelfInfoRequest">>
             w == PlainSeq(ts)
             asked == {"RateAck", "SsiRightsRequest", "SsiListRequest",
                       "LocationRightsRequest", "BuddyRightsRequest",
                       "PrivacyRightsRequest", "IcbmParametersRequest",
                       "SelfInfoRequest"}
  <1>1. \A t \in asked :
           t \notin {"Cookie", "Activate"} /\ t \in DOMAIN WaitsFor /\ WaitsFor[t] = "RateInfo"
    BY DEF WaitsFor
  <1>2. ASSUME \A i \in DOMAIN w : w[i].type \in asked,
               \A i, j \in DOMAIN w : w[i].type = w[j].type => i = j
        PROVE  Fits("RateInfo", w)
    BY <1>1, <1>2 DEF Fits
  <1>3. CASE known
    <2>1. /\ Len(ts) = 8 /\ DOMAIN ts = 1 .. 8
          /\ ts[1] = "RateAck" /\ ts[2] = "SsiRightsRequest" /\ ts[3] = "SsiListRequest"
          /\ ts[4] = "LocationRightsRequest" /\ ts[5] = "BuddyRightsRequest"
          /\ ts[6] = "PrivacyRightsRequest" /\ ts[7] = "IcbmParametersRequest"
          /\ ts[8] = "SelfInfoRequest"
      BY <1>3 DEF LoginStep2
    <2>2. DOMAIN w = 1 .. 8 /\ \A i \in 1 .. 8 : w[i].type = ts[i]
      BY <2>1 DEF PlainSeq, Plain
    <2> HIDE DEF ts, w
    <2>3. \A i \in 1 .. 8 : i \in {1, 2, 3, 4, 5, 6, 7, 8}
      OBVIOUS
    <2>4. \A i \in DOMAIN w : w[i].type \in asked
      BY <2>1, <2>2, <2>3
    <2>5. \A i, j \in DOMAIN w : w[i].type = w[j].type => i = j
      BY <2>1, <2>2, <2>3
    <2>6. Fits("RateInfo", w)
      BY <1>2, <2>4, <2>5
    <2> QED BY <2>6 DEF w, ts
  <1>4. CASE ~known
    <2>1. /\ Len(ts) = 7 /\ DOMAIN ts = 1 .. 7
          /\ ts[1] = "SsiRightsRequest" /\ ts[2] = "SsiListRequest"
          /\ ts[3] = "LocationRightsRequest" /\ ts[4] = "BuddyRightsRequest"
          /\ ts[5] = "PrivacyRightsRequest" /\ ts[6] = "IcbmParametersRequest"
          /\ ts[7] = "SelfInfoRequest"
      BY <1>4 DEF LoginStep2
    <2>2. DOMAIN w = 1 .. 7 /\ \A i \in 1 .. 7 : w[i].type = ts[i]
      BY <2>1 DEF PlainSeq, Plain
    <2> HIDE DEF ts, w
    <2>3. \A i \in 1 .. 7 : i \in {1, 2, 3, 4, 5, 6, 7}
      OBVIOUS
    <2>4. \A i \in DOMAIN w : w[i].type \in asked
      BY <2>1, <2>2, <2>3
    <2>5. \A i, j \in DOMAIN w : w[i].type = w[j].type => i = j
      BY <2>1, <2>2, <2>3
    <2>6. Fits("RateInfo", w)
      BY <1>2, <2>4, <2>5
    <2> QED BY <2>6 DEF w, ts
  <1> QED BY <1>3, <1>4

LEMMA OrderClient ==
    ASSUME OrderInv, TypeOK', Client
    PROVE  OrderInv'
  <1> DEFINE h == Head(toClient).type
  <1> USE DEF link, server
  <1>2. /\ <<>> \in Seq(PlainWritten) /\ <<"Hello", "KeyRequest">> \in Seq(PlainWritten)
        /\ \A t \in PlainWritten : <<t>> \in Seq(PlainWritten)
    BY DEF PlainWritten
  <1>3. ASSUME sock = "connected", UNCHANGED <<link, server>>, toClient # <<>>,
               NEW t \in PlainWritten,
               t \in DOMAIN WaitsFor => WaitsFor[t] = h,
               t = "Activate" => h = "ContactList", Writes(<<t>>)
        PROVE  OrderInv'
    BY <1>2, <1>3, FitsFew, OrderPlain
  <1>4. ASSUME sock = "connected", UNCHANGED <<link, server>>, toClient # <<>>,
               Writes(<<>>) \/ Writes(<<"Hello", "KeyRequest">>)
        PROVE  OrderInv'
    BY <1>2, <1>4, FitsFew, OrderPlain
  <1>5. CASE HandleNewWithCookie
    <2> DEFINE m == [type |-> "Cookie", cookie |-> cookie]
    <2>1. /\ sock = "connected" /\ toClient # <<>> /\ h = "New"
          /\ toClient' = Tail(toClient) /\ out' = Append(out, m)
          /\ UNCHANGED <<sock, host, cookieHost, read>> /\ cookie # NoCookie
      BY <1>5 DEF HandleNewWithCookie, Gets
    <2>2. m \in Written
      BY <2>1 DEF OrderInv, TypeOK, Written
    <2>3. <<m>> \in Seq(Written) /\ out' = out \o <<m>>
      BY <2>1, <2>2 DEF OrderInv, TypeOK
    <2>4. Fits(h, <<m>>)
      <3>1. "Cookie" \notin DOMAIN WaitsFor \cup {"Activate"}
        BY DEF WaitsFor
      <3> QED BY <2>1, <3>1 DEF Fits
    <2> HIDE DEF m
    <2> QED BY <2>1, <2>3, <2>4, OrderWrites
  <1>6. CASE HandleNewSignOn
    <2>1. "SignOn" \in PlainWritten /\ "SignOn" \notin DOMAIN WaitsFor
      BY DEF PlainWritten, WaitsFor
    <2> QED BY <1>3, <1>6, <2>1 DEF HandleNewSignOn, Gets
  <1>7. CASE HandleNewMd5
    BY <1>4, <1>7 DEF HandleNewMd5, Gets
  <1>8. CASE HandleAuthKeyResponse
    <2>1. "Md5Login" \in PlainWritten /\ "Md5Login" \notin DOMAIN WaitsFor
      BY DEF PlainWritten, WaitsFor
    <2> QED BY <1>3, <1>4, <1>8, <2>1 DEF HandleAuthKeyResponse, Gets
  <1>9. CASE HandleLoginRedirect
    BY <1>9, OrderReset DEF HandleLoginRedirect, ConnectToHost
  <1>10. CASE HandleServerReady
    <2>1. toClient # <<>> /\ h = "ServerReady" /\ sock = "connected"
          /\ UNCHANGED <<link, server>> /\ Writes(<<"Capabilities">>)
      BY <1>10 DEF HandleServerReady, Gets
    <2>2. "Capabilities" \in PlainWritten /\ WaitsFor["Capabilities"] = "ServerReady"
      BY DEF PlainWritten, WaitsFor
    <2> QED BY <1>3, <2>1, <2>2
  <1>11. CASE HandleCapabilitiesAck
    <2>1. toClient # <<>> /\ h = "CapabilitiesAck" /\ sock = "connected"
          /\ UNCHANGED <<link, server>> /\ Writes(<<"RateRequest">>)
      BY <1>11 DEF HandleCapabilitiesAck, Gets
    <2>2. "RateRequest" \in PlainWritten /\ WaitsFor["RateRequest"] = "CapabilitiesAck"
      BY DEF PlainWritten, WaitsFor
    <2> QED BY <1>3, <2>1, <2>2
  <1>12. CASE HandleRateInfo
    <2> DEFINE known == Head(toClient).groupsKnown
               ack == IF known THEN <<"RateAck">> ELSE <<>>
               ts == ack \o LoginStep2 \o <<"SelfInfoRequest">>
    <2>1. toClient # <<>> /\ h = "RateInfo" /\ sock = "connected"
          /\ UNCHANGED <<link, server>> /\ Writes(ts)
      BY <1>12 DEF HandleRateInfo, Gets
    <2>2. known \in BOOLEAN
      <3>1. Head(toClient) \in Packet
        BY <2>1 DEF OrderInv, TypeOK
      <3> QED BY <2>1, <3>1, AnswerKinds DEF Packet, PlainPacket
    <2>4. Fits(h, PlainSeq(ts))
      BY <2>1, <2>2, FitsRates
    <2>5. ts \in Seq(PlainWritten)
      <3>1. <<"RateAck">> \in Seq(PlainWritten)
        BY DEF PlainWritten
      <3>2. ack \in Seq(PlainWritten)
        BY <1>2, <3>1
      <3>3. LoginStep2 \in Seq(PlainWritten)
        BY DEF LoginStep2, PlainWritten
      <3>4. <<"SelfInfoRequest">> \in Seq(PlainWritten)
        BY DEF PlainWritten
      <3> QED BY <3>2, <3>3, <3>4
    <2> HIDE DEF ts
    <2> QED BY <2>1, <2>4, <2>5, OrderPlain
  <1>13. CASE HandleContactList
    <2>1. "Activate" \in PlainWritten /\ "Activate" \notin DOMAIN WaitsFor
      BY DEF PlainWritten, WaitsFor
    <2>2. toClient # <<>> /\ h = "ContactList" /\ sock = "connected"
          /\ UNCHANGED <<link, server>> /\ (Writes(<<"Activate">>) \/ Writes(<<>>))
      BY <1>13 DEF HandleContactList, Gets
    <2> QED BY <1>3, <1>4, <2>1, <2>2
  <1>14. CASE HandleUserOnline
    BY <1>4, <1>14 DEF HandleUserOnline, Gets
  <1>15. CASE HandleRights
    <2>1. "SetUserInfo" \in PlainWritten /\ WaitsFor["SetUserInfo"] = "LocationRights"
      BY DEF PlainWritten, WaitsFor
    <2>2. toClient # <<>> /\ sock = "connected" /\ UNCHANGED <<link, server>>
          /\ ((h = "LocationRights" /\ Writes(<<"SetUserInfo">>)) \/ Writes(<<>>))
      BY <1>15 DEF HandleRights, Gets
    <2> QED BY <1>3, <1>4, <2>1, <2>2
  <1>16. CASE HandleIcbmParameters
    <2>1. "SetParameters" \in PlainWritten /\ WaitsFor["SetParameters"] = "IcbmParameters"
      BY DEF PlainWritten, WaitsFor
    <2>2. toClient # <<>> /\ h = "IcbmParameters" /\ sock = "connected"
          /\ UNCHANGED <<link, server>> /\ Writes(<<"SetParameters">>)
      BY <1>16 DEF HandleIcbmParameters, Gets
    <2> QED BY <1>3, <2>1, <2>2
  <1>17. CASE HandleOther
    BY <1>4, <1>17 DEF HandleOther, Gets
  <1>18. CASE HandleFin
    BY <1>18, OrderReset DEF HandleFin, Disconnect
  <1> QED BY <1>5, <1>6, <1>7, <1>8, <1>9, <1>10, <1>11, <1>12, <1>13, <1>14, <1>15,
             <1>16, <1>17, <1>18 DEF Client

LEMMA OrderServer ==
    ASSUME OrderInv, TypeOK', Server
    PROVE  OrderInv'
  <1> USE DEF link, server
  <1> DEFINE q == out[read + 1].type
  <1>0. \A t \in PlainPacket : Plain(t) \in Packet /\ Plain(t).type = t
    BY PlainIsPacket DEF Plain
  \* Packets of no consequence.
  <1>1. ASSUME sock = "connected", UNCHANGED <<sock, host, out>>, MoreCookies,
               read < Len(out), read' = read + 1,
               NEW ps \in Seq(Packet), toClient' = toClient \o ps,
               \A i \in DOMAIN ps :
                  ps[i].type \notin DOMAIN AnswerTo \cup {"ContactList", "New"}
        PROVE  OrderInv'
    BY <1>1, OrderReads
  \* One packet.
  <1>2. ASSUME sock = "connected", UNCHANGED <<sock, host, out, cookieHost>>,
               read < Len(out), read' = read + 1,
               NEW p \in Packet, toClient' = toClient \o <<p>>,
               p.type \notin {"ContactList", "New"},
               p.type \in DOMAIN AnswerTo =>
                   AnswerTo[p.type] = q /\ (q = "Cookie" => Good(out[read + 1].cookie))
        PROVE  OrderInv'
    <2>1. <<p>> \in Seq(Packet) /\ Len(<<p>>) = 1 /\ DOMAIN <<p>> = {1} /\ <<p>>[1] = p
      OBVIOUS
    <2> DEFINE ps == <<p>>
    <2>2. /\ \A i \in DOMAIN ps : ps[i].type \in DOMAIN AnswerTo =>
                 /\ Len(ps) = 1 /\ AnswerTo[ps[i].type] = q
                 /\ q = "Cookie" => Good(out[read + 1].cookie)
          /\ \A i \in DOMAIN ps : ps[i].type \notin {"ContactList", "New"}
      BY <1>2, <2>1
    <2>3. ps \in Seq(Packet) /\ toClient' = toClient \o ps /\ MoreCookies
      BY <1>2, <2>1 DEF MoreCookies
    <2> HIDE DEF ps
    <2> QED BY <1>2, <2>2, <2>3, OrderReads
  <1>3. CASE ServerRedirects
    <2>1. PICK b \in BosHost :
             Reply(<<[type |-> "Redirect", host |-> b, cookie |-> issued + 1],
                     Plain("EmptyClose"), Plain("Fin")>>)
      BY <1>3 DEF ServerRedirects
    <2> DEFINE r == [type |-> "Redirect", host |-> b, cookie |-> issued + 1]
               ps == <<r, Plain("EmptyClose"), Plain("Fin")>>
    <2>2. r \in Packet /\ r.type = "Redirect"
      BY DEF OrderInv, TypeOK, Packet, Cookie
    <2>3. /\ Plain("EmptyClose") \in Packet /\ Plain("EmptyClose").type = "EmptyClose"
          /\ Plain("Fin") \in Packet /\ Plain("Fin").type = "Fin"
      BY <1>0 DEF PlainPacket
    <2>4. ps \in Seq(Packet)
      BY <2>2, <2>3
    <2>5. \A i \in DOMAIN ps : ps[i].type \in {"Redirect", "EmptyClose", "Fin"}
      BY <2>2, <2>3
    <2>6. \A t \in {"Redirect", "EmptyClose", "Fin"} : t \notin DOMAIN AnswerTo \cup {"ContactList", "New"}
      BY DEF AnswerTo
    <2>7. /\ sock = "connected" /\ UNCHANGED <<sock, host, out>> /\ read < Len(out)
          /\ read' = read + 1 /\ toClient' = toClient \o ps /\ MoreCookies
      BY <1>3, <2>1 DEF ServerRedirects, Reads, Reply, MoreCookies
    <2> HIDE DEF ps
    <2> QED BY <1>1, <2>4, <2>5, <2>6, <2>7
  <1>4. CASE ServerRejects
    <2> DEFINE ps == <<Plain("Error"), Plain("EmptyClose"), Plain("Fin")>>
    <2>3. /\ Plain("EmptyClose") \in Packet /\ Plain("EmptyClose").type = "EmptyClose"
          /\ Plain("Fin") \in Packet /\ Plain("Fin").type = "Fin"
          /\ Plain("Error") \in Packet /\ Plain("Error").type = "Error"
      BY <1>0 DEF PlainPacket
    <2>4. ps \in Seq(Packet)
      BY <2>3
    <2>5. \A i \in DOMAIN ps : ps[i].type \in {"Error", "EmptyClose", "Fin"}
      BY <2>3
    <2>6. \A t \in {"Error", "EmptyClose", "Fin"} : t \notin DOMAIN AnswerTo \cup {"ContactList", "New"}
      BY DEF AnswerTo
    <2>7. /\ sock = "connected" /\ UNCHANGED <<sock, host, out>> /\ read < Len(out)
          /\ read' = read + 1 /\ toClient' = toClient \o ps /\ MoreCookies
      BY <1>4 DEF ServerRejects, Reads, Reply, MoreCookies
    <2> HIDE DEF ps
    <2> QED BY <1>1, <2>4, <2>5, <2>6, <2>7
  <1>5. CASE ServerSendsKey
    <2>1. /\ sock = "connected" /\ UNCHANGED <<sock, host, out, cookieHost>> /\ read < Len(out)
          /\ read' = read + 1 /\ toClient' = toClient \o <<Plain("KeyResponse")>>
      BY <1>5 DEF ServerSendsKey, Reads, Reply
    <2>2. Plain("KeyResponse") \in Packet /\ Plain("KeyResponse").type = "KeyResponse"
      BY <1>0 DEF PlainPacket
    <2>3. "KeyResponse" \notin DOMAIN AnswerTo
      BY DEF AnswerTo
    <2> QED BY <1>2, <2>1, <2>2, <2>3
  <1>6. CASE ServerAcceptsCookie
    <2>1. /\ sock = "connected" /\ UNCHANGED <<sock, host, out, cookieHost>> /\ read < Len(out)
          /\ read' = read + 1 /\ toClient' = toClient \o <<Plain("ServerReady")>>
          /\ q = "Cookie" /\ Good(out[read + 1].cookie)
      BY <1>6 DEF ServerAcceptsCookie, Reads, Reply
    <2>2. Plain("ServerReady") \in Packet /\ Plain("ServerReady").type = "ServerReady"
      BY <1>0 DEF PlainPacket
    <2>3. AnswerTo["ServerReady"] = "Cookie"
      BY DEF AnswerTo
    <2> QED BY <1>2, <2>1, <2>2, <2>3
  <1>7. CASE ServerSendsRates
    <2>1. PICK classes \in SUBSET RateClass, known \in BOOLEAN :
              Reply(<<[type |-> "RateInfo", classes |-> classes,
                       groupsKnown |-> known]>>)
      BY <1>7 DEF ServerSendsRates
    <2> DEFINE p == [type |-> "RateInfo", classes |-> classes, groupsKnown |-> known]
    <2>2. p \in Packet /\ p.type = "RateInfo"
      BY DEF Packet
    <2>3. /\ sock = "connected" /\ UNCHANGED <<sock, host, out, cookieHost>> /\ read < Len(out)
          /\ read' = read + 1 /\ toClient' = toClient \o <<p>> /\ q = "RateRequest"
      BY <1>7, <2>1 DEF ServerSendsRates, Reads, Reply
    <2>4. AnswerTo["RateInfo"] = "RateRequest"
      BY DEF AnswerTo
    <2> HIDE DEF p
    <2> QED BY <1>2, <2>2, <2>3, <2>4
  <1>8. CASE ServerSendsList
    <2>1. PICK n \in 1 .. MaxListPackets : \E lists \in [1 .. n -> List] :
              Reply([i \in 1 .. n |-> [type |-> "ContactList", list |-> lists[i]]])
      BY <1>8 DEF ServerSendsList
    <2>2. PICK lists \in [1 .. n -> List] :
              Reply([i \in 1 .. n |-> [type |-> "ContactList", list |-> lists[i]]])
      BY <2>1
    <2> DEFINE ps == [i \in 1 .. n |-> [type |-> "ContactList", list |-> lists[i]]]
    <2>3. n \in Nat
      BY OscarLoginAssumption
    <2>4. \A i \in 1 .. n : [type |-> "ContactList", list |-> lists[i]] \in Packet
      BY DEF Packet
    <2>5. ps \in Seq(Packet) /\ \A i \in DOMAIN ps : ps[i].type = "ContactList"
      BY <2>3, <2>4
    <2>6. /\ sock = "connected" /\ UNCHANGED <<sock, host, out, cookieHost>> /\ read < Len(out)
          /\ read' = read + 1 /\ toClient' = toClient \o ps /\ q = "SsiListRequest"
          /\ MoreCookies
      BY <1>8, <2>2 DEF ServerSendsList, Reads, Reply, MoreCookies
    <2>7. "ContactList" \notin DOMAIN AnswerTo
      BY DEF AnswerTo
    <2> HIDE DEF ps
    <2> QED BY <2>5, <2>6, <2>7, OrderReads
  <1>9. CASE ServerTellsOnline
    <2>1. PICK n \in 0 .. 1 : \E buddies \in [1 .. n -> Buddy] :
              Reply([i \in 1 .. n |-> [type |-> "UserOnline", buddy |-> buddies[i]]])
      BY <1>9 DEF ServerTellsOnline
    <2>2. PICK buddies \in [1 .. n -> Buddy] :
              Reply([i \in 1 .. n |-> [type |-> "UserOnline", buddy |-> buddies[i]]])
      BY <2>1
    <2> DEFINE ps == [i \in 1 .. n |-> [type |-> "UserOnline", buddy |-> buddies[i]]]
    <2>4. \A i \in 1 .. n : [type |-> "UserOnline", buddy |-> buddies[i]] \in Packet
      BY DEF Packet
    <2>5. ps \in Seq(Packet) /\ \A i \in DOMAIN ps : ps[i].type = "UserOnline"
      BY <2>4
    <2>6. /\ sock = "connected" /\ UNCHANGED <<sock, host, out, cookieHost>> /\ read < Len(out)
          /\ read' = read + 1 /\ toClient' = toClient \o ps /\ MoreCookies
      BY <1>9, <2>2 DEF ServerTellsOnline, Reads, Reply, MoreCookies
    <2>7. "UserOnline" \notin DOMAIN AnswerTo
      BY DEF AnswerTo
    <2> HIDE DEF ps
    <2> QED BY <1>1, <2>5, <2>6, <2>7
  <1>10. CASE ServerAnswers
    <2>1. /\ sock = "connected" /\ UNCHANGED <<sock, host, out, cookieHost>> /\ read < Len(out)
          /\ read' = read + 1 /\ q \in DOMAIN Answer
          /\ toClient' = toClient \o <<Plain(Answer[q])>>
      BY <1>10 DEF ServerAnswers, Reads, Reply
    <2>2. Plain(Answer[q]) \in Packet /\ Plain(Answer[q]).type = Answer[q]
      BY <1>0, <2>1, AnswerKinds
    <2>3. \A t \in DOMAIN Answer :
              /\ Answer[t] \in DOMAIN AnswerTo => AnswerTo[Answer[t]] = t
              /\ t # "Cookie" /\ Answer[t] \notin {"ContactList", "New"}
      BY DEF Answer, AnswerTo
    <2> QED BY <1>2, <2>1, <2>2, <2>3
  <1>11. CASE ServerSilent
    <2>1. /\ sock = "connected" /\ UNCHANGED <<sock, host, out, cookieHost>> /\ read < Len(out)
          /\ read' = read + 1 /\ toClient' = toClient /\ MoreCookies
      BY <1>11 DEF ServerSilent, Reads, MoreCookies
    <2>2. PICK ps \in Seq(Packet) : ps = <<>>
      <3>1. <<>> \in Seq(Packet)
        OBVIOUS
      <3> QED BY <3>1
    <2>3. toClient' = toClient \o ps /\ DOMAIN ps = {}
      BY <2>1, <2>2 DEF OrderInv, TypeOK
    <2> QED BY <1>1, <2>1, <2>3
  <1> QED BY <1>3, <1>4, <1>5, <1>6, <1>7, <1>8, <1>9, <1>10, <1>11 DEF Server

LEMMA OrderStep == OrderInv /\ [Next]_vars => OrderInv'
  <1> SUFFICES ASSUME OrderInv, [Next]_vars PROVE OrderInv'
    OBVIOUS
  <1>1. TypeOK'
    BY TypeEnvironment, TypeClient
       DEF OrderInv, Next, TypeOK, vars, net, link, login, server, service, user
  <1>2. CASE ChangeStatus
    BY <1>1, <1>2, OrderReset, OrderQuiet DEF ChangeStatus, ConnectToHost, link, server
  <1>3. CASE TcpConnected
    <2>1. toClient' = <<Plain("New")>> /\ out' = <<>> /\ sock' = "connected"
      BY <1>3 DEF TcpConnected, OrderInv, Greeted
    <2>2. \A p : p # "New" => Coming(p)' = {}
      BY <2>1 DEF Coming, Plain
    <2>3. \A t : Wrote(t)' = {}
      BY <2>1 DEF Wrote
    <2>4. Len(toClient') = 1
      BY <2>1
    <2>5. Greeted'
      BY <2>1, <2>4 DEF Greeted
    <2> QED BY <1>1, <2>2, <2>3, <2>5, Waiting
            DEF OrderInv, Caused, OneReply, Waited, AskedOnce, ActivatedLast, AtMostOne
  <1>4. CASE TcpLost
    BY <1>1, <1>4, OrderReset DEF TcpLost, Disconnect
  <1>5. CASE UNCHANGED vars
    BY <1>1, <1>5, OrderQuiet DEF vars, link, server
  <1> QED BY <1>1, <1>2, <1>3, <1>4, <1>5, OrderServer, OrderClient DEF Next

\* No service is asked for anything before the server has taken the cookie and
\* told what it offers and at which rates, and nothing is asked twice on one
\* connection: for every rate packet, list and rejected, repeated or
\* interrupted sign-on.
THEOREM ServicesInOrder == Spec => []ServiceOrder
  <1> QED BY OrderInit, OrderStep, OrderIsServiceOrder, PTL DEF Spec
=============================================================================
