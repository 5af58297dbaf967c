----------------------------- MODULE OscarLogin -----------------------------
(***************************************************************************)
(* Signing on to ICQ: ICQClient and its SNAC handlers over two TCP         *)
(* connections.  The first goes to the login server, takes the password    *)
(* (in the sign-on packet, or as an MD5 digest) and ends with a redirect   *)
(* to another server and a cookie; the second shows the cookie, negotiates *)
(* services and rates, and fetches and activates the contact list.         *)
(*                                                                         *)
(* One packet is handled at a time, in the order it was sent (OscarSocket  *)
(* refines this order down to the bytes).  The servers and QTcpSocket are  *)
(* external.  A packet is its kind and what the client decides on.         *)
(***************************************************************************)
EXTENDS Naturals, Sequences, FiniteSets

CONSTANTS
    LoginHost,      \* the server of the account settings
    BosHost,        \* hosts the login server redirects to
    RateClass,      \* ids of rate classes
    List,           \* what a packet of the contact list may hold
    Readable,       \* those parseContactList reads to their end
    Buddy,          \* names the server may report online
    MaxAttempts,    \* sign-ons the user starts in one behaviour
    MaxListPackets  \* packets one contact list is cut into

ASSUME OscarLoginAssumption ==
    /\ LoginHost \notin BosHost
    /\ Readable \subseteq List
    /\ MaxAttempts \in Nat /\ MaxListPackets \in Nat

Cookie == Nat \ {0}
NoCookie == 0
Password == 0      \* as a secret, beside the cookies

Plain(t) == [type |-> t]
PlainSeq(ts) == [i \in DOMAIN ts |-> Plain(ts[i])]

\* What loginStep2 asks for, in its order.
LoginStep2 == <<"SsiRightsRequest", "SsiListRequest", "LocationRightsRequest",
                "BuddyRightsRequest", "PrivacyRightsRequest",
                "IcbmParametersRequest">>

\* External: the server's answer to a request that has exactly one.
Answer == [Capabilities          |-> "CapabilitiesAck",
           SsiRightsRequest      |-> "SsiRights",
           LocationRightsRequest |-> "LocationRights",
           BuddyRightsRequest    |-> "BuddyRights",
           PrivacyRightsRequest  |-> "PrivacyRights",
           IcbmParametersRequest |-> "IcbmParameters",
           SelfInfoRequest       |-> "SelfInfo"]

Silent == {"Hello", "RateAck", "SetUserInfo", "SetParameters"}

Written == [type : DOMAIN Answer \cup Silent \cup
                   {"SignOn", "KeyRequest", "Md5Login", "RateRequest",
                    "SsiListRequest", "Activate"}]
           \cup [type : {"Cookie"}, cookie : Cookie]

Packet == [type : {Answer[t] : t \in DOMAIN Answer} \cup
                  {"New", "Error", "EmptyClose", "KeyResponse", "ServerReady",
                   "Fin"}]
          \cup [type : {"Redirect"}, host : BosHost, cookie : Cookie]
          \cup [type : {"RateInfo"}, classes : SUBSET RateClass,
                groupsKnown : BOOLEAN]
          \cup [type : {"ContactList"}, list : List]
          \cup [type : {"UserOnline"}, buddy : Buddy]

VARIABLES
    config,      \* is the UIN set, the screen name set, is MD5 login chosen?
    sock,        \* state of the TCP socket
    host,        \* the host it was told to connect to
    cookie,      \* m_authCookie
    rateInfo,    \* classes in m_rateInfoList
    rights,      \* limits received: of the server list, of the location service
    blinking,    \* the status widgets were told to blink
    toClient,    \* packets on their way to the client
    out,         \* what the client wrote on this connection
    read,        \* how much of `out` the server has read
    attempts,    \* sign-ons started by the user
    conn,        \* number of the current connection
    issued,      \* number of the last cookie the login server made
    cookieHost,  \* where each of them is good
    shown        \* secrets shown so far: which, on which connection, to whom

net == <<toClient, out, read>>
link == <<sock, host, conn>>
login == <<cookie, shown>>
server == <<issued, cookieHost>>
service == <<rateInfo, rights>>
user == <<config, blinking, attempts>>
vars == <<net, link, login, server, service, user>>

Init ==
    /\ config \in [uin : BOOLEAN, screen : BOOLEAN, md5 : BOOLEAN]
    /\ sock = "unconnected" /\ host = LoginHost /\ conn = 0
    /\ cookie = NoCookie /\ shown = {}
    /\ rateInfo = {} /\ rights = {} /\ blinking = FALSE
    /\ toClient = <<>> /\ out = <<>> /\ read = 0
    /\ attempts = 0 /\ issued = 0 /\ cookieHost = <<>>

(***************************************************************************)
(* External: QTcpSocket.  connectToHost on a socket that is not            *)
(* unconnected is refused with a warning.                                  *)
(***************************************************************************)
ConnectToHost(h) ==
    /\ sock' = "connecting" /\ host' = h /\ conn' = conn + 1
    /\ toClient' = <<>> /\ out' = <<>> /\ read' = 0

Disconnect ==
    /\ sock' = "unconnected"
    /\ toClient' = <<>> /\ out' = <<>> /\ read' = 0
    /\ UNCHANGED <<host, conn>>

\* The server speaks first.
TcpConnected ==
    /\ sock = "connecting"
    /\ sock' = "connected"
    /\ toClient' = <<Plain("New")>>
    /\ UNCHANGED <<host, conn, out, read, login, server, service, user>>

\* The connection is refused or lost; no slot of the client hears of it.
TcpLost ==
    /\ sock # "unconnected"
    /\ Disconnect
    /\ UNCHANGED <<login, server, service, user>>

(***************************************************************************)
(* The user picks a status that is not offline.  m_state never leaves      *)
(* sOffline, so this tries to connect at any time.                         *)
(***************************************************************************)
ChangeStatus ==
    /\ attempts < MaxAttempts
    /\ attempts' = attempts + 1
    /\ blinking' = TRUE
    /\ IF sock = "unconnected" THEN ConnectToHost(LoginHost)
                               ELSE UNCHANGED <<net, link>>
    /\ UNCHANGED <<config, login, server, service>>

(***************************************************************************)
(* External: the servers, one message read at a time.                      *)
(***************************************************************************)
Reads(types) == /\ sock = "connected" /\ read < Len(out)
                /\ out[read + 1].type \in types
                /\ read' = read + 1

Reply(packets) == /\ toClient' = toClient \o packets
                  /\ UNCHANGED out

ServerRedirects ==
    /\ host = LoginHost
    /\ Reads({"SignOn", "Md5Login"})
    /\ issued' = issued + 1
    /\ \E h \in BosHost :
        /\ cookieHost' = Append(cookieHost, h)
        /\ Reply(<<[type |-> "Redirect", host |-> h, cookie |-> issued + 1],
                   Plain("EmptyClose"), Plain("Fin")>>)
    /\ UNCHANGED <<link, login, service, user>>

\* The login server made this cookie for the host the client talks to.
Good(c) == c \in DOMAIN cookieHost /\ cookieHost[c] = host

\* A wrong password, a cookie of another host, a password at a BOS server.
ServerRejects ==
    /\ Reads({"SignOn", "Md5Login", "Cookie"})
    /\ out[read + 1].type = "Cookie" => ~Good(out[read + 1].cookie)
    /\ Reply(<<Plain("Error"), Plain("EmptyClose"), Plain("Fin")>>)
    /\ UNCHANGED <<link, login, server, service, user>>

ServerSendsKey ==
    /\ host = LoginHost
    /\ Reads({"KeyRequest"})
    /\ Reply(<<Plain("KeyResponse")>>)
    /\ UNCHANGED <<link, login, server, service, user>>

ServerAcceptsCookie ==
    /\ Reads({"Cookie"})
    /\ Good(out[read + 1].cookie)
    /\ Reply(<<Plain("ServerReady")>>)
    /\ UNCHANGED <<link, login, server, service, user>>

ServerSendsRates ==
    /\ Reads({"RateRequest"})
    /\ \E classes \in SUBSET RateClass, known \in BOOLEAN :
          Reply(<<[type |-> "RateInfo", classes |-> classes,
                   groupsKnown |-> known]>>)
    /\ UNCHANGED <<link, login, server, service, user>>

ServerSendsList ==
    /\ Reads({"SsiListRequest"})
    /\ \E n \in 1 .. MaxListPackets : \E lists \in [1 .. n -> List] :
          Reply([i \in 1 .. n |-> [type |-> "ContactList", list |-> lists[i]]])
    /\ UNCHANGED <<link, login, server, service, user>>

\* Once the list is activated the server tells which buddies are online: one
\* for each Activate, at the most.
ServerTellsOnline ==
    /\ Reads({"Activate"})
    /\ \E n \in 0 .. 1 : \E buddies \in [1 .. n -> Buddy] :
          Reply([i \in 1 .. n |-> [type |-> "UserOnline", buddy |-> buddies[i]]])
    /\ UNCHANGED <<link, login, server, service, user>>

ServerAnswers ==
    /\ Reads(DOMAIN Answer)
    /\ Reply(<<Plain(Answer[out[read + 1].type])>>)
    /\ UNCHANGED <<link, login, server, service, user>>

ServerSilent ==
    /\ Reads(Silent)
    /\ UNCHANGED <<toClient, out, link, login, server, service, user>>

Server == \/ ServerRedirects \/ ServerRejects \/ ServerSendsKey
          \/ ServerAcceptsCookie \/ ServerSendsRates \/ ServerSendsList
          \/ ServerTellsOnline \/ ServerAnswers \/ ServerSilent

(***************************************************************************)
(* oscarSocketPacket and the handlers it calls.                            *)
(***************************************************************************)
Gets(types) == /\ sock = "connected" /\ toClient # <<>>
               /\ Head(toClient).type \in types

Writes(ts) == /\ toClient' = Tail(toClient)
              /\ out' = out \o PlainSeq(ts)
              /\ UNCHANGED read

Shows(secret) ==
    shown' = shown \cup {[secret |-> secret, conn |-> conn, host |-> host]}

\* Mutant: m_authCookie is not cleared.
HandleNewKeepsCookie ==
    /\ Gets({"New"}) /\ cookie # NoCookie
    /\ toClient' = Tail(toClient)
    /\ out' = Append(out, [type |-> "Cookie", cookie |-> cookie])
    /\ Shows(cookie)
    /\ UNCHANGED <<cookie, read, link, server, service, user>>

\* handleNewConnection while a cookie is held.
HandleNewWithCookie ==
    /\ Gets({"New"}) /\ cookie # NoCookie
    /\ toClient' = Tail(toClient)
    /\ out' = Append(out, [type |-> "Cookie", cookie |-> cookie])
    /\ Shows(cookie)
    /\ cookie' = NoCookie
    /\ UNCHANGED <<read, link, server, service, user>>

\* handleNewConnection, plain password.
HandleNewSignOn ==
    /\ Gets({"New"}) /\ cookie = NoCookie
    /\ config.uin /\ ~config.md5
    /\ Writes(<<"SignOn">>)
    /\ Shows(Password)
    /\ UNCHANGED <<cookie, link, server, service, user>>

\* handleNewConnection, MD5; or nothing to sign on with.
HandleNewMd5 ==
    /\ Gets({"New"}) /\ cookie = NoCookie
    /\ ~(config.uin /\ ~config.md5)
    /\ IF config.screen \/ config.md5 THEN Writes(<<"Hello", "KeyRequest">>)
                                      ELSE Writes(<<>>)
    /\ UNCHANGED <<login, link, server, service, user>>

\* handleAuthKeyResponse: without a UIN nothing is sent.
HandleAuthKeyResponse ==
    /\ Gets({"KeyResponse"})
    /\ IF config.uin THEN Writes(<<"Md5Login">>) /\ Shows(Password)
                     ELSE Writes(<<>>) /\ UNCHANGED shown
    /\ UNCHANGED <<cookie, link, server, service, user>>

\* Mutant: the new connection is opened and the cookie forgotten.
HandleLoginRedirectNoCookie ==
    /\ Gets({"Redirect"})
    /\ ConnectToHost(Head(toClient).host)
    /\ cookie' = NoCookie
    /\ UNCHANGED <<shown, server, service, user>>

\* handleLoginRedirect, of a login reply or a closing packet.
HandleLoginRedirect ==
    /\ Gets({"Redirect"})
    /\ ConnectToHost(Head(toClient).host)
    /\ cookie' = Head(toClient).cookie
    /\ UNCHANGED <<shown, server, service, user>>

HandleServerReady ==
    /\ Gets({"ServerReady"})
    /\ Writes(<<"Capabilities">>)
    /\ UNCHANGED <<link, login, server, service, user>>

\* Mutant: step 2 is started without waiting for the rates.
HandleCapabilitiesAckEarlyStep2 ==
    /\ Gets({"CapabilitiesAck"})
    /\ Writes(<<"RateRequest">> \o LoginStep2)
    /\ UNCHANGED <<link, login, server, service, user>>

HandleCapabilitiesAck ==
    /\ Gets({"CapabilitiesAck"})
    /\ Writes(<<"RateRequest">>)
    /\ UNCHANGED <<link, login, server, service, user>>

\* Mutant: a rate packet with an unknown group ends the handler.
HandleRateInfoStrict ==
    /\ Gets({"RateInfo"})
    /\ rateInfo' = Head(toClient).classes
    /\ Writes(IF Head(toClient).groupsKnown
              THEN <<"RateAck">> \o LoginStep2 \o <<"SelfInfoRequest">>
              ELSE <<>>)
    /\ UNCHANGED <<rights, link, login, server, user>>

\* The result of parseRateInfo is not looked at: with an unknown group the
\* rates are not acknowledged and the login goes on.
HandleRateInfo ==
    /\ Gets({"RateInfo"})
    /\ rateInfo' = Head(toClient).classes
    /\ LET ack == IF Head(toClient).groupsKnown THEN <<"RateAck">> ELSE <<>>
       IN  Writes(ack \o LoginStep2 \o <<"SelfInfoRequest">>)
    /\ UNCHANGED <<rights, link, login, server, user>>

HandleContactList ==
    /\ Gets({"ContactList"})
    /\ Writes(IF Head(toClient).list \in Readable THEN <<"Activate">> ELSE <<>>)
    /\ UNCHANGED <<link, login, server, service, user>>

HandleUserOnline ==
    /\ Gets({"UserOnline"})
    /\ Writes(<<>>)
    /\ UNCHANGED <<link, login, server, service, user>>

HandleRights ==
    /\ Gets({"SsiRights", "LocationRights"})
    /\ rights' = rights \cup {Head(toClient).type}
    /\ Writes(IF Head(toClient).type = "LocationRights" THEN <<"SetUserInfo">>
                                                        ELSE <<>>)
    /\ UNCHANGED <<rateInfo, link, login, server, user>>

HandleIcbmParameters ==
    /\ Gets({"IcbmParameters"})
    /\ Writes(<<"SetParameters">>)
    /\ UNCHANGED <<link, login, server, service, user>>

\* An error is logged, and emitted to nobody; the rest falls through.
HandleOther ==
    /\ Gets({"Error", "EmptyClose", "BuddyRights", "PrivacyRights", "SelfInfo"})
    /\ Writes(<<>>)
    /\ UNCHANGED <<link, login, server, service, user>>

\* The server closed its end, after everything it sent.
HandleFin ==
    /\ Gets({"Fin"})
    /\ Disconnect
    /\ UNCHANGED <<login, server, service, user>>

Client == \/ HandleNewWithCookie \/ HandleNewSignOn \/ HandleNewMd5
          \/ HandleAuthKeyResponse \/ HandleLoginRedirect \/ HandleServerReady
          \/ HandleCapabilitiesAck \/ HandleRateInfo \/ HandleContactList
          \/ HandleUserOnline \/ HandleRights \/ HandleIcbmParameters \/ HandleOther \/ HandleFin

Next == ChangeStatus \/ TcpConnected \/ TcpLost \/ Server \/ Client

(***************************************************************************)
(* TCP and the servers answer sooner or later and the event loop delivers  *)
(* what has arrived.  Nobody has to go online, nor does a connection have  *)
(* to fail.                                                                *)
(***************************************************************************)
Fairness == WF_vars(TcpConnected) /\ WF_vars(Server) /\ WF_vars(Client)

Spec == Init /\ [][Next]_vars /\ Fairness

-----------------------------------------------------------------------------
\* Every variable has its type, the packets and requests in flight included.
TypeOK ==
    /\ config \in [uin : BOOLEAN, screen : BOOLEAN, md5 : BOOLEAN]
    /\ sock \in {"unconnected", "connecting", "connected"}
    /\ host \in BosHost \cup {LoginHost}
    /\ cookie \in Cookie \cup {NoCookie}
    /\ rateInfo \subseteq RateClass
    /\ rights \subseteq {"SsiRights", "LocationRights"}
    /\ blinking \in BOOLEAN
    /\ toClient \in Seq(Packet) /\ out \in Seq(Written)
    /\ read \in 0 .. Len(out)
    /\ attempts \in Nat /\ conn \in Nat /\ issued \in Nat
    /\ cookieHost \in Seq(BosHost)
    /\ shown \subseteq [secret : Nat, conn : Nat,
                        host : BosHost \cup {LoginHost}]

\* handleNewConnection falls back to the password whenever it holds no cookie:
\* over all reconnections, refusals and redirects the password is still only
\* ever shown to the login server.
PasswordOnlyToLoginServer ==
    \A s \in shown : s.secret = Password => s.host = LoginHost

\* A cookie is good for one sign-on: it is never shown on two connections.
CookieShownOnce ==
    \A s, t \in shown :
        s.secret = t.secret /\ s.secret # Password => s = t

\* What testauthorizationsnachandler.cpp expects: the packet that opens a
\* connection to the login server is answered with the password or a request
\* for the MD5 key, the cookie goes to the server the redirect named.
CookieGoesToItsHost ==
    \A s \in shown : s.secret # Password => s.host = cookieHost[s.secret]

Wrote(t) == {i \in DOMAIN out : out[i].type = t}

\* The packet a request has to wait for, and the request it answers.
WaitsFor == [Capabilities          |-> "ServerReady",
             RateRequest           |-> "CapabilitiesAck",
             RateAck               |-> "RateInfo",
             SsiRightsRequest      |-> "RateInfo",
             SsiListRequest        |-> "RateInfo",
             LocationRightsRequest |-> "RateInfo",
             BuddyRightsRequest    |-> "RateInfo",
             PrivacyRightsRequest  |-> "RateInfo",
             IcbmParametersRequest |-> "RateInfo",
             SelfInfoRequest       |-> "RateInfo",
             SetUserInfo           |-> "LocationRights",
             SetParameters         |-> "IcbmParameters"]

AnswerTo == [ServerReady     |-> "Cookie",
             CapabilitiesAck |-> "Capabilities",
             RateInfo        |-> "RateRequest",
             LocationRights  |-> "LocationRightsRequest",
             IcbmParameters  |-> "IcbmParametersRequest"]

\* The server has read such a request on this connection; a cookie, it took.
Answered(t) == \E i \in Wrote(t) :
                  i <= read /\ (t = "Cookie" => Good(out[i].cookie))

\* Its answer has reached the client: none is on the way any more.
Heard(p) == Answered(AnswerTo[p]) /\ \A i \in DOMAIN toClient : toClient[i].type # p

\* Nothing is asked of a service before the server has taken the cookie and
\* told its services and its rates, nothing is set before the service has told
\* its limits, and all of it is asked once a connection; the list is activated
\* (once for each of its packets) only when the server has sent it.  The
\* handlers keep no state for this: each writes what its packet is taken for.
ServiceOrder ==
    /\ \A t \in DOMAIN WaitsFor : Wrote(t) # {} => Heard(WaitsFor[t])
    /\ \A t \in DOMAIN WaitsFor \cup {"Cookie"} : Cardinality(Wrote(t)) <= 1
    /\ Wrote("Activate") # {} => Answered("SsiListRequest")

\* The server's list was asked for and sent, and no packet of it is left.
ListRead ==
    /\ \E i \in Wrote("SsiListRequest") : i <= read
    /\ \A i \in DOMAIN toClient : toClient[i].type # "ContactList"

\* With a UIN to sign on with, every connection attempt ends with the contact
\* list read to its last packet or the connection gone: no exchange is left
\* half way, whatever rates the server knows and lists it sends.
LoginCompletes ==
    (sock = "connecting" /\ config.uin) ~> (sock = "unconnected" \/ ListRead)
=============================================================================
