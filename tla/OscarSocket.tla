---------------------------- MODULE OscarSocket ----------------------------
(***************************************************************************)
(* StandardOscarSocket: the FLAP framing between a TCP byte stream and the *)
(* packets ICQClient handles.  TCP cuts the stream anywhere, so readyRead  *)
(* keeps its position (m_bHeader, m_packetLength, m_packet) between calls. *)
(*                                                                         *)
(* A byte is a number below ByteRange.  The six header bytes are three     *)
(* here: start code, channel and length; the two sequence bytes are never  *)
(* looked at by the reader and the length takes one byte.  The TCP socket  *)
(* and the server at its other end are external.                           *)
(***************************************************************************)
EXTENDS Naturals, Sequences, SequencesExt

CONSTANTS
    ByteRange,      \* bytes are 0 .. ByteRange - 1
    FlapId,         \* the start code of a header
    Channel,        \* channels the server uses
    Payload,        \* bytes found in the bodies it writes
    MaxLength,      \* longest packet body
    MaxPackets,     \* packets the server writes on one connection
    MaxConnections  \* connections in one behaviour

Byte == 0 .. ByteRange - 1

ASSUME OscarSocketAssumption ==
    /\ {ByteRange, MaxLength, MaxPackets, MaxConnections} \subseteq Nat
    /\ FlapId \in Byte
    /\ Channel \subseteq Byte /\ Payload \subseteq Byte
    /\ MaxLength \in Byte

SizeOfFlapHeader == 3

Packet == [channel : Channel, data : BoundedSeq(Payload, MaxLength)]

Encode(p) == <<FlapId, p.channel, Len(p.data)>> \o p.data

VARIABLES
    bHeader,        \* m_bHeader: a header is expected next
    nChannel,       \* m_nChannel
    packetLength,   \* m_packetLength
    packet,         \* m_packet: the part of the body read so far
    inReadyRead,    \* readyRead is running its loop
    errorEmitted,   \* error() was emitted on this connection
    emitted,        \* arguments of packet() on this connection
    net,            \* bytes on their way
    avail,          \* bytes in the socket's buffer
    sent,           \* packets the server wrote on this connection
    up,             \* the TCP connection is established
    connections,    \* connections so far
    dirty,          \* the reader was inside a packet when this one began
    split           \* a header of this connection was read in part

reader == <<bHeader, nChannel, packetLength, packet>>
history == <<connections, dirty, split>>
vars == <<reader, inReadyRead, errorEmitted, emitted, net, avail, sent, up,
          history>>

Min2(a, b) == IF a <= b THEN a ELSE b

Init == /\ bHeader = TRUE
        /\ nChannel = 0 /\ packetLength = 0 /\ packet = <<>>
        /\ inReadyRead = FALSE /\ errorEmitted = FALSE /\ emitted = <<>>
        /\ net = <<>> /\ avail = <<>> /\ sent = <<>>
        /\ up = FALSE /\ connections = 0
        /\ dirty = FALSE /\ split = FALSE

(***************************************************************************)
(* External: the TCP connection.  A new one starts with an empty buffer;   *)
(* connectToHost leaves the reader's own fields as they are.               *)
(***************************************************************************)
Connected ==
    /\ ~up /\ ~inReadyRead
    /\ connections < MaxConnections
    /\ up' = TRUE
    /\ connections' = connections + 1
    /\ net' = <<>> /\ avail' = <<>> /\ sent' = <<>> /\ emitted' = <<>>
    /\ errorEmitted' = FALSE
    /\ dirty' = ~bHeader
    /\ split' = FALSE
    /\ UNCHANGED <<reader, inReadyRead>>

Dropped ==
    /\ up /\ ~inReadyRead
    /\ up' = FALSE
    /\ net' = <<>>
    /\ UNCHANGED <<reader, inReadyRead, errorEmitted, emitted, avail, sent,
                   history>>

\* The slot behind packet() follows a redirect: disconnectFromHost and
\* connectToHost, called from inside the loop, empty the socket's buffer.
SlotReconnects ==
    /\ up /\ inReadyRead /\ bHeader /\ emitted # <<>>
    /\ up' = FALSE
    /\ net' = <<>> /\ avail' = <<>>
    /\ UNCHANGED <<reader, inReadyRead, errorEmitted, emitted, sent, history>>

ServerWrites ==
    /\ up
    /\ Len(sent) < MaxPackets
    /\ \E p \in Packet : /\ sent' = Append(sent, p)
                         /\ net' = net \o Encode(p)
    /\ UNCHANGED <<reader, inReadyRead, errorEmitted, emitted, avail, up,
                   history>>

\* Some bytes arrive and the socket emits readyRead().
BytesArrive ==
    /\ up /\ ~inReadyRead
    /\ \E n \in 1 .. Len(net) : /\ avail' = avail \o SubSeq(net, 1, n)
                                /\ net' = SubSeq(net, n + 1, Len(net))
    /\ inReadyRead' = TRUE
    /\ UNCHANGED <<reader, errorEmitted, emitted, sent, up, history>>

(***************************************************************************)
(* readyRead: one iteration of its loop, or its end.                       *)
(***************************************************************************)
LeaveLoop ==
    /\ inReadyRead /\ avail = <<>>
    /\ inReadyRead' = FALSE
    /\ UNCHANGED <<reader, errorEmitted, emitted, net, avail, sent, up, history>>

\* The bytes read are gone whether or not they make a header.
BadHeader ==
    /\ inReadyRead /\ avail # <<>> /\ bHeader
    /\ LET header == SubSeq(avail, 1, Min2(SizeOfFlapHeader, Len(avail)))
       IN  /\ \/ Len(header) < SizeOfFlapHeader
              \/ header[1] # FlapId
           /\ avail' = SubSeq(avail, Len(header) + 1, Len(avail))
           /\ split' = (split \/ Len(header) < SizeOfFlapHeader)
    /\ errorEmitted' = TRUE
    /\ inReadyRead' = FALSE
    /\ UNCHANGED <<reader, emitted, net, sent, up, connections, dirty>>

\* Mutant: everything in the buffer is taken for the body.
ReadBodyGreedy(length, channel, soFar, rest) ==
    LET body == soFar \o rest
    IN  /\ packet' = SubSeq(body, 1, Min2(length, Len(body)))
        /\ avail' = <<>>
        /\ bHeader' = (Len(body) >= length)
        /\ emitted' = IF Len(body) >= length
                      THEN Append(emitted, [channel |-> channel,
                                            data |-> SubSeq(body, 1, length)])
                      ELSE emitted

\* Mutant: a packet is passed on with the part of its body that has arrived.
ReadBodyEarly(length, channel, soFar, rest) ==
    LET chunk == SubSeq(rest, 1, Min2(length - Len(soFar), Len(rest)))
    IN  /\ packet' = soFar \o chunk
        /\ avail' = SubSeq(rest, Len(chunk) + 1, Len(rest))
        /\ bHeader' = (Len(soFar \o chunk) = length)
        /\ emitted' = Append(emitted, [channel |-> channel,
                                       data |-> soFar \o chunk])

\* The second half of an iteration: read what is missing of the body.
ReadBody(length, channel, soFar, rest) ==
    LET toread == length - Len(soFar)
        chunk  == SubSeq(rest, 1, Min2(toread, Len(rest)))
        body   == soFar \o chunk
    IN  /\ packet' = body
        /\ avail' = SubSeq(rest, Len(chunk) + 1, Len(rest))
        /\ bHeader' = (Len(body) = length)
        /\ emitted' = IF Len(body) = length
                      THEN Append(emitted, [channel |-> channel, data |-> body])
                      ELSE emitted

\* Mutant: readyRead handles one header a call.
GoodHeaderOnce ==
    /\ inReadyRead /\ bHeader
    /\ Len(avail) >= SizeOfFlapHeader /\ avail[1] = FlapId
    /\ nChannel' = avail[2] /\ packetLength' = avail[3]
    /\ ReadBody(avail[3], avail[2], <<>>,
                SubSeq(avail, SizeOfFlapHeader + 1, Len(avail)))
    /\ inReadyRead' = FALSE
    /\ UNCHANGED <<errorEmitted, net, sent, up, history>>

GoodHeader ==
    /\ inReadyRead /\ bHeader
    /\ Len(avail) >= SizeOfFlapHeader
    /\ avail[1] = FlapId
    /\ nChannel' = avail[2]
    /\ packetLength' = avail[3]
    /\ ReadBody(avail[3], avail[2], <<>>,
                SubSeq(avail, SizeOfFlapHeader + 1, Len(avail)))
    /\ UNCHANGED <<inReadyRead, errorEmitted, net, sent, up, history>>

MoreBody ==
    /\ inReadyRead /\ avail # <<>> /\ ~bHeader
    /\ ReadBody(packetLength, nChannel, packet, avail)
    /\ UNCHANGED <<nChannel, packetLength, inReadyRead, errorEmitted, net, sent,
                   up, history>>

ReadyRead == LeaveLoop \/ BadHeader \/ GoodHeader \/ MoreBody

Next == Connected \/ Dropped \/ SlotReconnects \/ ServerWrites \/ BytesArrive \/ ReadyRead

(***************************************************************************)
(* The event loop runs a slot to its end and TCP delivers what was sent    *)
(* while the connection stands.                                            *)
(***************************************************************************)
Fairness == WF_vars(BytesArrive) /\ WF_vars(ReadyRead)

Spec == Init /\ [][Next]_vars /\ Fairness

-----------------------------------------------------------------------------
\* Every variable has its type; a partial body is never longer than its packet.
TypeOK ==
    /\ bHeader \in BOOLEAN /\ inReadyRead \in BOOLEAN /\ errorEmitted \in BOOLEAN
    /\ up \in BOOLEAN /\ dirty \in BOOLEAN /\ split \in BOOLEAN
    /\ nChannel \in Byte /\ packetLength \in Byte
    /\ packet \in Seq(Byte) /\ Len(packet) <= packetLength
    /\ net \in Seq(Byte) /\ avail \in Seq(Byte)
    /\ sent \in Seq(Packet)
    /\ emitted \in Seq([channel : Byte, data : Seq(Byte)])
    /\ connections \in 0 .. MaxConnections

\* Two things put the reader out of step with the frames: a connection that
\* begins while it still waits for the body of an old packet, and a header
\* that TCP delivers in two parts.
Broken == dirty \/ split

\* readyRead says "Protocol error" to a server that keeps the protocol only
\* when it lost its own place in the stream.
ErrorMeansBroken == errorEmitted => Broken

\* While the reader is in step, the packets, the partial body, the buffer and
\* the network together are exactly what the server wrote: no byte is lost,
\* doubled or moved, wherever TCP cuts the stream.
NothingLost ==
    up /\ ~Broken =>
        LET partial == IF bHeader THEN <<>>
                       ELSE <<FlapId, nChannel, packetLength>> \o packet
        IN  FlattenSeq([i \in DOMAIN emitted |-> Encode(emitted[i])])
                \o partial \o avail \o net
            = FlattenSeq([i \in DOMAIN sent |-> Encode(sent[i])])

\* The framing implements an in-order stream of packets.
Stream == INSTANCE PacketStream WITH
              Packet   <- [channel : Byte, data : BoundedSeq(Byte, ByteRange - 1)],
              received <- emitted,
              broken   <- Broken

ImplementsPacketStream == Stream!Spec

\* What the server wrote is handed up in the end, unless the connection is lost
\* or the framing is.
EventuallyEmitted ==
    \A i \in 1 .. MaxPackets :
        (up /\ Len(sent) >= i) ~> (~up \/ Broken \/ Len(emitted) >= i)
=============================================================================
