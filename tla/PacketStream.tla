--------------------------- MODULE PacketStream ---------------------------
(***************************************************************************)
(* What the OSCAR client above the socket relies on: over one connection   *)
(* the packets of the peer come up in the order they were written, each    *)
(* once and unaltered.  A connection can end at any moment, and it can be  *)
(* `broken': from then on nothing is promised until the next one.          *)
(***************************************************************************)
EXTENDS Sequences, Naturals

CONSTANT Packet

VARIABLES
    sent,       \* packets the peer has written on this connection
    received,   \* packets handed to the client on this connection
    broken      \* the framing of this connection can no longer be trusted

vars == <<sent, received, broken>>

Init == sent = <<>> /\ received = <<>> /\ broken \in BOOLEAN

Write == /\ \E p \in Packet : sent' = Append(sent, p)
         /\ UNCHANGED <<received, broken>>

Receive == /\ ~broken
           /\ Len(received) < Len(sent)
           /\ received' = Append(received, sent[Len(received) + 1])
           /\ UNCHANGED <<sent, broken>>

Break == /\ broken' = TRUE
         /\ UNCHANGED <<sent, received>>

\* Nothing is promised of what a broken connection hands up.
Garbage == /\ broken
           /\ received' \in {Append(received, p) : p \in Packet}
           /\ UNCHANGED <<sent, broken>>

Restart == sent' = <<>> /\ received' = <<>> /\ broken' \in BOOLEAN

Next == Write \/ Receive \/ Break \/ Garbage \/ Restart

Spec == Init /\ [][Next]_vars
=============================================================================
