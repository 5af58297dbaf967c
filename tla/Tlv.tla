-------------------------------- MODULE Tlv --------------------------------
(***************************************************************************)
(* The lists of type-length-value entries that most OSCAR packets carry:   *)
(* written by TlvList::toByteArray, possibly cut short on the way (the     *)
(* lengths around a list come from the packet), and read by fromByteArray. *)
(* One step of ReadTlv is one turn of its loop.                            *)
(*                                                                         *)
(* Bytes are numbers below Base; a char is signed, as on the platforms the *)
(* program is built for.                                                   *)
(***************************************************************************)
EXTENDS Integers, Sequences, SequencesExt

CONSTANTS
    Base,      \* 256 in the code
    Id,        \* types of entries
    Data,      \* what entries hold: sequences of bytes
    MaxTlvs    \* bound on the entries of a list

TlvByte == 0 .. Base - 1
WordRange == Base * Base
Word == 0 .. WordRange - 1

ASSUME TlvAssumption ==
    /\ Base \in Nat /\ Base % 2 = 0 /\ Base > 0
    /\ Id \subseteq Word /\ Data \subseteq Seq(TlvByte) /\ MaxTlvs \in Nat

VARIABLES
    list,     \* the list that is written
    phase,    \* "writing", "reading" or "read"
    unread,   \* bytes the parser has not read
    tlvs,     \* the list read so far
    cut,      \* history: bytes are missing at the end
    guessed   \* history: a number was made of bytes that were not there

tlvVars == <<list, phase, unread, tlvs, cut, guessed>>

Tlv(id, data) == [id |-> id, data |-> data]
IsTlv(t) == t.id \in Word /\ t.data \in Seq(TlvByte)

-----------------------------------------------------------------------------
(* Writing: ByteArrayBuilder, TlvList::toByteArray *)

wordBytes(w) == <<(w \div Base) % Base, w % Base>>
tlvBytes(t) == wordBytes(t.id) \o wordBytes(Len(t.data)) \o t.data
toByteArray == FlattenSeq([i \in DOMAIN list |-> tlvBytes(list[i])])

TlvInit == list = <<>> /\ phase = "writing" /\ unread = <<>> /\ tlvs = <<>>
        /\ cut = FALSE /\ guessed = FALSE

append ==
    /\ phase = "writing" /\ Len(list) < MaxTlvs
    /\ \E id \in Id, data \in Data : list' = Append(list, Tlv(id, data))
    /\ UNCHANGED <<phase, unread, tlvs, cut, guessed>>

\* The receiver is handed the bytes, or only the first of them.
Receive ==
    /\ phase = "writing"
    /\ phase' = "reading"
    /\ \E n \in 0 .. Len(toByteArray) :
        unread' = SubSeq(toByteArray, 1, n) /\ cut' = (n < Len(toByteArray))
    /\ UNCHANGED <<list, tlvs, guessed>>

-----------------------------------------------------------------------------
(* Reading: ByteArrayParser, TlvList::fromByteArray *)

LeastOf(a, b) == IF a < b THEN a ELSE b

\* getChar leaves a byte that is not there as it is: whatever the stack holds.
getChar(bytes, n) == IF n <= Len(bytes) THEN {bytes[n]} ELSE TlvByte
readWord(bytes) ==
    {hi * Base + lo : hi \in getChar(bytes, 1), lo \in getChar(bytes, 2)}
Skip(bytes, n) == SubSeq(bytes, 1 + LeastOf(n, Len(bytes)), Len(bytes))
readBytes(bytes, n) == SubSeq(bytes, 1, LeastOf(n, Len(bytes)))

ReadTlvUnchecked ==              \* mutant: the size of data is not looked at
    /\ phase = "reading" /\ unread # <<>>
    /\ \E id \in readWord(unread), length \in readWord(Skip(unread, 2)) :
        /\ tlvs' = Append(tlvs, Tlv(id, readBytes(Skip(unread, 4), length)))
        /\ unread' = Skip(unread, 4 + length)
    /\ guessed' = (guessed \/ Len(unread) < 4)
    /\ UNCHANGED <<list, phase, cut>>

ReadTlv ==
    /\ phase = "reading" /\ unread # <<>>
    /\ \E id \in readWord(unread), length \in readWord(Skip(unread, 2)) :
        /\ LET data == readBytes(Skip(unread, 4), length)
           IN  IF Len(data) < length THEN phase' = "read" /\ tlvs' = tlvs
               ELSE phase' = phase /\ tlvs' = Append(tlvs, Tlv(id, data))
        /\ unread' = Skip(unread, 4 + length)
    /\ guessed' = (guessed \/ Len(unread) < 4)
    /\ UNCHANGED <<list, cut>>

AtEnd ==
    /\ phase = "reading" /\ unread = <<>>
    /\ phase' = "read"
    /\ UNCHANGED <<list, unread, tlvs, cut, guessed>>

TlvNext == append \/ Receive \/ ReadTlv \/ AtEnd

TlvSpec == TlvInit /\ [][TlvNext]_tlvVars

-----------------------------------------------------------------------------
(* Numbers: Tlv::fromUint16, toUint16, toUint32 *)

char(b) == IF b >= Base \div 2 THEN b - Base ELSE b

toUint16Swapped(d) ==            \* mutant: the other byte order
    IF Len(d) < 2 THEN 0 ELSE (char(d[1]) + char(d[2]) * Base) % WordRange
toUint16(d) ==
    IF Len(d) < 2 THEN 0 ELSE (char(d[2]) + char(d[1]) * Base) % WordRange
toUint32(d) ==
    IF Len(d) < 4 THEN 0
    ELSE (char(d[4]) + char(d[3]) * Base + char(d[2]) * WordRange
          + char(d[1]) * WordRange * Base) % (WordRange * WordRange)

-----------------------------------------------------------------------------
(* Properties *)

\* Every variable has its type; what is read has types and bytes in range.
TlvTypeOK ==
    /\ \A i \in DOMAIN list : IsTlv(list[i])
    /\ phase \in {"writing", "reading", "read"}
    /\ unread \in Seq(TlvByte)
    /\ \A i \in DOMAIN tlvs : IsTlv(tlvs[i])
    /\ cut \in BOOLEAN /\ guessed \in BOOLEAN

\* An entry whose length does not fit a word is written with another length.
Fits == \A i \in DOMAIN list : Len(list[i].data) \in Word

\* A list is read back whole; of one that was cut short, the entries that are
\* whole are, in order and no others, unless a header is cut.
ReadsWhatWasWritten ==
    Fits => /\ ~guessed => IsPrefix(tlvs, list)
            /\ phase = "read" /\ ~cut => tlvs = list /\ ~guessed

\* However a list is cut, at most one entry is made up, the last and empty.
AtMostOneMadeUp ==
    Fits => \/ IsPrefix(tlvs, list)
            \/ /\ guessed /\ IsPrefix(Front(tlvs), list)
               /\ Last(tlvs).data = <<>>

\* A number of two or four bytes comes out right but for a carry taken at each
\* byte above the lower half that has a byte before it.
Carry(b, weight) == IF b >= Base \div 2 THEN weight ELSE 0
WrongByCarriesOnly ==
    \A i \in DOMAIN tlvs : LET d == tlvs[i].data IN
        /\ Len(d) = 2 => (toUint16(d) + Carry(d[2], Base)) % WordRange
                         = d[1] * Base + d[2]
        /\ Len(d) = 4 => (toUint32(d) + Carry(d[4], Base) + Carry(d[3], WordRange)
                          + Carry(d[2], WordRange * Base)) % (WordRange * WordRange)
                         = ((d[1] * Base + d[2]) * Base + d[3]) * Base + d[4]
=============================================================================
