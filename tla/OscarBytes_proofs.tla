--------------------------- MODULE OscarBytes_proofs ---------------------------
(***************************************************************************)
(* The two places where bytes of the OSCAR connection become data: the     *)
(* frames of StandardOscarSocket, and the lists of TLVs in their bodies.   *)
(*                                                                         *)
(* Frames, for any bytes, bodies, cuts and connections: nothing of the     *)
(* stream is lost while the reader is in step, it says "Protocol error"    *)
(* only when it is not, and what it hands up is the stream of packets that *)
(* PacketStream promises.                                                  *)
(*                                                                         *)
(* Lists, which Tlv models with variables of its own, for any entries and  *)
(* any cut: what is read is what was written, up to the cut and one empty  *)
(* entry at most; numbers are right but for the carries of signed chars.   *)
(*                                                                         *)
(* The bytes of several packets, or entries, are their concatenation,      *)
(* FlattenSeq, which the library defines by recursion on the index.  What  *)
(* is needed of it is proved first, by induction stated about sets of      *)
(* indices.                                                                *)
(***************************************************************************)
EXTENDS OscarSocket, Tlv, SequenceTheorems, NaturalsInduction, WellFoundedInduction,
        TLAPS

-----------------------------------------------------------------------------
(* Concatenations *)

\* A set that has 0, and with a number the next, has all of them: else take
\* the least one that is missing.
LEMMA SetInduction ==
    ASSUME NEW G, 0 \in G, \A n \in Nat : n \in G => n + 1 \in G
    PROVE  Nat \subseteq G
<1> DEFINE T == Nat \ G
<1>1. ASSUME T # {} PROVE FALSE
    <2>1. IsWellFoundedOn(OpToRel(<, Nat), Nat)
        BY NatLessThanWellFounded
    <2>2. PICK n \in T : \A m \in T : ~ (<<m, n>> \in OpToRel(<, Nat))
        BY <1>1, <2>1, WFMin
    <2>3. \A m \in T : ~(m < n)
        BY <2>2 DEF OpToRel
    <2>4. n # 0 /\ n \in Nat
        OBVIOUS
    <2>5. n - 1 \in Nat /\ n - 1 \in G /\ (n - 1) + 1 = n
        BY <2>3, <2>4
    <2> QED
        BY <2>4, <2>5
<1> QED
    BY <1>1

\* Concatenation is associative.  The equation has a name because the provers
\* are slow where several of them can be expanded at once.
Grouped(a, b, c) == (a \o b) \o c = a \o (b \o c)

LEMMA SeqGrouping ==
    ASSUME NEW S
    PROVE  \A a, b, c \in Seq(S) : Grouped(a, b, c)
<1>1. ASSUME NEW a \in Seq(S), NEW b \in Seq(S), NEW c \in Seq(S)
      PROVE  (a \o b) \o c = a \o (b \o c)
    BY ConcatAssociative
<1> QED
    BY <1>1 DEF Grouped

\* f[i] is the concatenation of the first i elements of s.
IsFlat(s, f) ==
    f = [i \in 1 .. Len(s) |-> IF i = 1 THEN s[i] ELSE f[i-1] \o s[i]]

LEMMA IsFlatAt ==
    ASSUME NEW s, NEW f, IsFlat(s, f), NEW i \in 1 .. Len(s)
    PROVE  f[i] = IF i = 1 THEN s[i] ELSE f[i-1] \o s[i]
BY DEF IsFlat

\* The concatenations exist, up to any length.
LEMMA FlatExists ==
    ASSUME NEW S, NEW s \in Seq(Seq(S))
    PROVE  \E f : IsFlat(s, f)
<1> DEFINE Part(n, f) ==
              f = [i \in 1 .. n |-> IF i = 1 THEN s[i] ELSE f[i-1] \o s[i]]
           G == {n \in Nat : \E f : Part(n, f)}
<1>1. 0 \in G
    <2>1. Part(0, [i \in 1 .. 0 |-> <<>>])
        OBVIOUS
    <2> QED
        BY <2>1
<1>2. ASSUME NEW n \in Nat, n \in G PROVE n + 1 \in G
    <2>1. PICK g : Part(n, g)
        BY <1>2
    <2> DEFINE h == [i \in 1 .. n + 1 |->
                        IF i \in 1 .. n THEN g[i]
                        ELSE IF i = 1 THEN s[i] ELSE g[n] \o s[i]]
    <2>2. \A i \in 1 .. n : h[i] = g[i]
        OBVIOUS
    <2>3. ASSUME NEW i \in 1 .. n + 1
          PROVE  h[i] = IF i = 1 THEN s[i] ELSE h[i-1] \o s[i]
        <3>1. CASE i = n + 1 /\ i = 1
            BY <3>1
        <3>2. CASE i = n + 1 /\ i # 1
            <4>1. n \in 1 .. n /\ i - 1 = n /\ i \notin 1 .. n
                BY <3>2
            <4>2. h[i] = g[n] \o s[i]
                BY <3>2, <4>1
            <4> QED
                BY <2>2, <3>2, <4>1, <4>2
        <3>3. CASE i # n + 1
            <4>1. i \in 1 .. n /\ (i # 1 => i - 1 \in 1 .. n)
                BY <3>3
            <4>2. g[i] = IF i = 1 THEN s[i] ELSE g[i-1] \o s[i]
                BY <2>1, <4>1
            <4> HIDE DEF h
            <4> QED
                BY <2>2, <4>1, <4>2
        <3> QED
            BY <3>1, <3>2, <3>3
    <2>4. h = [i \in 1 .. n + 1 |-> h[i]]
        OBVIOUS
    <2> HIDE DEF h
    <2>5. Part(n + 1, h)
        BY <2>3, <2>4
    <2> HIDE DEF Part
    <2> QED
        BY <2>5
<1> HIDE DEF G
<1>3. Len(s) \in G
    BY <1>1, <1>2, SetInduction, LenProperties
<1> QED
    BY <1>3 DEF G, IsFlat

\* Every one of them is a sequence.
LEMMA FlatTyped ==
    ASSUME NEW S, NEW s \in Seq(Seq(S)), NEW f, IsFlat(s, f)
    PROVE  \A i \in 1 .. Len(s) : f[i] \in Seq(S)
<1> DEFINE G == {i \in Nat : i \in 1 .. Len(s) => f[i] \in Seq(S)}
<1>1. Len(s) \in Nat /\ \A i \in 1 .. Len(s) : s[i] \in Seq(S)
    BY LenProperties, ElementOfSeq
<1>2. 0 \in G
    OBVIOUS
<1>3. ASSUME NEW n \in Nat, n \in G PROVE n + 1 \in G
    <2>1. SUFFICES ASSUME n + 1 \in 1 .. Len(s) PROVE f[n+1] \in Seq(S)
        OBVIOUS
    <2>2. CASE n = 0
        BY <1>1, <2>1, <2>2, IsFlatAt
    <2>3. CASE n # 0
        <3>1. n \in 1 .. Len(s) /\ (n + 1) - 1 = n /\ n + 1 # 1
            BY <1>1, <2>1, <2>3
        <3>2. f[n] \in Seq(S)
            BY <1>3, <3>1
        <3>3. f[n+1] = IF n + 1 = 1 THEN s[n+1] ELSE f[(n+1)-1] \o s[n+1]
            BY <2>1, IsFlatAt
        <3> QED
            BY <1>1, <2>1, <3>1, <3>2, <3>3, ConcatProperties
    <2> QED
        BY <2>2, <2>3
<1> HIDE DEF G
<1>4. Nat \subseteq G
    BY <1>2, <1>3, SetInduction
<1> QED
    BY <1>1, <1>4 DEF G

SameUpTo(n, s, t) == \A i \in 1 .. n : s[i] = t[i]

\* They depend on the elements they are made of only.
LEMMA FlatAgree ==
    ASSUME NEW s, NEW t, NEW n \in Nat, Len(s) \in Nat, Len(t) \in Nat,
           n <= Len(s), n <= Len(t), SameUpTo(n, s, t),
           NEW f, IsFlat(s, f), NEW g, IsFlat(t, g)
    PROVE  SameUpTo(n, f, g)
<1> USE DEF SameUpTo
<1> DEFINE G == {i \in Nat : i \in 1 .. n => f[i] = g[i]}
<1>1. 0 \in G
    OBVIOUS
<1>2. ASSUME NEW k \in Nat, k \in G PROVE k + 1 \in G
    <2>1. SUFFICES ASSUME k + 1 \in 1 .. n PROVE f[k+1] = g[k+1]
        OBVIOUS
    <2>2. /\ f[k+1] = IF k + 1 = 1 THEN s[k+1] ELSE f[(k+1)-1] \o s[k+1]
          /\ g[k+1] = IF k + 1 = 1 THEN t[k+1] ELSE g[(k+1)-1] \o t[k+1]
        BY <2>1, IsFlatAt
    <2>3. (k + 1) - 1 = k /\ (k + 1 # 1 => k \in 1 .. n)
        BY <2>1
    <2>4. k + 1 # 1 => f[k] = g[k]
        BY <1>2, <2>3
    <2> QED
        BY <2>1, <2>2, <2>3, <2>4
<1> HIDE DEF G
<1>3. Nat \subseteq G
    BY <1>1, <1>2, SetInduction
<1> QED
    BY <1>3 DEF G

\* FlattenSeq is the last of them.
LEMMA FlatLast ==
    ASSUME NEW S, NEW s \in Seq(Seq(S)), s # <<>>
    PROVE  \E f : IsFlat(s, f) /\ FlattenSeq(s) = f[Len(s)]
<1>1. Len(s) # 0
    BY EmptySeq
<1>2. FlattenSeq(s) = (CHOOSE f : IsFlat(s, f))[Len(s)]
    BY <1>1 DEF FlattenSeq, IsFlat
<1>3. IsFlat(s, CHOOSE f : IsFlat(s, f))
    BY FlatExists
<1> QED
    BY <1>2, <1>3

LEMMA FlatEmpty == FlattenSeq(<<>>) = <<>>
BY DEF FlattenSeq

LEMMA FlatIsSeq ==
    ASSUME NEW S, NEW s \in Seq(Seq(S))
    PROVE  FlattenSeq(s) \in Seq(S)
<1>1. CASE s = <<>>
    BY <1>1, FlatEmpty, EmptySeq
<1>2. CASE s # <<>>
    <2>1. PICK f : IsFlat(s, f) /\ FlattenSeq(s) = f[Len(s)]
        BY <1>2, FlatLast
    <2>2. Len(s) \in 1 .. Len(s)
        BY <1>2, EmptySeq
    <2> QED
        BY <2>1, <2>2, FlatTyped
<1> QED
    BY <1>1, <1>2

LEMMA FlatAppend ==
    ASSUME NEW S, NEW s \in Seq(Seq(S)), NEW x \in Seq(S)
    PROVE  FlattenSeq(Append(s, x)) = FlattenSeq(s) \o x
<1>0. PICK t : t = Append(s, x)
    OBVIOUS
<1>1. /\ t \in Seq(Seq(S)) /\ t # <<>> /\ Len(t) = Len(s) + 1
      /\ t[Len(t)] = x /\ \A i \in 1 .. Len(s) : t[i] = s[i]
      /\ Len(s) \in Nat
    BY <1>0, AppendProperties, LenProperties
<1>2. PICK g : IsFlat(t, g) /\ FlattenSeq(t) = g[Len(t)]
    BY <1>1, FlatLast
<1>3. Len(t) \in 1 .. Len(t) /\ Len(t) - 1 = Len(s)
    BY <1>1
<1>4. g[Len(t)] = IF Len(t) = 1 THEN t[Len(t)] ELSE g[Len(t)-1] \o t[Len(t)]
    BY <1>2, <1>3, IsFlatAt
<1>5. CASE s = <<>>
    <2>1. FlattenSeq(t) = x
        BY <1>1, <1>2, <1>4, <1>5
    <2> QED
        BY <1>5, <2>1, <1>0, FlatEmpty, ConcatEmptySeq
<1>6. CASE s # <<>>
    <2>1. Len(s) # 0 /\ Len(s) \in 1 .. Len(s)
        BY <1>6, EmptySeq
    <2>2. PICK f : IsFlat(s, f) /\ FlattenSeq(s) = f[Len(s)]
        BY <1>6, FlatLast
    <2>3. Len(t) \in Nat /\ Len(s) <= Len(t) /\ SameUpTo(Len(s), s, t)
        BY <1>1 DEF SameUpTo
    <2>4. SameUpTo(Len(s), f, g)
        <3>1. Len(s) \in Nat /\ Len(s) <= Len(s)
            BY <1>1
        <3>2. IsFlat(s, f) /\ IsFlat(t, g)
            BY <1>2, <2>2
        <3> QED
            BY <2>3, <3>1, <3>2, FlatAgree
    <2>5. f[Len(s)] = g[Len(s)]
        BY <2>1, <2>4 DEF SameUpTo
    <2> QED
        BY <1>1, <1>2, <1>3, <1>4, <2>1, <2>2, <2>5, <1>0
<1> QED
    BY <1>5, <1>6

\* What stands before element k + 1 is the concatenation of the first k.
LEMMA FlatSplit ==
    ASSUME NEW S, NEW s \in Seq(Seq(S)), NEW k \in 0 .. Len(s)
    PROVE  \E t \in Seq(S) : FlattenSeq(s) = FlattenSeq(SubSeq(s, 1, k)) \o t
<1> DEFINE F(n) == FlattenSeq(SubSeq(s, 1, n))
           Ok(n) == k <= n /\ n <= Len(s) => \E t \in Seq(S) : F(n) = F(k) \o t
           G == {n \in Nat : Ok(n)}
<1>1. /\ Len(s) \in Nat /\ \A i \in 1 .. Len(s) : s[i] \in Seq(S)
      /\ \A n \in 0 .. Len(s) : SubSeq(s, 1, n) \in Seq(Seq(S))
    <2>1. Len(s) \in Nat /\ \A i \in 1 .. Len(s) : s[i] \in Seq(S)
        BY LenProperties, ElementOfSeq
    <2> QED
        BY <2>1, SubSeqProperties
<1>2. \A n \in 0 .. Len(s) : F(n) \in Seq(S)
    BY <1>1, FlatIsSeq
<1>3. ASSUME NEW n \in 1 .. Len(s)
      PROVE  F(n) = F(n-1) \o s[n]
    <2>1. n - 1 \in 0 .. Len(s) /\ 1 \in 1 .. Len(s) /\ n \in 1 .. Len(s)
        BY <1>1
    <2>2. SubSeq(s, 1, n) = SubSeq(s, 1, n-1) \o <<s[n]>>
        BY <1>1, <2>1, SubSeqRecursiveSecond
    <2>3. SubSeq(s, 1, n) = Append(SubSeq(s, 1, n-1), s[n])
        BY <1>1, <2>1, <2>2, AppendIsConcat
    <2> QED
        BY <1>1, <2>1, <2>3, FlatAppend
<1>4. F(Len(s)) = FlattenSeq(s)
    BY SubSeqFull
<1>5. F(k) = FlattenSeq(SubSeq(s, 1, k))
    OBVIOUS
<1> HIDE DEF F
<1>6. F(k) \in Seq(S) /\ F(k) = F(k) \o <<>> /\ <<>> \in Seq(S)
    BY <1>2, ConcatEmptySeq, EmptySeq
<1>7. Ok(0)
    <2>1. SUFFICES ASSUME k <= 0 PROVE \E t \in Seq(S) : F(0) = F(k) \o t
        OBVIOUS
    <2>2. k = 0
        BY <1>1, <2>1
    <2> QED
        BY <1>6, <2>2
<1>8. ASSUME NEW n \in Nat, Ok(n) PROVE Ok(n + 1)
    <2>1. SUFFICES ASSUME k <= n + 1, n + 1 <= Len(s)
                   PROVE  \E t \in Seq(S) : F(n + 1) = F(k) \o t
        OBVIOUS
    <2>2. CASE k = n + 1
        BY <1>6, <2>2
    <2>3. CASE k # n + 1
        <3>1. k <= n /\ n <= Len(s) /\ n + 1 \in 1 .. Len(s) /\ (n + 1) - 1 = n
            BY <1>1, <2>1, <2>3
        <3>2. PICK t \in Seq(S) : F(n) = F(k) \o t
            BY <1>8, <3>1
        <3>3. F(n + 1) = (F(k) \o t) \o s[n + 1]
            BY <1>3, <3>1, <3>2
        <3>4. s[n + 1] \in Seq(S)
            BY <1>1, <3>1
        <3>5. Grouped(F(k), t, s[n + 1])
            BY <1>6, <3>4, SeqGrouping
        <3>6. F(n + 1) = F(k) \o (t \o s[n + 1])
            BY <3>3, <3>5, Zenon DEF Grouped
        <3>7. t \o s[n + 1] \in Seq(S)
            BY <3>4, ConcatProperties
        <3> QED
            BY <3>6, <3>7
    <2> QED
        BY <2>2, <2>3
<1> HIDE DEF Ok
<1>9. Ok(Len(s))
    <2>1. 0 \in G /\ \A n \in Nat : n \in G => n + 1 \in G
        BY <1>7, <1>8
    <2> HIDE DEF G
    <2>2. Nat \subseteq G
        BY <2>1, SetInduction
    <2> QED
        BY <1>1, <2>2 DEF G
<1>10. k <= Len(s) /\ Len(s) <= Len(s)
    BY <1>1
<1>11. \E t \in Seq(S) : F(Len(s)) = F(k) \o t
    BY <1>9, <1>10 DEF Ok
<1> QED
    BY <1>4, <1>5, <1>11

\* The bytes of the first n elements, those of the next, and the others.
LEMMA FlatNext ==
    ASSUME NEW S, NEW s \in Seq(Seq(S)), NEW n \in 0 .. Len(s) - 1
    PROVE  LET before == FlattenSeq(SubSeq(s, 1, n)) IN
           /\ before \in Seq(S) /\ s[n+1] \in Seq(S)
           /\ FlattenSeq(SubSeq(s, 1, n+1)) = before \o s[n+1]
           /\ \E t \in Seq(S) : FlattenSeq(s) = before \o (s[n+1] \o t)
<1> DEFINE F(m) == FlattenSeq(SubSeq(s, 1, m))
<1>1. /\ Len(s) \in Nat /\ n + 1 \in 1 .. Len(s) /\ n \in 0 .. Len(s)
      /\ n + 1 \in 0 .. Len(s) /\ (n + 1) - 1 = n /\ 1 \in 1 .. Len(s)
      /\ \A i \in 1 .. Len(s) : s[i] \in Seq(S)
    BY LenProperties, ElementOfSeq
<1>2. SubSeq(s, 1, n) \in Seq(Seq(S))
    BY <1>1, SubSeqProperties
<1>3. SubSeq(s, 1, n+1) = Append(SubSeq(s, 1, n), s[n+1])
    <2>1. SubSeq(s, 1, n+1) = SubSeq(s, 1, n) \o <<s[n+1]>>
        BY <1>1, SubSeqRecursiveSecond
    <2> QED
        BY <1>1, <1>2, <2>1, AppendIsConcat
<1>4. F(n) \in Seq(S) /\ s[n+1] \in Seq(S) /\ F(n+1) = F(n) \o s[n+1]
    BY <1>1, <1>2, <1>3, FlatIsSeq, FlatAppend
<1>5. PICK t \in Seq(S) : FlattenSeq(s) = F(n+1) \o t
    <2>1. n + 1 \in 0 .. Len(s)
        BY <1>1
    <2> QED
        BY <2>1, FlatSplit
<1> HIDE DEF F
<1>6. (F(n) \o s[n+1]) \o t = F(n) \o (s[n+1] \o t)
    <2>1. Grouped(F(n), s[n+1], t)
        BY <1>4, SeqGrouping
    <2> QED
        BY <2>1 DEF Grouped
<1>7. \E u \in Seq(S) : FlattenSeq(s) = F(n) \o (s[n+1] \o u)
    BY <1>4, <1>5, <1>6
<1> QED
    BY <1>4, <1>7 DEF F

-----------------------------------------------------------------------------
(* The bytes of packets *)

LEMMA Grouping == \A a, b, c \in Seq(Nat) : Grouped(a, b, c)
BY SeqGrouping

LEMMA NatCancel ==
    \A a, b, c \in Seq(Nat) : a \o b = a \o c => b = c
BY ConcatSimplifications

AnyPacket == [channel : Byte, data : Seq(Byte)]

Bytes(ps) == FlattenSeq([i \in DOMAIN ps |-> Encode(ps[i])])

Header(c, l) == <<FlapId, c, l>>

LEMMA ByteIsNat == Byte \subseteq Nat /\ Seq(Byte) \subseteq Seq(Nat) /\ 0 \in Byte
<1>1. Byte \subseteq Nat /\ 0 \in Byte
    BY OscarSocketAssumption DEF Byte
<1> QED
    BY <1>1, SeqMonotonic

LEMMA HeaderType ==
    ASSUME NEW c \in Nat, NEW l \in Nat
    PROVE  /\ Header(c, l) \in Seq(Nat) /\ Len(Header(c, l)) = 3
           /\ Header(c, l)[1] = FlapId /\ Header(c, l)[2] = c /\ Header(c, l)[3] = l
<1>1. FlapId \in Nat
    BY OscarSocketAssumption, ByteIsNat
<1> QED
    BY <1>1 DEF Header

LEMMA HeaderFields ==
    \A c, l \in Nat : Header(c, l)[2] = c /\ Header(c, l)[3] = l
BY DEF Header

\* What the server writes can be read as a packet.
LEMMA PacketIsAny == Packet \subseteq AnyPacket
<1>1. ASSUME NEW d \in BoundedSeq(Payload, MaxLength)
      PROVE  d \in Seq(Byte) /\ Len(d) <= MaxLength
    <2>1. PICK m \in 0 .. MaxLength : d \in [1 .. m -> Payload]
        BY <1>1 DEF BoundedSeq, SeqOf
    <2>2. m \in Nat /\ Payload \subseteq Byte /\ MaxLength \in Nat
        BY OscarSocketAssumption
    <2> QED
        BY <2>1, <2>2
<1> QED
    BY <1>1, OscarSocketAssumption DEF Packet, AnyPacket

LEMMA EncodeType ==
    ASSUME NEW p \in AnyPacket
    PROVE  /\ Encode(p) \in Seq(Nat)
           /\ Encode(p) = Header(p.channel, Len(p.data)) \o p.data
           /\ p.channel \in Nat /\ p.data \in Seq(Nat) /\ Len(p.data) \in Nat
<1>1. p.channel \in Nat /\ p.data \in Seq(Nat) /\ Len(p.data) \in Nat
    BY ByteIsNat, LenProperties DEF AnyPacket
<1>2. Header(p.channel, Len(p.data)) \in Seq(Nat)
    BY <1>1, HeaderType
<1>3. Encode(p) = Header(p.channel, Len(p.data)) \o p.data
    BY DEF Encode, Header
<1> QED
    BY <1>1, <1>2, <1>3, ConcatProperties

LEMMA EncodedSeq ==
    ASSUME NEW ps \in Seq(AnyPacket)
    PROVE  [i \in DOMAIN ps |-> Encode(ps[i])] \in Seq(Seq(Nat))
<1>1. Len(ps) \in Nat /\ DOMAIN ps = 1 .. Len(ps)
      /\ \A i \in 1 .. Len(ps) : Encode(ps[i]) \in Seq(Nat)
    BY LenProperties, ElementOfSeq, EncodeType
<1> QED
    BY <1>1

LEMMA BytesType == \A ps \in Seq(AnyPacket) : Bytes(ps) \in Seq(Nat)
BY EncodedSeq, FlatIsSeq DEF Bytes

LEMMA BytesEmpty == Bytes(<<>>) = <<>>
<1>1. [i \in DOMAIN <<>> |-> Encode(<<>>[i])] = <<>>
    OBVIOUS
<1> QED
    BY <1>1, FlatEmpty DEF Bytes

LEMMA BytesAppend ==
    ASSUME NEW ps \in Seq(AnyPacket), NEW p \in AnyPacket
    PROVE  Bytes(Append(ps, p)) = Bytes(ps) \o Encode(p)
<1> DEFINE E(qs) == [i \in DOMAIN qs |-> Encode(qs[i])]
<1>1. E(ps) \in Seq(Seq(Nat)) /\ Encode(p) \in Seq(Nat)
    BY EncodedSeq, EncodeType
<1>2. /\ Append(ps, p) \in Seq(AnyPacket) /\ Len(ps) \in Nat
      /\ DOMAIN ps = 1 .. Len(ps) /\ DOMAIN Append(ps, p) = 1 .. Len(ps) + 1
      /\ \A i \in 1 .. Len(ps) : Append(ps, p)[i] = ps[i]
      /\ Append(ps, p)[Len(ps) + 1] = p
    BY AppendProperties, LenProperties
<1>3. E(Append(ps, p)) = Append(E(ps), Encode(p))
    <2>1. Len(E(ps)) = Len(ps)
        BY <1>2
    <2>2. /\ E(Append(ps, p)) \in Seq(Seq(Nat))
          /\ Append(E(ps), Encode(p)) \in Seq(Seq(Nat))
        BY <1>1, <1>2, EncodedSeq, AppendProperties
    <2>3. /\ Len(E(Append(ps, p))) = Len(ps) + 1
          /\ Len(Append(E(ps), Encode(p))) = Len(ps) + 1
        BY <1>1, <1>2, <2>1, AppendProperties
    <2>4. ASSUME NEW i \in 1 .. Len(ps) + 1
          PROVE  E(Append(ps, p))[i] = Append(E(ps), Encode(p))[i]
        <3>1. E(Append(ps, p))[i] = Encode(Append(ps, p)[i])
            BY <1>2
        <3>2. CASE i = Len(ps) + 1
            BY <1>1, <1>2, <2>1, <3>1, <3>2, AppendProperties
        <3>3. CASE i # Len(ps) + 1
            <4>1. i \in 1 .. Len(ps)
                BY <1>2, <3>3
            <4>2. Append(E(ps), Encode(p))[i] = E(ps)[i]
                BY <1>1, <2>1, <4>1, AppendProperties
            <4> QED
                BY <1>2, <3>1, <4>1, <4>2
        <3> QED
            BY <3>2, <3>3
    <2> HIDE DEF E
    <2> QED
        BY <2>2, <2>3, <2>4, SeqEqual
<1> HIDE DEF E
<1>4. FlattenSeq(Append(E(ps), Encode(p))) = FlattenSeq(E(ps)) \o Encode(p)
    BY <1>1, FlatAppend
<1> QED
    BY <1>3, <1>4 DEF Bytes, E

\* After the bytes of the first n packets come those of the next.
LEMMA BytesNext ==
    ASSUME NEW ps \in Seq(AnyPacket), NEW n \in 0 .. Len(ps) - 1
    PROVE  \E t \in Seq(Nat) :
               Bytes(ps) = Bytes(SubSeq(ps, 1, n)) \o (Encode(ps[n+1]) \o t)
<1> DEFINE e == [i \in DOMAIN ps |-> Encode(ps[i])]
<1>1. /\ Len(ps) \in Nat /\ DOMAIN ps = 1 .. Len(ps) /\ n + 1 \in 1 .. Len(ps)
      /\ n \in 0 .. Len(ps) /\ ps[n+1] \in AnyPacket
      /\ \A i \in 1 .. Len(ps) : ps[i] \in AnyPacket
    BY LenProperties, ElementOfSeq
<1>2. e \in Seq(Seq(Nat)) /\ Len(e) = Len(ps) /\ FlattenSeq(e) = Bytes(ps)
    <2>1. e \in Seq(Seq(Nat)) /\ FlattenSeq(e) = Bytes(ps)
        BY EncodedSeq DEF Bytes
    <2> QED
        BY <1>1, <2>1
<1>3. ASSUME NEW m \in 0 .. Len(ps)
      PROVE  FlattenSeq(SubSeq(e, 1, m)) = Bytes(SubSeq(ps, 1, m))
    <2>1. SubSeq(e, 1, m) = [i \in DOMAIN SubSeq(ps, 1, m) |->
                                Encode(SubSeq(ps, 1, m)[i])]
        BY <1>1, <1>2
    <2> QED
        BY <2>1 DEF Bytes
<1> HIDE DEF e
<1>4. /\ n \in 0 .. Len(e) - 1 /\ e[n+1] = Encode(ps[n+1])
    BY <1>1, <1>2 DEF e
<1>5. \E t \in Seq(Nat) : FlattenSeq(e) = FlattenSeq(SubSeq(e, 1, n)) \o (e[n+1] \o t)
    BY <1>2, <1>4, FlatNext
<1> QED
    BY <1>1, <1>2, <1>3, <1>4, <1>5, Zenon

-----------------------------------------------------------------------------
(* The invariant *)

Partial == IF bHeader THEN <<>> ELSE Header(nChannel, packetLength) \o packet

\* What was handed up is what the server wrote first.
InOrder ==
    up /\ ~Broken => /\ Len(emitted) <= Len(sent)
                     /\ emitted = SubSeq(sent, 1, Len(emitted))

\* The loop that found its connection closed has nothing left to read, and a
\* body that is whole has been handed up.
ReaderAtRest ==
    /\ inReadyRead /\ ~up => avail = <<>>
    /\ ~bHeader => Len(packet) < packetLength

IInv == TypeOK /\ ReaderAtRest /\ InOrder /\ NothingLost /\ ErrorMeansBroken

LEMMA EmittedIsAny == Seq([channel : Byte, data : Seq(Byte)]) = Seq(AnyPacket)
BY DEF AnyPacket

\* NothingLost, with the bytes still to be read in one piece.
LEMMA NothingLostIs ==
    ASSUME TypeOK
    PROVE  /\ Partial \in Seq(Nat) /\ avail \in Seq(Nat) /\ net \in Seq(Nat)
           /\ Bytes(emitted) \in Seq(Nat) /\ Bytes(sent) \in Seq(Nat)
           /\ sent \in Seq(AnyPacket) /\ emitted \in Seq(AnyPacket)
           /\ NothingLost <=>
                (up /\ ~Broken =>
                   Bytes(emitted) \o (Partial \o (avail \o net)) = Bytes(sent))
<1>1. /\ avail \in Seq(Nat) /\ net \in Seq(Nat) /\ packet \in Seq(Nat)
      /\ nChannel \in Nat /\ packetLength \in Nat
    BY ByteIsNat DEF TypeOK
<1>2. Partial \in Seq(Nat)
    BY <1>1, HeaderType, ConcatProperties, EmptySeq DEF Partial
<1>3. sent \in Seq(AnyPacket) /\ emitted \in Seq(AnyPacket)
    BY PacketIsAny, SeqMonotonic, EmittedIsAny DEF TypeOK
<1>4. Bytes(emitted) \in Seq(Nat) /\ Bytes(sent) \in Seq(Nat)
    BY <1>3, BytesType
<1>5. ((Bytes(emitted) \o Partial) \o avail) \o net
        = Bytes(emitted) \o (Partial \o (avail \o net))
    <2>1. Bytes(emitted) \in Seq(Nat) /\ Partial \in Seq(Nat)
        BY <1>2, <1>4
    <2>2. avail \in Seq(Nat) /\ net \in Seq(Nat) /\ Partial \o avail \in Seq(Nat)
        BY <1>1, <1>2, ConcatProperties
    <2>3. (Bytes(emitted) \o Partial) \o avail = Bytes(emitted) \o (Partial \o avail)
        <3>1. Grouped(Bytes(emitted), Partial, avail)
            BY <2>1, <2>2, Grouping
        <3> QED
            BY <3>1 DEF Grouped
    <2>4. (Bytes(emitted) \o (Partial \o avail)) \o net
            = Bytes(emitted) \o ((Partial \o avail) \o net)
        <3>1. Grouped(Bytes(emitted), Partial \o avail, net)
            BY <2>1, <2>2, Grouping
        <3> QED
            BY <3>1 DEF Grouped
    <2>5. (Partial \o avail) \o net = Partial \o (avail \o net)
        <3>1. Grouped(Partial, avail, net)
            BY <2>1, <2>2, Grouping
        <3> QED
            BY <3>1 DEF Grouped
    <2> QED
        BY <2>3, <2>4, <2>5
<1>6. NothingLost <=>
        (up /\ ~Broken => ((Bytes(emitted) \o Partial) \o avail) \o net = Bytes(sent))
    BY DEF NothingLost, Bytes, Partial, Header
<1> QED
    BY <1>1, <1>2, <1>3, <1>4, <1>5, <1>6

\* Sequences that begin alike.
LEMMA SamePrefix ==
    ASSUME NEW a \in Seq(Nat), NEW b \in Seq(Nat), NEW c \in Seq(Nat),
           NEW d \in Seq(Nat), a \o b = c \o d, Len(a) <= Len(c)
    PROVE  /\ \A i \in 1 .. Len(a) : a[i] = c[i]
           /\ Len(a) = Len(c) => a = c /\ b = d
<1>1. Len(a) \in Nat /\ Len(b) \in Nat /\ Len(c) \in Nat /\ Len(d) \in Nat
    BY LenProperties
<1>2. ASSUME NEW i \in 1 .. Len(a) PROVE a[i] = c[i]
    <2>1. i \in 1 .. Len(a) + Len(b) /\ i \in 1 .. Len(c) + Len(d) /\ i <= Len(c)
        BY <1>1
    <2>2. (a \o b)[i] = a[i] /\ (c \o d)[i] = c[i]
        BY <1>1, <2>1, ConcatProperties
    <2> QED
        BY <2>2
<1>3. Len(a) = Len(c) => a = c
    BY <1>2, SeqEqual
<1>4. a = c => b = d
    BY ConcatSimplifications
<1> QED
    BY <1>2, <1>3, <1>4

LEMMA SameSplit ==
    \A a, b, c, d \in Seq(Nat) :
        a \o b = c \o d /\ Len(a) = Len(c) => a = c /\ b = d
<1> SUFFICES ASSUME NEW a \in Seq(Nat), NEW b \in Seq(Nat), NEW c \in Seq(Nat),
                    NEW d \in Seq(Nat), a \o b = c \o d, Len(a) = Len(c)
             PROVE  a = c /\ b = d
    OBVIOUS
<1>1. Len(a) \in Nat /\ Len(a) <= Len(c)
    BY LenProperties
<1> QED
    BY <1>1, SamePrefix

\* While the reader is in step, what it is about to read is the next packet.
LEMMA NextIsPacket ==
    ASSUME IInv, up, ~Broken, ~bHeader \/ avail # <<>>
    PROVE  /\ Len(emitted) < Len(sent)
           /\ \E t \in Seq(Nat) : Partial \o (avail \o net)
                                    = Encode(sent[Len(emitted) + 1]) \o t
<1> DEFINE rest == Partial \o (avail \o net)
<1>1. /\ Partial \in Seq(Nat) /\ avail \in Seq(Nat) /\ net \in Seq(Nat)
      /\ Bytes(emitted) \in Seq(Nat) /\ sent \in Seq(AnyPacket)
      /\ Bytes(emitted) \o rest = Bytes(sent)
    BY NothingLostIs DEF IInv
<1>2. rest \in Seq(Nat) /\ rest # <<>>
    <2>1. avail \o net \in Seq(Nat) /\ rest \in Seq(Nat)
        BY <1>1, ConcatProperties
    <2>2. CASE avail # <<>>
        BY <1>1, <2>1, <2>2, ConcatEqualIffEmpty
    <2>3. CASE ~bHeader
        <3>1. packet \in Seq(Nat) /\ Header(nChannel, packetLength) \in Seq(Nat)
              /\ Header(nChannel, packetLength) # <<>>
            BY ByteIsNat, HeaderType, EmptySeq DEF IInv, TypeOK
        <3>2. Partial # <<>>
            BY <2>3, <3>1, ConcatEqualIffEmpty DEF Partial
        <3> QED
            BY <1>1, <2>1, <3>2, ConcatEqualIffEmpty
    <2> QED
        BY <2>1, <2>2, <2>3
<1> HIDE DEF rest
<1>3. /\ Len(emitted) \in Nat /\ Len(sent) \in Nat /\ Len(emitted) <= Len(sent)
      /\ emitted = SubSeq(sent, 1, Len(emitted))
    BY LenProperties DEF IInv, TypeOK, InOrder
<1>4. Len(emitted) # Len(sent)
    <2>1. SUFFICES ASSUME Len(emitted) = Len(sent) PROVE FALSE
        OBVIOUS
    <2>2. emitted = sent
        BY <1>1, <1>3, <2>1, SubSeqFull
    <2>3. Bytes(sent) \o rest = Bytes(sent)
        BY <1>1, <2>2
    <2> QED
        BY <1>1, <1>2, <2>2, <2>3, ConcatEqualIffEmpty
<1>5. Len(emitted) \in 0 .. Len(sent) - 1
    BY <1>3, <1>4
<1>6. PICK t \in Seq(Nat) :
          Bytes(sent) = Bytes(emitted) \o (Encode(sent[Len(emitted) + 1]) \o t)
    BY <1>1, <1>3, <1>5, BytesNext
<1>7. Encode(sent[Len(emitted) + 1]) \o t \in Seq(Nat)
    <2>1. sent[Len(emitted) + 1] \in AnyPacket
        BY <1>1, <1>3, <1>5, ElementOfSeq
    <2> QED
        BY <2>1, EncodeType, ConcatProperties
<1>8. rest = Encode(sent[Len(emitted) + 1]) \o t
    BY <1>1, <1>2, <1>6, <1>7, NatCancel, Zenon
<1>9. Len(emitted) < Len(sent)
    BY <1>3, <1>5
<1> QED
    BY <1>8, <1>9 DEF rest

-----------------------------------------------------------------------------
(* Reading a body *)

\* What ReadBody leaves behind.
LEMMA ReadBodyIs ==
    ASSUME TypeOK, NEW l \in Byte, NEW c \in Byte, NEW soFar \in Seq(Byte),
           NEW rest \in Seq(Byte), Len(soFar) <= l, ReadBody(l, c, soFar, rest)
    PROVE  /\ packet' \in Seq(Byte) /\ Len(packet') <= l /\ avail' \in Seq(Byte)
           /\ packet' \o avail' = soFar \o rest
           /\ bHeader' \in BOOLEAN /\ (~bHeader' => Len(packet') < l)
           /\ bHeader' => /\ Len(packet') = l
                          /\ emitted' = Append(emitted, [channel |-> c, data |-> packet'])
           /\ ~bHeader' => emitted' = emitted
<1> DEFINE chunk == SubSeq(rest, 1, Min2(l - Len(soFar), Len(rest)))
<1>1. l \in Nat /\ Len(soFar) \in Nat /\ Len(rest) \in Nat
    BY ByteIsNat, LenProperties
<1>2. PICK n \in 0 .. Len(rest) : n = Min2(l - Len(soFar), Len(rest))
                                  /\ n <= l - Len(soFar)
    <2>1. l - Len(soFar) \in Nat
        BY <1>1
    <2>2. CASE l - Len(soFar) <= Len(rest)
        <3>1. Min2(l - Len(soFar), Len(rest)) = l - Len(soFar)
            BY <2>2 DEF Min2
        <3>2. l - Len(soFar) \in 0 .. Len(rest)
            BY <1>1, <2>1, <2>2
        <3> QED
            BY <2>1, <3>1, <3>2
    <2>3. CASE ~(l - Len(soFar) <= Len(rest))
        <3>1. Min2(l - Len(soFar), Len(rest)) = Len(rest)
            BY <2>3 DEF Min2
        <3>2. Len(rest) \in 0 .. Len(rest) /\ Len(rest) <= l - Len(soFar)
            BY <1>1, <2>1, <2>3
        <3> QED
            BY <3>1, <3>2
    <2> QED
        BY <2>2, <2>3
<1>3. chunk \in Seq(Byte) /\ Len(chunk) = n
    <2>1. \A i \in 1 .. n : rest[i] \in Byte
        BY <1>1, ElementOfSeq
    <2> QED
        BY <1>1, <1>2, <2>1, SubSeqProperties
<1>4. SubSeq(rest, n + 1, Len(rest)) \in Seq(Byte)
    <2>1. \A i \in n + 1 .. Len(rest) : rest[i] \in Byte
        BY <1>1, ElementOfSeq
    <2> QED
        BY <1>1, <2>1, SubSeqProperties
<1>5. chunk \o SubSeq(rest, n + 1, Len(rest)) = rest
    <2>1. /\ 1 \in 1 .. Len(rest) + 1 /\ n \in 1 - 1 .. Len(rest)
          /\ Len(rest) \in n .. Len(rest)
        BY <1>1
    <2>2. SubSeq(rest, 1, n) \o SubSeq(rest, n + 1, Len(rest))
            = SubSeq(rest, 1, Len(rest))
        BY <2>1, ConcatAdjacentSubSeq
    <2> QED
        BY <1>2, <2>2, SubSeqFull
<1>6. packet' = soFar \o chunk /\ avail' = SubSeq(rest, n + 1, Len(rest))
    BY <1>3 DEF ReadBody
<1>7. /\ bHeader' = (Len(packet') = l)
      /\ emitted' = IF Len(packet') = l
                    THEN Append(emitted, [channel |-> c, data |-> packet'])
                    ELSE emitted
    BY <1>6 DEF ReadBody
<1> HIDE DEF chunk
<1>8. packet' \in Seq(Byte) /\ Len(packet') = Len(soFar) + n
    BY <1>3, <1>6, ConcatProperties
<1>9. packet' \o avail' = soFar \o rest
    <2>1. soFar \in Seq(Nat) /\ chunk \in Seq(Nat)
          /\ SubSeq(rest, n + 1, Len(rest)) \in Seq(Nat)
        BY <1>3, <1>4, ByteIsNat
    <2>2. (soFar \o chunk) \o SubSeq(rest, n + 1, Len(rest))
            = soFar \o (chunk \o SubSeq(rest, n + 1, Len(rest)))
        <3>1. Grouped(soFar, chunk, SubSeq(rest, n + 1, Len(rest)))
            BY <2>1, Grouping
        <3> QED
            BY <3>1 DEF Grouped
    <2> QED
        BY <1>5, <1>6, <2>2
<1>10. Len(packet') <= l /\ Len(packet') \in Nat
    BY <1>1, <1>2, <1>8
<1>11. avail' \in Seq(Byte)
    BY <1>4, <1>6
<1>12. bHeader' \in BOOLEAN /\ (~bHeader' => Len(packet') < l)
    <2>1. Len(packet') # l => Len(packet') < l
        BY <1>1, <1>10
    <2> QED
        BY <1>7, <2>1
<1> QED
    BY <1>7, <1>8, <1>9, <1>10, <1>11, <1>12

\* What follows is a header of c and l with all of the body, and it is also
\* the packet p.
BodyOf(p, c, l, body, r, t) ==
    /\ p \in AnyPacket /\ c \in Nat /\ l \in Nat /\ body \in Seq(Nat)
    /\ r \in Seq(Nat) /\ t \in Seq(Nat) /\ Len(body) = l
    /\ (Header(c, l) \o body) \o r = Encode(p) \o t

\* Then they are the header and the body of p.
LEMMA BodyOfNext ==
    \A p, c, l, body, r, t :
        BodyOf(p, c, l, body, r, t) => p.channel = c /\ p.data = body
<1> SUFFICES ASSUME NEW p, NEW c, NEW l, NEW body, NEW r, NEW t,
                    BodyOf(p, c, l, body, r, t)
             PROVE  p.channel = c /\ p.data = body
    OBVIOUS
<1> p \in AnyPacket /\ c \in Nat /\ l \in Nat /\ body \in Seq(Nat)
    /\ r \in Seq(Nat) /\ t \in Seq(Nat) /\ Len(body) = l
    BY DEF BodyOf
<1>0. (Header(c, l) \o body) \o r = Encode(p) \o t
    BY DEF BodyOf
<1>1. /\ Encode(p) = Header(p.channel, Len(p.data)) \o p.data
      /\ p.channel \in Nat /\ p.data \in Seq(Nat) /\ Len(p.data) \in Nat
    BY EncodeType
<1>2. /\ Header(c, l) \in Seq(Nat) /\ Len(Header(c, l)) = 3
      /\ Header(p.channel, Len(p.data)) \in Seq(Nat)
      /\ Len(Header(p.channel, Len(p.data))) = 3
    BY <1>1, HeaderType
<1>3. body \o r \in Seq(Nat) /\ p.data \o t \in Seq(Nat)
    BY <1>1, ConcatProperties
<1> DEFINE h == Header(c, l)
           k == Header(p.channel, Len(p.data))
<1>4. h \o (body \o r) = k \o (p.data \o t)
    <2>1. h \in Seq(Nat) /\ k \in Seq(Nat) /\ p.data \in Seq(Nat)
        BY <1>1, <1>2
    <2> HIDE DEF h, k
    <2>2. (h \o body) \o r = h \o (body \o r)
        <3>1. h \in Seq(Nat) /\ body \in Seq(Nat) /\ r \in Seq(Nat)
            BY <2>1
        <3>2. Grouped(h, body, r)
            BY <3>1, Grouping
        <3> QED
            BY <3>2 DEF Grouped
    <2>3. (k \o p.data) \o t = k \o (p.data \o t)
        <3> DEFINE d == p.data
        <3>1. k \in Seq(Nat) /\ d \in Seq(Nat) /\ t \in Seq(Nat)
            BY <2>1
        <3> HIDE DEF d
        <3>2. (k \o d) \o t = k \o (d \o t)
            <4>1. Grouped(k, d, t)
                BY <3>1, Grouping
            <4> QED
                BY <4>1 DEF Grouped
        <3> QED
            BY <3>2 DEF d
    <2>4. (h \o body) \o r = (k \o p.data) \o t
        BY <1>0, <1>1 DEF h, k
    <2> QED
        BY <2>2, <2>3, <2>4
<1>5. h = k /\ body \o r = p.data \o t
    <2>1. h \in Seq(Nat) /\ k \in Seq(Nat) /\ Len(h) = Len(k)
        BY <1>2
    <2> DEFINE x == body \o r
               y == p.data \o t
    <2>2. x \in Seq(Nat) /\ y \in Seq(Nat) /\ h \o x = k \o y
        BY <1>3, <1>4
    <2> HIDE DEF h, k, x, y
    <2>3. h = k /\ x = y
        BY <2>1, <2>2, SameSplit
    <2> QED
        BY <2>3 DEF x, y
<1>6. c = p.channel /\ l = Len(p.data)
    <2>1. h[2] = c /\ h[3] = l
        BY HeaderType
    <2>2. k[2] = p.channel /\ k[3] = Len(p.data)
        <3>1. p.channel \in Nat /\ Len(p.data) \in Nat
            BY <1>1
        <3> QED
            BY <3>1, HeaderFields
    <2> QED
        BY <1>5, <2>1, <2>2
<1>7. body = p.data
    <2>1. p.data \in Seq(Nat) /\ Len(body) = Len(p.data)
        BY <1>1, <1>6
    <2> HIDE DEF h, k
    <2> QED
        BY <1>5, <2>1, SameSplit
<1> QED
    BY <1>6, <1>7

-----------------------------------------------------------------------------
(* The invariant is inductive *)

Rest == Partial \o (avail \o net)

Kept == up /\ ~Broken => Bytes(emitted) \o Rest = Bytes(sent)

IKept == TypeOK /\ ReaderAtRest /\ InOrder /\ Kept /\ ErrorMeansBroken

LEMMA KeptIsNothingLost == IInv <=> IKept
BY NothingLostIs DEF Kept, Rest, IInv, IKept

LEMMA KeptIsNothingLostNext == IInv' <=> IKept'
BY KeptIsNothingLost, PTL

\* One more packet handed up, the one the server wrote next.
LEMMA OneMore ==
    ASSUME NEW ps \in Seq(AnyPacket), NEW n \in Nat, n < Len(ps)
    PROVE  Append(SubSeq(ps, 1, n), ps[n+1]) = SubSeq(ps, 1, n+1)
<1>1. Len(ps) \in Nat /\ 1 \in 1 .. Len(ps) /\ n + 1 \in 1 .. Len(ps)
      /\ (n + 1) - 1 = n
    BY LenProperties
<1>2. SubSeq(ps, 1, n+1) = SubSeq(ps, 1, n) \o <<ps[n+1]>>
    BY <1>1, SubSeqRecursiveSecond
<1>3. SubSeq(ps, 1, n) \in Seq(AnyPacket) /\ ps[n+1] \in AnyPacket
    BY <1>1, SubSeqProperties, ElementOfSeq
<1> QED
    BY <1>2, <1>3, AppendIsConcat

LEMMA ShortIsBounded ==
    ASSUME NEW d \in Seq(Byte), Len(d) < ByteRange
    PROVE  d \in BoundedSeq(Byte, ByteRange - 1)
<1>1. Len(d) \in Nat /\ d \in [1 .. Len(d) -> Byte]
    BY LenProperties
<1>2. Len(d) \in 0 .. ByteRange - 1
    BY <1>1, OscarSocketAssumption
<1> QED
    BY <1>1, <1>2 DEF BoundedSeq, SeqOf

LEMMA PacketIsTyped ==
    ASSUME NEW c \in Byte, NEW d \in Seq(Byte)
    PROVE  [channel |-> c, data |-> d] \in AnyPacket
BY DEF AnyPacket

\* What an iteration of readyRead hands up: nothing, the next packet or, once
\* the framing is broken, anything.
HandsUp ==
    \/ UNCHANGED emitted
    \/ /\ ~Broken /\ Len(emitted) < Len(sent)
       /\ emitted' = Append(emitted, sent[Len(emitted) + 1])
    \/ /\ Broken
       /\ \E p \in [channel : Byte, data : BoundedSeq(Byte, ByteRange - 1)] :
              emitted' = Append(emitted, p)

\* An iteration that reads the bytes `rest' behind the header of c and l and
\* the part `soFar' of its body.
LEMMA BodyRead ==
    ASSUME IInv, up, NEW l \in Byte, NEW c \in Byte, NEW soFar \in Seq(Byte),
           NEW rest \in Seq(Byte), Len(soFar) <= l, ReadBody(l, c, soFar, rest),
           nChannel' = c, packetLength' = l,
           UNCHANGED <<inReadyRead, errorEmitted, net, sent, up, history>>,
           ~bHeader \/ avail # <<>>,
           ~Broken => Rest = Header(c, l) \o ((soFar \o rest) \o net)
    PROVE  IInv' /\ HandsUp
<1>1. /\ packet' \in Seq(Byte) /\ Len(packet') <= l /\ avail' \in Seq(Byte)
      /\ packet' \o avail' = soFar \o rest
      /\ bHeader' \in BOOLEAN /\ (~bHeader' => Len(packet') < l)
      /\ bHeader' => /\ Len(packet') = l
                     /\ emitted' = Append(emitted, [channel |-> c, data |-> packet'])
      /\ ~bHeader' => emitted' = emitted
    BY ReadBodyIs DEF IInv
<1>2. /\ Bytes(emitted) \in Seq(Nat) /\ sent \in Seq(AnyPacket)
      /\ emitted \in Seq(AnyPacket) /\ net \in Seq(Nat)
      /\ packet' \in Seq(Nat) /\ avail' \in Seq(Nat) /\ l \in Nat /\ c \in Nat
    BY <1>1, NothingLostIs, ByteIsNat DEF IInv
<1>3. Broken' = Broken /\ up' /\ net' = net /\ sent' = sent
    BY DEF Broken, history
<1>4. TypeOK'
    <2>1. emitted' \in Seq([channel : Byte, data : Seq(Byte)])
        <3>1. CASE bHeader'
            <4>1. [channel |-> c, data |-> packet'] \in AnyPacket
                BY <1>1, PacketIsTyped
            <4>2. Append(emitted, [channel |-> c, data |-> packet']) \in Seq(AnyPacket)
                BY <1>2, <4>1, AppendProperties
            <4> QED
                BY <1>1, <3>1, <4>2, EmittedIsAny
        <3>2. CASE ~bHeader'
            BY <1>1, <3>2 DEF IInv, TypeOK
        <3> QED
            BY <3>1, <3>2
    <2> QED
        BY <1>1, <2>1 DEF IInv, TypeOK, history
<1>5. ReaderAtRest' /\ ErrorMeansBroken'
    BY <1>1, <1>3 DEF IInv, ReaderAtRest, ErrorMeansBroken
<1> DEFINE h == Header(c, l)
           x == avail' \o net
<1>6. h \in Seq(Nat) /\ x \in Seq(Nat) /\ h \o packet' \in Seq(Nat)
    BY <1>2, HeaderType, ConcatProperties
<1>7. ~Broken => Rest = (h \o packet') \o x
    <2>1. SUFFICES ASSUME ~Broken PROVE Rest = (h \o packet') \o x
        OBVIOUS
    <2>2. (packet' \o avail') \o net = packet' \o x
        <3>1. Grouped(packet', avail', net)
            BY <1>2, Grouping
        <3> QED
            BY <3>1 DEF Grouped
    <2>3. (h \o packet') \o x = h \o (packet' \o x)
        <3>1. h \in Seq(Nat) /\ packet' \in Seq(Nat) /\ x \in Seq(Nat)
            BY <1>2, <1>6
        <3> HIDE DEF h, x
        <3>2. Grouped(h, packet', x)
            BY <3>1, Grouping
        <3> QED
            BY <3>2 DEF Grouped
    <2> QED
        BY <1>1, <2>1, <2>2, <2>3
<1>8. CASE ~bHeader'
    <2>1. emitted' = emitted /\ Partial' = h \o packet'
        BY <1>1, <1>8 DEF Partial
    <2>2. ~Broken => Rest' = Rest
        BY <1>3, <1>7, <2>1 DEF Rest
    <2>3. Kept'
        BY <1>3, <2>1, <2>2, NothingLostIs DEF IInv, Kept, Rest
    <2>4. InOrder'
        BY <1>3, <2>1 DEF IInv, InOrder
    <2> QED
        BY <1>4, <1>5, <2>1, <2>3, <2>4, KeptIsNothingLostNext DEF IKept, HandsUp
<1>9. CASE bHeader'
    <2> DEFINE p == [channel |-> c, data |-> packet']
    <2>1. emitted' = Append(emitted, p) /\ p \in AnyPacket /\ Partial' = <<>>
        BY <1>1, <1>9, PacketIsTyped DEF Partial
    <2>2. CASE Broken
        <3>1. Kept' /\ InOrder'
            BY <1>3, <2>2 DEF Kept, InOrder
        <3>2. Len(packet') < ByteRange
            <4>1. ByteRange \in Nat
                BY OscarSocketAssumption
            <4> QED
                BY <1>1, <1>9, <4>1 DEF Byte
        <3>3. p \in [channel : Byte, data : BoundedSeq(Byte, ByteRange - 1)]
            BY <1>1, <3>2, ShortIsBounded
        <3>4. HandsUp
            BY <2>1, <2>2, <3>3 DEF HandsUp
        <3> QED
            BY <1>4, <1>5, <3>1, <3>4, KeptIsNothingLostNext DEF IKept
    <2>3. CASE ~Broken
        <3>1. Len(emitted) < Len(sent) /\ Len(emitted) \in Nat /\ Len(sent) \in Nat
            BY <1>2, <2>3, NextIsPacket, LenProperties
        <3>2. PICK t \in Seq(Nat) : Rest = Encode(sent[Len(emitted) + 1]) \o t
            BY <2>3, NextIsPacket DEF Rest
        <3>3. sent[Len(emitted) + 1] \in AnyPacket
            <4>1. Len(emitted) + 1 \in 1 .. Len(sent)
                BY <3>1
            <4> QED
                BY <1>2, <4>1, ElementOfSeq
        <3>4. sent[Len(emitted) + 1] = p
            <4>1. Len(packet') = l
                BY <1>1, <1>9
            <4>2. (Header(c, l) \o packet') \o x = Encode(sent[Len(emitted) + 1]) \o t
                BY <1>7, <2>3, <3>2
            <4>3. packet' \in Seq(Nat) /\ x \in Seq(Nat) /\ c \in Nat /\ l \in Nat
                BY <1>2, <1>6
            <4> DEFINE q == sent[Len(emitted) + 1]
            <4>4. q \in AnyPacket /\ (Header(c, l) \o packet') \o x = Encode(q) \o t
                BY <3>3, <4>2
            <4> HIDE DEF x, q
            <4>5. q.channel = c /\ q.data = packet'
                <5> DEFINE b == packet'
                <5>1. BodyOf(q, c, l, b, x, t)
                    BY <4>1, <4>3, <4>4 DEF BodyOf
                <5> HIDE DEF b
                <5>2. q.channel = c /\ q.data = b
                    BY <5>1, BodyOfNext
                <5> QED
                    BY <5>2 DEF b
            <4> QED
                BY <4>4, <4>5 DEF q, AnyPacket
        <3>5. HandsUp
            BY <2>1, <2>3, <3>1, <3>4 DEF HandsUp
        <3>6. InOrder'
            <4>1. Append(SubSeq(sent, 1, Len(emitted)), sent[Len(emitted) + 1])
                    = SubSeq(sent, 1, Len(emitted) + 1)
                BY <1>2, <3>1, OneMore
            <4>2. emitted = SubSeq(sent, 1, Len(emitted))
                BY <2>3 DEF IInv, InOrder
            <4>3. Len(emitted') = Len(emitted) + 1
                BY <1>2, <2>1, AppendProperties
            <4>4. emitted' = SubSeq(sent, 1, Len(emitted) + 1)
                BY <2>1, <3>4, <4>1, <4>2
            <4> QED
                BY <1>3, <3>1, <4>3, <4>4 DEF InOrder
        <3>7. Kept'
            <4>1. Bytes(emitted') = Bytes(emitted) \o Encode(p)
                BY <1>2, <2>1, BytesAppend
            <4>2. Encode(p) = h \o packet'
                <5>1. p.channel = c /\ p.data = packet' /\ Len(p.data) = l
                    BY <1>1, <1>9
                <5> QED
                    BY <2>1, <5>1, EncodeType
            <4>3. Rest' = x
                <5>1. Rest' = <<>> \o x
                    BY <1>3, <2>1 DEF Rest
                <5> QED
                    BY <1>6, <5>1, ConcatEmptySeq
            <4>4. (Bytes(emitted) \o (h \o packet')) \o x
                    = Bytes(emitted) \o ((h \o packet') \o x)
                <5> DEFINE y == h \o packet'
                <5>1. y \in Seq(Nat) /\ Bytes(emitted) \in Seq(Nat) /\ x \in Seq(Nat)
                    BY <1>2, <1>6
                <5> HIDE DEF y, x
                <5>2. (Bytes(emitted) \o y) \o x = Bytes(emitted) \o (y \o x)
                    <6>1. Grouped(Bytes(emitted), y, x)
                        BY <5>1, Grouping
                    <6> QED
                        BY <6>1 DEF Grouped
                <5> QED
                    BY <5>2 DEF y
            <4>5. Bytes(emitted) \o Rest = Bytes(sent)
                BY <2>3, NothingLostIs DEF IInv, Rest
            <4>6. Bytes(emitted') \o Rest' = Bytes(sent)
                BY <1>7, <2>3, <4>1, <4>2, <4>3, <4>4, <4>5
            <4> QED
                BY <1>3, <4>6 DEF Kept
        <3> QED
            BY <1>4, <1>5, <3>5, <3>6, <3>7, KeptIsNothingLostNext DEF IKept
    <2> QED
        BY <2>2, <2>3
<1> QED
    BY <1>8, <1>9

LEMMA NothingIsTyped ==
    /\ <<>> \in Seq(Byte) /\ Len(<<>>) = 0 /\ <<>> \in Seq(Packet)
    /\ <<>> \in Seq([channel : Byte, data : Seq(Byte)])
BY EmptySeq

LEMMA InitIInv == Init => IInv
<1> SUFFICES ASSUME Init PROVE IInv
    OBVIOUS
<1>1. TypeOK
    <2>1. MaxConnections \in Nat /\ 0 \in 0 .. MaxConnections /\ 0 \in Byte /\ 0 <= 0
        BY OscarSocketAssumption, ByteIsNat
    <2> QED
        BY <2>1, NothingIsTyped DEF Init, TypeOK
<1> QED
    BY <1>1 DEF Init, IInv, ReaderAtRest, InOrder, NothingLost, ErrorMeansBroken

LEMMA ConnectedKeeps == ASSUME IInv, Connected PROVE IInv'
<1>1. TypeOK'
    <2>1. connections' \in 0 .. MaxConnections
        BY OscarSocketAssumption DEF IInv, TypeOK, Connected
    <2> QED
        BY <2>1, NothingIsTyped DEF IInv, TypeOK, Connected, reader
<1>2. ReaderAtRest' /\ ErrorMeansBroken'
    BY DEF IInv, ReaderAtRest, ErrorMeansBroken, Connected, reader
<1>3. InOrder'
    BY DEF InOrder, Connected
<1>4. Kept'
    <2>1. SUFFICES ASSUME ~Broken' PROVE Bytes(emitted') \o Rest' = Bytes(sent')
        BY DEF Kept
    <2>2. Partial' = <<>> /\ avail' = <<>> /\ net' = <<>> /\ emitted' = sent'
        BY <2>1 DEF Broken, Partial, Connected, reader
    <2>3. Rest' = <<>> \o (<<>> \o <<>>)
        BY <2>2 DEF Rest
    <2>4. Rest' = <<>>
        BY <2>3, EmptySeq, ConcatEmptySeq
    <2>5. sent' = <<>>
        BY DEF Connected
    <2>6. <<>> \o <<>> = <<>>
        BY EmptySeq, ConcatEmptySeq
    <2> QED
        BY <2>2, <2>4, <2>5, <2>6, BytesEmpty
<1> QED
    BY <1>1, <1>2, <1>3, <1>4, KeptIsNothingLostNext DEF IKept

LEMMA DroppedKeeps == ASSUME IInv, Dropped PROVE IInv'
<1>1. TypeOK'
    BY NothingIsTyped DEF IInv, TypeOK, Dropped, reader, history
<1>2. ReaderAtRest' /\ ErrorMeansBroken'
    BY DEF IInv, ReaderAtRest, ErrorMeansBroken, Broken, Dropped, reader, history
<1> QED
    BY <1>1, <1>2, KeptIsNothingLostNext DEF IKept, InOrder, Kept, Dropped

LEMMA SlotReconnectsKeeps == ASSUME IInv, SlotReconnects PROVE IInv'
<1>1. TypeOK'
    BY NothingIsTyped DEF IInv, TypeOK, SlotReconnects, reader, history
<1>2. ReaderAtRest' /\ ErrorMeansBroken'
    BY DEF IInv, ReaderAtRest, ErrorMeansBroken, Broken, SlotReconnects, reader,
           history
<1> QED
    BY <1>1, <1>2, KeptIsNothingLostNext DEF IKept, InOrder, Kept, SlotReconnects

LEMMA ServerWritesKeeps == ASSUME IInv, ServerWrites PROVE IInv'
<1>1. PICK p \in Packet : sent' = Append(sent, p) /\ net' = net \o Encode(p)
    BY DEF ServerWrites
<1>2. p \in AnyPacket /\ Encode(p) \in Seq(Nat)
    BY PacketIsAny, EncodeType
<1>3. /\ Partial \in Seq(Nat) /\ avail \in Seq(Nat) /\ net \in Seq(Nat)
      /\ Bytes(emitted) \in Seq(Nat) /\ Bytes(sent) \in Seq(Nat)
      /\ sent \in Seq(AnyPacket) /\ emitted \in Seq(AnyPacket)
    BY NothingLostIs DEF IInv
<1>4. TypeOK'
    <2>1. sent' \in Seq(Packet)
        BY <1>1 DEF IInv, TypeOK
    <2>2. Encode(p) \in Seq(Byte)
        <3>1. p.channel \in Byte /\ p.data \in Seq(Byte) /\ Len(p.data) \in Byte
            <4>1. p.data \in BoundedSeq(Payload, MaxLength) /\ p.channel \in Byte
                BY OscarSocketAssumption DEF Packet
            <4>2. Len(p.data) <= MaxLength
                <5>1. PICK m \in 0 .. MaxLength : p.data \in [1 .. m -> Payload]
                    BY <4>1 DEF BoundedSeq, SeqOf
                <5> QED
                    BY <5>1, OscarSocketAssumption
            <4>3. p.data \in Seq(Byte) /\ Len(p.data) \in Nat
                BY <1>2, LenProperties DEF AnyPacket
            <4>4. ByteRange \in Nat /\ MaxLength \in 0 .. ByteRange - 1
                BY OscarSocketAssumption DEF Byte
            <4> QED
                BY <4>1, <4>2, <4>3, <4>4 DEF Byte
        <3>2. <<FlapId, p.channel, Len(p.data)>> \in Seq(Byte)
            BY <3>1, OscarSocketAssumption
        <3> QED
            BY <3>1, <3>2, ConcatProperties DEF Encode
    <2>3. net' \in Seq(Byte)
        BY <1>1, <2>2, ConcatProperties DEF IInv, TypeOK
    <2> QED
        BY <2>1, <2>3 DEF IInv, TypeOK, ServerWrites, reader, history
<1>5. ReaderAtRest' /\ ErrorMeansBroken'
    BY DEF IInv, ReaderAtRest, ErrorMeansBroken, Broken, ServerWrites, reader, history
<1>6. Broken' = Broken /\ up' = up /\ emitted' = emitted /\ avail' = avail
      /\ Partial' = Partial
    BY DEF Broken, Partial, ServerWrites, reader, history
<1>7. InOrder'
    <2>1. SUFFICES ASSUME up, ~Broken
                   PROVE  /\ Len(emitted) <= Len(sent')
                          /\ emitted = SubSeq(sent', 1, Len(emitted))
        BY <1>6 DEF InOrder
    <2>2. /\ Len(emitted) <= Len(sent) /\ emitted = SubSeq(sent, 1, Len(emitted))
          /\ Len(emitted) \in Nat /\ Len(sent) \in Nat
        BY <1>3, <2>1, LenProperties DEF IInv, InOrder
    <2>3. Len(sent') = Len(sent) + 1 /\ \A i \in 1 .. Len(sent) : sent'[i] = sent[i]
        BY <1>1, <1>2, <1>3, AppendProperties
    <2>4. SubSeq(sent', 1, Len(emitted)) = SubSeq(sent, 1, Len(emitted))
        BY <2>2, <2>3
    <2> QED
        BY <2>2, <2>3, <2>4
<1>8. Kept'
    <2>1. SUFFICES ASSUME up, ~Broken PROVE Bytes(emitted) \o Rest' = Bytes(sent')
        BY <1>6 DEF Kept
    <2>2. Bytes(emitted) \o Rest = Bytes(sent)
        BY <2>1, NothingLostIs DEF IInv, Rest
    <2>3. Bytes(sent') = Bytes(sent) \o Encode(p)
        BY <1>1, <1>2, <1>3, BytesAppend
    <2>4. Rest' = Partial \o (avail \o (net \o Encode(p)))
        BY <1>1, <1>6 DEF Rest
    <2> DEFINE e == Encode(p)
               b == Bytes(emitted)
    <2>5. e \in Seq(Nat) /\ b \in Seq(Nat)
        BY <1>2, <1>3
    <2>6. avail \o net \in Seq(Nat) /\ Partial \o (avail \o net) \in Seq(Nat)
        BY <1>3, ConcatProperties
    <2> HIDE DEF e, b
    <2>7. avail \o (net \o e) = (avail \o net) \o e
        <3>1. avail \in Seq(Nat) /\ net \in Seq(Nat) /\ e \in Seq(Nat)
            BY <1>3, <2>5
        <3>2. Grouped(avail, net, e)
            BY <3>1, Grouping
        <3> QED
            BY <3>2 DEF Grouped
    <2>8. Partial \o ((avail \o net) \o e) = (Partial \o (avail \o net)) \o e
        <3>1. Partial \in Seq(Nat) /\ avail \o net \in Seq(Nat) /\ e \in Seq(Nat)
            BY <1>3, <2>5, <2>6
        <3>2. Grouped(Partial, avail \o net, e)
            BY <3>1, Grouping
        <3> QED
            BY <3>2 DEF Grouped
    <2>9. b \o ((Partial \o (avail \o net)) \o e)
            = (b \o (Partial \o (avail \o net))) \o e
        <3>1. Grouped(b, Partial \o (avail \o net), e)
            BY <2>5, <2>6, Grouping
        <3> QED
            BY <3>1 DEF Grouped
    <2> QED
        BY <2>2, <2>3, <2>4, <2>7, <2>8, <2>9 DEF e, b, Rest
<1> QED
    BY <1>4, <1>5, <1>7, <1>8, KeptIsNothingLostNext DEF IKept

LEMMA BytesArriveKeeps == ASSUME IInv, BytesArrive PROVE IInv'
<1>1. PICK n \in 1 .. Len(net) : /\ avail' = avail \o SubSeq(net, 1, n)
                                 /\ net' = SubSeq(net, n + 1, Len(net))
    BY DEF BytesArrive
<1>2. net \in Seq(Byte) /\ avail \in Seq(Byte) /\ Len(net) \in Nat
    BY LenProperties DEF IInv, TypeOK
<1> DEFINE a == SubSeq(net, 1, n)
           b == SubSeq(net, n + 1, Len(net))
<1>3. a \in Seq(Byte) /\ b \in Seq(Byte)
    <2>1. \A i \in 1 .. Len(net) : net[i] \in Byte
        BY <1>2, ElementOfSeq
    <2>2. \A i \in 1 .. n : net[i] \in Byte
        BY <1>2, <2>1
    <2>3. \A i \in n + 1 .. Len(net) : net[i] \in Byte
        BY <1>2, <2>1
    <2> QED
        BY <1>2, <2>2, <2>3, SubSeqProperties
<1>4. a \o b = net
    <2>1. /\ 1 \in 1 .. Len(net) + 1 /\ n \in 1 - 1 .. Len(net)
          /\ Len(net) \in n .. Len(net)
        BY <1>2
    <2>2. a \o b = SubSeq(net, 1, Len(net))
        BY <1>2, <2>1, ConcatAdjacentSubSeq
    <2> QED
        BY <1>2, <2>2, SubSeqFull
<1>5. avail' = avail \o a /\ net' = b
    BY <1>1
<1> HIDE DEF a, b
<1>6. avail' \in Seq(Byte) /\ net' \in Seq(Byte)
    BY <1>2, <1>3, <1>5, ConcatProperties
<1>7. TypeOK'
    BY <1>6 DEF IInv, TypeOK, BytesArrive, reader, history
<1>8. ReaderAtRest' /\ ErrorMeansBroken' /\ InOrder'
    BY DEF IInv, ReaderAtRest, ErrorMeansBroken, InOrder, Broken, BytesArrive, reader,
           history
<1>9. Rest' = Rest
    <2>1. avail \in Seq(Nat) /\ a \in Seq(Nat) /\ b \in Seq(Nat)
        BY <1>2, <1>3, ByteIsNat
    <2>2. (avail \o a) \o b = avail \o (a \o b)
        <3>1. Grouped(avail, a, b)
            BY <2>1, Grouping
        <3> QED
            BY <3>1 DEF Grouped
    <2>3. Partial' = Partial
        BY DEF Partial, BytesArrive, reader
    <2> QED
        BY <1>4, <1>5, <2>2, <2>3 DEF Rest
<1>10. Kept'
    BY <1>9, NothingLostIs DEF IInv, Kept, Rest, Broken, BytesArrive, history
<1> QED
    BY <1>7, <1>8, <1>10, KeptIsNothingLostNext DEF IKept

LEMMA LeaveLoopKeeps == ASSUME IInv, LeaveLoop PROVE IInv'
<1>1. TypeOK'
    BY DEF IInv, TypeOK, LeaveLoop, reader, history
<1>2. ReaderAtRest' /\ ErrorMeansBroken' /\ InOrder'
    BY DEF IInv, ReaderAtRest, ErrorMeansBroken, InOrder, Broken, LeaveLoop, reader,
           history
<1>3. Rest' = Rest
    BY DEF Rest, Partial, LeaveLoop, reader
<1>4. Kept'
    BY <1>3, NothingLostIs DEF IInv, Kept, Rest, Broken, LeaveLoop, history
<1> QED
    BY <1>1, <1>2, <1>4, KeptIsNothingLostNext DEF IKept

\* A reader that finds bytes is connected.
LEMMA ReadsWhileUp == ASSUME IInv, inReadyRead, avail # <<>> PROVE up
BY DEF IInv, ReaderAtRest

\* A whole header is in the buffer: what it says and what is behind it.
LEMMA HeaderInBuffer ==
    ASSUME NEW s \in Seq(Byte), SizeOfFlapHeader <= Len(s)
    PROVE  /\ s[1] \in Byte /\ s[2] \in Byte /\ s[3] \in Byte
           /\ SubSeq(s, SizeOfFlapHeader + 1, Len(s)) \in Seq(Byte)
           /\ s = <<s[1], s[2], s[3]>> \o SubSeq(s, SizeOfFlapHeader + 1, Len(s))
<1>1. Len(s) \in Nat /\ 3 <= Len(s)
    BY LenProperties DEF SizeOfFlapHeader
<1>2. \A i \in 1 .. Len(s) : s[i] \in Byte
    BY ElementOfSeq
<1>3. 1 \in 1 .. Len(s) /\ 2 \in 1 .. Len(s) /\ 3 \in 1 .. Len(s)
    BY <1>1
<1>4. SubSeq(s, 4, Len(s)) \in Seq(Byte)
    <2>1. \A i \in 4 .. Len(s) : s[i] \in Byte
        BY <1>1, <1>2
    <2> QED
        BY <1>1, <2>1, SubSeqProperties
<1>5. SubSeq(s, 1, 3) = <<s[1], s[2], s[3]>>
    <2> DEFINE h == <<s[1], s[2], s[3]>>
               k == SubSeq(s, 1, 3)
    <2>1. h \in Seq(Byte) /\ Len(h) = 3 /\ h[1] = s[1] /\ h[2] = s[2] /\ h[3] = s[3]
        BY <1>2, <1>3
    <2>2. k \in Seq(Byte) /\ Len(k) = 3 /\ \A i \in 1 .. 3 : k[i] = s[i]
        <3>1. \A i \in 1 .. 3 : s[i] \in Byte
            BY <1>1, <1>2
        <3> QED
            BY <1>1, <3>1, SubSeqProperties
    <2> HIDE DEF h, k
    <2>3. \A i \in 1 .. 3 : k[i] = h[i]
        <3>1. \A i \in 1 .. 3 : i = 1 \/ i = 2 \/ i = 3
            OBVIOUS
        <3> QED
            BY <2>1, <2>2, <3>1
    <2>4. k = h
        BY <2>1, <2>2, <2>3, SeqEqual
    <2> QED
        BY <2>4 DEF h, k
<1>6. SubSeq(s, 1, 3) \o SubSeq(s, 3 + 1, Len(s)) = s
    <2>1. 1 \in 1 .. Len(s) + 1 /\ 3 \in 1 - 1 .. Len(s) /\ Len(s) \in 3 .. Len(s)
        BY <1>1
    <2>2. SubSeq(s, 1, 3) \o SubSeq(s, 3 + 1, Len(s)) = SubSeq(s, 1, Len(s))
        BY <2>1, ConcatAdjacentSubSeq
    <2> QED
        BY <2>2, SubSeqFull
<1> QED
    BY <1>2, <1>3, <1>4, <1>5, <1>6 DEF SizeOfFlapHeader

\* In step, the first byte in the buffer is a start code.
LEMMA StartsWithFlapId ==
    ASSUME IInv, up, ~Broken, bHeader, avail # <<>>
    PROVE  avail[1] = FlapId
<1>1. avail \in Seq(Nat) /\ net \in Seq(Nat) /\ sent \in Seq(AnyPacket)
    BY NothingLostIs DEF IInv
<1>2. Len(emitted) < Len(sent) /\ Len(emitted) \in Nat /\ Len(sent) \in Nat
    BY NextIsPacket, LenProperties DEF IInv, TypeOK
<1> DEFINE q == sent[Len(emitted) + 1]
<1>3. PICK t \in Seq(Nat) : Partial \o (avail \o net) = Encode(q) \o t
    BY NextIsPacket
<1>4. q \in AnyPacket
    <2>1. Len(emitted) + 1 \in 1 .. Len(sent)
        BY <1>2
    <2> QED
        BY <1>1, <2>1, ElementOfSeq
<1> HIDE DEF q
<1>5. avail \o net = Encode(q) \o t
    <2>1. Partial = <<>> /\ avail \o net \in Seq(Nat)
        BY <1>1, ConcatProperties DEF Partial
    <2>2. Partial \o (avail \o net) = avail \o net
        BY <2>1, ConcatEmptySeq
    <2> QED
        BY <1>3, <2>2
<1>6. (avail \o net)[1] = avail[1]
    <2>1. Len(avail) \in Nat /\ Len(avail) # 0 /\ Len(net) \in Nat
        BY <1>1, EmptySeq, LenProperties
    <2>2. 1 \in 1 .. Len(avail) + Len(net) /\ 1 <= Len(avail)
        BY <2>1
    <2> QED
        BY <1>1, <2>1, <2>2, ConcatProperties
<1>7. (Encode(q) \o t)[1] = FlapId
    <2> DEFINE h == Header(q.channel, Len(q.data))
    <2>1. /\ h \in Seq(Nat) /\ Len(h) = 3 /\ h[1] = FlapId
          /\ Encode(q) = h \o q.data /\ q.data \in Seq(Nat) /\ Len(q.data) \in Nat
          /\ Encode(q) \in Seq(Nat)
        <3>1. /\ Encode(q) = h \o q.data /\ q.channel \in Nat
              /\ q.data \in Seq(Nat) /\ Len(q.data) \in Nat
              /\ Encode(q) \in Seq(Nat)
            BY <1>4, EncodeType
        <3>2. h \in Seq(Nat) /\ Len(h) = 3 /\ h[1] = FlapId
            BY <3>1, HeaderType
        <3> HIDE DEF h
        <3> QED
            BY <3>1, <3>2
    <2> HIDE DEF h
    <2>2. 1 \in 1 .. Len(h) + Len(q.data) /\ 1 <= Len(h)
        BY <2>1
    <2>3. (h \o q.data)[1] = h[1] /\ Len(h \o q.data) = Len(h) + Len(q.data)
        BY <2>1, <2>2, ConcatProperties
    <2>4. Encode(q)[1] = FlapId /\ Len(Encode(q)) = 3 + Len(q.data)
        BY <2>1, <2>3
    <2>5. Len(t) \in Nat
        BY LenProperties
    <2>6. 1 \in 1 .. Len(Encode(q)) + Len(t) /\ 1 <= Len(Encode(q))
        BY <2>1, <2>4, <2>5
    <2>7. (Encode(q) \o t)[1] = Encode(q)[1]
        BY <2>1, <2>5, <2>6, ConcatProperties
    <2> QED
        BY <2>4, <2>7
<1> QED
    BY <1>5, <1>6, <1>7

\* What BadHeader does to the reader: it loses bytes, and its place with them.
LEMMA BadHeaderBreaks ==
    ASSUME IInv, BadHeader
    PROVE  up /\ Broken' /\ avail' \in Seq(Byte) /\ split' \in BOOLEAN
<1> DEFINE n == Min2(SizeOfFlapHeader, Len(avail))
           header == SubSeq(avail, 1, n)
<1>1. up
    BY ReadsWhileUp DEF BadHeader
<1>2. /\ avail \in Seq(Byte) /\ Len(avail) \in Nat /\ split \in BOOLEAN
      /\ \A i \in 1 .. Len(avail) : avail[i] \in Byte
    BY LenProperties, ElementOfSeq DEF IInv, TypeOK
<1>3. n \in 0 .. Len(avail) /\ (n < SizeOfFlapHeader \/ n = 3)
    <2>1. SizeOfFlapHeader = 3
        BY DEF SizeOfFlapHeader
    <2>2. CASE 3 <= Len(avail)
        BY <1>2, <2>1, <2>2 DEF Min2
    <2>3. CASE ~(3 <= Len(avail))
        BY <1>2, <2>1, <2>3 DEF Min2
    <2> QED
        BY <2>2, <2>3
<1> HIDE DEF n
<1>4. Len(header) = n /\ (n = 3 => header[1] = avail[1])
    <2>1. \A i \in 1 .. n : avail[i] \in Byte
        BY <1>2, <1>3
    <2>2. Len(header) = n /\ \A i \in 1 .. n : header[i] = avail[i]
        BY <1>2, <1>3, <2>1, SubSeqProperties
    <2> QED
        BY <1>3, <2>2
<1>5. /\ Len(header) < SizeOfFlapHeader \/ header[1] # FlapId
      /\ avail' = SubSeq(avail, Len(header) + 1, Len(avail))
      /\ split' = (split \/ Len(header) < SizeOfFlapHeader)
      /\ dirty' = dirty /\ bHeader /\ avail # <<>>
    BY DEF BadHeader, n, header
<1> HIDE DEF header
<1>6. avail' \in Seq(Byte)
    <2>1. \A i \in n + 1 .. Len(avail) : avail[i] \in Byte
        BY <1>2, <1>3
    <2> QED
        BY <1>2, <1>3, <1>4, <1>5, <2>1, SubSeqProperties
<1>7. split' \in BOOLEAN
    BY <1>2, <1>5
<1>8. Broken'
    <2>1. CASE Len(header) < SizeOfFlapHeader
        BY <1>5, <2>1 DEF Broken
    <2>2. CASE Broken
        BY <1>5, <2>2 DEF Broken
    <2>3. CASE ~Broken /\ ~(Len(header) < SizeOfFlapHeader)
        <3>1. header[1] = FlapId
            BY <1>1, <1>3, <1>4, <1>5, <2>3, StartsWithFlapId
        <3> QED
            BY <1>5, <2>3, <3>1
    <2> QED
        BY <2>1, <2>2, <2>3
<1> QED
    BY <1>1, <1>6, <1>7, <1>8

LEMMA BadHeaderKeeps == ASSUME IInv, BadHeader PROVE IInv'
<1>1. up /\ Broken' /\ avail' \in Seq(Byte) /\ split' \in BOOLEAN
    BY BadHeaderBreaks
<1>2. /\ inReadyRead' = FALSE /\ errorEmitted' = TRUE
      /\ UNCHANGED <<reader, emitted, net, sent, up, connections, dirty>>
    BY DEF BadHeader
<1>3. TypeOK'
    BY <1>1, <1>2 DEF IInv, TypeOK, reader
<1>4. ReaderAtRest' /\ ErrorMeansBroken' /\ InOrder' /\ Kept'
    BY <1>1, <1>2 DEF IInv, ReaderAtRest, ErrorMeansBroken, InOrder, Kept, reader
<1> QED
    BY <1>3, <1>4, KeptIsNothingLostNext DEF IKept

LEMMA GoodHeaderKeeps == ASSUME IInv, GoodHeader PROVE IInv' /\ HandsUp /\ up
<1> DEFINE c == avail[2]
           l == avail[3]
           rest == SubSeq(avail, SizeOfFlapHeader + 1, Len(avail))
<1>1. avail \in Seq(Byte) /\ net \in Seq(Byte) /\ Len(avail) \in Nat
    BY LenProperties DEF IInv, TypeOK
<1>2. /\ inReadyRead /\ bHeader /\ SizeOfFlapHeader <= Len(avail)
      /\ avail[1] = FlapId /\ nChannel' = c /\ packetLength' = l
      /\ ReadBody(l, c, <<>>, rest)
      /\ UNCHANGED <<inReadyRead, errorEmitted, net, sent, up, history>>
    BY <1>1 DEF GoodHeader
<1>3. avail # <<>>
    BY <1>2, EmptySeq DEF SizeOfFlapHeader
<1>4. up
    BY <1>2, <1>3, ReadsWhileUp
<1>5. c \in Byte /\ l \in Byte /\ rest \in Seq(Byte) /\ avail = Header(c, l) \o rest
    BY <1>1, <1>2, HeaderInBuffer DEF Header
<1>6. <<>> \in Seq(Byte) /\ Len(<<>>) <= l
    <2>1. l \in Nat
        BY <1>5, ByteIsNat
    <2> HIDE DEF l
    <2> QED
        BY <2>1, NothingIsTyped
<1> HIDE DEF c, l, rest
<1>7. Rest = Header(c, l) \o ((<<>> \o rest) \o net)
    <2> DEFINE h == Header(c, l)
    <2>1. h \in Seq(Nat) /\ rest \in Seq(Nat) /\ net \in Seq(Nat)
        BY <1>1, <1>5, ByteIsNat, HeaderType
    <2>2. avail \o net \in Seq(Nat) /\ Partial = <<>>
        BY <1>1, <1>2, ByteIsNat, ConcatProperties DEF Partial
    <2>3. Rest = avail \o net
        BY <2>2, ConcatEmptySeq DEF Rest
    <2>4. <<>> \o rest = rest
        BY <2>1, ConcatEmptySeq
    <2> HIDE DEF h
    <2>5. (h \o rest) \o net = h \o (rest \o net)
        <3>1. Grouped(h, rest, net)
            BY <2>1, Grouping
        <3> QED
            BY <3>1 DEF Grouped
    <2> QED
        BY <1>5, <2>3, <2>4, <2>5 DEF h
<1> QED
    BY <1>2, <1>3, <1>4, <1>5, <1>6, <1>7, BodyRead

LEMMA MoreBodyKeeps == ASSUME IInv, MoreBody PROVE IInv' /\ HandsUp /\ up
<1>1. /\ avail \in Seq(Byte) /\ net \in Seq(Byte) /\ packet \in Seq(Byte)
      /\ nChannel \in Byte /\ packetLength \in Byte /\ Len(packet) <= packetLength
    BY DEF IInv, TypeOK
<1>2. /\ inReadyRead /\ avail # <<>> /\ ~bHeader
      /\ ReadBody(packetLength, nChannel, packet, avail)
      /\ UNCHANGED <<nChannel, packetLength, inReadyRead, errorEmitted, net, sent,
                     up, history>>
    BY DEF MoreBody
<1>3. up
    BY <1>2, ReadsWhileUp
<1>4. Rest = Header(nChannel, packetLength) \o ((packet \o avail) \o net)
    <2> DEFINE h == Header(nChannel, packetLength)
    <2>1. /\ h \in Seq(Nat) /\ packet \in Seq(Nat) /\ avail \in Seq(Nat)
          /\ net \in Seq(Nat)
        BY <1>1, ByteIsNat, HeaderType
    <2>2. avail \o net \in Seq(Nat)
        BY <2>1, ConcatProperties
    <2>3. Rest = (h \o packet) \o (avail \o net)
        BY <1>2 DEF Rest, Partial
    <2> HIDE DEF h
    <2>4. (packet \o avail) \o net = packet \o (avail \o net)
        <3>1. Grouped(packet, avail, net)
            BY <2>1, Grouping
        <3> QED
            BY <3>1 DEF Grouped
    <2>5. (h \o packet) \o (avail \o net) = h \o (packet \o (avail \o net))
        <3>1. Grouped(h, packet, avail \o net)
            BY <2>1, <2>2, Grouping
        <3> QED
            BY <3>1 DEF Grouped
    <2> QED
        BY <2>3, <2>4, <2>5 DEF h
<1>5. nChannel' = nChannel /\ packetLength' = packetLength
    BY <1>2
<1> QED
    BY <1>1, <1>2, <1>3, <1>4, <1>5, BodyRead

LEMMA NextIInv == IInv /\ [Next]_vars => IInv'
<1> SUFFICES ASSUME IInv, [Next]_vars PROVE IInv'
    OBVIOUS
<1>1. CASE Connected
    BY <1>1, ConnectedKeeps
<1>2. CASE Dropped
    BY <1>2, DroppedKeeps
<1>3. CASE SlotReconnects
    BY <1>3, SlotReconnectsKeeps
<1>4. CASE ServerWrites
    BY <1>4, ServerWritesKeeps
<1>5. CASE BytesArrive
    BY <1>5, BytesArriveKeeps
<1>6. CASE ReadyRead
    <2>1. CASE LeaveLoop
        BY <2>1, LeaveLoopKeeps
    <2>2. CASE BadHeader
        BY <2>2, BadHeaderKeeps
    <2>3. CASE GoodHeader
        BY <2>3, GoodHeaderKeeps
    <2>4. CASE MoreBody
        BY <2>4, MoreBodyKeeps
    <2> QED
        BY <1>6, <2>1, <2>2, <2>3, <2>4 DEF ReadyRead
<1>7. CASE UNCHANGED vars
    BY <1>7 DEF vars, reader, history, IInv, TypeOK, ReaderAtRest, InOrder,
                NothingLost, ErrorMeansBroken, Broken
<1> QED
    BY <1>1, <1>2, <1>3, <1>4, <1>5, <1>6, <1>7 DEF Next

\* The invariant holds in every reachable state.
LEMMA Invariance == Spec => []IInv
BY InitIInv, NextIInv, PTL DEF Spec

-----------------------------------------------------------------------------
(* The theorems *)

\* Every field of the reader keeps its type, and a partial body is never longer
\* than the packet it belongs to.
THEOREM TypeCorrect == Spec => []TypeOK
<1>1. IInv => TypeOK
    BY DEF IInv
<1> QED
    BY <1>1, Invariance, PTL

\* While the reader is in step, what it handed up, the part of a body it holds,
\* the socket's buffer and the network are exactly what the server wrote, for
\* every way TCP cuts the stream, every payload and every number of packets.
THEOREM StreamIsKept == Spec => []NothingLost
<1>1. IInv => NothingLost
    BY DEF IInv
<1> QED
    BY <1>1, Invariance, PTL

\* readyRead complains of a server that keeps the protocol only after it has
\* lost its own place: across a reconnect inside a packet, or a split header.
THEOREM ErrorOnlyWhenBroken == Spec => []ErrorMeansBroken
<1>1. IInv => ErrorMeansBroken
    BY DEF IInv
<1> QED
    BY <1>1, Invariance, PTL

LEMMA InitStream == Init => Stream!Init
BY DEF Init, Stream!Init, Broken

\* Each step is a step of the packet stream or leaves it alone.
LEMMA StepStream ==
    IInv /\ [Next]_vars => [Stream!Next]_(Stream!vars)
<1> SUFFICES ASSUME IInv, [Next]_vars PROVE [Stream!Next]_(Stream!vars)
    OBVIOUS
<1> USE DEF Stream!vars
<1>1. CASE Connected
    <2>1. Broken' \in BOOLEAN
        BY <1>1 DEF Connected, Broken, IInv, TypeOK
    <2> QED
        BY <1>1, <2>1 DEF Connected, Stream!Next, Stream!Restart
<1>2. CASE Dropped
    BY <1>2 DEF Dropped, history, Broken
<1>3. CASE SlotReconnects
    BY <1>3 DEF SlotReconnects, history, Broken
<1>4. CASE ServerWrites
    <2>1. PICK p \in Packet : sent' = Append(sent, p)
        BY <1>4 DEF ServerWrites
    <2>2. p \in [channel : Byte, data : BoundedSeq(Byte, ByteRange - 1)]
        <3>1. p.channel \in Byte /\ p.data \in BoundedSeq(Payload, MaxLength)
              /\ p = [channel |-> p.channel, data |-> p.data]
            BY OscarSocketAssumption DEF Packet
        <3>2. PICK m \in 0 .. MaxLength : p.data \in [1 .. m -> Payload]
            BY <3>1 DEF BoundedSeq, SeqOf
        <3>3. m \in 0 .. ByteRange - 1 /\ p.data \in [1 .. m -> Byte]
            <4>1. MaxLength \in 0 .. ByteRange - 1 /\ ByteRange \in Nat
                BY OscarSocketAssumption DEF Byte
            <4>2. m \in 0 .. ByteRange - 1
                BY <3>2, <4>1
            <4>3. Payload \subseteq Byte
                BY OscarSocketAssumption
            <4> QED
                BY <3>2, <4>2, <4>3
        <3>4. p.data \in BoundedSeq(Byte, ByteRange - 1)
            BY <3>3 DEF BoundedSeq, SeqOf
        <3> QED
            BY <3>1, <3>4
    <2> QED
        BY <1>4, <2>1, <2>2 DEF ServerWrites, history, Broken, Stream!Next, Stream!Write
<1>5. CASE BytesArrive
    BY <1>5 DEF BytesArrive, history, Broken
<1>6. CASE LeaveLoop
    BY <1>6 DEF LeaveLoop, history, Broken
<1>7. CASE BadHeader
    <2>1. Broken' = TRUE
        BY <1>7, BadHeaderBreaks DEF Broken
    <2> QED
        BY <1>7, <2>1 DEF BadHeader, Stream!Next, Stream!Break
<1>8. ASSUME HandsUp, UNCHANGED <<sent, history>>
      PROVE  [Stream!Next]_(Stream!vars)
    <2>1. Broken' = Broken
        BY <1>8 DEF history, Broken
    <2>2. CASE UNCHANGED emitted
        BY <1>8, <2>1, <2>2
    <2>3. CASE /\ ~Broken /\ Len(emitted) < Len(sent)
               /\ emitted' = Append(emitted, sent[Len(emitted) + 1])
        BY <1>8, <2>1, <2>3 DEF Stream!Next, Stream!Receive
    <2>4. CASE /\ Broken
               /\ \E p \in [channel : Byte, data : BoundedSeq(Byte, ByteRange - 1)] :
                      emitted' = Append(emitted, p)
        BY <1>8, <2>1, <2>4 DEF Stream!Next, Stream!Garbage
    <2> QED
        BY <1>8, <2>2, <2>3, <2>4 DEF HandsUp
<1>9. CASE GoodHeader
    BY <1>8, <1>9, GoodHeaderKeeps DEF GoodHeader
<1>10. CASE MoreBody
    BY <1>8, <1>10, MoreBodyKeeps DEF MoreBody
<1>11. CASE UNCHANGED vars
    BY <1>11 DEF vars, history, Broken
<1> QED
    BY <1>1, <1>2, <1>3, <1>4, <1>5, <1>6, <1>7, <1>9, <1>10, <1>11
       DEF Next, ReadyRead

\* The reader implements the packet stream the client above it relies on: the
\* packets come up in the order they were written, each once and unaltered,
\* until its framing is broken or the connection ends.
THEOREM ImplementsStream == Spec => ImplementsPacketStream
<1>1. Init => Stream!Init
    BY InitStream
<1>2. IInv /\ [Next]_vars => [Stream!Next]_(Stream!vars)
    BY StepStream
<1> QED
    BY <1>1, <1>2, Invariance, PTL DEF Spec, ImplementsPacketStream, Stream!Spec

-----------------------------------------------------------------------------
(* The lists in the bodies of packets: numbers *)

LEMMA DivMod ==
    ASSUME NEW m \in Nat \ {0}, NEW x \in Int
    PROVE  /\ x \div m \in Int /\ (x % m) \in 0 .. m - 1
           /\ x = m * (x \div m) + (x % m)
OBVIOUS

LEMMA Above ==
    ASSUME NEW m \in Nat \ {0}, NEW a \in Int, NEW b \in Int, a < b
    PROVE  m * a + m <= m * b
OBVIOUS

LEMMA ModIs ==
    ASSUME NEW m \in Nat \ {0}, NEW x \in Int, NEW k \in Int, NEW r \in 0 .. m - 1,
           x = m * k + r
    PROVE  (x % m) = r /\ x \div m = k
<1> DEFINE q == x \div m
           s == x % m
<1>1. q \in Int /\ s \in 0 .. m - 1 /\ x = m * q + s
    BY DivMod
<1> HIDE DEF q, s
<1>2. CASE q < k
    <2>1. m * q + m <= m * k
        BY <1>1, <1>2, Above
    <2> QED
        BY <1>1, <2>1
<1>3. CASE k < q
    <2>1. m * k + m <= m * q
        BY <1>1, <1>3, Above
    <2> QED
        BY <1>1, <2>1
<1>4. CASE k = q
    BY <1>1, <1>4 DEF q, s
<1> QED
    BY <1>1, <1>2, <1>3, <1>4

IsRemainder(r, x, c, k, m) == x + c = m * k + r

\* What is added to a remainder makes up for what was left out before it.
LEMMA ModAdd ==
    ASSUME NEW m \in Nat \ {0}, NEW x \in Int, NEW c \in Int, NEW k \in Int,
           NEW r \in 0 .. m - 1, IsRemainder(r, x, c, k, m)
    PROVE  ((x % m) + c) % m = r
<1> DEFINE q == x \div m
           s == x % m
<1>1. q \in Int /\ s \in 0 .. m - 1 /\ x = m * q + s
    BY DivMod
<1> HIDE DEF q, s
<1>2. s + c = m * (k - q) + r
    <2>1. m * (k - q) = m * k - m * q
        BY <1>1
    <2>2. x + c = m * k + r
        BY DEF IsRemainder
    <2> QED
        BY <1>1, <2>1, <2>2
<1>3. s + c \in Int /\ k - q \in Int
    BY <1>1
<1>4. (s + c) % m = r
    BY <1>2, <1>3, ModIs
<1> QED
    BY <1>4 DEF s

LEMMA BaseType ==
    /\ Base \in Nat \ {0} /\ WordRange = Base * Base
    /\ WordRange \in Nat \ {0} /\ WordRange * WordRange \in Nat \ {0}
    /\ TlvByte \subseteq Nat /\ Seq(TlvByte) \subseteq Seq(Nat)
    /\ Word \subseteq Nat
    /\ Id \subseteq Word /\ Data \subseteq Seq(TlvByte)
<1>1. Base \in Nat \ {0} /\ Id \subseteq Word /\ Data \subseteq Seq(TlvByte)
    BY TlvAssumption
<1>2. Base * Base \in Nat \ {0}
    BY <1>1
<1>3. WordRange = Base * Base /\ WordRange \in Nat \ {0}
    BY <1>2 DEF WordRange
<1>4. WordRange * WordRange \in Nat \ {0}
    BY <1>3
<1>5. TlvByte \subseteq Nat /\ Word \subseteq Nat
    BY <1>1, <1>3 DEF TlvByte, Word
<1>6. Seq(TlvByte) \subseteq Seq(Nat)
    BY <1>5, SeqMonotonic
<1> QED
    BY <1>1, <1>3, <1>4, <1>5, <1>6

\* A word is read as it was written.
LEMMA WordBack ==
    ASSUME NEW w \in Word
    PROVE  LET hi == (w \div Base) % Base
               lo == w % Base
           IN  /\ hi \in TlvByte /\ lo \in TlvByte /\ hi * Base + lo = w
<1> DEFINE q == w \div Base
           s == w % Base
<1>1. Base \in Nat \ {0} /\ WordRange = Base * Base /\ w \in 0 .. Base * Base - 1
    BY BaseType DEF Word
<1>2. q \in Int /\ s \in 0 .. Base - 1 /\ w = Base * q + s
    BY <1>1, DivMod
<1> HIDE DEF q, s
<1>3. 0 <= q
    <2>1. SUFFICES ASSUME q < 0 PROVE FALSE
        BY <1>2
    <2>2. Base * q + Base <= Base * 0
        BY <1>1, <1>2, <2>1, Above
    <2> QED
        BY <1>1, <1>2, <2>2
<1>4. q < Base
    <2>1. SUFFICES ASSUME Base <= q PROVE FALSE
        BY <1>1, <1>2
    <2>2. Base * Base <= Base * q
        <3>1. CASE Base = q
            BY <1>1, <3>1
        <3>2. CASE Base < q
            <4>1. Base * Base + Base <= Base * q
                BY <1>1, <1>2, <3>2, Above
            <4> QED
                BY <1>1, <1>2, <4>1
        <3> QED
            BY <1>1, <1>2, <2>1, <3>1, <3>2
    <2> QED
        BY <1>1, <1>2, <2>2
<1>5. (q % Base) = q
    <2>1. q \in 0 .. Base - 1 /\ q = Base * 0 + q
        BY <1>1, <1>2, <1>3, <1>4
    <2> QED
        BY <1>1, <1>2, <2>1, ModIs
<1>6. q * Base = Base * q
    BY <1>1, <1>2
<1>7. (q % Base) \in TlvByte /\ s \in TlvByte /\ (q % Base) * Base + s = w
    BY <1>1, <1>2, <1>3, <1>4, <1>5, <1>6 DEF TlvByte
<1> QED
    BY <1>7 DEF q, s

\* A char is the byte, less Base above the lower half.
Upper(b) == IF b >= Base \div 2 THEN 1 ELSE 0

LEMMA CharIs ==
    ASSUME NEW b \in TlvByte
    PROVE  /\ b \in 0 .. Base - 1 /\ b \in Int /\ Upper(b) \in Int
           /\ char(b) = b - Base * Upper(b)
           /\ \A weight \in Nat : Carry(b, weight) = weight * Upper(b)
<1>1. Base \in Nat \ {0}
    BY BaseType
<1>2. CASE b >= Base \div 2
    BY <1>1, <1>2 DEF Upper, char, Carry, TlvByte
<1>3. CASE ~(b >= Base \div 2)
    BY <1>1, <1>3 DEF Upper, char, Carry, TlvByte
<1> QED
    BY <1>2, <1>3

\* Two digits are below the square of their base.
LEMMA TwoDigits ==
    ASSUME NEW m \in Nat \ {0}, NEW a \in 0 .. m - 1, NEW b \in 0 .. m - 1
    PROVE  a * m + b \in 0 .. m * m - 1
<1>1. m * a + m <= m * m
    BY Above
<1>2. a * m = m * a /\ m * a \in Nat /\ m * m \in Nat
    OBVIOUS
<1> QED
    BY <1>1, <1>2

LEMMA Sum16 ==
    ASSUME NEW m \in Int, NEW a \in Int, NEW b \in Int, NEW p \in Int, NEW q \in Int
    PROVE  (b - m * q) + (a - m * p) * m + m * q = (m * m) * (0 - p) + (a * m + b)
OBVIOUS

LEMMA Sum32 ==
    ASSUME NEW m \in Int, NEW a \in Int, NEW b \in Int, NEW c \in Int, NEW d \in Int,
           NEW p \in Int, NEW q \in Int, NEW r \in Int, NEW s \in Int
    PROVE  (d - m * s) + (c - m * r) * m + (b - m * q) * (m * m)
             + (a - m * p) * (m * m) * m
             + (m * s + (m * m) * r + ((m * m) * m) * q)
           = ((m * m) * (m * m)) * (0 - p) + (((a * m + b) * m + c) * m + d)
OBVIOUS

LEMMA FourDigits ==
    ASSUME NEW m \in Nat \ {0}, NEW a \in 0 .. m - 1, NEW b \in 0 .. m - 1,
           NEW c \in 0 .. m - 1, NEW d \in 0 .. m - 1
    PROVE  ((a * m + b) * m + c) * m + d \in 0 .. (m * m) * (m * m) - 1
<1>1. PICK w \in Nat \ {0} : w = m * m
    OBVIOUS
<1>2. PICK hi \in 0 .. w - 1 : hi = a * m + b
    BY <1>1, TwoDigits
<1>3. PICK lo \in 0 .. w - 1 : lo = c * m + d
    BY <1>1, TwoDigits
<1>4. hi * w + lo \in 0 .. w * w - 1
    BY TwoDigits
<1>5. ((a * m + b) * m + c) * m + d = (a * m + b) * (m * m) + (c * m + d)
    OBVIOUS
<1> QED
    BY <1>1, <1>2, <1>3, <1>4, <1>5

LEMMA Uint16Of ==
    ASSUME NEW a \in TlvByte, NEW b \in TlvByte
    PROVE  (((char(b) + char(a) * Base) % WordRange) + Carry(b, Base))
             % WordRange = a * Base + b
<1>1. Base \in Nat \ {0} /\ WordRange = Base * Base /\ Base * Base \in Nat \ {0}
    BY BaseType
<1>2. PICK p \in Int, q \in Int : p = Upper(a) /\ q = Upper(b)
    BY CharIs
<1>3. /\ a \in 0 .. Base - 1 /\ b \in 0 .. Base - 1
      /\ char(a) = a - Base * p /\ char(b) = b - Base * q
      /\ Carry(b, Base) = Base * q
    BY <1>1, <1>2, CharIs
<1> DEFINE x == (b - Base * q) + (a - Base * p) * Base
           r == a * Base + b
<1>4. x + Base * q = (Base * Base) * (0 - p) + r
    BY <1>1, <1>3, Sum16
<1>5. r \in 0 .. (Base * Base) - 1
    BY <1>1, <1>3, TwoDigits
<1>6. x \in Int /\ Base * q \in Int /\ 0 - p \in Int
    BY <1>1, <1>3
<1> HIDE DEF x, r
<1>7. ((x % (Base * Base)) + Base * q) % (Base * Base) = r
    <2>1. PICK m \in Nat \ {0} : m = Base * Base
        BY <1>1
    <2>2. PICK c \in Int, j \in Int : c = Base * q /\ j = 0 - p
        BY <1>6
    <2>3. r \in 0 .. m - 1 /\ IsRemainder(r, x, c, j, m)
        BY <1>4, <1>5, <2>1, <2>2 DEF IsRemainder
    <2>4. ((x % m) + c) % m = r
        BY <1>6, <2>3, ModAdd, Zenon
    <2> QED
        BY <2>1, <2>2, <2>4, Zenon
<1> QED
    BY <1>1, <1>3, <1>7 DEF x, r

LEMMA Uint16Is ==
    ASSUME NEW d \in Seq(TlvByte), Len(d) = 2
    PROVE  (toUint16(d) + Carry(d[2], Base)) % WordRange = d[1] * Base + d[2]
<1>1. d[1] \in TlvByte /\ d[2] \in TlvByte
    BY ElementOfSeq
<1>2. toUint16(d) = (char(d[2]) + char(d[1]) * Base) % WordRange
    BY DEF toUint16
<1> QED
    BY <1>1, <1>2, Uint16Of, Zenon

LEMMA Uint32Of ==
    ASSUME NEW a \in TlvByte, NEW b \in TlvByte,
           NEW c \in TlvByte, NEW d \in TlvByte
    PROVE  (((char(d) + char(c) * Base + char(b) * WordRange
              + char(a) * WordRange * Base) % (WordRange * WordRange))
            + Carry(d, Base) + Carry(c, WordRange)
            + Carry(b, WordRange * Base)) % (WordRange * WordRange)
           = ((a * Base + b) * Base + c) * Base + d
<1>1. /\ Base \in Nat \ {0} /\ WordRange = Base * Base /\ Base * Base \in Nat
      /\ (Base * Base) * Base \in Nat /\ (Base * Base) * (Base * Base) \in Nat \ {0}
    BY BaseType
<1>2. PICK p \in Int, q \in Int, r \in Int, s \in Int :
          p = Upper(a) /\ q = Upper(b) /\ r = Upper(c) /\ s = Upper(d)
    BY CharIs
<1>3. /\ a \in 0 .. Base - 1 /\ b \in 0 .. Base - 1
      /\ c \in 0 .. Base - 1 /\ d \in 0 .. Base - 1
      /\ char(a) = a - Base * p /\ char(b) = b - Base * q
      /\ char(c) = c - Base * r /\ char(d) = d - Base * s
    BY <1>2, CharIs
<1>4. /\ Carry(d, Base) = Base * s
      /\ Carry(c, WordRange) = (Base * Base) * r
      /\ Carry(b, WordRange * Base) = ((Base * Base) * Base) * q
    BY <1>1, <1>2, CharIs
<1> DEFINE x == (d - Base * s) + (c - Base * r) * Base
                + (b - Base * q) * (Base * Base)
                + (a - Base * p) * (Base * Base) * Base
           y == ((a * Base + b) * Base + c) * Base + d
           k == Base * s + (Base * Base) * r + ((Base * Base) * Base) * q
<1>5. x + k = ((Base * Base) * (Base * Base)) * (0 - p) + y
    BY <1>1, <1>3, Sum32
<1>6. y \in 0 .. (Base * Base) * (Base * Base) - 1
    BY <1>1, <1>3, FourDigits
<1>7. x \in Int /\ k \in Int /\ 0 - p \in Int
    BY <1>1, <1>3
<1>8. \A z \in Int : z + Carry(d, Base) + Carry(c, WordRange)
                       + Carry(b, WordRange * Base) = z + k
    BY <1>1, <1>4
<1>9. char(d) + char(c) * Base + char(b) * WordRange
        + char(a) * WordRange * Base = x
    BY <1>1, <1>3
<1> HIDE DEF x, y, k
<1>10. (x % ((Base * Base) * (Base * Base))) \in Int
    BY <1>1, <1>7, DivMod
<1>11. ((x % ((Base * Base) * (Base * Base))) + k) % ((Base * Base) * (Base * Base)) = y
    <2>1. PICK m \in Nat \ {0} : m = (Base * Base) * (Base * Base)
        BY <1>1
    <2>2. PICK j \in Int : j = 0 - p
        BY <1>7
    <2>3. y \in 0 .. m - 1 /\ IsRemainder(y, x, k, j, m)
        BY <1>5, <1>6, <2>1, <2>2 DEF IsRemainder
    <2>4. ((x % m) + k) % m = y
        BY <1>7, <2>3, ModAdd, Zenon
    <2> QED
        BY <2>1, <2>4, Zenon
<1>12. ((x % (WordRange * WordRange)) + Carry(d, Base)
        + Carry(c, WordRange) + Carry(b, WordRange * Base))
         % (WordRange * WordRange) = y
    BY <1>1, <1>8, <1>10, <1>11, Zenon
<1> QED
    BY <1>9, <1>12, Zenon DEF y

LEMMA Uint32Is ==
    ASSUME NEW d \in Seq(TlvByte), Len(d) = 4
    PROVE  (toUint32(d) + Carry(d[4], Base) + Carry(d[3], WordRange)
            + Carry(d[2], WordRange * Base)) % (WordRange * WordRange)
           = ((d[1] * Base + d[2]) * Base + d[3]) * Base + d[4]
<1>1. d[1] \in TlvByte /\ d[2] \in TlvByte /\ d[3] \in TlvByte /\ d[4] \in TlvByte
    BY ElementOfSeq
<1>2. toUint32(d) = (char(d[4]) + char(d[3]) * Base
                       + char(d[2]) * WordRange
                       + char(d[1]) * WordRange * Base)
                        % (WordRange * WordRange)
    BY DEF toUint32
<1> DEFINE Sum(a, b, c, e) == (char(e) + char(c) * Base
                               + char(b) * WordRange
                               + char(a) * WordRange * Base)
                                % (WordRange * WordRange)
           Whole(a, b, c, e) == ((a * Base + b) * Base + c) * Base + e
           Right(a, b, c, e) ==
               (Sum(a, b, c, e) + Carry(e, Base) + Carry(c, WordRange)
                + Carry(b, WordRange * Base)) % (WordRange * WordRange)
               = Whole(a, b, c, e)
<1>3. \A a, b, c, e \in TlvByte : Right(a, b, c, e)
    BY Uint32Of
<1>4. toUint32(d) = Sum(d[1], d[2], d[3], d[4])
    BY <1>2
<1> HIDE DEF Sum, Whole, Right
<1>5. Right(d[1], d[2], d[3], d[4])
    BY <1>1, <1>3
<1> QED
    BY <1>4, <1>5, Zenon DEF Right, Whole

-----------------------------------------------------------------------------
(* The bytes of a list *)

AnyTlv == [id : Word, data : Seq(TlvByte)]

LEMMA SkipIs ==
    ASSUME NEW S, NEW a \in Seq(S), NEW n \in Nat
    PROVE  /\ Skip(a, n) \in Seq(S)
           /\ n <= Len(a) => /\ Len(Skip(a, n)) = Len(a) - n
                             /\ \A i \in 1 .. Len(a) - n : Skip(a, n)[i] = a[n + i]
           /\ Len(a) <= n => Skip(a, n) = <<>>
<1>1. Len(a) \in Nat /\ \A i \in 1 .. Len(a) : a[i] \in S
    BY LenProperties, ElementOfSeq
<1>2. CASE n <= Len(a)
    <2>1. Skip(a, n) = SubSeq(a, 1 + n, Len(a))
        <3>1. LeastOf(n, Len(a)) = n
            BY <1>1, <1>2 DEF LeastOf
        <3> QED
            BY <3>1, Zenon DEF Skip
    <2>2. 1 + n \in Int /\ \A i \in 1 + n .. Len(a) : a[i] \in S
        BY <1>1
    <2>3. /\ SubSeq(a, 1 + n, Len(a)) \in Seq(S)
          /\ Len(SubSeq(a, 1 + n, Len(a)))
               = IF 1 + n <= Len(a) THEN Len(a) - (1 + n) + 1 ELSE 0
          /\ \A i \in 1 .. Len(a) - (1 + n) + 1 :
                 SubSeq(a, 1 + n, Len(a))[i] = a[(1 + n) + i - 1]
        BY <1>1, <2>2, SubSeqProperties
    <2>4. /\ Skip(a, n) \in Seq(S) /\ Len(Skip(a, n)) = Len(a) - n
          /\ \A i \in 1 .. Len(a) - n : Skip(a, n)[i] = a[n + i]
        <3>1. Len(a) - (1 + n) + 1 = Len(a) - n
            BY <1>1
        <3>2. Len(SubSeq(a, 1 + n, Len(a))) = Len(a) - n
            BY <1>1, <1>2, <2>3
        <3>3. ASSUME NEW i \in 1 .. Len(a) - n
              PROVE  SubSeq(a, 1 + n, Len(a))[i] = a[n + i]
            <4>1. (1 + n) + i - 1 = n + i /\ i \in 1 .. Len(a) - (1 + n) + 1
                BY <1>1, <3>1
            <4> QED
                BY <2>3, <4>1
        <3> QED
            BY <2>1, <2>3, <3>2, <3>3
    <2>5. Len(a) <= n => Skip(a, n) = <<>>
        BY <1>1, <1>2, <2>4, EmptySeq
    <2> QED
        BY <2>4, <2>5
<1>3. CASE ~(n <= Len(a))
    <2>1. Skip(a, n) = SubSeq(a, 1 + Len(a), Len(a))
        <3>1. LeastOf(n, Len(a)) = Len(a)
            BY <1>1, <1>3 DEF LeastOf
        <3> QED
            BY <3>1, Zenon DEF Skip
    <2>2. Skip(a, n) = <<>>
        BY <1>1, <2>1, SubSeqEmpty
    <2> QED
        BY <1>1, <1>3, <2>2, EmptySeq
<1> QED
    BY <1>2, <1>3

\* What Skip leaves, by a name of its own.
LEMMA SkippedIs ==
    \A a \in Seq(Nat) : \A k \in Nat :
        k <= Len(a) => \E s \in Seq(Nat) :
                          /\ s = Skip(a, k) /\ Len(s) = Len(a) - k
                          /\ \A i \in 1 .. Len(a) - k : s[i] = a[k + i]
<1>1. ASSUME NEW a \in Seq(Nat), NEW k \in Nat, k <= Len(a)
      PROVE  \E s \in Seq(Nat) :
                 /\ s = Skip(a, k) /\ Len(s) = Len(a) - k
                 /\ \A i \in 1 .. Len(a) - k : s[i] = a[k + i]
    <2>1. /\ Skip(a, k) \in Seq(Nat) /\ Len(Skip(a, k)) = Len(a) - k
          /\ \A i \in 1 .. Len(a) - k : Skip(a, k)[i] = a[k + i]
        BY <1>1, SkipIs
    <2> QED
        BY <2>1
<1> QED
    BY <1>1

LEMMA ReadBytesIs ==
    ASSUME NEW S, NEW a \in Seq(S), NEW n \in Nat
    PROVE  /\ readBytes(a, n) \in Seq(S)
           /\ n <= Len(a) => /\ Len(readBytes(a, n)) = n
                             /\ \A i \in 1 .. n : readBytes(a, n)[i] = a[i]
           /\ Len(a) <= n => readBytes(a, n) = a
<1>1. Len(a) \in Nat /\ \A i \in 1 .. Len(a) : a[i] \in S
    BY LenProperties, ElementOfSeq
<1>2. CASE n <= Len(a)
    <2>1. readBytes(a, n) = SubSeq(a, 1, n)
        BY <1>1, <1>2 DEF readBytes, LeastOf
    <2>2. 1 \in Int /\ n \in Int /\ \A i \in 1 .. n : a[i] \in S
        BY <1>1, <1>2
    <2>3. /\ SubSeq(a, 1, n) \in Seq(S)
          /\ Len(SubSeq(a, 1, n)) = IF 1 <= n THEN n - 1 + 1 ELSE 0
          /\ \A i \in 1 .. n - 1 + 1 : SubSeq(a, 1, n)[i] = a[1 + i - 1]
        BY <2>2, SubSeqProperties
    <2>4. n - 1 + 1 = n /\ \A i \in 1 .. n : 1 + i - 1 = i
        OBVIOUS
    <2>5. Len(a) <= n => SubSeq(a, 1, n) = a
        BY <1>1, <1>2, SubSeqFull
    <2> QED
        BY <2>1, <2>3, <2>4, <2>5
<1>3. CASE ~(n <= Len(a))
    <2>1. readBytes(a, n) = SubSeq(a, 1, Len(a))
        BY <1>1, <1>3 DEF readBytes, LeastOf
    <2> QED
        BY <1>3, <2>1, SubSeqFull
<1> QED
    BY <1>2, <1>3

LEMMA WordBytesIs ==
    ASSUME NEW w \in Nat
    PROVE  /\ wordBytes(w) \in Seq(TlvByte) /\ Len(wordBytes(w)) = 2
           /\ wordBytes(w)[1] = (w \div Base) % Base
           /\ wordBytes(w)[2] = w % Base
<1>1. Base \in Nat \ {0}
    BY BaseType
<1>2. w \div Base \in Int /\ (w % Base) \in 0 .. Base - 1
    BY <1>1, DivMod
<1>3. ((w \div Base) % Base) \in 0 .. Base - 1
    BY <1>1, <1>2, DivMod
<1> DEFINE hi == (w \div Base) % Base
           lo == w % Base
<1>4. hi \in TlvByte /\ lo \in TlvByte /\ wordBytes(w) = <<hi, lo>>
    BY <1>2, <1>3 DEF TlvByte, wordBytes
<1> HIDE DEF hi, lo
<1>5. /\ <<hi, lo>> \in Seq(TlvByte) /\ Len(<<hi, lo>>) = 2
      /\ <<hi, lo>>[1] = hi /\ <<hi, lo>>[2] = lo
    BY <1>4
<1> QED
    BY <1>4, <1>5 DEF hi, lo

\* An entry is four bytes and what it holds.
LEMMA TlvBytesIs ==
    ASSUME NEW e \in AnyTlv
    PROVE  LET b == tlvBytes(e) IN
           /\ b \in Seq(TlvByte) /\ Len(e.data) \in Nat
           /\ e.id \in Word /\ e.data \in Seq(TlvByte)
           /\ e = Tlv(e.id, e.data)
           /\ Len(b) = 4 + Len(e.data)
           /\ b[1] = (e.id \div Base) % Base /\ b[2] = e.id % Base
           /\ b[3] = (Len(e.data) \div Base) % Base /\ b[4] = Len(e.data) % Base
           /\ \A i \in 1 .. Len(e.data) : b[4 + i] = e.data[i]
<1>1. /\ e.id \in Word /\ e.id \in Nat /\ e.data \in Seq(TlvByte)
      /\ Len(e.data) \in Nat /\ e = Tlv(e.id, e.data)
    BY BaseType, LenProperties DEF AnyTlv, Tlv
<1> DEFINE x == wordBytes(e.id)
           y == wordBytes(Len(e.data))
           z == e.data
<1>2. /\ x \in Seq(TlvByte) /\ Len(x) = 2
      /\ x[1] = (e.id \div Base) % Base /\ x[2] = e.id % Base
      /\ y \in Seq(TlvByte) /\ Len(y) = 2
      /\ y[1] = (Len(e.data) \div Base) % Base /\ y[2] = Len(e.data) % Base
    BY <1>1, WordBytesIs
<1>3. tlvBytes(e) = (x \o y) \o z
    BY DEF tlvBytes
<1>4. z \in Seq(TlvByte) /\ Len(z) \in Nat
    BY <1>1
<1> HIDE DEF x, y, z
<1>5. /\ x \o y \in Seq(TlvByte) /\ Len(x \o y) = 4
      /\ (x \o y)[1] = x[1] /\ (x \o y)[2] = x[2]
      /\ (x \o y)[3] = y[1] /\ (x \o y)[4] = y[2]
    <2>1. /\ x \o y \in Seq(TlvByte) /\ Len(x \o y) = Len(x) + Len(y)
          /\ \A i \in 1 .. Len(x) + Len(y) :
                 (x \o y)[i] = IF i <= Len(x) THEN x[i] ELSE y[i - Len(x)]
        BY <1>2, ConcatProperties
    <2>2. Len(x) = 2 /\ Len(y) = 2
        BY <1>2
    <2>3. \A i \in 1 .. 4 : (x \o y)[i] = IF i <= 2 THEN x[i] ELSE y[i - 2]
        BY <2>1, <2>2
    <2> QED
        BY <2>1, <2>2, <2>3
<1>6. PICK h \in Seq(TlvByte) : h = x \o y
    BY <1>5
<1>7. /\ h \o z \in Seq(TlvByte) /\ Len(h \o z) = 4 + Len(z)
      /\ \A i \in 1 .. 4 + Len(z) : (h \o z)[i] = IF i <= 4 THEN h[i] ELSE z[i - 4]
    BY <1>4, <1>5, <1>6, ConcatProperties
<1>8. /\ (h \o z)[1] = h[1] /\ (h \o z)[2] = h[2]
      /\ (h \o z)[3] = h[3] /\ (h \o z)[4] = h[4]
      /\ \A i \in 1 .. Len(z) : (h \o z)[4 + i] = z[i]
    BY <1>4, <1>7
<1>9. tlvBytes(e) = h \o z
    BY <1>3, <1>6
<1> QED
    BY <1>1, <1>2, <1>5, <1>6, <1>7, <1>8, <1>9 DEF z

\* The bytes of a list, and of its first k entries.
EncodedOf(ls) == [i \in DOMAIN ls |-> tlvBytes(ls[i])]
BytesOf(ls) == FlattenSeq(EncodedOf(ls))
Before(ls, k) == FlattenSeq(SubSeq(EncodedOf(ls), 1, k))

LEMMA FlattenIs == \A s : FlattenSeq(s) = FlattenSeq(s)
BY DEF FlattenSeq, FlattenSeq

LEMMA BytesOfList == toByteArray = BytesOf(list)
BY FlattenIs DEF toByteArray, BytesOf, EncodedOf

LEMMA EncodedType ==
    ASSUME NEW ls \in Seq(AnyTlv)
    PROVE  /\ EncodedOf(ls) \in Seq(Seq(TlvByte)) /\ Len(EncodedOf(ls)) = Len(ls)
           /\ Len(ls) \in Nat
           /\ BytesOf(ls) \in Seq(TlvByte) /\ BytesOf(ls) \in Seq(Nat)
<1>1. /\ Len(ls) \in Nat /\ DOMAIN ls = 1 .. Len(ls)
      /\ \A i \in 1 .. Len(ls) : tlvBytes(ls[i]) \in Seq(TlvByte)
    BY LenProperties, ElementOfSeq, TlvBytesIs
<1>2. EncodedOf(ls) \in Seq(Seq(TlvByte)) /\ Len(EncodedOf(ls)) = Len(ls)
    BY <1>1 DEF EncodedOf
<1>3. BytesOf(ls) \in Seq(TlvByte)
    BY <1>2, FlatIsSeq DEF BytesOf
<1> QED
    BY <1>1, <1>2, <1>3, BaseType

LEMMA NextEntry ==
    ASSUME NEW ls \in Seq(AnyTlv), NEW k \in 0 .. Len(ls) - 1
    PROVE  LET b == tlvBytes(ls[k+1]) IN
           /\ ls[k+1] \in AnyTlv
           /\ Before(ls, k) \in Seq(Nat) /\ b \in Seq(Nat)
           /\ Before(ls, k+1) = Before(ls, k) \o b
           /\ \E u \in Seq(Nat) : BytesOf(ls) = Before(ls, k) \o (b \o u)
<1>1. /\ EncodedOf(ls) \in Seq(Seq(TlvByte)) /\ Len(EncodedOf(ls)) = Len(ls)
      /\ Len(ls) \in Nat
      /\ k \in 0 .. Len(EncodedOf(ls)) - 1 /\ k + 1 \in 1 .. Len(ls)
    BY EncodedType
<1>2. ls[k+1] \in AnyTlv
    BY <1>1, ElementOfSeq
<1>3. EncodedOf(ls)[k+1] = tlvBytes(ls[k+1])
    BY <1>1, LenProperties DEF EncodedOf
<1>4. /\ Before(ls, k) \in Seq(TlvByte) /\ EncodedOf(ls)[k+1] \in Seq(TlvByte)
      /\ Before(ls, k+1) = Before(ls, k) \o EncodedOf(ls)[k+1]
      /\ \E u \in Seq(TlvByte) :
             BytesOf(ls) = Before(ls, k) \o (EncodedOf(ls)[k+1] \o u)
    BY <1>1, FlatNext DEF Before, BytesOf
<1>5. Seq(TlvByte) \subseteq Seq(Nat)
    BY BaseType
<1> QED
    BY <1>2, <1>3, <1>4, <1>5

LEMMA BeforeEnds ==
    ASSUME NEW ls \in Seq(AnyTlv)
    PROVE  Before(ls, 0) = <<>> /\ Before(ls, Len(ls)) = BytesOf(ls)
<1>1. /\ EncodedOf(ls) \in Seq(Seq(TlvByte)) /\ Len(EncodedOf(ls)) = Len(ls)
    BY EncodedType
<1>2. SubSeq(EncodedOf(ls), 1, 0) = <<>>
    BY SubSeqEmpty
<1>3. SubSeq(EncodedOf(ls), 1, Len(ls)) = EncodedOf(ls)
    BY <1>1, SubSeqFull
<1> QED
    BY <1>2, <1>3, FlatEmpty DEF Before, BytesOf

-----------------------------------------------------------------------------
(* One turn of the reader's loop *)

LEMMA ReadWordIs ==
    ASSUME NEW a \in Seq(TlvByte)
    PROVE  /\ readWord(a) \subseteq Nat
           /\ Len(a) >= 2 => readWord(a) = {a[1] * Base + a[2]}
           /\ readWord(a) \subseteq Word
<1>1. Base \in Nat \ {0} /\ WordRange = Base * Base /\ TlvByte \subseteq Nat
    BY BaseType
<1>2. Len(a) \in Nat /\ \A n \in 1 .. Len(a) : a[n] \in TlvByte
    BY LenProperties, ElementOfSeq
<1>3. \A n \in 1 .. 2 : getChar(a, n) \subseteq TlvByte
    BY <1>2 DEF getChar
<1>4. ASSUME NEW hi \in TlvByte, NEW lo \in TlvByte
      PROVE  hi * Base + lo \in Word
    <2>1. hi \in 0 .. Base - 1 /\ lo \in 0 .. Base - 1
        BY DEF TlvByte
    <2> QED
        BY <1>1, <2>1, TwoDigits DEF Word
<1>5. readWord(a) \subseteq Word
    <2>1. 1 \in 1 .. 2 /\ 2 \in 1 .. 2
        OBVIOUS
    <2>2. getChar(a, 1) \subseteq TlvByte /\ getChar(a, 2) \subseteq TlvByte
        BY <1>3, <2>1
    <2> QED
        BY <1>4, <2>2 DEF readWord
<1>6. Len(a) >= 2 => readWord(a) = {a[1] * Base + a[2]}
    <2>1. SUFFICES ASSUME Len(a) >= 2 PROVE readWord(a) = {a[1] * Base + a[2]}
        OBVIOUS
    <2>2. getChar(a, 1) = {a[1]} /\ getChar(a, 2) = {a[2]}
        BY <1>2, <2>1 DEF getChar
    <2>3. ASSUME NEW v
          PROVE  v \in readWord(a) <=> v = a[1] * Base + a[2]
        <3>1. v \in readWord(a) <=> \E hi \in getChar(a, 1), lo \in getChar(a, 2) :
                                          v = hi * Base + lo
            BY DEF readWord
        <3> QED
            BY <2>2, <3>1
    <2> QED
        BY <2>3
<1> QED
    BY <1>5, <1>6, BaseType

\* Two ways to take the same bytes apart.
Same(a, t, b, u) == a \o t = b \o u

LEMMA SameIs ==
    ASSUME NEW a \in Seq(Nat), NEW t \in Seq(Nat), NEW b \in Seq(Nat),
           NEW u \in Seq(Nat), Same(a, t, b, u)
    PROVE  /\ Len(a) + Len(t) = Len(b) + Len(u)
           /\ \A i \in 1 .. Len(b) : i <= Len(a) => a[i] = b[i]
<1>1. Len(a) \in Nat /\ Len(t) \in Nat /\ Len(b) \in Nat /\ Len(u) \in Nat
    BY LenProperties
<1>2. PICK x \in Seq(Nat) : x = a \o t /\ x = b \o u
    BY ConcatProperties DEF Same
<1>3. /\ Len(x) = Len(a) + Len(t)
      /\ \A i \in 1 .. Len(a) + Len(t) :
             x[i] = IF i <= Len(a) THEN a[i] ELSE t[i - Len(a)]
    <2>1. x = a \o t
        BY <1>2
    <2> QED
        BY <2>1, ConcatProperties
<1>4. /\ Len(x) = Len(b) + Len(u)
      /\ \A i \in 1 .. Len(b) + Len(u) :
             x[i] = IF i <= Len(b) THEN b[i] ELSE u[i - Len(b)]
    <2>1. x = b \o u
        BY <1>2
    <2> QED
        BY <2>1, ConcatProperties
<1>5. ASSUME NEW i \in 1 .. Len(b), i <= Len(a) PROVE a[i] = b[i]
    <2>1. i \in 1 .. Len(a) + Len(t) /\ i \in 1 .. Len(b) + Len(u) /\ i <= Len(b)
        BY <1>1, <1>5
    <2> QED
        BY <1>3, <1>4, <1>5, <2>1
<1> QED
    BY <1>3, <1>4, <1>5

\* A sequence that agrees with b as far as b goes, and what follows b in it.
LEMMA TakenApart ==
    ASSUME NEW a \in Seq(Nat), NEW b \in Seq(Nat), NEW s \in Seq(Nat),
           Len(b) + Len(s) = Len(a),
           \A i \in 1 .. Len(b) : a[i] = b[i],
           \A i \in 1 .. Len(s) : s[i] = a[Len(b) + i]
    PROVE  a = b \o s
<1>1. Len(a) \in Nat /\ Len(b) \in Nat /\ Len(s) \in Nat
    BY LenProperties
<1>2. PICK x \in Seq(Nat) : x = b \o s
    BY ConcatProperties
<1>3. /\ Len(x) = Len(a)
      /\ \A i \in 1 .. Len(b) + Len(s) :
             x[i] = IF i <= Len(b) THEN b[i] ELSE s[i - Len(b)]
    BY <1>2, ConcatProperties
<1>4. ASSUME NEW i \in 1 .. Len(a) PROVE a[i] = x[i]
    <2>1. CASE i <= Len(b)
        <3>1. i \in 1 .. Len(b) /\ i \in 1 .. Len(b) + Len(s)
            BY <1>1, <2>1
        <3> QED
            BY <1>3, <2>1, <3>1
    <2>2. CASE ~(i <= Len(b))
        <3>1. /\ i - Len(b) \in 1 .. Len(s) /\ Len(b) + (i - Len(b)) = i
              /\ i \in 1 .. Len(b) + Len(s)
            BY <1>1, <2>2
        <3>2. s[i - Len(b)] = a[i]
            BY <3>1
        <3> QED
            BY <1>3, <2>2, <3>1, <3>2
    <2> QED
        BY <2>1, <2>2
<1>5. a = x
    BY <1>3, <1>4, SeqEqual
<1> QED
    BY <1>2, <1>5

\* What the parser takes from bytes that begin with an entry's, or as many of
\* them as there are: the entry when they are all there, else too little.
LEMMA TurnIs ==
    ASSUME NEW e \in AnyTlv, Len(e.data) \in Word,
           NEW a \in Seq(TlvByte), NEW t \in Seq(Nat), NEW u \in Seq(Nat),
           Same(a, t, tlvBytes(e), u)
    PROVE  /\ Len(a) < 4 + Len(e.data) => t # <<>>
           /\ Len(a) >= 4 =>
                /\ readWord(a) = {e.id}
                /\ readWord(Skip(a, 2)) = {Len(e.data)}
                /\ Len(Skip(a, 4)) = Len(a) - 4
           /\ Len(a) >= 4 + Len(e.data) =>
                /\ readBytes(Skip(a, 4), Len(e.data)) = e.data
                /\ Skip(a, 4 + Len(e.data)) \o t = u
                /\ a = tlvBytes(e) \o Skip(a, 4 + Len(e.data))
<1> DEFINE b == tlvBytes(e)
           n == Len(e.data)
<1>1. /\ b \in Seq(TlvByte) /\ n \in Nat /\ e.id \in Word
      /\ e.data \in Seq(TlvByte) /\ Len(b) = 4 + n
    BY TlvBytesIs
<1>2. Seq(TlvByte) \subseteq Seq(Nat)
    BY BaseType
<1>3. /\ Len(a) \in Nat /\ Len(t) \in Nat /\ Len(u) \in Nat
      /\ a \in Seq(Nat) /\ b \in Seq(Nat)
    BY <1>1, <1>2, LenProperties
<1>4. /\ b[1] * Base + b[2] = e.id
      /\ b[3] * Base + b[4] = n
    <2>1. /\ ((e.id \div Base) % Base) * Base + (e.id % Base) = e.id
          /\ ((n \div Base) % Base) * Base + (n % Base) = n
        BY <1>1, WordBack
    <2>2. /\ b[1] = (e.id \div Base) % Base /\ b[2] = e.id % Base
          /\ b[3] = (n \div Base) % Base /\ b[4] = n % Base
        BY TlvBytesIs
    <2> QED
        BY <2>1, <2>2
<1>5. Same(a, t, b, u)
    OBVIOUS
<1>6. Len(e.data) = n /\ \A i \in 1 .. n : b[4 + i] = e.data[i]
    BY TlvBytesIs
<1> HIDE DEF b, n
<1>7. /\ Len(a) + Len(t) = 4 + n + Len(u)
      /\ \A i \in 1 .. 4 + n : i <= Len(a) => a[i] = b[i]
    <2>1. /\ Len(a) + Len(t) = Len(b) + Len(u)
          /\ \A i \in 1 .. Len(b) : i <= Len(a) => a[i] = b[i]
        BY <1>3, <1>5, SameIs
    <2>2. Len(b) = 4 + n
        BY <1>1
    <2> QED
        BY <2>1, <2>2
<1>8. Len(a) < 4 + n => t # <<>>
    BY <1>1, <1>3, <1>7, EmptySeq
<1>9. ASSUME Len(a) >= 4
      PROVE  /\ readWord(a) = {e.id} /\ readWord(Skip(a, 2)) = {n}
             /\ Skip(a, 4) \in Seq(TlvByte) /\ Len(Skip(a, 4)) = Len(a) - 4
    <2>1. a[1] = b[1] /\ a[2] = b[2] /\ a[3] = b[3] /\ a[4] = b[4]
        <3>1. /\ 1 \in 1 .. 4 + n /\ 2 \in 1 .. 4 + n /\ 3 \in 1 .. 4 + n
              /\ 4 \in 1 .. 4 + n
              /\ 1 <= Len(a) /\ 2 <= Len(a) /\ 3 <= Len(a) /\ 4 <= Len(a)
            BY <1>1, <1>3, <1>9
        <3> QED
            BY <1>7, <3>1
    <2>2. readWord(a) = {e.id}
        <3>1. Len(a) >= 2
            BY <1>3, <1>9
        <3>2. readWord(a) = {a[1] * Base + a[2]}
            BY <3>1, ReadWordIs
        <3> QED
            BY <1>4, <2>1, <3>2, Zenon
    <2>3. /\ Skip(a, 2) \in Seq(TlvByte) /\ Len(Skip(a, 2)) >= 2
          /\ Skip(a, 2)[1] = a[3] /\ Skip(a, 2)[2] = a[4]
        <3>0. 2 <= Len(a) /\ 2 \in Nat
            BY <1>3, <1>9
        <3>1. /\ Skip(a, 2) \in Seq(TlvByte) /\ Len(Skip(a, 2)) = Len(a) - 2
              /\ \A i \in 1 .. Len(a) - 2 : Skip(a, 2)[i] = a[2 + i]
            BY <3>0, SkipIs
        <3>2. 1 \in 1 .. Len(a) - 2 /\ 2 \in 1 .. Len(a) - 2
            BY <1>3, <1>9
        <3>3. Skip(a, 2)[1] = a[2 + 1] /\ Skip(a, 2)[2] = a[2 + 2]
            BY <3>1, <3>2
        <3> QED
            BY <1>3, <1>9, <3>1, <3>3
    <2>4. readWord(Skip(a, 2)) = {n}
        <3>1. readWord(Skip(a, 2)) = {Skip(a, 2)[1] * Base + Skip(a, 2)[2]}
            BY <2>3, ReadWordIs
        <3> QED
            BY <1>4, <2>1, <2>3, <3>1, Zenon
    <2>5. Skip(a, 4) \in Seq(TlvByte) /\ Len(Skip(a, 4)) = Len(a) - 4
        <3>1. 4 <= Len(a) /\ 4 \in Nat
            BY <1>3, <1>9
        <3> QED
            BY <3>1, SkipIs
    <2> QED
        BY <2>2, <2>4, <2>5
<1>10. ASSUME Len(a) >= 4 + n
       PROVE  /\ readBytes(Skip(a, 4), n) = e.data
              /\ Skip(a, 4 + n) \o t = u
              /\ a = b \o Skip(a, 4 + n)
    <2>0. /\ 4 + n <= Len(a) /\ 4 <= Len(a) /\ n <= Len(a) - 4
          /\ 4 \in Nat /\ 4 + n \in Nat
        BY <1>1, <1>3, <1>10
    <2>1. /\ Skip(a, 4) \in Seq(TlvByte) /\ Len(Skip(a, 4)) = Len(a) - 4
          /\ \A i \in 1 .. Len(a) - 4 : Skip(a, 4)[i] = a[4 + i]
        BY <2>0, SkipIs
    <2>2. /\ readBytes(Skip(a, 4), n) \in Seq(TlvByte)
          /\ Len(readBytes(Skip(a, 4), n)) = n
          /\ \A i \in 1 .. n : readBytes(Skip(a, 4), n)[i] = Skip(a, 4)[i]
        <3>1. PICK c \in Seq(TlvByte) : c = Skip(a, 4) /\ n <= Len(c)
            BY <2>0, <2>1
        <3>2. readBytes(c, n) \in Seq(TlvByte)
            BY <1>1, ReadBytesIs
        <3>3. /\ Len(readBytes(c, n)) = n
              /\ \A i \in 1 .. n : readBytes(c, n)[i] = c[i]
            BY <1>1, <3>1, ReadBytesIs
        <3> QED
            BY <3>1, <3>2, <3>3
    <2>3. ASSUME NEW i \in 1 .. n
          PROVE  readBytes(Skip(a, 4), n)[i] = e.data[i]
        <3>1. i \in 1 .. Len(a) - 4 /\ 4 + i \in 1 .. 4 + n /\ 4 + i <= Len(a)
            BY <1>1, <1>3, <1>10, <2>3
        <3> QED
            BY <1>6, <1>7, <2>1, <2>2, <3>1
    <2>4. readBytes(Skip(a, 4), n) = e.data
        BY <1>1, <1>6, <2>2, <2>3, SeqEqual
    <2>5. PICK s \in Seq(Nat) :
              /\ s = Skip(a, 4 + n) /\ Len(s) = Len(a) - (4 + n)
              /\ \A i \in 1 .. Len(a) - (4 + n) : s[i] = a[(4 + n) + i]
        <3>1. a \in Seq(Nat) /\ 4 + n \in Nat /\ 4 + n <= Len(a)
            BY <1>3, <2>0
        <3> QED
            BY <3>1, SkippedIs, Zenon
    <2>6. a = b \o s
        <3>1. /\ Len(b) + Len(s) = Len(a)
              /\ \A i \in 1 .. Len(b) : a[i] = b[i]
              /\ \A i \in 1 .. Len(s) : s[i] = a[Len(b) + i]
            <4>1. Len(b) = 4 + n /\ Len(b) + Len(s) = Len(a)
                <5>1. Len(s) = Len(a) - (4 + n)
                    BY <2>5
                <5> QED
                    BY <1>1, <1>3, <5>1
            <4>2. \A i \in 1 .. 4 + n : i <= Len(a)
                BY <1>1, <1>3, <1>10
            <4>3. \A i \in 1 .. 4 + n : a[i] = b[i]
                BY <1>7, <4>2
            <4>4. \A i \in 1 .. Len(s) : s[i] = a[(4 + n) + i]
                BY <2>5
            <4> QED
                BY <4>1, <4>3, <4>4
        <3> QED
            BY <1>3, <3>1, TakenApart
    <2>7. s \o t = u
        <3>1. s \o t \in Seq(Nat)
            BY ConcatProperties
        <3>2. Grouped(b, s, t)
            BY <1>3, Grouping
        <3>3. b \o (s \o t) = b \o u
            BY <1>5, <2>6, <3>2, Zenon DEF Same, Grouped
        <3> QED
            BY <1>3, <3>1, <3>3, NatCancel, Zenon
    <2> QED
        BY <2>4, <2>5, <2>6, <2>7, Zenon
<1> QED
    BY <1>8, <1>9, <1>10 DEF b, n

-----------------------------------------------------------------------------
(* How far the reader has come *)

LengthsFit(ls) == \A i \in DOMAIN ls : Len(ls[i].data) \in Word

\* ts is the beginning of ls.
Follows(ts, ls) == Len(ts) <= Len(ls) /\ ts = SubSeq(ls, 1, Len(ts))

\* The first entries are read; a is the bytes of the others, less those that
\* are missing if the list is cut (c).
Reading(ls, ts, a, c) ==
    /\ Follows(ts, ls)
    /\ \E t \in Seq(Nat) : /\ BytesOf(ls) = Before(ls, Len(ts)) \o (a \o t)
                           /\ c <=> t # <<>>

Done(ls, ts, c) == Follows(ts, ls) /\ (~c => ts = ls)

\* A header was cut: nothing is left, and an empty entry may have been made up.
WrongByOne(ls, ts, a, c) ==
    /\ c /\ a = <<>>
    /\ \/ Follows(ts, ls)
       \/ \E rs \in Seq(AnyTlv), id \in Word :
              Follows(rs, ls) /\ ts = Append(rs, Tlv(id, <<>>))

\* Bytes are left: they begin with the next entry's.
LEMMA NextInBytes ==
    ASSUME NEW ls \in Seq(AnyTlv), NEW ts \in Seq(AnyTlv),
           Follows(ts, ls), NEW a \in Seq(Nat), NEW t \in Seq(Nat),
           BytesOf(ls) = Before(ls, Len(ts)) \o (a \o t), a \o t # <<>>
    PROVE  /\ Len(ts) \in 0 .. Len(ls) - 1
           /\ \E u \in Seq(Nat) : Same(a, t, tlvBytes(ls[Len(ts)+1]), u)
<1>1. /\ Len(ts) \in Nat /\ Len(ls) \in Nat /\ Len(ts) <= Len(ls)
      /\ BytesOf(ls) \in Seq(Nat)
    BY LenProperties, EncodedType DEF Follows
<1>2. PICK x \in Seq(Nat) : x = a \o t
    BY ConcatProperties
<1>3. Len(ts) # Len(ls)
    <2>1. SUFFICES ASSUME Len(ts) = Len(ls) PROVE FALSE
        OBVIOUS
    <2>2. BytesOf(ls) = BytesOf(ls) \o x
        BY <1>2, <2>1, BeforeEnds
    <2> QED
        BY <1>1, <1>2, <2>2, ConcatEqualIffEmpty
<1>4. Len(ts) \in 0 .. Len(ls) - 1
    BY <1>1, <1>3
<1> DEFINE b == tlvBytes(ls[Len(ts)+1])
           p == Before(ls, Len(ts))
<1>5. p \in Seq(Nat) /\ b \in Seq(Nat) /\ \E u \in Seq(Nat) : BytesOf(ls) = p \o (b \o u)
    BY <1>4, NextEntry
<1>6. BytesOf(ls) = p \o x
    BY <1>2
<1> HIDE DEF b, p
<1>7. PICK u \in Seq(Nat) : BytesOf(ls) = p \o (b \o u)
    BY <1>5
<1>8. PICK y \in Seq(Nat) : y = b \o u
    BY <1>5, ConcatProperties
<1>9. x = y
    BY <1>5, <1>6, <1>7, <1>8, NatCancel, Zenon
<1>10. Same(a, t, b, u)
    BY <1>2, <1>8, <1>9, Zenon DEF Same
<1> QED
    BY <1>4, <1>10 DEF b

LEMMA EndIs ==
    ASSUME NEW ls \in Seq(AnyTlv), NEW ts \in Seq(AnyTlv),
           NEW c \in BOOLEAN, Reading(ls, ts, <<>>, c)
    PROVE  Done(ls, ts, c)
<1>1. Follows(ts, ls)
    BY DEF Reading
<1>2. SUFFICES ASSUME ~c PROVE ts = ls
    BY <1>1 DEF Done
<1>3. <<>> \in Seq(Nat) /\ <<>> \o <<>> = <<>>
    BY EmptySeq, ConcatEmptySeq
<1>4. BytesOf(ls) = Before(ls, Len(ts)) \o <<>>
    BY <1>2, <1>3 DEF Reading
<1>5. Len(ts) \in Nat /\ Len(ls) \in Nat /\ Len(ts) <= Len(ls)
    BY <1>1, LenProperties DEF Follows
<1>6. Len(ts) = Len(ls)
    <2>1. SUFFICES ASSUME Len(ts) # Len(ls) PROVE FALSE
        OBVIOUS
    <2>2. Len(ts) \in 0 .. Len(ls) - 1
        BY <1>5, <2>1
    <2> DEFINE b == tlvBytes(ls[Len(ts)+1])
               p == Before(ls, Len(ts))
    <2>3. /\ p \in Seq(Nat) /\ b \in Seq(Nat) /\ ls[Len(ts)+1] \in AnyTlv
          /\ \E u \in Seq(Nat) : BytesOf(ls) = p \o (b \o u)
        BY <2>2, NextEntry
    <2>4. b # <<>>
        <3>1. Len(b) = 4 + Len(ls[Len(ts)+1].data) /\ Len(ls[Len(ts)+1].data) \in Nat
            BY <2>3, TlvBytesIs
        <3> HIDE DEF b
        <3> QED
            BY <3>1, EmptySeq
    <2>5. BytesOf(ls) = p \o <<>>
        BY <1>4
    <2> HIDE DEF b, p
    <2>6. PICK u \in Seq(Nat) : BytesOf(ls) = p \o (b \o u)
        BY <2>3
    <2>7. PICK y \in Seq(Nat) : y = b \o u
        BY <2>3, ConcatProperties
    <2>8. y = <<>>
        BY <1>3, <2>3, <2>5, <2>6, <2>7, NatCancel, Zenon
    <2> QED
        <3>1. b \in Seq(Nat) /\ b # <<>>
            BY <2>3, <2>4
        <3>2. b \o u = <<>>
            BY <2>7, <2>8
        <3> QED
            BY <3>1, <3>2, ConcatEqualIffEmpty
<1> QED
    BY <1>1, <1>6, SubSeqFull DEF Follows

LEMMA FollowsOn ==
    ASSUME NEW ls \in Seq(AnyTlv), NEW ts \in Seq(AnyTlv), Follows(ts, ls),
           Len(ts) \in 0 .. Len(ls) - 1
    PROVE  Follows(Append(ts, ls[Len(ts)+1]), ls)
<1>1. Len(ts) \in Nat /\ Len(ls) \in Nat
    BY LenProperties
<1>2. PICK k \in Nat : k = Len(ts)
    BY <1>1
<1>3. /\ 1 \in 1 .. Len(ls) /\ k + 1 \in 1 .. Len(ls) /\ (k + 1) - 1 = k
      /\ ts = SubSeq(ls, 1, k) /\ k + 1 <= Len(ls)
    BY <1>1, <1>2 DEF Follows
<1>4. ls[k+1] \in AnyTlv
    BY <1>3, ElementOfSeq
<1>5. SubSeq(ls, 1, k+1) = SubSeq(ls, 1, k) \o <<ls[k+1]>>
    BY <1>3, SubSeqRecursiveSecond
<1>6. Append(ts, ls[k+1]) = SubSeq(ls, 1, k+1)
    BY <1>3, <1>4, <1>5, AppendIsConcat
<1>7. Len(Append(ts, ls[k+1])) = k + 1
    BY <1>2, <1>4, AppendProperties
<1> QED
    BY <1>2, <1>3, <1>6, <1>7 DEF Follows

Moved(p, b, s, t) == p \o ((b \o s) \o t) = (p \o b) \o (s \o t)

LEMMA Regroup == \A p, b, s, t \in Seq(Nat) : Moved(p, b, s, t)
<1> SUFFICES ASSUME NEW p \in Seq(Nat), NEW b \in Seq(Nat), NEW s \in Seq(Nat),
                    NEW t \in Seq(Nat)
             PROVE  p \o ((b \o s) \o t) = (p \o b) \o (s \o t)
    BY DEF Moved
<1>1. Grouped(b, s, t)
    BY Grouping
<1>2. PICK x \in Seq(Nat) : x = s \o t
    BY ConcatProperties
<1>3. Grouped(p, b, x)
    BY Grouping
<1> QED
    BY <1>1, <1>2, <1>3, Zenon DEF Grouped

\* One turn of the loop.
LEMMA TurnKeeps ==
    ASSUME NEW ls \in Seq(AnyTlv), LengthsFit(ls),
           NEW ts \in Seq(AnyTlv), NEW a \in Seq(TlvByte), NEW c \in BOOLEAN,
           Reading(ls, ts, a, c), a # <<>>,
           NEW id \in readWord(a), NEW length \in readWord(Skip(a, 2)),
           NEW d, d = readBytes(Skip(a, 4), length)
    PROVE  /\ Len(a) < 4 => /\ c /\ Skip(a, 4 + length) = <<>>
                            /\ ~(Len(d) < length) => d = <<>>
           /\ ~(Len(a) < 4) /\ Len(d) < length =>
                  Done(ls, ts, c)
           /\ ~(Len(a) < 4) /\ ~(Len(d) < length) =>
                  Reading(ls, Append(ts, Tlv(id, d)), Skip(a, 4 + length), c)
<1>1. /\ Seq(TlvByte) \subseteq Seq(Nat) /\ Word \subseteq Nat
      /\ Len(a) \in Nat /\ Len(a) # 0 /\ a \in Seq(Nat)
    BY BaseType, LenProperties, EmptySeq
<1>2. /\ Skip(a, 2) \in Seq(TlvByte) /\ Skip(a, 4) \in Seq(TlvByte)
      /\ length \in Nat
    <2>1. Skip(a, 2) \in Seq(TlvByte) /\ Skip(a, 4) \in Seq(TlvByte)
        BY SkipIs
    <2> QED
        BY <2>1, ReadWordIs
<1>3. PICK t \in Seq(Nat) : /\ BytesOf(ls) = Before(ls, Len(ts)) \o (a \o t)
                            /\ c <=> t # <<>>
    BY DEF Reading
<1>4. Follows(ts, ls)
    BY DEF Reading
<1>5. a \o t # <<>>
    BY <1>1, ConcatEqualIffEmpty
<1>6. /\ Len(ts) \in 0 .. Len(ls) - 1
      /\ \E u \in Seq(Nat) : Same(a, t, tlvBytes(ls[Len(ts)+1]), u)
    BY <1>1, <1>3, <1>4, <1>5, NextInBytes
<1>7. /\ ls[Len(ts)+1] \in AnyTlv /\ Before(ls, Len(ts)) \in Seq(Nat)
      /\ tlvBytes(ls[Len(ts)+1]) \in Seq(Nat)
      /\ Before(ls, Len(ts)+1) = Before(ls, Len(ts)) \o tlvBytes(ls[Len(ts)+1])
    BY <1>6, NextEntry
<1>8. PICK e \in AnyTlv : e = ls[Len(ts)+1]
    BY <1>7
<1>9. PICK u \in Seq(Nat) : Same(a, t, tlvBytes(e), u)
    BY <1>6, <1>8
<1>10. Len(e.data) \in Word /\ Len(e.data) \in Nat
    <2>1. Len(ts) + 1 \in DOMAIN ls
        BY <1>6, LenProperties
    <2> QED
        BY <1>1, <1>8, <2>1 DEF LengthsFit
<1>11. /\ Len(a) < 4 + Len(e.data) => t # <<>>
       /\ Len(a) >= 4 =>
            /\ readWord(a) = {e.id}
            /\ readWord(Skip(a, 2)) = {Len(e.data)}
            /\ Len(Skip(a, 4)) = Len(a) - 4
       /\ Len(a) >= 4 + Len(e.data) =>
            readBytes(Skip(a, 4), Len(e.data)) = e.data
    BY <1>9, <1>10, TurnIs
<1>12. ASSUME Len(a) < 4
       PROVE  /\ c /\ Skip(a, 4 + length) = <<>>
              /\ ~(Len(d) < length) => d = <<>>
    <2>1. c
        <3>1. Len(a) < 4 + Len(e.data)
            BY <1>1, <1>10, <1>12
        <3> QED
            BY <1>3, <1>11, <3>1
    <2>2. Skip(a, 4) = <<>>
        <3>1. Len(a) <= 4 /\ 4 \in Nat
            BY <1>1, <1>12
        <3> QED
            BY <3>1, SkipIs
    <2>3. Skip(a, 4 + length) = <<>>
        <3>1. PICK k \in Nat : k = 4 + length /\ Len(a) <= k
            BY <1>1, <1>2, <1>12
        <3> QED
            BY <3>1, SkipIs
    <2>4. d = <<>>
        <3>1. Len(Skip(a, 4)) <= length
            BY <1>2, <2>2, EmptySeq
        <3> QED
            BY <1>2, <2>2, <3>1, ReadBytesIs
    <2> QED
        BY <2>1, <2>3, <2>4
<1>13. ASSUME ~(Len(a) < 4)
       PROVE  /\ id = e.id /\ length = Len(e.data)
              /\ Len(Skip(a, 4)) = Len(a) - 4
    BY <1>1, <1>11, <1>13
<1>14. ASSUME ~(Len(a) < 4), Len(d) < length
       PROVE  Done(ls, ts, c)
    <2>1. Len(a) < 4 + Len(e.data)
        <3>1. SUFFICES ASSUME ~(Len(a) < 4 + Len(e.data)) PROVE FALSE
            OBVIOUS
        <3>2. d = e.data
            <4>1. Len(a) >= 4 + Len(e.data)
                BY <1>1, <1>10, <3>1
            <4>2. length = Len(e.data)
                BY <1>13, <1>14
            <4> QED
                BY <1>11, <4>1, <4>2
        <3> QED
            BY <1>10, <1>13, <1>14, <3>2
    <2>2. c
        BY <1>3, <1>11, <2>1
    <2> QED
        BY <1>4, <2>2 DEF Done
<1>15. ASSUME ~(Len(a) < 4), ~(Len(d) < length)
       PROVE  Reading(ls, Append(ts, Tlv(id, d)), Skip(a, 4 + length), c)
    <2>1. id = e.id /\ length = Len(e.data) /\ Len(Skip(a, 4)) = Len(a) - 4
        BY <1>13, <1>15
    <2>2. Len(a) >= 4 + Len(e.data)
        <3>1. SUFFICES ASSUME Len(a) - 4 < length PROVE FALSE
            BY <1>1, <1>10, <2>1
        <3>2. d = Skip(a, 4)
            <4>1. PICK s \in Seq(TlvByte) : s = Skip(a, 4) /\ Len(s) <= length
                BY <1>1, <1>2, <2>1, <3>1
            <4>2. readBytes(s, length) = s
                BY <1>2, <4>1, ReadBytesIs
            <4> QED
                BY <4>1, <4>2
        <3> QED
            BY <1>15, <2>1, <3>1, <3>2
    <2>3. d = e.data /\ Tlv(id, d) = e
        <3>1. d = e.data
            BY <1>11, <2>1, <2>2
        <3> QED
            BY <2>1, <3>1, TlvBytesIs
    <2>4. PICK s \in Seq(Nat) : s = Skip(a, 4 + length)
        <3>1. PICK k \in Nat : k = 4 + length
            BY <1>2
        <3>2. Skip(a, k) \in Seq(TlvByte)
            BY <3>1, SkipIs
        <3> QED
            BY <1>1, <3>1, <3>2
    <2>5. a = tlvBytes(e) \o s
        <3>1. a = tlvBytes(e) \o Skip(a, 4 + Len(e.data))
            BY <1>9, <1>10, <2>2, TurnIs
        <3> QED
            BY <2>1, <2>4, <3>1, Zenon
    <2> DEFINE p == Before(ls, Len(ts))
               b == tlvBytes(e)
               q == Before(ls, Len(ts) + 1)
               w == BytesOf(ls)
    <2>6. /\ p \in Seq(Nat) /\ b \in Seq(Nat) /\ q = p \o b
          /\ w = p \o (a \o t) /\ a = b \o s
        BY <1>3, <1>7, <1>8, <2>5
    <2> HIDE DEF p, b, q, w
    <2>7. w = q \o (s \o t)
        <3>1. Moved(p, b, s, t)
            BY <2>6, Regroup
        <3> QED
            BY <2>6, <3>1, Zenon DEF Moved
    <2>8. Len(Append(ts, e)) = Len(ts) + 1
        BY AppendProperties
    <2>9. Follows(Append(ts, e), ls)
        BY <1>4, <1>6, <1>8, FollowsOn
    <2>10. BytesOf(ls) = Before(ls, Len(Append(ts, e))) \o (s \o t)
        BY <2>7, <2>8 DEF w, q
    <2>11. Reading(ls, Append(ts, e), s, c)
        BY <1>3, <2>9, <2>10 DEF Reading
    <2> QED
        BY <2>3, <2>4, <2>11
<1> QED
    BY <1>12, <1>14, <1>15

-----------------------------------------------------------------------------
(* The invariant of the lists *)

TlvTyped ==
    /\ list \in Seq(AnyTlv) /\ tlvs \in Seq(AnyTlv)
    /\ phase \in {"writing", "reading", "read"}
    /\ unread \in Seq(TlvByte)
    /\ cut \in BOOLEAN /\ guessed \in BOOLEAN

TlvRead ==
    /\ phase = "writing" => tlvs = <<>> /\ ~guessed
    /\ LengthsFit(list) /\ phase = "reading" /\ ~guessed =>
           Reading(list, tlvs, unread, cut)
    /\ LengthsFit(list) /\ phase = "read" /\ ~guessed => Done(list, tlvs, cut)
    /\ LengthsFit(list) /\ phase # "writing" /\ guessed =>
           WrongByOne(list, tlvs, unread, cut)

TlvInv == TlvTyped /\ TlvRead

LEMMA TlvTypedInit == ASSUME TlvInit PROVE TlvTyped
<1>1. <<>> \in Seq(AnyTlv) /\ <<>> \in Seq(TlvByte)
    BY EmptySeq
<1> QED
    BY <1>1 DEF TlvInit, TlvTyped

LEMMA TlvTypedNext ==
    ASSUME TlvTyped, TlvNext
    PROVE  TlvTyped'
<1>1. /\ list \in Seq(AnyTlv) /\ tlvs \in Seq(AnyTlv)
      /\ phase \in {"writing", "reading", "read"}
      /\ unread \in Seq(TlvByte) /\ cut \in BOOLEAN /\ guessed \in BOOLEAN
    BY DEF TlvTyped
<1>2. CASE append
    <2>1. PICK id \in Id, data \in Data : list' = Append(list, Tlv(id, data))
        BY <1>2 DEF append
    <2>2. Tlv(id, data) \in AnyTlv
        BY <1>1, BaseType DEF Tlv, AnyTlv
    <2>3. list' \in Seq(AnyTlv)
        BY <1>1, <2>1, <2>2, AppendProperties
    <2> QED
        BY <1>1, <1>2, <2>3 DEF append, TlvTyped
<1>3. CASE Receive
    <2>1. PICK n \in 0 .. Len(toByteArray) :
              /\ unread' = SubSeq(toByteArray, 1, n)
              /\ cut' = (n < Len(toByteArray))
        BY <1>3 DEF Receive
    <2>2. toByteArray \in Seq(TlvByte) /\ Len(toByteArray) \in Nat
        BY <1>1, BytesOfList, EncodedType, LenProperties
    <2>3. unread' \in Seq(TlvByte)
        <3>1. \A i \in 1 .. n : toByteArray[i] \in TlvByte
            BY <2>2, ElementOfSeq
        <3> QED
            BY <2>1, <3>1, SubSeqProperties
    <2>4. cut' \in BOOLEAN
        BY <2>1
    <2> QED
        BY <1>1, <1>3, <2>3, <2>4 DEF Receive, TlvTyped
<1>4. CASE ReadTlv
    <2>1. PICK id \in readWord(unread), length \in readWord(Skip(unread, 2)) :
              /\ LET data == readBytes(Skip(unread, 4), length)
                 IN  IF Len(data) < length THEN phase' = "read" /\ tlvs' = tlvs
                     ELSE phase' = phase /\ tlvs' = Append(tlvs, Tlv(id, data))
              /\ unread' = Skip(unread, 4 + length)
        BY <1>4 DEF ReadTlv
    <2>2. id \in Word /\ length \in Nat
        BY <1>1, BaseType, ReadWordIs, SkipIs
    <2>3. PICK d \in Seq(TlvByte) : d = readBytes(Skip(unread, 4), length)
        BY <1>1, <2>2, SkipIs, ReadBytesIs
    <2>4. Tlv(id, d) \in AnyTlv
        BY <2>2 DEF Tlv, AnyTlv
    <2>5. tlvs' \in Seq(AnyTlv) /\ phase' \in {"writing", "reading", "read"}
        <3>1. Append(tlvs, Tlv(id, d)) \in Seq(AnyTlv)
            BY <1>1, <2>4, AppendProperties
        <3> QED
            BY <1>1, <2>1, <2>3, <3>1
    <2>6. unread' \in Seq(TlvByte)
        <3>1. PICK k \in Nat : k = 4 + length
            BY <2>2
        <3> QED
            BY <1>1, <2>1, <3>1, SkipIs
    <2>7. guessed' \in BOOLEAN /\ list' = list /\ cut' = cut
        BY <1>4 DEF ReadTlv
    <2> QED
        BY <1>1, <2>5, <2>6, <2>7 DEF TlvTyped
<1>5. CASE AtEnd
    BY <1>1, <1>5 DEF AtEnd, TlvTyped
<1> QED
    BY <1>2, <1>3, <1>4, <1>5 DEF TlvNext

\* What the receiver is handed.
LEMMA HandedIs ==
    ASSUME NEW ls \in Seq(AnyTlv), NEW n \in 0 .. Len(BytesOf(ls)),
           NEW c, c = (n < Len(BytesOf(ls)))
    PROVE  Reading(ls, <<>>, SubSeq(BytesOf(ls), 1, n), c)
<1> DEFINE w == BytesOf(ls)
           a == SubSeq(w, 1, n)
           t == SubSeq(w, n + 1, Len(w))
<1>1. w \in Seq(Nat) /\ Len(w) \in Nat /\ Len(ls) \in Nat
    BY EncodedType, LenProperties
<1> HIDE DEF w
<1>2. n \in 0 .. Len(w) /\ (c <=> n < Len(w))
    BY DEF w
<1>3. Follows(<<>>, ls)
    <2>1. Len(<<>>) = 0 /\ SubSeq(ls, 1, 0) = <<>>
        BY EmptySeq, SubSeqEmpty
    <2> QED
        BY <1>1, <2>1 DEF Follows
<1>4. \A i \in 1 .. Len(w) : w[i] \in Nat
    BY <1>1, ElementOfSeq
<1>5. a \in Seq(Nat)
    <2>1. n \in Int /\ 1 \in Int /\ \A i \in 1 .. n : w[i] \in Nat
        BY <1>1, <1>2, <1>4
    <2> QED
        BY <2>1, SubSeqProperties
<1>6. t \in Seq(Nat) /\ Len(t) = Len(w) - n
    <2>1. n + 1 \in Int /\ Len(w) \in Int /\ \A i \in n + 1 .. Len(w) : w[i] \in Nat
        BY <1>1, <1>2, <1>4
    <2>2. /\ t \in Seq(Nat)
          /\ Len(t) = IF n + 1 <= Len(w) THEN Len(w) - (n + 1) + 1 ELSE 0
        BY <2>1, SubSeqProperties
    <2> QED
        BY <1>1, <1>2, <2>2
<1>7. a \o t = w
    <2>1. /\ 1 \in 1 .. Len(w) + 1 /\ n \in 1 - 1 .. Len(w)
          /\ Len(w) \in n .. Len(w)
        BY <1>1, <1>2
    <2>2. SubSeq(w, 1, n) \o SubSeq(w, n + 1, Len(w)) = SubSeq(w, 1, Len(w))
        BY <1>1, <2>1, ConcatAdjacentSubSeq
    <2> QED
        BY <1>1, <2>2, SubSeqFull
<1> HIDE DEF t, a
<1>8. c <=> t # <<>>
    BY <1>1, <1>2, <1>6, EmptySeq
<1>9. w = Before(ls, Len(<<>>)) \o (a \o t)
    <2>1. Len(<<>>) = 0 /\ Before(ls, 0) = <<>>
        BY BeforeEnds
    <2>2. <<>> \o w = w
        BY <1>1, ConcatEmptySeq
    <2> QED
        BY <1>7, <2>1, <2>2
<1>10. Reading(ls, <<>>, a, c)
    BY <1>3, <1>6, <1>8, <1>9 DEF Reading, w
<1> QED
    BY <1>10 DEF a, w

LEMMA TlvReadNext ==
    ASSUME TlvTyped, TlvRead, TlvNext
    PROVE  TlvRead'
<1>1. /\ list \in Seq(AnyTlv) /\ tlvs \in Seq(AnyTlv)
      /\ phase \in {"writing", "reading", "read"}
      /\ unread \in Seq(TlvByte) /\ cut \in BOOLEAN /\ guessed \in BOOLEAN
    BY DEF TlvTyped
<1>2. CASE append
    <2>1. phase' = "writing" /\ tlvs' = tlvs /\ guessed' = guessed /\ phase = "writing"
        BY <1>2 DEF append
    <2> QED
        BY <2>1 DEF TlvRead
<1>3. CASE Receive
    <2>1. PICK n \in 0 .. Len(toByteArray) :
              /\ unread' = SubSeq(toByteArray, 1, n)
              /\ cut' = (n < Len(toByteArray))
        BY <1>3 DEF Receive
    <2>2. /\ phase' = "reading" /\ list' = list /\ tlvs' = tlvs /\ tlvs = <<>>
          /\ guessed' = guessed /\ ~guessed
        BY <1>3 DEF Receive, TlvRead
    <2>3. Reading(list, <<>>, unread', cut')
        <3>1. /\ n \in 0 .. Len(BytesOf(list)) /\ unread' = SubSeq(BytesOf(list), 1, n)
              /\ cut' = (n < Len(BytesOf(list)))
            BY <2>1, BytesOfList, Zenon
        <3> QED
            BY <1>1, <3>1, HandedIs
    <2> QED
        BY <2>2, <2>3 DEF TlvRead
<1>4. CASE ReadTlv
    <2>1. PICK id \in readWord(unread), length \in readWord(Skip(unread, 2)) :
              /\ LET data == readBytes(Skip(unread, 4), length)
                 IN  IF Len(data) < length THEN phase' = "read" /\ tlvs' = tlvs
                     ELSE phase' = phase /\ tlvs' = Append(tlvs, Tlv(id, data))
              /\ unread' = Skip(unread, 4 + length)
        BY <1>4 DEF ReadTlv
    <2>2. PICK d : d = readBytes(Skip(unread, 4), length)
        OBVIOUS
    <2>3. /\ Len(d) < length => phase' = "read" /\ tlvs' = tlvs
          /\ ~(Len(d) < length) =>
                 phase' = "reading" /\ tlvs' = Append(tlvs, Tlv(id, d))
        BY <1>4, <2>1, <2>2 DEF ReadTlv
    <2>4. /\ list' = list /\ cut' = cut /\ phase = "reading" /\ unread # <<>>
          /\ guessed' <=> guessed \/ Len(unread) < 4
        BY <1>4 DEF ReadTlv
    <2>5. phase' # "writing"
        BY <2>3
    <2>6. SUFFICES ASSUME LengthsFit(list)
                   PROVE  /\ phase' = "reading" /\ ~guessed' =>
                                 Reading(list, tlvs', unread', cut)
                          /\ phase' = "read" /\ ~guessed' => Done(list, tlvs', cut)
                          /\ guessed' => WrongByOne(list, tlvs', unread', cut)
        BY <2>4, <2>5 DEF TlvRead
    <2>7. ~guessed
        BY <2>4, <2>6 DEF TlvRead, WrongByOne
    <2>8. Reading(list, tlvs, unread, cut)
        BY <2>4, <2>6, <2>7 DEF TlvRead
    <2>9. /\ Len(unread) < 4 => /\ cut /\ Skip(unread, 4 + length) = <<>>
                                /\ ~(Len(d) < length) => d = <<>>
          /\ ~(Len(unread) < 4) /\ Len(d) < length => Done(list, tlvs, cut)
          /\ ~(Len(unread) < 4) /\ ~(Len(d) < length) =>
                 Reading(list, Append(tlvs, Tlv(id, d)), Skip(unread, 4 + length), cut)
        BY <1>1, <2>2, <2>4, <2>6, <2>8, TurnKeeps
    <2>10. CASE Len(unread) < 4
        <3>1. guessed' /\ unread' = <<>> /\ cut
            BY <2>1, <2>4, <2>9, <2>10
        <3>2. Follows(tlvs, list)
            BY <2>8 DEF Reading
        <3>3. id \in Word
            BY <1>1, ReadWordIs
        <3>4. CASE Len(d) < length
            <4>1. tlvs' = tlvs
                BY <2>3, <3>4
            <4> QED
                BY <3>1, <3>2, <4>1 DEF WrongByOne
        <3>5. CASE ~(Len(d) < length)
            <4>1. tlvs' = Append(tlvs, Tlv(id, <<>>))
                BY <2>3, <2>9, <2>10, <3>5
            <4> QED
                BY <1>1, <3>1, <3>2, <3>3, <4>1 DEF WrongByOne
        <3> QED
            BY <3>4, <3>5
    <2>11. CASE ~(Len(unread) < 4)
        <3>1. ~guessed'
            BY <2>4, <2>7, <2>11
        <3>2. CASE Len(d) < length
            BY <2>3, <2>9, <2>11, <3>1, <3>2
        <3>3. CASE ~(Len(d) < length)
            BY <2>1, <2>3, <2>9, <2>11, <3>1, <3>3
        <3> QED
            BY <3>2, <3>3
    <2> QED
        BY <2>10, <2>11
<1>5. CASE AtEnd
    <2>1. /\ phase = "reading" /\ unread = <<>> /\ phase' = "read"
          /\ list' = list /\ unread' = unread /\ tlvs' = tlvs /\ cut' = cut
          /\ guessed' = guessed
        BY <1>5 DEF AtEnd
    <2>2. LengthsFit(list) /\ ~guessed => Done(list, tlvs, cut)
        <3>1. SUFFICES ASSUME LengthsFit(list), ~guessed
                       PROVE  Done(list, tlvs, cut)
            OBVIOUS
        <3>2. Reading(list, tlvs, <<>>, cut)
            BY <2>1, <3>1 DEF TlvRead
        <3> QED
            BY <1>1, <3>2, EndIs
    <2>3. LengthsFit(list) /\ guessed => WrongByOne(list, tlvs, unread, cut)
        BY <2>1 DEF TlvRead
    <2> QED
        BY <2>1, <2>2, <2>3 DEF TlvRead
<1> QED
    BY <1>2, <1>3, <1>4, <1>5 DEF TlvNext

LEMMA TlvInvariance == TlvSpec => []TlvInv
<1>1. TlvInit => TlvInv
    <2>1. SUFFICES ASSUME TlvInit PROVE TlvInv
        OBVIOUS
    <2>2. phase = "writing" /\ tlvs = <<>> /\ ~guessed
        BY <2>1 DEF TlvInit
    <2> QED
        BY <2>1, <2>2, TlvTypedInit DEF TlvInv, TlvRead
<1>2. TlvInv /\ [TlvNext]_tlvVars => TlvInv'
    <2>1. SUFFICES ASSUME TlvInv, [TlvNext]_tlvVars PROVE TlvInv'
        OBVIOUS
    <2>2. CASE TlvNext
        BY <2>1, <2>2, TlvTypedNext, TlvReadNext DEF TlvInv
    <2>3. CASE UNCHANGED tlvVars
        BY <2>1, <2>3 DEF tlvVars, TlvInv, TlvTyped, TlvRead
    <2> QED
        BY <2>1, <2>2, <2>3
<1> QED
    BY <1>1, <1>2, PTL DEF TlvSpec

-----------------------------------------------------------------------------
(* Theorems about the lists *)

\* What the reader holds, and what it has made of it, are bytes and words.
THEOREM TlvTypeCorrect == TlvSpec => []TlvTypeOK
<1>1. TlvInv => TlvTypeOK
    <2>1. SUFFICES ASSUME TlvInv PROVE TlvTypeOK
        OBVIOUS
    <2>2. \A s \in Seq(AnyTlv) : \A i \in DOMAIN s : IsTlv(s[i])
        <3>1. \A s \in Seq(AnyTlv) : \A i \in DOMAIN s : s[i] \in AnyTlv
            BY LenProperties, ElementOfSeq
        <3>2. \A e \in AnyTlv : IsTlv(e)
            BY DEF AnyTlv, IsTlv
        <3> QED
            BY <3>1, <3>2
    <2> QED
        BY <2>1, <2>2 DEF TlvTypeOK, TlvInv, TlvTyped
<1> QED
    BY <1>1, TlvInvariance, PTL

LEMMA FollowsIsPrefix ==
    ASSUME NEW ls \in Seq(AnyTlv), NEW ts \in Seq(AnyTlv), Follows(ts, ls)
    PROVE  IsPrefix(ts, ls)
<1>1. SubSeq(ts, 1, Len(ts)) = ts
    BY SubSeqFull
<1> QED
    BY <1>1 DEF Follows, IsPrefix

LEMMA NothingIsPrefix ==
    ASSUME NEW ls \in Seq(AnyTlv)
    PROVE  IsPrefix(<<>>, ls)
<1>1. Len(ls) \in Nat /\ Len(<<>>) = 0 /\ SubSeq(ls, 1, 0) = <<>>
    BY LenProperties, SubSeqEmpty
<1>2. SubSeq(<<>>, 1, 0) = <<>>
    BY SubSeqEmpty
<1> QED
    BY <1>1, <1>2 DEF IsPrefix

\* Of a list that was cut, what is read is its first entries; of a whole one, all.
THEOREM ListsReadBack == TlvSpec => []ReadsWhatWasWritten
<1>1. TlvInv => ReadsWhatWasWritten
    <2>1. SUFFICES ASSUME TlvInv, Fits
                   PROVE  /\ ~guessed => IsPrefix(tlvs, list)
                          /\ phase = "read" /\ ~cut => tlvs = list /\ ~guessed
        BY DEF ReadsWhatWasWritten
    <2>2. /\ list \in Seq(AnyTlv) /\ tlvs \in Seq(AnyTlv)
          /\ phase \in {"writing", "reading", "read"} /\ LengthsFit(list)
        BY <2>1 DEF TlvInv, TlvTyped, Fits, LengthsFit
    <2>3. ~guessed => Follows(tlvs, list) \/ tlvs = <<>>
        BY <2>1, <2>2 DEF TlvInv, TlvRead, Reading, Done
    <2>4. phase = "read" /\ ~cut => tlvs = list /\ ~guessed
        BY <2>1, <2>2 DEF TlvInv, TlvRead, Done, WrongByOne
    <2> QED
        BY <2>2, <2>3, <2>4, FollowsIsPrefix, NothingIsPrefix
<1> QED
    BY <1>1, TlvInvariance, PTL

\* However a list is cut, one entry is made up at most, the last and empty.
THEOREM OneMadeUpAtMost == TlvSpec => []AtMostOneMadeUp
<1>1. TlvInv => AtMostOneMadeUp
    <2>1. SUFFICES ASSUME TlvInv, Fits
                   PROVE  \/ IsPrefix(tlvs, list)
                          \/ /\ guessed /\ IsPrefix(Front(tlvs), list)
                             /\ Last(tlvs).data = <<>>
        BY DEF AtMostOneMadeUp
    <2>2. /\ list \in Seq(AnyTlv) /\ tlvs \in Seq(AnyTlv)
          /\ phase \in {"writing", "reading", "read"} /\ LengthsFit(list)
        BY <2>1 DEF TlvInv, TlvTyped, Fits, LengthsFit
    <2>3. CASE ~guessed
        <3>1. Follows(tlvs, list) \/ tlvs = <<>>
            BY <2>1, <2>2, <2>3 DEF TlvInv, TlvRead, Reading, Done
        <3> QED
            BY <2>2, <3>1, FollowsIsPrefix, NothingIsPrefix
    <2>4. CASE guessed
        <3>1. WrongByOne(list, tlvs, unread, cut)
            BY <2>1, <2>2, <2>4 DEF TlvInv, TlvRead
        <3>2. CASE Follows(tlvs, list)
            BY <2>2, <3>2, FollowsIsPrefix
        <3>3. CASE ~Follows(tlvs, list)
            <4>1. PICK rs \in Seq(AnyTlv), id \in Word :
                      Follows(rs, list) /\ tlvs = Append(rs, Tlv(id, <<>>))
                BY <3>1, <3>3 DEF WrongByOne
            <4>2. PICK e \in AnyTlv : e = Tlv(id, <<>>) /\ e.data = <<>>
                <5>1. <<>> \in Seq(TlvByte)
                    BY EmptySeq
                <5>2. Tlv(id, <<>>) \in AnyTlv /\ Tlv(id, <<>>).data = <<>>
                    BY <5>1 DEF AnyTlv, Tlv
                <5> QED
                    BY <5>2
            <4>3. /\ Len(tlvs) = Len(rs) + 1 /\ tlvs[Len(rs) + 1] = e
                  /\ Len(rs) \in Nat /\ Len(tlvs) - 1 = Len(rs)
                BY <4>1, <4>2, AppendProperties, LenProperties
            <4>4. Last(tlvs).data = <<>>
                BY <4>2, <4>3 DEF Last
            <4>5. Front(tlvs) = rs
                <5>1. tlvs = rs \o <<e>>
                    BY <4>1, <4>2, AppendIsConcat
                <5>2. \A i \in 1 .. Len(rs) : tlvs[i] = rs[i]
                    BY <4>1, <4>2, AppendProperties
                <5>3. /\ SubSeq(tlvs, 1, Len(rs)) \in Seq(AnyTlv)
                      /\ Len(SubSeq(tlvs, 1, Len(rs))) = Len(rs)
                      /\ \A i \in 1 .. Len(rs) : SubSeq(tlvs, 1, Len(rs))[i] = rs[i]
                    BY <4>3, <5>2, ElementOfSeq, SubSeqProperties
                <5>4. SubSeq(tlvs, 1, Len(rs)) = rs
                    BY <5>3, SeqEqual
                <5> QED
                    BY <4>3, <5>4 DEF Front
            <4> QED
                BY <2>2, <2>4, <4>1, <4>4, <4>5, FollowsIsPrefix
        <3> QED
            BY <3>2, <3>3
    <2> QED
        BY <2>3, <2>4
<1> QED
    BY <1>1, TlvInvariance, PTL

\* The numbers of an entry are right but for the carries of signed chars.
THEOREM NumbersAreRight == TlvSpec => []WrongByCarriesOnly
<1>1. TlvInv => WrongByCarriesOnly
    <2>1. SUFFICES ASSUME TlvInv, NEW i \in DOMAIN tlvs
                   PROVE  LET d == tlvs[i].data IN
              /\ Len(d) = 2 => (toUint16(d) + Carry(d[2], Base)) % WordRange
                               = d[1] * Base + d[2]
              /\ Len(d) = 4 => (toUint32(d) + Carry(d[4], Base)
                                + Carry(d[3], WordRange)
                                + Carry(d[2], WordRange * Base))
                                 % (WordRange * WordRange)
                               = ((d[1] * Base + d[2]) * Base + d[3]) * Base + d[4]
        BY DEF WrongByCarriesOnly
    <2>2. tlvs \in Seq(AnyTlv)
        BY <2>1 DEF TlvInv, TlvTyped
    <2>3. tlvs[i].data \in Seq(TlvByte)
        <3>1. i \in 1 .. Len(tlvs)
            BY <2>2, LenProperties
        <3>2. tlvs[i] \in AnyTlv
            BY <2>2, <3>1, ElementOfSeq
        <3> QED
            BY <3>2 DEF AnyTlv
    <2> QED
        BY <2>1, <2>3, Uint16Is, Uint32Is, Zenon DEF TlvInv, TlvTyped
<1> QED
    BY <1>1, TlvInvariance, PTL
=============================================================================
