-------------------------- MODULE ContactFile_proofs --------------------------
(***************************************************************************)
(* What load() makes of contacts.conf, for files of any length: which      *)
(* contacts and groups there are, what each is given, and which name and   *)
(* flag win.                                                               *)
(*                                                                         *)
(* The parser is a cursor in the file: it stands in the part of the last   *)
(* header h, in the section opened on line q, or on the header's own lines *)
(* when q = h.                                                             *)
(***************************************************************************)
EXTENDS ContactFile, FiniteSetTheorems, NaturalsInduction, WellFoundedInduction,
        TLAPS

-----------------------------------------------------------------------------
(* The first and the last of some numbers. *)

LEMMA LeastOf ==
    ASSUME NEW S \in SUBSET Nat, S # {}
    PROVE  \E n \in S : \A m \in S : n <= m
<1>1. IsWellFoundedOn(OpToRel(<, Nat), Nat)
  BY NatLessThanWellFounded
<1>2. PICK n \in S : \A m \in S : ~ (<<m, n>> \in OpToRel(<, Nat))
  BY <1>1, WFMin
<1>3. \A m \in S : ~(m < n)
  BY <1>2 DEF OpToRel
<1> QED BY <1>3

LEMMA GreatestOf ==
    ASSUME NEW N \in Nat, NEW S \in SUBSET (1 .. N), S # {}
    PROVE  \E n \in S : \A m \in S : m <= n
<1> DEFINE T == {N - n : n \in S}
<1>1. T \in SUBSET Nat /\ T # {}
  <2>1. \A n \in S : N - n \in Nat
    OBVIOUS
  <2> QED BY <2>1
<1>2. PICK k \in T : \A j \in T : k <= j
  BY <1>1, LeastOf
<1>3. PICK n \in S : k = N - n
  OBVIOUS
<1>4. \A m \in S : N - n <= N - m
  BY <1>2, <1>3
<1>5. \A m \in S : m <= n
  BY <1>4
<1> QED BY <1>5

LEMMA LastIs ==
    ASSUME NEW N \in Nat, NEW S \in SUBSET (1 .. N), S # {}
    PROVE  Last(S) \in S /\ \A m \in S : m <= Last(S)
BY GreatestOf DEF Last

-----------------------------------------------------------------------------
(* Where the parser is. *)

Lines == lines \in Seq(Line)

\* In the part of the header on line h (0: before any), in the section opened
\* on line q, or q = h: the lines since h are in its hands.
At(h, q) ==
    /\ h \in 0 .. Len(lines) /\ q \in h .. Len(lines)
    /\ NoHeader(h + 1, Len(lines)) /\ OnlyData(q + 1, Len(lines))
    /\ h # 0 =>
         \/ lines[h] = [kind |-> "contact", id |-> state.contactId] /\ state.groupId = -1
         \/ lines[h] = [kind |-> "group", id |-> state.groupId] /\ state.contactId = -1
    /\ q = h => state.dataname = Main
    /\ q # h => lines[q] = [kind |-> "section", name |-> state.dataname]
    /\ state.data = {n \in h + 1 .. Len(lines) : lines[n].kind = "line"}

Positioned == \E h, q \in 0 .. Len(lines) : At(h, q)

\* Kinds of lines.
LEMMA LineKinds ==
    ASSUME NEW x \in Line
    PROVE  /\ x.kind \in {"contact", "group", "section", "line"}
           /\ x.kind \in {"contact", "group"} => /\ x.id \in Id
                                                 /\ x = [kind |-> x.kind, id |-> x.id]
           /\ x.kind = "section" => /\ x.name \in SectionName
                                    /\ x = [kind |-> "section", name |-> x.name]
           /\ x.kind = "line" => x.key \in Key
BY DEF Line

\* A file with one line more.
LEMMA Appended ==
    ASSUME Lines, NEW x \in Line, lines' = Append(lines, x)
    PROVE  /\ Len(lines) \in Nat /\ Len(lines') = Len(lines) + 1
           /\ DOMAIN lines = 1 .. Len(lines) /\ DOMAIN lines' = 1 .. Len(lines) + 1
           /\ \A n \in 1 .. Len(lines) : lines'[n] = lines[n] /\ lines[n] \in Line
           /\ lines'[Len(lines) + 1] = x
           /\ lines' \in Seq(Line)
BY DEF Lines

\* The parser moves on: past a line of data, to a section, to a header.
LEMMA AtLine ==
    ASSUME Lines, NEW h \in 0 .. Len(lines), NEW q \in 0 .. Len(lines), At(h, q),
           NEW x \in Line, lines' = Append(lines, x), x.kind = "line",
           state' = [state EXCEPT !.data = @ \cup {Len(lines) + 1}],
           state \in [contactId : Int, groupId : Int,
                      dataname : SectionName \cup {Main}, data : SUBSET DOMAIN lines]
    PROVE  At(h, q)'
<1>1. PICK N : N = Len(lines)
  OBVIOUS
<1>2. /\ N \in Nat /\ Len(lines') = N + 1
      /\ \A n \in 1 .. N : lines'[n] = lines[n]
      /\ lines'[N + 1] = x
  BY <1>1, Appended
<1>3. /\ state'.contactId = state.contactId /\ state'.groupId = state.groupId
      /\ state'.dataname = state.dataname /\ state'.data = state.data \cup {N + 1}
  BY <1>1
<1>4. NoHeader(h + 1, N + 1)' /\ OnlyData(q + 1, N + 1)'
  BY <1>1, <1>2 DEF At, NoHeader, OnlyData
<1>5. state'.data = {n \in h + 1 .. N + 1 : lines'[n].kind = "line"}
  BY <1>1, <1>2, <1>3 DEF At
<1> QED BY <1>1, <1>2, <1>3, <1>4, <1>5 DEF At

LEMMA AtSection ==
    ASSUME Lines, NEW h \in 0 .. Len(lines), NEW q \in 0 .. Len(lines), At(h, q),
           NEW name \in SectionName, NEW m \in Nat, m = Len(lines) + 1,
           lines' = Append(lines, [kind |-> "section", name |-> name]),
           state' = [state EXCEPT !.dataname = name],
           state \in [contactId : Int, groupId : Int,
                      dataname : SectionName \cup {Main}, data : SUBSET DOMAIN lines]
    PROVE  At(h, m)'
<1>1. PICK N : N = Len(lines)
  OBVIOUS
<1>0. [kind |-> "section", name |-> name] \in Line
  BY DEF Line
<1>2. /\ N \in Nat /\ Len(lines') = N + 1
      /\ \A n \in 1 .. N : lines'[n] = lines[n]
      /\ lines'[N + 1] = [kind |-> "section", name |-> name]
  BY <1>0, <1>1, Appended
<1>3. /\ state'.contactId = state.contactId /\ state'.groupId = state.groupId
      /\ state'.dataname = name /\ state'.data = state.data
  BY <1>1
<1>4. NoHeader(h + 1, N + 1)' /\ OnlyData(N + 1 + 1, N + 1)'
  BY <1>1, <1>2 DEF At, NoHeader, OnlyData
<1>5. state'.data = {n \in h + 1 .. N + 1 : lines'[n].kind = "line"}
  BY <1>1, <1>2, <1>3 DEF At
<1>6. /\ h \in 0 .. N + 1 /\ N + 1 \in h .. N + 1 /\ N + 1 # h
      /\ h # 0 => lines'[h] = lines[h]
  BY <1>1, <1>2
<1> QED BY <1>1, <1>2, <1>3, <1>4, <1>5, <1>6 DEF At

LEMMA AtHeader ==
    ASSUME Lines, NEW kind \in {"contact", "group"}, NEW id \in Id,
           NEW m \in Nat, m = Len(lines) + 1,
           lines' = Append(lines, [kind |-> kind, id |-> id]),
           state' = IF kind = "contact" THEN HeaderState(id, -1) ELSE HeaderState(-1, id)
    PROVE  At(m, m)'
<1>1. PICK N : N = Len(lines)
  OBVIOUS
<1>0. [kind |-> kind, id |-> id] \in Line
  BY DEF Line
<1>2. /\ N \in Nat /\ Len(lines') = N + 1
      /\ lines'[N + 1] = [kind |-> kind, id |-> id]
  BY <1>0, <1>1, Appended
<1>3. NoHeader(N + 1 + 1, N + 1)' /\ OnlyData(N + 1 + 1, N + 1)'
  BY <1>2 DEF NoHeader, OnlyData
<1>4. state'.data = {} /\ state'.dataname = Main
  BY DEF HeaderState
<1>5. {n \in N + 1 + 1 .. N + 1 : lines'[n].kind = "line"} = {}
  BY <1>2
<1>6. \/ lines'[N + 1] = [kind |-> "contact", id |-> state'.contactId]
         /\ state'.groupId = -1
      \/ lines'[N + 1] = [kind |-> "group", id |-> state'.groupId]
         /\ state'.contactId = -1
  BY <1>2 DEF HeaderState
<1> QED BY <1>1, <1>2, <1>3, <1>4, <1>5, <1>6 DEF At

-----------------------------------------------------------------------------
(* What belongs to a contact, as the file grows. *)

\* The last break is on line q, and the last header on line h.
LEMMA AtBreaks ==
    ASSUME Lines, NEW h \in 0 .. Len(lines), NEW q \in 0 .. Len(lines), At(h, q)
    PROVE  /\ h <= q /\ h \in Nat /\ q \in Nat
           /\ \A n \in 1 .. Len(lines) : lines[n].kind # "line" => n <= q
           /\ \A n \in 1 .. Len(lines) : lines[n].kind \in {"contact", "group"} => n <= h
           /\ q # 0 => lines[q].kind # "line"
           /\ q = h <=> (q # 0 => lines[q].kind \in {"contact", "group"})
<1>1. PICK N \in Nat : N = Len(lines)
  BY DEF Lines
<1>2. \A n \in 1 .. N : lines[n] \in Line
  BY <1>1 DEF Lines
<1>3. \A n \in 1 .. N : lines[n].kind # "line" => n <= q
  BY <1>1 DEF At, OnlyData
<1>4. \A n \in 1 .. N : lines[n].kind \in {"contact", "group"} => n <= h
  BY <1>1 DEF At, NoHeader
<1>5. h <= q /\ h \in Nat /\ q \in Nat
  BY <1>1 DEF At
<1>6. q # h => q # 0 /\ lines[q].kind = "section"
  BY <1>5 DEF At
<1>7. h # 0 => lines[h].kind \in {"contact", "group"}
  BY DEF At
<1> QED BY <1>1, <1>3, <1>4, <1>5, <1>6, <1>7

LEMMA MainQuiet ==
    ASSUME Lines, NEW x \in Line, x.kind = "line", lines' = Append(lines, x), NEW id
    PROVE  MainLines(id)' = MainLines(id)
<1>1. PICK N \in Nat : N = Len(lines)
  BY DEF Lines
<1>2. /\ Len(lines') = N + 1 /\ DOMAIN lines = 1 .. N /\ DOMAIN lines' = 1 .. N + 1
      /\ \A n \in 1 .. N : lines'[n] = lines[n]
      /\ lines'[N + 1] = x
  BY <1>1, Appended
<1>3. \A n \in 1 .. N + 1 : Ended(n)' <=> n \in 1 .. N /\ Ended(n)
  BY <1>1, <1>2 DEF Ended
<1>4. \A n \in 1 .. N, k \in 1 .. N :
          /\ Header(k, "contact", id)' <=> Header(k, "contact", id)
          /\ OnlyData(k + 1, n)' <=> OnlyData(k + 1, n)
  BY <1>2 DEF Header, OnlyData
<1>5. \A n \in 1 .. N : n \in MainLines(id)' <=> n \in MainLines(id)
  <2> SUFFICES ASSUME NEW n \in 1 .. N
               PROVE  n \in MainLines(id)' <=> n \in MainLines(id)
    OBVIOUS
  <2>1. n \in DOMAIN lines /\ n \in DOMAIN lines' /\ 1 .. n - 1 \subseteq 1 .. N
    BY <1>1, <1>2
  <2>2. Ended(n)' <=> Ended(n)
    BY <1>1, <1>3
  <2>3. (\E h \in 1 .. n - 1 : Header(h, "contact", id) /\ OnlyData(h + 1, n))'
        <=> \E h \in 1 .. n - 1 : Header(h, "contact", id) /\ OnlyData(h + 1, n)
    BY <1>4, <2>1
  <2> QED BY <2>1, <2>2, <2>3 DEF MainLines
<1>6. MainLines(id)' \subseteq 1 .. N /\ MainLines(id) \subseteq 1 .. N
  BY <1>2, <1>3 DEF MainLines
<1> QED BY <1>5, <1>6

\* When a section begins, the lines right behind a contact's header are its.
LEMMA MainBreak ==
    ASSUME Lines, NEW h \in 0 .. Len(lines), NEW q \in 0 .. Len(lines), At(h, q),
           NEW x \in Line, x.kind # "line", lines' = Append(lines, x), NEW id
    PROVE  MainLines(id)' = MainLines(id) \cup
               (IF q = h /\ h # 0 /\ Header(h, "contact", id) THEN state.data ELSE {})
<1>1. PICK N \in Nat : N = Len(lines)
  BY DEF Lines
<1>2. /\ Len(lines') = N + 1 /\ DOMAIN lines = 1 .. N /\ DOMAIN lines' = 1 .. N + 1
      /\ \A n \in 1 .. N : lines'[n] = lines[n]
      /\ lines'[N + 1] = x
  BY <1>1, Appended
<1>3. \A n \in 1 .. N + 1 : Ended(n)' <=> n \in 1 .. N
  BY <1>1, <1>2 DEF Ended
<1>4. \A n \in 1 .. N, k \in 1 .. N :
          /\ Header(k, "contact", id)' <=> Header(k, "contact", id)
          /\ OnlyData(k + 1, n)' <=> OnlyData(k + 1, n)
  BY <1>2 DEF Header, OnlyData
<1>5. MainLines(id)' = {n \in 1 .. N : \E k \in 1 .. n - 1 : Header(k, "contact", id)
                                                            /\ OnlyData(k + 1, n)}
  <2>1. \A n \in 1 .. N : \A k \in 1 .. n - 1 : k \in 1 .. N
    OBVIOUS
  <2>2. \A n \in 1 .. N :
            (\E k \in 1 .. n - 1 : Header(k, "contact", id)' /\ OnlyData(k + 1, n)') <=>
            (\E k \in 1 .. n - 1 : Header(k, "contact", id) /\ OnlyData(k + 1, n))
    BY <1>4, <2>1
  <2>3. MainLines(id)' =
          {n \in 1 .. N + 1 :
              /\ n \in 1 .. N
              /\ (\E k \in 1 .. n - 1 : Header(k, "contact", id)' /\ OnlyData(k + 1, n)')}
    BY <1>2, <1>3 DEF MainLines
  <2>4. 1 .. N \subseteq 1 .. N + 1
    OBVIOUS
  <2> QED BY <2>2, <2>3, <2>4
<1>6. MainLines(id) = {n \in 1 .. N : /\ Ended(n)
                                      /\ \E k \in 1 .. n - 1 : Header(k, "contact", id)
                                                              /\ OnlyData(k + 1, n)}
  BY <1>2 DEF MainLines
<1>7. /\ h <= q /\ h \in Nat /\ q \in Nat /\ q <= N
      /\ \A n \in 1 .. N : lines[n].kind # "line" => n <= q
      /\ \A n \in 1 .. N : lines[n].kind \in {"contact", "group"} => n <= h
      /\ q # 0 => lines[q].kind # "line"
  BY <1>1, AtBreaks
<1>8. state.data = {n \in h + 1 .. N : lines[n].kind = "line"}
  BY <1>1 DEF At
<1>9. \A n \in 1 .. N : Ended(n) <=> n < q
  <2>1. \A n \in 1 .. N : n < q => Ended(n)
    BY <1>1, <1>7 DEF Ended
  <2>2. \A n \in 1 .. N : Ended(n) => n < q
    BY <1>1, <1>7 DEF Ended
  <2> QED BY <2>1, <2>2
<1>10. ASSUME NEW n \in 1 .. N, ~Ended(n), NEW k \in 1 .. n - 1,
              Header(k, "contact", id), OnlyData(k + 1, n)
       PROVE  q = h /\ h = k /\ n \in state.data
  <2>1. lines[n].kind = "line" /\ n >= q
    BY <1>9, <1>10, <1>7 DEF OnlyData
  <2>2. n # q
    BY <1>7, <2>1
  <2>3. q <= k
    BY <1>7, <1>10, <2>1, <2>2 DEF OnlyData
  <2>4. k <= h
    BY <1>7, <1>10 DEF Header
  <2> QED BY <1>7, <1>8, <2>1, <2>3, <2>4
<1>11. ASSUME q = h, h # 0, Header(h, "contact", id), NEW n \in state.data
       PROVE  n \in 1 .. N /\ h \in 1 .. n - 1 /\ OnlyData(h + 1, n)
  <2>1. n \in h + 1 .. N
    BY <1>8
  <2>2. \A m \in h + 1 .. N : lines[m].kind = "line"
    BY <1>7, <1>11
  <2> QED BY <1>7, <1>11, <2>1, <2>2 DEF OnlyData
<1>12. ASSUME NEW n PROVE n \in MainLines(id)' <=>
              n \in MainLines(id) \cup
                  (IF q = h /\ h # 0 /\ Header(h, "contact", id) THEN state.data ELSE {})
  <2>1. n \in MainLines(id) => n \in MainLines(id)'
    BY <1>5, <1>6
  <2>2. q = h /\ h # 0 /\ Header(h, "contact", id) /\ n \in state.data
            => n \in MainLines(id)'
    BY <1>5, <1>11
  <2>3. n \in MainLines(id)' /\ n \notin MainLines(id) =>
            q = h /\ h # 0 /\ Header(h, "contact", id) /\ n \in state.data
    <3> SUFFICES ASSUME n \in MainLines(id)', n \notin MainLines(id)
                 PROVE  q = h /\ h # 0 /\ Header(h, "contact", id) /\ n \in state.data
      OBVIOUS
    <3>1. /\ n \in 1 .. N
          /\ \E k \in 1 .. n - 1 : Header(k, "contact", id) /\ OnlyData(k + 1, n)
      BY <1>5
    <3>2. PICK k \in 1 .. n - 1 : Header(k, "contact", id) /\ OnlyData(k + 1, n)
      BY <3>1
    <3>3. ~Ended(n)
      BY <1>6, <3>1
    <3>4. q = h /\ h = k /\ n \in state.data
      BY <1>10, <3>1, <3>2, <3>3
    <3> QED BY <3>2, <3>4
  <2> QED BY <2>1, <2>2, <2>3
<1> QED BY <1>12

\* The first break behind line s of a file.
EndIn(file, s) == CHOOSE m \in s + 1 .. Len(file) :
                      /\ file[m].kind # "line"
                      /\ \A n \in s + 1 .. m - 1 : file[n].kind = "line"

LEMMA EndIs ==
    ASSUME NEW file, Len(file) \in Nat, NEW s \in Nat, NEW m \in s + 1 .. Len(file),
           file[m].kind # "line", \A n \in s + 1 .. m - 1 : file[n].kind = "line"
    PROVE  EndIn(file, s) = m
<1>1. PICK N \in Nat : N = Len(file)
  OBVIOUS
<1>2. ASSUME NEW k \in s + 1 .. N, file[k].kind # "line",
             \A n \in s + 1 .. k - 1 : file[n].kind = "line"
      PROVE  k = m
  <2>1. CASE k < m
    BY <1>1, <1>2, <2>1
  <2>2. CASE m < k
    BY <1>1, <1>2, <2>2
  <2> QED BY <1>1, <2>1, <2>2
<1> QED BY <1>1, <1>2 DEF EndIn

LEMMA EndExists ==
    ASSUME Lines, NEW s \in 1 .. Len(lines), Ended(s)
    PROVE  /\ EndIn(lines, s) \in s + 1 .. Len(lines)
           /\ lines[EndIn(lines, s)].kind # "line"
           /\ \A n \in s + 1 .. EndIn(lines, s) - 1 : lines[n].kind = "line"
<1>1. PICK N \in Nat : N = Len(lines)
  BY DEF Lines
<1> DEFINE S == {m \in s + 1 .. N : lines[m].kind # "line"}
<1>2. S \in SUBSET Nat /\ S # {}
  BY <1>1 DEF Ended
<1>3. PICK m \in S : \A k \in S : m <= k
  BY <1>2, LeastOf
<1>4. m \in s + 1 .. N /\ lines[m].kind # "line"
  OBVIOUS
<1>5. \A n \in s + 1 .. m - 1 : lines[n].kind = "line"
  BY <1>3, <1>4
<1> QED BY <1>1, <1>4, <1>5, EndIs

LEMMA SectionLinesIs ==
    \A h, s : SectionLines(h, s) =
        {n \in h .. EndIn(lines, s) :
            /\ lines[n].kind = "line"
            /\ \A m \in h .. n : lines[m].kind = "line" => KeyOf(m) # "blank"}
BY DEF SectionLines, EndIn, OnlyData

\* A section of a loaded client, of contact id.
IsSection(id, a, b) ==
    /\ a \in 1 .. Len(lines) /\ b \in 1 .. Len(lines) /\ a < b
    /\ Header(a, "contact", id) /\ NoHeader(a + 1, b)
    /\ lines[b].kind = "section" /\ lines[b].name \in Client /\ Ended(b)

LEMMA SectionsAre ==
    ASSUME Lines
    PROVE  \A id : /\ \A a, b : <<a, b>> \in ClientSections(id) <=> IsSection(id, a, b)
                   /\ \A hs \in ClientSections(id) : hs = <<hs[1], hs[2]>>
<1>1. DOMAIN lines = 1 .. Len(lines)
  BY DEF Lines
<1> QED BY <1>1 DEF ClientSections, IsSection

LEMMA SectionsAreNext ==
    Lines' => \A id :
        /\ \A a, b : <<a, b>> \in ClientSections(id)' <=> IsSection(id, a, b)'
        /\ \A hs \in ClientSections(id)' : hs = <<hs[1], hs[2]>>
<1>1. Lines' => DOMAIN lines' = 1 .. Len(lines')
  BY DEF Lines
<1> QED BY <1>1 DEF ClientSections, IsSection

LEMMA SectionsFinite ==
    ASSUME Lines, NEW id
    PROVE  IsFiniteSet(ClientSections(id))
<1>1. IsFiniteSet(1 .. Len(lines))
  BY FS_Interval DEF Lines
<1>2. IsFiniteSet((1 .. Len(lines)) \X (1 .. Len(lines)))
  BY <1>1, FS_Product
<1>3. ClientSections(id) \subseteq (1 .. Len(lines)) \X (1 .. Len(lines))
  BY DEF ClientSections, Lines
<1> QED BY <1>2, <1>3, FS_Subset

\* What an IM contact was made of does not change.
LEMMA SectionLinesStay ==
    ASSUME Lines, NEW x \in Line, lines' = Append(lines, x), NEW id,
           NEW a, NEW b, IsSection(id, a, b)
    PROVE  SectionLines(a, b)' = SectionLines(a, b)
<1>1. PICK N \in Nat : N = Len(lines)
  BY DEF Lines
<1>2. /\ Len(lines') = N + 1 /\ \A n \in 1 .. N : lines'[n] = lines[n]
  BY <1>1, Appended
<1>3. a \in 1 .. N /\ b \in 1 .. N /\ Ended(b)
  BY <1>1 DEF IsSection
<1>4. PICK m : m = EndIn(lines, b)
  OBVIOUS
<1>5. /\ m \in b + 1 .. N /\ lines[m].kind # "line"
      /\ \A n \in b + 1 .. m - 1 : lines[n].kind = "line"
  BY <1>1, <1>3, <1>4, EndExists
<1>6. /\ Len(lines') \in Nat /\ m \in b + 1 .. Len(lines')
      /\ lines'[m].kind # "line"
      /\ \A n \in b + 1 .. m - 1 : lines'[n].kind = "line"
  BY <1>2, <1>3, <1>5
<1>7. EndIn(lines', b) = m
  <2>1. b \in Nat
    BY <1>3
  <2>2. PICK file : file = lines'
    OBVIOUS
  <2>3. EndIn(file, b) = m
    BY <1>6, <2>1, <2>2, EndIs
  <2> QED BY <2>2, <2>3
<1>8. SectionLines(a, b)' =
        {n \in a .. EndIn(lines', b) :
            /\ lines'[n].kind = "line"
            /\ \A k \in a .. n : lines'[k].kind = "line" => KeyOf(k)' # "blank"}
  BY DEF SectionLines, EndIn, OnlyData
<1>9. \A n \in a .. m : n \in 1 .. N /\ \A k \in a .. n : k \in 1 .. N
  BY <1>3, <1>5
<1>10. \A k \in 1 .. N : lines'[k] = lines[k] /\ KeyOf(k)' = KeyOf(k)
  BY <1>2 DEF KeyOf
<1>11. \A n \in a .. m :
          /\ lines'[n] = lines[n]
          /\ (\A k \in a .. n : lines'[k].kind = "line" => KeyOf(k)' # "blank")
              <=> \A k \in a .. n : lines[k].kind = "line" => KeyOf(k) # "blank"
  BY <1>9, <1>10
<1>12. SectionLines(a, b) =
        {n \in a .. m :
            /\ lines[n].kind = "line"
            /\ \A k \in a .. n : lines[k].kind = "line" => KeyOf(k) # "blank"}
  BY <1>4, SectionLinesIs
<1>13. SectionLines(a, b)' =
        {n \in a .. m :
            /\ lines'[n].kind = "line"
            /\ \A k \in a .. n : lines'[k].kind = "line" => KeyOf(k)' # "blank"}
  BY <1>7, <1>8
<1> QED BY <1>11, <1>12, <1>13

LEMMA SectionsQuiet ==
    ASSUME Lines, NEW x \in Line, x.kind = "line", lines' = Append(lines, x), NEW id
    PROVE  ClientSections(id)' = ClientSections(id)
<1>1. PICK N \in Nat : N = Len(lines)
  BY DEF Lines
<1>2. /\ Len(lines') = N + 1 /\ \A n \in 1 .. N : lines'[n] = lines[n]
      /\ lines'[N + 1] = x /\ Lines'
  BY <1>1, Appended DEF Lines
<1>3. \A b \in 1 .. N + 1 : Ended(b)' <=> b \in 1 .. N /\ Ended(b)
  BY <1>1, <1>2 DEF Ended
<1>4. \A a, b : IsSection(id, a, b)' <=> IsSection(id, a, b)
  <2> SUFFICES ASSUME NEW a, NEW b
               PROVE  IsSection(id, a, b)' <=> IsSection(id, a, b)
    OBVIOUS
  <2>1. CASE a \in 1 .. N /\ b \in 1 .. N
    <3>1. /\ lines'[a] = lines[a] /\ lines'[b] = lines[b]
          /\ \A n \in a + 1 .. b : lines'[n] = lines[n]
      BY <1>2, <2>1
    <3>2. Ended(b)' <=> Ended(b)
      BY <1>3, <2>1
    <3> QED BY <1>1, <1>2, <2>1, <3>1, <3>2 DEF IsSection, Header, NoHeader
  <2>2. CASE ~(a \in 1 .. N /\ b \in 1 .. N)
    <3>1. ~IsSection(id, a, b)
      BY <1>1, <2>2 DEF IsSection
    <3>2. ~IsSection(id, a, b)'
      <4> SUFFICES ASSUME IsSection(id, a, b)' PROVE FALSE
        OBVIOUS
      <4>1. a \in 1 .. N + 1 /\ b \in 1 .. N + 1 /\ a < b /\ Ended(b)'
        BY <1>2 DEF IsSection
      <4> QED BY <1>3, <2>2, <4>1
    <3> QED BY <3>1, <3>2
  <2> QED BY <2>1, <2>2
<1>5. /\ \A a, b : <<a, b>> \in ClientSections(id) <=> IsSection(id, a, b)
      /\ \A hs \in ClientSections(id) : hs = <<hs[1], hs[2]>>
  BY SectionsAre
<1>6. /\ \A a, b : <<a, b>> \in ClientSections(id)' <=> IsSection(id, a, b)'
      /\ \A hs \in ClientSections(id)' : hs = <<hs[1], hs[2]>>
  BY <1>2, SectionsAreNext
<1> QED BY <1>4, <1>5, <1>6

\* When a section begins, the section before it is one more of its contact.
LEMMA SectionsBreak ==
    ASSUME Lines, NEW h \in 0 .. Len(lines), NEW q \in 0 .. Len(lines), At(h, q),
           NEW x \in Line, x.kind # "line", lines' = Append(lines, x), NEW id
    PROVE  /\ ClientSections(id)' = ClientSections(id) \cup
                (IF q # h /\ h # 0 /\ Header(h, "contact", id)
                         /\ state.dataname \in Client
                 THEN {<<h, q>>} ELSE {})
           /\ <<h, q>> \notin ClientSections(id)
<1>1. PICK N \in Nat : N = Len(lines)
  BY DEF Lines
<1>2. /\ Len(lines') = N + 1 /\ \A n \in 1 .. N : lines'[n] = lines[n]
      /\ lines'[N + 1] = x /\ Lines'
  BY <1>1, Appended DEF Lines
<1>3. \A b \in 1 .. N + 1 : Ended(b)' <=> b \in 1 .. N
  BY <1>1, <1>2 DEF Ended
<1>4. /\ h <= q /\ h \in Nat /\ q \in Nat /\ q <= N
      /\ \A n \in 1 .. N : lines[n].kind # "line" => n <= q
      /\ \A n \in 1 .. N : lines[n].kind \in {"contact", "group"} => n <= h
      /\ q # 0 => lines[q].kind # "line"
      /\ q # h => lines[q] = [kind |-> "section", name |-> state.dataname]
      /\ h # 0 => lines[h].kind \in {"contact", "group"}
  BY <1>1, AtBreaks DEF At
<1>5. \A b \in 1 .. N : Ended(b) <=> b < q
  <2>1. \A b \in 1 .. N : b < q => Ended(b)
    BY <1>1, <1>4 DEF Ended
  <2>2. \A b \in 1 .. N : Ended(b) => b < q
    BY <1>1, <1>4 DEF Ended
  <2> QED BY <2>1, <2>2
<1> DEFINE New == q # h /\ h # 0 /\ Header(h, "contact", id)
                        /\ state.dataname \in Client
<1>6. ASSUME NEW a, NEW b
      PROVE  IsSection(id, a, b)' <=>
                 IsSection(id, a, b) \/ (New /\ a = h /\ b = q)
  <2>1. CASE ~(a \in 1 .. N /\ b \in 1 .. N)
    <3>1. ~IsSection(id, a, b)
      BY <1>1, <2>1 DEF IsSection
    <3>2. ~IsSection(id, a, b)'
      <4> SUFFICES ASSUME IsSection(id, a, b)' PROVE FALSE
        OBVIOUS
      <4>1. a \in 1 .. N + 1 /\ b \in 1 .. N + 1 /\ a < b /\ Ended(b)'
        BY <1>2 DEF IsSection
      <4> QED BY <1>3, <2>1, <4>1
    <3>3. New => h \in 1 .. N /\ q \in 1 .. N
      BY <1>4
    <3> QED BY <2>1, <3>1, <3>2, <3>3
  <2>2. CASE a \in 1 .. N /\ b \in 1 .. N
    <3>1. /\ lines'[a] = lines[a] /\ lines'[b] = lines[b]
          /\ \A n \in a + 1 .. b : lines'[n] = lines[n]
      BY <1>2, <2>2
    <3>2. IsSection(id, a, b)' <=>
            /\ a < b /\ Header(a, "contact", id) /\ NoHeader(a + 1, b)
            /\ lines[b].kind = "section" /\ lines[b].name \in Client
      BY <1>2, <1>3, <2>2, <3>1 DEF IsSection, Header, NoHeader
    <3>3. CASE Ended(b)
      <4>1. b # q
        BY <1>4, <1>5, <2>2, <3>3
      <4> QED BY <1>1, <2>2, <3>2, <3>3, <4>1 DEF IsSection
    <3>4. CASE ~Ended(b)
      <4>1. ASSUME IsSection(id, a, b)' PROVE New /\ a = h /\ b = q
        <5>1. b = q /\ q # 0
          BY <1>4, <1>5, <2>2, <3>2, <3>4, <4>1
        <5>2. a <= h
          BY <1>4, <2>2, <3>2, <4>1 DEF Header
        <5>3. q # h
          BY <1>4, <3>2, <4>1, <5>1
        <5>4. a = h
          <6> SUFFICES ASSUME a < h PROVE FALSE
            BY <1>4, <2>2, <5>2
          <6>1. h \in a + 1 .. b /\ lines[h].kind \in {"contact", "group"}
            BY <1>4, <2>2, <5>1
          <6> QED BY <3>2, <4>1, <6>1 DEF NoHeader
        <5> QED BY <1>4, <2>2, <3>2, <4>1, <5>1, <5>3, <5>4
      <4>2. ASSUME New, a = h, b = q PROVE IsSection(id, a, b)'
        <5>1. NoHeader(h + 1, q)
          BY <1>1, <1>4 DEF At, NoHeader
        <5> QED BY <1>4, <3>2, <4>2, <5>1
      <4>3. ~IsSection(id, a, b)
        BY <3>4 DEF IsSection
      <4> QED BY <4>1, <4>2, <4>3
    <3> QED BY <3>3, <3>4
  <2> QED BY <2>1, <2>2
<1>7. /\ \A a, b : <<a, b>> \in ClientSections(id) <=> IsSection(id, a, b)
      /\ \A hs \in ClientSections(id) : hs = <<hs[1], hs[2]>>
  BY SectionsAre
<1>8. /\ \A a, b : <<a, b>> \in ClientSections(id)' <=> IsSection(id, a, b)'
      /\ \A hs \in ClientSections(id)' : hs = <<hs[1], hs[2]>>
  BY <1>2, SectionsAreNext
<1>9. ~IsSection(id, h, q)
  BY <1>4, <1>5 DEF IsSection
<1> HIDE DEF New
<1>10. ClientSections(id)' = ClientSections(id) \cup (IF New THEN {<<h, q>>} ELSE {})
  BY <1>6, <1>7, <1>8
<1> QED BY <1>7, <1>9, <1>10 DEF New

\* Its lines are those in the parser's hands.
LEMMA SectionLinesNew ==
    ASSUME Lines, NEW h \in 0 .. Len(lines), NEW q \in 0 .. Len(lines), At(h, q),
           NEW x \in Line, x.kind # "line", lines' = Append(lines, x), q # h, h # 0
    PROVE  SectionLines(h, q)' = ReadByClient(state.data)
<1>1. PICK N \in Nat : N = Len(lines)
  BY DEF Lines
<1>2. /\ Len(lines') = N + 1 /\ \A n \in 1 .. N : lines'[n] = lines[n]
      /\ lines'[N + 1] = x
  BY <1>1, Appended
<1>3. /\ h <= q /\ h \in Nat /\ q \in Nat /\ q <= N
      /\ \A n \in 1 .. N : lines[n].kind # "line" => n <= q
      /\ lines[h].kind \in {"contact", "group"}
  BY <1>1, AtBreaks DEF At
<1>4. EndIn(lines', q) = N + 1
  <2>1. \A n \in q + 1 .. N + 1 - 1 : lines'[n].kind = "line"
    BY <1>2, <1>3
  <2>2. PICK file : file = lines'
    OBVIOUS
  <2>3. /\ Len(file) \in Nat /\ N + 1 \in q + 1 .. Len(file)
        /\ file[N + 1].kind # "line"
        /\ \A n \in q + 1 .. (N + 1) - 1 : file[n].kind = "line"
    BY <1>2, <1>3, <2>1, <2>2
  <2>4. EndIn(file, q) = N + 1
    BY <1>3, <2>3, EndIs
  <2> QED BY <2>2, <2>4
<1>5. SectionLines(h, q)' =
        {n \in h .. N + 1 :
            /\ lines'[n].kind = "line"
            /\ \A k \in h .. n : lines'[k].kind = "line" => KeyOf(k)' # "blank"}
  BY <1>4 DEF SectionLines, EndIn, OnlyData
<1>6. \A k \in 1 .. N : lines'[k] = lines[k] /\ KeyOf(k)' = KeyOf(k)
  BY <1>2 DEF KeyOf
<1>7. state.data = {n \in h + 1 .. N : lines[n].kind = "line"}
  BY <1>1 DEF At
<1>8. ASSUME NEW n PROVE n \in SectionLines(h, q)' <=> n \in ReadByClient(state.data)
  <2>1. n \in SectionLines(h, q)' <=>
            /\ n \in h + 1 .. N /\ lines[n].kind = "line"
            /\ \A k \in h .. n : lines[k].kind = "line" => KeyOf(k) # "blank"
    <3>1. n \in h .. N + 1 /\ lines'[n].kind = "line" => n \in h + 1 .. N
      BY <1>2, <1>3
    <3>2. n \in h + 1 .. N =>
              /\ lines'[n] = lines[n]
              /\ \A k \in h .. n : lines'[k] = lines[k] /\ KeyOf(k)' = KeyOf(k)
      BY <1>3, <1>6
    <3>3. n \in h + 1 .. N => n \in h .. N + 1
      BY <1>3
    <3> QED BY <1>5, <3>1, <3>2, <3>3
  <2>2. n \in ReadByClient(state.data) <=>
            /\ n \in h + 1 .. N /\ lines[n].kind = "line"
            /\ \A k \in h + 1 .. N : lines[k].kind = "line" /\ KeyOf(k) = "blank" => n < k
    BY <1>7 DEF ReadByClient
  <2>3. ASSUME n \in h + 1 .. N, lines[n].kind = "line"
        PROVE  (\A k \in h .. n : lines[k].kind = "line" => KeyOf(k) # "blank") <=>
               (\A k \in h + 1 .. N :
                    lines[k].kind = "line" /\ KeyOf(k) = "blank" => n < k)
    <3>1. \A k \in h + 1 .. N : n < k \/ k \in h .. n
      BY <1>3, <2>3
    <3>2. \A k \in h .. n : k = h \/ (k \in h + 1 .. N /\ ~(n < k))
      BY <1>3, <2>3
    <3>3. lines[h].kind # "line"
      BY <1>3
    <3> QED BY <3>1, <3>2, <3>3
  <2> QED BY <2>1, <2>2, <2>3
<1> QED BY <1>8

-----------------------------------------------------------------------------
(* What load_old_dispatch makes of a contact. *)

StateTyped == state \in [contactId : Int, groupId : Int,
                         dataname : SectionName \cup {Main},
                         data : SUBSET DOMAIN lines]

NamedIn(S) == {n \in S : KeyOf(n) = "name"}
FlaggedIn(S) == {n \in S : KeyOf(n) \in {"ignored", "shown"}}
NamingIn(im) == {k \in DOMAIN im : \/ im[k].client \in Numbered
                                   \/ \E n \in im[k].lines : KeyOf(n) = "nick"}

LEMMA GivenMain ==
    ASSUME NEW c \in ContactRec, StateTyped, state.dataname = Main,
           NEW d, d = GivenContact(c)
    PROVE  /\ d.main = c.main \cup state.data
           /\ d.name = IF NamedIn(state.data) = {} THEN c.name
                       ELSE Last(NamedIn(state.data))
           /\ d.ignore = IF FlaggedIn(state.data) = {} THEN c.ignore
                         ELSE KeyOf(Last(FlaggedIn(state.data))) = "ignored"
           /\ d.im = c.im /\ d.data = c.data
           /\ d = [main |-> d.main, name |-> d.name, ignore |-> d.ignore,
                   im |-> d.im, data |-> d.data]
<1>1. GivenContact(c) = Deserialized(c, state.data)
  BY MainIsNoName DEF GivenContact
<1>2. c = [main |-> c.main, name |-> c.name, ignore |-> c.ignore,
           im |-> c.im, data |-> c.data]
  BY DEF ContactRec
<1> QED BY <1>1, <1>2 DEF Deserialized, NamedIn, FlaggedIn

LEMMA GivenClient ==
    ASSUME NEW c \in ContactRec, StateTyped, state.dataname \in Client,
           NEW d, d = GivenContact(c)
    PROVE  /\ d.main = c.main /\ d.ignore = c.ignore /\ d.data = c.data
           /\ d.name = IF c.name = 0 /\ HasName(state.dataname, state.data)
                       THEN -(Len(c.im) + 1) ELSE c.name
           /\ d.im = Append(c.im, [client |-> state.dataname,
                                   lines |-> ReadByClient(state.data)])
           /\ d = [main |-> d.main, name |-> d.name, ignore |-> d.ignore,
                   im |-> d.im, data |-> d.data]
<1>1. GivenContact(c) = WithIMContact(c, state.dataname, state.data)
  BY MainIsNoName, ContactFileAssumption DEF GivenContact
<1>2. c = [main |-> c.main, name |-> c.name, ignore |-> c.ignore,
           im |-> c.im, data |-> c.data]
  BY DEF ContactRec
<1> QED BY <1>1, <1>2 DEF WithIMContact, WithClient

LEMMA GivenElse ==
    ASSUME NEW c \in ContactRec, StateTyped, state.dataname # Main,
           state.dataname \notin Client, NEW d, d = GivenContact(c)
    PROVE  /\ d.main = c.main /\ d.name = c.name /\ d.ignore = c.ignore /\ d.im = c.im
           /\ d.data = IF state.dataname \in DataName
                       THEN c.data \cup ({state.dataname} \X state.data) ELSE c.data
           /\ d = [main |-> d.main, name |-> d.name, ignore |-> d.ignore,
                   im |-> d.im, data |-> d.data]
<1>1. GivenContact(c) = IF state.dataname \in DataName
                        THEN WithData(c, state.dataname, state.data) ELSE c
  BY DEF GivenContact
<1>2. c = [main |-> c.main, name |-> c.name, ignore |-> c.ignore,
           im |-> c.im, data |-> c.data]
  BY DEF ContactRec
<1> QED BY <1>1, <1>2 DEF WithData

\* It stays a contact, made of lines of the file.
Within(c) == /\ c.main \subseteq DOMAIN lines
             /\ \A k \in DOMAIN c.im : c.im[k].lines \subseteq DOMAIN lines

LEMMA GivenTyped ==
    ASSUME NEW c \in ContactRec, StateTyped, Lines, Len(lines) <= MaxLines,
           Within(c), NEW d, d = GivenContact(c)
    PROVE  d \in ContactRec /\ Within(d)
<1>1. DOMAIN lines = 1 .. Len(lines) /\ DOMAIN lines \subseteq 1 .. MaxLines
  BY ContactFileAssumption DEF Lines
<1>2. state.data \subseteq DOMAIN lines /\ state.data \subseteq 1 .. MaxLines
  BY <1>1 DEF StateTyped
<1>3. /\ c.main \subseteq 1 .. MaxLines /\ c.name \in Int /\ c.ignore \in BOOLEAN
      /\ c.im \in Seq([client : Client, lines : SUBSET (1 .. MaxLines)])
      /\ c.data \subseteq DataName \X (1 .. MaxLines)
  BY DEF ContactRec
<1>4. CASE state.dataname = Main
  <2>1. /\ d.main = c.main \cup state.data
        /\ d.name = IF NamedIn(state.data) = {} THEN c.name
                    ELSE Last(NamedIn(state.data))
        /\ d.ignore = IF FlaggedIn(state.data) = {} THEN c.ignore
                      ELSE KeyOf(Last(FlaggedIn(state.data))) = "ignored"
        /\ d.im = c.im /\ d.data = c.data
        /\ d = [main |-> d.main, name |-> d.name, ignore |-> d.ignore,
                im |-> d.im, data |-> d.data]
    BY <1>4, GivenMain
  <2>2. NamedIn(state.data) # {} => Last(NamedIn(state.data)) \in Int
    <3>1. Len(lines) \in Nat /\ NamedIn(state.data) \in SUBSET (1 .. Len(lines))
      BY <1>1, <1>2 DEF NamedIn, Lines
    <3>2. NamedIn(state.data) # {} => Last(NamedIn(state.data)) \in NamedIn(state.data)
      BY <3>1, LastIs
    <3> QED BY <3>1, <3>2
  <2>3. d.ignore \in BOOLEAN
    BY <1>3, <2>1, Zenon
  <2>4. d.main \subseteq 1 .. MaxLines /\ d.name \in Int
    BY <1>2, <1>3, <2>1, <2>2
  <2>5. d \in ContactRec
    BY <1>3, <2>1, <2>3, <2>4 DEF ContactRec
  <2> QED BY <1>2, <2>1, <2>5 DEF Within
<1>5. CASE state.dataname \in Client
  <2>1. /\ d.main = c.main /\ d.ignore = c.ignore /\ d.data = c.data
        /\ d.name = IF c.name = 0 /\ HasName(state.dataname, state.data)
                    THEN -(Len(c.im) + 1) ELSE c.name
        /\ d.im = Append(c.im, [client |-> state.dataname,
                                lines |-> ReadByClient(state.data)])
        /\ d = [main |-> d.main, name |-> d.name, ignore |-> d.ignore,
                im |-> d.im, data |-> d.data]
    BY <1>5, GivenClient
  <2>2. ReadByClient(state.data) \subseteq state.data
    BY DEF ReadByClient
  <2>3. [client |-> state.dataname, lines |-> ReadByClient(state.data)]
            \in [client : Client, lines : SUBSET (1 .. MaxLines)]
    BY <1>2, <1>5, <2>2
  <2> DEFINE T == [client : Client, lines : SUBSET (1 .. MaxLines)]
             r == [client |-> state.dataname, lines |-> ReadByClient(state.data)]
  <2>4. r \in T /\ c.im \in Seq(T) /\ d.im = Append(c.im, r)
    BY <1>3, <2>1, <2>3
  <2>5. r.lines \subseteq DOMAIN lines
    BY <1>2, <2>2
  <2> HIDE DEF T, r
  <2>6. /\ d.im \in Seq(T) /\ Len(c.im) \in Nat
        /\ \A k \in DOMAIN d.im : d.im[k] = r \/ (k \in DOMAIN c.im /\ d.im[k] = c.im[k])
    BY <2>4
  <2>7. d.name \in Int
    BY <1>3, <2>1, <2>6
  <2>8. d \in ContactRec
    BY <1>3, <2>1, <2>6, <2>7 DEF ContactRec, T
  <2> QED BY <2>1, <2>5, <2>6, <2>8 DEF Within
<1>6. CASE state.dataname # Main /\ state.dataname \notin Client
  <2>1. /\ d.main = c.main /\ d.name = c.name /\ d.ignore = c.ignore /\ d.im = c.im
        /\ d.data = IF state.dataname \in DataName
                    THEN c.data \cup ({state.dataname} \X state.data) ELSE c.data
        /\ d = [main |-> d.main, name |-> d.name, ignore |-> d.ignore,
                im |-> d.im, data |-> d.data]
    BY <1>6, GivenElse
  <2>2. state.dataname \in DataName =>
            {state.dataname} \X state.data \subseteq DataName \X (1 .. MaxLines)
    BY <1>2
  <2>3. d.data \subseteq DataName \X (1 .. MaxLines)
    BY <1>3, <2>1, <2>2
  <2>4. d \in ContactRec
    BY <1>3, <2>1, <2>3 DEF ContactRec
  <2> QED BY <2>1, <2>4 DEF Within
<1> QED BY <1>4, <1>5, <1>6

-----------------------------------------------------------------------------
(* What a contact was given is what the file says, line by line. *)

\* The contact the lines in the parser's hands belong to.
Hears(h, id) == h # 0 /\ Header(h, "contact", id)
Given(c, h, id) == IF Hears(h, id) THEN GivenContact(c) ELSE c

\* A contact's IM contacts are those of its sections.
MadeOf(c, id) ==
    /\ Len(c.im) = Cardinality(ClientSections(id))
    /\ \A hs \in ClientSections(id) : \E k \in DOMAIN c.im :
           c.im[k] = [client |-> lines[hs[2]].name, lines |-> SectionLines(hs[1], hs[2])]

\* The name and the flag follow the last line, or the first IM contact.
GoesBy(c) ==
    /\ IF NamedIn(c.main) # {}
       THEN c.name \in NamedIn(c.main) /\ \A n \in NamedIn(c.main) : n <= c.name
       ELSE IF NamingIn(c.im) # {}
            THEN -c.name \in NamingIn(c.im) /\ \A k \in NamingIn(c.im) : -c.name <= k
            ELSE c.name = 0
    /\ c.ignore <=> \E n \in FlaggedIn(c.main) :
           KeyOf(n) = "ignored" /\ \A m \in FlaggedIn(c.main) : m <= n

\* The section the parser is in, when it ends.
LEMMA Section ==
    ASSUME Lines, NEW h \in 0 .. Len(lines), NEW q \in 0 .. Len(lines), At(h, q),
           StateTyped
    PROVE  /\ q = h => state.dataname = Main
           /\ q # h => /\ state.dataname \in SectionName /\ state.dataname # Main
                       /\ q \in 1 .. Len(lines) /\ lines[q].name = state.dataname
<1>1. q # h => q \in 1 .. Len(lines)
  BY DEF At, Lines
<1>2. q # h => lines[q] \in Line
  BY <1>1 DEF Lines
<1>3. q # h => lines[q] = [kind |-> "section", name |-> state.dataname]
  BY DEF At
<1>4. q # h => state.dataname \in SectionName
  BY <1>2, <1>3 DEF Line
<1> QED BY <1>1, <1>3, <1>4, MainIsNoName DEF At, SectionName

LEMMA MainStep ==
    ASSUME Lines, NEW h \in 0 .. Len(lines), NEW q \in 0 .. Len(lines), At(h, q),
           NEW x \in Line, x.kind # "line", lines' = Append(lines, x), StateTyped,
           NEW id, NEW c \in ContactRec, c.main = MainLines(id),
           NEW d, d = Given(c, h, id)
    PROVE  d.main = MainLines(id)'
<1>1. MainLines(id)' = MainLines(id) \cup
          (IF q = h /\ Hears(h, id) THEN state.data ELSE {})
  BY MainBreak DEF Hears
<1>2. /\ q = h => state.dataname = Main
      /\ q # h => state.dataname # Main
  BY Section
<1>3. CASE ~Hears(h, id)
  BY <1>1, <1>3 DEF Given
<1>4. CASE Hears(h, id) /\ q = h
  BY <1>1, <1>2, <1>4, GivenMain DEF Given
<1>5. CASE Hears(h, id) /\ q # h
  <2>1. d.main = c.main
    BY <1>2, <1>5, GivenClient, GivenElse DEF Given
  <2> QED BY <1>1, <1>5, <2>1
<1> QED BY <1>3, <1>4, <1>5

LEMMA MadeOfStep ==
    ASSUME Lines, NEW h \in 0 .. Len(lines), NEW q \in 0 .. Len(lines), At(h, q),
           NEW x \in Line, x.kind # "line", lines' = Append(lines, x), StateTyped,
           NEW id, NEW c \in ContactRec, MadeOf(c, id),
           NEW d, d = Given(c, h, id)
    PROVE  MadeOf(d, id)'
<1> DEFINE New == q # h /\ Hears(h, id) /\ state.dataname \in Client
<1>1. /\ ClientSections(id)' = ClientSections(id) \cup (IF New THEN {<<h, q>>} ELSE {})
      /\ <<h, q>> \notin ClientSections(id)
  BY SectionsBreak DEF Hears
<1>2. /\ q = h => state.dataname = Main
      /\ q # h => /\ state.dataname # Main
                  /\ q \in 1 .. Len(lines) /\ lines[q].name = state.dataname
  BY Section
<1>3. /\ \A n \in 1 .. Len(lines) : lines'[n] = lines[n]
      /\ DOMAIN lines = 1 .. Len(lines)
  BY Appended
<1>4. ASSUME NEW hs \in ClientSections(id)
      PROVE  /\ lines'[hs[2]].name = lines[hs[2]].name
             /\ SectionLines(hs[1], hs[2])' = SectionLines(hs[1], hs[2])
  <2>1. hs = <<hs[1], hs[2]>> /\ IsSection(id, hs[1], hs[2])
    BY SectionsAre
  <2>2. PICK a, b : a = hs[1] /\ b = hs[2]
    OBVIOUS
  <2>3. IsSection(id, a, b) /\ b \in 1 .. Len(lines)
    BY <2>1, <2>2 DEF IsSection
  <2>4. SectionLines(a, b)' = SectionLines(a, b)
    BY <2>3, SectionLinesStay
  <2> QED BY <1>3, <2>2, <2>3, <2>4
<1>5. CASE ~New
  <2>1. d.im = c.im
    BY <1>2, <1>5, GivenMain, GivenElse DEF Given
  <2>2. ClientSections(id)' = ClientSections(id)
    BY <1>1, <1>5
  <2> QED BY <1>4, <2>1, <2>2 DEF MadeOf
<1>6. CASE New
  <2> DEFINE r == [client |-> state.dataname, lines |-> ReadByClient(state.data)]
  <2>1. /\ d.im = Append(c.im, r)
        /\ c.im \in Seq([client : Client, lines : SUBSET (1 .. MaxLines)])
    BY <1>6, GivenClient DEF Given, ContactRec
  <2>2. ClientSections(id)' = ClientSections(id) \cup {<<h, q>>}
    BY <1>1, <1>6
  <2>3. Cardinality(ClientSections(id)') = Cardinality(ClientSections(id)) + 1
    BY <1>1, <2>2, SectionsFinite, FS_AddElement
  <2>4. r = [client |-> lines'[q].name, lines |-> SectionLines(h, q)']
    <3>1. SectionLines(h, q)' = ReadByClient(state.data)
      BY <1>6, SectionLinesNew DEF Hears
    <3>2. lines'[q].name = state.dataname
      BY <1>2, <1>3, <1>6
    <3> QED BY <3>1, <3>2
  <2> HIDE DEF r, New
  <2>5. /\ Len(d.im) = Len(c.im) + 1 /\ d.im[Len(c.im) + 1] = r
        /\ Len(c.im) \in Nat /\ Len(c.im) + 1 \in DOMAIN d.im
        /\ \A k \in DOMAIN c.im : k \in DOMAIN d.im /\ d.im[k] = c.im[k]
    BY <2>1
  <2>6. ASSUME NEW hs \in ClientSections(id)'
        PROVE  \E k \in DOMAIN d.im :
                   d.im[k] = [client |-> lines'[hs[2]].name,
                              lines |-> SectionLines(hs[1], hs[2])']
    <3>1. CASE hs \in ClientSections(id)
      <4>1. PICK k \in DOMAIN c.im :
                c.im[k] = [client |-> lines[hs[2]].name,
                           lines |-> SectionLines(hs[1], hs[2])]
        BY <3>1 DEF MadeOf
      <4>2. /\ lines'[hs[2]].name = lines[hs[2]].name
            /\ SectionLines(hs[1], hs[2])' = SectionLines(hs[1], hs[2])
        BY <1>4, <3>1
      <4> QED BY <2>5, <4>1, <4>2
    <3>2. CASE hs = <<h, q>>
      <4>1. hs[1] = h /\ hs[2] = q
        BY <3>2
      <4>2. SectionLines(hs[1], hs[2])' = SectionLines(h, q)'
        BY <4>1 DEF SectionLines, OnlyData, KeyOf
      <4> QED BY <2>4, <2>5, <4>1, <4>2
    <3> QED BY <2>2, <3>1, <3>2
  <2>7. Len(d.im) = Cardinality(ClientSections(id)')
    BY <2>3, <2>5 DEF MadeOf
  <2> QED BY <2>6, <2>7 DEF MadeOf
<1> QED BY <1>5, <1>6

\* Where no header is, nothing is said.
LEMMA Unheard ==
    ASSUME Lines, NEW h \in 0 .. Len(lines), NEW q \in 0 .. Len(lines), At(h, q),
           NEW x \in Line, x.kind # "line", lines' = Append(lines, x), NEW id,
           \A n \in DOMAIN lines : ~Header(n, "contact", id)
    PROVE  MainLines(id)' = {} /\ MadeOf(NewContact, id)'
<1>1. /\ MainLines(id)' = MainLines(id) \cup
             (IF q = h /\ h # 0 /\ Header(h, "contact", id) THEN state.data ELSE {})
      /\ ClientSections(id)' = ClientSections(id) \cup
                (IF q # h /\ h # 0 /\ Header(h, "contact", id)
                         /\ state.dataname \in Client
                 THEN {<<h, q>>} ELSE {})
  BY MainBreak, SectionsBreak
<1>2. PICK N \in Nat : N = Len(lines) /\ DOMAIN lines = 1 .. N
  BY DEF Lines
<1>3. ~(h # 0 /\ Header(h, "contact", id))
  BY <1>2
<1>4. MainLines(id) = {}
  BY <1>2 DEF MainLines
<1>5. ClientSections(id) = {}
  BY DEF ClientSections
<1>6. MainLines(id)' = {} /\ ClientSections(id)' = {}
  BY <1>1, <1>3, <1>4, <1>5
<1>7. Cardinality({}) = 0 /\ Len(NewContact.im) = 0
  BY FS_EmptySet DEF NewContact
<1> QED BY <1>6, <1>7 DEF MadeOf

\* What a line was is not changed by those that follow.
LEMMA KeysStay ==
    ASSUME Lines, NEW x \in Line, lines' = Append(lines, x)
    PROVE  /\ \A n \in DOMAIN lines : KeyOf(n)' = KeyOf(n)
           /\ \A c : Within(c) => Within(c)' /\ (GoesBy(c)' <=> GoesBy(c))
<1>1. /\ DOMAIN lines \subseteq DOMAIN lines'
      /\ \A n \in DOMAIN lines : KeyOf(n)' = KeyOf(n)
  BY Appended DEF KeyOf
<1>2. ASSUME NEW c, Within(c) PROVE Within(c)' /\ (GoesBy(c)' <=> GoesBy(c))
  <2>1. NamedIn(c.main)' = NamedIn(c.main)
    BY <1>1, <1>2 DEF NamedIn, Within
  <2>2. /\ FlaggedIn(c.main)' = FlaggedIn(c.main)
        /\ FlaggedIn(c.main) \subseteq DOMAIN lines
    BY <1>1, <1>2 DEF FlaggedIn, Within
  <2>3. NamingIn(c.im)' = NamingIn(c.im)
    BY <1>1, <1>2 DEF NamingIn, Within
  <2>4. Within(c)'
    BY <1>1, <1>2 DEF Within
  <2> QED BY <1>1, <2>1, <2>2, <2>3, <2>4 DEF GoesBy
<1> QED BY <1>1, <1>2

LEMMA GoesByMain ==
    ASSUME Lines, NEW h \in 0 .. Len(lines), At(h, h), StateTyped,
           NEW id, NEW c \in ContactRec, c.main = MainLines(id), GoesBy(c),
           NEW d, d = GivenContact(c)
    PROVE  GoesBy(d)
<1> DEFINE D == state.data
<1>1. PICK N \in Nat : N = Len(lines) /\ DOMAIN lines = 1 .. N
  BY DEF Lines
<1>2. /\ d.main = c.main \cup D
      /\ d.name = IF NamedIn(D) = {} THEN c.name ELSE Last(NamedIn(D))
      /\ d.ignore = IF FlaggedIn(D) = {} THEN c.ignore
                    ELSE KeyOf(Last(FlaggedIn(D))) = "ignored"
      /\ d.im = c.im
  BY GivenMain DEF At
<1>3. h \in Nat /\ \A n \in 1 .. N : lines[n].kind # "line" => n <= h
  BY <1>1, AtBreaks
<1>4. D \subseteq 1 .. N /\ \A n \in D : n > h
  BY <1>1, <1>3 DEF At
<1>5. c.main \subseteq 1 .. N /\ \A n \in c.main : n < h
  <2> SUFFICES ASSUME NEW n \in c.main PROVE n \in 1 .. N /\ n < h
    OBVIOUS
  <2>1. n \in 1 .. N /\ Ended(n)
    BY <1>1 DEF MainLines
  <2>2. PICK e \in n + 1 .. N : lines[e].kind # "line"
    BY <1>1, <2>1 DEF Ended
  <2> QED BY <1>3, <2>1, <2>2
<1>6. D \subseteq Nat /\ c.main \subseteq Nat
  <2>1. 1 .. N \subseteq Nat
    OBVIOUS
  <2> QED BY <1>4, <1>5, <2>1
<1>7. \A n \in c.main, m \in D : n < m
  <2>1. \A n \in c.main, m \in D : n \in Nat /\ m \in Nat /\ n < h /\ h < m
    BY <1>4, <1>5
  <2> QED BY <1>3, <2>1
<1> HIDE DEF D
<1>8. /\ NamedIn(d.main) = NamedIn(c.main) \cup NamedIn(D)
      /\ FlaggedIn(d.main) = FlaggedIn(c.main) \cup FlaggedIn(D)
      /\ NamedIn(c.main) \subseteq c.main /\ FlaggedIn(c.main) \subseteq c.main
      /\ NamedIn(D) \subseteq D /\ FlaggedIn(D) \subseteq D
  BY <1>2 DEF NamedIn, FlaggedIn
<1>9. /\ NamedIn(D) # {} => /\ Last(NamedIn(D)) \in NamedIn(D)
                            /\ \A m \in NamedIn(D) : m <= Last(NamedIn(D))
      /\ FlaggedIn(D) # {} => /\ Last(FlaggedIn(D)) \in FlaggedIn(D)
                              /\ \A m \in FlaggedIn(D) : m <= Last(FlaggedIn(D))
  <2>1. NamedIn(D) \in SUBSET (1 .. N) /\ FlaggedIn(D) \in SUBSET (1 .. N)
    BY <1>4, <1>8
  <2> QED BY <2>1, LastIs
<1>10. IF NamedIn(d.main) # {}
      THEN d.name \in NamedIn(d.main) /\ \A n \in NamedIn(d.main) : n <= d.name
      ELSE IF NamingIn(d.im) # {}
           THEN -d.name \in NamingIn(d.im) /\ \A k \in NamingIn(d.im) : -d.name <= k
           ELSE d.name = 0
  <2>1. CASE NamedIn(D) = {}
    BY <1>2, <1>8, <2>1 DEF GoesBy
  <2>2. CASE NamedIn(D) # {}
    <3>1. d.name \in NamedIn(D) /\ \A m \in NamedIn(D) : m <= d.name
      BY <1>2, <1>9, <2>2
    <3>2. \A n \in NamedIn(c.main) : n <= d.name
      <4>1. \A n \in NamedIn(c.main) : n \in Nat /\ n < d.name
        BY <1>5, <1>7, <1>8, <3>1
      <4>2. d.name \in Nat
        BY <1>6, <1>8, <3>1
      <4> QED BY <4>1, <4>2
    <3> QED BY <1>8, <3>1, <3>2
  <2> QED BY <2>1, <2>2
<1>11. d.ignore <=> \E n \in FlaggedIn(d.main) :
           KeyOf(n) = "ignored" /\ \A m \in FlaggedIn(d.main) : m <= n
  <2>1. CASE FlaggedIn(D) = {}
    <3>1. d.ignore = c.ignore /\ FlaggedIn(d.main) = FlaggedIn(c.main)
      BY <1>2, <1>8, <2>1
    <3> QED BY <3>1 DEF GoesBy
  <2>2. CASE FlaggedIn(D) # {}
    <3> DEFINE l == Last(FlaggedIn(D))
    <3>1. l \in FlaggedIn(D) /\ \A m \in FlaggedIn(D) : m <= l
      BY <1>9, <2>2
    <3>2. l \in Nat /\ FlaggedIn(d.main) \subseteq Nat
      BY <1>6, <1>8, <3>1
    <3>3. \A n \in FlaggedIn(c.main) : n < l
      BY <1>7, <1>8, <3>1
    <3>4. d.ignore <=> KeyOf(l) = "ignored"
      BY <1>2, <2>2, Zenon
    <3> HIDE DEF l
    <3>5. \A n \in FlaggedIn(d.main) : n <= l
      BY <1>8, <3>1, <3>2, <3>3
    <3>6. \A n \in FlaggedIn(d.main) : (\A m \in FlaggedIn(d.main) : m <= n) => n = l
      <4>1. l \in FlaggedIn(d.main)
        BY <1>8, <3>1
      <4>2. \A n \in FlaggedIn(d.main) : l <= n => n = l
        BY <3>2, <3>5
      <4> QED BY <4>1, <4>2
    <3> QED BY <1>8, <3>1, <3>4, <3>5, <3>6
  <2> QED BY <2>1, <2>2
<1> QED BY <1>10, <1>11 DEF GoesBy

LEMMA GoesByClient ==
    ASSUME StateTyped, state.dataname \in Client, Lines,
           NEW c \in ContactRec, Within(c), GoesBy(c), NEW d, d = GivenContact(c)
    PROVE  GoesBy(d)
<1> DEFINE r == [client |-> state.dataname, lines |-> ReadByClient(state.data)]
           T == [client : Client, lines : SUBSET (1 .. MaxLines)]
<1>1. /\ d.main = c.main /\ d.ignore = c.ignore
      /\ d.name = IF c.name = 0 /\ HasName(state.dataname, state.data)
                  THEN -(Len(c.im) + 1) ELSE c.name
      /\ d.im = Append(c.im, r)
  BY GivenClient
<1>2. c.im \in Seq(T) /\ c.name \in Int
  BY DEF ContactRec
<1>3. HasName(state.dataname, state.data) <=>
          r.client \in Numbered \/ \E n \in r.lines : KeyOf(n) = "nick"
  BY DEF HasName
<1> HIDE DEF r, T
<1>4. PICK L \in Nat : L = Len(c.im) /\ DOMAIN c.im = 1 .. L
  BY <1>2
<1>5. /\ DOMAIN d.im = 1 .. L + 1 /\ d.im[L + 1] = r
      /\ \A k \in 1 .. L : d.im[k] = c.im[k]
  BY <1>1, <1>2, <1>4
<1>6. NamingIn(d.im) = NamingIn(c.im) \cup
          (IF HasName(state.dataname, state.data) THEN {L + 1} ELSE {})
  <2>1. \A k \in 1 .. L + 1 : k = L + 1 \/ k \in 1 .. L
    BY <1>4
  <2>2. \A k \in 1 .. L : k \in NamingIn(d.im) <=> k \in NamingIn(c.im)
    BY <1>4, <1>5 DEF NamingIn
  <2>3. L + 1 \in NamingIn(d.im) <=> HasName(state.dataname, state.data)
    BY <1>3, <1>4, <1>5 DEF NamingIn
  <2>4. NamingIn(d.im) \subseteq 1 .. L + 1 /\ NamingIn(c.im) \subseteq 1 .. L
    BY <1>4, <1>5 DEF NamingIn
  <2> QED BY <1>4, <2>1, <2>2, <2>3, <2>4
<1>7. NamingIn(c.im) \subseteq 1 .. L
  BY <1>4 DEF NamingIn
<1>8. IF NamedIn(d.main) # {}
      THEN d.name \in NamedIn(d.main) /\ \A n \in NamedIn(d.main) : n <= d.name
      ELSE IF NamingIn(d.im) # {}
           THEN -d.name \in NamingIn(d.im) /\ \A k \in NamingIn(d.im) : -d.name <= k
           ELSE d.name = 0
  <2>1. CASE NamedIn(c.main) # {}
    <3>1. c.name \in NamedIn(c.main) /\ \A n \in NamedIn(c.main) : n <= c.name
      BY <2>1 DEF GoesBy
    <3>2. c.name # 0
      BY <3>1 DEF NamedIn, ContactRec
    <3> QED BY <1>1, <2>1, <3>1, <3>2
  <2>2. CASE NamedIn(c.main) = {} /\ NamingIn(c.im) # {}
    <3>1. -c.name \in NamingIn(c.im) /\ \A k \in NamingIn(c.im) : -c.name <= k
      BY <2>2 DEF GoesBy
    <3>2. c.name # 0 /\ -c.name <= L
      BY <1>2, <1>7, <3>1
    <3>3. d.name = c.name
      BY <1>1, <3>2
    <3>4. -d.name \in NamingIn(d.im) /\ \A k \in NamingIn(d.im) : -d.name <= k
      BY <1>2, <1>6, <3>1, <3>2, <3>3
    <3> QED BY <1>1, <2>2, <3>4
  <2>3. CASE NamedIn(c.main) = {} /\ NamingIn(c.im) = {}
    <3>1. c.name = 0
      BY <2>3 DEF GoesBy
    <3>2. CASE HasName(state.dataname, state.data)
      <4>1. NamingIn(d.im) = {L + 1} /\ -d.name = L + 1
        BY <1>1, <1>4, <1>6, <2>3, <3>1, <3>2
      <4> QED BY <1>1, <1>4, <2>3, <4>1
    <3>3. CASE ~HasName(state.dataname, state.data)
      BY <1>1, <1>6, <2>3, <3>1, <3>3
    <3> QED BY <3>2, <3>3
  <2> QED BY <2>1, <2>2, <2>3
<1>9. d.ignore <=> \E n \in FlaggedIn(d.main) :
          KeyOf(n) = "ignored" /\ \A m \in FlaggedIn(d.main) : m <= n
  BY <1>1 DEF GoesBy
<1> QED BY <1>8, <1>9 DEF GoesBy

LEMMA GoesByStep ==
    ASSUME Lines, Len(lines) <= MaxLines,
           NEW h \in 0 .. Len(lines), NEW q \in 0 .. Len(lines), At(h, q),
           NEW x \in Line, lines' = Append(lines, x), StateTyped,
           NEW id, NEW c \in ContactRec, c.main = MainLines(id), Within(c), GoesBy(c),
           NEW d, d = Given(c, h, id)
    PROVE  d \in ContactRec /\ Within(d)' /\ GoesBy(d)'
<1>1. CASE ~Hears(h, id)
  BY <1>1, KeysStay DEF Given
<1>2. CASE Hears(h, id)
  <2>1. d = GivenContact(c)
    BY <1>2 DEF Given
  <2>2. d \in ContactRec /\ Within(d)
    BY <2>1, GivenTyped
  <2>3. GoesBy(d)
    <3>1. CASE q = h
      BY <2>1, <3>1, GoesByMain
    <3>2. CASE q # h /\ state.dataname \in Client
      BY <2>1, <3>2, GoesByClient
    <3>3. CASE q # h /\ state.dataname \notin Client
      <4>1. d.main = c.main /\ d.name = c.name /\ d.ignore = c.ignore /\ d.im = c.im
        BY <2>1, <3>3, Section, GivenElse
      <4> QED BY <4>1 DEF GoesBy
    <3> QED BY <3>1, <3>2, <3>3
  <2> QED BY <2>2, <2>3, KeysStay
<1> QED BY <1>1, <1>2

-----------------------------------------------------------------------------
(* The invariant. *)

Types ==
    /\ phase \in {"start", "new", "old", "reading", "loaded", "failed", "died"}
    /\ entries \in Seq([kind : {"contact", "group"}, id : Id])
    /\ Lines /\ Len(lines) <= MaxLines
    /\ StateTyped
    /\ DOMAIN contacts \subseteq Id /\ contacts \in [DOMAIN contacts -> ContactRec]
    /\ DOMAIN groups \subseteq Id /\ groups \in [DOMAIN groups -> GroupRec]

\* contacts.conf is read only when load_new failed ...
Phases == lines # <<>> => phase \in {"reading", "loaded"}

\* ... and what is there then comes from its headers alone.
HeadersOf(kind) ==
    {id \in Id : id > 0 /\ \E n \in DOMAIN lines : Header(n, kind, id)}
Listed ==
    phase \in {"start", "old", "reading"} \/ lines # <<>> =>
        /\ DOMAIN contacts = HeadersOf("contact")
        /\ DOMAIN groups = HeadersOf("group")

Told(c, id) == c.main = MainLines(id) /\ MadeOf(c, id) /\ Within(c) /\ GoesBy(c)
ContactsTold == lines # <<>> => \A id \in DOMAIN contacts : Told(contacts[id], id)

IInv == Types /\ Phases /\ Listed /\ Positioned /\ ContactsTold

LEMMA HeaderLine ==
    ASSUME Lines, NEW x \in Line, lines' = Append(lines, x),
           NEW kind \in {"contact", "group"}
    PROVE  HeadersOf(kind)' = HeadersOf(kind) \cup
               (IF x.kind = kind /\ x.id > 0 THEN {x.id} ELSE {})
<1>1. PICK N \in Nat : N = Len(lines) /\ DOMAIN lines = 1 .. N
  BY DEF Lines
<1>2. /\ DOMAIN lines' = 1 .. N + 1 /\ lines'[N + 1] = x
      /\ \A n \in 1 .. N : lines'[n] = lines[n]
  BY <1>1, Appended
<1>3. \A id : Header(N + 1, kind, id)' <=> x.kind = kind /\ x.id = id
  <2>1. x.kind = kind => x = [kind |-> kind, id |-> x.id]
    BY LineKinds
  <2> QED BY <1>2, <2>1 DEF Header
<1>4. \A id : \A n \in 1 .. N : Header(n, kind, id)' <=> Header(n, kind, id)
  BY <1>2 DEF Header
<1>5. \A n \in 1 .. N + 1 : n \in 1 .. N \/ n = N + 1
  BY <1>1
<1>6. \A n \in 1 .. N : n \in 1 .. N + 1
  BY <1>1
<1>7. N + 1 \in 1 .. N + 1
  BY <1>1
<1>8. \A id : (\E n \in DOMAIN lines' : Header(n, kind, id)') <=>
              \/ \E n \in DOMAIN lines : Header(n, kind, id)
              \/ x.kind = kind /\ x.id = id
  <2> SUFFICES ASSUME NEW id
               PROVE  (\E n \in 1 .. N + 1 : Header(n, kind, id)') <=>
                      (\E n \in 1 .. N : Header(n, kind, id))
                          \/ (x.kind = kind /\ x.id = id)
    BY <1>1, <1>2
  <2>1. (\E n \in 1 .. N + 1 : Header(n, kind, id)') <=>
            (\E n \in 1 .. N : Header(n, kind, id)') \/ Header(N + 1, kind, id)'
    BY <1>5, <1>6, <1>7
  <2> QED BY <1>3, <1>4, <2>1
<1>9. x.kind = kind => x.id \in Id
  BY LineKinds
<1> QED BY <1>8, <1>9 DEF HeadersOf

LEMMA NewTyped == NewContact \in ContactRec /\ NewGroup \in GroupRec
BY DEF NewContact, NewGroup, ContactRec, GroupRec

\* Before anything is told about it, a contact is told nothing.
LEMMA NewSays == GoesBy(NewContact) /\ Within(NewContact)
BY DEF GoesBy, Within, NewContact, NamedIn, FlaggedIn, NamingIn

LEMMA GroupsTyped ==
    ASSUME Types
    PROVE  /\ DOMAIN DispatchedGroups = DOMAIN groups
           /\ DispatchedGroups \in [DOMAIN groups -> GroupRec]
<1>1. ASSUME NEW g \in GroupRec PROVE GivenGroup(g) \in GroupRec
  <2>1. /\ g.im \in Seq(Client) /\ g.data \subseteq DataName \X (1 .. MaxLines)
        /\ g = [im |-> g.im, data |-> g.data]
    BY DEF GroupRec
  <2>2. state.data \subseteq 1 .. MaxLines
    <3>1. state.data \subseteq 1 .. Len(lines) /\ Len(lines) \in Nat
      BY DEF Types, StateTyped, Lines
    <3> QED BY <3>1, ContactFileAssumption DEF Types
  <2>3. CASE state.dataname \in Client
    <3>1. GivenGroup(g) = [g EXCEPT !.im = Append(@, state.dataname)]
      BY <2>3, ContactFileAssumption DEF GivenGroup
    <3>2. Append(g.im, state.dataname) \in Seq(Client)
      BY <2>1, <2>3
    <3> QED BY <2>1, <3>1, <3>2 DEF GroupRec
  <2>4. CASE state.dataname \notin Client /\ state.dataname \in DataName
    <3>1. GivenGroup(g) = WithData(g, state.dataname, state.data)
      BY <2>4 DEF GivenGroup
    <3>2. {state.dataname} \X state.data \subseteq DataName \X (1 .. MaxLines)
      BY <2>2, <2>4
    <3>3. g.data \cup ({state.dataname} \X state.data)
              \subseteq DataName \X (1 .. MaxLines)
      BY <2>1, <3>2
    <3> QED BY <2>1, <3>1, <3>3 DEF GroupRec, WithData
  <2>5. CASE state.dataname \notin Client /\ state.dataname \notin DataName
    BY <2>5 DEF GivenGroup
  <2> QED BY <2>3, <2>4, <2>5
<1> QED BY <1>1 DEF Types, DispatchedGroups

\* The one the lines belong to takes them.
LEMMA Dispatched ==
    ASSUME Types, NEW h \in 0 .. Len(lines), NEW q \in 0 .. Len(lines), At(h, q),
           DOMAIN contacts = HeadersOf("contact")
    PROVE  /\ DispatchedContacts = [id \in DOMAIN contacts |-> DispatchedContacts[id]]
           /\ DOMAIN DispatchedContacts = DOMAIN contacts
           /\ \A id \in DOMAIN contacts :
                  DispatchedContacts[id] = Given(contacts[id], h, id)
<1>1. ASSUME NEW id \in DOMAIN contacts
      PROVE  state.contactId = id <=> Hears(h, id)
  <2>1. id \in Int /\ id > 0 /\ \E n \in DOMAIN lines : Header(n, "contact", id)
    BY ContactFileAssumption DEF HeadersOf
  <2>2. PICK n \in 1 .. Len(lines) : Header(n, "contact", id)
    BY <2>1 DEF Types, Lines
  <2>3. n <= h /\ h \in Nat
    BY <2>2, AtBreaks DEF Types, Header
  <2>4. h # 0
    BY <2>2, <2>3
  <2>5. CASE lines[h] = [kind |-> "contact", id |-> state.contactId]
    BY <2>4, <2>5 DEF Hears, Header
  <2>6. CASE lines[h] = [kind |-> "group", id |-> state.groupId] /\ state.contactId = -1
    BY <2>1, <2>6 DEF Hears, Header
  <2> QED BY <2>4, <2>5, <2>6 DEF At
<1>2. \A id \in DOMAIN contacts : id > 0 /\ id \in Int
  BY ContactFileAssumption DEF HeadersOf
<1>3. contacts \in [DOMAIN contacts -> ContactRec]
  BY DEF Types
<1>4. CASE state.contactId # -1 /\ state.contactId \in DOMAIN contacts
  <2>1. DispatchedContacts = [contacts EXCEPT ![state.contactId] = GivenContact(@)]
    BY <1>4 DEF DispatchedContacts
  <2>2. \A id \in DOMAIN contacts : DispatchedContacts[id] =
            IF id = state.contactId THEN GivenContact(contacts[id]) ELSE contacts[id]
    BY <1>3, <1>4, <2>1
  <2>3. /\ DOMAIN DispatchedContacts = DOMAIN contacts
        /\ DispatchedContacts = [id \in DOMAIN contacts |-> DispatchedContacts[id]]
    BY <2>1
  <2> QED BY <1>1, <2>2, <2>3 DEF Given
<1>5. CASE ~(state.contactId # -1 /\ state.contactId \in DOMAIN contacts)
  <2>1. DispatchedContacts = contacts
    BY <1>5 DEF DispatchedContacts
  <2>2. \A id \in DOMAIN contacts : state.contactId # id
    BY <1>2, <1>5
  <2> QED BY <1>1, <1>3, <2>1, <2>2 DEF Given
<1> QED BY <1>4, <1>5

\* A header or a section begins: every contact there is then was told what the
\* file says of it.
LEMMA BreakStep ==
    ASSUME IInv, phase = "reading", NEW x \in Line, x.kind # "line",
           lines' = Append(lines, x),
           \A id \in DOMAIN contacts' :
               contacts'[id] = IF id \in DOMAIN contacts THEN DispatchedContacts[id]
                               ELSE NewContact,
           DOMAIN contacts' \subseteq {id \in Id : id > 0}
    PROVE  \A id \in DOMAIN contacts' :
               contacts'[id] \in ContactRec /\ Told(contacts[id], id)'
<1> SUFFICES ASSUME NEW id \in DOMAIN contacts'
             PROVE  contacts'[id] \in ContactRec /\ Told(contacts[id], id)'
  OBVIOUS
<1>1. PICK h, q \in 0 .. Len(lines) : At(h, q)
  BY DEF IInv, Positioned
<1>2. Types /\ Lines /\ Len(lines) <= MaxLines /\ StateTyped
  BY DEF IInv, Types
<1>3. DOMAIN contacts = HeadersOf("contact")
  BY DEF IInv, Listed
<1>4. PICK d : d = contacts'[id]
  OBVIOUS
<1>5. /\ d \in ContactRec /\ d.main = MainLines(id)'
      /\ MadeOf(d, id)' /\ Within(d)' /\ GoesBy(d)'
  <2>1. CASE id \in DOMAIN contacts
    <3>1. PICK c : c = contacts[id]
      OBVIOUS
    <3>2. d = Given(c, h, id)
      BY <1>1, <1>2, <1>3, <1>4, <2>1, <3>1, Dispatched
    <3>3. c \in ContactRec
      BY <1>2, <2>1, <3>1 DEF Types
    <3>4. lines # <<>>
      BY <1>3, <2>1 DEF HeadersOf
    <3>5. c.main = MainLines(id) /\ MadeOf(c, id) /\ Within(c) /\ GoesBy(c)
      BY <2>1, <3>1, <3>4 DEF IInv, ContactsTold, Told
    <3>6. d.main = MainLines(id)'
      BY <1>1, <1>2, <3>2, <3>3, <3>5, MainStep
    <3>7. MadeOf(d, id)'
      BY <1>1, <1>2, <3>2, <3>3, <3>5, MadeOfStep
    <3>8. d \in ContactRec /\ Within(d)' /\ GoesBy(d)'
      BY <1>1, <1>2, <3>2, <3>3, <3>5, GoesByStep
    <3> QED BY <3>6, <3>7, <3>8
  <2>2. CASE id \notin DOMAIN contacts
    <3>1. d = NewContact
      BY <1>4, <2>2
    <3>2. \A n \in DOMAIN lines : ~Header(n, "contact", id)
      BY <1>3, <2>2 DEF HeadersOf
    <3>3. MainLines(id)' = {} /\ MadeOf(NewContact, id)'
      BY <1>1, <1>2, <3>2, Unheard
    <3>4. Within(NewContact)' /\ GoesBy(NewContact)'
      BY <1>2, NewSays, KeysStay
    <3> QED BY <3>1, <3>3, <3>4, NewTyped DEF NewContact
  <2> QED BY <2>1, <2>2
<1>6. Told(d, id)'
  BY <1>5 DEF Told
<1> QED BY <1>4, <1>5, <1>6 DEF Told, MadeOf, Within, GoesBy

\* A line of data changes nothing but what the parser holds.
LEMMA LineStep ==
    ASSUME IInv, phase = "reading", NEW x \in Line, x.kind = "line",
           lines' = Append(lines, x), contacts' = contacts
    PROVE  ContactsTold'
<1> SUFFICES ASSUME NEW id \in DOMAIN contacts PROVE Told(contacts[id], id)'
  BY DEF ContactsTold
<1>1. Lines /\ DOMAIN contacts = HeadersOf("contact")
  BY DEF IInv, Types, Listed
<1>2. lines # <<>>
  BY <1>1 DEF HeadersOf
<1>3. PICK c : c = contacts[id]
  OBVIOUS
<1>4. c.main = MainLines(id) /\ MadeOf(c, id) /\ Within(c) /\ GoesBy(c)
  BY <1>2, <1>3 DEF IInv, ContactsTold, Told
<1>5. c.main = MainLines(id)'
  BY <1>1, <1>4, MainQuiet
<1>6. Within(c)' /\ GoesBy(c)'
  BY <1>1, <1>4, KeysStay
<1>7. MadeOf(c, id)'
  <2>1. ClientSections(id)' = ClientSections(id)
    BY <1>1, SectionsQuiet
  <2>2. ASSUME NEW hs \in ClientSections(id)
        PROVE  /\ lines'[hs[2]].name = lines[hs[2]].name
               /\ SectionLines(hs[1], hs[2])' = SectionLines(hs[1], hs[2])
    <3>1. hs = <<hs[1], hs[2]>> /\ IsSection(id, hs[1], hs[2])
      BY <1>1, SectionsAre
    <3>2. PICK a, b : a = hs[1] /\ b = hs[2]
      OBVIOUS
    <3>3. IsSection(id, a, b) /\ b \in 1 .. Len(lines)
      BY <3>1, <3>2 DEF IsSection
    <3>4. SectionLines(a, b)' = SectionLines(a, b)
      BY <1>1, <3>3, SectionLinesStay
    <3>5. lines'[b] = lines[b]
      BY <1>1, <3>3, Appended
    <3> QED BY <3>2, <3>4, <3>5
  <2> QED BY <1>4, <2>1, <2>2 DEF MadeOf
<1>8. contacts'[id] = c
  BY <1>3
<1> QED BY <1>5, <1>6, <1>7, <1>8 DEF Told, MadeOf, Within, GoesBy

\* The file and the parser after one more line.
LEMMA TakesTyped ==
    ASSUME IInv, NEW x \in Line, Takes(x)
    PROVE  /\ phase = "reading" /\ phase' = "reading" /\ lines' = Append(lines, x)
           /\ lines' # <<>> /\ Lines' /\ Len(lines') <= MaxLines
           /\ entries' \in Seq([kind : {"contact", "group"}, id : Id])
           /\ state.data \subseteq DOMAIN lines' /\ Len(lines) + 1 \in DOMAIN lines'
           /\ DOMAIN contacts = HeadersOf("contact") /\ DOMAIN groups = HeadersOf("group")
<1>1. /\ phase = "reading" /\ phase' = phase /\ lines' = Append(lines, x)
      /\ entries' = entries /\ Len(lines) < MaxLines
  BY DEF Takes
<1>2. Lines /\ StateTyped
  BY DEF IInv, Types
<1>3. /\ Len(lines) \in Nat /\ Len(lines') = Len(lines) + 1
      /\ DOMAIN lines = 1 .. Len(lines) /\ DOMAIN lines' = 1 .. Len(lines) + 1
      /\ Lines'
  BY <1>1, <1>2, Appended DEF Lines
<1>4. state.data \subseteq DOMAIN lines' /\ Len(lines) + 1 \in DOMAIN lines'
  BY <1>2, <1>3 DEF StateTyped
<1>5. Len(lines') <= MaxLines
  BY <1>1, <1>3, ContactFileAssumption
<1>6. lines' # <<>>
  BY <1>3
<1> QED BY <1>1, <1>3, <1>4, <1>5, <1>6 DEF IInv, Types, Listed

LEMMA HeaderStep ==
    ASSUME IInv, ReadGroup \/ ReadContact
    PROVE  IInv'
<1>1. PICK kind \in {"contact", "group"}, id \in Id :
        /\ Takes([kind |-> kind, id |-> id])
        /\ contacts' = IF kind = "contact" /\ id > 0
                       THEN AddTo(DispatchedContacts, id, NewContact)
                       ELSE DispatchedContacts
        /\ groups' = IF kind = "group" /\ id > 0
                     THEN AddTo(DispatchedGroups, id, NewGroup) ELSE DispatchedGroups
        /\ state' = IF kind = "contact" THEN HeaderState(id, -1) ELSE HeaderState(-1, id)
  BY DEF ReadGroup, ReadContact
<1> DEFINE x == [kind |-> kind, id |-> id]
<1>2. x \in Line /\ x.kind # "line" /\ x.kind = kind /\ x.id = id
  BY DEF Line
<1> HIDE DEF x
<1>3. /\ phase = "reading" /\ phase' = "reading" /\ lines' = Append(lines, x)
      /\ lines' # <<>> /\ Lines' /\ Len(lines') <= MaxLines
      /\ entries' \in Seq([kind : {"contact", "group"}, id : Id])
      /\ DOMAIN contacts = HeadersOf("contact") /\ DOMAIN groups = HeadersOf("group")
  BY <1>1, <1>2, TakesTyped DEF x
<1>4. Types /\ Lines
  BY DEF IInv, Types
<1>5. PICK h, q \in 0 .. Len(lines) : At(h, q)
  BY DEF IInv, Positioned
<1>6. /\ DispatchedContacts = [i \in DOMAIN contacts |-> DispatchedContacts[i]]
      /\ DOMAIN DispatchedContacts = DOMAIN contacts
      /\ \A i \in DOMAIN contacts : DispatchedContacts[i] = Given(contacts[i], h, i)
  BY <1>3, <1>4, <1>5, Dispatched
<1>7. /\ DOMAIN DispatchedGroups = DOMAIN groups
      /\ DispatchedGroups \in [DOMAIN groups -> GroupRec]
  BY <1>4, GroupsTyped
<1>8. /\ HeadersOf("contact")' = HeadersOf("contact") \cup
             (IF kind = "contact" /\ id > 0 THEN {id} ELSE {})
      /\ HeadersOf("group")' = HeadersOf("group") \cup
             (IF kind = "group" /\ id > 0 THEN {id} ELSE {})
  BY <1>2, <1>3, <1>4, HeaderLine
<1>9. DOMAIN contacts' = HeadersOf("contact")'
      /\ \A i \in DOMAIN contacts' : contacts'[i] =
             IF i \in DOMAIN contacts THEN DispatchedContacts[i] ELSE NewContact
  BY <1>1, <1>3, <1>6, <1>8 DEF AddTo
<1>10. /\ DOMAIN groups' = HeadersOf("group")'
       /\ groups' \in [DOMAIN groups' -> GroupRec]
  <2>1. CASE kind = "group" /\ id > 0
    <3>1. PICK list, r : list = DispatchedGroups /\ r = groups'
      OBVIOUS
    <3>2. /\ list \in [DOMAIN list -> GroupRec] /\ r = AddTo(list, id, NewGroup)
          /\ DOMAIN list = HeadersOf("group")
      BY <1>1, <1>3, <1>7, <2>1, <3>1
    <3>3. DOMAIN r = DOMAIN list \cup {id} /\ r \in [DOMAIN r -> GroupRec]
      BY <3>2, NewTyped DEF AddTo
    <3> QED BY <1>8, <2>1, <3>1, <3>2, <3>3
  <2>2. CASE ~(kind = "group" /\ id > 0)
    BY <1>1, <1>3, <1>7, <1>8, <2>2
  <2> QED BY <2>1, <2>2
<1>11. DOMAIN contacts' \subseteq {i \in Id : i > 0} /\ DOMAIN groups' \subseteq Id
  BY <1>9, <1>10 DEF HeadersOf
<1>12. \A i \in DOMAIN contacts' : contacts'[i] \in ContactRec /\ Told(contacts[i], i)'
  BY <1>2, <1>3, <1>9, <1>11, BreakStep
<1>13. contacts' \in [DOMAIN contacts' -> ContactRec]
  <2>1. contacts' = [i \in DOMAIN contacts' |-> contacts'[i]]
    <3>1. CASE kind = "contact" /\ id > 0
      BY <1>1, <1>6, <3>1 DEF AddTo
    <3>2. CASE ~(kind = "contact" /\ id > 0)
      BY <1>1, <1>6, <3>2
    <3> QED BY <3>1, <3>2
  <2> QED BY <1>12, <2>1
<1>14. Positioned'
  <2>1. PICK m \in Nat : m = Len(lines) + 1
    BY <1>4 DEF Lines
  <2>2. At(m, m)'
    BY <1>1, <1>3, <1>4, <2>1, AtHeader DEF x
  <2>3. m \in 0 .. Len(lines')
    BY <1>2, <1>3, <1>4, <2>1, Appended
  <2> QED BY <2>2, <2>3 DEF Positioned
<1>15. StateTyped'
  <2>1. id \in Int
    BY ContactFileAssumption
  <2> QED BY <1>1, <2>1 DEF StateTyped, HeaderState
<1>16. Types'
  BY <1>3, <1>10, <1>11, <1>13, <1>15 DEF Types
<1>17. ContactsTold'
  BY <1>12 DEF ContactsTold
<1>18. Listed' /\ Phases'
  BY <1>3, <1>9, <1>10 DEF Listed, Phases
<1> QED BY <1>14, <1>16, <1>17, <1>18 DEF IInv

LEMMA SectionStep ==
    ASSUME IInv, ReadSection
    PROVE  IInv'
<1>1. PICK name \in SectionName :
        /\ Takes([kind |-> "section", name |-> name])
        /\ contacts' = DispatchedContacts /\ groups' = DispatchedGroups
        /\ state' = [state EXCEPT !.dataname = name]
  BY DEF ReadSection
<1> DEFINE x == [kind |-> "section", name |-> name]
<1>2. x \in Line /\ x.kind = "section"
  BY DEF Line
<1> HIDE DEF x
<1>3. /\ phase = "reading" /\ phase' = "reading" /\ lines' = Append(lines, x)
      /\ lines' # <<>> /\ Lines' /\ Len(lines') <= MaxLines
      /\ entries' \in Seq([kind : {"contact", "group"}, id : Id])
      /\ state.data \subseteq DOMAIN lines'
      /\ DOMAIN contacts = HeadersOf("contact") /\ DOMAIN groups = HeadersOf("group")
  BY <1>1, <1>2, TakesTyped DEF x
<1>4. Types /\ Lines /\ StateTyped
  BY DEF IInv, Types
<1>5. PICK h, q \in 0 .. Len(lines) : At(h, q)
  BY DEF IInv, Positioned
<1>6. /\ DispatchedContacts = [i \in DOMAIN contacts |-> DispatchedContacts[i]]
      /\ DOMAIN DispatchedContacts = DOMAIN contacts
  BY <1>3, <1>4, <1>5, Dispatched
<1>7. /\ DOMAIN DispatchedGroups = DOMAIN groups
      /\ DispatchedGroups \in [DOMAIN groups -> GroupRec]
  BY <1>4, GroupsTyped
<1>8. /\ HeadersOf("contact")' = HeadersOf("contact")
      /\ HeadersOf("group")' = HeadersOf("group")
  BY <1>2, <1>3, <1>4, HeaderLine
<1>9. /\ DOMAIN contacts' = HeadersOf("contact")' /\ DOMAIN groups' = HeadersOf("group")'
      /\ DOMAIN contacts' = DOMAIN contacts /\ DOMAIN groups' = DOMAIN groups
      /\ groups' \in [DOMAIN groups' -> GroupRec]
      /\ \A i \in DOMAIN contacts' : contacts'[i] =
             IF i \in DOMAIN contacts THEN DispatchedContacts[i] ELSE NewContact
  BY <1>1, <1>3, <1>6, <1>7, <1>8
<1>10. DOMAIN contacts' \subseteq {i \in Id : i > 0} /\ DOMAIN groups' \subseteq Id
  BY <1>9 DEF HeadersOf
<1>11. \A i \in DOMAIN contacts' : contacts'[i] \in ContactRec /\ Told(contacts[i], i)'
  BY <1>2, <1>3, <1>9, <1>10, BreakStep
<1>12. contacts' \in [DOMAIN contacts' -> ContactRec]
  <2>1. contacts' = [i \in DOMAIN contacts' |-> contacts'[i]]
    BY <1>1, <1>6
  <2> QED BY <1>11, <2>1
<1>13. Positioned'
  <2>1. PICK m \in Nat : m = Len(lines) + 1
    BY <1>4 DEF Lines
  <2>2. At(h, m)'
    BY <1>1, <1>3, <1>4, <1>5, <2>1, AtSection DEF x, StateTyped
  <2>3. m \in 0 .. Len(lines') /\ h \in 0 .. Len(lines')
    BY <1>2, <1>3, <1>4, <2>1, Appended
  <2> QED BY <2>2, <2>3 DEF Positioned
<1>14. StateTyped'
  BY <1>1, <1>3, <1>4 DEF StateTyped
<1>15. Types'
  BY <1>3, <1>9, <1>10, <1>12, <1>14 DEF Types
<1>16. ContactsTold'
  BY <1>11 DEF ContactsTold
<1>17. Listed' /\ Phases'
  BY <1>3, <1>9 DEF Listed, Phases
<1> QED BY <1>13, <1>15, <1>16, <1>17 DEF IInv

LEMMA DataStep ==
    ASSUME IInv, ReadLine
    PROVE  IInv'
<1>1. PICK key \in Key :
        /\ Takes([kind |-> "line", key |-> key])
        /\ state' = [state EXCEPT !.data = @ \cup {Len(lines) + 1}]
        /\ contacts' = contacts /\ groups' = groups
  BY DEF ReadLine
<1> DEFINE x == [kind |-> "line", key |-> key]
<1>2. x \in Line /\ x.kind = "line"
  BY DEF Line
<1> HIDE DEF x
<1>3. /\ phase = "reading" /\ phase' = "reading" /\ lines' = Append(lines, x)
      /\ lines' # <<>> /\ Lines' /\ Len(lines') <= MaxLines
      /\ entries' \in Seq([kind : {"contact", "group"}, id : Id])
      /\ state.data \subseteq DOMAIN lines' /\ Len(lines) + 1 \in DOMAIN lines'
      /\ DOMAIN contacts = HeadersOf("contact") /\ DOMAIN groups = HeadersOf("group")
  BY <1>1, <1>2, TakesTyped DEF x
<1>4. Types /\ Lines /\ StateTyped
  BY DEF IInv, Types
<1>5. /\ HeadersOf("contact")' = HeadersOf("contact")
      /\ HeadersOf("group")' = HeadersOf("group")
  BY <1>2, <1>3, <1>4, HeaderLine
<1>6. Positioned'
  <2>1. PICK h, q \in 0 .. Len(lines) : At(h, q)
    BY DEF IInv, Positioned
  <2>2. At(h, q)'
    BY <1>1, <1>2, <1>3, <1>4, <2>1, AtLine DEF StateTyped
  <2>3. h \in 0 .. Len(lines') /\ q \in 0 .. Len(lines')
    BY <1>2, <1>3, <1>4, <2>1, Appended
  <2> QED BY <2>2, <2>3 DEF Positioned
<1>7. StateTyped'
  BY <1>1, <1>3, <1>4 DEF StateTyped
<1>8. Types'
  BY <1>1, <1>3, <1>4, <1>7 DEF Types
<1>9. ContactsTold'
  BY <1>1, <1>2, <1>3, LineStep
<1>10. Listed' /\ Phases'
  BY <1>1, <1>3, <1>5 DEF Listed, Phases
<1> QED BY <1>6, <1>8, <1>9, <1>10 DEF IInv

LEMMA ToldStays ==
    ASSUME ContactsTold, lines' = lines, contacts' = contacts
    PROVE  ContactsTold'
<1>1. \A n : KeyOf(n)' = KeyOf(n)
  BY DEF KeyOf
<1>2. \A id : MainLines(id)' = MainLines(id)
  BY DEF MainLines, Ended, Header, OnlyData
<1>3. \A id : ClientSections(id)' = ClientSections(id)
  BY DEF ClientSections, Ended, Header, NoHeader
<1>4. \A h, s : SectionLines(h, s)' = SectionLines(h, s)
  BY <1>1 DEF SectionLines, OnlyData
<1>5. \A c, id : MadeOf(c, id)' <=> MadeOf(c, id)
  BY <1>3, <1>4 DEF MadeOf
<1>6. \A c : Within(c)' <=> Within(c)
  BY DEF Within
<1>7. \A c : GoesBy(c)' <=> GoesBy(c)
  <2>1. \A S : NamedIn(S)' = NamedIn(S) /\ FlaggedIn(S)' = FlaggedIn(S)
    BY <1>1 DEF NamedIn, FlaggedIn
  <2>2. \A im : NamingIn(im)' = NamingIn(im)
    BY <1>1 DEF NamingIn
  <2> QED BY <1>1, <2>1, <2>2 DEF GoesBy
<1>8. \A c, id : Told(c, id)' <=> Told(c, id)
  BY <1>2, <1>5, <1>6, <1>7 DEF Told
<1> QED BY <1>8 DEF ContactsTold

\* contacts.xml, and what comes before and after the files.
LEMMA OtherStep ==
    ASSUME IInv, \/ LoadNewFails \/ LoadNewDies \/ LoadNewBegins \/ LoadGroup
                 \/ LoadContact \/ LoadNewEnds \/ Opened \/ LoadOldEnds
                 \/ UNCHANGED vars
    PROVE  IInv'
<1>1. Types /\ Phases /\ Listed /\ Positioned /\ ContactsTold
  BY DEF IInv
<1>2. CASE phase = "start" /\ phase' \in {"old", "died", "new"}
            /\ UNCHANGED <<entries, lines, state, contacts, groups>>
  <2>1. lines = <<>>
    BY <1>1, <1>2 DEF Phases
  <2>2. Types'
    BY <1>1, <1>2 DEF Types, Lines, StateTyped
  <2>3. Listed' /\ Phases' /\ ContactsTold'
    BY <1>1, <1>2, <2>1 DEF Listed, Phases, ContactsTold, HeadersOf, Header
  <2>4. Positioned'
    BY <1>1, <1>2 DEF Positioned, At, NoHeader, OnlyData
  <2> QED BY <2>2, <2>3, <2>4 DEF IInv
<1>3. CASE LoadGroup \/ LoadContact
  <2>1. /\ phase = "new" /\ phase' = phase /\ UNCHANGED <<lines, state>>
        /\ lines = <<>>
    BY <1>1, <1>3 DEF LoadGroup, LoadContact, Phases
  <2>2. Listed' /\ Phases' /\ ContactsTold'
    BY <2>1 DEF Listed, Phases, ContactsTold
  <2>3. Positioned'
    BY <1>1, <2>1 DEF Positioned, At, NoHeader, OnlyData
  <2>4. StateTyped' /\ Lines' /\ Len(lines') <= MaxLines
    BY <1>1, <2>1 DEF Types, StateTyped, Lines
  <2>5. /\ entries' \in Seq([kind : {"contact", "group"}, id : Id])
        /\ DOMAIN contacts' \subseteq Id /\ contacts' \in [DOMAIN contacts' -> ContactRec]
        /\ DOMAIN groups' \subseteq Id /\ groups' \in [DOMAIN groups' -> GroupRec]
    <3>1. CASE LoadGroup
      <4>1. PICK id \in Id :
                /\ entries' = Append(entries, [kind |-> "group", id |-> id])
                /\ groups' = AddTo(groups, id, NewGroup)
                /\ contacts' = contacts
        BY <3>1 DEF LoadGroup
      <4>2. DOMAIN groups' \subseteq Id /\ groups' \in [DOMAIN groups' -> GroupRec]
        BY <1>1, <4>1, NewTyped DEF Types, AddTo
      <4> QED BY <1>1, <4>1, <4>2 DEF Types
    <3>2. CASE LoadContact
      <4>1. PICK id \in Id, ignore \in BOOLEAN :
                /\ entries' = Append(entries, [kind |-> "contact", id |-> id])
                /\ contacts' = AddTo(contacts, id, [NewContact EXCEPT !.ignore = ignore])
                /\ groups' = groups
        BY <3>2 DEF LoadContact
      <4>2. [NewContact EXCEPT !.ignore = ignore] \in ContactRec
        BY NewTyped DEF ContactRec
      <4>3. /\ DOMAIN contacts' \subseteq Id
            /\ contacts' \in [DOMAIN contacts' -> ContactRec]
        BY <1>1, <4>1, <4>2 DEF Types, AddTo
      <4> QED BY <1>1, <4>1, <4>3 DEF Types
    <3> QED BY <1>3, <3>1, <3>2
  <2>6. Types'
    BY <1>1, <2>1, <2>4, <2>5 DEF Types
  <2> QED BY <2>2, <2>3, <2>6 DEF IInv
<1>4. CASE /\ phase \in {"new", "old", "reading"}
           /\ phase = "new" => phase' = "loaded"
           /\ phase = "old" => phase' \in {"reading", "failed"}
           /\ phase = "reading" => phase' = "loaded"
           /\ UNCHANGED <<entries, lines, state, contacts, groups>>
  <2>1. Types'
    BY <1>1, <1>4 DEF Types, Lines, StateTyped
  <2>2. Phases'
    BY <1>1, <1>4 DEF Phases
  <2>3. Listed'
    BY <1>1, <1>4 DEF Listed, Phases, HeadersOf, Header
  <2>4. ContactsTold'
    BY <1>1, <1>4, ToldStays
  <2>5. Positioned'
    BY <1>1, <1>4 DEF Positioned, At, NoHeader, OnlyData
  <2> QED BY <2>1, <2>2, <2>3, <2>4, <2>5 DEF IInv
<1>5. CASE UNCHANGED vars
  <2>1. Types' /\ Phases' /\ Listed'
    BY <1>1, <1>5 DEF vars, Types, Lines, StateTyped, Phases, Listed, HeadersOf, Header
  <2>2. ContactsTold'
    BY <1>1, <1>5, ToldStays DEF vars
  <2>3. Positioned'
    BY <1>1, <1>5 DEF vars, Positioned, At, NoHeader, OnlyData
  <2> QED BY <2>1, <2>2, <2>3 DEF IInv
<1> QED BY <1>2, <1>3, <1>4, <1>5
        DEF LoadNewFails, LoadNewDies, LoadNewBegins, LoadNewEnds, Opened, LoadOldEnds

LEMMA InitInv == Init => IInv
<1> SUFFICES ASSUME Init PROVE IInv
  OBVIOUS
<1>1. /\ phase = "start" /\ entries = <<>> /\ lines = <<>>
      /\ contacts = <<>> /\ groups = <<>>
  BY DEF Init
<1>2. PICK c, g \in StrayId :
        state = [contactId |-> c, groupId |-> g, dataname |-> Main, data |-> {}]
  BY DEF Init
<1>3. Len(lines) = 0 /\ DOMAIN lines = {} /\ DOMAIN contacts = {} /\ DOMAIN groups = {}
  BY <1>1
<1>4. StateTyped
  <2>1. c \in Int /\ g \in Int
    BY ContactFileAssumption
  <2> QED BY <1>2, <2>1 DEF StateTyped
<1>5. /\ contacts \in [DOMAIN contacts -> ContactRec]
      /\ groups \in [DOMAIN groups -> GroupRec]
  BY <1>1
<1>6. Types
  <2>1. Lines /\ entries \in Seq([kind : {"contact", "group"}, id : Id])
    BY <1>1 DEF Lines
  <2> QED BY <1>1, <1>3, <1>4, <1>5, <2>1, ContactFileAssumption DEF Types
<1>7. Listed
  BY <1>3 DEF Listed, HeadersOf
<1>8. Positioned
  <2>1. At(0, 0)
    BY <1>2, <1>3 DEF At, NoHeader, OnlyData
  <2> QED BY <1>3, <2>1 DEF Positioned
<1>9. Phases /\ ContactsTold
  BY <1>1 DEF Phases, ContactsTold
<1> QED BY <1>6, <1>7, <1>8, <1>9 DEF IInv

LEMMA Invariance == Spec => []IInv
<1>1. IInv /\ [Next]_vars => IInv'
  BY HeaderStep, SectionStep, DataStep, OtherStep DEF Next
<1> QED BY <1>1, InitInv, PTL DEF Spec

-----------------------------------------------------------------------------
(* Theorems *)

\* Every variable has its type, and once a header was read the parser is in a
\* contact or in a group, never in both.
THEOREM TypeCorrect == Spec => []TypeOK
<1>1. IInv => TypeOK
  <2> SUFFICES ASSUME IInv PROVE TypeOK
    OBVIOUS
  <2>1. Types /\ Lines
    BY DEF IInv, Types
  <2>2. ASSUME NEW n \in DOMAIN lines, lines[n].kind \in {"contact", "group"}
        PROVE  state.contactId = -1 \/ state.groupId = -1
    <3>1. PICK h, q \in 0 .. Len(lines) : At(h, q)
      BY DEF IInv, Positioned
    <3>2. n \in 1 .. Len(lines)
      BY <2>1 DEF Lines
    <3>3. n <= h /\ h \in Nat
      BY <2>1, <2>2, <3>1, <3>2, AtBreaks
    <3>4. h # 0
      BY <3>2, <3>3
    <3> QED BY <3>1, <3>4 DEF At
  <2> QED BY <2>1, <2>2 DEF TypeOK, Types, Lines, StateTyped
<1> QED BY <1>1, Invariance, PTL

\* The contacts and groups there are after load_old are those of the headers of
\* contacts.conf with a positive id, whatever load_new had read before.
THEOREM ListsAreTheFiles == Spec => []ContactsOfFile
<1>1. IInv => ContactsOfFile
  BY DEF IInv, Listed, HeadersOf, ContactsOfFile
<1> QED BY <1>1, Invariance, PTL

\* A contact is given the lines behind its headers, up to the section that
\* follows (load_old_dispatch), and no other contact's.
THEOREM OwnLinesRead == Spec => []MainReadBack
<1>1. IInv => MainReadBack
  BY DEF IInv, ContactsTold, Told, MainReadBack
<1> QED BY <1>1, Invariance, PTL

\* Every section of a loaded client gives its contact one IM contact, made of
\* that contact's lines.
THEOREM IMContactsRead == Spec => []IMReadBack
<1>1. IInv => IMReadBack
  BY DEF IInv, ContactsTold, Told, MadeOf, IMReadBack
<1> QED BY <1>1, Invariance, PTL

\* A contact goes by its last Name line, or by the first IM contact that has a
\* name, and is ignored as its last Ignore line says.
THEOREM LastWordWins == Spec => []LastWord
<1>1. IInv => LastWord
  BY DEF IInv, ContactsTold, Told, GoesBy, NamedIn, FlaggedIn, NamingIn, LastWord
<1> QED BY <1>1, Invariance, PTL
=============================================================================
