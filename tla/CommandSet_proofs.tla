-------------------------- MODULE CommandSet_proofs --------------------------
(***************************************************************************)
(* Checkable commands and their views agree between clicks, and at no      *)
(* moment are two commands checked that exclude each other, for any number *)
(* of commands and of menus.                                               *)
(*                                                                         *)
(* A click sets off one run of calls, whose course is known: calls has one *)
(* of a few shapes, and each goes with what the views and commands show at *)
(* that moment.                                                            *)
(***************************************************************************)
EXTENDS CommandSet, FiniteSetTheorems, TLAPS

-----------------------------------------------------------------------------
(* Calls to be made *)

NoCalls == <<>>

\* a first, then the rest.
Then(a, rest) == <<a>> \o rest

\* The views from k on hear of command x, then the rest.
SetAll(m, x, b, k) == [n \in 1 .. m + 1 - k |-> SetAction(k + n - 1, x, b)]
Told(m, x, b, k, rest) == SetAll(m, x, b, k) \o rest

LEMMA ThenIs ==
    ASSUME NEW a \in Call, NEW S \in Seq(Call)
    PROVE  /\ Then(a, S) \in Seq(Call) /\ Then(a, S) # <<>>
           /\ Head(Then(a, S)) = a /\ Tail(Then(a, S)) = S
BY DEF Then

LEMMA NoCallsIs == NoCalls \in Seq(Call)
BY DEF NoCalls

LEMMA NoneThen == \A S \in Seq(Call) : <<>> \o S = S
OBVIOUS

LEMMA TwoThen ==
    ASSUME NEW a \in Call, NEW b \in Call, NEW S \in Seq(Call)
    PROVE  /\ <<a>> \o S = Then(a, S)
           /\ (<<a>> \o <<b>>) \o S = Then(a, Then(b, S))
           /\ (<<>> \o <<b>>) \o S = Then(b, S)
BY DEF Then

LEMMA Prepended ==
    ASSUME NEW T, NEW r \in T, NEW f \in Seq(T)
    PROVE  /\ <<r>> \o f \in Seq(T) /\ Len(<<r>> \o f) = Len(f) + 1
           /\ \A n \in 1 .. Len(f) + 1 :
                  (<<r>> \o f)[n] = IF n = 1 THEN r ELSE f[n - 1]
OBVIOUS

LEMMA CallsAre ==
    ASSUME NEW v \in View, NEW c \in Command, NEW b \in BOOLEAN
    PROVE  /\ SetAction(v, c, b) \in Call /\ Changed(v, c) \in Call
           /\ MakeCurrent(v, c) \in Call /\ SetCommand(c, b) \in Call
BY CommandSetAssumption DEF SetAction, Changed, MakeCurrent, SetCommand, Call, View

LEMMA SetAllIs ==
    ASSUME NEW m \in 0 .. MaxMenus, NEW x \in Command, NEW b \in BOOLEAN,
           NEW k \in 0 .. m + 1
    PROVE  /\ SetAll(m, x, b, k) \in Seq(Call) /\ Len(SetAll(m, x, b, k)) = m + 1 - k
           /\ \A n \in 1 .. m + 1 - k : SetAll(m, x, b, k)[n] = SetAction(k + n - 1, x, b)
<1>1. m \in Nat /\ m <= MaxMenus /\ MaxMenus \in Nat /\ k \in Nat /\ k <= m + 1
  BY CommandSetAssumption
<1>2. \A n \in 1 .. m + 1 - k : k + n - 1 \in View
  BY <1>1 DEF View
<1>3. \A n \in 1 .. m + 1 - k : SetAction(k + n - 1, x, b) \in Call
  BY <1>2, CallsAre
<1>4. m + 1 - k \in Nat
  BY <1>1
<1> QED BY <1>3, <1>4 DEF SetAll

LEMMA SetAllNext ==
    ASSUME NEW m \in 0 .. MaxMenus, NEW x \in Command, NEW b \in BOOLEAN,
           NEW k \in 0 .. m
    PROVE  SetAll(m, x, b, k) = <<SetAction(k, x, b)>> \o SetAll(m, x, b, k + 1)
<1>1. m \in Nat /\ MaxMenus \in Nat /\ k \in Nat /\ k <= m /\ k \in View
      /\ k \in 0 .. m + 1 /\ k + 1 \in 0 .. m + 1
  BY CommandSetAssumption DEF View
<1>2. PICK r, f, g : /\ r = SetAction(k, x, b) /\ f = SetAll(m, x, b, k + 1)
                     /\ g = SetAll(m, x, b, k)
  OBVIOUS
<1>3. PICK l \in Nat : l = m - k
  BY <1>1
<1>4. /\ g \in Seq(Call) /\ Len(g) = m + 1 - k
      /\ \A n \in 1 .. m + 1 - k : g[n] = SetAction(k + n - 1, x, b)
  BY <1>1, <1>2, SetAllIs
<1>5. /\ f \in Seq(Call) /\ Len(f) = m + 1 - (k + 1)
      /\ \A n \in 1 .. m + 1 - (k + 1) : f[n] = SetAction(k + 1 + n - 1, x, b)
  BY <1>1, <1>2, SetAllIs
<1>6. m + 1 - k = l + 1 /\ m + 1 - (k + 1) = l
  BY <1>1, <1>3
<1>7. r \in Call
  BY <1>1, <1>2, CallsAre
<1>8. /\ <<r>> \o f \in Seq(Call) /\ Len(<<r>> \o f) = l + 1
      /\ \A n \in 1 .. l + 1 : (<<r>> \o f)[n] = IF n = 1 THEN r ELSE f[n - 1]
  BY <1>5, <1>6, <1>7, Prepended
<1>9. \A n \in 1 .. l + 1 : g[n] = IF n = 1 THEN r ELSE f[n - 1]
  <2> SUFFICES ASSUME NEW n \in 1 .. l + 1 PROVE g[n] = IF n = 1 THEN r ELSE f[n - 1]
    OBVIOUS
  <2>1. CASE n = 1
    <3>1. k + n - 1 = k
      BY <1>1, <2>1
    <3> QED BY <1>2, <1>4, <1>6, <2>1, <3>1
  <2>2. CASE n # 1
    <3>1. n - 1 \in 1 .. l /\ k + 1 + (n - 1) - 1 = k + n - 1
      BY <1>1, <1>3, <2>2
    <3>2. f[n - 1] = SetAction(k + 1 + (n - 1) - 1, x, b)
      BY <1>5, <1>6, <3>1
    <3>3. g[n] = SetAction(k + n - 1, x, b)
      BY <1>4, <1>6
    <3> QED BY <2>2, <3>1, <3>2, <3>3
  <2> QED BY <2>1, <2>2
<1>10. g = <<r>> \o f
  <2>1. PICK h : h = <<r>> \o f
    OBVIOUS
  <2>2. /\ h \in Seq(Call) /\ Len(h) = l + 1 /\ Len(g) = l + 1
        /\ \A n \in 1 .. l + 1 : h[n] = g[n]
    BY <1>4, <1>6, <1>8, <1>9, <2>1
  <2> QED BY <1>4, <2>1, <2>2
<1> QED BY <1>2, <1>10

LEMMA ToldIs ==
    ASSUME NEW m \in 0 .. MaxMenus, NEW x \in Command, NEW b \in BOOLEAN,
           NEW k \in 0 .. m + 1, NEW S \in Seq(Call)
    PROVE  /\ Told(m, x, b, k, S) \in Seq(Call)
           /\ k = m + 1 => Told(m, x, b, k, S) = S
           /\ k <= m => Told(m, x, b, k, S) =
                            Then(SetAction(k, x, b), Told(m, x, b, k + 1, S))
           /\ Told(m, x, b, k, <<>>) \o S = Told(m, x, b, k, S)
<1>1. m \in Nat /\ m <= MaxMenus /\ MaxMenus \in Nat /\ k \in Nat /\ k <= m + 1
  BY CommandSetAssumption
<1>2. PICK g : g = SetAll(m, x, b, k)
  OBVIOUS
<1>3. g \in Seq(Call) /\ Len(g) = m + 1 - k
  BY <1>2, SetAllIs
<1>4. Told(m, x, b, k, S) = g \o S /\ Told(m, x, b, k, <<>>) = g \o <<>>
  BY <1>2 DEF Told
<1>5. g \o S \in Seq(Call) /\ g \o <<>> = g
  BY <1>3
<1>6. ASSUME k = m + 1 PROVE g \o S = S
  <2>1. Len(g) = 0
    BY <1>1, <1>3, <1>6
  <2>2. g = <<>>
    BY <1>3, <2>1
  <2> QED BY <2>2
<1>7. ASSUME k <= m
      PROVE  Told(m, x, b, k, S) = Then(SetAction(k, x, b), Told(m, x, b, k + 1, S))
  <2>1. PICK r, f : r = SetAction(k, x, b) /\ f = SetAll(m, x, b, k + 1)
    OBVIOUS
  <2>2. k \in 0 .. m /\ k + 1 \in 0 .. m + 1 /\ k \in View
    BY <1>1, <1>7 DEF View
  <2>3. g = <<r>> \o f
    BY <1>2, <2>1, <2>2, SetAllNext
  <2>4. f \in Seq(Call) /\ r \in Call
    BY <2>1, <2>2, SetAllIs, CallsAre
  <2>5. (<<r>> \o f) \o S = <<r>> \o (f \o S)
    BY <2>4
  <2> QED BY <1>4, <2>1, <2>3, <2>5 DEF Then, Told
<1> QED BY <1>4, <1>5, <1>6, <1>7

LEMMA ToldFacts ==
    \A m \in 0 .. MaxMenus, x \in Command, b \in BOOLEAN, S \in Seq(Call) :
        \A k \in 0 .. m + 1 :
            /\ Told(m, x, b, k, S) \in Seq(Call)
            /\ k = m + 1 => Told(m, x, b, k, S) = S
            /\ k <= m => Told(m, x, b, k, S) =
                             Then(SetAction(k, x, b), Told(m, x, b, k + 1, S))
<1> SUFFICES ASSUME NEW m \in 0 .. MaxMenus, NEW x \in Command, NEW b \in BOOLEAN,
                    NEW S \in Seq(Call), NEW k \in 0 .. m + 1
             PROVE  /\ Told(m, x, b, k, S) \in Seq(Call)
                    /\ k = m + 1 => Told(m, x, b, k, S) = S
                    /\ k <= m => Told(m, x, b, k, S) =
                                     Then(SetAction(k, x, b), Told(m, x, b, k + 1, S))
  OBVIOUS
<1> QED BY ToldIs

LEMMA EmitIs ==
    ASSUME NEW c \in Command, NEW b \in BOOLEAN, menus \in 0 .. MaxMenus
    PROVE  /\ FirstView(c) \in {0, 1}
           /\ Emit(c, b) = Told(menus, c, b, FirstView(c), <<>>)
           /\ c \in Exclusive => FirstView(c) = 1
<1>1. menus \in Nat
  BY CommandSetAssumption
<1>2. FirstView(c) \in {0, 1} /\ (c \in Exclusive => FirstView(c) = 1)
  BY CommandSetAssumption DEF FirstView, Toolbar, InView
<1>3. PICK k : k = FirstView(c)
  OBVIOUS
<1>4. PICK f : f = SetAll(menus, c, b, k)
  OBVIOUS
<1>5. Emit(c, b) = f
  <2>1. \A n \in 1 .. menus + 1 - k : k + n - 1 = Views(c)[n]
    BY <1>3 DEF Views
  <2> QED BY <1>3, <1>4, <2>1 DEF Emit, Views, SetAll
<1>6. k \in 0 .. menus + 1
  BY <1>1, <1>2, <1>3
<1>7. f \in Seq(Call)
  BY <1>4, <1>6, SetAllIs
<1>8. Told(menus, c, b, k, <<>>) = f
  BY <1>4, <1>7 DEF Told
<1> QED BY <1>2, <1>3, <1>5, <1>8

-----------------------------------------------------------------------------
(* What a call does *)

Typed ==
    /\ checked \in [Command -> BOOLEAN]
    /\ menus \in 0 .. MaxMenus /\ open \in 0 .. menus
    /\ DOMAIN shown = 0 .. menus /\ DOMAIN current = 0 .. menus
    /\ \A v \in 0 .. menus : /\ shown[v] \in [InView(v) -> BOOLEAN]
                             /\ current[v] \in Exclusive \cup {None}
    /\ calls \in Seq(Call) /\ Len(calls) <= MaxCalls
    /\ chosen \in Exclusive
    /\ current[Toolbar] = None

LEMMA Sets ==
    /\ MaxMenus \in Nat /\ MaxCalls \in Nat /\ MaxCalls >= 1
    /\ Exclusive \subseteq Command /\ First \in Exclusive /\ None \notin Exclusive
    /\ \A v \in Nat : InView(v) \subseteq Command
    /\ InView(0) \cap Exclusive = {}
    /\ \A v \in Nat \ {0} : InView(v) = Command
    /\ \A m \in 0 .. MaxMenus : m \in Nat /\ 0 .. m \subseteq View
    /\ \A v \in View : v \in Nat
BY CommandSetAssumption, NoneIsNoCommand DEF InView, Toolbar, View

LEMMA Called ==
    ASSUME Typed, NEW a \in Call, NEW S \in Seq(Call), calls = Then(a, S), CallNext
    PROVE  /\ Head(calls) = a /\ Tail(calls) = S
           /\ menus' = menus /\ open' = open /\ chosen' = chosen
           /\ calls' \in Seq(Call) => Len(calls') <= MaxCalls
           /\ a.op = "setAction" => DoSetAction
           /\ a.op = "changed" => DoChanged
           /\ a.op = "makeCurrent" => DoMakeCurrent
           /\ a.op = "setCommand" => DoSetCommand
<1>1. Head(calls) = a /\ Tail(calls) = S
  <2>1. Head(Then(a, S)) = a /\ Tail(Then(a, S)) = S
    BY ThenIs
  <2> QED BY <2>1
<1>2. CASE DoSetAction
  BY <1>1, <1>2 DEF DoSetAction, Makes
<1>3. CASE DoChanged
  BY <1>1, <1>3 DEF DoChanged, Makes
<1>4. CASE DoMakeCurrent
  BY <1>1, <1>4 DEF DoMakeCurrent, Makes
<1>5. CASE DoSetCommand
  BY <1>1, <1>5 DEF DoSetCommand, Makes
<1> QED BY <1>2, <1>3, <1>4, <1>5 DEF CallNext

LEMMA AfterSetAction ==
    ASSUME Typed, NEW v \in 0 .. menus, NEW c \in InView(v), NEW b \in BOOLEAN,
           NEW S \in Seq(Call), calls = Then(SetAction(v, c, b), S), CallNext
    PROVE  /\ Typed' /\ menus' = menus /\ open' = open /\ chosen' = chosen
           /\ checked' = checked /\ current' = current
           /\ \A w \in 0 .. menus : \A y \in InView(w) :
                  shown'[w][y] = IF w = v /\ y = c THEN b ELSE shown[w][y]
           /\ calls' = IF shown[v][c] = b THEN S
                       ELSE IF v # 0 /\ c \in Exclusive
                       THEN Then(Changed(v, c), Then(SetCommand(c, b), S))
                       ELSE Then(SetCommand(c, b), S)
<1> DEFINE a == SetAction(v, c, b)
<1>1. menus \in Nat /\ v \in View /\ c \in Command
  BY Sets DEF Typed
<1>2. /\ a \in Call /\ a.op = "setAction" /\ a.view = v /\ a.cmd = c /\ a.b = b
      /\ Changed(v, c) \in Call /\ SetCommand(c, b) \in Call
  BY <1>1, CallsAre DEF SetAction
<1> HIDE DEF a
<1>3. /\ Head(calls) = a /\ Tail(calls) = S /\ DoSetAction
      /\ menus' = menus /\ open' = open /\ chosen' = chosen
      /\ calls' \in Seq(Call) => Len(calls') <= MaxCalls
  BY <1>2, Called DEF a
<1>4. /\ calls' = (IF ~(shown[v][c] # b) THEN <<>>
                   ELSE (IF c \in Grouped(v) THEN <<Changed(v, c)>> ELSE <<>>)
                        \o <<SetCommand(c, b)>>) \o S
      /\ shown' = [shown EXCEPT ![v][c] = b]
      /\ checked' = checked /\ current' = current
  BY <1>2, <1>3 DEF DoSetAction, Makes, Toggled
<1>5. c \in Grouped(v) <=> v # 0 /\ c \in Exclusive
  BY DEF Grouped, Toolbar
<1>6. calls' = IF shown[v][c] = b THEN S
               ELSE IF v # 0 /\ c \in Exclusive
               THEN Then(Changed(v, c), Then(SetCommand(c, b), S))
               ELSE Then(SetCommand(c, b), S)
  <2>1. PICK r \in Call, t \in Call : r = Changed(v, c) /\ t = SetCommand(c, b)
    BY <1>2
  <2>2. /\ <<t>> \o S = Then(t, S) /\ (<<r>> \o <<t>>) \o S = Then(r, Then(t, S))
        /\ (<<>> \o <<t>>) \o S = Then(t, S)
    BY TwoThen
  <2>3. CASE shown[v][c] = b
    BY <1>4, <2>3, NoneThen
  <2>4. CASE shown[v][c] # b /\ v # 0 /\ c \in Exclusive
    <3>1. calls' = (<<r>> \o <<t>>) \o S
      BY <1>4, <1>5, <2>1, <2>4
    <3> QED BY <2>1, <2>2, <2>4, <3>1
  <2>5. CASE shown[v][c] # b /\ ~(v # 0 /\ c \in Exclusive)
    <3>1. calls' = (<<>> \o <<t>>) \o S
      BY <1>4, <1>5, <2>1, <2>5
    <3> QED BY <2>1, <2>2, <2>5, <3>1
  <2> QED BY <2>3, <2>4, <2>5
<1>7. \A w \in 0 .. menus : \A y \in InView(w) :
          shown'[w][y] = IF w = v /\ y = c THEN b ELSE shown[w][y]
  BY <1>4 DEF Typed
<1>8. /\ DOMAIN shown' = 0 .. menus
      /\ \A w \in 0 .. menus : shown'[w] \in [InView(w) -> BOOLEAN]
  BY <1>4 DEF Typed
<1>9. calls' \in Seq(Call)
  <2>1. Then(SetCommand(c, b), S) \in Seq(Call)
    BY <1>2, ThenIs
  <2>2. Then(Changed(v, c), Then(SetCommand(c, b), S)) \in Seq(Call)
    BY <1>2, <2>1, ThenIs
  <2> QED BY <1>6, <2>1, <2>2
<1>10. Typed'
  BY <1>3, <1>4, <1>8, <1>9 DEF Typed
<1> QED BY <1>3, <1>4, <1>6, <1>7, <1>10

LEMMA AfterChanged ==
    ASSUME Typed, NEW v \in 1 .. menus, NEW c \in Exclusive,
           NEW S \in Seq(Call), calls = Then(Changed(v, c), S), CallNext
    PROVE  /\ Typed' /\ menus' = menus /\ open' = open /\ chosen' = chosen
           /\ checked' = checked /\ shown' = shown
           /\ \A w \in 0 .. menus :
                  current'[w] = IF w = v /\ ~shown[v][c] /\ current[v] = c THEN None
                                ELSE current[w]
           /\ shown[v][c] /\ current[v] \notin {c, None} =>
                  calls' = Then(SetAction(v, current[v], FALSE),
                                Then(MakeCurrent(v, c), S))
           /\ shown[v][c] /\ current[v] = None => calls' = Then(MakeCurrent(v, c), S)
           /\ ~shown[v][c] => calls' = S
<1> DEFINE a == Changed(v, c)
<1>1. menus \in Nat /\ v \in View /\ v \in 0 .. menus /\ c \in Command /\ c # None
  <2>1. menus \in Nat /\ 0 .. menus \subseteq View
    BY Sets DEF Typed
  <2>2. v \in 0 .. menus
    BY <2>1
  <2>3. c \in Command /\ c # None
    BY Sets
  <2> QED BY <2>1, <2>2, <2>3
<1>2. /\ a \in Call /\ a.op = "changed" /\ a.view = v /\ a.cmd = c
      /\ MakeCurrent(v, c) \in Call
  BY <1>1, CallsAre DEF Changed
<1>3. current[v] # None => SetAction(v, current[v], FALSE) \in Call
  BY <1>1, CallsAre, Sets DEF Typed
<1> HIDE DEF a
<1>4. /\ Head(calls) = a /\ Tail(calls) = S /\ DoChanged
      /\ menus' = menus /\ open' = open /\ chosen' = chosen
      /\ calls' \in Seq(Call) => Len(calls') <= MaxCalls
  BY <1>2, Called DEF a
<1>5. /\ calls' = (IF shown[v][c] /\ current[v] # c
                   THEN (IF current[v] = None THEN <<>>
                         ELSE <<SetAction(v, current[v], FALSE)>>)
                        \o <<MakeCurrent(v, c)>>
                   ELSE <<>>) \o S
      /\ current' = IF ~shown[v][c] /\ current[v] = c
                    THEN [current EXCEPT ![v] = None] ELSE current
      /\ checked' = checked /\ shown' = shown
  BY <1>2, <1>4 DEF DoChanged, Makes
<1>6. shown[v][c] /\ current[v] \notin {c, None} =>
          calls' = Then(SetAction(v, current[v], FALSE), Then(MakeCurrent(v, c), S))
  <2> SUFFICES ASSUME shown[v][c], current[v] \notin {c, None}
               PROVE  calls' = Then(SetAction(v, current[v], FALSE),
                                    Then(MakeCurrent(v, c), S))
    OBVIOUS
  <2>1. PICK r \in Call, t \in Call :
            r = SetAction(v, current[v], FALSE) /\ t = MakeCurrent(v, c)
    BY <1>2, <1>3
  <2>2. calls' = (<<r>> \o <<t>>) \o S
    BY <1>5, <2>1
  <2>3. (<<r>> \o <<t>>) \o S = Then(r, Then(t, S))
    BY TwoThen
  <2> QED BY <2>1, <2>2, <2>3
<1>7. shown[v][c] /\ current[v] = None => calls' = Then(MakeCurrent(v, c), S)
  <2> SUFFICES ASSUME shown[v][c], current[v] = None
               PROVE  calls' = Then(MakeCurrent(v, c), S)
    OBVIOUS
  <2>1. PICK t \in Call : t = MakeCurrent(v, c)
    BY <1>2
  <2>2. calls' = (<<>> \o <<t>>) \o S
    BY <1>1, <1>5, <2>1
  <2>3. (<<>> \o <<t>>) \o S = Then(t, S)
    BY TwoThen
  <2> QED BY <2>1, <2>2, <2>3
<1>8. ~(shown[v][c] /\ current[v] # c) => calls' = S
  BY <1>5, NoneThen
<1>9. calls' \in Seq(Call)
  <2>1. Then(MakeCurrent(v, c), S) \in Seq(Call)
    BY <1>2, ThenIs
  <2>2. current[v] # None =>
            Then(SetAction(v, current[v], FALSE), Then(MakeCurrent(v, c), S))
                \in Seq(Call)
    BY <1>3, <2>1, ThenIs
  <2> QED BY <1>6, <1>7, <1>8, <2>1, <2>2
<1>10. \A w \in 0 .. menus :
          current'[w] = IF w = v /\ ~shown[v][c] /\ current[v] = c THEN None
                        ELSE current[w]
  BY <1>5 DEF Typed
<1>11. DOMAIN current' = 0 .. menus
  BY <1>5 DEF Typed
<1>12. current'[Toolbar] = None
  <2>1. 0 \in 0 .. menus /\ 0 # v /\ current[0] = None
    BY <1>1 DEF Typed, Toolbar
  <2>2. current'[0] = current[0]
    BY <1>10, <2>1
  <2> QED BY <2>1, <2>2 DEF Toolbar
<1>13. Typed'
  BY <1>4, <1>5, <1>9, <1>10, <1>11, <1>12 DEF Typed
<1> QED BY <1>4, <1>5, <1>6, <1>7, <1>8, <1>10, <1>13

LEMMA AfterMakeCurrent ==
    ASSUME Typed, NEW v \in 1 .. menus, NEW c \in Exclusive,
           NEW S \in Seq(Call), calls = Then(MakeCurrent(v, c), S), CallNext
    PROVE  /\ Typed' /\ menus' = menus /\ open' = open /\ chosen' = chosen
           /\ checked' = checked /\ shown' = shown /\ calls' = S
           /\ \A w \in 0 .. menus : current'[w] = IF w = v THEN c ELSE current[w]
<1> DEFINE a == MakeCurrent(v, c)
<1>1. menus \in Nat /\ v \in View /\ v \in 0 .. menus /\ c \in Command
  <2>1. menus \in Nat /\ 0 .. menus \subseteq View
    BY Sets DEF Typed
  <2>2. v \in 0 .. menus
    BY <2>1
  <2>3. c \in Command
    BY Sets
  <2> QED BY <2>1, <2>2, <2>3
<1>2. a \in Call /\ a.op = "makeCurrent" /\ a.view = v /\ a.cmd = c
  BY <1>1, CallsAre DEF MakeCurrent
<1> HIDE DEF a
<1>3. /\ Head(calls) = a /\ Tail(calls) = S /\ DoMakeCurrent
      /\ menus' = menus /\ open' = open /\ chosen' = chosen
      /\ calls' \in Seq(Call) => Len(calls') <= MaxCalls
  BY <1>2, Called DEF a
<1>4. /\ calls' = <<>> \o S /\ current' = [current EXCEPT ![v] = c]
      /\ checked' = checked /\ shown' = shown
  BY <1>2, <1>3 DEF DoMakeCurrent, Makes
<1>5. calls' = S
  BY <1>4, NoneThen
<1>6. /\ DOMAIN current' = 0 .. menus
      /\ \A w \in 0 .. menus : current'[w] = IF w = v THEN c ELSE current[w]
  BY <1>4 DEF Typed
<1>7. current'[Toolbar] = None
  BY <1>1, <1>6 DEF Typed, Toolbar
<1>8. Typed'
  BY <1>3, <1>4, <1>5, <1>6, <1>7 DEF Typed
<1> QED BY <1>3, <1>4, <1>5, <1>6, <1>8

LEMMA AfterSetCommand ==
    ASSUME Typed, NEW c \in Command, NEW b \in BOOLEAN,
           NEW S \in Seq(Call), calls = Then(SetCommand(c, b), S), CallNext
    PROVE  /\ Typed' /\ menus' = menus /\ open' = open /\ chosen' = chosen
           /\ shown' = shown /\ current' = current
           /\ \A y \in Command : checked'[y] = IF y = c THEN b ELSE checked[y]
           /\ calls' = IF checked[c] = b THEN S
                       ELSE Told(menus, c, b, FirstView(c), S)
<1> DEFINE a == SetCommand(c, b)
<1>1. menus \in Nat /\ 0 \in View /\ menus \in 0 .. MaxMenus
  BY Sets DEF Typed
<1>2. a \in Call /\ a.op = "setCommand" /\ a.cmd = c /\ a.b = b
  BY <1>1, CallsAre DEF SetCommand
<1> HIDE DEF a
<1>3. /\ Head(calls) = a /\ Tail(calls) = S /\ DoSetCommand
      /\ menus' = menus /\ open' = open /\ chosen' = chosen
      /\ calls' \in Seq(Call) => Len(calls') <= MaxCalls
  BY <1>2, Called DEF a
<1>4. /\ calls' = (IF checked[c] = b THEN <<>> ELSE Emit(c, b)) \o S
      /\ checked' = [checked EXCEPT ![c] = b]
      /\ current' = current /\ shown' = shown
  BY <1>2, <1>3 DEF DoSetCommand, Makes
<1>5. /\ Emit(c, b) = Told(menus, c, b, FirstView(c), <<>>)
      /\ FirstView(c) \in 0 .. menus + 1
  BY <1>1, EmitIs
<1>6. /\ Told(menus, c, b, FirstView(c), <<>>) \o S = Told(menus, c, b, FirstView(c), S)
      /\ Told(menus, c, b, FirstView(c), S) \in Seq(Call)
  BY <1>1, <1>5, ToldIs
<1>7. /\ calls' = IF checked[c] = b THEN S ELSE Told(menus, c, b, FirstView(c), S)
      /\ calls' \in Seq(Call)
  BY <1>4, <1>5, <1>6, NoneThen
<1>8. /\ checked' \in [Command -> BOOLEAN]
      /\ \A y \in Command : checked'[y] = IF y = c THEN b ELSE checked[y]
  BY <1>4 DEF Typed
<1>9. Typed'
  BY <1>3, <1>4, <1>7, <1>8 DEF Typed
<1> QED BY <1>3, <1>4, <1>7, <1>8, <1>9

-----------------------------------------------------------------------------
(* The courses a click can take *)

\* The views from 0 to k - 1, and the one clicked.
Done(k, v) == {w \in Nat : w < k \/ w = v}

\* Views agree with the commands, but for those in S.
Elsewhere(S) ==
    \A w \in 0 .. menus : \A y \in InView(w) \ S : shown[w][y] = checked[y]

\* One exclusive command is checked, and every menu has noted it.
Only(S) == \A y \in Exclusive : checked[y] <=> y \in S
Steady(c) == Only({c}) /\ \A w \in 1 .. menus : current[w] = c

Resting == Quiet /\ Steady(chosen) /\ Elsewhere({})

\* x, which excludes nothing, becomes b: first in view v, where it was clicked.
Shows(x, b, S) ==
    \A w \in FirstView(x) .. menus : shown[w][x] = (IF w \in S THEN b ELSE ~b)

Flip1(v, x, b) ==
    /\ calls = Then(SetAction(v, x, b), NoCalls)
    /\ checked[x] = ~b /\ Shows(x, b, {})
Flip2(v, x, b) ==
    /\ calls = Then(SetCommand(x, b), NoCalls)
    /\ checked[x] = ~b /\ Shows(x, b, {v})
Flip3(v, x, b, k) ==
    /\ calls = Told(menus, x, b, k, NoCalls)
    /\ checked[x] = b /\ Shows(x, b, Done(k, v))
Flip4(v, x, b, k) ==
    /\ k <= menus
    /\ calls = Then(SetCommand(x, b), Told(menus, x, b, k + 1, NoCalls))
    /\ checked[x] = b /\ Shows(x, b, Done(k + 1, v))

Flipping(v, x, b, k) ==
    /\ x \in Command \ Exclusive /\ b \in BOOLEAN
    /\ v \in FirstView(x) .. menus /\ k \in FirstView(x) .. menus + 1
    /\ Steady(chosen) /\ Elsewhere({x})
    /\ Flip1(v, x, b) \/ Flip2(v, x, b) \/ Flip3(v, x, b, k) \/ Flip4(v, x, b, k)

\* c takes the place of o: o is unchecked in the menus of off and c is checked
\* in those of on; the groups of left have forgotten o, those of at noted c.
Group(o, c, off, on, left, at) ==
    \A w \in 1 .. menus :
        /\ shown[w][o] <=> w \notin off
        /\ shown[w][c] <=> w \in on
        /\ current[w] = IF w \in at THEN c ELSE IF w \in left THEN None ELSE o

Setting(v, o, c) ==
    /\ c = chosen /\ o \in Exclusive /\ o # c /\ v \in 1 .. menus
    /\ Elsewhere({o, c})

EndOf(v, c) == Then(MakeCurrent(v, c), Then(SetCommand(c, TRUE), NoCalls))

\* In menu v, which was clicked: c comes on, o goes off.
Swap1(v, o, c) ==
    /\ calls = Then(SetAction(v, c, TRUE), NoCalls)
    /\ Only({o}) /\ Group(o, c, {}, {}, {}, {})
Swap2(v, o, c) ==
    /\ calls = Then(Changed(v, c), Then(SetCommand(c, TRUE), NoCalls))
    /\ Only({o}) /\ Group(o, c, {}, {v}, {}, {})
Swap3(v, o, c) ==
    /\ calls = Then(SetAction(v, o, FALSE), EndOf(v, c))
    /\ Only({o}) /\ Group(o, c, {}, {v}, {}, {})
Swap4(v, o, c) ==
    /\ calls = Then(Changed(v, o), Then(SetCommand(o, FALSE), EndOf(v, c)))
    /\ Only({o}) /\ Group(o, c, {v}, {v}, {}, {})
Swap5(v, o, c) ==
    /\ calls = Then(SetCommand(o, FALSE), EndOf(v, c))
    /\ Only({o}) /\ Group(o, c, {v}, {v}, {v}, {})
\* The other menus hear that o is unchecked ...
Swap6(v, o, c, k) ==
    /\ calls = Told(menus, o, FALSE, k, EndOf(v, c))
    /\ Only({}) /\ Group(o, c, Done(k, v), {v}, Done(k, v), {})
Swap7(v, o, c, k) ==
    /\ k <= menus /\ k # v
    /\ calls = Then(Changed(k, o), Then(SetCommand(o, FALSE),
                    Told(menus, o, FALSE, k + 1, EndOf(v, c))))
    /\ Only({}) /\ Group(o, c, Done(k + 1, v), {v}, Done(k, v), {})
Swap8(v, o, c, k) ==
    /\ k <= menus /\ k # v
    /\ calls = Then(SetCommand(o, FALSE), Told(menus, o, FALSE, k + 1, EndOf(v, c)))
    /\ Only({}) /\ Group(o, c, Done(k + 1, v), {v}, Done(k + 1, v), {})
\* ... and then that c is checked.
Swap9(v, o, c) ==
    /\ calls = Then(SetCommand(c, TRUE), NoCalls)
    /\ Only({}) /\ Group(o, c, Nat, {v}, Nat, {v})
Swap10(v, o, c, k) ==
    /\ calls = Told(menus, c, TRUE, k, NoCalls)
    /\ Only({c}) /\ Group(o, c, Nat, Done(k, v), Nat, Done(k, v))
Swap11(v, o, c, k) ==
    /\ k <= menus /\ k # v
    /\ \E a \in {Changed(k, c), MakeCurrent(k, c)} :
           calls = Then(a, Then(SetCommand(c, TRUE),
                                Told(menus, c, TRUE, k + 1, NoCalls)))
    /\ Only({c}) /\ Group(o, c, Nat, Done(k + 1, v), Nat, Done(k, v))
Swap12(v, o, c, k) ==
    /\ k <= menus /\ k # v
    /\ calls = Then(SetCommand(c, TRUE), Told(menus, c, TRUE, k + 1, NoCalls))
    /\ Only({c}) /\ Group(o, c, Nat, Done(k + 1, v), Nat, Done(k + 1, v))

Swapping(v, o, c, k) ==
    /\ Setting(v, o, c) /\ k \in 1 .. menus + 1
    /\ \/ Swap1(v, o, c) \/ Swap2(v, o, c) \/ Swap3(v, o, c) \/ Swap4(v, o, c)
       \/ Swap5(v, o, c) \/ Swap6(v, o, c, k) \/ Swap7(v, o, c, k) \/ Swap8(v, o, c, k)
       \/ Swap9(v, o, c) \/ Swap10(v, o, c, k) \/ Swap11(v, o, c, k)
       \/ Swap12(v, o, c, k)

IInv ==
    /\ Typed
    /\ \/ Resting
       \/ \E v, x, b, k : Flipping(v, x, b, k)
       \/ \E v, o, c, k : Swapping(v, o, c, k)

-----------------------------------------------------------------------------
(* A command that excludes nothing *)

\* Only command x was touched.
LEMMA FlipKeeps ==
    ASSUME Typed, NEW x \in Command \ Exclusive, NEW S,
           menus' = menus, chosen' = chosen, current' = current,
           \A y \in Command \ {x} : checked'[y] = checked[y],
           \A w \in 0 .. menus : \A y \in InView(w) \ {x} : shown'[w][y] = shown[w][y],
           Steady(chosen), Elsewhere({x})
    PROVE  Steady(chosen)' /\ Elsewhere({x})'
<1>1. menus \in Nat
  BY Sets DEF Typed
<1>2. \A y \in Exclusive : checked'[y] = checked[y]
  BY Sets
<1>3. \A w \in 0 .. menus : InView(w) \subseteq Command
  BY <1>1, Sets
<1>4. Steady(chosen)'
  BY <1>2 DEF Steady, Only
<1>5. Elsewhere({x})'
  BY <1>3 DEF Elsewhere
<1> QED BY <1>4, <1>5

LEMMA FlipViews ==
    ASSUME Typed, NEW x \in Command
    PROVE  /\ FirstView(x) \in {0, 1}
           /\ \A w \in FirstView(x) .. menus : w \in 0 .. menus /\ x \in InView(w)
           /\ \A w \in 0 .. menus : x \in InView(w) => w \in FirstView(x) .. menus
<1>1. menus \in Nat
  BY Sets DEF Typed
<1> QED BY <1>1 DEF FirstView, Toolbar, InView

LEMMA FlipStep ==
    ASSUME Typed, NEW v, NEW x, NEW b, NEW k, Flipping(v, x, b, k), CallNext, ~Quiet
    PROVE  Typed' /\ \E j : Flipping(v, x, b, j)'
<1>1. /\ x \in Command /\ x \notin Exclusive /\ b \in BOOLEAN
      /\ v \in FirstView(x) .. menus /\ k \in FirstView(x) .. menus + 1
      /\ Steady(chosen) /\ Elsewhere({x})
  BY DEF Flipping
<1>2. menus \in 0 .. MaxMenus /\ menus \in Nat
  BY Sets DEF Typed
<1>3. /\ FirstView(x) \in {0, 1} /\ v \in 0 .. menus /\ k \in 0 .. menus + 1
      /\ v \in Nat /\ k \in Nat /\ x \in InView(v) /\ v \in View
      /\ \A w \in FirstView(x) .. menus : w \in 0 .. menus /\ x \in InView(w) /\ w \in Nat
      /\ FirstView(x) \in FirstView(x) .. menus + 1
  <2>1. FirstView(x) \in {0, 1}
    BY <1>1, FlipViews
  <2>2. /\ v \in 0 .. menus /\ k \in 0 .. menus + 1 /\ v \in Nat /\ k \in Nat
        /\ FirstView(x) \in FirstView(x) .. menus + 1
    BY <1>1, <1>2, <2>1
  <2>3. \A w \in FirstView(x) .. menus : w \in 0 .. menus /\ x \in InView(w) /\ w \in Nat
    BY <1>1, <1>2, FlipViews
  <2>4. v \in View
    BY <1>2, <2>2, Sets
  <2> QED BY <1>1, <2>1, <2>2, <2>3, <2>4
<1>4. SetCommand(x, b) \in Call
  BY <1>1, <1>3, CallsAre
<1>0. NoCalls \in Seq(Call)
  BY NoCallsIs
<1>5. CASE Flip1(v, x, b)
  <2>1. /\ Typed' /\ menus' = menus /\ chosen' = chosen
        /\ checked' = checked /\ current' = current
        /\ \A w \in 0 .. menus : \A y \in InView(w) :
                  shown'[w][y] = IF w = v /\ y = x THEN b ELSE shown[w][y]
        /\ calls' = IF shown[v][x] = b THEN NoCalls
                    ELSE IF v # 0 /\ x \in Exclusive
                    THEN Then(Changed(v, x), Then(SetCommand(x, b), NoCalls))
                    ELSE Then(SetCommand(x, b), NoCalls)
    <3>1. calls = Then(SetAction(v, x, b), NoCalls)
      BY <1>5 DEF Flip1
    <3> QED BY <1>0, <1>1, <1>3, <3>1, AfterSetAction
  <2>2. shown[v][x] # b
    BY <1>1, <1>5 DEF Flip1, Shows
  <2>3. calls' = Then(SetCommand(x, b), NoCalls)
    BY <1>1, <2>1, <2>2
  <2>4. Shows(x, b, {v})'
    BY <1>3, <1>5, <2>1 DEF Flip1, Shows
  <2>5. Flip2(v, x, b)'
    BY <1>5, <2>1, <2>3, <2>4 DEF Flip1, Flip2
  <2>6. Steady(chosen)' /\ Elsewhere({x})'
    BY <1>1, <2>1, FlipKeeps
  <2> QED BY <1>1, <2>1, <2>5, <2>6 DEF Flipping
<1>6. CASE Flip2(v, x, b)
  <2>1. /\ Typed' /\ menus' = menus /\ chosen' = chosen
        /\ shown' = shown /\ current' = current
        /\ \A y \in Command : checked'[y] = IF y = x THEN b ELSE checked[y]
        /\ calls' = IF checked[x] = b THEN NoCalls
                    ELSE Told(menus, x, b, FirstView(x), NoCalls)
    BY <1>0, <1>1, <1>6, AfterSetCommand DEF Flip2
  <2>2. calls' = Told(menus, x, b, FirstView(x), NoCalls) /\ checked'[x] = b
    BY <1>1, <1>6, <2>1 DEF Flip2
  <2>3. Shows(x, b, Done(FirstView(x), v))'
    BY <1>3, <1>6, <2>1 DEF Flip2, Shows, Done
  <2>4. Flip3(v, x, b, FirstView(x))'
    BY <2>1, <2>2, <2>3 DEF Flip3
  <2>5. Steady(chosen)' /\ Elsewhere({x})'
    BY <1>1, <2>1, FlipKeeps
  <2> QED BY <1>1, <1>3, <2>1, <2>4, <2>5 DEF Flipping
<1>7. CASE Flip3(v, x, b, k)
  <2>1. k <= menus
    <3>1. k = menus + 1 => Told(menus, x, b, k, NoCalls) = NoCalls
      BY <1>0, <1>1, <1>2, <1>3, ToldFacts
    <3> QED BY <1>2, <1>3, <1>7, <3>1 DEF Flip3, Quiet, NoCalls
  <2>2. PICK S : S = Told(menus, x, b, k + 1, NoCalls)
    OBVIOUS
  <2>3. /\ S \in Seq(Call) /\ calls = Then(SetAction(k, x, b), S)
        /\ k \in 0 .. menus /\ x \in InView(k) /\ k \in FirstView(x) .. menus
    <3>1. k \in FirstView(x) .. menus /\ k + 1 \in 0 .. menus + 1
      BY <1>1, <1>2, <1>3, <2>1
    <3>2. k \in 0 .. menus /\ x \in InView(k)
      BY <1>3, <3>1
    <3>3. Told(menus, x, b, k, NoCalls) = Then(SetAction(k, x, b), S)
      BY <1>0, <1>1, <1>2, <1>3, <2>1, <2>2, ToldFacts
    <3>4. S \in Seq(Call)
      BY <1>0, <1>1, <1>2, <2>2, <3>1, ToldFacts
    <3> QED BY <1>7, <3>1, <3>2, <3>3, <3>4 DEF Flip3
  <2>4. /\ Typed' /\ menus' = menus /\ chosen' = chosen
        /\ checked' = checked /\ current' = current
        /\ \A w \in 0 .. menus : \A y \in InView(w) :
                  shown'[w][y] = IF w = k /\ y = x THEN b ELSE shown[w][y]
        /\ calls' = IF shown[k][x] = b THEN S
                    ELSE IF k # 0 /\ x \in Exclusive
                    THEN Then(Changed(k, x), Then(SetCommand(x, b), S))
                    ELSE Then(SetCommand(x, b), S)
    BY <1>1, <2>3, AfterSetAction
  <2>5. Shows(x, b, Done(k + 1, v))'
    BY <1>3, <1>7, <2>4 DEF Flip3, Shows, Done
  <2>6. Flip3(v, x, b, k + 1)' \/ Flip4(v, x, b, k)'
    BY <1>1, <1>7, <2>1, <2>2, <2>4, <2>5 DEF Flip3, Flip4
  <2>7. Steady(chosen)' /\ Elsewhere({x})'
    BY <1>1, <2>4, FlipKeeps
  <2>8. k + 1 \in FirstView(x) .. menus + 1
    BY <1>1, <1>2, <1>3, <2>1
  <2> QED BY <1>1, <2>4, <2>6, <2>7, <2>8 DEF Flipping
<1>8. CASE Flip4(v, x, b, k)
  <2>1. PICK S : S = Told(menus, x, b, k + 1, NoCalls)
    OBVIOUS
  <2>2. k + 1 \in 0 .. menus + 1 /\ k + 1 \in FirstView(x) .. menus + 1
    BY <1>1, <1>2, <1>3, <1>8 DEF Flip4
  <2>3. S \in Seq(Call) /\ calls = Then(SetCommand(x, b), S)
    BY <1>0, <1>1, <1>2, <1>8, <2>1, <2>2, ToldFacts DEF Flip4
  <2>4. /\ Typed' /\ menus' = menus /\ chosen' = chosen
        /\ shown' = shown /\ current' = current
        /\ \A y \in Command : checked'[y] = IF y = x THEN b ELSE checked[y]
        /\ calls' = IF checked[x] = b THEN S
                    ELSE Told(menus, x, b, FirstView(x), S)
    BY <1>1, <2>3, AfterSetCommand
  <2>5. calls' = Told(menus, x, b, k + 1, NoCalls) /\ checked'[x] = b
    BY <1>1, <1>8, <2>1, <2>4 DEF Flip4
  <2>6. Shows(x, b, Done(k + 1, v))'
    BY <1>8, <2>4 DEF Flip4, Shows
  <2>7. Flip3(v, x, b, k + 1)'
    BY <2>4, <2>5, <2>6 DEF Flip3
  <2>8. Steady(chosen)' /\ Elsewhere({x})'
    BY <1>1, <2>4, FlipKeeps
  <2> QED BY <1>1, <2>2, <2>4, <2>7, <2>8 DEF Flipping
<1> QED BY <1>5, <1>6, <1>7, <1>8 DEF Flipping

-----------------------------------------------------------------------------
(* A command that takes the place of another *)

LEMMA SettingIs ==
    ASSUME Typed, NEW v, NEW o, NEW c, Setting(v, o, c)
    PROVE  /\ o \in Exclusive /\ c \in Exclusive /\ o # c /\ o # None /\ c # None
           /\ o \in Command /\ c \in Command /\ v \in 1 .. menus
           /\ menus \in Nat /\ menus \in 0 .. MaxMenus
           /\ \A w \in 1 .. menus : /\ w \in 0 .. menus /\ w \in Nat /\ w # 0
                                    /\ w \in View /\ o \in InView(w) /\ c \in InView(w)
           /\ NoCalls \in Seq(Call)
           /\ Then(SetCommand(c, TRUE), NoCalls) \in Seq(Call)
           /\ EndOf(v, c) \in Seq(Call)
           /\ Then(SetCommand(o, FALSE), EndOf(v, c)) \in Seq(Call)
           /\ FirstView(o) = 1 /\ FirstView(c) = 1
<1>1. /\ o \in Exclusive /\ c \in Exclusive /\ o # c /\ v \in 1 .. menus
  BY DEF Setting, Typed
<1>2. o # None /\ c # None /\ o \in Command /\ c \in Command
  BY <1>1, Sets
<1>3. menus \in Nat /\ menus \in 0 .. MaxMenus
  BY Sets DEF Typed
<1>4. \A w \in 1 .. menus : w \in 0 .. menus /\ w \in Nat /\ w # 0
  BY <1>3
<1>5. \A w \in 1 .. menus : w \in View /\ o \in InView(w) /\ c \in InView(w)
  BY <1>2, <1>3, <1>4, Sets
<1>6. /\ SetCommand(c, TRUE) \in Call /\ SetCommand(o, FALSE) \in Call
      /\ MakeCurrent(v, c) \in Call
  BY <1>1, <1>2, <1>5, CallsAre
<1>7. Then(SetCommand(c, TRUE), NoCalls) \in Seq(Call)
  BY <1>6, NoCallsIs, ThenIs
<1>8. EndOf(v, c) \in Seq(Call)
  BY <1>6, <1>7, ThenIs DEF EndOf
<1>9. Then(SetCommand(o, FALSE), EndOf(v, c)) \in Seq(Call)
  BY <1>6, <1>8, ThenIs
<1>10. FirstView(o) = 1 /\ FirstView(c) = 1
  BY <1>1, <1>2, <1>3, EmitIs
<1> QED BY <1>1, <1>2, <1>3, <1>4, <1>5, <1>7, <1>8, <1>9, <1>10, NoCallsIs

\* Only commands o and c are touched.
LEMMA SettingStays ==
    ASSUME Typed, NEW v, NEW o, NEW c, Setting(v, o, c),
           menus' = menus, chosen' = chosen,
           \A y \in Command \ {o, c} : checked'[y] = checked[y],
           \A w \in 0 .. menus : \A y \in InView(w) \ {o, c} : shown'[w][y] = shown[w][y]
    PROVE  Setting(v, o, c)'
<1>1. menus \in Nat
  BY Sets DEF Typed
<1>2. \A w \in 0 .. menus : InView(w) \subseteq Command
  BY <1>1, Sets
<1>3. Elsewhere({o, c})'
  BY <1>2 DEF Elsewhere, Setting
<1> QED BY <1>3 DEF Setting

\* In the menu that was clicked.
LEMMA ClickedStep ==
    ASSUME Typed, NEW v, NEW o, NEW c, Setting(v, o, c), CallNext,
           \/ Swap1(v, o, c) \/ Swap2(v, o, c) \/ Swap3(v, o, c)
           \/ Swap4(v, o, c) \/ Swap5(v, o, c)
    PROVE  /\ Typed' /\ menus' = menus /\ Setting(v, o, c)'
           /\ \/ Swap2(v, o, c)' \/ Swap3(v, o, c)' \/ Swap4(v, o, c)'
              \/ Swap5(v, o, c)' \/ Swap6(v, o, c, 1)'
<1>1. /\ o \in Exclusive /\ c \in Exclusive /\ o # c /\ o # None /\ c # None
      /\ o \in Command /\ c \in Command /\ v \in 1 .. menus
      /\ menus \in Nat /\ menus \in 0 .. MaxMenus
      /\ \A w \in 1 .. menus : /\ w \in 0 .. menus /\ w \in Nat /\ w # 0 /\ w \in View
                               /\ o \in InView(w) /\ c \in InView(w)
      /\ NoCalls \in Seq(Call)
      /\ Then(SetCommand(c, TRUE), NoCalls) \in Seq(Call)
      /\ EndOf(v, c) \in Seq(Call)
      /\ Then(SetCommand(o, FALSE), EndOf(v, c)) \in Seq(Call)
      /\ FirstView(o) = 1 /\ FirstView(c) = 1
  BY SettingIs
<1>2. v \in 0 .. menus /\ v # 0 /\ o \in InView(v) /\ c \in InView(v)
  BY <1>1
<1>3. CASE Swap1(v, o, c)
  <2>1. /\ calls = Then(SetAction(v, c, TRUE), NoCalls)
        /\ Only({o}) /\ Group(o, c, {}, {}, {}, {})
    BY <1>3 DEF Swap1
  <2>2. PICK b \in BOOLEAN : b = TRUE
    OBVIOUS
  <2>3. NoCalls \in Seq(Call) /\ calls = Then(SetAction(v, c, b), NoCalls)
    BY <1>1, <2>1, <2>2
  <2>4. /\ Typed' /\ menus' = menus /\ chosen' = chosen
        /\ checked' = checked /\ current' = current
        /\ \A w \in 0 .. menus : \A y \in InView(w) :
               shown'[w][y] = IF w = v /\ y = c THEN b ELSE shown[w][y]
        /\ calls' = IF shown[v][c] = b THEN NoCalls
                    ELSE IF v # 0 /\ c \in Exclusive
                    THEN Then(Changed(v, c), Then(SetCommand(c, b), NoCalls))
                    ELSE Then(SetCommand(c, b), NoCalls)
    BY <1>2, <2>3, AfterSetAction
  <2>5. calls' = Then(Changed(v, c), Then(SetCommand(c, TRUE), NoCalls))
    BY <1>1, <1>2, <2>1, <2>4, <2>2 DEF Group
  <2>6. Group(o, c, {}, {v}, {}, {})'
    <3>1. \A w \in 1 .. menus : /\ shown'[w][o] = shown[w][o]
                               /\ shown'[w][c] = IF w = v THEN TRUE ELSE shown[w][c]
      BY <1>1, <2>4, <2>2
    <3> QED BY <1>1, <2>1, <2>4, <3>1 DEF Group
  <2>7. Swap2(v, o, c)'
    BY <2>1, <2>4, <2>5, <2>6 DEF Swap2, Only
  <2>8. Setting(v, o, c)'
    BY <2>4, SettingStays
  <2> QED BY <2>4, <2>7, <2>8
<1>4. CASE Swap2(v, o, c)
  <2> DEFINE S == Then(SetCommand(c, TRUE), NoCalls)
  <2>1. /\ calls = Then(Changed(v, c), S)
        /\ Only({o}) /\ Group(o, c, {}, {v}, {}, {})
    BY <1>4 DEF Swap2
  <2>2. S \in Seq(Call)
    BY <1>1
  <2> HIDE DEF S
  <2>3. shown[v][c] /\ current[v] = o
    BY <1>1, <2>1 DEF Group
  <2>4. /\ Typed' /\ menus' = menus /\ chosen' = chosen
        /\ checked' = checked /\ shown' = shown
        /\ \A w \in 0 .. menus :
               current'[w] = IF w = v /\ ~shown[v][c] /\ current[v] = c THEN None
                             ELSE current[w]
        /\ shown[v][c] /\ current[v] \notin {c, None} =>
               calls' = Then(SetAction(v, current[v], FALSE), Then(MakeCurrent(v, c), S))
    BY <1>1, <2>1, <2>2, AfterChanged
  <2>5. calls' = Then(SetAction(v, o, FALSE), EndOf(v, c))
    BY <1>1, <2>3, <2>4 DEF EndOf, S
  <2>6. Group(o, c, {}, {v}, {}, {})'
    BY <1>1, <2>1, <2>3, <2>4 DEF Group
  <2>7. Swap3(v, o, c)'
    BY <2>1, <2>4, <2>5, <2>6 DEF Swap3, Only
  <2>8. Setting(v, o, c)'
    BY <2>4, SettingStays
  <2> QED BY <2>4, <2>7, <2>8
<1>5. CASE Swap3(v, o, c)
  <2> DEFINE S == EndOf(v, c)
  <2>1. /\ calls = Then(SetAction(v, o, FALSE), S)
        /\ Only({o}) /\ Group(o, c, {}, {v}, {}, {})
    BY <1>5 DEF Swap3
  <2>2. S \in Seq(Call)
    BY <1>1
  <2> HIDE DEF S
  <2>3. PICK b \in BOOLEAN : b = FALSE
    OBVIOUS
  <2>4. calls = Then(SetAction(v, o, b), S)
    BY <2>1, <2>3
  <2>5. /\ Typed' /\ menus' = menus /\ chosen' = chosen
        /\ checked' = checked /\ current' = current
        /\ \A w \in 0 .. menus : \A y \in InView(w) :
               shown'[w][y] = IF w = v /\ y = o THEN b ELSE shown[w][y]
        /\ calls' = IF shown[v][o] = b THEN S
                    ELSE IF v # 0 /\ o \in Exclusive
                    THEN Then(Changed(v, o), Then(SetCommand(o, b), S))
                    ELSE Then(SetCommand(o, b), S)
    BY <1>2, <2>2, <2>4, AfterSetAction
  <2>6. calls' = Then(Changed(v, o), Then(SetCommand(o, FALSE), EndOf(v, c)))
    BY <1>1, <1>2, <2>3, <2>1, <2>5 DEF Group, S
  <2>7. Group(o, c, {v}, {v}, {}, {})'
    <3>1. \A w \in 1 .. menus : /\ shown'[w][o] = IF w = v THEN FALSE ELSE shown[w][o]
                               /\ shown'[w][c] = shown[w][c]
      BY <1>1, <2>3, <2>5
    <3> QED BY <1>1, <2>1, <2>5, <3>1 DEF Group
  <2>8. Swap4(v, o, c)'
    BY <2>1, <2>5, <2>6, <2>7 DEF Swap4, Only
  <2>9. Setting(v, o, c)'
    BY <2>5, SettingStays
  <2> QED BY <2>5, <2>8, <2>9
<1>6. CASE Swap4(v, o, c)
  <2> DEFINE S == Then(SetCommand(o, FALSE), EndOf(v, c))
  <2>1. /\ calls = Then(Changed(v, o), S)
        /\ Only({o}) /\ Group(o, c, {v}, {v}, {}, {})
    BY <1>6 DEF Swap4
  <2>2. S \in Seq(Call)
    BY <1>1
  <2> HIDE DEF S
  <2>3. ~shown[v][o] /\ current[v] = o
    BY <1>1, <2>1 DEF Group
  <2>4. /\ Typed' /\ menus' = menus /\ chosen' = chosen
        /\ checked' = checked /\ shown' = shown
        /\ \A w \in 0 .. menus :
               current'[w] = IF w = v /\ ~shown[v][o] /\ current[v] = o THEN None
                             ELSE current[w]
        /\ ~shown[v][o] => calls' = S
    BY <1>1, <2>1, <2>2, AfterChanged
  <2>5. calls' = Then(SetCommand(o, FALSE), EndOf(v, c))
    BY <2>3, <2>4 DEF S
  <2>6. Group(o, c, {v}, {v}, {v}, {})'
    BY <1>1, <2>1, <2>3, <2>4 DEF Group
  <2>7. Swap5(v, o, c)'
    BY <2>1, <2>4, <2>5, <2>6 DEF Swap5, Only
  <2>8. Setting(v, o, c)'
    BY <2>4, SettingStays
  <2> QED BY <2>4, <2>7, <2>8
<1>7. CASE Swap5(v, o, c)
  <2> DEFINE S == EndOf(v, c)
  <2>1. /\ calls = Then(SetCommand(o, FALSE), S)
        /\ Only({o}) /\ Group(o, c, {v}, {v}, {v}, {})
    BY <1>7 DEF Swap5
  <2>2. S \in Seq(Call)
    BY <1>1
  <2> HIDE DEF S
  <2>3. /\ Typed' /\ menus' = menus /\ chosen' = chosen
        /\ shown' = shown /\ current' = current
        /\ \A y \in Command : checked'[y] = IF y = o THEN FALSE ELSE checked[y]
        /\ calls' = IF checked[o] = FALSE THEN S
                    ELSE Told(menus, o, FALSE, FirstView(o), S)
    BY <1>1, <2>1, <2>2, AfterSetCommand
  <2>4. calls' = Told(menus, o, FALSE, 1, EndOf(v, c))
    BY <1>1, <2>1, <2>3 DEF Only, S
  <2>5. Only({})'
    BY <2>1, <2>3, Sets DEF Only
  <2>6. Group(o, c, Done(1, v), {v}, Done(1, v), {})'
    BY <1>1, <2>1, <2>3 DEF Group, Done
  <2>7. Swap6(v, o, c, 1)'
    BY <2>3, <2>4, <2>5, <2>6 DEF Swap6
  <2>8. Setting(v, o, c)'
    BY <2>3, SettingStays
  <2> QED BY <2>3, <2>7, <2>8
<1> QED BY <1>3, <1>4, <1>5, <1>6, <1>7

\* The view that hears next.
LEMMA NextView ==
    ASSUME Typed, NEW k \in 1 .. menus + 1
    PROVE  /\ menus \in Nat /\ k \in Nat /\ k # 0 /\ k \in 0 .. menus + 1
           /\ k <= menus \/ k = menus + 1
           /\ k <= menus => /\ k \in 1 .. menus /\ k \in 0 .. menus
                            /\ k + 1 \in 0 .. menus + 1 /\ k + 1 \in 1 .. menus + 1
                            /\ k # menus + 1
           /\ k = menus + 1 => \A w \in 1 .. menus : w < k
<1>1. menus \in Nat
  BY Sets DEF Typed
<1> QED BY <1>1

\* The calls by which the views from k on hear of o, and then of c.
Offs(v, o, c, k) == Told(menus, o, FALSE, k, EndOf(v, c))
Ons(c, k) == Told(menus, c, TRUE, k, NoCalls)

LEMMA SettingTold ==
    ASSUME Typed, NEW v, NEW o, NEW c, Setting(v, o, c), NEW k \in 1 .. menus + 1
    PROVE  /\ Offs(v, o, c, k) \in Seq(Call) /\ Ons(c, k) \in Seq(Call)
           /\ k = menus + 1 => Offs(v, o, c, k) = EndOf(v, c) /\ Ons(c, k) = NoCalls
           /\ k <= menus =>
                  /\ Offs(v, o, c, k) = Then(SetAction(k, o, FALSE), Offs(v, o, c, k + 1))
                  /\ Ons(c, k) = Then(SetAction(k, c, TRUE), Ons(c, k + 1))
<1>1. /\ o \in Command /\ c \in Command /\ menus \in 0 .. MaxMenus
      /\ NoCalls \in Seq(Call) /\ EndOf(v, c) \in Seq(Call)
  BY SettingIs
<1>2. k \in 0 .. menus + 1
  BY NextView
<1>3. PICK f \in BOOLEAN, t \in BOOLEAN : f = FALSE /\ t = TRUE
  OBVIOUS
<1>4. PICK E \in Seq(Call), N \in Seq(Call) : E = EndOf(v, c) /\ N = NoCalls
  BY <1>1
<1>5. PICK m \in 0 .. MaxMenus : m = menus /\ k \in 0 .. m + 1
  BY <1>1, <1>2
<1>6. /\ Told(m, o, f, k, E) \in Seq(Call)
      /\ k = m + 1 => Told(m, o, f, k, E) = E
      /\ k <= m => Told(m, o, f, k, E) = Then(SetAction(k, o, f), Told(m, o, f, k + 1, E))
  <2>1. o \in Command /\ k \in 0 .. m + 1
    BY <1>1, <1>5
  <2> QED BY <2>1, ToldIs
<1>7. /\ Told(m, c, t, k, N) \in Seq(Call)
      /\ k = m + 1 => Told(m, c, t, k, N) = N
      /\ k <= m => Told(m, c, t, k, N) = Then(SetAction(k, c, t), Told(m, c, t, k + 1, N))
  <2>1. c \in Command /\ k \in 0 .. m + 1
    BY <1>1, <1>5
  <2> QED BY <2>1, ToldIs
<1> QED BY <1>3, <1>4, <1>5, <1>6, <1>7 DEF Offs, Ons

LEMMA OffsEnd ==
    ASSUME Typed, NEW v, NEW o, NEW c, Setting(v, o, c), NEW k, k = menus + 1
    PROVE  Offs(v, o, c, k) = EndOf(v, c)
<1>1. menus \in 0 .. MaxMenus /\ menus \in Nat
  BY Sets DEF Typed
<1>2. o \in Command /\ EndOf(v, c) \in Seq(Call)
  BY SettingIs
<1>3. PICK f \in BOOLEAN : f = FALSE
  OBVIOUS
<1>4. k \in 0 .. menus + 1
  BY <1>1
<1>5. Told(menus, o, f, k, EndOf(v, c)) = EndOf(v, c)
  BY <1>1, <1>2, <1>4, ToldFacts
<1> QED BY <1>3, <1>5 DEF Offs

\* One more view has heard.
LEMMA DoneNext ==
    ASSUME NEW k \in Nat, NEW v
    PROVE  /\ \A w \in Nat : w \in Done(k + 1, v) <=> w = k \/ w \in Done(k, v)
           /\ k \in Done(k, v) <=> k = v
           /\ k \in Done(k + 1, v)
BY DEF Done

\* The other menus, one after the other.
LEMMA OffStep ==
    ASSUME Typed, NEW v, NEW o, NEW c, Setting(v, o, c), CallNext,
           NEW k \in 1 .. menus + 1, Swap6(v, o, c, k)
    PROVE  /\ Typed' /\ menus' = menus /\ Setting(v, o, c)'
           /\ \/ k <= menus /\ Swap6(v, o, c, k + 1)'
              \/ Swap7(v, o, c, k)'
              \/ Swap9(v, o, c)'
<1>1. /\ o \in Exclusive /\ c \in Exclusive /\ o # c /\ o # None /\ c # None
      /\ o \in Command /\ c \in Command /\ v \in 1 .. menus
      /\ menus \in Nat /\ menus \in 0 .. MaxMenus
      /\ \A w \in 1 .. menus : /\ w \in 0 .. menus /\ w \in Nat /\ w # 0 /\ w \in View
                               /\ o \in InView(w) /\ c \in InView(w)
      /\ NoCalls \in Seq(Call)
      /\ Then(SetCommand(c, TRUE), NoCalls) \in Seq(Call)
      /\ EndOf(v, c) \in Seq(Call)
      /\ Then(SetCommand(o, FALSE), EndOf(v, c)) \in Seq(Call)
      /\ FirstView(o) = 1 /\ FirstView(c) = 1
  BY SettingIs
<1>2. /\ k \in Nat /\ k # 0 /\ k \in 0 .. menus + 1
      /\ k <= menus \/ k = menus + 1
      /\ k <= menus => /\ k \in 1 .. menus /\ k \in 0 .. menus
                       /\ k + 1 \in 0 .. menus + 1 /\ k + 1 \in 1 .. menus + 1
                       /\ k # menus + 1
  BY NextView
<1>3. /\ calls = Told(menus, o, FALSE, k, EndOf(v, c))
      /\ Only({}) /\ Group(o, c, Done(k, v), {v}, Done(k, v), {})
  BY DEF Swap6
<1>4. CASE k <= menus
  <2>1. PICK S : S = Told(menus, o, FALSE, k + 1, EndOf(v, c))
    OBVIOUS
  <2>2. PICK b \in BOOLEAN : b = FALSE
    OBVIOUS
  <2>3. k \in 1 .. menus /\ k + 1 \in 1 .. menus + 1
    BY <1>2, <1>4
  <2>4. S \in Seq(Call) /\ calls = Then(SetAction(k, o, b), S)
    <3>1. S \in Seq(Call)
      BY <2>1, <2>3, SettingTold DEF Offs
    <3>2. calls = Then(SetAction(k, o, FALSE), S)
      <4>1. Offs(v, o, c, k) = Then(SetAction(k, o, FALSE), Offs(v, o, c, k + 1))
        BY <1>4, SettingTold
      <4> QED BY <1>3, <2>1, <4>1 DEF Offs
    <3> QED BY <2>2, <3>1, <3>2
  <2>5. k \in 0 .. menus /\ o \in InView(k)
    BY <1>1, <2>3
  <2>6. /\ Typed' /\ menus' = menus /\ chosen' = chosen
        /\ checked' = checked /\ current' = current
        /\ \A w \in 0 .. menus : \A y \in InView(w) :
               shown'[w][y] = IF w = k /\ y = o THEN b ELSE shown[w][y]
        /\ calls' = IF shown[k][o] = b THEN S
                    ELSE IF k # 0 /\ o \in Exclusive
                    THEN Then(Changed(k, o), Then(SetCommand(o, b), S))
                    ELSE Then(SetCommand(o, b), S)
    BY <2>4, <2>5, AfterSetAction
  <2>7. Setting(v, o, c)'
    BY <2>6, SettingStays
  <2>8. Only({})'
    BY <1>3, <2>6 DEF Only
  <2>9. \A w \in 1 .. menus : /\ shown'[w][o] = IF w = k THEN FALSE ELSE shown[w][o]
                              /\ shown'[w][c] = shown[w][c]
    BY <1>1, <2>2, <2>6
  <2>10. Group(o, c, Done(k + 1, v), {v}, Done(k, v), {})'
    <3>1. \A w \in 1 .. menus : w \in Nat
      BY <1>1
    <3>2. \A w \in 1 .. menus : w \in Done(k + 1, v) <=> w = k \/ w \in Done(k, v)
      BY <1>2, <3>1, DoneNext
    <3> QED BY <1>3, <2>6, <2>9, <3>2 DEF Group
  <2>11. CASE k = v
    <3>1. shown[k][o] = b
      <4>1. k \in Done(k, v)
        BY <1>2, <2>11, DoneNext
      <4>2. ~shown[k][o]
        BY <1>3, <2>3, <4>1 DEF Group
      <4>3. shown[k][o] \in BOOLEAN
        BY <2>5 DEF Typed
      <4> QED BY <2>2, <4>2, <4>3
    <3>2. calls' = Told(menus, o, FALSE, k + 1, EndOf(v, c))
      BY <2>1, <2>6, <3>1
    <3>3. \A w \in 1 .. menus : w \in Done(k + 1, v) <=> w \in Done(k, v)
      BY <1>1, <1>2, <2>11, DoneNext
    <3>4. Group(o, c, Done(k + 1, v), {v}, Done(k + 1, v), {})'
      BY <2>6, <2>10, <3>3 DEF Group
    <3>5. Swap6(v, o, c, k + 1)'
      BY <2>6, <2>8, <3>2, <3>4 DEF Swap6
    <3> QED BY <1>4, <2>6, <2>7, <3>5
  <2>12. CASE k # v
    <3>1. shown[k][o] # b
      <4>1. k \notin Done(k, v)
        BY <1>2, <2>12, DoneNext
      <4> QED BY <1>3, <2>2, <2>3, <4>1 DEF Group
    <3>2. calls' = Then(Changed(k, o), Then(SetCommand(o, FALSE),
                        Told(menus, o, FALSE, k + 1, EndOf(v, c))))
      BY <1>1, <2>1, <2>2, <2>3, <2>6, <3>1
    <3>3. Swap7(v, o, c, k)'
      BY <1>4, <2>6, <2>8, <2>10, <2>12, <3>2 DEF Swap7
    <3> QED BY <2>6, <2>7, <3>3
  <2> QED BY <2>11, <2>12
<1>5. CASE k = menus + 1
  <2>1. PICK S : S = Then(SetCommand(c, TRUE), NoCalls)
    OBVIOUS
  <2>2. S \in Seq(Call) /\ calls = Then(MakeCurrent(v, c), S)
    <3>0. Offs(v, o, c, k) = EndOf(v, c)
      BY <1>5, OffsEnd
    <3>1. Told(menus, o, FALSE, k, EndOf(v, c)) = EndOf(v, c)
      BY <1>5, <3>0 DEF Offs
    <3> QED BY <1>1, <1>3, <2>1, <3>1 DEF EndOf
  <2>3. /\ Typed' /\ menus' = menus /\ chosen' = chosen
        /\ checked' = checked /\ shown' = shown /\ calls' = S
        /\ \A w \in 0 .. menus : current'[w] = IF w = v THEN c ELSE current[w]
    BY <1>1, <2>2, AfterMakeCurrent
  <2>4. Setting(v, o, c)'
    BY <2>3, SettingStays
  <2>5. \A w \in 1 .. menus : w \in Done(k, v) /\ w \in Nat
    BY <1>1, <1>5 DEF Done
  <2>6. Group(o, c, Nat, {v}, Nat, {v})'
    BY <1>1, <1>3, <2>3, <2>5 DEF Group
  <2>7. Swap9(v, o, c)'
    BY <1>3, <2>1, <2>3, <2>6 DEF Swap9, Only
  <2> QED BY <2>3, <2>4, <2>7
<1> QED BY <1>1, <1>2, <1>4, <1>5

LEMMA ForgetStep ==
    ASSUME Typed, NEW v, NEW o, NEW c, Setting(v, o, c), CallNext,
           NEW k \in 1 .. menus + 1, Swap7(v, o, c, k) \/ Swap8(v, o, c, k)
    PROVE  /\ Typed' /\ menus' = menus /\ Setting(v, o, c)'
           /\ \/ Swap8(v, o, c, k)'
              \/ k <= menus /\ Swap6(v, o, c, k + 1)'
<1>1. /\ o \in Exclusive /\ c \in Exclusive /\ o # c /\ o # None /\ c # None
      /\ o \in Command /\ c \in Command /\ v \in 1 .. menus
      /\ menus \in Nat /\ menus \in 0 .. MaxMenus
      /\ \A w \in 1 .. menus : /\ w \in 0 .. menus /\ w \in Nat /\ w # 0 /\ w \in View
                               /\ o \in InView(w) /\ c \in InView(w)
      /\ NoCalls \in Seq(Call)
      /\ Then(SetCommand(c, TRUE), NoCalls) \in Seq(Call)
      /\ EndOf(v, c) \in Seq(Call)
      /\ Then(SetCommand(o, FALSE), EndOf(v, c)) \in Seq(Call)
      /\ FirstView(o) = 1 /\ FirstView(c) = 1
  BY SettingIs
<1>2. /\ k \in Nat /\ k # 0 /\ k \in 0 .. menus + 1
      /\ k <= menus \/ k = menus + 1
      /\ k <= menus => /\ k \in 1 .. menus /\ k \in 0 .. menus
                       /\ k + 1 \in 0 .. menus + 1 /\ k + 1 \in 1 .. menus + 1
                       /\ k # menus + 1
  BY NextView
<1>3. k <= menus /\ k # v /\ k \in 1 .. menus /\ k + 1 \in 1 .. menus + 1
  <2>1. k <= menus /\ k # v
    BY DEF Swap7, Swap8
  <2> QED BY <1>2, <2>1
<1>4. PICK S : S = Told(menus, o, FALSE, k + 1, EndOf(v, c))
  OBVIOUS
<1>5. S \in Seq(Call)
  BY <1>3, <1>4, SettingTold DEF Offs, Ons
<1>6. SetCommand(o, FALSE) \in Call
  BY <1>1, CallsAre
<1>7. CASE Swap7(v, o, c, k)
  <2>1. PICK R : R = Then(SetCommand(o, FALSE), S)
    OBVIOUS
  <2>2. R \in Seq(Call) /\ calls = Then(Changed(k, o), R)
    BY <1>4, <1>5, <1>6, <1>7, <2>1, ThenIs DEF Swap7
  <2>3. Only({}) /\ Group(o, c, Done(k + 1, v), {v}, Done(k, v), {})
    BY <1>7 DEF Swap7
  <2>4. ~shown[k][o] /\ current[k] = o
    BY <1>1, <1>2, <1>3, <2>3 DEF Group, Done
  <2>5. /\ Typed' /\ menus' = menus /\ chosen' = chosen
        /\ checked' = checked /\ shown' = shown
        /\ \A w \in 0 .. menus :
               current'[w] = IF w = k /\ ~shown[k][o] /\ current[k] = o THEN None
                             ELSE current[w]
        /\ ~shown[k][o] => calls' = R
    BY <1>1, <1>3, <2>2, AfterChanged
  <2>6. \A w \in 1 .. menus : current'[w] = IF w = k THEN None ELSE current[w]
    BY <1>1, <2>4, <2>5
  <2>7. \A w \in 1 .. menus : w \in Done(k + 1, v) <=> w = k \/ w \in Done(k, v)
    BY <1>1, <1>2 DEF Done
  <2>8. Group(o, c, Done(k + 1, v), {v}, Done(k + 1, v), {})'
    BY <2>3, <2>5, <2>6, <2>7 DEF Group
  <2>9. Swap8(v, o, c, k)'
    BY <1>3, <1>4, <2>1, <2>3, <2>4, <2>5, <2>8 DEF Swap8, Only
  <2>10. Setting(v, o, c)'
    BY <2>5, SettingStays
  <2> QED BY <2>5, <2>9, <2>10
<1>8. CASE Swap8(v, o, c, k)
  <2>1. /\ calls = Then(SetCommand(o, FALSE), S)
        /\ Only({}) /\ Group(o, c, Done(k + 1, v), {v}, Done(k + 1, v), {})
    BY <1>4, <1>8 DEF Swap8
  <2>2. /\ Typed' /\ menus' = menus /\ chosen' = chosen
        /\ shown' = shown /\ current' = current
        /\ \A y \in Command : checked'[y] = IF y = o THEN FALSE ELSE checked[y]
        /\ calls' = IF checked[o] = FALSE THEN S
                    ELSE Told(menus, o, FALSE, FirstView(o), S)
    BY <1>1, <1>5, <2>1, AfterSetCommand
  <2>3. checked[o] = FALSE
    BY <1>1, <2>1 DEF Only, Typed
  <2>4. Only({})'
    BY <2>1, <2>2, Sets DEF Only
  <2>5. Group(o, c, Done(k + 1, v), {v}, Done(k + 1, v), {})'
    BY <2>1, <2>2 DEF Group
  <2>6. Swap6(v, o, c, k + 1)'
    BY <1>4, <2>2, <2>3, <2>4, <2>5 DEF Swap6
  <2>7. Setting(v, o, c)'
    BY <2>2, SettingStays
  <2> QED BY <1>3, <2>2, <2>6, <2>7
<1> QED BY <1>7, <1>8

LEMMA TurnStep ==
    ASSUME Typed, NEW v, NEW o, NEW c, Setting(v, o, c), CallNext, Swap9(v, o, c)
    PROVE  /\ Typed' /\ menus' = menus /\ Setting(v, o, c)' /\ Swap10(v, o, c, 1)'
<1>1. /\ o \in Exclusive /\ c \in Exclusive /\ o # c /\ o # None /\ c # None
      /\ o \in Command /\ c \in Command /\ v \in 1 .. menus
      /\ menus \in Nat /\ menus \in 0 .. MaxMenus
      /\ \A w \in 1 .. menus : /\ w \in 0 .. menus /\ w \in Nat /\ w # 0 /\ w \in View
                               /\ o \in InView(w) /\ c \in InView(w)
      /\ NoCalls \in Seq(Call)
      /\ Then(SetCommand(c, TRUE), NoCalls) \in Seq(Call)
      /\ EndOf(v, c) \in Seq(Call)
      /\ Then(SetCommand(o, FALSE), EndOf(v, c)) \in Seq(Call)
      /\ FirstView(o) = 1 /\ FirstView(c) = 1
  BY SettingIs
<1>2. /\ calls = Then(SetCommand(c, TRUE), NoCalls)
      /\ Only({}) /\ Group(o, c, Nat, {v}, Nat, {v})
  BY DEF Swap9
<1>3. PICK b \in BOOLEAN : b = TRUE
  OBVIOUS
<1>4. NoCalls \in Seq(Call) /\ calls = Then(SetCommand(c, b), NoCalls)
  BY <1>1, <1>2, <1>3
<1>5. /\ Typed' /\ menus' = menus /\ chosen' = chosen
      /\ shown' = shown /\ current' = current
      /\ \A y \in Command : checked'[y] = IF y = c THEN b ELSE checked[y]
      /\ calls' = IF checked[c] = b THEN NoCalls
                  ELSE Told(menus, c, b, FirstView(c), NoCalls)
  BY <1>1, <1>4, AfterSetCommand
<1>6. checked[c] # b
  BY <1>1, <1>2, <1>3 DEF Only
<1>7. calls' = Told(menus, c, TRUE, 1, NoCalls)
  BY <1>1, <1>3, <1>5, <1>6
<1>8. Only({c})'
  BY <1>1, <1>2, <1>3, <1>5, Sets DEF Only
<1>9. Group(o, c, Nat, Done(1, v), Nat, Done(1, v))'
  BY <1>1, <1>2, <1>5 DEF Group, Done
<1>10. Swap10(v, o, c, 1)'
  BY <1>5, <1>7, <1>8, <1>9 DEF Swap10
<1>11. Setting(v, o, c)'
  BY <1>5, SettingStays
<1> QED BY <1>5, <1>10, <1>11

LEMMA OnStep ==
    ASSUME Typed, NEW v, NEW o, NEW c, Setting(v, o, c), CallNext, ~Quiet,
           NEW k \in 1 .. menus + 1, Swap10(v, o, c, k)
    PROVE  /\ Typed' /\ menus' = menus /\ Setting(v, o, c)'
           /\ \/ k <= menus /\ Swap10(v, o, c, k + 1)'
              \/ Swap11(v, o, c, k)'
<1>1. /\ o \in Exclusive /\ c \in Exclusive /\ o # c /\ o # None /\ c # None
      /\ o \in Command /\ c \in Command /\ v \in 1 .. menus
      /\ menus \in Nat /\ menus \in 0 .. MaxMenus
      /\ \A w \in 1 .. menus : /\ w \in 0 .. menus /\ w \in Nat /\ w # 0 /\ w \in View
                               /\ o \in InView(w) /\ c \in InView(w)
      /\ NoCalls \in Seq(Call)
      /\ Then(SetCommand(c, TRUE), NoCalls) \in Seq(Call)
      /\ EndOf(v, c) \in Seq(Call)
      /\ Then(SetCommand(o, FALSE), EndOf(v, c)) \in Seq(Call)
      /\ FirstView(o) = 1 /\ FirstView(c) = 1
  BY SettingIs
<1>2. /\ k \in Nat /\ k # 0 /\ k \in 0 .. menus + 1
      /\ k <= menus \/ k = menus + 1
      /\ k <= menus => /\ k \in 1 .. menus /\ k \in 0 .. menus
                       /\ k + 1 \in 0 .. menus + 1 /\ k + 1 \in 1 .. menus + 1
                       /\ k # menus + 1
  BY NextView
<1>3. /\ calls = Told(menus, c, TRUE, k, NoCalls)
      /\ Only({c}) /\ Group(o, c, Nat, Done(k, v), Nat, Done(k, v))
  BY DEF Swap10
<1>4. k <= menus
  <2>1. k = menus + 1 => Told(menus, c, TRUE, k, NoCalls) = NoCalls
    BY SettingTold DEF Ons
  <2>2. calls # NoCalls
    BY DEF Quiet, NoCalls
  <2> QED BY <1>2, <1>3, <2>1, <2>2
<1>5. PICK S : S = Told(menus, c, TRUE, k + 1, NoCalls)
  OBVIOUS
<1>6. PICK b \in BOOLEAN : b = TRUE
  OBVIOUS
<1>7. k \in 1 .. menus /\ k + 1 \in 1 .. menus + 1
  BY <1>2, <1>4
<1>8. S \in Seq(Call) /\ calls = Then(SetAction(k, c, b), S)
  <2>1. S \in Seq(Call)
    BY <1>5, <1>7, SettingTold DEF Ons
  <2>2. calls = Then(SetAction(k, c, TRUE), S)
    <3>1. Ons(c, k) = Then(SetAction(k, c, TRUE), Ons(c, k + 1))
      BY <1>4, SettingTold
    <3> QED BY <1>3, <1>5, <3>1 DEF Ons
  <2> QED BY <1>6, <2>1, <2>2
<1>9. k \in 0 .. menus /\ c \in InView(k)
  BY <1>1, <1>7
<1>10. /\ Typed' /\ menus' = menus /\ chosen' = chosen
       /\ checked' = checked /\ current' = current
       /\ \A w \in 0 .. menus : \A y \in InView(w) :
              shown'[w][y] = IF w = k /\ y = c THEN b ELSE shown[w][y]
       /\ calls' = IF shown[k][c] = b THEN S
                   ELSE IF k # 0 /\ c \in Exclusive
                   THEN Then(Changed(k, c), Then(SetCommand(c, b), S))
                   ELSE Then(SetCommand(c, b), S)
  BY <1>8, <1>9, AfterSetAction
<1>11. Setting(v, o, c)'
  BY <1>10, SettingStays
<1>12. Only({c})'
  BY <1>3, <1>10 DEF Only
<1>13. \A w \in 1 .. menus : /\ shown'[w][c] = IF w = k THEN TRUE ELSE shown[w][c]
                             /\ shown'[w][o] = shown[w][o]
  BY <1>1, <1>6, <1>10
<1>14. Group(o, c, Nat, Done(k + 1, v), Nat, Done(k, v))'
  <2>1. \A w \in 1 .. menus : w \in Done(k + 1, v) <=> w = k \/ w \in Done(k, v)
    BY <1>1, <1>2, DoneNext
  <2> QED BY <1>3, <1>10, <1>13, <2>1 DEF Group
<1>15. CASE k = v
  <2>1. shown[k][c] = b
    <3>1. k \in Done(k, v)
      BY <1>2, <1>15, DoneNext
    <3>2. shown[k][c]
      BY <1>3, <1>7, <3>1 DEF Group
    <3>3. shown[k][c] \in BOOLEAN
      BY <1>9 DEF Typed
    <3> QED BY <1>6, <3>2, <3>3
  <2>2. calls' = Told(menus, c, TRUE, k + 1, NoCalls)
    BY <1>5, <1>10, <2>1
  <2>3. \A w \in 1 .. menus : w \in Done(k + 1, v) <=> w \in Done(k, v)
    BY <1>1, <1>2, <1>15, DoneNext
  <2>4. Group(o, c, Nat, Done(k + 1, v), Nat, Done(k + 1, v))'
    BY <1>10, <1>14, <2>3 DEF Group
  <2>5. Swap10(v, o, c, k + 1)'
    BY <1>10, <1>12, <2>2, <2>4 DEF Swap10
  <2> QED BY <1>4, <1>10, <1>11, <2>5
<1>16. CASE k # v
  <2>1. shown[k][c] # b
    <3>1. k \notin Done(k, v)
      BY <1>2, <1>16, DoneNext
    <3> QED BY <1>3, <1>6, <1>7, <3>1 DEF Group
  <2>2. calls' = Then(Changed(k, c), Then(SetCommand(c, TRUE),
                      Told(menus, c, TRUE, k + 1, NoCalls)))
    BY <1>1, <1>5, <1>6, <1>7, <1>10, <2>1
  <2>3. Swap11(v, o, c, k)'
    BY <1>4, <1>10, <1>12, <1>14, <1>16, <2>2 DEF Swap11
  <2> QED BY <1>10, <1>11, <2>3
<1> QED BY <1>15, <1>16

LEMMA NoteStep ==
    ASSUME Typed, NEW v, NEW o, NEW c, Setting(v, o, c), CallNext,
           NEW k \in 1 .. menus + 1, Swap11(v, o, c, k) \/ Swap12(v, o, c, k)
    PROVE  /\ Typed' /\ menus' = menus /\ Setting(v, o, c)'
           /\ \/ Swap11(v, o, c, k)' \/ Swap12(v, o, c, k)'
              \/ k <= menus /\ Swap10(v, o, c, k + 1)'
<1>1. /\ o \in Exclusive /\ c \in Exclusive /\ o # c /\ o # None /\ c # None
      /\ o \in Command /\ c \in Command /\ v \in 1 .. menus
      /\ menus \in Nat /\ menus \in 0 .. MaxMenus
      /\ \A w \in 1 .. menus : /\ w \in 0 .. menus /\ w \in Nat /\ w # 0 /\ w \in View
                               /\ o \in InView(w) /\ c \in InView(w)
      /\ NoCalls \in Seq(Call)
      /\ Then(SetCommand(c, TRUE), NoCalls) \in Seq(Call)
      /\ EndOf(v, c) \in Seq(Call)
      /\ Then(SetCommand(o, FALSE), EndOf(v, c)) \in Seq(Call)
      /\ FirstView(o) = 1 /\ FirstView(c) = 1
  BY SettingIs
<1>2. /\ k \in Nat /\ k # 0 /\ k \in 0 .. menus + 1
      /\ k <= menus \/ k = menus + 1
      /\ k <= menus => /\ k \in 1 .. menus /\ k \in 0 .. menus
                       /\ k + 1 \in 0 .. menus + 1 /\ k + 1 \in 1 .. menus + 1
                       /\ k # menus + 1
  BY NextView
<1>3. k <= menus /\ k # v /\ k \in 1 .. menus /\ k + 1 \in 1 .. menus + 1
  <2>1. k <= menus /\ k # v
    BY DEF Swap11, Swap12
  <2> QED BY <1>2, <2>1
<1>4. PICK S : S = Told(menus, c, TRUE, k + 1, NoCalls)
  OBVIOUS
<1>5. S \in Seq(Call)
  BY <1>3, <1>4, SettingTold DEF Offs, Ons
<1>6. PICK R : R = Then(SetCommand(c, TRUE), S)
  OBVIOUS
<1>7. R \in Seq(Call)
  <2>1. SetCommand(c, TRUE) \in Call
    BY <1>1, CallsAre
  <2> QED BY <1>5, <1>6, <2>1, ThenIs
<1>8. ASSUME Swap11(v, o, c, k)
      PROVE  /\ Only({c}) /\ Group(o, c, Nat, Done(k + 1, v), Nat, Done(k, v))
             /\ shown[k][c] /\ current[k] = None
  <2>1. Only({c}) /\ Group(o, c, Nat, Done(k + 1, v), Nat, Done(k, v))
    BY <1>8 DEF Swap11
  <2> QED BY <1>1, <1>2, <1>3, <2>1 DEF Group, Done
<1>9. CASE Swap11(v, o, c, k) /\ calls = Then(Changed(k, c), R)
  <2>1. /\ Typed' /\ menus' = menus /\ chosen' = chosen
        /\ checked' = checked /\ shown' = shown
        /\ \A w \in 0 .. menus :
               current'[w] = IF w = k /\ ~shown[k][c] /\ current[k] = c THEN None
                             ELSE current[w]
        /\ shown[k][c] /\ current[k] = None => calls' = Then(MakeCurrent(k, c), R)
    BY <1>1, <1>3, <1>7, <1>9, AfterChanged
  <2>2. \A w \in 1 .. menus : current'[w] = current[w]
    BY <1>1, <1>8, <1>9, <2>1
  <2>3. Group(o, c, Nat, Done(k + 1, v), Nat, Done(k, v))'
    BY <1>8, <1>9, <2>1, <2>2 DEF Group
  <2>4. Swap11(v, o, c, k)'
    BY <1>3, <1>4, <1>6, <1>8, <1>9, <2>1, <2>3 DEF Swap11, Only
  <2>5. Setting(v, o, c)'
    BY <2>1, SettingStays
  <2> QED BY <2>1, <2>4, <2>5
<1>10. CASE Swap11(v, o, c, k) /\ calls = Then(MakeCurrent(k, c), R)
  <2>1. /\ Typed' /\ menus' = menus /\ chosen' = chosen
        /\ checked' = checked /\ shown' = shown /\ calls' = R
        /\ \A w \in 0 .. menus : current'[w] = IF w = k THEN c ELSE current[w]
    BY <1>1, <1>3, <1>7, <1>10, AfterMakeCurrent
  <2>2. \A w \in 1 .. menus : w \in Done(k + 1, v) <=> w = k \/ w \in Done(k, v)
    BY <1>1, <1>2 DEF Done
  <2>3. Group(o, c, Nat, Done(k + 1, v), Nat, Done(k + 1, v))'
    BY <1>1, <1>8, <1>10, <2>1, <2>2 DEF Group
  <2>4. Swap12(v, o, c, k)'
    BY <1>3, <1>4, <1>6, <1>8, <1>10, <2>1, <2>3 DEF Swap12, Only
  <2>5. Setting(v, o, c)'
    BY <2>1, SettingStays
  <2> QED BY <2>1, <2>4, <2>5
<1>11. CASE Swap12(v, o, c, k)
  <2>1. PICK b \in BOOLEAN : b = TRUE
    OBVIOUS
  <2>2. /\ calls = Then(SetCommand(c, b), S)
        /\ Only({c}) /\ Group(o, c, Nat, Done(k + 1, v), Nat, Done(k + 1, v))
    BY <1>4, <1>11, <2>1 DEF Swap12
  <2>3. /\ Typed' /\ menus' = menus /\ chosen' = chosen
        /\ shown' = shown /\ current' = current
        /\ \A y \in Command : checked'[y] = IF y = c THEN b ELSE checked[y]
        /\ calls' = IF checked[c] = b THEN S
                    ELSE Told(menus, c, b, FirstView(c), S)
    BY <1>1, <1>5, <2>2, AfterSetCommand
  <2>4. checked[c] = b
    BY <1>1, <2>1, <2>2 DEF Only, Typed
  <2>5. Only({c})'
    BY <1>1, <2>1, <2>2, <2>3, Sets DEF Only
  <2>6. Group(o, c, Nat, Done(k + 1, v), Nat, Done(k + 1, v))'
    BY <2>2, <2>3 DEF Group
  <2>7. Swap10(v, o, c, k + 1)'
    BY <1>4, <2>3, <2>4, <2>5, <2>6 DEF Swap10
  <2>8. Setting(v, o, c)'
    BY <2>3, SettingStays
  <2> QED BY <1>3, <2>3, <2>7, <2>8
<1> QED BY <1>4, <1>6, <1>9, <1>10, <1>11 DEF Swap11

-----------------------------------------------------------------------------
(* The course of a click, and what the user may do *)

LEMMA SwapStep ==
    ASSUME Typed, NEW v, NEW o, NEW c, NEW k, Swapping(v, o, c, k), CallNext, ~Quiet
    PROVE  Typed' /\ \E j : Swapping(v, o, c, j)'
<1>1. Setting(v, o, c) /\ k \in 1 .. menus + 1
  BY DEF Swapping
<1>2. 1 \in 1 .. menus + 1 /\ (k <= menus => k + 1 \in 1 .. menus + 1)
  <2>1. menus \in Nat
    BY Sets DEF Typed
  <2> QED BY <1>1, <2>1
<1>3. CASE \/ Swap1(v, o, c) \/ Swap2(v, o, c) \/ Swap3(v, o, c)
           \/ Swap4(v, o, c) \/ Swap5(v, o, c)
  <2>1. /\ Typed' /\ menus' = menus /\ Setting(v, o, c)'
        /\ \/ Swap2(v, o, c)' \/ Swap3(v, o, c)' \/ Swap4(v, o, c)'
           \/ Swap5(v, o, c)' \/ Swap6(v, o, c, 1)'
    BY <1>1, <1>3, ClickedStep
  <2> QED BY <1>2, <2>1 DEF Swapping
<1>4. CASE Swap6(v, o, c, k)
  <2>1. /\ Typed' /\ menus' = menus /\ Setting(v, o, c)'
        /\ \/ k <= menus /\ Swap6(v, o, c, k + 1)'
           \/ Swap7(v, o, c, k)' \/ Swap9(v, o, c)'
    BY <1>1, <1>4, OffStep
  <2> QED BY <1>1, <1>2, <2>1 DEF Swapping
<1>5. CASE Swap7(v, o, c, k) \/ Swap8(v, o, c, k)
  <2>0. Setting(v, o, c) /\ (Swap7(v, o, c, k) \/ Swap8(v, o, c, k))
    BY <1>1, <1>5
  <2>1. /\ Typed' /\ menus' = menus /\ Setting(v, o, c)'
        /\ \/ Swap8(v, o, c, k)'
           \/ k <= menus /\ Swap6(v, o, c, k + 1)'
    BY <1>1, <2>0, ForgetStep
  <2> QED BY <1>1, <1>2, <2>1 DEF Swapping
<1>6. CASE Swap9(v, o, c)
  <2>1. Typed' /\ menus' = menus /\ Setting(v, o, c)' /\ Swap10(v, o, c, 1)'
    BY <1>1, <1>6, TurnStep
  <2> QED BY <1>2, <2>1 DEF Swapping
<1>7. CASE Swap10(v, o, c, k)
  <2>1. /\ Typed' /\ menus' = menus /\ Setting(v, o, c)'
        /\ \/ k <= menus /\ Swap10(v, o, c, k + 1)'
           \/ Swap11(v, o, c, k)'
    BY <1>1, <1>7, OnStep
  <2> QED BY <1>1, <1>2, <2>1 DEF Swapping
<1>8. CASE Swap11(v, o, c, k) \/ Swap12(v, o, c, k)
  <2>1. /\ Typed' /\ menus' = menus /\ Setting(v, o, c)'
        /\ \/ Swap11(v, o, c, k)' \/ Swap12(v, o, c, k)'
           \/ k <= menus /\ Swap10(v, o, c, k + 1)'
    BY <1>1, <1>8, NoteStep
  <2> QED BY <1>1, <1>2, <2>1 DEF Swapping
<1> QED BY <1>3, <1>4, <1>5, <1>6, <1>7, <1>8 DEF Swapping


\* With no calls left a click has run its course.
LEMMA QuietRests ==
    ASSUME IInv, Quiet
    PROVE  Resting
<1>1. calls = NoCalls /\ Typed
  BY DEF Quiet, NoCalls, IInv
<1>2. ASSUME NEW v, NEW x, NEW b, NEW k, Flipping(v, x, b, k)
      PROVE  Resting
  <2>1. /\ x \in Command /\ b \in BOOLEAN /\ k \in FirstView(x) .. menus + 1
        /\ v \in FirstView(x) .. menus /\ Steady(chosen) /\ Elsewhere({x})
    BY <1>2 DEF Flipping
  <2>2. /\ menus \in 0 .. MaxMenus /\ menus \in Nat /\ FirstView(x) \in {0, 1}
        /\ \A w \in 0 .. menus : x \in InView(w) => w \in FirstView(x) .. menus
    BY <1>1, <2>1, FlipViews, Sets DEF Typed
  <2>3. v \in 0 .. menus /\ v \in View /\ k \in Nat /\ k \in 0 .. menus + 1
    <3>1. v \in 0 .. menus /\ k \in Nat /\ k \in 0 .. menus + 1
      BY <2>1, <2>2
    <3> QED BY <2>2, <3>1, Sets
  <2>4. SetAction(v, x, b) \in Call /\ SetCommand(x, b) \in Call /\ NoCalls \in Seq(Call)
    BY <2>1, <2>3, CallsAre, NoCallsIs
  <2>5. ~Flip1(v, x, b) /\ ~Flip2(v, x, b)
    BY <1>1, <2>4, ThenIs DEF Flip1, Flip2, NoCalls
  <2>6. ~Flip4(v, x, b, k)
    <3> SUFFICES ASSUME Flip4(v, x, b, k) PROVE FALSE
      OBVIOUS
    <3>1. k <= menus
      BY DEF Flip4
    <3>2. k + 1 \in 0 .. menus + 1
      BY <2>2, <2>3, <3>1
    <3>3. PICK S : S = Told(menus, x, b, k + 1, NoCalls)
      OBVIOUS
    <3>4. S \in Seq(Call) /\ calls = Then(SetCommand(x, b), S)
      BY <2>1, <2>2, <2>4, <3>2, <3>3, ToldFacts DEF Flip4
    <3> QED BY <1>1, <2>4, <3>4, ThenIs DEF NoCalls
  <2>7. Flip3(v, x, b, k)
    BY <1>2, <2>5, <2>6 DEF Flipping
  <2>8. k = menus + 1
    <3> SUFFICES ASSUME k <= menus PROVE FALSE
      BY <2>2, <2>3
    <3>1. k + 1 \in 0 .. menus + 1 /\ k \in View
      BY <2>2, <2>3, Sets DEF View
    <3>2. PICK S : S = Told(menus, x, b, k + 1, NoCalls)
      OBVIOUS
    <3>3. S \in Seq(Call)
      BY <2>1, <2>2, <2>4, <3>1, <3>2, ToldFacts
    <3>4. calls = Then(SetAction(k, x, b), S)
      BY <2>1, <2>2, <2>3, <2>4, <2>7, <3>2, ToldFacts DEF Flip3
    <3>5. SetAction(k, x, b) \in Call
      BY <2>1, <3>1, CallsAre
    <3> QED BY <1>1, <3>3, <3>4, <3>5, ThenIs DEF NoCalls
  <2>9. \A w \in 0 .. menus : x \in InView(w) => shown[w][x] = checked[x]
    <3>1. \A w \in 0 .. menus : w \in Done(k, v)
      BY <2>2, <2>8 DEF Done
    <3> QED BY <2>2, <2>7, <3>1 DEF Flip3, Shows
  <2>10. Elsewhere({})
    BY <2>1, <2>9 DEF Elsewhere
  <2> QED BY <2>1, <2>10 DEF Resting
<1>3. ASSUME NEW v, NEW o, NEW c, NEW k, Swapping(v, o, c, k)
      PROVE  Resting
  <2>1. Setting(v, o, c) /\ k \in 1 .. menus + 1 /\ c = chosen /\ Elsewhere({o, c})
    BY <1>3 DEF Swapping, Setting
  <2>2. /\ o \in Exclusive /\ c \in Exclusive /\ o # c /\ o # None /\ c # None
        /\ o \in Command /\ c \in Command /\ v \in 1 .. menus
        /\ \A w \in 1 .. menus : w \in Nat /\ w \in View
        /\ NoCalls \in Seq(Call)
        /\ Then(SetCommand(c, TRUE), NoCalls) \in Seq(Call)
        /\ EndOf(v, c) \in Seq(Call)
        /\ Then(SetCommand(o, FALSE), EndOf(v, c)) \in Seq(Call)
    BY <1>1, <2>1, SettingIs
  <2>3. \A w \in 1 .. menus : /\ SetAction(w, o, FALSE) \in Call
                             /\ SetAction(w, c, TRUE) \in Call
                             /\ Changed(w, o) \in Call /\ Changed(w, c) \in Call
                             /\ MakeCurrent(w, c) \in Call
    BY <2>2, CallsAre
  <2>4. SetCommand(o, FALSE) \in Call /\ SetCommand(c, TRUE) \in Call
    BY <2>2, CallsAre
  <2>5. \A a \in Call, S \in Seq(Call) : Then(a, S) # NoCalls
    BY ThenIs DEF NoCalls
  <2>6. ~(Swap1(v, o, c) \/ Swap2(v, o, c) \/ Swap3(v, o, c))
    BY <1>1, <2>2, <2>3, <2>4, <2>5 DEF Swap1, Swap2, Swap3
  <2>7. ~(Swap4(v, o, c) \/ Swap5(v, o, c) \/ Swap9(v, o, c))
    BY <1>1, <2>2, <2>3, <2>4, <2>5 DEF Swap4, Swap5, Swap9
  <2>8. EndOf(v, c) # NoCalls
    BY <2>2, <2>3, <2>4, <2>5 DEF EndOf
  <2>9. /\ k <= menus \/ k = menus + 1
        /\ k <= menus => k \in 1 .. menus /\ k + 1 \in 1 .. menus + 1
        /\ k = menus + 1 => \A w \in 1 .. menus : w < k
    BY <1>1, <2>1, NextView
  <2>10. k <= menus => /\ Offs(v, o, c, k + 1) \in Seq(Call)
                       /\ Ons(c, k + 1) \in Seq(Call)
    BY <1>1, <2>1, <2>9, SettingTold
  <2>11. k <= menus => /\ Then(SetCommand(o, FALSE), Offs(v, o, c, k + 1)) \in Seq(Call)
                       /\ Then(SetCommand(c, TRUE), Ons(c, k + 1)) \in Seq(Call)
    BY <2>4, <2>10, ThenIs
  <2>12. ~(Swap7(v, o, c, k) \/ Swap8(v, o, c, k))
    BY <1>1, <2>3, <2>4, <2>5, <2>9, <2>10, <2>11 DEF Swap7, Swap8, Offs
  <2>13. ~(Swap11(v, o, c, k) \/ Swap12(v, o, c, k))
    BY <1>1, <2>3, <2>4, <2>5, <2>9, <2>10, <2>11 DEF Swap11, Swap12, Ons
  <2>14. k <= menus => Offs(v, o, c, k) # NoCalls /\ Ons(c, k) # NoCalls
    <3>1. k <= menus =>
              /\ Offs(v, o, c, k) = Then(SetAction(k, o, FALSE), Offs(v, o, c, k + 1))
              /\ Ons(c, k) = Then(SetAction(k, c, TRUE), Ons(c, k + 1))
      BY <1>1, <2>1, SettingTold
    <3> QED BY <2>3, <2>5, <2>9, <2>10, <3>1
  <2>15. k = menus + 1 => Offs(v, o, c, k) = EndOf(v, c)
    BY <1>1, <2>1, OffsEnd
  <2>16. ~Swap6(v, o, c, k)
    BY <1>1, <2>8, <2>9, <2>14, <2>15 DEF Swap6, Offs
  <2>17. Swap10(v, o, c, k)
    BY <1>3, <2>6, <2>7, <2>12, <2>13, <2>16 DEF Swapping
  <2>18. k = menus + 1
    BY <1>1, <2>9, <2>14, <2>17 DEF Swap10, Ons
  <2>19. \A w \in 1 .. menus : w \in Done(k, v) /\ w \in Nat
    BY <2>2, <2>9, <2>18 DEF Done
  <2>20. \A w \in 1 .. menus : ~shown[w][o] /\ shown[w][c] /\ current[w] = c
    BY <2>17, <2>19 DEF Swap10, Group
  <2>21. Steady(chosen) /\ ~checked[o] /\ checked[c]
    BY <2>1, <2>2, <2>17, <2>20 DEF Swap10, Steady, Only
  <2>22. \A w \in 0 .. menus : \A y \in InView(w) \cap {o, c} : shown[w][y] = checked[y]
    <3> SUFFICES ASSUME NEW w \in 0 .. menus, NEW y \in InView(w), y \in {o, c}
                 PROVE  shown[w][y] = checked[y]
      OBVIOUS
    <3>1. w \in 1 .. menus
      <4>1. y \in Exclusive /\ menus \in Nat
        BY <1>1, <2>2, Sets DEF Typed
      <4>2. w # 0
        BY <4>1, Sets
      <4> QED BY <4>1, <4>2
    <3>2. shown[w][y] \in BOOLEAN /\ checked[y] \in BOOLEAN
      BY <1>1, <2>2 DEF Typed
    <3> QED BY <2>20, <2>21, <3>1, <3>2
  <2>23. Elsewhere({})
    BY <2>1, <2>22 DEF Elsewhere
  <2> QED BY <2>21, <2>23 DEF Resting
<1> QED BY <1>2, <1>3 DEF IInv

LEMMA OneThen ==
    ASSUME NEW a \in Call
    PROVE  <<a>> = Then(a, NoCalls) /\ <<a>> \in Seq(Call) /\ Len(<<a>>) = 1
BY DEF Then, NoCalls

\* What is known of the commands and views while no click runs.
LEMMA RestingIs ==
    ASSUME Typed, Resting
    PROVE  /\ chosen \in Exclusive /\ chosen \in Command /\ chosen # None
           /\ \A c \in Exclusive : checked[c] <=> c = chosen
           /\ \A w \in 1 .. menus : current[w] = chosen
           /\ \A w \in 0 .. menus : \A c \in InView(w) : shown[w][c] = checked[c]
           /\ \A c \in Command : checked[c] \in BOOLEAN
           /\ menus \in Nat /\ menus \in 0 .. MaxMenus /\ MaxMenus \in Nat
BY Sets DEF Resting, Steady, Only, Elsewhere, Typed

\* A click on a command that excludes nothing.
LEMMA ClickFlips ==
    ASSUME Typed, Resting, NEW x \in Command \ Exclusive, NEW v \in 0 .. menus,
           x \in InView(v), NEW b \in BOOLEAN, b = ~checked[x],
           checked' = checked, shown' = shown, current' = current, menus' = menus,
           chosen' = chosen, calls' = Then(SetAction(v, x, b), NoCalls)
    PROVE  Flip1(v, x, b)' /\ Flipping(v, x, b, FirstView(x))'
<1>1. /\ \A w \in 0 .. menus : \A y \in InView(w) : shown[w][y] = checked[y]
      /\ \A y \in Command : checked[y] \in BOOLEAN
      /\ menus \in Nat
  BY RestingIs
<1>2. /\ FirstView(x) \in {0, 1}
      /\ \A w \in FirstView(x) .. menus : w \in 0 .. menus /\ x \in InView(w)
      /\ \A w \in 0 .. menus : x \in InView(w) => w \in FirstView(x) .. menus
  BY FlipViews
<1>3. checked[x] = ~b
  BY <1>1
<1>4. \A w \in FirstView(x) .. menus : shown[w][x] = ~b
  BY <1>1, <1>2, <1>3
<1>5. Shows(x, b, {})'
  BY <1>4 DEF Shows
<1>6. Flip1(v, x, b)'
  BY <1>3, <1>5 DEF Flip1
<1>7. Steady(chosen)' /\ Elsewhere({x})'
  BY DEF Resting, Steady, Only, Elsewhere
<1>8. FirstView(x) \in FirstView(x) .. menus + 1
  BY <1>1, <1>2
<1>9. v \in FirstView(x) .. menus
  BY <1>2
<1> QED BY <1>6, <1>7, <1>8, <1>9 DEF Flipping

LEMMA OpenKeeps ==
    ASSUME Typed, Resting, OpenMenu
    PROVE  Typed' /\ Resting'
<1>1. /\ menus' = menus + 1 /\ open' = menus + 1 /\ menus < MaxMenus
      /\ checked' = checked /\ calls' = calls /\ chosen' = chosen
      /\ shown' = [v \in 0 .. menus + 1 |->
                      IF v = menus + 1 THEN NewActions ELSE shown[v]]
  BY DEF OpenMenu
<1>2. /\ chosen \in Exclusive /\ chosen \in Command /\ chosen # None
      /\ \A c \in Exclusive : checked[c] <=> c = chosen
      /\ \A w \in 1 .. menus : current[w] = chosen
      /\ \A w \in 0 .. menus : \A c \in InView(w) : shown[w][c] = checked[c]
      /\ menus \in Nat /\ MaxMenus \in Nat
  BY RestingIs
<1>3. Grouped(menus + 1) = Exclusive /\ InView(menus + 1) = Command
  BY <1>2, Sets DEF Grouped, Toolbar
<1>4. \A c \in Command : NewActions[c] = checked[c]
  BY DEF NewActions
<1>5. NewActions \in [Command -> BOOLEAN]
  BY DEF NewActions, Typed
<1>6. current' = [v \in 0 .. menus + 1 |-> IF v = menus + 1 THEN chosen ELSE current[v]]
  <2>1. PICK on \in {c \in Grouped(menus') : NewActions[c]} \cup {None} :
            /\ on = None => \A c \in Grouped(menus') : ~NewActions[c]
            /\ current' = [v \in 0 .. menus' |-> IF v = menus' THEN on ELSE current[v]]
    BY DEF OpenMenu
  <2>2. Exclusive \subseteq Command
    BY Sets
  <2>3. on = chosen
    <3>1. NewActions[chosen]
      BY <1>2, <1>4
    <3>2. on # None
      BY <1>1, <1>2, <1>3, <2>1, <3>1
    <3>3. on \in Exclusive /\ NewActions[on]
      BY <1>1, <1>3, <2>1, <3>2
    <3> QED BY <1>2, <1>4, <2>2, <3>3
  <2> QED BY <1>1, <2>1, <2>3
<1>7. /\ menus + 1 \in 0 .. MaxMenus /\ menus + 1 \in 0 .. menus + 1
      /\ 0 \in 0 .. menus /\ 0 \in 0 .. menus + 1 /\ 0 # menus + 1
      /\ \A w \in 0 .. menus + 1 : w = menus + 1 \/ w \in 0 .. menus
      /\ \A w \in 1 .. menus + 1 : w = menus + 1 \/ w \in 1 .. menus
      /\ \A w \in 1 .. menus + 1 : w \in 0 .. menus + 1
  BY <1>1, <1>2
<1>8. /\ DOMAIN shown' = 0 .. menus' /\ DOMAIN current' = 0 .. menus'
      /\ \A w \in 0 .. menus + 1 : shown'[w] \in [InView(w) -> BOOLEAN]
      /\ \A w \in 0 .. menus + 1 : current'[w] \in Exclusive \cup {None}
  <2>1. DOMAIN shown' = 0 .. menus' /\ DOMAIN current' = 0 .. menus'
    BY <1>1, <1>6
  <2>2. \A w \in 0 .. menus + 1 : shown'[w] \in [InView(w) -> BOOLEAN]
    BY <1>1, <1>3, <1>5, <1>7 DEF Typed
  <2>3. \A w \in 0 .. menus + 1 : current'[w] \in Exclusive \cup {None}
    BY <1>2, <1>6, <1>7 DEF Typed
  <2> QED BY <2>1, <2>2, <2>3
<1>9. current'[Toolbar] = None
  BY <1>6, <1>7 DEF Typed, Toolbar
<1>10. Typed'
  BY <1>1, <1>7, <1>8, <1>9 DEF Typed
<1>11. Steady(chosen)'
  <2>1. \A w \in 1 .. menus + 1 : current'[w] = chosen
    BY <1>2, <1>6, <1>7
  <2> QED BY <1>1, <1>2, <2>1 DEF Steady, Only
<1>12. Elsewhere({})'
  <2>1. \A w \in 0 .. menus + 1 : \A y \in InView(w) : shown'[w][y] = checked[y]
    BY <1>1, <1>2, <1>3, <1>4, <1>7
  <2> QED BY <1>1, <2>1 DEF Elsewhere
<1> QED BY <1>1, <1>10, <1>11, <1>12 DEF Resting, Quiet

LEMMA ClickStarts ==
    ASSUME Typed, Resting, ClickAction
    PROVE  IInv'
<1>1. PICK c \in Command :
          /\ calls' = IF shown[open][c] /\ current[open] = c THEN <<>>
                      ELSE <<SetAction(open, c, ~shown[open][c])>>
          /\ chosen' = IF c \in Exclusive THEN c ELSE chosen
  BY DEF ClickAction
<1>2. /\ open # 0 /\ open' = 0 /\ checked' = checked /\ shown' = shown
      /\ current' = current /\ menus' = menus
  BY DEF ClickAction
<1>3. /\ chosen \in Exclusive /\ chosen \in Command /\ chosen # None
      /\ \A y \in Exclusive : checked[y] <=> y = chosen
      /\ \A w \in 1 .. menus : current[w] = chosen
      /\ \A w \in 0 .. menus : \A y \in InView(w) : shown[w][y] = checked[y]
      /\ \A y \in Command : checked[y] \in BOOLEAN
      /\ menus \in Nat /\ menus \in 0 .. MaxMenus /\ MaxMenus \in Nat
  BY RestingIs
<1>4. PICK v \in 1 .. menus : v = open
  <2>1. open \in 0 .. menus
    BY DEF Typed
  <2> QED BY <1>2, <1>3, <2>1
<1>5. /\ v \in 0 .. menus /\ v \in Nat /\ v # 0 /\ v \in View /\ c \in InView(v)
      /\ current[v] = chosen /\ shown[v][c] = checked[c]
  <2>1. v \in 0 .. menus /\ v \in Nat /\ v # 0
    BY <1>3
  <2>2. v \in View /\ c \in InView(v)
    BY <1>3, <2>1, Sets
  <2> QED BY <1>3, <2>1, <2>2
<1>6. PICK b \in BOOLEAN : b = ~checked[c]
  OBVIOUS
<1>7. SetAction(v, c, b) \in Call
  BY <1>5, CallsAre
<1>8. CASE c = chosen
  <2>1. calls' = <<>> /\ chosen' = chosen
    BY <1>1, <1>3, <1>4, <1>5, <1>8
  <2>2. Typed'
    BY <1>2, <1>3, <2>1, Sets DEF Typed
  <2>3. Resting'
    BY <1>2, <2>1 DEF Resting, Quiet, Steady, Only, Elsewhere
  <2> QED BY <2>2, <2>3 DEF IInv
<1>9. CASE c # chosen
  <2>1. calls' = Then(SetAction(v, c, b), NoCalls)
    <3>1. calls' = <<SetAction(v, c, b)>>
      BY <1>1, <1>4, <1>5, <1>6, <1>9
    <3> QED BY <1>7, <3>1, OneThen
  <2>2. calls' \in Seq(Call) /\ Len(calls') <= MaxCalls
    <3>1. calls' = <<SetAction(v, c, b)>>
      BY <1>7, <2>1, OneThen
    <3> QED BY <1>7, <3>1, OneThen, Sets
  <2>3. Typed'
    BY <1>1, <1>2, <1>3, <2>2 DEF Typed
  <2>4. CASE c \in Exclusive
    <3>1. PICK o : o = chosen
      OBVIOUS
    <3>2. chosen' = c /\ b = TRUE /\ o \in Exclusive /\ o # c
      BY <1>1, <1>3, <1>6, <1>9, <2>4, <3>1
    <3>3. Setting(v, o, c)'
      BY <1>2, <1>3, <1>4, <3>2 DEF Setting, Elsewhere
    <3>4. Only({o})'
      BY <1>2, <1>3, <3>1 DEF Only
    <3>5. Group(o, c, {}, {}, {}, {})'
      <4>1. \A w \in 1 .. menus : w \in 0 .. menus /\ w \in Nat \ {0}
        BY <1>3
      <4>2. \A w \in 1 .. menus : shown[w][o] /\ ~shown[w][c] /\ current[w] = o
        <5>1. \A w \in 1 .. menus : o \in InView(w) /\ c \in InView(w)
          BY <1>3, <3>1, <4>1, Sets
        <5> QED BY <1>3, <1>9, <2>4, <3>1, <4>1, <5>1
      <4> QED BY <1>2, <4>2 DEF Group
    <3>6. Swap1(v, o, c)'
      BY <2>1, <3>2, <3>4, <3>5 DEF Swap1
    <3>7. 1 \in 1 .. menus' + 1
      BY <1>2, <1>3
    <3>8. Swapping(v, o, c, 1)'
      BY <3>3, <3>6, <3>7 DEF Swapping
    <3> QED BY <2>3, <3>8 DEF IInv
  <2>5. CASE c \notin Exclusive
    <3>1. chosen' = chosen
      BY <1>1, <2>5
    <3>2. Flip1(v, c, b)' /\ Flipping(v, c, b, FirstView(c))'
      BY <1>2, <1>3, <1>5, <1>6, <2>1, <2>5, <3>1, ClickFlips
    <3> QED BY <2>3, <3>2 DEF IInv
  <2> QED BY <2>4, <2>5
<1> QED BY <1>8, <1>9

LEMMA ButtonStarts ==
    ASSUME Typed, Resting, ClickButton
    PROVE  IInv'
<1>1. PICK c \in OnToolbar : calls' = <<SetAction(Toolbar, c, ~shown[Toolbar][c])>>
  BY DEF ClickButton
<1>2. /\ checked' = checked /\ shown' = shown /\ current' = current
      /\ menus' = menus /\ open' = open /\ chosen' = chosen
  BY DEF ClickButton
<1>3. /\ \A w \in 0 .. menus : \A y \in InView(w) : shown[w][y] = checked[y]
      /\ menus \in Nat /\ MaxMenus \in Nat
  BY RestingIs
<1>4. PICK v \in 0 .. menus : v = Toolbar
  BY <1>3 DEF Toolbar
<1>5. /\ c \in Command \ Exclusive /\ c \in InView(v) /\ v \in View
  BY <1>3, <1>4, CommandSetAssumption DEF InView, View, Toolbar
<1>6. PICK b \in BOOLEAN : b = ~checked[c]
  OBVIOUS
<1>7. SetAction(v, c, b) \in Call
  BY <1>5, CallsAre
<1>8. calls' = <<SetAction(v, c, b)>>
  BY <1>1, <1>3, <1>4, <1>5, <1>6
<1>9. calls' = Then(SetAction(v, c, b), NoCalls)
  BY <1>7, <1>8, OneThen
<1>10. calls' \in Seq(Call) /\ Len(calls') <= MaxCalls
  BY <1>7, <1>8, OneThen, Sets
<1>11. Typed'
  BY <1>2, <1>10 DEF Typed
<1>12. Flipping(v, c, b, FirstView(c))'
  BY <1>2, <1>5, <1>6, <1>9, ClickFlips
<1> QED BY <1>11, <1>12 DEF IInv

LEMMA InitInv == Init => IInv
<1> SUFFICES ASSUME Init PROVE IInv
  OBVIOUS
<1>1. /\ menus = 0 /\ open = 0 /\ calls = <<>> /\ chosen = First
      /\ checked \in [Command -> BOOLEAN]
      /\ \A c \in Exclusive : checked[c] <=> c = First
      /\ shown = [v \in {Toolbar} |-> [c \in OnToolbar |-> checked[c]]]
      /\ current = [v \in {Toolbar} |-> None]
  BY DEF Init
<1>2. 0 .. menus = {0} /\ 0 \in 0 .. MaxMenus
  BY <1>1, Sets
<1>3. OnToolbar \subseteq Command /\ InView(0) = OnToolbar
  BY CommandSetAssumption DEF InView, Toolbar
<1>4. /\ DOMAIN shown = 0 .. menus /\ DOMAIN current = 0 .. menus
      /\ \A v \in 0 .. menus : shown[v] \in [InView(v) -> BOOLEAN] /\ current[v] = None
  BY <1>1, <1>2, <1>3 DEF Toolbar
<1>5. calls \in Seq(Call) /\ Len(calls) <= MaxCalls
  BY <1>1, Sets
<1>6. Typed
  BY <1>1, <1>2, <1>4, <1>5, Sets DEF Typed, Toolbar
<1>7. \A v \in 0 .. menus : \A y \in InView(v) : shown[v][y] = checked[y]
  BY <1>1, <1>2, <1>3 DEF Toolbar
<1>8. Steady(chosen)
  BY <1>1 DEF Steady, Only
<1> QED BY <1>1, <1>6, <1>7, <1>8 DEF IInv, Resting, Quiet, Elsewhere

LEMMA NextInv == IInv /\ [Next]_vars => IInv'
<1> SUFFICES ASSUME IInv, [Next]_vars PROVE IInv'
  OBVIOUS
<1>1. Typed
  BY DEF IInv
<1>2. Quiet => Resting
  BY QuietRests
<1>3. CASE OpenMenu
  <2>1. Resting
    BY <1>2, <1>3 DEF OpenMenu
  <2> QED BY <1>1, <1>3, <2>1, OpenKeeps DEF IInv
<1>4. CASE Dismiss
  <2>1. Resting
    BY <1>2, <1>4 DEF Dismiss
  <2>2. /\ open' = 0 /\ checked' = checked /\ shown' = shown /\ current' = current
        /\ menus' = menus /\ calls' = calls /\ chosen' = chosen
    BY <1>4 DEF Dismiss
  <2>3. Typed'
    <3>1. 0 \in 0 .. menus
      BY <1>1, Sets DEF Typed
    <3> QED BY <1>1, <2>2, <3>1 DEF Typed
  <2>4. Resting'
    BY <2>1, <2>2 DEF Resting, Quiet, Steady, Only, Elsewhere
  <2> QED BY <2>3, <2>4 DEF IInv
<1>5. CASE ClickAction
  <2>1. Resting
    BY <1>2, <1>5 DEF ClickAction
  <2> QED BY <1>1, <1>5, <2>1, ClickStarts
<1>6. CASE ClickButton
  <2>1. Resting
    BY <1>2, <1>6 DEF ClickButton
  <2> QED BY <1>1, <1>6, <2>1, ButtonStarts
<1>7. CASE CallNext
  <2>1. ~Quiet
    BY <1>7 DEF CallNext, DoSetAction, DoChanged, DoMakeCurrent, DoSetCommand, Makes,
                Quiet
  <2>2. ASSUME NEW v, NEW x, NEW b, NEW k, Flipping(v, x, b, k)
        PROVE  IInv'
    BY <1>1, <1>7, <2>1, <2>2, FlipStep DEF IInv
  <2>3. ASSUME NEW v, NEW o, NEW c, NEW k, Swapping(v, o, c, k)
        PROVE  IInv'
    BY <1>1, <1>7, <2>1, <2>3, SwapStep DEF IInv
  <2>4. ~Resting
    BY <2>1 DEF Resting
  <2> QED BY <2>2, <2>3, <2>4 DEF IInv
<1>8. CASE UNCHANGED vars
  <2>1. /\ checked' = checked /\ shown' = shown /\ current' = current /\ menus' = menus
        /\ open' = open /\ calls' = calls /\ chosen' = chosen
    BY <1>8 DEF vars
  <2>2. Typed'
    BY <1>1, <2>1 DEF Typed
  <2>3. Resting => Resting'
    BY <2>1 DEF Resting, Quiet, Steady, Only, Elsewhere
  <2>4. \A v, x, b, k : Flipping(v, x, b, k) => Flipping(v, x, b, k)'
    BY <2>1 DEF Flipping, Flip1, Flip2, Flip3, Flip4, Shows, Steady, Only, Elsewhere,
                FirstView, InView
  <2>5. \A v, o, c, k : Swapping(v, o, c, k) => Swapping(v, o, c, k)'
    <3> SUFFICES ASSUME NEW v, NEW o, NEW c, NEW k, Swapping(v, o, c, k)
                 PROVE  Swapping(v, o, c, k)'
      OBVIOUS
    <3>1. \A S : Only(S)' <=> Only(S)
      BY <2>1 DEF Only
    <3>2. \A f, n, l, a : Group(o, c, f, n, l, a)' <=> Group(o, c, f, n, l, a)
      BY <2>1 DEF Group
    <3>3. Setting(v, o, c)' <=> Setting(v, o, c)
      BY <2>1 DEF Setting, Elsewhere
    <3> QED BY <2>1, <3>1, <3>2, <3>3
            DEF Swapping, Swap1, Swap2, Swap3, Swap4, Swap5, Swap6, Swap7, Swap8, Swap9,
                Swap10, Swap11, Swap12
  <2> QED BY <2>2, <2>3, <2>4, <2>5 DEF IInv
<1> QED BY <1>3, <1>4, <1>5, <1>6, <1>7, <1>8 DEF Next

LEMMA Invariance == Spec => []IInv
<1> QED BY InitInv, NextInv, PTL DEF Spec

-----------------------------------------------------------------------------
(* What the clicks keep *)

\* Every variable has its type, and between clicks the action a menu's group
\* holds for checked is one that menu shows checked.
THEOREM TypeCorrect == Spec => []TypeOK
<1>1. IInv => TypeOK
  <2> SUFFICES ASSUME IInv PROVE TypeOK
    OBVIOUS
  <2>1. Typed
    BY DEF IInv
  <2>2. ASSUME Quiet, NEW v \in 0 .. menus, current[v] # None
        PROVE  shown[v][current[v]]
    <3>1. Resting
      BY <2>2, QuietRests
    <3>2. /\ chosen \in Exclusive /\ chosen \in Command
          /\ \A y \in Exclusive : checked[y] <=> y = chosen
          /\ \A w \in 1 .. menus : current[w] = chosen
          /\ \A w \in 0 .. menus : \A y \in InView(w) : shown[w][y] = checked[y]
          /\ menus \in Nat
      BY <2>1, <3>1, RestingIs
    <3>3. v # 0 /\ v \in 1 .. menus /\ v \in Nat
      BY <2>1, <2>2, <3>2 DEF Typed, Toolbar
    <3>4. current[v] = chosen /\ chosen \in InView(v)
      BY <3>2, <3>3, Sets
    <3> QED BY <3>2, <3>4
  <2> QED BY <2>1, <2>2 DEF Typed, TypeOK
<1> QED BY <1>1, Invariance, PTL

\* Between clicks the button and every menu's actions show what the commands
\* are, however many menus were opened and whichever of them was clicked.
THEOREM ViewsComeToAgree == Spec => []ViewsAgree
<1>1. IInv => ViewsAgree
  <2> SUFFICES ASSUME IInv, Quiet PROVE ViewsAgree
    BY DEF ViewsAgree
  <2>1. Resting /\ Typed
    BY QuietRests DEF IInv
  <2> QED BY <2>1, RestingIs DEF ViewsAgree
<1> QED BY <1>1, Invariance, PTL

\* While a new group mode takes the place of the old, at most one of the two
\* is checked at every call.
LEMMA OneOrNone == IInv => \E c : CheckedOf(Exclusive) \subseteq {c}
<1> SUFFICES ASSUME IInv PROVE \E c : \A y \in Exclusive : checked[y] => y = c
  BY DEF CheckedOf
<1>1. CASE Resting
  BY <1>1 DEF Resting, Steady, Only
<1>2. ASSUME NEW v, NEW x, NEW b, NEW k, Flipping(v, x, b, k)
      PROVE  \E c : \A y \in Exclusive : checked[y] => y = c
  BY <1>2 DEF Flipping, Steady, Only
<1>3. ASSUME NEW v, NEW o, NEW c, NEW k, Swapping(v, o, c, k)
      PROVE  \E d : \A y \in Exclusive : checked[y] => y = d
  <2>1. Only({o}) \/ Only({}) \/ Only({c})
    BY <1>3 DEF Swapping, Swap1, Swap2, Swap3, Swap4, Swap5, Swap6, Swap7, Swap8, Swap9,
                Swap10, Swap11, Swap12
  <2> QED BY <2>1 DEF Only
<1> QED BY <1>1, <1>2, <1>3 DEF IInv

\* Never are two commands checked that exclude each other, at no call of all
\* those a click sets off.
THEOREM NeverTwo == Spec => []OneAtATime
<1>1. IInv => OneAtATime
  <2> SUFFICES ASSUME IInv PROVE Cardinality(CheckedOf(Exclusive)) <= 1
    BY DEF OneAtATime
  <2>1. PICK c : CheckedOf(Exclusive) \subseteq {c}
    BY OneOrNone
  <2>2. IsFiniteSet({c}) /\ Cardinality({c}) = 1
    BY FS_Singleton
  <2>3. Cardinality(CheckedOf(Exclusive)) <= Cardinality({c})
    BY <2>1, <2>2, FS_Subset
  <2>4. Cardinality(CheckedOf(Exclusive)) \in Nat
    BY <2>1, <2>2, FS_Subset, FS_CardinalityType
  <2> QED BY <2>2, <2>3, <2>4
<1> QED BY <1>1, Invariance, PTL

\* Between clicks the one group mode that is checked is the one clicked last.
THEOREM LastClickHolds == Spec => []ChosenIsChecked
<1>1. IInv => ChosenIsChecked
  <2> SUFFICES ASSUME IInv, Quiet PROVE CheckedOf(Exclusive) = {chosen}
    BY DEF ChosenIsChecked
  <2>1. Resting /\ Typed
    BY QuietRests DEF IInv
  <2> QED BY <2>1, RestingIs DEF CheckedOf
<1> QED BY <1>1, Invariance, PTL
=============================================================================
