--------------------------- MODULE Plugins_proofs ---------------------------
(***************************************************************************)
(* The two plugins that keep a machine of their own: what AutoAway keeps   *)
(* of the user's status, and what the SMS plugin's GsmTA takes for the     *)
(* answer to a command.                                                    *)
(*                                                                         *)
(* AutoAway, for any statuses, limits and idle times, and any number of    *)
(* ends and starts of the program: the common status, the one kept and     *)
(* whose they are must fit together (Sound); since a start takes all of    *)
(* them from the configuration, what is saved must fit together as well.   *)
(*                                                                         *)
(* GsmTA, for any phone books and any phone: when nothing has slipped at   *)
(* most the last command is unanswered, and data come before the end of    *)
(* the answer they belong to (DataIsEnded).  The two share no variable.    *)
(***************************************************************************)
EXTENDS AutoAway, GsmTA, SequenceTheorems, TLAPS

-----------------------------------------------------------------------------
(* AutoAway *)

\* s is what the plugin holds, or has saved.
Sound(s) ==
    /\ s.owner = "plugin" => s.real # Unknown
    /\ s.real = Unknown <=> s.kept = "nobody"
    /\ ~s.touched => /\ s.owner = "user" => s.manual = s.chosen
                     /\ s.kept = "user" => s.real = s.chosen

IInv == /\ TypeOK
        /\ Flagged => real # Unknown
        /\ Sound(State) /\ Sound(saved)

\* The same of State's fields one by one.
LEMMA SoundState ==
    Sound(State) <=>
        /\ owner = "plugin" => real # Unknown
        /\ real = Unknown <=> kept = "nobody"
        /\ ~touched => /\ owner = "user" => manual = chosen
                       /\ kept = "user" => real = chosen
BY DEF Sound, State

-----------------------------------------------------------------------------
LEMMA InitIInv == Init => IInv
<1> SUFFICES ASSUME Init PROVE IInv
    OBVIOUS
<1>1. real = Unknown /\ kept = "nobody" /\ owner = "user" /\ manual = chosen
      /\ ~Flagged
    BY DEF Init, Flagged
<1>2. Sound(State)
    BY <1>1, SoundState
<1>3. Sound(saved)
    BY <1>2 DEF Init
<1>4. /\ manual \in Status /\ real \in Status \cup {Unknown} /\ chosen \in Status
      /\ owner \in Owner /\ kept \in Keeper /\ touched \in BOOLEAN
    BY DEF Init, Owner, Keeper
<1>5. saved \in [manual : Status, real : Status \cup {Unknown}, chosen : Status,
                 owner : Owner, kept : Keeper, touched : BOOLEAN]
    BY <1>4 DEF Init, State
<1>6. measurable \in BOOLEAN /\ idle \in 0 .. MaxIdle
    BY AutoAwayAssumption DEF Init
<1>7. TypeOK
    BY <1>4, <1>5, <1>6 DEF Init, TypeOK
<1> QED
    BY <1>1, <1>2, <1>3, <1>7 DEF IInv

\* What Sets leaves behind, when all it may store fits together.
LEMMA SetsSound ==
    ASSUME IInv, NEW newStatus \in Status, NEW whose \in Owner,
           NEW oldStatus \in Status \cup {Unknown}, NEW from \in Keeper,
           Sets(newStatus, whose, oldStatus, from),
           UNCHANGED <<chosen, touched>>,
           whose = "plugin" => oldStatus # Unknown,
           oldStatus = Unknown <=> from = "nobody",
           ~touched => /\ whose = "user" => newStatus = chosen
                       /\ from = "user" => oldStatus = chosen
    PROVE  /\ manual' \in Status /\ real' \in Status \cup {Unknown}
           /\ owner' \in Owner /\ kept' \in Keeper
           /\ Sound(State)'
           /\ newStatus # manual => real' = oldStatus
           /\ newStatus = manual => real' = real
<1>1. CASE newStatus = manual
    <2>1. UNCHANGED <<manual, owner, real, kept>>
        BY <1>1 DEF Sets
    <2> QED
        BY <1>1, <2>1, SoundState DEF IInv, TypeOK, Sound, State
<1>2. CASE newStatus # manual
    <2>1. manual' = newStatus /\ owner' = whose /\ real' = oldStatus /\ kept' = from
        BY <1>2 DEF Sets
    <2> QED
        BY <1>2, <2>1 DEF Sound, State
<1> QED
    BY <1>1, <1>2

\* A status kept, or the user's own, can be set and kept again.
LEMMA KeptIsSound ==
    ASSUME IInv, real # Unknown
    PROVE  /\ real \in Status /\ kept \in Owner /\ kept # "plugin" /\ kept # "nobody"
           /\ ~touched /\ kept = "user" => real = chosen
BY SoundState DEF IInv, TypeOK, Owner, Keeper

LEMMA TakenIsSound ==
    ASSUME IInv
    PROVE  /\ manual \in Status /\ manual # Unknown
           /\ Taken \in Keeper /\ Taken # "nobody"
           /\ ~touched /\ Taken = "user" => manual = chosen
BY SoundState, AutoAwayAssumption DEF IInv, TypeOK, Taken, Keeper

-----------------------------------------------------------------------------
(* timeout() *)

LEMMA TimeoutIInv == IInv /\ timeout => IInv'
<1> SUFFICES ASSUME IInv, timeout PROVE IInv'
    OBVIOUS
<1> USE AutoAwayAssumption
<1>1. Ticks
    BY DEF timeout, TickBack, TickAway, TickNA, TickOff, TickReturns, TickElse
<1>2. /\ UNCHANGED <<chosen, touched, saved, config, idle, measurable>>
      /\ ticking' \in BOOLEAN
    BY <1>1 DEF Ticks, IInv, TypeOK
<1>3. ASSUME manual' \in Status, real' \in Status \cup {Unknown},
             owner' \in Owner, kept' \in Keeper,
             bAway' \in BOOLEAN, bNA' \in BOOLEAN, bOff' \in BOOLEAN,
             Sound(State)', Flagged' => real' # Unknown
      PROVE  IInv'
    BY <1>2, <1>3 DEF IInv, TypeOK, Sound
<1>4. "plugin" \in Owner /\ "nobody" \in Keeper /\ Away \in Status
      /\ NA \in Status /\ Offline \in Status
    BY DEF Owner, Keeper
<1>5. ASSUME real # Unknown, Sets(real, kept, Unknown, "nobody"), UNCHANGED flags,
             ~Flagged
      PROVE  IInv'
    <2>1. /\ manual' \in Status /\ real' \in Status \cup {Unknown}
          /\ owner' \in Owner /\ kept' \in Keeper /\ Sound(State)'
        BY <1>2, <1>4, <1>5, KeptIsSound, SetsSound
    <2> QED
        BY <1>3, <1>5, <2>1 DEF flags, Flagged, IInv, TypeOK
<1>6. CASE TickBack
    <2>1. real # Unknown
        BY <1>6 DEF TickBack, IsBack, Flagged, IInv
    <2>2. /\ Sets(real, kept, Unknown, "nobody")
          /\ bAway' = FALSE /\ bNA' = FALSE /\ bOff' = FALSE
        BY <1>6 DEF TickBack
    <2>3. /\ manual' \in Status /\ real' \in Status \cup {Unknown}
          /\ owner' \in Owner /\ kept' \in Keeper /\ Sound(State)'
        BY <1>2, <1>4, <2>1, <2>2, KeptIsSound, SetsSound
    <2> QED
        BY <1>3, <2>2, <2>3 DEF Flagged
<1>7. ASSUME NEW status \in {Away, NA, Offline}, manual # status,
             \/ Sets(status, "plugin", manual, Taken)
             \/ real # Unknown /\ Sets(status, "plugin", real, kept),
             bAway' \in BOOLEAN, bNA' \in BOOLEAN, bOff' \in BOOLEAN
      PROVE  IInv'
    <2>1. CASE Sets(status, "plugin", manual, Taken)
        <3>1. /\ manual' \in Status /\ real' \in Status \cup {Unknown}
              /\ owner' \in Owner /\ kept' \in Keeper /\ Sound(State)'
              /\ real' = manual
            BY <1>2, <1>4, <1>7, <2>1, TakenIsSound, SetsSound
        <3> QED
            BY <1>3, <1>7, <3>1, TakenIsSound
    <2>2. CASE real # Unknown /\ Sets(status, "plugin", real, kept)
        <3>1. kept \in Keeper
            BY DEF IInv, TypeOK
        <3>2. /\ manual' \in Status /\ real' \in Status \cup {Unknown}
              /\ owner' \in Owner /\ kept' \in Keeper /\ Sound(State)'
              /\ real' = real
            BY <1>2, <1>4, <1>7, <2>2, <3>1, KeptIsSound, SetsSound
        <3> QED
            BY <1>3, <1>7, <2>2, <3>2
    <2> QED
        BY <1>7, <2>1, <2>2
<1>8. CASE TickAway
    BY <1>7, <1>8 DEF TickAway, IInv, TypeOK
<1>9. CASE TickNA
    <2>1. bAway => real # Unknown
        BY DEF IInv, Flagged
    <2> QED
        BY <1>7, <1>9, <2>1 DEF TickNA, IInv, TypeOK
<1>10. CASE TickOff
    <2>1. bNA => real # Unknown
        BY DEF IInv, Flagged
    <2> QED
        BY <1>7, <1>10, <2>1 DEF TickOff, IInv, TypeOK
<1>11. ASSUME UNCHANGED <<flags, manual, owner, real, kept>> PROVE IInv'
    BY <1>2, <1>11 DEF IInv, TypeOK, flags, Flagged, Sound, State
<1>12. CASE TickReturns
    BY <1>11, <1>12 DEF TickReturns
<1>13. CASE TickElse
    BY <1>5, <1>11, <1>13 DEF TickElse
<1> QED
    BY <1>6, <1>8, <1>9, <1>10, <1>12, <1>13 DEF timeout

-----------------------------------------------------------------------------
LEMMA NextIInv == IInv /\ [Next]_vars => IInv'
<1> SUFFICES ASSUME IInv, [Next]_vars PROVE IInv'
    OBVIOUS
<1>1. ASSUME idle' \in 0 .. MaxIdle, config' \in Config,
             UNCHANGED <<measurable, ticking, manual, real, flags, saved,
                         chosen, owner, kept, touched>>
      PROVE  IInv'
    BY <1>1 DEF IInv, TypeOK, flags, Flagged, Sound, State
<1>2. idle \in 0 .. MaxIdle /\ config \in Config /\ 0 \in 0 .. MaxIdle
    BY AutoAwayAssumption DEF IInv, TypeOK
<1>3. CASE TimePasses
    <2>1. idle' \in 0 .. MaxIdle
        BY <1>2, <1>3, AutoAwayAssumption DEF TimePasses
    <2> QED
        BY <1>1, <1>2, <1>3, <2>1 DEF TimePasses
<1>4. CASE UserActs
    BY <1>1, <1>2, <1>4 DEF UserActs
<1>5. CASE UserChooses
    <2>1. PICK s \in Status : manual' = s /\ chosen' = s
        BY <1>5 DEF UserChooses
    <2>2. /\ idle' = 0 /\ owner' = "user"
          /\ touched' = (Flagged \/ real # Unknown)
          /\ UNCHANGED <<measurable, ticking, config, real, flags, saved, kept>>
        BY <1>5 DEF UserChooses
    <2>3. touched' \in BOOLEAN /\ owner' \in Owner
        BY <2>2 DEF Owner
    <2>4. real = Unknown <=> kept = "nobody"
        BY SoundState DEF IInv
    <2>5. Sound(State)'
        BY <2>1, <2>2, <2>4 DEF Sound, State
    <2>6. TypeOK'
        BY <1>2, <2>1, <2>2, <2>3 DEF IInv, TypeOK, flags
    <2> QED
        BY <2>2, <2>5, <2>6 DEF IInv, flags, Flagged, Sound
<1>6. CASE Apply
    BY <1>1, <1>2, <1>6 DEF Apply
<1>7. CASE Save
    BY <1>7 DEF Save, IInv, TypeOK, flags, Flagged, Sound, State
<1>8. CASE Restart
    BY <1>8 DEF Restart, IInv, TypeOK, flags, Flagged, Sound, State
<1>9. CASE timeout
    BY <1>9, TimeoutIInv
<1>10. CASE UNCHANGED vars
    BY <1>10 DEF vars, IInv, TypeOK, flags, Flagged, Sound, State
<1> QED
    BY <1>3, <1>4, <1>5, <1>6, <1>7, <1>8, <1>9, <1>10 DEF Next

LEMMA Invariance == Spec => []IInv
<1> QED
    BY InitIInv, NextIInv, PTL DEF Spec

-----------------------------------------------------------------------------
(* Theorems *)

\* Every variable keeps its type: what the plugin sets and saves is a status,
\* STATUS_UNKNOWN never is.
THEOREM TypeCorrect == Spec => []TypeOK
<1>1. IInv => TypeOK
    BY DEF IInv
<1> QED
    BY <1>1, Invariance, PTL

\* While a flag or a status of the plugin's stands there is one to go back to,
\* also in a run that found that status in the configuration.
THEOREM CanAlwaysComeBack == Spec => []CanComeBack
<1>1. IInv => CanComeBack
    BY SoundState DEF IInv, CanComeBack
<1> QED
    BY <1>1, Invariance, PTL

\* What stands in the user's name, or is kept for him, is what he chose last.
THEOREM ChoiceIsKept == Spec => []UsersStatusKept
<1>1. IInv => UsersStatusKept
    BY SoundState DEF IInv, UsersStatusKept
<1> QED
    BY <1>1, Invariance, PTL

\* timeout() loses the user's status on two paths and on no other.
THEOREM LostOnTwoPaths == Spec => LostOnlyThere
<1> DEFINE Only == timeout /\ "lost" \notin {kept, owner} /\ kept' = "lost"
                     => \/ bOff' /\ ~bOff /\ bAway /\ ~bNA
                        \/ real # Unknown /\ ~Flagged
<1>1. IInv => [Only]_vars
    <2> SUFFICES ASSUME IInv, timeout, kept # "lost", owner # "lost", kept' = "lost"
                 PROVE  \/ bOff' /\ ~bOff /\ bAway /\ ~bNA
                        \/ real # Unknown /\ ~Flagged
        OBVIOUS
    <2>1. \A n, w, o, f : Sets(n, w, o, f) => kept' = kept \/ kept' = f
        BY DEF Sets
    <2>2. Taken = "lost" => real # Unknown
        BY SoundState DEF Taken, IInv, TypeOK, Owner
    <2>3. ASSUME NEW n, NEW w, NEW o, Sets(n, w, o, Taken)
          PROVE  real # Unknown
        BY <2>1, <2>2, <2>3
    <2>4. ASSUME NEW n, NEW w, NEW o, Sets(n, w, o, kept) PROVE FALSE
        BY <2>1, <2>4
    <2>5. ASSUME NEW n, NEW w, NEW o, Sets(n, w, o, "nobody") PROVE FALSE
        BY <2>1, <2>5
    <2>6. CASE TickBack
        BY <2>5, <2>6 DEF TickBack
    <2>7. CASE TickAway
        BY <2>3, <2>7 DEF TickAway, GoesAway
    <2>8. CASE TickNA
        BY <2>3, <2>4, <2>8 DEF TickNA, GoesNA, Flagged
    <2>9. CASE TickOff
        BY <2>3, <2>4, <2>9 DEF TickOff, GoesOff, Flagged
    <2>10. CASE TickReturns
        BY <2>10 DEF TickReturns
    <2>11. CASE TickElse
        BY <2>5, <2>11 DEF TickElse
    <2> QED
        BY <2>6, <2>7, <2>8, <2>9, <2>10, <2>11 DEF timeout
<1> QED
    BY <1>1, Invariance, PTL DEF LostOnlyThere

-----------------------------------------------------------------------------
(* GsmTA: the invariant *)

\* The command a state waits for the answer to.
CmdIsStates ==
    /\ state \in DOMAIN Command => cmd = Command[state]
    /\ state = "Ping" => cmd \in {"+CBC", "+CSQ"}

\* A line of data or an echo is of the command last sent, one that is answered
\* with such a line, and the end of that answer comes behind it.
DataIsEnded ==
    \A i \in DOMAIN wire : wire[i].kind \in {"data", "echo"} =>
        /\ \E j \in Answered : i < j
        /\ wire[i].kind = "data" => cmd \notin SetCommands
        /\ wire[i].kind = "echo" => cmd \in {"Z", "E0"}

Calm == opened /\ state # "Open" /\ ~slipped
OneAtMost == NothingOutstanding \/ (OnlyCmdOutstanding /\ state \in Busy)

GsmIInv ==
    GsmTypeOK /\ CmdIsStates /\ KeepsPinging /\ (Calm => DataIsEnded /\ OneAtMost)

LEMMA InStepIs == InStep <=> (Calm => OneAtMost)
BY DEF InStep, Calm, OneAtMost

LEMMA StatesAre ==
    /\ DOMAIN Command =
         {"Init", "Init2", "Init3", "Init4", "Init5", "Init6", "Init7", "Info1",
          "Info2", "Info3", "Info4", "Charset1", "Charset2", "OpInfo1", "OpInfo2",
          "PhoneBook", "PhoneBook1", "PhoneBook2", "PhoneBook3"}
    /\ "Ping" \notin DOMAIN Command
    /\ "Connected" \notin Busy /\ "Open" \notin Busy /\ "gone" \notin Busy
<1>1. DOMAIN Command =
         {"Init", "Init2", "Init3", "Init4", "Init5", "Init6", "Init7", "Info1",
          "Info2", "Info3", "Info4", "Charset1", "Charset2", "OpInfo1", "OpInfo2",
          "PhoneBook", "PhoneBook1", "PhoneBook2", "PhoneBook3"}
    BY DEF Command
<1> QED
    BY <1>1 DEF Busy

LEMMA CommandsAre ==
    /\ {"Z", "+CPBS=", "+CBC", "+CSQ", "+CPBR=", "+CPBS?", "+CPBR=?"}
         \subseteq Commands
    /\ \A s \in DOMAIN Command : Command[s] \in Commands
    /\ Command["Init"] = "Z" /\ Command["Init3"] = "+CMEE=1"
    /\ Command["OpInfo1"] = "+COPS=3,0" /\ Command["PhoneBook"] = "+CPBS="
    /\ Command["PhoneBook1"] = "+CPBS?" /\ Command["PhoneBook2"] = "+CPBR=?"
    /\ Command["PhoneBook3"] = "+CPBR="
<1>1. \A s \in DOMAIN Command : Command[s] \in Commands
    BY DEF Commands
<1>2. /\ Command["Init"] = "Z" /\ Command["Init3"] = "+CMEE=1"
      /\ Command["Init6"] = "+CBC" /\ Command["Init7"] = "+CSQ"
      /\ Command["OpInfo1"] = "+COPS=3,0" /\ Command["PhoneBook"] = "+CPBS="
      /\ Command["PhoneBook1"] = "+CPBS?" /\ Command["PhoneBook2"] = "+CPBR=?"
      /\ Command["PhoneBook3"] = "+CPBR="
    BY DEF Command
<1>3. /\ Command["Init"] \in Commands /\ Command["Init6"] \in Commands
      /\ Command["Init7"] \in Commands /\ Command["PhoneBook"] \in Commands
      /\ Command["PhoneBook1"] \in Commands
      /\ Command["PhoneBook2"] \in Commands
      /\ Command["PhoneBook3"] \in Commands
    BY <1>1, StatesAre
<1> QED
    BY <1>1, <1>2, <1>3

\* The next of the first pass.
LEMMA FollowIs ==
    ASSUME state \in {Order[i] : i \in 1 .. Len(Order) - 1}, Follow
    PROVE  \E s \in DOMAIN Command : at(s, Command[s])
<1>1. Len(Order) = 15 /\ DOMAIN Order = 1 .. 15
    BY DEF Order
<1>2. PICK i \in 1 .. 14 : state = Order[i]
    BY <1>1
<1>3. \A j, k \in 1 .. 15 : Order[j] = Order[k] => j = k
    BY DEF Order
<1>4. (CHOOSE k \in DOMAIN Order : Order[k] = state) = i
    BY <1>1, <1>2, <1>3
<1>5. at(Order[i + 1], Command[Order[i + 1]])
    BY <1>4 DEF Follow
<1>6. \A j \in 1 .. 15 : Order[j] \in DOMAIN Command
    BY StatesAre DEF Order
<1>7. Order[i + 1] \in DOMAIN Command
    <2>1. i + 1 \in 1 .. 15
        BY <1>2
    <2> QED
        BY <1>6, <2>1
<1> QED
    BY <1>5, <1>7

-----------------------------------------------------------------------------
(* The wire *)

LEMMA LineTaken ==
    ASSUME GsmTypeOK, wire # <<>>, wire' = Tail(wire)
    PROVE  /\ Len(wire) \in Nat \ {0} /\ line = wire[1] /\ line \in Lines
           /\ DOMAIN wire = 1 .. Len(wire) /\ wire' \in Seq(Lines)
           /\ DOMAIN wire' = 1 .. Len(wire) - 1
           /\ \A i \in DOMAIN wire' : i + 1 \in DOMAIN wire /\ wire'[i] = wire[i + 1]
BY DEF GsmTypeOK, line

LEMMA EndTaken ==
    ASSUME GsmTypeOK, wire # <<>>, wire' = Tail(wire), DataIsEnded, OneAtMost,
           line.kind \in {"ok", "error"}
    PROVE  /\ line.to = cmd /\ asked = <<>> /\ Answered' = {}
           /\ \A i \in DOMAIN wire' : wire'[i].kind \notin {"data", "echo"}
<1>1. 1 \in Answered
    BY LineTaken DEF Answered
<1>2. asked = <<>> /\ Answered = {1}
    BY <1>1 DEF OneAtMost, NothingOutstanding, OnlyCmdOutstanding
<1>6. line.to = cmd
    BY <1>1, LineTaken
       DEF OneAtMost, NothingOutstanding, OnlyCmdOutstanding
<1>3. \A i \in DOMAIN wire' : i + 1 \notin Answered
    BY <1>2, LineTaken
<1>4. Answered' = {}
    BY <1>3, LineTaken DEF Answered
<1>5. ASSUME NEW i \in DOMAIN wire', wire'[i].kind \in {"data", "echo"}
      PROVE  FALSE
    <2>1. /\ i \in Nat \ {0} /\ i + 1 \in DOMAIN wire
          /\ wire[i + 1].kind \in {"data", "echo"}
        BY <1>5, LineTaken
    <2> QED
        BY <1>2, <2>1 DEF DataIsEnded
<1> QED
    BY <1>2, <1>4, <1>5, <1>6

LEMMA OtherTaken ==
    ASSUME GsmTypeOK, wire # <<>>, wire' = Tail(wire), DataIsEnded, OneAtMost,
           line.kind \notin {"ok", "error"}, UNCHANGED <<state, cmd, asked>>
    PROVE  DataIsEnded' /\ OneAtMost'
<1>1. 1 \notin Answered
    BY LineTaken DEF Answered
<1>2. \A i \in Nat : i \in Answered' <=> i \in DOMAIN wire' /\ i + 1 \in Answered
    BY LineTaken DEF Answered
<1>3. \A j \in Answered :
          j \in Nat /\ j > 1 /\ j - 1 \in DOMAIN wire' /\ (j - 1) + 1 = j
    BY <1>1, LineTaken DEF Answered
<1>4. DataIsEnded'
    <2> SUFFICES ASSUME NEW i \in DOMAIN wire', wire'[i].kind \in {"data", "echo"}
                 PROVE  /\ \E j \in Answered' : i < j
                        /\ wire'[i].kind = "data" => cmd \notin SetCommands
                        /\ wire'[i].kind = "echo" => cmd \in {"Z", "E0"}
        BY DEF DataIsEnded
    <2>1. i \in Nat /\ i + 1 \in DOMAIN wire /\ wire'[i] = wire[i + 1]
        BY LineTaken
    <2>2. PICK j \in Answered : i + 1 < j
        BY <2>1 DEF DataIsEnded
    <2>3. j - 1 \in Answered' /\ i < j - 1
        BY <1>2, <1>3, <2>1, <2>2
    <2> QED
        BY <2>1, <2>3 DEF DataIsEnded
<1>5. CASE NothingOutstanding
    <2>1. Answered' = {}
        BY <1>2, <1>5, LineTaken DEF NothingOutstanding, Answered
    <2> QED
        BY <1>4, <1>5, <2>1 DEF NothingOutstanding, OneAtMost
<1>6. CASE Answered = {} /\ asked = <<cmd>> /\ state \in Busy
    <2>1. Answered' = {}
        BY <1>2, <1>6, LineTaken DEF Answered
    <2> QED
        BY <1>4, <1>6, <2>1 DEF OnlyCmdOutstanding, OneAtMost
<1>7. CASE /\ asked = <<>> /\ state \in Busy
           /\ \E i \in DOMAIN wire : Answered = {i} /\ wire[i].to = cmd
    <2>1. PICK i \in DOMAIN wire : Answered = {i} /\ wire[i].to = cmd
        BY <1>7
    <2>2. i - 1 \in DOMAIN wire' /\ i - 1 \in Answered' /\ wire'[i - 1].to = cmd
        BY <1>2, <1>3, <2>1, LineTaken
    <2>3. ASSUME NEW k \in Answered' PROVE k = i - 1
        <3>1. k \in Nat /\ k \in DOMAIN wire'
            BY LineTaken DEF Answered
        <3> QED
            BY <1>2, <2>1, <3>1, LineTaken
    <2>4. Answered' = {i - 1}
        BY <2>2, <2>3
    <2> QED
        BY <1>4, <1>7, <2>2, <2>4 DEF OnlyCmdOutstanding, OneAtMost
<1> QED
    BY <1>5, <1>6, <1>7 DEF OneAtMost, OnlyCmdOutstanding

\* A state that takes any line for an answer has asked for no data.
LEMMA EndIsAnswer ==
    ASSUME GsmIInv, Calm, wire # <<>>, wire' = Tail(wire), IsEnd,
           ~(ByAnyChat /\ line.kind = "ring")
    PROVE  line.kind \in {"ok", "error"}
<1>1. CASE ByAnyChat
    <2>1. cmd \in {"+CMEE=1", "+COPS=3,0", "+CPBS="}
        BY <1>1, StatesAre, CommandsAre
           DEF GsmIInv, CmdIsStates, ByAnyChat
    <2>2. cmd \in SetCommands /\ cmd \notin {"Z", "E0"}
        BY <2>1 DEF SetCommands
    <2>3. 1 \in DOMAIN wire /\ line = wire[1] /\ line \in Lines
        BY LineTaken DEF GsmIInv
    <2>4. line.kind \notin {"data", "echo"}
        BY <2>2, <2>3 DEF GsmIInv, DataIsEnded
    <2>5. line.kind # "clip"
        BY DEF IsEnd, Nothing, Incoming
    <2> QED
        BY <1>1, <2>3, <2>4, <2>5 DEF Lines
<1> QED
    BY <1>1 DEF IsEnd

-----------------------------------------------------------------------------
(* What a step leaves *)

Sends == \E s \in DOMAIN Command : at(s, Command[s])

\* A line that ended an answer has been read: the next command, if any, is
\* alone.
LEMMA EndsKeeps ==
    ASSUME GsmIInv, Ends,
           Sends \/ (state' = "Connected" /\ pinging' /\ UNCHANGED <<cmd, asked>>)
    PROVE  /\ CmdIsStates' /\ KeepsPinging'
           /\ Calm' => DataIsEnded' /\ OneAtMost'
<1>1. /\ opened /\ state \notin {"gone", "Open"} /\ wire # <<>>
      /\ wire' = Tail(wire) /\ UNCHANGED <<blocks, opened, mishaps>>
      /\ IsEnd /\ slipped' = (slipped \/ (ByAnyChat /\ line.kind = "ring"))
    BY DEF Ends, ReadsLine
<1>2. Sends => state' \in DOMAIN Command /\ cmd' = Command[state']
    BY DEF Sends, at
<1>3. CmdIsStates'
    BY <1>2, StatesAre DEF CmdIsStates
<1>4. KeepsPinging'
    BY <1>2, StatesAre DEF KeepsPinging
<1>5. ASSUME Calm' PROVE DataIsEnded' /\ OneAtMost'
    <2>1. Calm /\ ~(ByAnyChat /\ line.kind = "ring")
        BY <1>1, <1>5 DEF Calm
    <2>2. GsmTypeOK /\ DataIsEnded /\ OneAtMost
        BY <2>1 DEF GsmIInv
    <2>3. line.kind \in {"ok", "error"}
        BY <1>1, <2>1, EndIsAnswer
    <2>4. /\ asked = <<>> /\ Answered' = {}
          /\ \A i \in DOMAIN wire' : wire'[i].kind \notin {"data", "echo"}
        BY <1>1, <2>2, <2>3, EndTaken
    <2>5. DataIsEnded'
        BY <2>4 DEF DataIsEnded
    <2>6. CASE Sends
        <3>1. asked' = <<cmd'>> /\ state' \in Busy
            BY <1>2, <2>4, <2>6 DEF Sends, at, Busy
        <3> QED
            BY <2>4, <2>5, <3>1 DEF OneAtMost, OnlyCmdOutstanding
    <2>7. CASE UNCHANGED <<cmd, asked>>
        BY <2>4, <2>5, <2>7 DEF OneAtMost, NothingOutstanding
    <2> QED
        BY <2>6, <2>7
<1> QED
    BY <1>3, <1>4, <1>5

LEMMA SendsTypes ==
    ASSUME GsmTypeOK, NEW s \in Busy, NEW c \in Commands, at(s, c)
    PROVE  /\ state' \in Busy \cup {"gone", "Open", "Connected"}
           /\ cmd' \in Commands /\ tries' \in 0 .. Tries
           /\ asked' \in Seq(Commands)
BY GsmAssumption, AppendProperties DEF GsmTypeOK, at

LEMMA SendsIsTyped ==
    ASSUME GsmTypeOK, Sends
    PROVE  /\ state' \in Busy \cup {"gone", "Open", "Connected"}
           /\ cmd' \in Commands /\ tries' \in 0 .. Tries
           /\ asked' \in Seq(Commands)
<1>1. PICK s \in DOMAIN Command : at(s, Command[s])
    BY DEF Sends
<1>2. s \in Busy /\ Command[s] \in Commands
    BY CommandsAre DEF Busy
<1> QED
    BY <1>1, <1>2, SendsTypes

\* getNextEntry() goes on with a slot, with the other book, or ends.
LEMMA NextEntryIs ==
    ASSUME GsmTypeOK, NEW todo \in SUBSET Slot, NEW from \in Nat, NEW type \in {0, 1},
           getNextEntry(todo, from, type)
    PROVE  /\ entries' \subseteq Slot /\ size' \in Nat /\ bookType' \in {0, 1}
           /\ pinging' \in BOOLEAN
           /\ \/ Sends
              \/ state' = "Connected" /\ pinging' /\ UNCHANGED <<cmd, tries, asked>>
<1>1. entries' \subseteq Slot
    BY DEF getNextEntry
<1>2. CASE NextSlot(todo, from, type)
    <2>1. at("PhoneBook3", Command["PhoneBook3"])
        BY <1>2, CommandsAre DEF NextSlot
    <2>2. PICK n \in LeftOf(todo, from) : size' = n + 1
        BY <1>2 DEF NextSlot
    <2>3. size' \in Nat
        BY <2>2, GsmAssumption DEF LeftOf
    <2>4. Sends
        BY <2>1, StatesAre DEF Sends
    <2> QED
        BY <1>1, <1>2, <2>3, <2>4 DEF NextSlot, GsmTypeOK
<1>3. CASE MoreBooks(type) /\ NextBook(type)
    <2>1. at("PhoneBook", Command["PhoneBook"])
        BY <1>3, CommandsAre DEF NextBook
    <2>2. Sends
        BY <2>1, StatesAre DEF Sends
    <2> QED
        BY <1>1, <1>3, <2>2 DEF NextBook, MoreBooks, GsmTypeOK
<1>4. CASE BooksRead(from, type)
    BY <1>1, <1>4 DEF BooksRead, processQueue
<1> QED
    BY <1>2, <1>3, <1>4 DEF getNextEntry

-----------------------------------------------------------------------------
(* The steps *)

LEMMA ReadsTypes ==
    ASSUME GsmTypeOK, ReadsLine
    PROVE  /\ wire' \in Seq(Lines) /\ inRead' \in BOOLEAN
           /\ blocks' \in BOOLEAN /\ opened' \in BOOLEAN
           /\ mishaps' \in 0 .. MaxMishaps
<1>1. wire # <<>> /\ wire' = Tail(wire)
    BY DEF ReadsLine
<1>2. wire' \in Seq(Lines)
    BY <1>1, LineTaken
<1> QED
    BY <1>2 DEF ReadsLine, GsmTypeOK

LEMMA EndsTypes ==
    ASSUME GsmIInv, Ends
    PROVE  slipped' \in BOOLEAN /\ posted' \in BOOLEAN
BY DEF Ends, GsmIInv, GsmTypeOK

LEMMA NextCommandKeeps == ASSUME GsmIInv, NextCommand PROVE GsmIInv'
<1>1. Ends /\ KeepsBook /\ UNCHANGED <<bPing, pinging>>
    BY DEF NextCommand
<1>5. Sends
    <2>1. CASE state \in {Order[i] : i \in 1 .. Len(Order) - 1} /\ Follow
        BY <2>1, FollowIs DEF Sends
    <2>2. CASE at("PhoneBook1", Command.PhoneBook1)
        BY <2>2, StatesAre DEF Sends
    <2>3. CASE at("PhoneBook2", Command.PhoneBook2)
        BY <2>3, StatesAre DEF Sends
    <2> QED
        BY <2>1, <2>2, <2>3 DEF NextCommand
<1>6. GsmTypeOK'
    BY <1>1, <1>5, SendsIsTyped, ReadsTypes, EndsTypes
       DEF Ends, KeepsBook, GsmIInv, GsmTypeOK
<1> QED
    BY <1>1, <1>5, <1>6, EndsKeeps DEF GsmIInv

LEMMA InitDoneKeeps == ASSUME GsmIInv, InitDone PROVE GsmIInv'
<1>1. /\ Ends /\ bookType' = 0 /\ pinging' = TRUE
      /\ UNCHANGED <<entries, size, bPing>>
      /\ at("PhoneBook", Command["PhoneBook"])
    BY CommandsAre DEF InitDone, processQueue
<1>2. Sends
    BY <1>1, StatesAre DEF Sends
<1>3. GsmTypeOK'
    BY <1>1, <1>2, SendsIsTyped, ReadsTypes, EndsTypes
       DEF Ends, GsmIInv, GsmTypeOK
<1> QED
    BY <1>1, <1>2, <1>3, EndsKeeps DEF GsmIInv

LEMMA BookReadKeeps == ASSUME GsmIInv, BookRead PROVE GsmIInv'
<1>1. Ends /\ UNCHANGED bPing
    BY DEF BookRead
<1>2. /\ entries' \subseteq Slot /\ size' \in Nat /\ bookType' \in {0, 1}
      /\ pinging' \in BOOLEAN
      /\ \/ Sends
         \/ state' = "Connected" /\ pinging' /\ UNCHANGED <<cmd, tries, asked>>
    <2>1. /\ GsmTypeOK /\ entries \in SUBSET Slot /\ size \in Nat
          /\ bookType \in {0, 1} /\ 0 \in Nat
        BY DEF GsmIInv, GsmTypeOK
    <2>2. CASE \E todo \in SUBSET Slot : getNextEntry(todo, 0, bookType)
        BY <2>1, <2>2, NextEntryIs
    <2>3. CASE getNextEntry(entries, size, bookType)
        BY <2>1, <2>3, NextEntryIs
    <2> QED
        BY <2>2, <2>3 DEF BookRead
<1>3. /\ state' \in Busy \cup {"gone", "Open", "Connected"}
      /\ cmd' \in Commands /\ tries' \in 0 .. Tries /\ asked' \in Seq(Commands)
    BY <1>2, SendsIsTyped DEF GsmIInv, GsmTypeOK
<1>4. GsmTypeOK'
    BY <1>1, <1>2, <1>3, ReadsTypes, EndsTypes
       DEF Ends, GsmIInv, GsmTypeOK
<1> QED
    BY <1>1, <1>2, <1>4, EndsKeeps DEF GsmIInv

LEMMA PingedKeeps == ASSUME GsmIInv, Pinged PROVE GsmIInv'
<1>1. /\ Ends /\ state' = "Connected" /\ bPing' = ~bPing /\ pinging' = TRUE
      /\ KeepsBook /\ UNCHANGED <<cmd, tries, asked>>
    BY DEF Pinged, processQueue
<1>2. GsmTypeOK'
    BY <1>1, ReadsTypes, EndsTypes
       DEF Ends, KeepsBook, GsmIInv, GsmTypeOK
<1> QED
    BY <1>1, <1>2, EndsKeeps DEF GsmIInv

LEMMA OtherLineKeeps == ASSUME GsmIInv, OtherLine PROVE GsmIInv'
<1>1. /\ wire # <<>> /\ wire' = Tail(wire)
      /\ UNCHANGED <<opened, state, cmd, asked, slipped, pinging>>
    BY DEF OtherLine, ReadsLine, Stays
<1>2. tries' \in 0 .. Tries
    BY GsmAssumption DEF OtherLine, GsmIInv, GsmTypeOK
<1>3. posted' \in BOOLEAN
    BY DEF OtherLine, GsmIInv, GsmTypeOK
<1>4. GsmTypeOK'
    BY <1>1, <1>2, <1>3, ReadsTypes
       DEF OtherLine, KeepsBook, GsmIInv, GsmTypeOK
<1>5. ASSUME Calm' PROVE DataIsEnded' /\ OneAtMost'
    <2>1. GsmTypeOK /\ DataIsEnded /\ OneAtMost
        BY <1>1, <1>5 DEF Calm, GsmIInv
    <2>2. CASE line.kind \in {"ok", "error"}
        <3>1. /\ asked = <<>> /\ Answered' = {}
              /\ \A i \in DOMAIN wire' : wire'[i].kind \notin {"data", "echo"}
            BY <1>1, <2>1, <2>2, EndTaken
        <3> QED
            BY <1>1, <3>1 DEF DataIsEnded, OneAtMost, NothingOutstanding
    <2>3. CASE line.kind \notin {"ok", "error"}
        BY <1>1, <2>1, <2>3, OtherTaken
    <2> QED
        BY <2>2, <2>3
<1> QED
    BY <1>1, <1>4, <1>5 DEF GsmIInv, CmdIsStates, KeepsPinging

\* What the phone says to c: a final line, with one of data or an echo before it
\* where c is answered with such a line.
IsAnswer(a, c) ==
    /\ a \in Seq(Lines) /\ Len(a) \in {1, 2} /\ DOMAIN a = 1 .. Len(a)
    /\ a[Len(a)].kind \in {"ok", "error"} /\ a[Len(a)].to = c
    /\ Len(a) = 2 => /\ a[1].kind \in {"data", "echo"}
                     /\ a[1].kind = "data" => c \notin SetCommands
                     /\ a[1].kind = "echo" => c \in {"Z", "E0"}

LEMMA AnswerIs ==
    ASSUME NEW c \in Commands, NEW a \in AnswersTo(c)
    PROVE  IsAnswer(a, c)
<1> DEFINE l(k) == Line(k, c)
<1>1. \/ a = <<l("ok")>> \/ a = <<l("error")>>
      \/ a = <<l("data"), l("ok")>> /\ c \notin SetCommands
      \/ a = <<l("echo"), l("ok")>> /\ c \in {"Z", "E0"}
    BY DEF AnswersTo
<1>2. \A k \in {"ok", "error", "data", "echo"} :
          l(k) \in Lines /\ l(k).kind = k /\ l(k).to = c
    BY DEF Line, Lines
<1> HIDE DEF l
<1>3. CASE a = <<l("ok")>> \/ a = <<l("error")>>
    <2>1. PICK e \in Lines : a = <<e>> /\ e.kind \in {"ok", "error"} /\ e.to = c
        BY <1>2, <1>3
    <2>2. DOMAIN a = 1 .. 1 /\ Len(a) = 1 /\ a \in Seq(Lines) /\ a[1] = e
        BY <2>1
    <2> QED
        BY <2>1, <2>2 DEF IsAnswer
<1>4. CASE a = <<l("data"), l("ok")>> /\ c \notin SetCommands
    <2>1. DOMAIN a = 1 .. 2 /\ Len(a) = 2 /\ a \in Seq(Lines)
        BY <1>2, <1>4
    <2> QED
        BY <1>2, <1>4, <2>1 DEF IsAnswer
<1>5. CASE a = <<l("echo"), l("ok")>> /\ c \in {"Z", "E0"}
    <2>1. DOMAIN a = 1 .. 2 /\ Len(a) = 2 /\ a \in Seq(Lines)
        BY <1>2, <1>5
    <2> QED
        BY <1>2, <1>5, <2>1 DEF IsAnswer
<1> QED
    BY <1>1, <1>3, <1>4, <1>5

LEMMA AnswerKeeps == ASSUME GsmIInv, Answer PROVE GsmIInv'
<1>1. asked # <<>> /\ asked' = Tail(asked) /\ asked \in Seq(Commands)
    BY DEF Answer, GsmIInv, GsmTypeOK
<1>2. Head(asked) \in Commands /\ asked' \in Seq(Commands)
    BY <1>1, HeadTailProperties
<1>3. PICK a \in AnswersTo(Head(asked)) : wire' = IF opened THEN wire \o a ELSE wire
    BY DEF Answer
<1>4. /\ a \in Seq(Lines) /\ Len(a) \in {1, 2} /\ DOMAIN a = 1 .. Len(a)
      /\ a[Len(a)].kind \in {"ok", "error"} /\ a[Len(a)].to = Head(asked)
      /\ Len(a) = 2 => /\ a[1].kind \in {"data", "echo"}
                       /\ a[1].kind = "data" => Head(asked) \notin SetCommands
                       /\ a[1].kind = "echo" => Head(asked) \in {"Z", "E0"}
    BY <1>2, AnswerIs DEF IsAnswer
<1>5. wire \in Seq(Lines) /\ wire' \in Seq(Lines)
    BY <1>3, <1>4, ConcatProperties DEF GsmIInv, GsmTypeOK
<1>6. UNCHANGED <<state, cmd, tries, entries, size, bookType, bPing, pinging,
                  opened, posted, blocks, inRead, slipped, mishaps>>
    BY DEF Answer, port
<1>7. GsmTypeOK'
    BY <1>2, <1>5, <1>6 DEF GsmIInv, GsmTypeOK
<1>8. ASSUME Calm' PROVE DataIsEnded' /\ OneAtMost'
    <2>1. opened /\ DataIsEnded /\ OneAtMost
        BY <1>6, <1>8 DEF Calm, GsmIInv
    <2>2. Answered = {} /\ asked = <<cmd>> /\ state \in Busy
        BY <1>1, <2>1 DEF OneAtMost, NothingOutstanding, OnlyCmdOutstanding
    <2>3. Head(asked) = cmd /\ asked' = <<>>
        BY <1>1, <2>2
    <2>4. PICK n \in Nat : n = Len(wire)
        BY <1>5
    <2>5. /\ DOMAIN wire = 1 .. n /\ wire' = wire \o a
          /\ DOMAIN wire' = 1 .. n + Len(a)
          /\ \A i \in 1 .. n : wire'[i] = wire[i]
          /\ \A i \in n + 1 .. n + Len(a) : wire'[i] = a[i - n]
        BY <1>3, <1>4, <1>5, <2>1, <2>4
    <2>6. \A i \in 1 .. n : wire[i].kind \notin {"ok", "error", "data", "echo"}
        BY <2>1, <2>2, <2>5 DEF Answered, DataIsEnded
    <2>7. CASE Len(a) = 1
        <3>1. \A i \in DOMAIN wire' : i \in 1 .. n \/ i = n + 1
            BY <2>5, <2>7
        <3>2. wire'[n + 1] = a[1] /\ n + 1 \in DOMAIN wire'
            BY <2>5, <2>7
        <3>3. Answered' = {n + 1}
            BY <1>4, <2>5, <2>6, <2>7, <3>1, <3>2 DEF Answered
        <3>4. DataIsEnded'
            BY <1>4, <2>5, <2>6, <2>7, <3>1, <3>2 DEF DataIsEnded
        <3> QED
            BY <1>4, <1>6, <2>2, <2>3, <2>7, <3>2, <3>3, <3>4
               DEF OneAtMost, OnlyCmdOutstanding
    <2>8. CASE Len(a) = 2
        <3>1. \A i \in DOMAIN wire' : i \in 1 .. n \/ i = n + 1 \/ i = n + 2
            BY <2>5, <2>8
        <3>2. /\ wire'[n + 1] = a[1] /\ wire'[n + 2] = a[2]
              /\ n + 2 \in DOMAIN wire' /\ n + 1 < n + 2
            BY <2>5, <2>8
        <3>3. Answered' = {n + 2}
            BY <1>4, <2>5, <2>6, <2>8, <3>1, <3>2 DEF Answered
        <3>4. DataIsEnded'
            BY <1>4, <1>6, <2>3, <2>5, <2>6, <2>8, <3>1, <3>2, <3>3
               DEF DataIsEnded
        <3> QED
            BY <1>4, <1>6, <2>2, <2>3, <2>8, <3>2, <3>3, <3>4
               DEF OneAtMost, OnlyCmdOutstanding
    <2> QED
        BY <1>4, <2>7, <2>8
<1> QED
    BY <1>6, <1>7, <1>8 DEF GsmIInv, CmdIsStates, KeepsPinging

LEMMA RingKeeps == ASSUME GsmIInv, Ring PROVE GsmIInv'
<1>1. PICK kind \in {"ring", "clip"} :
          wire' = Append(wire, Line(kind, Unsolicited))
    BY DEF Ring
<1> DEFINE l == Line(kind, Unsolicited)
<1>2. l \in Lines /\ l.kind = kind
    BY DEF Line, Lines
<1> HIDE DEF l
<1>3. /\ wire \in Seq(Lines) /\ wire' = Append(wire, l)
      /\ UNCHANGED <<state, cmd, tries, entries, size, bookType, bPing, pinging,
                     opened, posted, blocks, inRead, asked, slipped>>
    BY <1>1 DEF Ring, port, GsmIInv, GsmTypeOK, l
<1>4. /\ wire' \in Seq(Lines) /\ Len(wire) \in Nat /\ DOMAIN wire = 1 .. Len(wire)
      /\ DOMAIN wire' = 1 .. Len(wire) + 1
      /\ \A i \in DOMAIN wire : wire'[i] = wire[i] /\ i \in DOMAIN wire'
      /\ \A i \in DOMAIN wire' : i \in DOMAIN wire \/ wire'[i] = l
    BY <1>2, <1>3
<1>5. mishaps' \in 0 .. MaxMishaps
    BY GsmAssumption DEF Ring, GsmIInv, GsmTypeOK
<1>6. GsmTypeOK'
    BY <1>3, <1>4, <1>5 DEF GsmIInv, GsmTypeOK
<1>7. Answered' = Answered
    BY <1>2, <1>4 DEF Answered
<1>8. ASSUME Calm' PROVE DataIsEnded' /\ OneAtMost'
    <2>1. DataIsEnded /\ OneAtMost
        BY <1>3, <1>8 DEF Calm, GsmIInv
    <2>2. DataIsEnded'
        BY <1>2, <1>3, <1>4, <1>7, <2>1 DEF DataIsEnded
    <2>3. OneAtMost'
        BY <1>3, <1>4, <1>7, <2>1
           DEF OneAtMost, NothingOutstanding, OnlyCmdOutstanding
    <2> QED
        BY <2>2, <2>3
<1> QED
    BY <1>3, <1>6, <1>8 DEF GsmIInv, CmdIsStates, KeepsPinging

\* Steps that leave the wire, and what is said on it, alone.
LEMMA QuietKeeps ==
    ASSUME GsmIInv, UNCHANGED <<state, cmd, asked, wire>>, Calm' => Calm, GsmTypeOK',
           opened' => opened /\ (pinging => pinging')
    PROVE  GsmIInv'
<1>1. Answered' = Answered
    BY DEF Answered
<1>2. ASSUME Calm' PROVE DataIsEnded' /\ OneAtMost'
    BY <1>1, <1>2
       DEF GsmIInv, DataIsEnded, OneAtMost, NothingOutstanding,
           OnlyCmdOutstanding
<1> QED
    BY <1>2 DEF GsmIInv, CmdIsStates, KeepsPinging

\* A command sent when nothing is outstanding, to a phone that has said nothing
\* else.
LEMMA SentAlone ==
    ASSUME Answered' = {},
           \A i \in DOMAIN wire' : wire'[i].kind \notin {"data", "echo"},
           asked' = <<cmd'>>, state' \in Busy
    PROVE  DataIsEnded' /\ OneAtMost'
BY DEF DataIsEnded, OneAtMost, OnlyCmdOutstanding

LEMMA pingKeeps == ASSUME GsmIInv, ping PROVE GsmIInv'
<1>1. /\ pinging' = FALSE /\ KeepsBook
      /\ UNCHANGED <<bPing, opened, posted, blocks, inRead, wire, slipped, mishaps>>
    BY DEF ping, port
<1>2. CASE state # "Connected"
    <2>1. UNCHANGED <<state, cmd, asked, tries>>
        BY <1>2 DEF ping, Stays
    <2>2. GsmTypeOK'
        BY <1>1, <2>1 DEF GsmIInv, GsmTypeOK, KeepsBook
    <2>3. Answered' = Answered
        BY <1>1 DEF Answered
    <2>4. ASSUME Calm' PROVE DataIsEnded' /\ OneAtMost'
        BY <1>1, <2>1, <2>3, <2>4
           DEF Calm, GsmIInv, DataIsEnded, OneAtMost, NothingOutstanding,
               OnlyCmdOutstanding
    <2> QED
        BY <1>1, <1>2, <2>1, <2>2, <2>4
           DEF GsmIInv, CmdIsStates, KeepsPinging
<1>3. CASE state = "Connected"
    <2>1. PICK c \in {"+CBC", "+CSQ"} : at("Ping", c)
        BY <1>3 DEF ping
    <2>2. /\ state' = "Ping" /\ cmd' = c /\ asked' = Append(asked, c)
          /\ "Ping" \in Busy /\ c \in Commands
        BY <2>1, CommandsAre DEF at, Busy
    <2>3. GsmTypeOK'
        BY <1>1, <2>1, <2>2, SendsTypes
           DEF GsmIInv, GsmTypeOK, KeepsBook
    <2>4. ASSUME Calm' PROVE DataIsEnded' /\ OneAtMost'
        <3>1. DataIsEnded /\ Answered = {} /\ asked = <<>>
            BY <1>1, <1>3, <2>4, StatesAre
               DEF Calm, GsmIInv, OneAtMost, NothingOutstanding
        <3>2. Answered' = {} /\ asked' = <<cmd'>>
            BY <1>1, <2>2, <3>1 DEF Answered
        <3>3. \A i \in DOMAIN wire' : wire'[i].kind \notin {"data", "echo"}
            BY <1>1, <3>1 DEF DataIsEnded
        <3> QED
            BY <2>2, <3>2, <3>3, SentAlone
    <2>5. CmdIsStates' /\ KeepsPinging'
        BY <2>2, StatesAre DEF CmdIsStates, KeepsPinging
    <2> QED
        BY <2>3, <2>4, <2>5 DEF GsmIInv
<1> QED
    BY <1>2, <1>3

LEMMA PortErrorKeeps ==
    ASSUME GsmIInv, PortError, inRead' \in BOOLEAN
    PROVE  GsmIInv'
<1>1. /\ ~opened' /\ pinging' = FALSE /\ posted' = TRUE
      /\ UNCHANGED <<state, cmd, asked, wire>>
    BY DEF PortError, Stays
<1>2. GsmTypeOK'
    BY DEF PortError, Stays, KeepsBook, GsmIInv, GsmTypeOK
<1> QED
    BY <1>1, <1>2, QuietKeeps DEF Calm

LEMMA FreshIsTyped ==
    /\ "Z" \in Commands /\ Tries \in 0 .. Tries /\ {} \subseteq Slot
    /\ 0 \in Nat /\ 0 \in {0, 1} /\ FALSE \in BOOLEAN /\ 0 \in 0 .. MaxMishaps
    /\ <<>> \in Seq(Lines) /\ <<>> \in Seq(Commands)
<1>1. "Z" \in Commands
    BY CommandsAre
<1>2. Tries \in 0 .. Tries /\ 0 \in 0 .. MaxMishaps
    BY GsmAssumption
<1> QED
    BY <1>1, <1>2

LEMMA DeleteKeeps ==
    ASSUME GsmIInv, Delete, posted' \in BOOLEAN
    PROVE  GsmIInv'
<1>1. GsmTypeOK'
    BY FreshIsTyped DEF Delete, Fresh, GsmIInv, GsmTypeOK
<1> QED
    BY <1>1, StatesAre
       DEF Delete, Fresh, GsmIInv, CmdIsStates, KeepsPinging, Calm

LEMMA GoOnlineKeeps == ASSUME GsmIInv, GoOnline PROVE GsmIInv'
<1>1. mishaps' \in 0 .. MaxMishaps
    BY GsmAssumption DEF GoOnline, GsmIInv, GsmTypeOK
<1>2. GsmTypeOK'
    BY <1>1, FreshIsTyped DEF GoOnline, Fresh, GsmIInv, GsmTypeOK
<1> QED
    BY <1>2, StatesAre
       DEF GoOnline, Fresh, GsmIInv, CmdIsStates, KeepsPinging, Calm

LEMMA readyKeeps == ASSUME GsmIInv, ready PROVE GsmIInv'
<1>1. /\ state' = "Init" /\ cmd' = "Z" /\ asked' = Append(asked, "Z") /\ wire' = <<>>
      /\ slipped' = (asked # <<>>) /\ "Init" \in Busy /\ "Z" \in Commands
      /\ at("Init", "Z")
      /\ UNCHANGED <<entries, size, bookType, bPing, pinging, opened, posted, blocks,
                     inRead, mishaps>>
    BY StatesAre, CommandsAre DEF ready, at, port, KeepsBook, Busy
<1>2. GsmTypeOK'
    BY <1>1, SendsTypes, EmptySeq DEF GsmIInv, GsmTypeOK
<1>3. ASSUME Calm' PROVE DataIsEnded' /\ OneAtMost'
    <2>1. asked = <<>>
        BY <1>1, <1>3, Zenon DEF Calm
    <2>4. asked' = <<cmd'>>
        BY <1>1, <2>1
    <2>2. DOMAIN wire' = {}
        BY <1>1
    <2>3. Answered' = {}
        BY <2>2 DEF Answered
    <2> QED
        BY <1>1, <2>2, <2>3, <2>4, SentAlone
<1>4. CmdIsStates' /\ KeepsPinging'
    BY <1>1, CommandsAre DEF CmdIsStates, KeepsPinging
<1> QED
    BY <1>2, <1>3, <1>4 DEF GsmIInv

-----------------------------------------------------------------------------
LEMMA GsmInitIInv == GsmInit => GsmIInv
<1> SUFFICES ASSUME GsmInit PROVE GsmIInv
    OBVIOUS
<1>1. GsmTypeOK
    BY GsmAssumption, FreshIsTyped DEF GsmInit, GsmTypeOK
<1> QED
    BY <1>1, StatesAre
       DEF GsmInit, GsmIInv, CmdIsStates, KeepsPinging, Calm

LEMMA GsmNextIInv == GsmIInv /\ [GsmNext]_gsmVars => GsmIInv'
<1> SUFFICES ASSUME GsmIInv, [GsmNext]_gsmVars PROVE GsmIInv'
    OBVIOUS
<1>1. CASE Answer
    BY <1>1, AnswerKeeps
<1>2. CASE Ring
    BY <1>2, RingKeeps
<1>3. CASE Reading
    BY <1>3, NextCommandKeeps, InitDoneKeeps, BookReadKeeps, PingedKeeps,
       OtherLineKeeps
       DEF Reading
<1>4. CASE ping
    BY <1>4, pingKeeps
<1>5. CASE readTimeout
    BY <1>5, PortErrorKeeps DEF readTimeout, GsmIInv, GsmTypeOK
<1>6. CASE HangUp
    BY <1>6, PortErrorKeeps DEF HangUp
<1>7. CASE ta_error \/ GoOffline
    <2>1. Delete /\ posted' \in BOOLEAN
        BY <1>7 DEF ta_error, GoOffline, GsmIInv, GsmTypeOK
    <2> QED
        BY <2>1, DeleteKeeps
<1>8. CASE GoOnline
    BY <1>8, GoOnlineKeeps
<1>9. CASE ready
    BY <1>9, readyKeeps
<1>10. CASE UNCHANGED gsmVars
    <2>1. GsmTypeOK' /\ UNCHANGED <<state, cmd, asked, wire, opened, slipped, pinging>>
        BY <1>10 DEF gsmVars, port, phone, GsmIInv, GsmTypeOK
    <2> QED
        BY <2>1, QuietKeeps DEF Calm
<1> QED
    BY <1>1, <1>2, <1>3, <1>4, <1>5, <1>6, <1>7, <1>8, <1>9, <1>10 DEF GsmNext

LEMMA GsmInvariance == GsmSpec => []GsmIInv
<1> QED
    BY GsmInitIInv, GsmNextIInv, PTL DEF GsmSpec

\* Every variable of the adapter's model keeps its type.
THEOREM GsmTypeCorrect == GsmSpec => []GsmTypeOK
<1>1. GsmIInv => GsmTypeOK
    BY DEF GsmIInv
<1> QED
    BY <1>1, GsmInvariance, PTL

\* Answers carry no name; but for a RING where any line counts as an answer and
\* a late one from before the port was reopened, at most the command last sent
\* is unanswered, whatever the phone says and when.
THEOREM AnswersInStep == GsmSpec => []InStep
<1>1. GsmIInv => InStep
    BY InStepIs DEF GsmIInv
<1> QED
    BY <1>1, GsmInvariance, PTL

\* So the line that takes the adapter on, and any error, is of the command it
\* sent last.
THEOREM OwnAnswersOnly ==
    GsmSpec => [][(Ends \/ (OtherLine /\ line.kind = "error")) /\ ~slipped'
                    => line.to = cmd]_gsmVars
<1> DEFINE Own == (Ends \/ (OtherLine /\ line.kind = "error")) /\ ~slipped'
                    => line.to = cmd
<1>1. GsmIInv => [Own]_gsmVars
    <2> SUFFICES ASSUME GsmIInv, ~slipped',
                        Ends \/ (OtherLine /\ line.kind = "error")
                 PROVE  line.to = cmd
        OBVIOUS
    <2>1. opened /\ state # "Open" /\ wire # <<>> /\ wire' = Tail(wire)
        BY DEF Ends, OtherLine, ReadsLine
    <2>2. CASE Ends
        <3>1. Calm /\ ~(ByAnyChat /\ line.kind = "ring") /\ IsEnd
            BY <2>1, <2>2 DEF Calm, Ends
        <3>2. line.kind \in {"ok", "error"}
            BY <2>1, <3>1, EndIsAnswer
        <3> QED
            BY <2>1, <3>1, <3>2, EndTaken DEF GsmIInv
    <2>3. CASE OtherLine /\ line.kind = "error"
        <3>1. Calm
            BY <2>1, <2>3 DEF Calm, OtherLine
        <3> QED
            BY <2>1, <2>3, <3>1, EndTaken DEF GsmIInv
    <2> QED
        BY <2>2, <2>3
<1> QED
    BY <1>1, GsmInvariance, PTL

\* The ping timer, a single shot, is started again on every way back to an idle
\* connection.
THEOREM PingingGoesOn == GsmSpec => []KeepsPinging
<1>1. GsmIInv => KeepsPinging
    BY DEF GsmIInv
<1> QED
    BY <1>1, GsmInvariance, PTL
=============================================================================
