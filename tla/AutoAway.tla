------------------------------ MODULE AutoAway ------------------------------
(***************************************************************************)
(* The AutoAway plugin: a timer compares how long the user has been idle   *)
(* with three limits and takes the common status (the core's ManualStatus) *)
(* to away, N/A and offline, keeping the user's own in RealManualStatus.   *)
(* Both are saved with the plugins' configuration, so a status the plugin  *)
(* set may be found again by the next start.                               *)
(*                                                                         *)
(* The plugin is among those built with BUILD_DROPPED only.                *)
(***************************************************************************)
EXTENDS Integers

CONSTANTS
    Status,       \* statuses the user can choose
    Config,       \* configurations of the plugin
    Measurable,   \* can idle time be measured?  a set of answers
    MaxIdle       \* bound on the idle time, in minutes

Away == "away"
NA == "na"
Offline == "offline"
Unknown == "unknown"      \* STATUS_UNKNOWN
ASSUME AutoAwayAssumption ==
    /\ {Away, NA, Offline} \subseteq Status /\ Unknown \notin Status
    /\ Config \subseteq [enableAway : BOOLEAN, awayTime : Nat,
                         enableNA : BOOLEAN, naTime : Nat,
                         enableOff : BOOLEAN, offTime : Nat]
    /\ Measurable \subseteq BOOLEAN /\ MaxIdle \in Nat

VARIABLES
    idle,        \* minutes since the user's last input
    measurable,  \* does getIdleTime() work here?
    ticking,     \* is m_timer running?
    config,
    manual,      \* the core's ManualStatus, and that of the clients following it
    real,        \* RealManualStatus
    bAway, bNA, bOff,
    saved,       \* what plugins.conf holds
    chosen,      \* history: the status the user chose last
    owner,       \* history: who set manual
    kept,        \* history: who had set the status that real keeps
    touched      \* history: the user chose while real was in use

flags == <<bAway, bNA, bOff>>
vars == <<idle, measurable, ticking, config, manual, real, bAway, bNA, bOff,
          saved, chosen, owner, kept, touched>>

Flagged == bAway \/ bNA \/ bOff
StateWithoutReal ==              \* mutant: RealManualStatus is not saved
    [manual |-> manual, real |-> Unknown, chosen |-> chosen,
     owner |-> owner, kept |-> kept, touched |-> touched]
State == [manual |-> manual, real |-> real, chosen |-> chosen,
          owner |-> owner, kept |-> kept, touched |-> touched]

Init ==
    /\ idle = 0 /\ measurable \in Measurable /\ ticking = TRUE
    /\ config \in Config
    /\ manual \in Status /\ real = Unknown
    /\ bAway = FALSE /\ bNA = FALSE /\ bOff = FALSE
    /\ chosen = manual /\ owner = "user" /\ kept = "nobody" /\ touched = FALSE
    /\ saved = State

-----------------------------------------------------------------------------
(* The user and the program around the plugin *)

TimePasses ==
    /\ idle < MaxIdle
    /\ idle' = idle + 1
    /\ UNCHANGED <<measurable, ticking, config, manual, real, flags, saved,
                   chosen, owner, kept, touched>>

UserActs ==
    /\ idle # 0
    /\ idle' = 0
    /\ UNCHANGED <<measurable, ticking, config, manual, real, flags, saved,
                   chosen, owner, kept, touched>>

UserChooses ==
    /\ idle' = 0
    /\ \E s \in Status : manual' = s /\ chosen' = s
    /\ owner' = "user" /\ touched' = (Flagged \/ real # Unknown)
    /\ UNCHANGED <<measurable, ticking, config, real, flags, saved, kept>>

\* AutoAwayConfig::apply.
Apply ==
    /\ idle' = 0
    /\ config' \in Config
    /\ UNCHANGED <<measurable, ticking, manual, real, flags, saved, chosen,
                   owner, kept, touched>>

Save ==
    /\ saved' = State
    /\ UNCHANGED <<idle, measurable, ticking, config, manual, real, flags,
                   chosen, owner, kept, touched>>

\* The program ends, having saved just before or long ago, and is started
\* again.
Restart ==
    /\ manual' = saved.manual /\ real' = saved.real
    /\ bAway' = FALSE /\ bNA' = FALSE /\ bOff' = FALSE
    /\ ticking' = TRUE
    /\ chosen' = saved.chosen /\ owner' = saved.owner
    /\ kept' = saved.kept /\ touched' = saved.touched
    /\ UNCHANGED <<idle, measurable, config, saved>>

-----------------------------------------------------------------------------
(* timeout() *)

\* getIdleTime() / 60.  Where it cannot be measured it stops the timer.
idleTime == IF measurable THEN idle ELSE 0
Ticks == ticking /\ ticking' = measurable
         /\ UNCHANGED <<idle, measurable, config, saved, chosen, touched>>

\* The end of timeout(): a status that is set already changes nothing.  It is
\* compared a second time behind the clients' setStatus: they leave it alone.
\* whose is who had chosen newStatus, from where oldStatus was taken.
Sets(newStatus, whose, oldStatus, from) ==
    IF newStatus = manual THEN UNCHANGED <<manual, owner, real, kept>>
    ELSE /\ manual' = newStatus /\ owner' = whose
         /\ real' = oldStatus /\ kept' = from

IsBack ==
    \/ bAway /\ idleTime < config.awayTime
    \/ bNA /\ idleTime < config.naTime
    \/ bOff /\ idleTime < config.offTime
GoesAwayLate ==                  \* mutant: off by one
    ~IsBack /\ ~Flagged /\ config.enableAway /\ idleTime > config.awayTime
GoesAway ==
    /\ ~IsBack /\ ~Flagged
    /\ config.enableAway /\ idleTime >= config.awayTime
GoesNA ==
    /\ ~IsBack /\ ~GoesAway
    /\ ~bNA /\ ~bOff /\ config.enableNA /\ idleTime >= config.naTime
GoesOff ==
    /\ ~IsBack /\ ~GoesAway /\ ~GoesNA
    /\ ~bOff /\ config.enableOff /\ idleTime >= config.offTime

\* Whose status is kept when it is taken from manual: the user's, or the
\* plugin's own, and then his is lost.
Taken == IF owner = "user" THEN "user" ELSE "lost"

TickBack ==
    /\ Ticks /\ IsBack
    /\ bAway' = FALSE /\ bNA' = FALSE /\ bOff' = FALSE
    /\ Sets(real, kept, Unknown, "nobody")

TickAway ==
    /\ Ticks /\ GoesAway /\ manual \notin {Away, NA, Offline}
    /\ bAway' = TRUE /\ UNCHANGED <<bNA, bOff>>
    /\ Sets(Away, "plugin", manual, Taken)

TickNAKeepsManual ==             \* mutant: bAway is not looked at
    /\ Ticks /\ GoesNA /\ manual \notin {NA, Offline}
    /\ bNA' = TRUE /\ UNCHANGED <<bAway, bOff>>
    /\ Sets(NA, "plugin", manual, Taken)
TickNA ==
    /\ Ticks /\ GoesNA /\ manual \notin {NA, Offline}
    /\ bNA' = TRUE /\ UNCHANGED <<bAway, bOff>>
    /\ IF bAway THEN Sets(NA, "plugin", real, kept)
       ELSE Sets(NA, "plugin", manual, Taken)

TickOff ==
    /\ Ticks /\ GoesOff /\ manual # Offline
    /\ bOff' = TRUE /\ UNCHANGED <<bAway, bNA>>
    /\ IF bNA THEN Sets(Offline, "plugin", real, kept)
       ELSE Sets(Offline, "plugin", manual, Taken)

\* The user is as far away already as the limit would take him.
TickReturns ==
    /\ Ticks
    /\ \/ GoesAway /\ manual \in {Away, NA, Offline}
       \/ GoesNA /\ manual \in {NA, Offline}
       \/ GoesOff /\ manual = Offline
    /\ UNCHANGED <<flags, manual, owner, real, kept>>

TickElseForgetful ==             \* mutant: what an earlier run left is ignored
    /\ Ticks /\ ~IsBack /\ ~GoesAway /\ ~GoesNA /\ ~GoesOff
    /\ UNCHANGED <<flags, manual, owner, real, kept>>

\* No limit is met.  A real status without a flag was left by an earlier run
\* and is set now.
TickElse ==
    /\ Ticks /\ ~IsBack /\ ~GoesAway /\ ~GoesNA /\ ~GoesOff
    /\ UNCHANGED flags
    /\ IF real # Unknown /\ ~Flagged THEN Sets(real, kept, Unknown, "nobody")
       ELSE UNCHANGED <<manual, owner, real, kept>>

timeout == TickBack \/ TickAway \/ TickNA \/ TickOff \/ TickReturns \/ TickElse

Next == TimePasses \/ UserActs \/ UserChooses \/ Apply \/ Save \/ Restart \/ timeout
Spec == Init /\ [][Next]_vars /\ WF_vars(timeout)

-----------------------------------------------------------------------------
(* Properties *)

Owner == {"user", "plugin", "lost"}
Keeper == {"user", "lost", "nobody"}

\* Every variable has its type; STATUS_UNKNOWN is never the common status.
TypeOK ==
    /\ idle \in 0 .. MaxIdle /\ measurable \in BOOLEAN /\ ticking \in BOOLEAN
    /\ config \in Config
    /\ manual \in Status /\ real \in Status \cup {Unknown}
    /\ bAway \in BOOLEAN /\ bNA \in BOOLEAN /\ bOff \in BOOLEAN
    /\ chosen \in Status /\ owner \in Owner /\ kept \in Keeper
    /\ touched \in BOOLEAN
    /\ saved \in [manual : Status, real : Status \cup {Unknown}, chosen : Status,
                  owner : Owner, kept : Keeper, touched : BOOLEAN]

\* A status the plugin set can always be taken back: while one stands, or a
\* flag, there is a real status to return to.
CanComeBack ==
    /\ Flagged => real # Unknown
    /\ owner = "plugin" => real # Unknown

\* Unless the user chose another status while the plugin held his, what
\* stands in his name, or is kept for him, is what he chose last, across ends
\* and starts of the program.
UsersStatusKept ==
    ~touched => /\ owner = "user" => manual = chosen
                /\ kept = "user" => real = chosen

Below == idleTime < config.awayTime /\ idleTime < config.naTime
         /\ idleTime < config.offTime

\* A user who is there gets the status he chose back, from a flag and from
\* what an earlier run left, unless he chose it while the plugin held
\* another, or his was lost.
ComesBack ==
    <>[](ticking /\ Below /\ ~touched /\ "lost" \notin {kept, owner})
        => []<>(manual = chosen)

\* The user's status is lost in two ways only: he goes offline from away
\* without N/A between, or a limit is met in a run that found the status of
\* an earlier one.
LostOnlyThere ==
    [][timeout /\ "lost" \notin {kept, owner} /\ kept' = "lost"
         => \/ bOff' /\ ~bOff /\ bAway /\ ~bNA
            \/ real # Unknown /\ ~Flagged]_vars

\* A user who stays away is shown away sooner or later, unless he chose a
\* status while a flag stood and left again before the timer saw him there.
ShownAway ==
    <>[](ticking /\ config.enableAway /\ idleTime >= config.awayTime /\ ~touched)
        => []<>(manual \in {Away, NA, Offline})
=============================================================================
