----------------------------- MODULE CommandSet -----------------------------
(***************************************************************************)
(* Checkable commands and what shows them: the button of "show offline"    *)
(* on the toolbar, and a menu of actions for every time the user opened    *)
(* one (ToolbarButton::mouseReleaseEvent makes a new menu and never        *)
(* deletes it, so all of them stay connected).                             *)
(*                                                                         *)
(* A command tells its views by checked(bool), a view its command by       *)
(* toggled(bool), and the actions of one menu exclude each other in a      *)
(* QActionGroup of their own.  Signals are calls: calls is what is still   *)
(* to be done, the innermost call first.                                   *)
(***************************************************************************)
EXTENDS Integers, Sequences, SequencesExt, FiniteSets

CONSTANTS
    Command,    \* checkable commands of the set
    Exclusive,  \* those that are auto-exclusive
    OnToolbar,  \* those that have a button on the toolbar
    First,      \* the exclusive command checked when it is created
    MaxMenus,   \* bound on the menus opened
    MaxCalls    \* bound on the calls open at once: the thread's stack

ASSUME CommandSetAssumption ==
    /\ Exclusive \subseteq Command /\ First \in Exclusive
    /\ OnToolbar \subseteq Command \ Exclusive
    /\ MaxMenus \in Nat /\ MaxCalls \in Nat \ {0}

None == "none"
ASSUME NoneIsNoCommand == None \notin Command

Toolbar == 0                  \* the view of the buttons; menus are 1, 2, ...
View == 0 .. MaxMenus

VARIABLES
    checked,  \* UiCommand::m_checked
    shown,    \* shown[v][c]: is c's button or action in view v checked?
    current,  \* checkedAction() of a view's action group
    menus,    \* menus opened so far
    open,     \* the menu on screen, or 0
    calls,    \* calls to be made
    chosen    \* history: the exclusive command the user clicked last

vars == <<checked, shown, current, menus, open, calls, chosen>>

SetAction(v, c, b) == [op |-> "setAction", view |-> v, cmd |-> c, b |-> b]
Changed(v, c)      == [op |-> "changed", view |-> v, cmd |-> c, b |-> FALSE]
MakeCurrent(v, c)  == [op |-> "makeCurrent", view |-> v, cmd |-> c, b |-> FALSE]
SetCommand(c, b)   == [op |-> "setCommand", view |-> 0, cmd |-> c, b |-> b]
Call == [op : {"setAction", "changed", "makeCurrent", "setCommand"},
         view : View, cmd : Command, b : BOOLEAN]

InView(v) == IF v = Toolbar THEN OnToolbar ELSE Command
GroupedNone(v) == {}                            \* mutant: nothing is grouped
Grouped(v) == IF v = Toolbar THEN {} ELSE Exclusive

\* createCommands: one of the exclusive commands is checked; showOffline
\* takes what the view says.
Init ==
    /\ checked \in {f \in [Command -> BOOLEAN] :
                       \A c \in Exclusive : f[c] <=> c = First}
    /\ shown = [v \in {Toolbar} |-> [c \in OnToolbar |-> checked[c]]]
    /\ current = [v \in {Toolbar} |-> None]
    /\ menus = 0 /\ open = 0 /\ calls = <<>> /\ chosen = First

Quiet == calls = <<>>

-----------------------------------------------------------------------------
(* The user *)

\* createActionList: the actions take the state of their commands, and the
\* group notes the one that is checked when it is added.
NewActionsUnset == [c \in Command |-> FALSE]    \* mutant: state not taken over
NewActions == [c \in Command |-> checked[c]]

OpenMenu ==
    /\ Quiet /\ open = 0 /\ menus < MaxMenus
    /\ menus' = menus + 1 /\ open' = menus'
    /\ shown' = [v \in 0 .. menus' |-> IF v = menus' THEN NewActions ELSE shown[v]]
    /\ \E on \in {c \in Grouped(menus') : NewActions[c]} \cup {None} :
        /\ on = None => \A c \in Grouped(menus') : ~NewActions[c]
        /\ current' = [v \in 0 .. menus' |-> IF v = menus' THEN on ELSE current[v]]
    /\ UNCHANGED <<checked, calls, chosen>>

Dismiss ==
    /\ Quiet /\ open # 0
    /\ open' = 0
    /\ UNCHANGED <<checked, shown, current, menus, calls, chosen>>

\* QAction::activate: the checked action of a group cannot be unchecked.
ClickAction ==
    /\ Quiet /\ open # 0
    /\ \E c \in Command :
        /\ calls' = IF shown[open][c] /\ current[open] = c THEN <<>>
                    ELSE <<SetAction(open, c, ~shown[open][c])>>
        /\ chosen' = IF c \in Exclusive THEN c ELSE chosen
    /\ open' = 0
    /\ UNCHANGED <<checked, shown, current, menus>>

ClickButton ==
    /\ Quiet /\ open = 0
    /\ \E c \in OnToolbar : calls' = <<SetAction(Toolbar, c, ~shown[Toolbar][c])>>
    /\ UNCHANGED <<checked, shown, current, menus, open, chosen>>

-----------------------------------------------------------------------------
(* Calls *)

\* The innermost call is made, and the calls it makes come before the rest.
Makes(op, more) ==
    /\ calls # <<>> /\ Head(calls).op = op
    /\ calls' = more \o Tail(calls)
    /\ Len(calls') <= MaxCalls
    /\ UNCHANGED <<menus, open, chosen>>

\* What setChecked makes a view do: changed() if it is grouped, toggled().
ToggledOnlyOn(c, b) == IF b THEN <<SetCommand(c, b)>> ELSE <<>>   \* mutant
Toggled(c, b) == <<SetCommand(c, b)>>

\* QAction::setChecked, QAbstractButton::setChecked.
DoSetAction ==
    LET v == Head(calls).view  c == Head(calls).cmd  b == Head(calls).b
        differs == shown[v][c] # b
    IN  /\ Makes("setAction",
                 IF ~differs THEN <<>>
                 ELSE (IF c \in Grouped(v) THEN <<Changed(v, c)>> ELSE <<>>)
                      \o Toggled(c, b))
        /\ shown' = [shown EXCEPT ![v][c] = b]
        /\ UNCHANGED <<checked, current>>

\* QActionGroup hears of the action first, its command afterwards.
DoChanged ==
    LET v == Head(calls).view  c == Head(calls).cmd
        leaves == IF current[v] = None THEN <<>>
                  ELSE <<SetAction(v, current[v], FALSE)>>
    IN  /\ Makes("changed", IF shown[v][c] /\ current[v] # c
                            THEN leaves \o <<MakeCurrent(v, c)>> ELSE <<>>)
        /\ current' = IF ~shown[v][c] /\ current[v] = c
                      THEN [current EXCEPT ![v] = None] ELSE current
        /\ UNCHANGED <<checked, shown>>

DoMakeCurrent ==
    LET v == Head(calls).view
    IN  /\ Makes("makeCurrent", <<>>)
        /\ current' = [current EXCEPT ![v] = Head(calls).cmd]
        /\ UNCHANGED <<checked, shown>>

\* checked(bool) reaches the views in the order they were connected: the
\* button, if there is one, and the menus.
FirstView(c) == IF c \in InView(Toolbar) THEN Toolbar ELSE Toolbar + 1
Views(c) == [n \in 1 .. menus + 1 - FirstView(c) |-> FirstView(c) + n - 1]
EmitToggle(c, b) ==       \* mutant: the newest view's toggle() is the slot
    LET v == Last(Views(c)) IN <<SetAction(v, c, ~shown[v][c])>>
Emit(c, b) == [n \in DOMAIN Views(c) |-> SetAction(Views(c)[n], c, b)]

\* UiCommand::setChecked.
DoSetCommand ==
    LET c == Head(calls).cmd  b == Head(calls).b
    IN  /\ Makes("setCommand", IF checked[c] = b THEN <<>> ELSE Emit(c, b))
        /\ checked' = [checked EXCEPT ![c] = b]
        /\ UNCHANGED <<shown, current>>

CallNext == DoSetAction \/ DoChanged \/ DoMakeCurrent \/ DoSetCommand
Next == OpenMenu \/ Dismiss \/ ClickAction \/ ClickButton \/ CallNext

\* A call, once begun, goes on: there is one thread.
Spec == Init /\ [][Next]_vars /\ WF_vars(CallNext)

-----------------------------------------------------------------------------
(* Properties *)

CheckedOf(S) == {c \in S : checked[c]}

\* Every variable has its type, and between clicks the action a group holds
\* for checked is a checked one of its own.
TypeOK ==
    /\ checked \in [Command -> BOOLEAN]
    /\ menus \in 0 .. MaxMenus /\ open \in 0 .. menus
    /\ DOMAIN shown = 0 .. menus /\ DOMAIN current = 0 .. menus
    /\ \A v \in 0 .. menus : /\ shown[v] \in [InView(v) -> BOOLEAN]
                             /\ current[v] \in Exclusive \cup {None}
                             /\ Quiet /\ current[v] # None => shown[v][current[v]]
    /\ calls \in Seq(Call) /\ Len(calls) <= MaxCalls
    /\ chosen \in Exclusive

\* Between clicks every button and every action of every menu, those long
\* gone from the screen among them, shows what its command is.
ViewsAgree ==
    Quiet => \A v \in 0 .. menus : \A c \in InView(v) : shown[v][c] = checked[c]

\* At no moment, in the midst of the signals either, are two commands checked
\* that exclude each other: each group unchecks the old one before the new
\* one's command hears of it.
OneAtATime == Cardinality(CheckedOf(Exclusive)) <= 1

\* Between clicks the group mode is the one the user clicked last, whichever
\* menu he used: no click leaves none checked.
ChosenIsChecked == Quiet => CheckedOf(Exclusive) = {chosen}

\* The signals of a click come to an end, although views and commands tell
\* each other of every change.
Settles == []<>Quiet
=============================================================================
