------------------------------- MODULE GsmTA -------------------------------
(***************************************************************************)
(* The SMS plugin's terminal adapter: GsmTA walks a phone through a list   *)
(* of AT commands, reads its phone books, and then asks for charge and     *)
(* signal in turn, over a serial port that gives up after a silence.       *)
(*                                                                         *)
(* A phone answers each command with at most one line of data and a final  *)
(* OK or ERROR, later or never, and may say RING at any time.  Lines carry *)
(* no mark of the command they answer: to is ours, the code does not see   *)
(* it.  Empty lines are left out: to isOK() they are one more line it does *)
(* not know, like the echo, and the others pass them over.                 *)
(*                                                                         *)
(* The plugin is among those built with BUILD_DROPPED only.                *)
(***************************************************************************)
EXTENDS Integers, Sequences, SequencesExt

CONSTANTS
    Slot,       \* slots of a phone book: numbers
    Tries,      \* lines isOK() passes over: 5 in the code
    Blocking,   \* does read() block?  TRUE in serial.cpp's Unix half
    MaxMishaps  \* bound on the phone's calls and on the user's reconnections

ASSUME GsmAssumption ==
    /\ Slot \subseteq Nat /\ Tries \in Nat \ {0} /\ Blocking \subseteq BOOLEAN
    /\ MaxMishaps \in Nat

\* The states that wait for an answer, in the order of the first pass, and
\* the command each has sent.
Order == <<"Init", "Init2", "Init3", "Init4", "Init5", "Init6", "Init7",
           "Info1", "Info2", "Info3", "Info4", "Charset1", "Charset2",
           "OpInfo1", "OpInfo2">>
Command ==
    [Init |-> "Z", Init2 |-> "E0", Init3 |-> "+CMEE=1", Init4 |-> "+CMGF=0",
     Init5 |-> "+CLIP=1", Init6 |-> "+CBC", Init7 |-> "+CSQ", Info1 |-> "+CGMI",
     Info2 |-> "+CGMM", Info3 |-> "+CGMR", Info4 |-> "+CGSN",
     Charset1 |-> "+CSCS=", Charset2 |-> "+CSCS?", OpInfo1 |-> "+COPS=3,0",
     OpInfo2 |-> "+COPS?", PhoneBook |-> "+CPBS=", PhoneBook1 |-> "+CPBS?",
     PhoneBook2 |-> "+CPBR=?", PhoneBook3 |-> "+CPBR="]
Commands == {Command[s] : s \in DOMAIN Command}
Busy == DOMAIN Command \cup {"Ping"}
SetCommands == {"Z", "E0", "+CMEE=1", "+CMGF=0", "+CLIP=1", "+COPS=3,0", "+CPBS="}

Unsolicited == "nothing"
Line(kind, to) == [kind |-> kind, to |-> to]
Lines == [kind : {"ok", "error", "data", "echo", "ring", "clip"},
          to : Commands \cup {Unsolicited}]

VARIABLES
    state,     \* m_state; "gone" while SMSClient::m_ta is null
    cmd,       \* m_cmd
    tries,     \* m_tries
    entries,   \* m_book->m_entries: slots to be read
    size,      \* m_book->m_size: the next slot to be looked at
    bookType,  \* m_bookType
    bPing,     \* m_bPing: is it the turn of +CBC?
    pinging,   \* is m_timer running?
    opened,    \* is the port open?
    posted,    \* has SMSClient::error() posted ta_error()?
    blocks,    \* does read() block?
    inRead,    \* is the program inside readReady()?
    asked,     \* commands the phone has still to answer
    wire,      \* lines on their way to the program
    slipped,   \* history: a line was taken for an answer it was not
    mishaps

port == <<opened, posted, blocks, inRead>>
phone == <<asked, wire>>
gsmVars == <<state, cmd, tries, entries, size, bookType, bPing, pinging,
             port, phone, slipped, mishaps>>

\* SMSClient::setStatus has made the adapter and opened the port.
GsmInit ==
    /\ state = "Open" /\ cmd = "Z" /\ tries = Tries
    /\ entries = {} /\ size = 0 /\ bookType = 0 /\ bPing = FALSE
    /\ pinging = FALSE /\ opened = TRUE /\ posted = FALSE
    /\ blocks \in Blocking /\ inRead = FALSE
    /\ asked = <<>> /\ wire = <<>> /\ slipped = FALSE
    /\ mishaps = 0

EventLoop == ~inRead      \* timers, posted calls and the user have their turn

-----------------------------------------------------------------------------
(* The phone *)

AnswersTo(c) ==
    {<<Line("ok", c)>>, <<Line("error", c)>>}
    \cup (IF c \in SetCommands THEN {} ELSE {<<Line("data", c), Line("ok", c)>>})
    \cup (IF c \in {"Z", "E0"} THEN {<<Line("echo", c), Line("ok", c)>>} ELSE {})

Answer ==
    /\ asked # <<>>
    /\ asked' = Tail(asked)
    /\ \E a \in AnswersTo(Head(asked)) : wire' = IF opened THEN wire \o a ELSE wire
    /\ UNCHANGED <<state, cmd, tries, entries, size, bookType, bPing,
                   pinging, port, slipped, mishaps>>

Ring ==
    /\ opened /\ mishaps < MaxMishaps
    /\ mishaps' = mishaps + 1
    /\ \E kind \in {"ring", "clip"} : wire' = Append(wire, Line(kind, Unsolicited))
    /\ UNCHANGED <<state, cmd, tries, entries, size, bookType, bPing,
                   pinging, port, asked, slipped>>

-----------------------------------------------------------------------------
(* What the handlers are made of *)

\* at(): the command is written and everything about an answer is reset.
at(s, c) ==
    /\ state' = s /\ cmd' = c /\ tries' = Tries
    /\ asked' = Append(asked, c)
Stays == UNCHANGED <<state, cmd, asked>>

\* processQueue(): m_queue is empty, for getPhoneBook()'s only caller calls it
\* in state Connected.
processQueue == pinging' = TRUE

LeftOf(todo, from) == {n \in todo : n >= from}
MoreBooks(type) == type = 0

NextSlot(todo, from, type) ==
    /\ at("PhoneBook3", "+CPBR=")
    /\ \E n \in LeftOf(todo, from) :
        (\A k \in LeftOf(todo, from) : n <= k) /\ size' = n + 1
    /\ bookType' = type /\ UNCHANGED pinging
NextBook(type) ==
    /\ at("PhoneBook", "+CPBS=")
    /\ size' = 0 /\ bookType' = type + 1 /\ UNCHANGED pinging
BooksReadOnly(from, type) ==              \* mutant: the queue is not looked at
    /\ state' = "Connected" /\ UNCHANGED <<cmd, tries, asked, pinging>>
    /\ size' = from /\ bookType' = type
BooksRead(from, type) ==
    /\ state' = "Connected" /\ UNCHANGED <<cmd, tries, asked>>
    /\ size' = from /\ bookType' = type /\ processQueue

getNextEntry(todo, from, type) ==
    /\ entries' = todo
    /\ \/ LeftOf(todo, from) # {} /\ NextSlot(todo, from, type)
       \/ LeftOf(todo, from) = {} /\ MoreBooks(type) /\ NextBook(type)
       \/ LeftOf(todo, from) = {} /\ ~MoreBooks(type) /\ BooksRead(from, type)
KeepsBook == UNCHANGED <<entries, size, bookType>>

-----------------------------------------------------------------------------
(* read_ready(): the first line, by how the state looks at it *)

ReadsLine ==
    /\ opened /\ state \notin {"gone", "Open"} /\ wire # <<>>
    /\ wire' = Tail(wire) /\ inRead' = blocks
    /\ UNCHANGED <<blocks, opened, mishaps>>
line == Head(wire)

ByIsOK == state \in {"Init", "Init2"}
ByAnyChat == state \in {"Init3", "OpInfo1", "PhoneBook"}
ByChatOK == state \in {"Init4", "Init5"}
ByResponse == state \in Busy /\ ~ByIsOK /\ ~ByAnyChat /\ ~ByChatOK

Incoming == line.kind = "clip"
Nothing == Incoming \/ (line.kind = "echo" /\ line.to = cmd /\ ~ByIsOK)

\* The line ends the answer: isOK, isChatOK or isChatResponse is true.
IsEndLoose ==                    \* mutant: isChatOK takes any line
    /\ ~Nothing
    /\ ByAnyChat \/ ByChatOK \/ (state \in Busy /\ line.kind = "ok")
IsEnd ==
    /\ ~Nothing
    /\ ByAnyChat \/ (state \in Busy /\ line.kind = "ok")

Follow ==
    LET k == CHOOSE i \in DOMAIN Order : Order[i] = state
    IN  at(Order[k + 1], Command[Order[k + 1]])

Ends ==
    /\ ReadsLine /\ IsEnd
    /\ slipped' = (slipped \/ (ByAnyChat /\ line.kind = "ring"))
    /\ UNCHANGED posted

\* Init to OpInfo1, PhoneBook and PhoneBook1: on to the next command.
NextCommand ==
    /\ Ends
    /\ \/ state \in {Order[i] : i \in 1 .. Len(Order) - 1} /\ Follow
       \/ state = "PhoneBook" /\ at("PhoneBook1", Command.PhoneBook1)
       \/ state = "PhoneBook1" /\ at("PhoneBook2", Command.PhoneBook2)
    /\ KeepsBook /\ UNCHANGED <<bPing, pinging>>

\* OpInfo2: SMSClient::init() asks for the phone book from inside init_done.
InitDone ==
    /\ Ends /\ state = "OpInfo2"
    /\ at("PhoneBook", "+CPBS=")
    /\ bookType' = 0 /\ processQueue
    /\ UNCHANGED <<entries, size, bPing>>

BookRead ==
    /\ Ends /\ UNCHANGED bPing
    /\ \/ /\ state = "PhoneBook2"
          /\ \E todo \in SUBSET Slot : getNextEntry(todo, 0, bookType)
       \/ /\ state = "PhoneBook3"
          /\ getNextEntry(entries, size, bookType)

Pinged ==
    /\ Ends /\ state = "Ping"
    /\ state' = "Connected" /\ bPing' = ~bPing
    /\ processQueue
    /\ KeepsBook /\ UNCHANGED <<cmd, tries, asked>>

\* The line is passed over, or it is no answer.
Refused ==
    \/ ByIsOK /\ tries = 1
    \/ ByChatOK
    \/ (ByResponse \/ state = "Connected") /\ line.kind = "error"

\* m_tries goes on below nought in the code, and wraps: no more errors then.
OtherLine ==
    /\ ReadsLine /\ ~IsEnd
    /\ tries' = IF ByIsOK /\ ~Incoming /\ tries > 0 THEN tries - 1 ELSE tries
    /\ posted' = (posted \/ (~Nothing /\ Refused))
    /\ Stays /\ KeepsBook /\ UNCHANGED <<bPing, pinging, slipped>>

-----------------------------------------------------------------------------
(* Timers, the port and the client *)

ping ==
    /\ EventLoop /\ pinging
    /\ pinging' = FALSE
    /\ IF state = "Connected"
       THEN at("Ping", IF bPing THEN "+CBC" ELSE "+CSQ")
       ELSE Stays /\ UNCHANGED tries
    /\ KeepsBook
    /\ UNCHANGED <<bPing, port, wire, slipped, mishaps>>

PortErrorUntold ==               \* mutant: the port is shut and nobody told
    /\ opened' = FALSE /\ pinging' = FALSE
    /\ Stays /\ KeepsBook
    /\ UNCHANGED <<tries, bPing, posted, blocks, wire, slipped, mishaps>>
PortError ==
    /\ opened' = FALSE /\ pinging' = FALSE /\ posted' = TRUE
    /\ Stays /\ KeepsBook
    /\ UNCHANGED <<tries, bPing, blocks, wire, slipped, mishaps>>

\* SerialPort::readTimeout: a command is out and nothing has come for a time.
readTimeout ==
    /\ EventLoop /\ opened /\ state \in Busy
    /\ inRead' = inRead /\ PortError

\* read() fails or finds the end.
HangUp ==
    /\ opened /\ state \notin {"gone", "Open"}
    /\ inRead' = FALSE /\ PortError

\* A new adapter, of which nothing is known yet.
Fresh ==
    /\ cmd' = "Z" /\ tries' = Tries /\ entries' = {} /\ size' = 0
    /\ bookType' = 0 /\ bPing' = FALSE /\ pinging' = FALSE /\ wire' = <<>>
    /\ slipped' = FALSE

\* setStatus(STATUS_OFFLINE), in which TCPClient::error_state ends, too.
Delete ==
    /\ state' = "gone" /\ opened' = FALSE
    /\ Fresh
    /\ UNCHANGED <<blocks, inRead, asked, mishaps>>

\* A posted call outlives the adapter that was in error, and may hit the next.
ta_error == EventLoop /\ posted /\ posted' = FALSE /\ Delete
GoOffline == EventLoop /\ state # "gone" /\ UNCHANGED posted /\ Delete

GoOnline ==
    /\ EventLoop /\ state = "gone" /\ mishaps < MaxMishaps
    /\ state' = "Open" /\ opened' = TRUE /\ mishaps' = mishaps + 1
    /\ Fresh
    /\ UNCHANGED <<posted, blocks, inRead, asked>>

\* SerialPort::timeout() drops what has come so far; write_ready sends ATZ.
\* What the phone answers to an earlier connection may still come.
ready ==
    /\ EventLoop /\ state = "Open" /\ opened
    /\ wire' = <<>>
    /\ slipped' = (asked # <<>>)
    /\ at("Init", "Z")
    /\ KeepsBook /\ UNCHANGED <<bPing, pinging, port, mishaps>>

Reading == NextCommand \/ InitDone \/ BookRead \/ Pinged \/ OtherLine
GsmNext == Answer \/ Ring \/ Reading \/ ping \/ readTimeout \/ HangUp
           \/ ta_error \/ GoOffline \/ GoOnline \/ ready

\* Lines that have come are read and timers fire.  A phone may stay silent.
GsmSpec == GsmInit /\ [][GsmNext]_gsmVars
        /\ WF_gsmVars(Reading) /\ WF_gsmVars(readTimeout) /\ WF_gsmVars(ta_error)
        /\ WF_gsmVars(ready)

-----------------------------------------------------------------------------
(* Properties *)

\* Every variable has its type.
GsmTypeOK ==
    /\ state \in Busy \cup {"gone", "Open", "Connected"}
    /\ cmd \in Commands /\ tries \in 0 .. Tries
    /\ entries \subseteq Slot /\ size \in Nat /\ bookType \in {0, 1}
    /\ bPing \in BOOLEAN /\ pinging \in BOOLEAN /\ opened \in BOOLEAN
    /\ posted \in BOOLEAN /\ blocks \in BOOLEAN /\ inRead \in BOOLEAN
    /\ slipped \in BOOLEAN
    /\ asked \in Seq(Commands) /\ wire \in Seq(Lines)
    /\ mishaps \in 0 .. MaxMishaps

\* The lines on the wire that end an answer not read to its end yet.
Answered == {i \in DOMAIN wire : wire[i].kind \in {"ok", "error"}}
NothingOutstanding == Answered = {} /\ asked = <<>>
OnlyCmdOutstanding ==
    \/ Answered = {} /\ asked = <<cmd>>
    \/ asked = <<>> /\ \E i \in DOMAIN wire : Answered = {i} /\ wire[i].to = cmd

\* Answers carry no name, and yet none is taken for another's: at most the one
\* last sent is outstanding.  Two things break that: a RING where any line
\* counts as an answer, and a late answer from before the port was reopened.
InStep ==
    opened /\ state # "Open" /\ ~slipped
      => NothingOutstanding \/ (OnlyCmdOutstanding /\ state \in Busy)

\* As long as the phone is connected and idle the timer that asks for its charge
\* runs, although it is a single shot and is let pass while a book is read.
KeepsPinging == state = "Connected" /\ opened => pinging

\* No command is waited for without end: an answer, or the silence, takes the
\* adapter on, unless the program hangs in read().
NobodyWaits == state \in Busy ~> state \notin Busy \/ inRead
=============================================================================
