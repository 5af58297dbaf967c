# Verification of SIM-IM

SIM-IM is an instant messenger written in C++ with Qt 4. This directory holds
TLA+ modules that model its core, TLC configurations that check them on small
instances, and theorems about them that TLAPS proves. `PROJECT.json` is the
index: components, runs, mutants, the map from definitions to source lines,
findings, hazards and theorems.

Paths below are relative to the repository (`src/`).

## 1. The system

### What is built

The repository is in the middle of a rewrite. CMake builds the library
`sim`, the plugin `plugins/_core`, the plugin `plugins/icq` on its new layer of
SNAC handlers, and `plugins/jabber`, of which only settings and a status are
left. About 35 other plugins stand under `IF(BUILD_DROPPED)`, off by default,
and large parts of `icqclient.cpp`, `jabberclient.cpp` and `core.cpp` are
commented out.

Modelled is the code that is built, and of it only operations something that is
built calls: `ClientManager::save`, `ContactList::save`, `newProfile`,
`disablePlugin` and others have callers in the tests only. Two dropped plugins
are modelled too, AutoAway and the adapter of the SMS plugin: their state
machines stand in the repository whole, with no part in classes that are gone.
The two modules say so.

The program has one thread. What interleaves are the event loop's deliveries:
bytes from TCP or a serial line, timers, the user's actions, connections lost,
and slots that run inside other slots.

### Components

| Component | State | Operations | Made correct by |
|---|---|---|---|
| OSCAR socket, `standardoscarsocket.cpp` over `tcpasyncsocket.cpp` | whether a header is expected, channel, length and part of the body | connect, disconnect, `readyRead`, `flap`, `snac` | packets come up in order, whole and once, however TCP cuts the stream |
| ICQ sign-on, `icqclient.cpp` and `*snachandler.cpp` | cookie, rate classes, limits, the socket | `changeStatus`, `oscarSocketPacket`, one handler per SNAC family, `loginStep2` | secrets go only where they may, requests keep the protocol's order, a sign-on ends |
| Server contact list, `ssisnachandler.cpp`, `icqcontactlist.cpp`, `buddysnachandler.cpp` | items and groups by id, a raw pointer to the user's contact, statuses | list packet, online notice | both lists agree, nothing is lost, doubled or announced too early |
| Contact list and its file, `standardcontactlist.cpp` | contacts and groups by id | create, add, list, load (two formats), save | ids are not given twice; what stands in a file reaches its owner |
| Profiles, plugins, clients, `profilemanager.cpp`, `profile.cpp`, `plugins.cpp`, `standardclientmanager.cpp`, `profileselectdialog.cpp` | current profile, enabled plugins, plugin objects, protocols, clients by name | choose a profile, load clients (two formats), enable a plugin, exit | pointers do not outlive objects, what runs is what was chosen |
| Roster view, `_core/roster/userviewmodel.cpp` | cached lists of contact ids | rows, data, two event slots | rows shown are contacts of the list |
| Events, commands, messages, `commandset.cpp`, `uicommand.cpp`, `eventhub.cpp`, `standardmessagepipe.cpp` | checked commands, their views; registered names, connections, processors | check, trigger, register, connect | views agree with their command, a trigger reaches those connected |
| OSCAR data, `tlv.cpp`, `tlvlist.cpp`, `bytearrayparser.cpp`, `rateinfo.cpp`, capabilities | none to speak of | encode, decode, compute a rate | decoding inverts encoding and survives any bytes |
| AutoAway plugin, `autoaway.cpp` | three flags, the status kept, the configuration | a timer, settings, save and start | the user's own status comes back |
| SMS plugin, `gsm_ta.cpp`, `serial.cpp`, `sms.cpp` | where the adapter is in its dialogue, the book, timers, the port | lines, pings, silence, hang-up, on and off line | answers reach the command that asked |
| Start-up, `sim.cpp`, `core.cpp` | order of managers | `main`, `CorePlugin::init` | managers live longer than their users |
| Jabber settings, settings and buffers, widgets and images, code not built | | | see section 8 |

### How they interact

    user --profileChanged--> ProfileManager --makes--> Profile --holds--> plugin objects
                 |                                                  |  register
                 +--load--> ClientManager --createClient--> Protocol <--+
    user --changeStatus--> ICQClient --connectToHost, snac--> OscarSocket --> TCP
    TCP  --readyRead--> OscarSocket --packet()--> ICQClient --> SNAC handlers
    SsiSnacHandler --> ICQContactList, StandardContactList; "contact_list_updated"
    BuddySnacHandler --> ICQContact; "contact_change_status" with metaContactId()
    both events --(in the tests)--> UserViewModel --> QTreeView
    UiCommand --checked(bool)--> buttons and actions --toggled(bool)--> UiCommand

- `packet()` is a direct signal: handlers run inside the socket's read loop,
  and one of them, on a redirect, closes and reopens the socket being read.
- A handler sends its requests on the socket while its packet is handled; there
  are no timers, so the order of the requests is the order of the answers.
- Ownership mixes shared, weak and raw pointers: a client has a raw pointer to
  its protocol, an `ICQContact` one to its contact.

### What is hard here

Byte streams cut anywhere; a connection lost, and the next one begun, in any
state of the reader, the sign-on or the list; state that outlives its
connection (the cookie, the partial packet, the contact lists, the phone's late
answers); a list packet that cannot be read half way; ids that collide; objects
whose owner goes away first; a file that cannot be read half way and a second
format read on top of it; a kill between emptying a file and writing it; a
status saved while it is not the user's; signals that call each other.
`PROJECT.json` lists these as hazards at their lines with the properties that
would catch them.

## 2. The modules

| Module | Models | Kind |
|---|---|---|
| `PacketStream` | what the client relies on from a connection: packets in order, each once, until the framing breaks | abstract specification |
| `OscarSocket` | `StandardOscarSocket` between TCP and the client, down to bytes | detailed, implements `PacketStream` |
| `OscarLogin` | `ICQClient` and all its SNAC handlers over two connections | component |
| `Roster` | SSI list packets and online notices merged into two contact lists | component |
| `OscarSession` | `OscarLogin` and `Roster` in one program, lists read an item at a time | composition, implements `OscarLogin` |
| `RosterView` | `UserViewModel` and a view, on top of `Roster` | composition |
| `ContactFile` | `StandardContactList::load`: both formats and the fall-back between them | component |
| `Profiles` | profiles, plugin objects, protocols, clients, their files, exit and kills | component |
| `CommandSet` | checkable commands, their buttons and their menus, signal by signal | component |
| `Tlv` | lists of TLVs written, cut short and read; the numbers in them | algorithms |
| `AutoAway` | the AutoAway plugin with its saved configuration | component (dropped plugin) |
| `GsmTA` | the SMS plugin's adapter, its port and its client | component (dropped plugin) |
| `MC*` | constants for TLC | instances |
| `OscarLogin_proofs`, `Profiles_proofs`, `ContactFile_proofs`, `CommandSet_proofs` | theorems about the module of that name | proofs |
| `OscarBytes_proofs` | theorems about `OscarSocket` and `Tlv`, which take the same bytes apart twice | proofs |
| `Plugins_proofs` | theorems about `AutoAway` and `GsmTA` | proofs |
| `Roster_proofs` | theorems about `Roster` and, on top of them, `RosterView` | proofs |
| `OscarSession_proofs` | theorems about the composition, by way of instances of its parts' proofs | proofs |

`OscarSocket` and `OscarLogin` meet at `PacketStream`: the first shows that an
in-order packet stream is what the socket gives, the second assumes it.
`OscarLogin` handles a list packet in one step; `OscarSession` takes it apart
into `Roster`'s steps and is shown to implement `OscarLogin`. Both refinements
are checked by TLC and proved.

`OscarBytes_proofs` and `Plugins_proofs` each extend two components, so `Tlv` and
`GsmTA` call their specifications `TlvSpec` and `GsmSpec`, and so on with what they
are made of. Each theorem is about one of the two; they share no variable.

### OscarSocket

`bHeader`, `nChannel`, `packetLength`, `packet` are the four members `readyRead`
keeps between calls. One iteration of its loop is `BadHeader`, `GoodHeader` or
`MoreBody`, its end `LeaveLoop`; `ReadBody` is the second half both share.
`SlotReconnects` is the slot that follows a redirect from inside the loop: it
drops the connection and empties the buffer, and the loop finds nothing left.
`Connected` keeps the reader's members, as `connectToHost` does. Two sequence
bytes nobody reads are left out and the length takes one byte instead of two.
`dirty` and `split` are history: the connection began inside an old packet; a
header came in two parts. They name the only two ways the reader goes wrong.
In the refinement a packet is any channel and any body whose length a byte
holds: a reader that is out of step takes any byte for a channel or a length,
and hands such packets up once the stream counts as broken.

### OscarLogin

A packet is its type and what a handler decides on. `toClient` is the server's
side of the stream, `out` what the client wrote on this connection and `read`
how much of it the server has read. Every SNAC handler is an action named after
it; `HandleOther` are packets that fall through. The servers are external and
may answer with a redirect, a refusal, rates with unknown classes, or a list in
several packets some of which cannot be read (`Readable` says which lists can),
and may tell of a buddy in answer to "Activate". `TcpLost` may come at any time
and changes nothing else, since no slot of the client hears of it. `issued`,
`cookieHost` and `shown` are history.

`ServiceOrder` relates what the client wrote on a connection to what the server
has read and what is still on its way: a request that depends on an answer
(`WaitsFor`) is written only when the server has read the question, the cookie
being one it takes (`Good`), and no such answer is in flight any more (`Heard`);
each is written once; "Activate", one for each list packet, comes after the list
was sent. The client keeps no state for any of this.

### Roster

`contacts` is `StandardContactList`, `icq` is `ICQContactList`. Of a contact the
model keeps which item its `ICQContact` is of, whether that one is the one in
`ICQContactList` (`listed`), and whether it is ignored. `contacts.conf` gives a
contact an `ICQContact` with the server's id (`standardcontactlist.cpp:350`)
that `createIMContact` enters nowhere (`icqclient.cpp:887`): `Profiles` says
which item it is of, and the first list with that item makes a second contact.
`OneContactPerItem` is what remains: two contacts for one item only when the
profile brought one of them. A list packet is read an item at a time (`rest`),
since an item that cannot be read ends it with what came before already merged.
`Linked(k)` says whether the raw pointer of item `k` is still good; reading the
id through one that is not gives any of `StrayIds`, since the contact was
destroyed. `makeStatus` gives "null" where `getDefaultStatus` finds no status.

### OscarSession

`L` and `R` are the instances of `OscarLogin` and `Roster`; the buddies of the
first are the names of the second. `StartList`, `ReadItem` and `EndList` are one
slot: while it runs the server goes on (`Server`), the event loop does not
(`EventLoop`), so neither the user nor the connection's end gets in. `sent` is
the list the server sent last, from which it takes the buddies it tells of;
`lost` are its contacts in packets that were given up, from the item that could
not be read. The lists outlive the connection, and the next one may bring
another list.

`EndList` says of itself when the packet is activated: when `Roster` has come to
its end, and not when an item ended it. `OscarLogin` decides by what is in the
packet as a whole (`Readable`). That the two agree is `ImplementsLogin`; it rests
on an item known from an earlier list never being one to stop at.

`SignOnListsAll` looks at the roster, not at the ICQ list: at the end of a sign-on
every contact sent, but those in `lost`, is shown by a contact of the user's, or
its id is one he ignores (finding 2).

### RosterView

`cache` and `valid` are the model's two id lists and their flag, `laid` the rows
a view has laid out. Nothing in the program connects the model's slots to the
events, its test does: `wired` is either.

### ContactFile

A file is made up as it is read. A line is known by its number, so contacts and
IM contacts are sets of the lines they were given and `name` is the line that
set it. `load_old`'s state is `ParserState` with its ids unset at first. What
`contacts.xml` holds is reduced to groups and contacts; a global property hub is
`LoadNewDies`, since `m_userData` is never made.

### Profiles

A plugin object is its plugin and a serial number, so that an object made anew
differs from the one that died. `held` is what the profile holds strongly,
`protocols` what the objects registered, `clients` maps a name to the object
the client's raw pointer leads to. `ChooseProfile` is `selectProfile` as
`profileChanged` calls it, followed by `Load`, `Fallback` and an action for each
kind of entry of `clients.xml` and `clients.conf`, and `MakeInputs`, where the
dialog follows every client's pointer. `QuitOpens` and `QuitWrites` are the two
steps of `sync()`, with `Killed` possible between them. `Dies` is the program
dying of a null pointer. Disk contents other than `profile.xml` do not change:
nothing that is built writes them.

### CommandSet

`calls` is the thread's stack: the slots still to be called, innermost first.
`Do*` make one call each and put the calls it makes in front of the rest.
`QAction`, `QActionGroup` and `QAbstractButton` are external, modelled as Qt 4
has them: the group hears of an action before the action's command does.
`Views` are in the order they were connected; only `FirstView` differs between
a command with a button and one without.

### Tlv

One turn of `fromByteArray`'s loop is a step. A byte that is not there is any
byte, since `readWord`'s array is unset and `getChar` leaves it alone.
`unread` is what the parser has in front of it.

### AutoAway

`timeout()` is one of six actions, by its branches. `chosen`, `owner`, `kept`
and `touched` are history: they say whose the common status, and the kept one,
is.

### GsmTA

`state` and `cmd` are the adapter's, `asked` and `wire` the phone's side. A line
carries the command it answers (`to`), which only the properties look at.
`inRead` is the program standing in `readReady`'s blocking `read()`.

## 3. The runs

| Run | Instance | Shows |
|---|---|---|
| `oscar_socket` | bodies of up to 2 bytes over three byte values, one of them the start code; 2 packets a connection; 2 connections | `ErrorMeansBroken`, `NothingLost`, `ImplementsPacketStream`, `EventuallyEmitted` |
| `login` | 2 redirect targets, 3 sign-ons, lists of up to 2 packets readable or not, all account settings | `PasswordOnlyToLoginServer`, `CookieShownOnce`, `ServiceOrder`, `LoginCompletes` |
| `login_stale_cookie` | as `login` | `CookieGoesToItsHost` is violated (finding 1) |
| `oscar_session` | 2 sign-ons, 2 list packets each, of 3 kinds with up to 2 items; a profile with a contact that brings an item and an ignored one | `TypeOK`, `NoticeFindsBuddy`, `ImplementsLogin`, `SignOnListsAll` |
| `roster_view` | 7 items: repeats, moves, another name, an AIM name, a group, unknown and truncated items; 2 packets of up to 2; 3 profiles; both wirings | `OnlyIgnoredHide`, `OneContactPerItem`, `StatusEventNamesBuddy`, `OnlineRowsHold`, `AnnouncedContactsHaveRows` |
| `roster_ignored` | as `roster_view` | `EveryEntryListed` is violated (finding 2) |
| `contact_file` | 3 ids, 3 clients one of which is gone, files of up to 5 lines or entries | `ContactsOfFile`, `MainReadBack`, `IMReadBack`, `LastWord` |
| `profiles` | 2 profiles, 2 plugins, 2 names; 64 contents of the disk with every kind of entry; 3 choices a start, any number of starts, 1 kill | `OneProtocolEach`, `ClientsOwned`, `CrashNeedsGoneProtocol`, `ClientsOfProfile`, `OpenedIsChosen` |
| `command_set` | 3 exclusive commands, 1 on the toolbar; 4 menus, any number of clicks | `ViewsAgree`, `OneAtATime`, `ChosenIsChecked`, `Settles` |
| `auto_away` | limits of 1, 2, 3 minutes in three settings; idle time measured or not; any number of choices, saves and restarts | `UsersStatusKept`, `ComesBack`, `LostOnlyThere`, `ShownAway` |
| `tlv` | bytes of two bits, words up to 15; values of 0 to 16 bytes, lists cut anywhere | `ReadsWhatWasWritten`, `AtMostOneMadeUp`, `WrongByCarriesOnly` |
| `gsm_ta` | 2 slots, 2 tries, 1 ring or reconnection; blocking and non-blocking reads | `InStep`, `KeepsPinging`, `NobodyWaits` |

Every property of a passing run has a mutant: a definition changed as a
plausible bug would change it, kept beside the definition in its module and
marked "mutant", under which TLC finds the property violated.

The runs spend their time on what could be wrong. A type invariant is run once,
in `oscar_session`, where it joins those of `OscarLogin` and `Roster` with the
relation between them; for every module it is a theorem (`TypeCorrect`,
`TlvTypeCorrect`, `GsmTypeCorrect`). Seven further properties of `Roster`,
`Profiles`, `AutoAway` and `GsmTA`, and what a session keeps of its parts'
promises, are theorems only (section 4).

### Why the bounds are enough

- `oscar_socket`: a body of two bytes is cut in every place; a body byte equal
  to the start code makes a reader that is out of step accept a false header;
  a second connection is what meets the members the first left behind.
- `login`: a redirect whose connection fails, a sign-on that meets the cookie
  left behind, and one more after it, take three sign-ons. Two hosts tell the
  host of a cookie from another's.
- `oscar_session`: the second sign-on meets the lists of the first, with the
  same item under another name, and a packet that was cut off before. The item
  of the profile's shown contact is listed a second time, and its ignored one
  pushes the second new contact out. Rates and the second redirect target are left to `login`.
- `roster_view`: a second packet meets items of the first; two items in a packet
  make a part that was merged before one that cannot be read. The profiles put
  an ignored contact alone and after a shown one; those two bring an `ICQContact`
  each of an item in the list.
- `contact_file`: a header, its lines, a client's section with a line, and the
  next header are five lines; the third id is what `toInt` makes of no number.
- `profiles`: two choices switch profiles and a third switches back, with the
  plugins of both in common; starts are not bounded, so what a kill leaves on
  disk is met by later starts.
- `command_set`: a choice in one menu is seen by the button, by menus opened
  before it and by one opened after. `MaxCalls` is never reached: a stack that
  would grow past it would stop the run as a deadlock.
- `auto_away`: each limit is met alone, the first two in either's absence, and
  idle times lie on, before and after each; the state is finite, so nothing else
  is bounded.
- `tlv`: two bits make a byte with both halves, and a value of 16 bytes is the
  first that does not fit a word's length.
- `gsm_ta`: two slots give an empty book, one entry and two; one RING or one
  reconnection is enough to put the dialogue out of step, and the phone may be
  late, silent or hang up any number of times.

`CHECK_DEADLOCK FALSE` stands where a bounded supply may be used up (connections,
sign-ons, packets, lines, mishaps) or an algorithm ends: `oscar_socket`, the
logins, `oscar_session`, the rosters, `contact_file`, `tlv`, `gsm_ta`. The runs
`profiles`, `command_set` and `auto_away` never stop and are checked for
deadlock.

### Fairness

All of it is weak fairness of what a single thread, a timer or the other end
does when it can:

- `OscarSocket`: `BytesArrive` and `ReadyRead`; a slot runs to its end, and TCP
  delivers what was sent while the connection stands.
- `OscarLogin` and `OscarSession`: TCP connects or fails, the servers answer, the
  event loop delivers what has arrived. None on the user, on losing a
  connection, or on any particular answer.
- `CommandSet`: the calls on the stack are made.
- `AutoAway`: the timer fires. `ComesBack` and `ShownAway` assume that the user
  stays there, or away, from some time on, and say for which choices of his they
  do not hold.
- `GsmTA`: lines that have come are read, the timers and posted calls have their
  turn. The phone may stay silent for ever.

`LoginCompletes` and `SignOnListsAll` assume a UIN: without one the client sends
nothing and waits. `Roster`, `RosterView`, `ContactFile`, `Profiles` and `Tlv`
state safety only.

## 4. What is proved

TLAPS proves the following for every value of the constants that satisfies the
modules' `ASSUME`s: any bytes and bodies, hosts, rate classes, items, profiles,
files, plugins, commands, and any bounds. `OscarSession` assumes of its
constants what `OscarLogin` and `Roster` assume of theirs
(`ComponentsAssumption`). Each invariant was first checked by TLC.

**OscarSocket** (`OscarBytes_proofs`): `TypeCorrect`, `StreamIsKept`,
`ErrorOnlyWhenBroken`, `ImplementsStream`. The invariant equates what the server
wrote, as bytes, with what was handed up, followed by `Partial` (the header read
and the part of the body), the buffer and the network (`Kept`); `InOrder` says
that what was handed up is what the server wrote first, and `ReaderAtRest` that
a loop that found its connection closed has nothing left to read and that a
whole body has been handed up. Every action moves bytes within that equation.
Most of the proof is about `FlattenSeq`, the bytes of several packets: what a
header read off the front of such bytes says of the first packet
(`NextIsPacket`). The library defines it by recursion on the index, so the facts
about it are proved by `SetInduction`, which takes the least number a set lacks.
The step lemmas say what each step hands up (`HandsUp`), and from that the
refinement follows: a step hands one packet on to `PacketStream`, breaks the
framing, or stutters.

**OscarLogin** (`OscarLogin_proofs`): `TypeCorrect`, `PasswordSafe`,
`CookieSafe`, `ServicesInOrder`. That the password goes only to the login server
is not inductive: `handleNewConnection` decides by the cookie alone. `SecretsInv`
adds

- `GreetingFirst`: the server's greeting is the only packet it sends before the
  client has written, so it is answered at most once a connection;
- `BosNeedsCookie`: while a connection to a redirect's host has not been greeted,
  the cookie is still held;
- `KeyFromLogin`: an MD5 key is on its way only from the login server;
- `FreshCookies`: a cookie that is held, or on its way, was not shown before.

The order of the requests needs more of the wire. `OrderInv` says of each request
and answer of the exchange: an answer is on its way only if the server has read
the question (`Caused`), and at most one of it is (`OneReply`); a request that
depends on it was written only when it was heard (`Waited`), and once
(`AskedOnce`). The parts need each other: an answer that could come twice would
have its request written twice, and one written twice would be answered twice.
`OrderReads` is the server's side of this (it reads a request, and only then is
there an answer), `OrderWrites` the client's (the packet it takes is the last of
its kind, and what it writes waited for it), each handler being an instance
(`FitsFew`, `FitsRates`). `Greeted` gives the first link: the cookie is written
once because there is one greeting.

**Roster and RosterView** (`Roster_proofs`): `TypeCorrect`,
`OnlyIgnoredCanHide`, `NoDuplicates`, `ListShownUnlessIgnored`,
`EventsNameBuddies`, `AnnouncementsAreComplete`, `UserContactsSurvive`,
`FirstListDecides`. The heart is `FreshId`: the id `createContact` picks is
above all that are shown. It needs a largest one to exist, `HasLargest`, which
`addContact` preserves. `LinkInv` adds `PointsBack`, that a contact the lists
made for an item is the one the item points to; those a profile brought are
pointed to by none. `ParseInv` says that `rest` is the tail of the packet and
that what came before it is merged. From `LinkInv` follows that a user who
ignores nobody sees every entry, and that an event names the contact of its
buddy: while nobody is ignored no link is broken, and no step ignores anybody.

The view model's steps leave the lists alone or are steps of the lists, so all of
this holds under it. `OnlineRowsAreOnline` and
`AnnouncedAreShown` are about its two caches. That a row laid out under "Online"
has a contact needs three facts: the cached ids are contacts that are shown, and
the online ones are online (`KeptIds`); a section on the screen is no longer than
in the model (`RowsCovered`); and no path of the lists hides a contact or makes
one offline, which is where `LinkInv` comes in.

**OscarSession** (`OscarSession_proofs`): `ImplementsSignOn`, `SignOnStaysSafe`,
`ListsStaySound`, `TypeCorrect`, `NoticesFindBuddies`. The module instantiates the
two proof modules as the session instantiates the components, and carries the
invariants of both over.

`ImplementsSignOn` needs an invariant of the session. `RestOfPacket` says that
what is left of a packet is of it, and holds every item of it to stop at, so an
end without one left means the whole packet was readable; `NoAimKnown` says that
every item in the ICQ list was once listed with a name that could be read, so
that the branch for known contacts, which looks at no name, skips none that
`Readable` counts (`KnownIsReadable`). `ListEnds` puts them together; only with it
are the sign-on's invariants those of a session.

`NoticesFindBuddies` needs both components' invariants and more: the list a
notice will need must have been merged by the time it is read. The list is asked
for once and has been sent when an `Activate` is written (`ServiceOrder`); notices
come only after it; so on the wire no list follows a notice (`NoticesLast`), and
every buddy of the list the server sent is in the lists, in a packet that is
still to come or being read, or was given up (`SentArrives`, `Reading`).

**ContactFile** (`ContactFile_proofs`): `TypeCorrect`, `ListsAreTheFiles`,
`OwnLinesRead`, `IMContactsRead`, `LastWordWins`. The properties compare the lists
with the file from its first line on, the parser knows only its current
contact. The invariant ties the two with a cursor, `At(h, q)`: `h` is the last
header read and `q` the last break behind it, and between them they fix
`state`. `ContactsTold` then says of every contact, not only of the current one,
which lines it has: another line of the file belongs to the cursor's contact, or
to a client's section, or to nobody, and a header for a contact that was there
before adds to it. What `load_new` read is forgotten at the first header, so
nothing is asked of it.

**Profiles** (`Profiles_proofs`): `TypeCorrect`, `PluginsMatchProtocols`,
`ClientPointersGood`, `OnlyGoneProtocolCrashes`, `NoForeignClients`,
`ChosenIsOpened`, `OnlyKillsEmpty`. A plugin object is made only when none of
its plugin is held, and then its plugin is not enabled, so `enablePlugin` keeps
it (`UsePluginOne`). `IInv` adds `NamesHaveClients` (each listed name has a
client, so `MakeInputs` follows no null pointer) and `RestEmpty`; `FromFiles`
ties clients and unread entries to the current profile's files; `OpenInv` ties
the chosen line to the opened profile and an empty `profile.xml` to an
unfinished `sync()` or a kill.

**CommandSet** (`CommandSet_proofs`): `TypeCorrect`, `ViewsComeToAgree`,
`NeverTwo`, `LastClickHolds`. The properties hold between clicks, so the invariant
must say how far a click has come. It says that there are three cases:
`Resting`; `Flipping`, where a command that excludes nothing goes from view to
view in four shapes of the stack; and `Swapping`, where one group mode takes the
place of another in twelve (`Swap1` to `Swap12`). Each shape names the calls left
(`Told`: the views from `k` on still hear of a command), which commands are
checked, and what every menu's group holds (`Group`). Each call leads from a
shape to a next one, the view at `k` having heard, and an empty stack is the end
of a course. `NeverTwo` is read off the shapes: o is unchecked before any view
makes c's command hear. The bound on the stack is at least one call
(`MaxCalls`), which a click needs.

**AutoAway** (`Plugins_proofs`): `TypeCorrect`, `CanAlwaysComeBack`,
`ChoiceIsKept`, `LostOnTwoPaths`. `IInv` says that what the plugin holds fits
together (`Sound`: a status of the plugin's has one kept beside it, the kept one
is somebody's, and untouched by the user both are what he chose), that a flag
has one kept too, and that what is saved is `Sound`, since a start takes all of
it from there. `CanComeBack` and `UsersStatusKept` are parts of it;
`LostOnlyThere` follows from it branch by branch of `timeout()`.

**GsmTA** (`Plugins_proofs`): `GsmTypeCorrect`,
`AnswersInStep`, `OwnAnswersOnly`, `PingingGoesOn`. An answer carries no name, so
`InStep` has to follow from how much can be under way. `GsmIInv` says which
command each state waits for (`CmdIsStates`), that a line of data on the wire is
of a command that is answered with one and has the end of its answer behind it
(`DataIsEnded`), and that at most one command is unanswered, the one sent last
(`OneAtMost`); both unless the port is shut or `slipped`. A command is sent only
in a step that takes the end of the one before it, or on an idle connection, and
a silence that ends a command closes the port. The action property
`OwnAnswersOnly` draws the conclusion: the line that takes the adapter on, and
any error, is of the command it sent last.

**Tlv** (`OscarBytes_proofs`): `TlvTypeCorrect`,
`ListsReadBack`, `OneMadeUpAtMost`, `NumbersAreRight`. The bytes of a list are a
`FlattenSeq`, so the lemmas about it serve here too: `FlatNext` splits the bytes
of any entry off those that follow it. `TlvRead` says that while a list is read
the entries so far are its first ones and what is unread, with what was cut off,
is the bytes of the others (`Reading`), that when it is read a whole list is
there in full (`Done`), and that after a cut header nothing is left and the last
entry alone may be made up (`WrongByOne`). `TurnIs`
is one turn of the loop on bytes of which an entry is the first, however little
of it has come; `TurnKeeps` that a turn keeps the invariant. Numbers rest on
`ModAdd` and `WordBack`: a word is its two digits, and a signed char differs from
its byte by a multiple of the base, which the modulus turns into the carry.

### Only model-checked

- Liveness (`EventuallyEmitted`, `LoginCompletes`, `SignOnListsAll`, `Settles`,
  `ComesBack`, `ShownAway`, `NobodyWaits`), which needs fairness. Every other
  property of a passing run is a theorem. That
  `OscarSession` implements the safety part of `OscarLogin` is proved, that it
  makes the progress `LoginCompletes` speaks of is not.

## 5. Findings

1. **A cookie outlives its connection** (`authorizationsnachandler.cpp:227`, run
   `login_stale_cookie`). After a redirect whose connection fails, the next
   sign-on answers the login server's greeting with the old cookie, where the
   tests expect the sign-on packet. The sign-on is refused; the one after it
   works, since sending clears the cookie.
2. **An ignored contact hides a new one** (`ssisnachandler.cpp:158`, run
   `roster_ignored`). `createContact` does not see ignored contacts when it picks
   an id, `addContact` refuses a taken id, and nobody looks at that: the contact
   is destroyed and the ICQ contact keeps a pointer to it.

### Further facts

Met while modelling, and built into the models; the passing properties are
stated around them:

- A buddy that is away has no status (`icqstatusconverter.cpp:16`): only the
  default statuses "offline" and "online" are built, and the roster's painting
  dereferences the null one (`userviewmodel.cpp:78`).
- A list packet with an AIM name or a truncated item neither announces the list
  nor sends "Activate" (`ssisnachandler.cpp:97`, `:147`): `lost` in
  `SignOnListsAll`.
- A contact of an old profile's ICQ contact is met by the first list as if it
  were new: the user has it twice, and only the second follows the buddy's
  status (`standardcontactlist.cpp:350`, `icqclient.cpp:887`).
- An item that comes back under another name keeps its first one, so a notice
  for the new name finds nobody: the exception in `NoticeFindsBuddy`.
- `contactStatusChanged` announces the row in the section the contact has just
  left (`userviewmodel.cpp:173`); `testuserviewmodel.cpp` looks at a contact
  that does not move.
- The last section of `contacts.conf` is lost (`standardcontactlist.cpp:294`), an
  ICQ contact's data ends at a blank line anywhere in the contact
  (`icqcontact.cpp:296`), groups read from it are never given their names, and a
  property hub in the global part of `contacts.xml` ends the program
  (`standardcontactlist.cpp:232`).
- An entry of `clients.xml` whose protocol its plugin no longer has ends the
  program (`standardclientmanager.cpp:112`; `CrashNeedsGoneProtocol` says this is
  the only such case); a profile whose `profile.xml` was left empty by a kill is
  silently not opened; the profile dialog's "Do not show this window" is never
  saved (`core.cpp:3147`).
- AutoAway loses the user's status when it goes offline from away without N/A
  between (`autoaway.cpp:294`), and keeps one too long when he had chosen the
  kept status himself (`autoaway.cpp:299`): `lost` and `touched`.
- A TLV list cut inside a header is read on with unset bytes and may get one
  empty entry nobody wrote (`bytearrayparser.cpp:24`); numbers with bytes above
  127 come out too small by a carry (`tlv.cpp:26`, `:33`).
- The serial port is made blocking and read until it would block
  (`serial.cpp:494`, `:515`): after the first line the program stands in
  `read()` until the next.

## 6. Abstractions

- Data is reduced to what decisions depend on: names, passwords, cookies and
  statuses are model values or small numbers, packets are records.
- Signals within the process are calls. Qt's queue of events is the choice of
  the next action. In `CommandSet` a call is a step, elsewhere a whole slot is.
- What an uninitialised or freed object gives is any value of a set
  (`StrayIds`, `StrayId`, `Byte`).
- `PluginManager::plugin` of an installed plugin succeeds; a plugin that is not
  installed or does not load is `Missing`.
- An online notice carries a status; one without would change nothing.
- `RosterView`: rows are in the order of ids, so a section is a set. A contact
  has one IM contact or none.
- `AutoAway`: minutes instead of seconds; the common status and those of the
  clients that follow it are one, so the second comparison of `timeout()`
  (`autoaway.cpp:307`), which asks whether the clients changed it, never holds.
- `GsmTA`: the phone answers a command with at most one line of data and an end,
  and sends no empty lines; a call posted when the adapter fails outlives it, but
  several such calls count as one;
  a field is reduced to whose answer filled it. `m_queue` is always empty, since
  `getPhoneBook` has one caller. Opening and writing the port do not fail, and
  the thread of `serial.cpp`'s Windows half is taken for its effect, a read that
  does not block.

## 7. Plan

| Order | Module | Composes, implements | Aim |
|---|---|---|---|
| done | `OscarSocket`, proofs | implements `PacketStream` | framing over a cut byte stream |
| done | `OscarLogin`, proofs | on `PacketStream` | secrets, order and progress of a sign-on |
| done | `Roster`, proofs | | two contact lists kept in step |
| done | `Profiles`, proofs | | lifetimes while profiles are switched |
| done | `ContactFile`, proofs | | both formats and the fall-back between them |
| done | `RosterView`, proofs | on `Roster` | rows, sections and cached ids against the lists |
| done | `OscarSession`, proofs | `OscarLogin` with `Roster` | list packets of live sessions merged under lost connections |
| done | `CommandSet`, proofs | | signals that call each other |
| done | `Tlv`, proofs | | decoding |
| done | `AutoAway`, `GsmTA`, proofs | | state machines with timers and restarts |
| 1 | action properties of the sign-on and the lists | | what no step does to a connection's state |

## 8. Not modelled

- Code that is not built: the other dropped plugins and the old ICQ sources
  (`icqdirect.cpp`, `icqicmb.cpp`, `icqlists.cpp` and others). They use interfaces
  and base classes the library no longer has; the proxy plugin, for one, derives
  from socket classes that are gone, so what its calls do cannot be translated.
- The Jabber plugin: settings and a status are all that is left of it.
- The event hub, the command hub and the message pipe: maps from a name to an
  object, filled at start-up; nothing that is built takes anything out again.
- `RateInfo::update`, `ContactList::save`, `ClientManager::save`,
  `PluginManager::setInfo` and others with callers in the tests only.
- Widgets, painting, images, logging: no state the properties are about.
- Settings and property hubs: serialisation without control of its own; the
  models take from it only whether a file can be read.
- Finding and loading plugin libraries: file-system and linker.
