--------------------------- MODULE Profiles_proofs ---------------------------
(***************************************************************************)
(* Proofs about profiles, plugins and clients, for any profiles, plugins,  *)
(* files and numbers of choices and kills.                                 *)
(*                                                                         *)
(* The argument follows a plugin object: it is made only when no object of *)
(* its plugin is held, and at that moment its plugin is not enabled, so    *)
(* enablePlugin keeps it.  Hence the protocols are those of the held       *)
(* objects after every entry, and the pointer of a new client is good.     *)
(***************************************************************************)
EXTENDS Profiles, TLAPS

USE ProfilesAssumption

\* Every name that is listed has a client, so makeInputs finds it.
NamesHaveClients == \A i \in DOMAIN names : names[i] \in DOMAIN clients

\* A file is only being read in these stages.
RestEmpty == stage \notin {"new", "old", "crashed"} => rest = <<>>

\* What is left to read, and what was read, comes from the current profile.
OfProfile(n) == current # None /\ \E e \in Entries(current) :
                                    e.name = n /\ e.plugin = clients[n].plugin
FromFiles ==
    /\ stage # "load" => \A n \in DOMAIN clients : OfProfile(n)
    /\ \A i \in DOMAIN rest : current # None /\ rest[i] \in Entries(current)

\* The line chosen and the profile opened.
ChoiceOpened ==
    /\ stage = "off" => choice = None
    /\ stage \notin {"off", "syncing"} /\ choice \in Profile =>
          choice = current \/ xml[choice].state = "empty"
RunsWithProfile ==
    /\ stage \in {"running", "syncing"} => current \in Profile
    /\ stage = "running" => choice # None

\* Without a kill, only the file sync() has just opened is empty.
EmptyIsOpen ==
    kills = 0 => \A p \in Profile :
                    xml[p].state = "empty" => stage = "syncing" /\ p = current

-----------------------------------------------------------------------------
(* Reading an entry *)

\* The protocols of the files' entries are those of the held objects.
LEMMA UsePluginOne ==
    ASSUME TypeOK, OneProtocolEach, NEW e \in Entry, e.plugin \in Plugin,
           UsePlugin(e.plugin)
    PROVE  /\ OneProtocolEach'
           /\ protocols \subseteq protocols'
           /\ Makers(e) \subseteq protocols'
           /\ e.provides => Makers(e) # {}
<1> DEFINE pl == e.plugin
           new == Object(pl, made + 1)
<1>1. /\ new.plugin = pl
      /\ enabled' = enabled \cup {pl}
  BY DEF Object, UsePlugin, enablePlugin
<1>2. CASE pl \in enabled
  <2>1. PICK o \in held : o.plugin = pl
    BY <1>2 DEF OneProtocolEach
  <2>2. Objects(pl) = {}
    BY <2>1 DEF Objects
  <2>3. held' = held /\ protocols' = protocols /\ enabled' = enabled
    BY <1>2, <2>2, <1>1 DEF UsePlugin, enablePlugin, OneProtocolEach
  <2>4. e.provides => o \in Makers(e)
    BY <2>1 DEF Makers, OneProtocolEach
  <2> QED BY <2>2, <2>3, <2>4 DEF OneProtocolEach, Makers
<1>3. CASE pl \notin enabled
  <2>1. ~ \E o \in held : o.plugin = pl
    BY <1>3 DEF OneProtocolEach
  <2>2. Objects(pl) = {new}
    BY <2>1 DEF Objects
  <2>3. held' = held \cup {new} /\ protocols' = held \cup {new}
    BY <1>3, <2>2 DEF UsePlugin, enablePlugin, OneProtocolEach
  <2> HIDE DEF new
  <2>4. OneProtocolEach'
    <3>1. \A q \in Plugin : q \in enabled' <=> \E o \in held' : o.plugin = q
      BY <1>1, <2>3 DEF OneProtocolEach
    <3>2. \A o, q \in held' : o.plugin = q.plugin => o = q
      BY <1>1, <2>1, <2>3 DEF OneProtocolEach
    <3> QED BY <2>3, <3>1, <3>2 DEF OneProtocolEach
  <2>5. e.provides => new \in Makers(e)
    BY <1>1, <2>2 DEF Makers
  <2> QED BY <2>2, <2>3, <2>4, <2>5 DEF Makers, OneProtocolEach
<1> QED BY <1>2, <1>3

\* What an entry adds to the clients.
LEMMA AddClient ==
    ASSUME NEW e \in Entry, addClient(e)
    PROVE  /\ DOMAIN clients \subseteq DOMAIN clients'
           /\ \A n \in DOMAIN clients' :
                 \/ n \in DOMAIN clients /\ clients'[n] = clients[n]
                 \/ n = e.name /\ clients'[n] \in Makers(e)
           /\ \/ names' = names
              \/ names' = Append(names, e.name) /\ e.name \in DOMAIN clients'
<1>1. CASE Makers(e) = {}
  BY <1>1 DEF addClient, manager
<1>2. CASE Makers(e) # {}
  <2>1. PICK o \in Makers(e) : clients' = Put(clients, e.name, o)
    BY <1>2 DEF addClient
  <2>2. /\ DOMAIN clients' = DOMAIN clients \cup {e.name}
        /\ \A n \in DOMAIN clients' :
              clients'[n] = IF n = e.name THEN o ELSE clients[n]
    BY <2>1 DEF Put
  <2> QED BY <1>2, <2>2 DEF addClient
<1> QED BY <1>1, <1>2

\* The objects a client can point to are typed.
LEMMA EntryTypes ==
    ASSUME TypeOK, NEW e \in Entry, e.plugin \in Plugin,
           UsePlugin(e.plugin), addClient(e)
    PROVE  /\ enabled' \subseteq Names /\ current' \in Profile \cup {None}
           /\ held' \subseteq PluginObject /\ protocols' \subseteq PluginObject
           /\ made' \in Nat
           /\ DOMAIN clients' \subseteq Name
           /\ clients' \in [DOMAIN clients' -> PluginObject]
           /\ names' \in Seq(Name)
<1>1. Objects(e.plugin) \subseteq PluginObject
  BY DEF Objects, Object, PluginObject, TypeOK
<1>2. Makers(e) \subseteq PluginObject
  BY <1>1 DEF Makers, TypeOK
<1>3. /\ enabled' \subseteq Names /\ current' \in Profile \cup {None}
      /\ held' \subseteq PluginObject /\ protocols' \subseteq PluginObject
      /\ made' \in Nat
  BY <1>1 DEF UsePlugin, enablePlugin, TypeOK, Names
<1>4. e.name \in Name
  BY DEF Entry
<1>5. CASE Makers(e) = {}
  BY <1>3, <1>5 DEF addClient, manager, TypeOK
<1>6. CASE Makers(e) # {}
  <2>1. PICK o \in Makers(e) : clients' = Put(clients, e.name, o)
    BY <1>6 DEF addClient
  <2>2. DOMAIN clients' \subseteq Name /\ clients' \in [DOMAIN clients' -> PluginObject]
    BY <1>2, <1>4, <2>1 DEF Put, TypeOK
  <2>3. names \in Seq(Name)
    BY DEF TypeOK
  <2>4. names' = Append(names, e.name)
    BY <1>6 DEF addClient
  <2>5. names' \in Seq(Name)
    BY <1>4, <2>3, <2>4
  <2> QED BY <1>3, <2>2, <2>5
<1> QED BY <1>5, <1>6

-----------------------------------------------------------------------------
(* Types *)

LEMMA FilesTyped ==
    ASSUME TypeOK, NEW which \in {"clientsXml", "clientsConf"}
    PROVE  File(which) \subseteq Seq(Entry)
BY DEF File, TypeOK

LEMMA OpenTyped ==
    ASSUME TypeOK, NEW which \in {"clientsXml", "clientsConf"},
           NEW reading, NEW failing, Open(which, reading, failing)
    PROVE  rest' \in Seq(Entry) /\ stage' \in {reading, failing}
<1>1. CASE File(which) = {}
  <2>1. rest' = <<>> /\ stage' = failing
    BY <1>1 DEF Open
  <2> QED BY <2>1
<1>2. CASE File(which) # {}
  <2>1. rest' \in File(which) /\ stage' = reading
    BY <1>2 DEF Open
  <2> QED BY <2>1, FilesTyped
<1> QED BY <1>1, <1>2

LEMMA EndsTyped ==
    ASSUME TypeOK, Ends, files' \in {files, <<disk, xml'>>},
           xml' \in [Profile -> ProfileXml], kills' \in Nat
    PROVE  TypeOK'
<1>1. disk' = disk
  BY DEF files
<1>2. /\ clients' \in [DOMAIN clients' -> PluginObject]
      /\ DOMAIN clients' \subseteq Name
      /\ names' \in Seq(Name) /\ rest' \in Seq(Entry)
  BY DEF Ends
<1> QED BY <1>1, <1>2 DEF TypeOK, Ends

LEMMA TypeInit == Init => TypeOK
<1> SUFFICES ASSUME Init PROVE TypeOK
  OBVIOUS
<1>1. xml \in [Profile -> ProfileXml]
  BY DEF Init
<1>2. /\ clients \in [DOMAIN clients -> PluginObject]
      /\ DOMAIN clients \subseteq Name
      /\ names \in Seq(Name) /\ rest \in Seq(Entry)
  BY DEF Init
<1> QED BY <1>1, <1>2 DEF TypeOK, Init

LEMMA TypeStep == TypeOK /\ [Next]_vars => TypeOK'
<1> SUFFICES ASSUME TypeOK, [Next]_vars PROVE TypeOK'
  OBVIOUS
<1> USE DEF files, profile, manager, dialog
<1>1. CASE Start
  BY <1>1 DEF Start, TypeOK
<1>2. CASE Accept
  <2>1. CASE current = None
    BY <1>2, <2>1, EndsTyped DEF Accept, TypeOK
  <2>2. CASE current # None
    BY <1>2, <2>2 DEF Accept, TypeOK
  <2> QED BY <2>1, <2>2
<1>3. CASE Cancel
  BY <1>3, EndsTyped DEF Cancel, TypeOK
<1>4. CASE QuitOpens
  <2>1. xml' \in [Profile -> ProfileXml]
    BY <1>4 DEF QuitOpens, TypeOK, ProfileXml, Empty
  <2>2. /\ clients' \in [DOMAIN clients' -> PluginObject]
        /\ DOMAIN clients' \subseteq Name /\ names' \in Seq(Name)
    BY <1>4 DEF QuitOpens
  <2> QED BY <1>4, <2>1, <2>2 DEF QuitOpens, TypeOK
<1>5. CASE QuitWrites
  <2>1. xml' \in [Profile -> ProfileXml]
    BY <1>5 DEF QuitWrites, TypeOK, ProfileXml, Written
  <2> QED BY <1>5, <2>1, EndsTyped DEF QuitWrites, TypeOK
<1>6. CASE Killed
  BY <1>6, EndsTyped DEF Killed, TypeOK
<1>7. CASE Dies
  BY <1>7, EndsTyped DEF Dies, TypeOK
<1>8. CASE ChooseProfile
  <2>1. PICK p \in Profile : choice' = p /\ selectProfile(p)
    BY <1>8 DEF ChooseProfile, Listed
  <2>2. /\ current' \in Profile \cup {None} /\ enabled' \subseteq Names
        /\ held' \subseteq PluginObject /\ protocols' \subseteq PluginObject
        /\ made' \in Nat
    <3>1. CASE UNCHANGED profile
      BY <3>1 DEF TypeOK
    <3>2. CASE SwitchTo(p)
      BY <3>2 DEF SwitchTo, loadPlugins, Object, PluginObject, TypeOK, ProfileXml
    <3> QED BY <2>1, <3>1, <3>2 DEF selectProfile
  <2> QED BY <1>8, <2>1, <2>2 DEF ChooseProfile, TypeOK
<1>9. CASE ChooseNew
  BY <1>9 DEF ChooseNew, TypeOK
<1>10. CASE Load
  <2>1. /\ clients' \in [DOMAIN clients' -> PluginObject]
        /\ DOMAIN clients' \subseteq Name /\ names' \in Seq(Name)
    BY <1>10 DEF Load
  <2>2. rest' \in Seq(Entry) /\ stage' \in {"new", "fallback"}
    <3>1. Open("clientsXml", "new", "fallback")
      BY <1>10 DEF Load
    <3> QED BY <3>1, OpenTyped
  <2> QED BY <1>10, <2>1, <2>2 DEF Load, TypeOK
<1>11. CASE Fallback
  <2>1. rest' \in Seq(Entry) /\ stage' \in {"old", "inputs"}
    <3>1. Open("clientsConf", "old", "inputs")
      BY <1>11 DEF Fallback
    <3> QED BY <3>1, OpenTyped
  <2> QED BY <1>11, <2>1 DEF Fallback, TypeOK
<1>12. CASE BadNewEntry
  BY <1>12 DEF BadNewEntry, Quiet, TypeOK
<1>13. CASE SkipEntry
  BY <1>13 DEF SkipEntry, Reads, Quiet, TypeOK
<1>14. CASE NewEntry
  <2> DEFINE e == Head(rest)
  <2>1. e \in Entry /\ e.plugin \in Plugin /\ Tail(rest) \in Seq(Entry)
    BY <1>14 DEF NewEntry, Reads, TypeOK
  <2>2. UsePlugin(e.plugin) /\ addClient(e)
    BY <1>14 DEF NewEntry
  <2>3. \/ stage' = "new" /\ rest' = Tail(rest)
        \/ stage' = "fallback" /\ rest' = <<>>
        \/ stage' = "crashed" /\ rest' = rest
    BY <1>14 DEF NewEntry
  <2> HIDE DEF e
  <2>4. rest' \in Seq(Entry) /\ stage' \in {"new", "fallback", "crashed"}
    <3>1. rest \in Seq(Entry) /\ <<>> \in Seq(Entry) /\ Tail(rest) \in Seq(Entry)
      BY <2>1 DEF TypeOK
    <3>2. rest' \in {rest, Tail(rest), <<>>}
      BY <2>3
    <3> QED BY <2>3, <3>1, <3>2
  <2> QED BY <1>14, <2>1, <2>2, <2>4, EntryTypes DEF NewEntry, Quiet, TypeOK
<1>15. CASE OldEntry
  <2> DEFINE e == Head(rest)
  <2>1. e \in Entry /\ e.plugin \in Plugin /\ Tail(rest) \in Seq(Entry)
    BY <1>15 DEF OldEntry, Reads, TypeOK
  <2>2. UsePlugin(e.plugin) /\ addClient(e) /\ rest' = Tail(rest)
    BY <1>15 DEF OldEntry
  <2> HIDE DEF e
  <2> QED BY <1>15, <2>1, <2>2, EntryTypes DEF OldEntry, Quiet, TypeOK
<1>16. CASE EndOfFile
  BY <1>16 DEF EndOfFile, Quiet, TypeOK
<1>17. CASE MakeInputs
  BY <1>17 DEF MakeInputs, Quiet, TypeOK
<1>18. CASE UNCHANGED vars
  BY <1>18 DEF vars, TypeOK
<1> QED
  BY <1>1, <1>2, <1>3, <1>4, <1>5, <1>6, <1>7, <1>8, <1>9, <1>10, <1>11,
     <1>12, <1>13, <1>14, <1>15, <1>16, <1>17, <1>18 DEF Next

\* Every variable has its type, whatever the files hold.
THEOREM TypeCorrect == Spec => []TypeOK
BY TypeInit, TypeStep, PTL DEF Spec

-----------------------------------------------------------------------------
(* Plugins, protocols and clients *)

IInv == /\ TypeOK /\ OneProtocolEach /\ ClientsOwned
        /\ NamesHaveClients /\ RestEmpty /\ CrashNeedsGoneProtocol

\* A process that ended holds nothing.
LEMMA EndsSafe ==
    ASSUME Ends
    PROVE  /\ OneProtocolEach' /\ ClientsOwned' /\ NamesHaveClients'
           /\ RestEmpty' /\ CrashNeedsGoneProtocol'
<1>1. DOMAIN clients' = {} /\ DOMAIN names' = {}
  BY DEF Ends
<1>2. stage' = "off" /\ rest' = <<>> /\ held' = {} /\ protocols' = {} /\ enabled' = {}
  BY DEF Ends
<1> QED
  BY <1>1, <1>2 DEF OneProtocolEach, ClientsOwned, NamesHaveClients, RestEmpty,
                    CrashNeedsGoneProtocol

\* Reading an entry of either file.
LEMMA EntrySafe ==
    ASSUME IInv, stage \in {"new", "old"}, NEW e \in Entry, e.plugin \in Plugin,
           UsePlugin(e.plugin), addClient(e)
    PROVE  /\ OneProtocolEach' /\ ClientsOwned' /\ NamesHaveClients'
           /\ e.provides => Makers(e) # {}
<1> USE DEF IInv
<1>1. /\ OneProtocolEach'
      /\ protocols \subseteq protocols' /\ Makers(e) \subseteq protocols'
      /\ e.provides => Makers(e) # {}
  BY UsePluginOne
<1>2. /\ DOMAIN clients \subseteq DOMAIN clients'
      /\ \A n \in DOMAIN clients' :
            \/ n \in DOMAIN clients /\ clients'[n] = clients[n]
            \/ n = e.name /\ clients'[n] \in Makers(e)
      /\ \/ names' = names
         \/ names' = Append(names, e.name) /\ e.name \in DOMAIN clients'
  BY AddClient
<1>3. ClientsOwned'
  BY <1>1, <1>2 DEF ClientsOwned
<1>4. NamesHaveClients'
  <2>1. CASE names' = names
    BY <1>2, <2>1 DEF NamesHaveClients
  <2>2. CASE names' = Append(names, e.name) /\ e.name \in DOMAIN clients'
    <3>1. names \in Seq(Name) /\ e.name \in Name
      BY DEF TypeOK, Entry
    <3>2. \A i \in DOMAIN names' :
             names'[i] = e.name \/ (i \in DOMAIN names /\ names'[i] = names[i])
      BY <2>2, <3>1
    <3> QED BY <1>2, <2>2, <3>2 DEF NamesHaveClients
  <2> QED BY <1>2, <2>1, <2>2
<1> QED BY <1>1, <1>3, <1>4

LEMMA SafeInit == Init => IInv
<1> SUFFICES ASSUME Init PROVE IInv
  OBVIOUS
<1>1. DOMAIN clients = {} /\ DOMAIN names = {}
  BY DEF Init
<1>2. stage = "off" /\ rest = <<>> /\ held = {} /\ protocols = {} /\ enabled = {}
  BY DEF Init
<1> QED
  BY <1>1, <1>2, TypeInit DEF IInv, OneProtocolEach, ClientsOwned,
     NamesHaveClients, RestEmpty, CrashNeedsGoneProtocol

LEMMA SafeStep == IInv /\ [Next]_vars => IInv'
<1> SUFFICES ASSUME IInv, [Next]_vars
             PROVE  /\ OneProtocolEach' /\ ClientsOwned' /\ NamesHaveClients'
                    /\ RestEmpty' /\ CrashNeedsGoneProtocol'
  BY TypeStep DEF IInv
<1> USE DEF files, profile, manager, dialog
<1> DEFINE Same == UNCHANGED <<profile, manager>>
<1>A. Same => OneProtocolEach' /\ NamesHaveClients'
  BY DEF IInv, OneProtocolEach, NamesHaveClients
<1>B. Same /\ stage # "load" => ClientsOwned'
  BY DEF IInv, ClientsOwned
<1>1. CASE Start
  BY <1>1, <1>A, <1>B DEF Start, IInv, RestEmpty, CrashNeedsGoneProtocol
<1>2. CASE Accept
  <2>1. CASE current = None
    BY <1>2, <2>1, EndsSafe DEF Accept
  <2>2. CASE current # None
    BY <1>2, <2>2, <1>A, <1>B
       DEF Accept, IInv, RestEmpty, CrashNeedsGoneProtocol
  <2> QED BY <2>1, <2>2
<1>3. CASE Cancel
  BY <1>3, EndsSafe DEF Cancel
<1>4. CASE QuitOpens
  <2>1. DOMAIN clients' = {} /\ DOMAIN names' = {} /\ UNCHANGED profile
    BY <1>4 DEF QuitOpens
  <2>2. OneProtocolEach' /\ ClientsOwned' /\ NamesHaveClients'
    BY <2>1 DEF IInv, OneProtocolEach, ClientsOwned, NamesHaveClients
  <2> QED BY <1>4, <2>2 DEF QuitOpens, IInv, RestEmpty, CrashNeedsGoneProtocol
<1>5. CASE QuitWrites
  BY <1>5, EndsSafe DEF QuitWrites
<1>6. CASE Killed
  BY <1>6, EndsSafe DEF Killed
<1>7. CASE Dies
  BY <1>7, EndsSafe DEF Dies
<1>8. CASE ChooseProfile
  <2>1. PICK p \in Profile : choice' = p /\ selectProfile(p)
    BY <1>8 DEF ChooseProfile, Listed
  <2>2. OneProtocolEach'
    <3>1. CASE UNCHANGED profile
      BY <3>1 DEF IInv, OneProtocolEach
    <3>2. CASE SwitchTo(p)
      <4>1. \A pl \in Plugin : Object(pl, made + 1).plugin = pl
        BY DEF Object
      <4> QED BY <3>2, <4>1 DEF SwitchTo, loadPlugins, OneProtocolEach
    <3> QED BY <2>1, <3>1, <3>2 DEF selectProfile
  <2> QED
    BY <1>8, <2>2 DEF ChooseProfile, IInv, ClientsOwned, NamesHaveClients,
       RestEmpty, CrashNeedsGoneProtocol
<1>9. CASE ChooseNew
  BY <1>9, <1>A, <1>B DEF ChooseNew, IInv, RestEmpty, CrashNeedsGoneProtocol
<1>10. CASE Load
  <2>1. DOMAIN clients' = {} /\ DOMAIN names' = {} /\ UNCHANGED profile
    BY <1>10 DEF Load
  <2>2. OneProtocolEach' /\ ClientsOwned' /\ NamesHaveClients'
    BY <2>1 DEF IInv, OneProtocolEach, ClientsOwned, NamesHaveClients
  <2> QED BY <1>10, <2>2 DEF Load, Open, RestEmpty, CrashNeedsGoneProtocol
<1>11. CASE Fallback
  BY <1>11, <1>A, <1>B DEF Fallback, Open, RestEmpty, CrashNeedsGoneProtocol
<1>12. CASE BadNewEntry
  BY <1>12, <1>A, <1>B
     DEF BadNewEntry, Reads, Quiet, RestEmpty, CrashNeedsGoneProtocol
<1>13. CASE SkipEntry
  BY <1>13, <1>A, <1>B
     DEF SkipEntry, Reads, Quiet, RestEmpty, CrashNeedsGoneProtocol
<1>14. CASE NewEntry
  <2> DEFINE e == Head(rest)
  <2>1. e \in Entry /\ e.plugin \in Plugin /\ stage = "new" /\ rest # <<>>
    BY <1>14 DEF NewEntry, Reads, IInv, TypeOK
  <2>2. UsePlugin(e.plugin) /\ addClient(e)
    BY <1>14 DEF NewEntry
  <2>3. \/ stage' = "new" /\ rest' = Tail(rest)
        \/ stage' = "fallback" /\ rest' = <<>>
        \/ stage' = "crashed" /\ rest' = rest /\ Makers(e) = {}
    BY <1>14 DEF NewEntry
  <2> HIDE DEF e
  <2>4. /\ OneProtocolEach' /\ ClientsOwned' /\ NamesHaveClients'
        /\ e.provides => Makers(e) # {}
    BY <2>1, <2>2, EntrySafe
  <2>5. RestEmpty'
    BY <2>3 DEF RestEmpty
  <2>6. CrashNeedsGoneProtocol'
    BY <2>1, <2>3, <2>4 DEF CrashNeedsGoneProtocol, e
  <2> QED BY <2>4, <2>5, <2>6
<1>15. CASE OldEntry
  <2> DEFINE e == Head(rest)
  <2>1. e \in Entry /\ e.plugin \in Plugin /\ stage = "old" /\ stage' = stage
    BY <1>15 DEF OldEntry, Reads, IInv, TypeOK
  <2>2. UsePlugin(e.plugin) /\ addClient(e)
    BY <1>15 DEF OldEntry
  <2> HIDE DEF e
  <2>3. OneProtocolEach' /\ ClientsOwned' /\ NamesHaveClients'
    BY <2>1, <2>2, EntrySafe
  <2> QED BY <2>1, <2>3 DEF RestEmpty, CrashNeedsGoneProtocol
<1>16. CASE EndOfFile
  BY <1>16, <1>A, <1>B
     DEF EndOfFile, Quiet, RestEmpty, CrashNeedsGoneProtocol
<1>17. CASE MakeInputs
  <2>1. stage' = "dialog"
    BY <1>17 DEF MakeInputs, IInv, NamesHaveClients, ClientsOwned
  <2> QED BY <1>17, <2>1, <1>A, <1>B
          DEF MakeInputs, Quiet, IInv, RestEmpty, CrashNeedsGoneProtocol
<1>18. CASE UNCHANGED vars
  BY <1>18 DEF vars, IInv, OneProtocolEach, ClientsOwned, NamesHaveClients,
     RestEmpty, CrashNeedsGoneProtocol
<1> QED
  BY <1>1, <1>2, <1>3, <1>4, <1>5, <1>6, <1>7, <1>8, <1>9, <1>10, <1>11,
     <1>12, <1>13, <1>14, <1>15, <1>16, <1>17, <1>18 DEF Next

\* Every enabled plugin that is installed runs once, and the protocols are
\* exactly those of the running plugins.
THEOREM PluginsMatchProtocols == Spec => []OneProtocolEach
<1>1. IInv => OneProtocolEach
  BY DEF IInv
<1> QED BY <1>1, SafeInit, SafeStep, PTL DEF Spec

\* No client that can be used points to a protocol that is gone.
THEOREM ClientPointersGood == Spec => []ClientsOwned
<1>1. IInv => ClientsOwned
  BY DEF IInv
<1> QED BY <1>1, SafeInit, SafeStep, PTL DEF Spec

\* load_new() follows a null client only for a protocol that is gone, and the
\* dialog never does.
THEOREM OnlyGoneProtocolCrashes == Spec => []CrashNeedsGoneProtocol
<1>1. IInv => CrashNeedsGoneProtocol
  BY DEF IInv
<1> QED BY <1>1, SafeInit, SafeStep, PTL DEF Spec

-----------------------------------------------------------------------------
(* Where the clients come from *)

\* The entries of a file of the current profile are among its Entries.
LEMMA OpenFromFiles ==
    ASSUME NEW which \in {"clientsXml", "clientsConf"},
           NEW reading, NEW failing, Open(which, reading, failing)
    PROVE  \A i \in DOMAIN rest' : current # None /\ rest'[i] \in Entries(current)
<1>1. CASE File(which) = {}
  BY <1>1 DEF Open
<1>2. CASE File(which) # {}
  <2>1. rest' \in File(which)
    BY <1>2 DEF Open
  <2>2. current # None /\ rest' \in disk[current][which]
    BY <1>2, <2>1 DEF File
  <2>3. rest' \in disk[current].clientsXml \cup disk[current].clientsConf
    BY <2>2
  <2> QED BY <2>2, <2>3 DEF Entries, Range
<1> QED BY <1>1, <1>2

\* Reading an entry of the current profile adds a client of that entry.
LEMMA EntryFromFiles ==
    ASSUME TypeOK, OneProtocolEach, FromFiles, stage # "load",
           NEW e \in Entry, e.plugin \in Plugin, e \in Entries(current),
           current # None, UsePlugin(e.plugin), addClient(e), disk' = disk
    PROVE  \A n \in DOMAIN clients' : OfProfile(n)'
<1>1. current' = current /\ Entries(current)' = Entries(current)
  BY DEF UsePlugin, Entries
<1>2. \A o \in Makers(e) : o.plugin = e.plugin
  BY DEF Makers
<1>3. \A n \in DOMAIN clients' :
          \/ n \in DOMAIN clients /\ clients'[n] = clients[n]
          \/ n = e.name /\ clients'[n] \in Makers(e)
  BY AddClient
<1> SUFFICES ASSUME NEW n \in DOMAIN clients' PROVE OfProfile(n)'
  OBVIOUS
<1>4. CASE n \in DOMAIN clients /\ clients'[n] = clients[n]
  <2>1. OfProfile(n)
    BY <1>4 DEF FromFiles
  <2>2. PICK x \in Entries(current) : x.name = n /\ x.plugin = clients[n].plugin
    BY <2>1 DEF OfProfile
  <2>3. x \in Entries(current)' /\ x.plugin = clients'[n].plugin
    BY <1>1, <1>4, <2>2
  <2> QED BY <1>1, <2>2, <2>3 DEF OfProfile
<1>5. CASE n = e.name /\ clients'[n] \in Makers(e)
  <2>1. e \in Entries(current)' /\ e.name = n /\ e.plugin = clients'[n].plugin
    BY <1>1, <1>2, <1>5
  <2> QED BY <1>1, <2>1 DEF OfProfile
<1> QED BY <1>3, <1>4, <1>5

\* The tail of what was left comes from the same file.
LEMMA TailFromFiles ==
    ASSUME TypeOK, FromFiles, rest # <<>>, rest' = Tail(rest),
           current' = current, disk' = disk
    PROVE  \A i \in DOMAIN rest' : current' # None /\ rest'[i] \in Entries(current)'
<1>1. Entries(current)' = Entries(current)
  BY DEF Entries
<1>2. rest \in Seq(Entry)
  BY DEF TypeOK
<1>3. \A i \in DOMAIN rest' : i + 1 \in DOMAIN rest /\ rest'[i] = rest[i + 1]
  BY <1>2
<1> QED BY <1>1, <1>3 DEF FromFiles

LEMMA FilesStep == IInv /\ FromFiles /\ [Next]_vars => FromFiles'
<1> SUFFICES ASSUME IInv, FromFiles, [Next]_vars PROVE FromFiles'
  OBVIOUS
<1> USE DEF files, profile, manager, dialog
<1> DEFINE Same == UNCHANGED <<disk, current, clients>>
           Read == \A i \in DOMAIN rest' :
                      current' # None /\ rest'[i] \in Entries(current)'
<1>A. Same /\ stage # "load" => \A n \in DOMAIN clients' : OfProfile(n)'
  BY DEF FromFiles, OfProfile, Entries
<1>B. Same /\ rest' = rest => Read
  BY DEF FromFiles, Entries
<1>C. rest' = <<>> => Read
  OBVIOUS
<1>D. Ends => FromFiles'
  BY DEF Ends, FromFiles
<1>1. CASE Start
  BY <1>1, <1>A, <1>B DEF Start, FromFiles
<1>2. CASE Accept
  BY <1>2, <1>A, <1>B, <1>D DEF Accept, FromFiles
<1>3. CASE Cancel
  BY <1>3, <1>D DEF Cancel
<1>4. CASE QuitOpens
  <2>1. DOMAIN clients' = {} /\ disk' = disk /\ current' = current /\ rest' = rest
    BY <1>4 DEF QuitOpens
  <2> QED BY <2>1 DEF FromFiles, Entries
<1>5. CASE QuitWrites
  BY <1>5, <1>D DEF QuitWrites
<1>6. CASE Killed
  BY <1>6, <1>D DEF Killed
<1>7. CASE Dies
  BY <1>7, <1>D DEF Dies
<1>8. CASE ChooseProfile
  <2>1. rest' = <<>> /\ stage' = "load"
    BY <1>8 DEF ChooseProfile, IInv, RestEmpty
  <2> QED BY <2>1, <1>C DEF FromFiles
<1>9. CASE ChooseNew
  BY <1>9, <1>A, <1>B DEF ChooseNew, FromFiles
<1>10. CASE Load
  <2>1. Open("clientsXml", "new", "fallback")
        /\ DOMAIN clients' = {} /\ disk' = disk /\ current' = current
    BY <1>10 DEF Load
  <2>2. Read
    BY <2>1, OpenFromFiles DEF Entries
  <2> QED BY <2>1, <2>2 DEF FromFiles
<1>11. CASE Fallback
  <2>1. Open("clientsConf", "old", "inputs") /\ Same /\ stage = "fallback"
    BY <1>11 DEF Fallback
  <2>2. Read
    BY <2>1, OpenFromFiles DEF Entries
  <2> QED BY <2>1, <2>2, <1>A DEF FromFiles
<1>12. CASE BadNewEntry
  BY <1>12, <1>A, <1>C DEF BadNewEntry, Reads, Quiet, FromFiles
<1>13. CASE SkipEntry
  <2>1. Same /\ stage # "load" /\ rest # <<>> /\ rest' = Tail(rest)
    BY <1>13 DEF SkipEntry, Reads, Quiet
  <2>2. Read
    BY <2>1, TailFromFiles DEF IInv
  <2> QED BY <2>1, <2>2, <1>A DEF FromFiles
<1>14. CASE NewEntry
  <2> DEFINE e == Head(rest)
  <2>1. /\ e \in Entry /\ e.plugin \in Plugin /\ stage = "new" /\ rest # <<>>
        /\ current # None /\ e \in Entries(current)
    BY <1>14 DEF NewEntry, Reads, IInv, TypeOK, FromFiles
  <2>2. UsePlugin(e.plugin) /\ addClient(e) /\ disk' = disk
    BY <1>14 DEF NewEntry, Quiet
  <2>3. rest' = Tail(rest) \/ rest' = <<>> \/ rest' = rest
    BY <1>14 DEF NewEntry
  <2> HIDE DEF e
  <2>4. current' = current
    BY <2>2 DEF UsePlugin
  <2>5. \A n \in DOMAIN clients' : OfProfile(n)'
    BY <2>1, <2>2, EntryFromFiles DEF IInv
  <2>6. Read
    <3>1. CASE rest' = Tail(rest)
      BY <2>1, <2>2, <2>4, <3>1, TailFromFiles DEF IInv
    <3>2. CASE rest' = rest
      BY <2>2, <2>4, <3>2 DEF FromFiles, Entries
    <3> QED BY <2>3, <3>1, <3>2, <1>C
  <2> QED BY <2>5, <2>6 DEF FromFiles
<1>15. CASE OldEntry
  <2> DEFINE e == Head(rest)
  <2>1. /\ e \in Entry /\ e.plugin \in Plugin /\ stage = "old" /\ rest # <<>>
        /\ current # None /\ e \in Entries(current)
    BY <1>15 DEF OldEntry, Reads, IInv, TypeOK, FromFiles
  <2>2. UsePlugin(e.plugin) /\ addClient(e) /\ disk' = disk /\ rest' = Tail(rest)
    BY <1>15 DEF OldEntry, Quiet
  <2> HIDE DEF e
  <2>3. current' = current
    BY <2>2 DEF UsePlugin
  <2>4. \A n \in DOMAIN clients' : OfProfile(n)'
    BY <2>1, <2>2, EntryFromFiles DEF IInv
  <2>5. Read
    BY <2>1, <2>2, <2>3, TailFromFiles DEF IInv
  <2> QED BY <2>4, <2>5 DEF FromFiles
<1>16. CASE EndOfFile
  BY <1>16, <1>A, <1>B DEF EndOfFile, Quiet, FromFiles
<1>17. CASE MakeInputs
  BY <1>17, <1>A, <1>B DEF MakeInputs, Quiet, FromFiles
<1>18. CASE UNCHANGED vars
  <2>1. Same /\ rest' = rest /\ stage' = stage
    BY <1>18 DEF vars
  <2> QED BY <2>1, <1>A, <1>B DEF FromFiles
<1> QED
  BY <1>1, <1>2, <1>3, <1>4, <1>5, <1>6, <1>7, <1>8, <1>9, <1>10, <1>11,
     <1>12, <1>13, <1>14, <1>15, <1>16, <1>17, <1>18 DEF Next

\* The clients shown, and those that go online, are the current profile's.
THEOREM NoForeignClients == Spec => []ClientsOfProfile
<1>1. Init => FromFiles
  BY DEF Init, FromFiles
<1>2. FromFiles => ClientsOfProfile
  BY DEF FromFiles, OfProfile, ClientsOfProfile
<1> QED BY <1>1, <1>2, SafeInit, SafeStep, FilesStep, PTL DEF Spec

-----------------------------------------------------------------------------
(* The profile that is opened, and its profile.xml *)

OpenInv == /\ xml \in [Profile -> ProfileXml] /\ current \in Profile \cup {None}
           /\ choice \in Profile \cup {None, NewProfile}
           /\ kills \in Nat
           /\ ChoiceOpened /\ RunsWithProfile /\ EmptyIsOpen

LEMMA OpenStep == TypeOK /\ OpenInv /\ [Next]_vars => OpenInv'
<1> SUFFICES ASSUME TypeOK, OpenInv, [Next]_vars
             PROVE  ChoiceOpened' /\ RunsWithProfile' /\ EmptyIsOpen'
  BY TypeStep DEF OpenInv, TypeOK
<1> USE DEF files, profile, manager, dialog, OpenInv
<1> DEFINE Same == UNCHANGED <<xml, current, choice, kills>>
<1>A. ASSUME Same, stage \notin {"off", "syncing"},
             stage' \notin {"off", "syncing", "running"}
      PROVE  ChoiceOpened' /\ RunsWithProfile' /\ EmptyIsOpen'
  BY <1>A DEF ChoiceOpened, RunsWithProfile, EmptyIsOpen
<1>B. ASSUME Ends, xml' = xml, kills' >= kills, kills' \in Nat,
             kills' = kills => stage # "syncing"
      PROVE  ChoiceOpened' /\ RunsWithProfile' /\ EmptyIsOpen'
  BY <1>B DEF Ends, ChoiceOpened, RunsWithProfile, EmptyIsOpen
<1>1. CASE Start
  <2>1. Same /\ stage = "off" /\ stage' = "dialog"
    BY <1>1 DEF Start
  <2>2. RunsWithProfile' /\ EmptyIsOpen'
    BY <2>1 DEF RunsWithProfile, EmptyIsOpen
  <2> QED BY <2>1, <2>2 DEF ChoiceOpened
<1>2. CASE Accept
  <2>1. CASE current = None
    BY <1>2, <2>1, <1>B DEF Accept
  <2>2. CASE current # None
    BY <1>2, <2>2 DEF Accept, ChoiceOpened, RunsWithProfile, EmptyIsOpen
  <2> QED BY <2>1, <2>2
<1>3. CASE Cancel
  BY <1>3, <1>B DEF Cancel
<1>4. CASE QuitOpens
  <2>1. /\ current \in Profile /\ current' = current /\ kills' = kills
        /\ stage' = "syncing"
        /\ \A p \in Profile : p # current => xml'[p] = xml[p]
    BY <1>4 DEF QuitOpens, RunsWithProfile
  <2> QED BY <1>4, <2>1 DEF QuitOpens, ChoiceOpened, RunsWithProfile, EmptyIsOpen
<1>5. CASE QuitWrites
  <2>1. /\ current \in Profile /\ kills' = kills /\ stage' = "off" /\ choice' = None
        /\ \A p \in Profile : p # current => xml'[p] = xml[p]
        /\ xml'[current].state # "empty"
    BY <1>5 DEF QuitWrites, RunsWithProfile, Ends, Written
  <2> QED BY <2>1 DEF ChoiceOpened, RunsWithProfile, EmptyIsOpen
<1>6. CASE Killed
  BY <1>6, <1>B DEF Killed
<1>7. CASE Dies
  BY <1>7, <1>B DEF Dies
<1>8. CASE ChooseProfile
  <2>1. PICK p \in Profile : choice' = p /\ selectProfile(p)
    BY <1>8 DEF ChooseProfile, Listed
  <2>2. current' = p \/ xml[p].state = "empty"
    BY <2>1 DEF selectProfile, SwitchTo
  <2>3. xml' = xml /\ kills' = kills /\ stage = "dialog" /\ stage' = "load"
    BY <1>8 DEF ChooseProfile
  <2> QED BY <2>1, <2>2, <2>3 DEF ChoiceOpened, RunsWithProfile, EmptyIsOpen
<1>9. CASE ChooseNew
  BY <1>9 DEF ChooseNew, ChoiceOpened, RunsWithProfile, EmptyIsOpen
<1>10. CASE Load
  BY <1>10, <1>A DEF Load, Open
<1>11. CASE Fallback
  BY <1>11, <1>A DEF Fallback, Open
<1>12. CASE BadNewEntry
  BY <1>12, <1>A DEF BadNewEntry, Reads, Quiet
<1>13. CASE SkipEntry
  BY <1>13, <1>A DEF SkipEntry, Reads, Quiet
<1>14. CASE NewEntry
  <2>1. /\ Same /\ stage = "new"
        /\ stage' \in {"new", "fallback", "crashed"}
    BY <1>14 DEF NewEntry, UsePlugin, Reads, Quiet
  <2> QED BY <2>1, <1>A
<1>15. CASE OldEntry
  <2>1. Same /\ stage = "old" /\ stage' = "old"
    BY <1>15 DEF OldEntry, UsePlugin, Reads, Quiet
  <2> QED BY <2>1, <1>A
<1>16. CASE EndOfFile
  BY <1>16, <1>A DEF EndOfFile, Quiet
<1>17. CASE MakeInputs
  BY <1>17, <1>A DEF MakeInputs, Quiet
<1>18. CASE UNCHANGED vars
  BY <1>18 DEF vars, ChoiceOpened, RunsWithProfile, EmptyIsOpen
<1> QED
  BY <1>1, <1>2, <1>3, <1>4, <1>5, <1>6, <1>7, <1>8, <1>9, <1>10, <1>11,
     <1>12, <1>13, <1>14, <1>15, <1>16, <1>17, <1>18 DEF Next

LEMMA OpenInit == Init => OpenInv
<1> SUFFICES ASSUME Init PROVE OpenInv
  OBVIOUS
<1>1. \A p \in Profile : xml[p].state # "empty"
  BY DEF Init
<1> QED
  BY <1>1, TypeInit DEF Init, TypeOK, OpenInv, ChoiceOpened, RunsWithProfile, EmptyIsOpen

\* The program runs with the profile chosen in the dialog, or that profile's
\* profile.xml was left empty.
THEOREM ChosenIsOpened == Spec => []OpenedIsChosen
<1>1. TypeOK /\ OpenInv => OpenedIsChosen
  <2> SUFFICES ASSUME TypeOK, OpenInv, stage = "running", choice # NewProfile
               PROVE  choice = current \/ xml[choice].state = "empty"
    BY DEF OpenedIsChosen
  <2> QED BY DEF OpenInv, ChoiceOpened, RunsWithProfile, TypeOK
<1> QED BY <1>1, TypeInit, TypeStep, OpenInit, OpenStep, PTL DEF Spec

\* Without a kill no profile.xml is left empty.
THEOREM OnlyKillsEmpty == Spec => []EmptyNeedsKill
<1>1. OpenInv => EmptyNeedsKill
  BY DEF OpenInv, EmptyIsOpen, EmptyNeedsKill
<1> QED BY <1>1, TypeInit, TypeStep, OpenInit, OpenStep, PTL DEF Spec
=============================================================================
