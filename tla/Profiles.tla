------------------------------ MODULE Profiles ------------------------------
(***************************************************************************)
(* Who keeps what alive while the user picks a profile.  The profile holds *)
(* strong pointers to its plugin objects; a plugin object registers its    *)
(* protocol with the protocol manager and takes it back when it dies; a    *)
(* client has a raw pointer to the protocol that made it.  The dialog      *)
(* switches the profile and loads its clients, from clients.xml or, when   *)
(* that fails, even half way, from the older clients.conf.  The process may *)
(* be killed at any point; only profile.xml is written, at exit.           *)
(***************************************************************************)
EXTENDS Naturals, Sequences, Functions

CONSTANTS
    Profile,       \* directories of profiles
    Plugin,        \* protocol plugins that are installed; each has a protocol
    Missing,       \* a plugin that files name and that is not installed
    NoPlugin,      \* no plugin name at all
    Name,          \* names of clients
    Disks,         \* what the directories may hold when it all begins
    None,          \* no profile
    NewProfile,    \* the dialog's last line, "New profile"
    MaxChoices,    \* choices made in the dialog, at one start
    MaxKills       \* times the process is killed

\* A client in a file: `provides` says whether its plugin still has the
\* protocol it names, `data` whether its data can be read.
Entry == [plugin : Plugin \cup {Missing, NoPlugin}, provides : BOOLEAN,
          name : Name, data : {"good", "bad", "none"}]

\* profile.xml, with the plugins enabled in it.  An empty one, which is what
\* opening it for writing leaves, is refused by Config::deserialize.
Names == Plugin \cup {Missing}
ProfileXml == [state : {"absent", "empty", "written"}, plugins : SUBSET Names]
Empty == [state |-> "empty", plugins |-> {}]
Written(S) == [state |-> "written", plugins |-> S]
Absent == [state |-> "absent", plugins |-> {}]

\* A directory; a clients file that need not be there is the empty or a
\* one-element set.
Optional(S) == {{}} \cup {{s} : s \in S}
Directory == [profileConf : BOOLEAN, profileXml : ProfileXml,
              clientsXml : Optional(Seq(Entry)),
              clientsConf : Optional(Seq(Entry))]

ASSUME ProfilesAssumption ==
    /\ Missing \notin Plugin /\ NoPlugin \notin Plugin
    /\ None \notin Profile /\ NewProfile \notin Profile
    /\ MaxChoices \in Nat /\ MaxKills \in Nat
    /\ \A d \in Disks : \A p \in Profile :
          /\ d[p].profileXml \in ProfileXml /\ d[p].profileXml.state # "empty"
          /\ \A f \in d[p].clientsXml \cup d[p].clientsConf : f \in Seq(Entry)

VARIABLES
    disk,       \* the files this program only reads
    xml,        \* profile.xml of each profile
    current,    \* name of ProfileManager::m_currentProfile
    enabled,    \* EnabledPlugins in its configuration
    held,       \* Profile::m_plugins: plugin objects
    made,       \* number of the last plugin object
    protocols,  \* ProtocolManager::m_protocols: of which plugin objects
    clients,    \* m_clients: name -> plugin object of its protocol
    names,      \* m_sortedClientNamesList
    stage,      \* what the program is doing
    rest,       \* entries left of the file it reads
    choice,     \* line selected in the dialog
    choices, kills

files == <<disk, xml>>
profile == <<current, enabled, held, made, protocols>>
manager == <<clients, names>>
dialog == <<choice, choices>>
vars == <<files, profile, manager, stage, rest, dialog, kills>>

Put(f, k, v) == [x \in DOMAIN f \cup {k} |-> IF x = k THEN v ELSE f[x]]
Object(pl, n) == [plugin |-> pl, serial |-> n]

Init ==
    /\ disk \in Disks
    /\ xml = [p \in Profile |-> disk[p].profileXml]
    /\ current = None /\ enabled = {} /\ held = {} /\ made = 0
    /\ protocols = {} /\ clients = <<>> /\ names = <<>>
    /\ stage = "off" /\ rest = <<>> /\ choice = None
    /\ choices = 0 /\ kills = 0

-----------------------------------------------------------------------------
(* main() and CorePlugin::init() *)

\* A fresh process.  Nothing ever saves a name under "Profile", so init()
\* always shows the dialog.
Start ==
    /\ stage = "off"
    /\ stage' = "dialog"
    /\ UNCHANGED <<files, profile, manager, rest, dialog, kills>>

\* The memory of a process that ends.
Ends ==
    /\ stage' = "off"
    /\ current' = None /\ enabled' = {} /\ held' = {} /\ made' = 0
    /\ protocols' = {} /\ clients' = <<>> /\ names' = <<>>
    /\ rest' = <<>> /\ choice' = None /\ choices' = 0

\* A line is selected before the dialog is shown.
\* With no profile there is no property hub, and the program ends.
Accept ==
    /\ stage = "dialog" /\ choice # None
    /\ IF current = None
       THEN Ends
       ELSE /\ stage' = "running"
            /\ UNCHANGED <<profile, manager, rest, choice, choices>>
    /\ UNCHANGED <<files, kills>>

Cancel ==
    /\ stage = "dialog" /\ choice # None
    /\ Ends
    /\ UNCHANGED <<files, kills>>

\* The client manager goes first; then sync() opens profile.xml, which
\* empties it,
QuitOpens ==
    /\ stage = "running"
    /\ clients' = <<>> /\ names' = <<>>
    /\ xml' = [xml EXCEPT ![current] = Empty]
    /\ stage' = "syncing"
    /\ UNCHANGED <<disk, profile, rest, dialog, kills>>

\* and writes it.
QuitWrites ==
    /\ stage = "syncing"
    /\ xml' = [xml EXCEPT ![current] = Written(enabled)]
    /\ Ends
    /\ UNCHANGED <<disk, kills>>

\* The process is killed, or dies of a pointer to nothing.
Killed ==
    /\ stage \notin {"off", "crashed"} /\ kills < MaxKills
    /\ kills' = kills + 1
    /\ Ends
    /\ UNCHANGED files
Dies ==
    /\ stage = "crashed"
    /\ Ends
    /\ UNCHANGED <<files, kills>>

-----------------------------------------------------------------------------
(* ProfileSelectDialog::profileChanged *)

\* ProfileManager::enumProfiles
Listed == {p \in Profile : disk[p].profileConf \/ disk[p].clientsConf # {}}

\* Profile::loadPlugins, and the plugins' constructors.
loadPluginsNot(pls) == {}      \* mutant
loadPlugins(pls) == {Object(pl, made + 1) : pl \in pls \cap Plugin}

\* The old profile dies with its plugin objects and their protocols, then
\* the new one makes its own.
SwitchTo(p) ==
    /\ current' = p
    /\ enabled' = xml[p].plugins
    /\ held' = loadPlugins(xml[p].plugins)
    /\ protocols' = loadPlugins(xml[p].plugins)
    /\ made' = made + 1

\* ProfileManager::selectProfile: it stays with the old profile when the new
\* one's profile.xml cannot be read, and profileChanged does not notice.
selectProfileNeedsXml(p) ==    \* mutant: a missing profile.xml is refused
    IF p = current \/ xml[p].state # "written" THEN UNCHANGED profile
                                               ELSE SwitchTo(p)
selectProfile(p) ==
    IF p = current \/ xml[p].state = "empty" THEN UNCHANGED profile
                                             ELSE SwitchTo(p)

ChooseProfile ==
    /\ stage = "dialog" /\ choices < MaxChoices
    /\ \E p \in Listed : choice' = p /\ selectProfile(p)
    /\ choices' = choices + 1
    /\ stage' = "load"
    /\ UNCHANGED <<files, manager, rest, kills>>

\* The last line of the list: nothing is selected and nothing created.
ChooseNew ==
    /\ stage = "dialog" /\ choices < MaxChoices
    /\ choice' = NewProfile
    /\ choices' = choices + 1
    /\ UNCHANGED <<files, profile, manager, stage, rest, kills>>

-----------------------------------------------------------------------------
(* StandardClientManager::load, an entry of a file at a time *)

\* The files of the current profile; with none, the root directory's.
File(which) == IF current = None THEN {} ELSE disk[current][which]

Open(which, reading, failing) ==
    IF File(which) = {} THEN stage' = failing /\ rest' = <<>>
                        ELSE stage' = reading /\ rest' \in File(which)

LoadKeepsClients ==       \* mutant: m_clients is not cleared
    /\ stage = "load"
    /\ names' = <<>>
    /\ Open("clientsXml", "new", "fallback")
    /\ UNCHANGED <<files, profile, clients, dialog, kills>>

LoadKeepsNames ==         \* mutant: m_sortedClientNamesList is not
    /\ stage = "load"
    /\ clients' = <<>>
    /\ Open("clientsXml", "new", "fallback")
    /\ UNCHANGED <<files, profile, names, dialog, kills>>

Load ==
    /\ stage = "load"
    /\ clients' = <<>> /\ names' = <<>>
    /\ Open("clientsXml", "new", "fallback")
    /\ UNCHANGED <<files, profile, dialog, kills>>

\* load_new() failed: load_old() adds to what it left.
Fallback ==
    /\ stage = "fallback"
    /\ Open("clientsConf", "old", "inputs")
    /\ UNCHANGED <<files, profile, manager, dialog, kills>>

\* PluginManager::plugin makes the object unless somebody holds it; its
\* constructor adds its protocol.
Objects(pl) == IF \E o \in held : o.plugin = pl
               THEN {} ELSE {Object(pl, made + 1)}

\* Profile::enablePlugin keeps the object only when it adds the name.
enablePluginNotHeld(pl) ==    \* mutant: addPlugin is not called
    /\ enabled' = enabled \cup {pl}
    /\ held' = held
enablePlugin(pl) ==
    /\ enabled' = enabled \cup {pl}
    /\ held' = IF pl \in enabled THEN held ELSE held \cup Objects(pl)

\* The iteration ends; a plugin object nobody holds dies with its protocol.
UsePlugin(pl) ==
    /\ enablePlugin(pl)
    /\ protocols' = (protocols \cup Objects(pl)) \cap held'
    /\ made' = made + 1
    /\ UNCHANGED current

\* The protocols that bear the name the entry gives.
Makers(e) == IF e.provides
             THEN {o \in protocols \cup Objects(e.plugin) : o.plugin = e.plugin}
             ELSE {}

addClient(e) ==
    IF Makers(e) = {}
    THEN UNCHANGED manager
    ELSE /\ \E o \in Makers(e) : clients' = Put(clients, e.name, o)
         /\ names' = Append(names, e.name)

Reads(file) == stage = file /\ rest # <<>>
Quiet == UNCHANGED <<files, dialog, kills>>

\* clients.xml: no plugin name.
BadNewEntry ==
    /\ Reads("new") /\ Head(rest).plugin = NoPlugin
    /\ stage' = "fallback" /\ rest' = <<>>
    /\ Quiet /\ UNCHANGED <<profile, manager>>

\* Either file: the plugin is not there.  clients.conf: or not named.
SkipEntry ==
    /\ \/ Reads("new") /\ Head(rest).plugin = Missing
       \/ Reads("old") /\ Head(rest).plugin \in {Missing, NoPlugin}
    /\ rest' = Tail(rest)
    /\ Quiet /\ UNCHANGED <<profile, manager, stage>>

\* clients.xml: the client is added before its data is read.  A client that
\* could not be made is asked to read its data all the same.
NewEntry ==
    /\ Reads("new") /\ Head(rest).plugin \in Plugin
    /\ LET e == Head(rest) IN
       /\ UsePlugin(e.plugin)
       /\ addClient(e)
       /\ \/ /\ e.data = "none" \/ (e.data = "good" /\ Makers(e) # {})
             /\ stage' = "new" /\ rest' = Tail(rest)
          \/ /\ e.data = "bad" /\ Makers(e) # {}
             /\ stage' = "fallback" /\ rest' = <<>>
          \/ /\ e.data # "none" /\ Makers(e) = {}
             /\ stage' = "crashed" /\ rest' = rest
    /\ Quiet

\* clients.conf: whether the data could be read is not looked at.
OldEntry ==
    /\ Reads("old") /\ Head(rest).plugin \in Plugin
    /\ UsePlugin(Head(rest).plugin)
    /\ addClient(Head(rest))
    /\ rest' = Tail(rest)
    /\ Quiet /\ UNCHANGED stage

EndOfFile ==
    /\ stage \in {"new", "old"} /\ rest = <<>>
    /\ stage' = "inputs"
    /\ Quiet /\ UNCHANGED <<profile, manager, rest>>

\* A line for every client: client(name)->protocol() is followed.
MakeInputs ==
    /\ stage = "inputs"
    /\ stage' = IF \A i \in DOMAIN names : /\ names[i] \in DOMAIN clients
                                           /\ clients[names[i]] \in protocols
                THEN "dialog" ELSE "crashed"
    /\ Quiet /\ UNCHANGED <<profile, manager, rest>>

Next == \/ Start \/ Accept \/ Cancel \/ QuitOpens \/ QuitWrites
        \/ Killed \/ Dies \/ ChooseProfile \/ ChooseNew \/ Load \/ Fallback
        \/ BadNewEntry \/ SkipEntry \/ NewEntry \/ OldEntry \/ EndOfFile
        \/ MakeInputs

Spec == Init /\ [][Next]_vars

-----------------------------------------------------------------------------
(* Properties *)

PluginObject == [plugin : Plugin, serial : Nat]

\* Every variable has its type.
TypeOK ==
    /\ disk \in Disks /\ xml \in [Profile -> ProfileXml]
    /\ current \in Profile \cup {None}
    /\ enabled \subseteq Names
    /\ held \subseteq PluginObject /\ protocols \subseteq PluginObject
    /\ made \in Nat
    /\ DOMAIN clients \subseteq Name
    /\ clients \in [DOMAIN clients -> PluginObject]
    /\ names \in Seq(Name)
    /\ stage \in {"off", "dialog", "running", "syncing", "load", "new",
                  "fallback", "old", "inputs", "crashed"}
    /\ rest \in Seq(Entry)
    /\ choice \in Profile \cup {None, NewProfile}
    /\ choices \in Nat /\ kills \in Nat

\* Every enabled plugin that is installed runs, exactly once, and the
\* registered protocols are those of the running plugins: through any switch
\* of profile, and however the client files enable plugins while being read.
OneProtocolEach ==
    /\ protocols = held
    /\ \A pl \in Plugin : pl \in enabled <=> \E o \in held : o.plugin = pl
    /\ \A o, q \in held : o.plugin = q.plugin => o = q

\* A client's raw pointer to its protocol is good whenever it can be followed:
\* only between selectProfile and ClientManager::load does it dangle.
ClientsOwned ==
    stage # "load" => \A n \in DOMAIN clients : clients[n] \in protocols

\* The only pointer to nothing that is followed is the client of a protocol
\* its plugin no longer has (newClient->deserialize in load_new).
CrashNeedsGoneProtocol ==
    stage = "crashed" => rest # <<>> /\ ~Head(rest).provides

\* The entries of both client files of p.
Entries(p) == UNION {Range(f) : f \in disk[p].clientsXml \cup disk[p].clientsConf}

\* The clients the user sees, and those that go online, are clients of the
\* current profile's files: none is left of a profile looked at before.
ClientsOfProfile ==
    stage \in {"dialog", "running"} =>
       \A n \in DOMAIN clients :
          current # None /\ \E e \in Entries(current) :
                               e.name = n /\ e.plugin = clients[n].plugin

\* The program runs with the profile selected in the dialog, unless the user
\* left it on "New profile" or the profile's profile.xml was left empty.
OpenedIsChosen ==
    stage = "running" /\ choice # NewProfile =>
       choice = current \/ xml[choice].state = "empty"

\* An unreadable profile.xml takes a kill between the two steps of sync().
EmptyNeedsKill ==
    kills = 0 /\ stage # "syncing" => \A p \in Profile : xml[p].state # "empty"
=============================================================================
