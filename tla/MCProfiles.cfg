SPECIFICATION Spec
CONSTANTS
    work = work
    home = home
    icq = icq
    jabber = jabber
    n1 = n1
    n2 = n2
    Profile <- MCProfile
    Plugin <- MCPlugin
    Missing = Missing
    NoPlugin = NoPlugin
    Name <- MCName
    Disks <- MCDisks
    None = None
    NewProfile = NewProfile
    MaxChoices = 3
    MaxKills = 1
INVARIANTS
    OneProtocolEach
    ClientsOwned
    CrashNeedsGoneProtocol
    ClientsOfProfile
    OpenedIsChosen
