CONSTANTS
    Account <- MCAccount
    LoginHost = login
    BosHost = {bos}
    RateClass = {}
    MaxAttempts = 2
    MaxListPackets = 2
    ItemId = {1, 2, 3}
    GroupId = {1}
    Screen = {"100", "200", "300", "aim"}
    AimScreen = {"aim"}
    Items <- MCItems
    Profiles <- MCProfiles
    StrayIds = {0, 7}
    MaxPacket = 2
    MaxPackets = 4
    List <- MCList
SPECIFICATION Spec
INVARIANTS
    TypeOK
    NoticeFindsBuddy
PROPERTIES
    ImplementsLogin
    SignOnListsAll
CHECK_DEADLOCK FALSE
