CONSTANTS
    ItemId = {1, 2, 3}
    GroupId = {1, 2}
    Screen = {"100", "200", "aim"}
    AimScreen = {"aim"}
    Items <- MCItems
    Profiles <- MCProfiles
    StrayIds = {0, 7}
    MaxPacket = 2
    MaxPackets = 2
    Wirings = {TRUE, FALSE}
SPECIFICATION ViewSpec
INVARIANTS
    OnlyIgnoredHide
    OneContactPerItem
    StatusEventNamesBuddy
    OnlineRowsHold
    AnnouncedContactsHaveRows
CHECK_DEADLOCK FALSE
