CONSTANTS
    Id = {0, 1, 2}
    Client = {icq, jabber}
    Numbered = {icq}
    GoneClient = {gone}
    DataName = {data}
    StrayId <- MCStrayId
    MaxLines = 5
    icq = icq
    jabber = jabber
    gone = gone
    data = data
SPECIFICATION Spec
INVARIANTS
    ContactsOfFile
    MainReadBack
    IMReadBack
    LastWord
CHECK_DEADLOCK FALSE
