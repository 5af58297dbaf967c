CONSTANTS
    Base = 4
    Id = {0, 6}
    Data <- MCData
    MaxTlvs = 2
SPECIFICATION TlvSpec
INVARIANTS
    ReadsWhatWasWritten
    AtMostOneMadeUp
    WrongByCarriesOnly
CHECK_DEADLOCK FALSE
