CONSTANTS
    Slot = {0, 1}
    Tries = 2
    Blocking = {TRUE, FALSE}
    MaxMishaps = 1
SPECIFICATION GsmSpec
INVARIANTS
    InStep
    KeepsPinging
PROPERTIES
    NobodyWaits
CHECK_DEADLOCK FALSE
