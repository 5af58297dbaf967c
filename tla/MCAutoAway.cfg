CONSTANTS
    Status <- MCStatus
    Config <- MCConfig
    Measurable = {TRUE, FALSE}
    MaxIdle = 3
SPECIFICATION Spec
INVARIANTS
    UsersStatusKept
PROPERTIES
    ComesBack
    LostOnlyThere
    ShownAway
