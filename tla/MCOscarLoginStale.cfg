CONSTANTS
    LoginHost = login
    BosHost = {bos1, bos2}
    RateClass = {1}
    List = {good, bad}
    Readable = {good}
    Buddy = {buddy}
    MaxAttempts = 3
    MaxListPackets = 2
SPECIFICATION Spec
INVARIANT CookieGoesToItsHost
CHECK_DEADLOCK FALSE
