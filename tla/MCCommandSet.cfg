CONSTANTS
    Command = {dontshow, mode1, mode2, offline}
    Exclusive = {dontshow, mode1, mode2}
    OnToolbar = {offline}
    First = dontshow
    MaxMenus = 4
    MaxCalls = 20
    dontshow = dontshow
    mode1 = mode1
    mode2 = mode2
    offline = offline
SPECIFICATION Spec
INVARIANTS
    ViewsAgree
    OneAtATime
    ChosenIsChecked
PROPERTY
    Settles
