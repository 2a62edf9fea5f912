SPECIFICATION LiveSpec
CONSTANTS
    Pid = {p1, p2}
    Shim = {s1, s2}
    Client = {w1}
    NoOne = NoOne
    MaxVersion = 2
    MaxUpsets = 2
INVARIANTS
    OneServing
PROPERTIES
    CleanExit
    Recovery
