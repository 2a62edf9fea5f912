SPECIFICATION LiveSpec
CONSTANTS
    Pid = {p1, p2}
    Shim = {s1}
    Client = {w1}
    NoOne = NoOne
    MaxVersion = 1
    MaxUpsets = 0
PROPERTIES
    DeferralServed
