SPECIFICATION Spec
CONSTANTS
    Pid = {p1, p2}
    Shim = {s1}
    Client = {w1}
    NoOne = NoOne
    MaxVersion = 2
    MaxUpsets = 0
INVARIANTS
    UpIsReachable
