SPECIFICATION Spec
CONSTANTS
    Pid = {p1, p2, p3}
    Shim = {s1}
    Client = {w1}
    NoOne = NoOne
    MaxVersion = 2
    MaxUpsets = 1
INVARIANTS
    LifeTypeOK
    TakeoverSound
    OneServing
SYMMETRY Interchangeable
