SPECIFICATION Spec
CONSTANTS
    Pid = {p1, p2}
    Shim = {s1}
    Client = {}
    NoOne = NoOne
    MaxVersion = 2
    MaxUpsets = 2
PROPERTIES
    StrangersAreSpared
