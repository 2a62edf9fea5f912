SPECIFICATION Spec
CONSTANTS
    Device = {d1, d2}
    Cli = {c1, c2}
    NoDevice = NoDevice
    NoText = NoText
    Garbage = Garbage
    MaxCommands = 3
    MaxFaults = 1
INVARIANT NoticesArrive
CHECK_DEADLOCK FALSE
