SPECIFICATION Spec
CONSTANTS
    ping = ping
    answer = answer
    frame = frame
    letter = letter
    Line = {ping, answer, frame}
    Chunks <- Lengths
    Byte = {letter}
    Newline = Newline
    MaxScans = 2
    MaxText = 4
    MaxFaults = 1
INVARIANT FailureLetsGo
CHECK_DEADLOCK FALSE
