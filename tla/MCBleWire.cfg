SPECIFICATION LiveSpec
CONSTANTS
    ping = ping
    answer = answer
    frame = frame
    letter = letter
    Line = {ping, answer, frame}
    Chunks <- Lengths
    Byte = {letter}
    Newline = Newline
    MaxScans = 2
    MaxText = 4
    MaxFaults = 1
INVARIANTS
    CloseToldOnce
    OnlyOverlapMangles
    FramerAgrees
PROPERTIES
    ScanEnds
CHECK_DEADLOCK FALSE
