SPECIFICATION Spec
CONSTANTS
    f1 = f1
    f2 = f2
    c1 = c1
    c2 = c2
    index = index
    remote = remote
    folder = folder
    boardA = boardA
    boardB = boardB
    Flasher = {c1, c2}
    Entry = {index, remote, folder}
    File = {f1, f2}
    Board = {boardA, boardB}
    EntryBoard <- BoardOf
    Slot <- Directory
    Local = {folder}
    NoBoard = NoBoard
    NoFile = NoFile
    Blank = Blank
    Garbage = Garbage
    NoOne = NoOne
    Daemon = Daemon
    MaxFaults = 1
SYMMETRY Interchangeable
INVARIANT HeldThroughout
CHECK_DEADLOCK FALSE
