------------------------------ MODULE FlashTool -----------------------------
(***************************************************************************)
(* m5ct flash: from the choice of a firmware to the reset of the device.   *)
(*   firmware-source.ts, firmware-store.ts   the files of an entry: checked *)
(*       in the cache, downloaded, checked, written                        *)
(*   cmd-flash.ts   the board check, the hold, the prompt, the release     *)
(*   flasher.ts     open, erase, write (which reads the files again), reset *)
(* Several flashes share the cache, a serial port and the daemon.  The port *)
(* is the one every flash opens: the first Espressif port in the list.  Of  *)
(* the daemon this module keeps what its clients see: whether it is up, the *)
(* holder, whether it has that port open, and the board of a session it has *)
(* elsewhere, over BLE or on another port.  How it grants and ends holds is *)
(* the subject of DeviceManager.                                            *)
(***************************************************************************)
EXTENDS Naturals, FiniteSets

CONSTANTS
    Flasher,        \* m5ct flash processes
    Entry,          \* firmware: an index entry, a remote manifest or a directory
    File,           \* the files of an entry
    Board,
    EntryBoard,     \* [Entry -> the board it is for, NoBoard when unknown]
    Slot,           \* [Entry -> its directory below the cache]
    Local,          \* the entries that are directories of the user: not cached
    NoBoard, NoFile, Blank, Garbage, NoOne, Daemon,
    MaxFaults       \* bound: processes killed, other boards listed first

ASSUME EntryAssumption ==
    /\ EntryBoard \in [Entry -> Board \cup {NoBoard}]
    /\ Local \subseteq Entry /\ Entry # {}
    /\ NoBoard \notin Board
ASSUME OwnerAssumption == NoOne \notin Flasher /\ Daemon \notin Flasher /\ NoOne # Daemon
ASSUME BoundsAssumption == MaxFaults \in Nat

Content == Entry \X File
Text == Content \cup {NoFile, Blank, Garbage}
Path == {Slot[e] : e \in Entry \ Local} \X File
PathOf(e, f) == <<Slot[e], f>>

VARIABLES
    tool,       \* [Flasher -> where it is and what it knows]
    cache,      \* [Path -> what the file holds; Blank: truncated, not yet filled]
    up,         \* the daemon runs
    holder,     \* who holds the port, as the daemon knows it
    elsewhere,  \* the board of a session over BLE or on another port
    port,       \* who has the first Espressif port open
    device,     \* the board on it, what it holds, whether it waits for a loader
    faults,
    raced,      \* history: flashers with a verified file somebody wrote to since
    unsure      \* history: flashers told of a board that is elsewhere, or was
                \* on the port before another was

daemon == <<up, holder, elsewhere>>
history == <<raced, unsure>>
vars == <<tool, cache, daemon, port, device, faults, history>>

Places == {"new", "prepare", "fetch", "fill", "check", "hold", "ask", "find", "erase",
           "write", "reset", "release", "exit", "gone", "dropped"}
\* What a process knows: where it is, its firmware, the board it was told of,
\* whether it calls the daemon, whether it goes on by --force, the files left.
Knows == [at : Places, entry : Entry, told : Board \cup {NoBoard},
          calls : BOOLEAN, force : BOOLEAN, todo : SUBSET File]
\* A process that knows nothing: one to come, or one that is gone.
Nothing(place) == [at |-> place, entry |-> CHOOSE e \in Entry : TRUE, told |-> NoBoard,
                   calls |-> FALSE, force |-> FALSE, todo |-> {}]

TypeOK ==
    /\ tool \in [Flasher -> Knows]
    /\ cache \in [Path -> Text]
    /\ up \in BOOLEAN /\ holder \in Flasher \cup {NoOne}
    /\ elsewhere \in Board \cup {NoBoard}
    /\ port \in Flasher \cup {NoOne, Daemon}
    /\ device \in [board : Board, image : [File -> Text], boot : BOOLEAN]
    /\ faults \in 0 .. MaxFaults
    /\ raced \subseteq Flasher /\ unsure \subseteq Flasher

Init ==
    /\ tool = [c \in Flasher |-> Nothing("new")]
    /\ cache = [p \in Path |-> NoFile]
    /\ up = FALSE /\ holder = NoOne /\ elsewhere = NoBoard /\ port = NoOne
    /\ device \in [board : Board, image : {[f \in File |-> Garbage]}, boot : {FALSE}]
    /\ faults = 0 /\ raced = {} /\ unsure = {}

At(c, place) == tool[c].at = place
Runs(c) == tool[c].at \notin {"new", "gone", "dropped"}
Goto(c, place) == tool' = [tool EXCEPT ![c].at = place]
Wanted(c, f) == <<tool[c].entry, f>>
TheFile(c) == CHOOSE f \in tool[c].todo : TRUE

\* The process is gone, and with it what it had open.
Leaves(c, how) ==
    /\ tool' = [tool EXCEPT ![c] = Nothing(how)]
    /\ port' = IF port = c THEN NoOne ELSE port
    /\ raced' = raced \ {c} /\ unsure' = unsure \ {c}
Exit(c) == Leaves(c, "gone")

-----------------------------------------------------------------------------
(* Choosing and preparing the files *)

\* the firmware is chosen
Begins(c, calls, told) ==
    \E e \in Entry :
        tool' = [tool EXCEPT ![c] =
            [at |-> IF e \in Local THEN "check" ELSE "prepare", entry |-> e,
             told |-> told, calls |-> calls, force |-> FALSE,
             todo |-> IF e \in Local THEN {} ELSE File]]

\* status: the board of the session, whatever it runs over, or none
Status(c) ==
    /\ At(c, "new")
    /\ \/ Begins(c, FALSE, NoBoard) /\ UNCHANGED unsure   \* no daemon, or no answer
       \/ /\ up /\ port = Daemon /\ ~device.boot
          /\ Begins(c, TRUE, device.board) /\ UNCHANGED unsure
       \/ /\ up /\ Begins(c, TRUE, elsewhere)
          /\ unsure' = IF elsewhere = NoBoard THEN unsure ELSE unsure \cup {c}
    /\ UNCHANGED <<cache, daemon, port, device, faults, raced>>

\* Mutant: a file that is there need not be checked.
CachedIfThere(c, f) == cache[PathOf(tool[c].entry, f)] # NoFile
Cached(c, f) == cache[PathOf(tool[c].entry, f)] = Wanted(c, f)

Prepare(c) ==
    /\ At(c, "prepare")
    /\ CASE tool[c].todo = {} -> Goto(c, "check")
         [] tool[c].todo # {} /\ Cached(c, TheFile(c)) ->
               tool' = [tool EXCEPT ![c].todo = @ \ {TheFile(c)}]
         [] OTHER -> Goto(c, "fetch")
    /\ UNCHANGED <<cache, daemon, port, device, faults, history>>

\* Those who have checked a file somebody now writes to.
Readers(c) ==
    {d \in Flasher \ {c} : /\ Runs(d) /\ tool[d].entry \notin Local
                           /\ Slot[tool[d].entry] = Slot[tool[c].entry]
                           /\ TheFile(c) \notin tool[d].todo}

\* the download has the right sum; writing begins with truncating
Fetched(c) ==
    /\ At(c, "fetch") /\ Goto(c, "fill")
    /\ cache' = [cache EXCEPT ![PathOf(tool[c].entry, TheFile(c))] = Blank]
    /\ raced' = raced \cup Readers(c)
    /\ UNCHANGED <<daemon, port, device, faults, unsure>>

\* What a file holds once x is written at its start.
Written(p, x) == IF cache[p] \in {Blank, x} THEN {x} ELSE {x, Garbage}

Filled(c) ==
    /\ At(c, "fill")
    /\ LET f == TheFile(c)
           p == PathOf(tool[c].entry, f)
       IN  \E x \in Written(p, Wanted(c, f)) :
              /\ cache' = [cache EXCEPT ![p] = x]
              /\ raced' = raced \cup Readers(c) \cup IF x = Garbage THEN {c} ELSE {}
    /\ tool' = [tool EXCEPT ![c] =
          [tool[c] EXCEPT !.at = "prepare", !.todo = tool[c].todo \ {TheFile(c)}]]
    /\ UNCHANGED <<daemon, port, device, faults, unsure>>

\* a download that fails or has the wrong sum, a full disk, a manifest or a
\* directory that will not do
PrepareFails(c) ==
    /\ \/ tool[c].at \in {"prepare", "fetch", "fill"}
       \/ At(c, "check") /\ tool[c].entry \in Local
    /\ Exit(c)
    /\ UNCHANGED <<cache, daemon, device, faults>>

-----------------------------------------------------------------------------
(* The board check, the hold and the flash *)

\* Mutant: the check is left to the index, which knows the board.
MismatchLocal(c) ==
    /\ tool[c].calls /\ tool[c].entry \in Local
    /\ NoBoard \notin {tool[c].told, EntryBoard[tool[c].entry]}
    /\ tool[c].told # EntryBoard[tool[c].entry]
Mismatch(c) ==
    /\ tool[c].calls
    /\ NoBoard \notin {tool[c].told, EntryBoard[tool[c].entry]}
    /\ tool[c].told # EntryBoard[tool[c].entry]

\* refused, or a dry run
Declines(c) ==
    /\ At(c, "check")
    /\ Exit(c)
    /\ UNCHANGED <<cache, daemon, device, faults>>

\* with --force if the boards differ
GoesOn(c) ==
    /\ At(c, "check")
    /\ tool' = [tool EXCEPT ![c].force = Mismatch(c),
                            ![c].at = IF tool[c].calls THEN "hold" ELSE "ask"]
    /\ UNCHANGED <<cache, daemon, port, device, faults, history>>

\* flashHold: the daemon ends its session and closes the port
Held(c) ==
    /\ At(c, "hold") /\ up /\ holder = NoOne
    /\ Goto(c, "ask") /\ holder' = c /\ elsewhere' = NoBoard
    /\ port' = IF port = Daemon THEN NoOne ELSE port
    /\ UNCHANGED <<cache, up, device, faults, history>>

\* held by somebody else, or the call does not get through
NotHeld(c) ==
    /\ At(c, "hold")
    /\ Exit(c)
    /\ UNCHANGED <<cache, daemon, device, faults>>

\* end of input or Ctrl-C closes the prompt: ask never settles, and with nothing
\* left to wait for the process ends without its finally
PromptEnds(c) ==
    /\ At(c, "ask")
    /\ Leaves(c, "dropped")
    /\ UNCHANGED <<cache, daemon, device, faults>>

\* the user brings the board into download mode and presses Enter
Entered(c) ==
    /\ At(c, "ask") /\ Goto(c, "find")
    /\ \/ UNCHANGED <<port, device>>
       \/ /\ device' = [device EXCEPT !.boot = TRUE]
          /\ port' = IF port = Daemon THEN NoOne ELSE port
    /\ UNCHANGED <<cache, daemon, faults, history>>

\* the first Espressif port: its loader answers, whichever board it is
Opened(c) ==
    /\ At(c, "find") /\ port = NoOne /\ device.boot
    /\ port' = c /\ Goto(c, "erase")
    /\ UNCHANGED <<cache, daemon, device, faults, history>>

Erased(c) ==
    /\ At(c, "erase") /\ Goto(c, "write")
    /\ device' = [device EXCEPT !.image = [f \in File |-> Blank]]
    /\ UNCHANGED <<cache, daemon, port, faults, history>>

\* the files are read again, without a check
Bytes(c, f) == IF tool[c].entry \in Local THEN Wanted(c, f) ELSE cache[PathOf(tool[c].entry, f)]
Wrote(c) ==
    /\ At(c, "write") /\ Goto(c, "reset")
    /\ device' = [device EXCEPT !.image = [f \in File |-> Bytes(c, f)]]
    /\ UNCHANGED <<cache, daemon, port, faults, history>>

\* the watchdog resets the device, and the port is closed
Reset(c) ==
    /\ At(c, "reset") /\ Goto(c, "release")
    /\ device' = [device EXCEPT !.boot = FALSE]
    /\ port' = NoOne
    /\ UNCHANGED <<cache, daemon, faults, history>>

\* Mutant: the hold is given back on the successful path.
FlashFailsNoFinally(c) ==
    /\ tool[c].at \in {"find", "erase", "write", "reset"}
    /\ Exit(c)
    /\ UNCHANGED <<cache, daemon, device, faults>>
\* no port within 30 s, a port that is busy, a loader that does not answer (the
\* port is open by then), a write that breaks off; nobody closes the port
FlashFails(c) ==
    /\ tool[c].at \in {"find", "erase", "write", "reset"}
    /\ Goto(c, "release")
    /\ port' \in IF At(c, "find") /\ port = NoOne THEN {NoOne, c} ELSE {port}
    /\ device' \in {device} \cup
          IF At(c, "write") THEN {[device EXCEPT !.image = [f \in File |-> Garbage]]} ELSE {}
    /\ UNCHANGED <<cache, daemon, faults, history>>

\* flashRelease, which the daemon refuses to a client that lost its hold
Release(c) ==
    /\ At(c, "release") /\ Goto(c, "exit")
    /\ holder' = IF tool[c].calls /\ up /\ holder = c THEN NoOne ELSE holder
    /\ UNCHANGED <<cache, up, elsewhere, port, device, faults, history>>

\* the call does not get through: it is reported, and the flash ends
ReleaseFails(c) ==
    /\ At(c, "release") /\ tool[c].calls
    /\ Leaves(c, "dropped")
    /\ UNCHANGED <<cache, daemon, device, faults>>

Ends(c) == At(c, "exit") /\ Exit(c) /\ UNCHANGED <<cache, daemon, device, faults>>

\* a signal, at any time: nothing is released
Killed(c) ==
    /\ Runs(c) /\ faults < MaxFaults /\ faults' = faults + 1
    /\ Leaves(c, "dropped")
    /\ UNCHANGED <<cache, daemon, device>>

-----------------------------------------------------------------------------
(* The daemon and the user *)

DaemonStarts ==
    /\ ~up /\ up' = TRUE
    /\ UNCHANGED <<tool, cache, holder, elsewhere, port, device, faults, history>>

DaemonDies ==
    /\ up /\ faults < MaxFaults /\ faults' = faults + 1
    /\ up' = FALSE /\ holder' = NoOne /\ elsewhere' = NoBoard
    /\ port' = IF port = Daemon THEN NoOne ELSE port
    /\ UNCHANGED <<tool, cache, device, history>>

\* the handshake begins: a session elsewhere is given up for it, at once or when
\* it is over; a device in download mode gets no further
Connects ==
    /\ up /\ holder = NoOne /\ port = NoOne
    /\ port' = Daemon /\ elsewhere' \in {elsewhere, NoBoard}
    /\ UNCHANGED <<tool, cache, up, holder, device, faults, history>>

\* a session with any board over BLE or on another serial port
ConnectsElsewhere ==
    /\ up /\ holder = NoOne /\ port # Daemon /\ elsewhere = NoBoard
    /\ elsewhere' \in Board
    /\ UNCHANGED <<tool, cache, up, holder, port, device, faults, history>>

LinkEnds ==
    /\ \/ port = Daemon /\ port' = NoOne /\ UNCHANGED elsewhere
       \/ elsewhere # NoBoard /\ elsewhere' = NoBoard /\ UNCHANGED port
    /\ UNCHANGED <<tool, cache, up, holder, device, faults, history>>

\* 60 s after the grant, whatever the client is doing
HoldExpires ==
    /\ holder # NoOne /\ holder' = NoOne
    /\ UNCHANGED <<tool, cache, up, elsewhere, port, device, faults, history>>

\* another board is plugged into the port, or is now the first one listed: a
\* session with the one before is then a session elsewhere
Swap ==
    /\ port \notin Flasher /\ faults < MaxFaults /\ faults' = faults + 1
    /\ \E b \in Board \ {device.board} :
          device' = [board |-> b, image |-> [f \in File |-> Garbage], boot |-> FALSE]
    /\ port' = NoOne
    /\ elsewhere' \in {elsewhere} \cup
          IF port = Daemon /\ ~device.boot THEN {device.board} ELSE {}
    /\ unsure' = unsure \cup {c \in Flasher : Runs(c)}
    /\ UNCHANGED <<tool, cache, up, holder, raced>>

ToolStep(c) ==
    \/ Prepare(c) \/ Fetched(c) \/ Filled(c) \/ PrepareFails(c)
    \/ Declines(c) \/ GoesOn(c) \/ Held(c) \/ NotHeld(c)
    \/ Entered(c) \/ Opened(c) \/ Erased(c) \/ Wrote(c) \/ Reset(c)
    \/ PromptEnds(c) \/ FlashFails(c) \/ Release(c) \/ ReleaseFails(c) \/ Ends(c)
Next ==
    \/ \E c \in Flasher : Status(c) \/ ToolStep(c) \/ Killed(c)
    \/ DaemonStarts \/ DaemonDies \/ Connects \/ ConnectsElsewhere \/ LinkEnds
    \/ HoldExpires \/ Swap

Spec == Init /\ [][Next]_vars

-----------------------------------------------------------------------------
(* Properties *)

\* A device that is reset into its firmware holds the files of the entry, every
\* one with the bytes that were promised: what crashes and overlapping downloads
\* left in the cache is never flashed, unless somebody wrote to a file of it
\* after it had been checked.
FlashedAsPromised ==
    \A c \in Flasher \ raced : At(c, "reset") =>
        \A f \in File : device.image[f] = Wanted(c, f)

\* The firmware of another board gets onto a device only by --force or when the
\* board was not known, as long as what the daemon reports is the board that is
\* flashed.  It need not be: the daemon reports the board of its one session, be
\* it over BLE or on another port, while the flash opens the first Espressif port
\* listed; and another board may be first by then.  Of those nothing is claimed.
WrongBoardIsKnown ==
    \A c \in Flasher \ unsure :
        /\ At(c, "reset")
        /\ EntryBoard[tool[c].entry] \notin {NoBoard, device.board}
        => tool[c].force \/ tool[c].told = NoBoard

\* Whichever step of a flash fails, and whoever holds the port by then, a flash
\* leaves no hold behind, unless it is killed, its prompt is closed, or the call
\* that gives the hold back does not get through: only the daemon's timer ends it
\* then.
NoHoldLeftBehind == \A c \in Flasher : At(c, "gone") => holder # c

\* Claimed (cmd-flash.ts:176): another board's firmware is refused without
\* --force when a board is connected to a running daemon.
OtherBoardsRefused ==
    \A c \in Flasher :
        At(c, "reset") /\ tool[c].calls /\ ~tool[c].force
            => EntryBoard[tool[c].entry] \in {NoBoard, device.board}

\* Claimed: what is flashed has the bytes that were checked.
CheckedIsFlashed ==
    \A c \in Flasher : At(c, "reset") => \A f \in File : device.image[f] = Wanted(c, f)

\* Claimed: the hold lasts as long as the flash.
HeldThroughout ==
    \A c \in Flasher : tool[c].at \in {"erase", "write"} /\ tool[c].calls /\ faults = 0
        => holder = c
=============================================================================
