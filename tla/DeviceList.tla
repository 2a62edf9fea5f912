----------------------------- MODULE DeviceList -----------------------------
(***************************************************************************)
(* The list of paired devices, devices.json, which m5ct pair, use and      *)
(* unpair edit and the daemon reads at start and writes back:              *)
(*   device-store.ts  reading, normalising, editing and writing the list   *)
(*   pairing.ts, cmd-pair.ts, cmd-use.ts, cmd-unpair.ts   the editors      *)
(*   main.ts of the daemon   its copy of the list and who refreshes it     *)
(* Nothing locks the file.  A step is one file access, one call of the     *)
(* daemon or one answer of the radio or the user; writing is truncating    *)
(* and filling.  What a list says of a device besides its id (board, name, *)
(* when it was last seen) is left out.                                     *)
(***************************************************************************)
EXTENDS Naturals, FiniteSets

CONSTANTS
    Device,         \* ids of devices
    Cli,            \* m5ct processes that may run at the same time
    NoDevice,       \* null
    NoText,         \* an empty file
    Garbage,        \* a file no reader can parse
    MaxCommands,    \* bound: commands run
    MaxFaults       \* bound: processes killed, writes that fail

List == [devices : SUBSET Device, default : Device \cup {NoDevice}]

ASSUME NoDeviceAssumption == NoDevice \notin Device
ASSUME UnreadableAssumption == {NoText, Garbage} \cap List = {}
ASSUME BoundsAssumption == MaxCommands \in Nat /\ MaxFaults \in Nat

VARIABLES
    file,       \* devices.json: a list, or what no reader can parse
    cli,        \* [Cli -> where it is, the edit it makes, the list it has read]
    server,     \* the daemon: "down", "up", or "fill": it has truncated the file
    cache,      \* deviceStore, the daemon's copy
    link,       \* its BLE connection: "none", "opening" or "linked"
    paused,     \* blePausedBy: every m5ct pair gives the same name
    commands, faults,
    want,       \* history: the list with every edit made, one after another
    news,       \* history: the last edit is "read" by the daemon, or word of it
                \* is "coming", or "lost"
    dirty,      \* history: holders of a copy that somebody has written over since
    spoilt,     \* history: something wrote a list that lacks an edit
    orphaned    \* history: while BLE was paused a pairing client was killed or could
                \* not have it resumed, and nobody has since

daemon == <<server, cache, link, paused>>
bounds == <<commands, faults>>
history == <<want, news, dirty, spoilt, orphaned>>
vars == <<file, cli, daemon, bounds, history>>

Empty == [devices |-> {}, default |-> NoDevice]
Unreadable == {NoText, Garbage}
Idle == [at |-> "idle", op |-> "use", id |-> NoDevice, copy |-> Empty]
Places == {"idle", "pause", "scan", "confirm", "read", "truncate", "fill", "close",
           "reload", "stop", "resume"}

\* a list whose default is one of its devices
Normal(l) == IF l.default \in l.devices THEN l ELSE [l EXCEPT !.default = NoDevice]
Read == IF file \in Unreadable THEN Empty ELSE Normal(file)

\* Mutant: pairing a device forgets the others.
AddOrReplace(l, d) == [devices |-> {d}, default |-> d]
AddOrUpdate(l, d) == [devices |-> l.devices \cup {d}, default |-> d]
SetDefault(l, d) == [l EXCEPT !.default = d]
Remove(l, d) == [devices |-> l.devices \ {d},
                 default |-> IF l.default = d THEN NoDevice ELSE l.default]
Edit(op, l, d) ==
    CASE op = "pair" -> AddOrUpdate(l, d)
      [] op = "use" -> SetDefault(l, d)
      [] op = "unpair" -> Remove(l, d)

\* What the user asked for, stated apart from the code.
Asked(op, l, d) ==
    [devices |-> IF op = "unpair" THEN l.devices \ {d} ELSE l.devices \cup {d},
     default |-> CASE op # "unpair" -> d
                   [] op = "unpair" /\ l.default = d -> NoDevice
                   [] OTHER -> l.default]

TypeOK ==
    /\ file \in List \cup Unreadable
    /\ cli \in [Cli -> [at : Places, op : {"pair", "use", "unpair"},
                        id : Device \cup {NoDevice}, copy : List]]
    /\ server \in {"down", "up", "fill"}
    /\ cache \in List /\ want \in List
    /\ link \in {"none", "opening", "linked"}
    /\ news \in {"read", "coming", "lost"}
    /\ {paused, spoilt, orphaned} \subseteq BOOLEAN
    /\ dirty \subseteq Cli
    /\ commands \in 0 .. MaxCommands /\ faults \in 0 .. MaxFaults

Init ==
    /\ file = Empty /\ want = Empty /\ cache = Empty
    /\ cli = [c \in Cli |-> Idle]
    /\ server = "down" /\ link = "none" /\ paused = FALSE
    /\ commands = 0 /\ faults = 0
    /\ news = "read" /\ dirty = {} /\ spoilt = FALSE /\ orphaned = FALSE

At(c, place) == cli[c].at = place
Goto(c, place) == cli' = [cli EXCEPT ![c].at = place]
Leave(c) == cli' = [cli EXCEPT ![c] = Idle]
\* a pairing is at a place where it has no device and no copy of the list
Pairing(place) == [Idle EXCEPT !.at = place, !.op = "pair"]
PairGoto(c, place) == cli' = [cli EXCEPT ![c] = Pairing(place)]
\* the copies taken before somebody else writes
Holders == {c \in Cli : cli[c].at \in {"truncate", "fill"}}
Torn == server = "fill" \/ \E c \in Cli : At(c, "fill")
\* who will have the daemon read the list, and what becomes of the word of the
\* last edit without c
Bringers == {c \in Cli : cli[c].at \in {"close", "reload"}}
NewsWithout(c) == IF news = "coming" /\ Bringers \subseteq {c} THEN "lost" ELSE news

-----------------------------------------------------------------------------
(* The commands *)

Begin(c) ==
    /\ At(c, "idle") /\ commands < MaxCommands
    /\ commands' = commands + 1
    /\ \/ Goto(c, "pause")
       \/ \E d \in Device, op \in {"use", "unpair"} :
             cli' = [cli EXCEPT ![c] = [Idle EXCEPT !.at = "read", !.op = op, !.id = d]]
    /\ UNCHANGED <<file, daemon, faults, history>>

\* pauseBle
Pause(c) ==
    /\ At(c, "pause") /\ server = "up"
    /\ PairGoto(c, "scan")
    /\ paused' = TRUE
    /\ UNCHANGED <<file, server, cache, link, bounds, history>>

\* pairing also works without a daemon, or without one that can be reached
PauseFails(c) ==
    /\ At(c, "pause")
    /\ PairGoto(c, "scan")
    /\ UNCHANGED <<file, daemon, bounds, history>>

\* scanPairing finds a device, or the user selects one; it is connected to
Found(c) ==
    /\ At(c, "scan")
    /\ \E d \in Device : cli' = [cli EXCEPT ![c].at = "confirm", ![c].id = d]
    /\ UNCHANGED <<file, daemon, bounds, history>>

Confirmed(c) == At(c, "confirm") /\ Goto(c, "read") /\ UNCHANGED <<file, daemon, bounds, history>>

\* Mutant: the clean-up belongs to the successful path.
PairFailsSilently(c) ==
    /\ cli[c].at \in {"scan", "confirm"}
    /\ Leave(c)
    /\ UNCHANGED <<file, daemon, bounds, history>>
\* no radio, nothing found, no connection, no confirmation: finally runs
PairFails(c) ==
    /\ cli[c].at \in {"scan", "confirm"}
    /\ PairGoto(c, "stop")
    /\ UNCHANGED <<file, daemon, bounds, history>>

\* readDeviceStore; use and unpair look the device up
ReadList(c) ==
    /\ At(c, "read")
    /\ IF cli[c].op # "pair" /\ cli[c].id \notin Read.devices
       THEN Leave(c) /\ UNCHANGED history
       ELSE /\ cli' = [cli EXCEPT ![c].at = "truncate", ![c].copy = Read]
            /\ dirty' = IF Torn THEN dirty \cup {c} ELSE dirty \ {c}
            /\ UNCHANGED <<want, news, spoilt, orphaned>>
    /\ UNCHANGED <<file, daemon, bounds>>

\* a prefix that several paired devices share
Ambiguous(c) ==
    /\ At(c, "read") /\ cli[c].op # "pair"
    /\ Cardinality(Read.devices) > 1
    /\ Leave(c)
    /\ UNCHANGED <<file, daemon, bounds, history>>

Truncate(c) ==
    /\ At(c, "truncate")
    /\ file' = NoText /\ Goto(c, "fill")
    /\ dirty' = dirty \cup (Holders \ {c})
    /\ UNCHANGED <<daemon, bounds, want, news, spoilt, orphaned>>

\* What a file holds once l is written at its start: the end of a longer text
\* that was written since the truncation stays.
Written(l) == IF file \in {NoText, l} THEN {l} ELSE {l, Garbage}

\* Mutant: pairing does not have the daemon read the list again.
AfterFillPauseOnly(c) == IF cli[c].op = "pair" THEN PairGoto(c, "stop") ELSE Leave(c)
\* use and unpair do not await their calls of the daemon: process.exit comes
\* before the sockets are connected, and neither call is sent.
AfterFill(c) == IF cli[c].op = "pair" THEN PairGoto(c, "close") ELSE Leave(c)

Fill(c) ==
    /\ At(c, "fill")
    /\ file' \in Written(Normal(Edit(cli[c].op, cli[c].copy, cli[c].id)))
    /\ AfterFill(c)
    /\ want' = Asked(cli[c].op, want, cli[c].id)
    /\ news' = IF cli[c].op = "pair" THEN "coming" ELSE "lost"
    /\ dirty' = Holders \ {c}
    /\ spoilt' = (spoilt \/ c \in dirty)
    /\ UNCHANGED <<daemon, bounds, orphaned>>

\* the disk is full: the list is gone, and pair goes on to resume BLE
FillFails(c) ==
    /\ At(c, "fill") /\ faults < MaxFaults
    /\ faults' = faults + 1 /\ spoilt' = TRUE
    /\ IF cli[c].op = "pair" THEN PairGoto(c, "stop") ELSE Leave(c)
    /\ dirty' = dirty \ {c}
    /\ UNCHANGED <<file, daemon, commands, want, news, orphaned>>

\* the link to the paired device is closed
Closed(c) == At(c, "close") /\ Goto(c, "reload") /\ UNCHANGED <<file, daemon, bounds, history>>

\* the link cannot be closed: the daemon is not told, although the list is written
CloseFails(c) ==
    /\ At(c, "close") /\ PairGoto(c, "stop")
    /\ news' = NewsWithout(c)
    /\ UNCHANGED <<file, daemon, bounds, want, dirty, spoilt, orphaned>>

\* reloadDevices, and rescan, which restarts the discoveries
Reload(c) ==
    /\ At(c, "reload") /\ PairGoto(c, "stop") /\ server = "up"
    /\ cache' = Read /\ news' = "read"
    /\ UNCHANGED <<file, server, link, paused, bounds, want, dirty, spoilt, orphaned>>

ReloadFails(c) ==
    /\ At(c, "reload") /\ PairGoto(c, "stop")
    /\ news' = NewsWithout(c)
    /\ UNCHANGED <<file, daemon, bounds, want, dirty, spoilt, orphaned>>

\* the radio is given up, whatever comes of it
Stopped(c) == At(c, "stop") /\ Goto(c, "resume") /\ UNCHANGED <<file, daemon, bounds, history>>

Resume(c) ==
    /\ At(c, "resume") /\ Leave(c) /\ server = "up"
    /\ paused' = FALSE /\ orphaned' = FALSE
    /\ UNCHANGED <<file, server, cache, link, bounds, want, news, dirty, spoilt>>

ResumeFails(c) ==
    /\ At(c, "resume") /\ Leave(c)
    /\ orphaned' = paused
    /\ UNCHANGED <<file, daemon, bounds, want, news, dirty, spoilt>>

Killed(c) ==
    /\ ~At(c, "idle") /\ faults < MaxFaults
    /\ faults' = faults + 1
    /\ Leave(c)
    /\ spoilt' = (spoilt \/ At(c, "fill"))
    /\ orphaned' = (orphaned \/ (cli[c].op = "pair" /\ paused))
    /\ news' = NewsWithout(c)
    /\ dirty' = dirty \ {c}
    /\ UNCHANGED <<file, daemon, commands, want>>

-----------------------------------------------------------------------------
(* The daemon *)

DaemonStarts ==
    /\ server = "down" /\ server' = "up"
    /\ cache' = Read /\ news' = "read"
    /\ link' = "none" /\ paused' = FALSE /\ orphaned' = FALSE
    /\ UNCHANGED <<file, cli, bounds, want, dirty, spoilt>>

DaemonDies ==
    /\ server # "down" /\ faults < MaxFaults
    /\ server' = "down" /\ faults' = faults + 1
    /\ link' = "none" /\ paused' = FALSE /\ orphaned' = FALSE
    /\ spoilt' = (spoilt \/ server = "fill")
    /\ UNCHANGED <<file, cli, cache, commands, want, news, dirty>>

\* a BLE scan for the default device leads to an attempt
Attempt ==
    /\ server = "up" /\ ~paused /\ link = "none"
    /\ cache.default # NoDevice
    /\ link' = "opening"
    /\ UNCHANGED <<file, cli, server, cache, paused, bounds, history>>

LinkEnds ==
    /\ server = "up" /\ link # "none" /\ link' = "none"
    /\ UNCHANGED <<file, cli, server, cache, paused, bounds, history>>

\* 'connected': the daemon notes when it saw the device and writes its copy
\* of the whole list.
MarkSeen ==
    /\ server = "up" /\ link = "opening" /\ link' = "linked"
    /\ server' = "fill" /\ file' = NoText
    /\ dirty' = dirty \cup Holders
    /\ UNCHANGED <<cli, cache, paused, bounds, want, news, spoilt, orphaned>>

SeenFilled ==
    /\ server = "fill" /\ server' = "up"
    /\ file' \in Written(Normal(cache))
    /\ dirty' = dirty \cup Holders
    /\ spoilt' = (spoilt \/ news # "read")
    /\ UNCHANGED <<cli, cache, link, paused, bounds, want, news, orphaned>>

\* A call fails when the daemon is down or cannot be reached, which is ignored.
CallFails(c) == PauseFails(c) \/ ReloadFails(c) \/ ResumeFails(c)
CliStep(c) ==
    \/ Pause(c) \/ Found(c) \/ Confirmed(c) \/ PairFails(c)
    \/ ReadList(c) \/ Ambiguous(c) \/ Truncate(c) \/ Fill(c)
    \/ Closed(c) \/ CloseFails(c) \/ Reload(c) \/ Stopped(c) \/ Resume(c) \/ CallFails(c)
Fault(c) == FillFails(c) \/ Killed(c)
DaemonStep == DaemonStarts \/ Attempt \/ LinkEnds \/ MarkSeen \/ SeenFilled
Next ==
    \/ \E c \in Cli : Begin(c) \/ CliStep(c) \/ Fault(c)
    \/ DaemonStep \/ DaemonDies

Spec == Init /\ [][Next]_vars

\* A command goes on unless it is killed, and its calls are answered or fail;
\* nothing bounds how long it waits for the radio or for its user.
Waits(c) == cli[c].at \in {"scan", "confirm", "close", "stop"}
LiveSpec ==
    Spec /\ WF_vars(SeenFilled) /\ \A c \in Cli : WF_vars(~Waits(c) /\ CliStep(c))

-----------------------------------------------------------------------------
(* Properties *)

\* An edit is lost only to another edit that overlaps it, to the daemon when
\* it writes a copy older than the edit, or to a writer that dies or fails:
\* otherwise the file has every edit, in order, and nothing else.
EditsKept == ~spoilt /\ ~Torn => Read = want

\* Once the commands are over the daemon has the list, whichever way the edits,
\* its restarts and its own writes interleaved, if word of the last edit reached
\* it.  Excepted are the edits whose word is lost: those of use and unpair, whose
\* calls are never sent, and those of a pairing that is killed, whose link cannot
\* be closed or whose reloadDevices fails, with no other pairing on its way to
\* the daemon.
DaemonKnows ==
    (\A c \in Cli : At(c, "idle")) /\ server = "up" /\ ~spoilt /\ news # "lost"
        => cache = want

\* A daemon that a pairing client paused scans again, whichever of the
\* client's steps fail, unless the client is killed or its resumeBle fails, or the
\* radio or the user keeps a client waiting for ever.
BleResumes == []<>(~paused \/ orphaned) \/ \E c \in Cli : <>[]Waits(c)

\* Claimed: word of an edit is never lost but to a kill (the tests of m5ct use
\* and unpair say "notifies the daemon").
NoticesArrive ==
    (\A c \in Cli : At(c, "idle")) /\ server = "up" /\ ~spoilt /\ faults = 0
        => cache = want
=============================================================================
