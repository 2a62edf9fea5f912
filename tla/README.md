# Verification of m5stack-coding-toys

TLA+ models of the program in `src/`, small instances checked with TLC, and
theorems checked with TLAPS. Line numbers refer to the files under `src/`.

## The system

A desk display (M5Stack CoreS3, Cardputer, Waveshare AMOLED) shows what Claude
Code is doing. On the host a daemon, `m5ctd`, owns the one link to the display:

    Claude Code -- statusLine --> m5ct-statusline (shim) -- unix socket --> m5ctd -- NDJSON over USB serial or BLE --> firmware

The daemon is a Node.js process: one event loop, and every `await` is a point
where other handlers run. The command line tool `m5ct` talks to the daemon over
the same socket (status, flash, pair, screenshot).

### Inventory

| component | state it keeps | operations | hard behaviour | what makes it correct |
|---|---|---|---|---|
| Device manager (`daemon/src/device-manager.ts`) | state, session, transport, back-off, hold, candidate queue, BLE pauses | start, stop, onCandidate, openAndHandshake, replaceWithCandidate, flashHold/Release, pauseBle/resumeBle, rescan | several suspended attempts; hold, stop or replacement in the middle of an attempt; timers | no state without the timer or attempt that leaves it; the published session is live; a hold is exclusive and really frees the port |
| Serial poller, BLE discovery (`device-poller.ts`, `ble/discovery.ts`) | ports seen, scan in flight | start, stop, scan | results that arrive after stop | a plugged-in display is found |
| Transports (`transport/*.ts`, `ble/backend-noble.ts`) | port or GATT link, connected flag, scan | open, write, close, close event, scan, connect | close during open, partial failure of connect, chunked writes, a scan with two timers | nothing stays open without an owner; the end is told once; a scan ends; lines arrive whole |
| Device session (`device-session.ts`) | request table, ping timer, missed pings | start (hello), request, send, onData, destroy, watchdog | late answers, timers racing answers, close in any state | every request settles; a dead link is given up; disconnect is told once |
| Session aggregator (`session-aggregator.ts`) | terminal slots, foreground, today's cost | ingest, ingestHookEvent, setFocus, checkLiveness, persist | overlapping ingests around `await git`, restarts | the frame sent is of a live slot and not older than its predecessor; cost is not lost or counted twice |
| Hook server, control operations, their clients (`hook-server.ts`, `control-ops.ts`, `cli/src/control-client.ts`, `cmd-watch.ts`, the shim) | sockets, partial line, listeners on the manager | listen, handle, process, dispatchOp, subscribeState, close, callOnce, streamSubscription | lines in pieces; ends from either side; operations that answer late, throw or never answer | a call settles; a message is taken once; a watch misses no state and leaves no listener |
| Life cycle (`main.ts`, `singleton.ts`, shim `bootstrap.ts`) | lock file, socket file | acquire, release, supersede, spawn | check-then-act on files by several processes, crash | at most one daemon, eventually one |
| Device store and pairing (`device-store.ts`, `ble/pairing.ts`, `cmd-pair.ts`, `cmd-use.ts`, `cmd-unpair.ts`) | devices.json, the daemon's copy, the BLE pause | read, add, set default, remove, mark seen, write, reload; pause, scan, confirm, resume | read-modify-write by several processes, torn files, words of an edit that are lost | no edit is lost; the daemon knows the list; BLE is resumed |
| CLI flash (`cmd-flash.ts`, `flasher.ts`, `firmware-source.ts`, `firmware-store.ts`) | cache of firmware files, hold, port, the device's flash | prepare, board check, hold, prompt, open, erase, write, reset, release | crashes and overlaps in the cache, files read again minutes later, a hold that expires, any step failing | what is flashed is what was promised, on the board it is for; no hold stays behind |
| Firmware app (`firmware/lib/m5render`) | link state, pairing, page, status model | tick, handleLine, touch, checkLink, checkPairingTimeout | wrap of millisecond clocks, sticky fields | waiting screen when the host is gone |
| Firmware transports (`m5hal`, `transport_ble.cpp`, `ndjson.h`) | active transport, ring buffer, line buffer | read, write, push | radio task against main loop, overflow and resynchronisation | no torn line is delivered |
| Waveshare firmware (`firmware-idf`) | line buffer, queues | feed_bytes, tasks | overflow, two tasks | as above |

Left out for good: image encoding (`png.ts`), drawing, the protocol of esptool,
schema validation, logging, installation of settings files.

## Modules

| module | models | extends |
|---|---|---|
| `DeviceManager` | the manager with its transports, sessions, timers and control clients | |
| `HostLink` | the manager composed with the serial poller and the BLE discovery | `DeviceManager` |
| `DeviceSession` | one session: hello, requests, pings, watchdog, end | |
| `SessionPromise` | abstract: what the manager counts on from a session | |
| `SessionAggregator` | terminal slots, hooks, ticks that await git, focus, the display | |
| `TodayHistory` | the day's cost and sessions, burn history, state file, restarts | |
| `DeviceList` | devices.json, its editors, the daemon's copy, the pairing flow | |
| `FlashTool` | `m5ct flash`: cache, board check, hold, the steps of the flasher | |
| `BleWire` | adapter, scan, connect, BLE transport, chunked writes, framer | |
| `HookSocket` | the daemon's socket, its connections and clients | |
| `DaemonLife` | lock file, socket path, processes, shims, shutdown | |
| `DeviceManagerProofs`, `DeviceSessionProofs`, `SessionAggregatorProofs`, `DaemonLifeProofs`, `FlashToolProofs`, `DeviceListProofs`, `HookSocketProofs` | theorems | the module (`HostLink` for the manager) and TLAPS |
| `HistoryAndWireProofs` | theorems about two modules without a name in common | `TodayHistory`, `BleWire`, TLAPS |
| `MC...` | instances for TLC | the module |

The definitions of a module with `Mutant:` in their comment are wrong on purpose:
each is what a plausible bug would make of the definition after it, and is used
to see that a property notices.

### DeviceManager

An action is one macrotask, from an event to the next `await`. A suspended
`openAndHandshake` is a *link*: `pc[l]` says what it awaits, `cand[l]` what it was
opened for, `tr[l]` what the operating system knows of its transport. So several
attempts may be suspended at once, as in the code, and each handler sees the
state as another left it. `session` and `current` are `this.session` and
`this.currentTransport`, named by their link. Continuations that wait for
microtasks only (after a close, after a rejected hello) run before any other
event: that is `Settling`, which guards every macrotask.

Two details of the transports decide what can go wrong and are part of the
actions. `close()` marks the transport at once, the port closes later, and a
second `close()` returns at once (`transport/serial.ts:87-93`), so a caller that
waits for the second one does not wait for the port. `close()` while `open()` is
in progress removes the port object, so the second half of `open()` waits for
ever with the port open (`pc = "hung"`, `tr = "stuck"`).

The candidate queue is a set: `drainCandidates` takes the best of it and drops the
rest, and among equals `lastSeenAt` is any order. `cooldownIdx` saturates at
`LastBackoff`, which is what `Math.min` in `enterCooldown` makes of it. `m5ct flash`
is a client that holds and then releases, dies, or outlives its grant; `m5ct pair`
pauses, resumes and rescans, or dies and leaves BLE paused.

The history variable `nameless` has the holds, awaited or granted, whose client
`heldBy` no longer names. There are two ways. A straggler (an attempt that was under
way) has left Held, and another client's `flashHold` writes its own name over it. Or
the straggler has left Held with the timer of the first hold still armed, a second
`flashHold` awaits its close, and the timer fires meanwhile: it sets `heldBy` to null
(`device-manager.ts:177`), the second hold is granted with no name, and a release of
anybody's passes the check at line 186.

### HostLink

Adds the ports that are plugged in (environment), `DevicePoller.seen` and the two
`inScan` flags. `start()` and `stop()` of the discoveries follow the manager's steps
(`DiscoveriesFollow`). A scan awaits the operating system, so it may complete after
`stop()`; it then still stores `seen`. A drain scheduled with `setImmediate` runs
before the next interval timer, which is the `~drain` in the guards of the scans.
A scan result reports at most one new port: the instances have one serial port.

### DeviceSession and SessionPromise

`pending` is the table of requests, each with its timer; `waiting` are the promises
somebody awaits, kept apart so that the two can disagree. `net[id]` is how far a
request has come (being written, asked, answered), and `stale` the answers a port
still carries from the session before, whose ids count from the same number. An id
belongs to a pool, `PingId` or `AppId`, and is taken again when nothing of its last
use is left: the pools bound how many are under way, not how many there are.
`missed` saturates at `MaxMissed`. The device answers, sends noise, or is silent on
a link whose writes succeed and which never reports a close.

`SessionPromise` is the part of a session that `DeviceManager` models: `start()`
ends once, a session that is up goes down once, whoever listens is told at most
once. `ImplementsPromise` says that the detailed session does no more than that,
with `stage` computed from `phase`, `destroyed` and `disconnected`. The other half is
`SessionsAsPromised` of `DeviceManager`: on every link, whatever else is suspended, the
manager's steps are steps of the promise (`Promised`, with `Stage` computed from `pc` and
`tr`), and when the promise says that the end is told, a published session is
published no more. Links are used again, so a session begins where `Stage` leaves
"idle", and `told` is not a variable but fixed by the step: it changes with the end or
not at all. Both halves let the owner close the transport of a session that is
starting or that it no longer publishes: `flashHold` and `replaceWithCandidate` close the
*current* transport, which after a race of holds may be that of a session that was
overwritten and still answers pings.

### SessionAggregator

A slot is known by the number of its Claude Code process when the shim could
resolve it, else by a session id; `alias` and `known` are the tables by which a hook
finds a slot and by which they are cleaned. `order`, an array in the code, is the
relation "comes before" between slots, so that "the first slot that has a frame" is
one nobody else comes before. A tick is split where `ingest()` awaits
git: `ticks` are those under way, and git answers them in any order. A tick keeps
the slot object it began with: `NoSlot` when that has been removed since, so its
frame goes nowhere. `screen` is what the firmware shows: a frame sent while no
session is published is dropped (`sendStatus`), and a device that comes back shows
what it did until the next frame. A write may also fail while the session stays
published, which is only logged: the display then shows the frame or the one before
(`Deliver`). And the firmware falls back to Waiting by itself after 15 s without a
line, with the session published or not (`DisplayFallsBack`). `synced` and `late` are
history variables: whether the last frame sent has arrived with link and display
holding since, and whether a frame is of a tick that began before one already shown. Slot ids longer than the firmware's buffer come
back cut when a tap names them (`OnDevice`). The aggregator's costs are left to
`TodayHistory`; no condition here reads them.

### TodayHistory

Per slot the burn history (its length), the cost last reported, and per day the base
cost and the set of sessions; `saved` is the state file. A tick, the end of a slot,
midnight, a save that fails and a restart are the actions. `real` is what the
terminal's Claude Code says it has cost so far; `spent` and `ticked` are history
variables, what a faultless count would say. Costs are whole cents. The foreground,
which decides whose burn history is saved, may be any slot: that is the aggregator's
choice.

### DaemonLife

The only state the processes share are two files, so a step is one access to a
file, to another process or to itself. `acquireLock` is four of them: read the
lock, decide (with `kill(pid, 0)`), truncate, write. A process has a phase
(`proc`), the version it was built with, and what it has `seen`. A daemon that
supersedes sends SIGTERM, waits three seconds for the other to leave, clears the
path and binds it. Three seconds are enough for a daemon that nobody keeps
(`LeavesSoon`), not for one with a connected `m5ct watch`, since `server.close` waits
for its connections; libuv removes whatever is at the path when the server has
closed. A process number is used again when free, also by a stranger that is no
daemon; a new process never gets a number that is in use. Each shim runs
`ensureDaemon`: no answer, read the pid, unlink a path whose daemon is gone, spawn.

`lost` is a history variable: it becomes true when a daemon changes the lock over a
change it has not seen, takes it from one that had still to end its predecessor, or
dies before it ended its own. These are the windows the check-then-write of
`singleton.ts` leaves, and what is claimed of one daemon at a time is claimed
outside them.

### DeviceList

`file` is devices.json: a list, an empty file (`NoText`) or one nobody can parse.
A process truncates it in one step and fills it in another, so a reader in between
takes it for an empty list, as `readDeviceStore` does, and what two writers leave is
one of theirs or garbage (`Written`). A command is a walk through `Places`: use and
unpair read, edit, write and tell the daemon, which they do not await; pair also
pauses BLE before and resumes it after, and asks the user to confirm. Between its
write and `reloadDevices` a pairing closes its link; when that fails it goes straight
to its `finally` and the daemon is not told (`CloseFails`). Each of its calls may fail,
with the daemon up too, and `safeControl` swallows that (`CallFails`). The daemon
reads the file when it starts and, when it is told to, again; it writes its copy
back when a BLE device has said hello (`MarkSeen`). The list as it should be
(`want`) follows every edit by what the user asked for (`Asked`), stated apart from
the code. The remaining history variables name what may legitimately lose an edit:
`dirty` clients hold a copy older than somebody's write, `spoilt` says that such a
copy was written, `news` whether the word of the last edit reached the daemon.

### FlashTool

One process per flash: `tool[c]` is where it is and what it knows. Preparing an
entry goes file by file: take what the cache has if its sum is right, else
download, truncate and fill. The cache directory is named by board and version,
so two entries may share it (`Slot`). A folder of the user's is neither cached nor
checked. `told` is the board the daemon reported before the download, `NoBoard`
without a session. The hold is asked for, the user brings the board into download
mode (or does not), the loader is opened, erases, writes the files *as they are in
the cache by then*, and resets; any step may fail, and the failure goes to the
`finally` that releases.

The port of the model, and the `device` on it, is the one that a flash opens: the first
Espressif port in the list, whichever board that is (`cmd-flash.ts:28-33`). `status`
reports the board of the daemon's one session, which may be on that port or
`elsewhere`: over BLE, or on another serial port. A daemon is kept as what its clients
see of it: whether it is up, the holder, whether it has that port open, the board it has
elsewhere. Another board comes to the port by a cable or by being listed first (`Swap`).
`raced` and `unsure` are history: who has checked a file that was written to since, and
who was told of a board elsewhere or of one that was on the port before another.

A process is `gone` when it ended by its own return, and `dropped` when what should have
given the hold back did not: a signal (`Killed`, bounded as a fault), a prompt that is
closed by Ctrl-C or the end of input, which leaves `ask()` unsettled and the process
without anything to wait for (`PromptEnds`), or a `flashRelease` that does not get through
(`ReleaseFails`). The last two need no fault and may happen in every flash.

### BleWire

The central is a small program of its own: wait for the adapter, scan with a
listener and a timer (which at the first match is replaced by a shorter one),
stop, connect, discover, read, subscribe. `BleTransport` sits on a link and is told of
its end by the link's listener, by its own `close()`, or by both. A write takes a
line's chunks one after another and awaits the radio after each; any number of
writes may be under way. The device's side of it is only the line end: a line is
whole if its chunks, and nothing else, arrived between two of them. Inbound, the
environment sends bytes and cuts them up at will; `PushByte` and `Push` are the
framer.

### HookSocket

A connection is two streams, `up` and `down`, of any delay, and an end at each side.
A client connects, writes its line in two parts and then waits (`linked`, `writing`,
`open`); the shim ends its side with its line, and its timer, like a kill, may cut it
off at any point: before it has all written it is `cut`, afterwards `dead`. A line may
come in two pieces. An operation answers at once, later, or throws; a
subscription registers a listener on the manager, sends the present state and then
every change. Clients die at any time; the server closes, waits for its
connections, or dies. `replied`, `seen` and `taken` are what callers, watchers and
the aggregator got.

## Runs

Times are on two cores.

| run | instance | states | what it shows |
|---|---|---|---|
| `manager` | 3 links, 1 flash client, a serial and a BLE candidate | 826k, 1.2 min | the manager's invariants, with three transports alive at once; it uses its sessions as `SessionPromise` says |
| `manager_live` | 2 links, 2 flash clients, serial only | 89k, 1.3 min | attempts and flashHold calls end; nobody else ends a hold that has its name |
| `hostlink` | 3 links, serial and BLE, 1 pairing client | 92k, 11 s | one attempt or session at a time, the one published; none over BLE during a pause |
| `session` | 2 pings, 1 application request, 2 misses | 56k, 1 min | the session's invariants, its refinement of `SessionPromise`, its liveness |
| `today` | 2 slots, 2 days, 2 restarts | 143k, 18 s | the day's tables |
| `aggregator` | 1 process, 1 session id, 2 slots, 2 ticks, 1 restart | 1.6M, 2.3 min | tables, badges, focus, and the screen with failing frames and a display that falls back |
| `daemon` | 2 process numbers, 2 shims, 1 watcher, 2 versions, 2 upsets | 757k, 1 min | one daemon serves, clean exits, recovery |
| `list` | 2 processes, 2 devices, 3 commands, 1 fault | 577k, 1 min | no edit is lost, the daemon knows the list, BLE is resumed, with every call that may fail |
| `flash` | 2 flashes of 3 entries, 2 of which share a directory, 2 files, 2 boards, 1 fault | 6.7M, 2.6 min | what is flashed, on which board, and no hold left |
| `ble` | 3 lines of 1, 2 and 3 chunks, 2 scans, 4 bytes inbound, 1 refused write | 336k, 36 s | scans end, the end of a transport is told once, lines and the framer |
| `socket` | 1 call, 1 watch, 1 shim, 3 changes of state | 324k, 32 s | calls settle, watches are current and leave nothing, a message is taken once or not at all |
| `interleaved` | as `ble` | | refuted: that a line arrives as it was written |

One further configuration passes: `MCDaemonLife_three` (3 processes,
`TakeoverSound`). Those of the disagreements below fail.

**Bounds.** Two links are enough for an attempt that was overtaken by another one;
the third is needed when a replacement waits for the first of two, which needs a
leaked attempt, a session and a new link. One candidate of each kind is enough
because the manager compares candidates by priority only. With the defaults (5 s, 3
s) one ping at a time awaits its answer; the second id lets a newer one be under way
while the write or the answer of an older one still is. Two ticks under way are
enough to finish in the wrong order, and two slots to be the foreground and the
other one. In `TodayHistory` one unit of cost and two days separate a base from a
live cost and today from yesterday; two restarts restore what was restored. In
`DaemonLife` two process numbers give a daemon and its successor and the reuse of a
number; three are checked separately. An upset is anything the daemons and shims do
not do themselves: a crash, a daemon started or ended by hand, a stranger. Two allow
the second to hit the recovery from the first. In
`DeviceList` two processes and a daemon are all the writers an overlap needs, two
devices tell "the list lost an edit" from "the default moved", and three commands let
a third meet what two left; one fault is a kill or a full disk. In `FlashTool` two
files let one be checked while the other is written; an index entry and a remote
manifest share a directory, a folder is not cached. A board that the firmware is not
for comes with the device (`Init` takes either), so no entry of the other board is
needed; two boards are all that "another" takes, and the one fault is a kill, a death of the
daemon or another board on the port. In `BleWire` a line of
one chunk fits between two of another and the longest has one in the middle; two
scans and sessions let what the first left reach the second; four bytes are a line, an
empty line and a rest. In `HookSocket` three changes fall before, at and after a
subscription. A run in which the system really may stop says `CHECK_DEADLOCK FALSE`: after `stop()` with no client nothing is left to
happen, a session that has ended does nothing more.

**Fairness.** Only what the event loop and the operating system do by themselves.
*Manager*: timers fire, immediates run, serial calls call back, a close completes, a
hello is answered or times out. Nothing bounds a BLE connect
(`backend-noble.ts:112` ignores its timeout), so no fairness is assumed for it and
`AttemptEnds` is checked for serial candidates. Callbacks are strongly fair only
because `Settling` may disable them for a moment. *HostLink*: the poller's timer
repeats and `SerialPort.list` answers. *Session*: the ping and request timers fire,
a write ends, and a device that answers does so or ignores the request; the close
of a transport is not assumed, since a half-open link never closes. *Aggregator*
(in `MCSessionAggregator_shown` only): git answers, a device that went away comes back. *Daemon life*:
a process takes its next step, an unreachable idle daemon's timer fires, and Claude
Code keeps calling its status line, so shims come again; nothing makes a watcher
leave or a device go away, therefore `Recovery` is conditional on that. *Device
list*: a process takes its next step and the daemon fills what it truncated, but
nothing makes the radio or the user answer `m5ct pair` (`Waits`: also to close the link
and to stop the radio), so `BleResumes` excepts a client that waits for ever. *BLE*: noble answers the calls of a scan and its
timers fire; nothing is assumed of a connect. *Socket*: the event loops of both
sides go on, what is to be written is written and a stream delivers; an operation that is awaited ends, because those
that await something have a timeout of their own (`DeviceSession`'s requests, the
manager's closes).

## Disagreements found while modelling

One is run as a violation and quotes its sentence in `PROJECT.json`:

- `interleaved`: `BleTransport.write` awaits the radio after every chunk and nothing
  queues writes, so a ping lands in the middle of a status frame and the device gets
  one line made of both.

The others are reproduced by a configuration each, which is not among the runs; where
two properties share one, name the other in it:

| configuration | property | what happens |
|---|---|---|
| `MCDeviceManager_portclosed` | `PortClosedWhileHeld` | `flashHold` neither cancels an attempt in flight nor waits for the port of the session it destroys, so it can answer ok while the port is open |
| the same | `HeldUntilReleased` | an attempt in flight takes the manager out of Held |
| the same | `OneHolder` | two clients are granted the device at once; the name of the first is lost |
| `MCHostLink_handback` | `NeverStranded` | a scan that ends after `stop()` marks its port as seen while its candidate is dropped: after a hold the daemon may scan for ever with the display plugged in |
| `MCHostLink_override` | `SerialOverridesBle` | a port first listed while BLE connects never takes over |
| `MCDeviceSession_noisy` | `NoisyLinkIsDropped` | lines that do not decode keep a link alive (`device-session.ts:183-185`) |
| `MCTodayHistory_restart` (with `LastDay = 1`, `MaxRestarts = 0` for midnight) | `NeverOverstated` | today's cost is restored as a base and the live sessions add theirs again; a session that lives through midnight counts its whole cost again |
| `MCTodayHistory_restart` | `RestoredStaysSaved` | the restored burn history is overwritten by an empty one |
| `MCSessionAggregator_shown` | `LiveSessionShown`, `IdleShown` | nothing is pushed when the display comes back or has fallen back by itself; the one idle frame is dropped while it is away or its write fails |
| `MCSessionAggregator_late` | `NewestTickKept` | a slow git answer overwrites the frame of a newer tick |
| `MCSessionAggregator_tap` | `TapSelects` | a tap on a slot with a long id selects nothing |
| `MCDaemonLife_unreachable` | `UpIsReachable` | a superseded daemon that a watcher keeps alive removes its successor's socket when the watcher leaves; every later daemon defers to one nobody can reach |
| `MCDaemonLife_deferral` | `DeferralServed` | a daemon that is closing, kept by a watcher, still holds the lock: new ones defer to it |
| `MCDaemonLife_strangers` | `StrangersAreSpared` | a stale lock whose number was used again is sent a SIGTERM |
| `MCDeviceList_notices` | `NoticesArrive` | `m5ct use` and `unpair` exit without awaiting their call of the daemon, which keeps its old copy |
| `MCBleWire_stuck` | `FailureLetsGo` | a failure after the peripheral was connected leaves it connected, and so invisible to every later scan |
| `MCFlashTool_otherboard` | `OtherBoardsRefused` | the board check is skipped while the daemon has no session; it compares with the board of a BLE session or of another port although the first Espressif port is flashed; and it does not know of a board swapped during the download |
| `MCFlashTool_rewritten` | `CheckedIsFlashed` | files are read again after the prompt: another flash's download may have replaced them |
| `MCFlashTool_expired` | `HeldThroughout` | the hold ends after 60 s, in the middle of a slow flash |

## Proofs

Every theorem holds for all values of the constants under the named assumptions of
its module (disjoint pools and candidates, null values outside their sets, natural
numbers as bounds).

**DeviceManagerProofs**: the type invariant, that no state is a dead end
(`NoStateIsADeadEnd`: each has the timer, the attempt or the discoveries that take the
manager out of it), that the published session is live, and the two properties of
pauses and holds, and that sessions are used as promised. That nobody ends a named
hold of another's (`HoldsAreTheHolders`) rests on `NamedIsHolder`: `heldBy` is the client
of every hold, awaited or granted, that is not `nameless`; so there is one such hold at
most, and the check of `flashRelease` protects it. The inductive invariant is
`IInv == TypeOK /\ SafeInv`, where `SafeInv` has the properties themselves and two
strengthenings: `LinkPhases` (what each `pc` says of the link's transport and
candidate, without which nothing is known of the link a late callback resumes) and
`NewIsQuiet` (before `start()` nothing is armed, queued or open). The action
properties follow from `IInv` and a lemma on which actions can make the change they
restrict. `SessionsUsedAsPromised` looks at any one link in each handler: it is left
alone or its transport is closed (`LeftOrClosed`), its session is destroyed
(`DestroyedByOwner`; that the published one is up is `SessionIsLive`), it has none
(`StaysWithout`), or the step is one of the promise. Together with `SessionKeepsItsPromise`
it closes the argument for modelling sessions inside the manager in brief: the
session does no more than the manager's model lets it do, and the manager does to a
session no more than the session's model lets its owner do.

The same module says of the composition `HostLink` that there is one attempt or
session at a time and that one that is up is published, under the condition `[]NobodyHolds`: a
granted hold can race an attempt in flight, and then it is false (the
configuration `MCDeviceManager_portclosed` shows how). Without holds the invariant
is `OneLink`: which `pc` the one link can have in which state, that it cannot hang,
and that `current` names it. The theorems are stated for the manager alone and carry over
because every step of the composition is one of the manager's or a stutter
(`LinkIsManager`). `LinkWithoutFlash` says the same of the composition without flash
clients, which is what the run of `HostLink` checks.

**DeviceSessionProofs**: `IInv` is `TypeOK`, `NoOrphanRequest`, `EndedIsQuiet` and
`Phases`, which relates `phase` to the rest (a session in its hello is neither
destroyed nor disconnected, one whose hello failed is destroyed, a closed transport
has been reported, the last miss ends the session). From it follow that
only pings are counted, that a link is given up at the last miss only, and the
refinement: every step of a session is a step of `SessionPromise` or stutters.

**SessionAggregatorProofs**: every safety property of the aggregator, in three layers,
none of which is inductive without the one before it.

- Badges: the badge of a stored frame is its slot's, whatever the order of ticks,
  hooks and git's answers. `BadgeInv` says in addition that activities and frames are
  functions and that a stored frame is made of its slot's activity; both are needed to
  update a single slot.
- Tables (`SlotTables`): besides what `TablesAgree` says, any non-empty set of slots
  has a first one (`FirstExists`). That two slots are always ordered does not give
  this (the order could go round); that a new slot is put last does.
- Frames (`Frames`): only slots that exist have frames or ticks, and one without a frame
  has a tick. The lemmas `OvertakenKeeps` and `AnswerKeeps` say that marking ticks late, or
  taking one out of the middle, loses no other.
- The display (`Shown`): `SendResult` says that a frame or page that was sent is on the
  display or the display is not `synced`, whether it was dropped, failed or arrived.
  `PushResult` says that a push either sends the foreground's
  frame or finds that the foreground has none; the first because the slots with frames
  have a first, by the tables. In the second case the display may keep what it shows
  since the foreground has a tick in flight, by the frames (`PushShown`).

`OnlyTapsMoveFocus` needs no invariant: a push never unselects (`PushKeeps`).

**HistoryAndWireProofs**. Of `TodayHistory`: that only live sessions are priced, that the
restored burn history is handed out once, and that the number of sessions of the day
survives any number of restarts unless a save failed. The last one needs a statement
about the file: while no save has failed it holds what the memory holds.

Of `BleWire`: `CloseToldOnce` follows from `Ends`, which says what transport, link and
`closing` have to do with each other and that the radio scans or connects only while no
transport is open or closing, so a new transport never meets the end of an
old one. `OnlyOverlapMangles`, for any number of lines of any length, follows from
`Lines`: unless a write broke off, what the device holds of an unfinished line is of
lines that are being written, hence nothing when no write is in progress
(`Unmixed`), and exactly the chunks sent so far of a line whose write was alone (`Alone`).

`LinesCutRight` is `FramerAgrees` for bytes of any number in notifications of any length. `Framed`
says what a framer promises of a text, lines and rest without saying how: as many
lines as newlines that end a non-empty one, each the piece that stands before its newline,
and the rest what stands after the last. `FramedByte` is the step for one byte
(the ends of the longer text are those of the shorter one, and perhaps one more:
`EndsOfAppend`, `FramedWithEnd`, `FramedWithoutEnd`). `Push` is a recursive function over the
bytes of a notification, so `FramedPush` is an induction; the library's schemes of
induction cannot be instantiated here, and the proof takes the least number of bytes
at which the claim fails (`LeastNumber`, from the well-foundedness of the naturals) and
refutes it with the byte before. `StepsExist` gives the sequence of framers between two
bytes. The inductive invariant `FramerInv` has the types of the text and of the buffer
besides. `FramedOneWay` says that the promise is not weak: a text has one sequence of lines
and one rest that satisfy it.

**FlashToolProofs**: the three invariants of `flash`, for any number of flashes,
firmwares, files and boards. None is inductive. `FlashedAsPromised` rests on
`Verified` (a file is missing from `todo` only when the cache has it, or the flash
is `raced`) and on `PortIsTheirs` (who erases, writes or resets has the port, so
nobody else changes the device meanwhile); the heart is `ReadersRaced`: whoever
writes into the cache makes everybody raced who has checked that file.
`WrongBoardIsKnown` follows from `BoardKnown`, which follows a board from the
daemon's answer to the reset: what a flash was told is the board on the port it will
open, unless it is `unsure`. `NoHoldLeftBehind` follows from `HoldersRelease`: a
holder called the daemon and has its release ahead of it, or was `dropped`. A step that
moves only one process can harm only the claims about that process: one lemma per
invariant says so (`OthersVerified`, `OthersKnow`, `ImageStays`), and most actions need
nothing else.

**DaemonLifeProofs**: `OneServing` alone is not inductive: a daemon that has not yet
bound its socket will serve later. `TakeoverSound` says of every daemon that has
written the lock and was not told to end that the lock names it, or that the one
taking the lock over has read its name; and that only one takes over at a time. It
is proved with one lemma per kind of step, most of which leave the lock alone.
`CleanExit` rests on `CleanInv`: a lock with the number of a daemon that has written its
own is that daemon's, with its version, so `OwnLock` recognises it; and the socket path no
longer names one that is past removing it.

**DeviceListProofs**: `EditsKept` and `DaemonKnows`, for any number of commands, devices
and faults. `EditsKept` speaks of the file, which is right or torn from step to step;
what is kept is `Clean`: until an edit is spoilt, a copy that nobody has written over
is the list, and who writes such a copy meets the file as it truncated it. That needs
`WritersDirty`, which says that a writer makes every other holder dirty, so that a
clean writer is the only one (`CleanWriter`); and `EditIsAsked`, that the code's edit,
normalised, is what was asked for. The daemon has the list because the word of an
edit comes as long as some client is about to bring it (`WordComes`, with `Bringers` those
that close their link or reload), and is lost with the last of them; a daemon that
has read a torn file is told again by whoever was writing, or that edit is lost.

**HookSocketProofs**: `NoListenerLeft` follows from `ListenersLive` (a listener belongs
to a watcher whose connection is subscribed). For `MessageTakenOnce` the invariant
describes the stream of a shim by how far its client has come (`SentBy`): nothing, a
first part, or the line, perhaps in two pieces, and ends (`LineAhead`); no line ever when
it was cut off (`NoLine`); and once the line is read only ends (`OnlyEnds`). For
`WatchIsCurrent` it joins what a watcher has printed and what is under way to it: together
they are one stream without a gap that reaches up to the manager's state as long as the
connection is subscribed (`WatchIsAt`).

Every safety property of a passing run is a theorem. Only model-checked is liveness, which
is out of the prover's reach: `AttemptEnds`, `FlashAnswered`, `RequestsSettle`,
`SilentLinkIsDropped`, `Recovery`, `BleResumes`, `ScanEnds`, `CallsSettle`. Neither
checked nor proved is `OneLinkAtATime` with flash clients, since it does not hold with
one that races an attempt.

**What the properties except.** A property that would be false without an exception names
it by a history variable or a place, so that nothing else is excepted:

| property | excepted | what the code does there |
|---|---|---|
| `HoldNotReleasedByOthers` | `nameless` holds | `heldBy` was replaced by a later hold or cleared by an older timer: anybody's release may end it |
| `OneServing` | `lost` | check-then-write of the lock, a superseder that dies |
| `Recovery` | a kept daemon, a stranger with its number | new daemons defer, or the socket is removed under them |
| `EditsKept`, `DaemonKnows` | `spoilt`, `news = "lost"` | overlapping writers; calls that are not awaited, killed or fail |
| `BleResumes` | `orphaned` | a pairing killed, or its `resumeBle` failed |
| `FlashedAsPromised` | `raced` | a checked file written to by another flash |
| `WrongBoardIsKnown` | `unsure`, `--force`, no board known | the reported board is not the one on the port |
| `NoHoldLeftBehind` | `dropped` | signal, closed prompt, failed release: only the timer ends the hold |
| `ScreenIsForeground`, `EndedLeavesScreen` | not `synced` | a frame lost, or a display that fell back |
| `MessageTakenOnce` | `cut`, daemon gone | the shim's timer fired before all was written |

## Plan

Done: the manager and its link, the session, the aggregator with its history, the
life of the daemon, the device list with its editors, the flash tool, the BLE wire
and the daemon's socket. What is left, in the order in which it matters:

1. What a hold leaves of `OneLinkAtATime`. No number bounds the links: each hold and
   release may leave one more attempt behind. What there is to say is about each link
   by itself, as `SessionsAsPromised` does.
2. `DaemonLife` and `HookSocket` composed: connections decide when a daemon that is
   shutting down really goes.
3. The firmware (C++ and C): the mux, the receive buffer shared with the radio's
   task, the framer that resynchronises after an overlong line, link state and
   pairing mode with clocks that wrap.

## Not modelled

- **Firmware** (CoreS3, Cardputer, Waveshare; `src/firmware`, `src/firmware-idf`): the
  project covers the TypeScript programs first. What the host's correctness needs of
  the device is an environment action: it answers, ignores, falls silent, sends any
  bytes, shows a frame, returns a slot id cut to its buffer.
- **Drift profile** (`device-profile.ts`): reads manifests once and compares version
  numbers; it has no state and no order to get wrong.
- **Installer** (`install.ts`): edits of a settings file by one sequential process.
- **Data**: schemas and codec, the fields of a status frame that only pass through, the
  pixels of a screenshot, image encoding, drawing, the protocol of esptool, parsing
  of flags and manifests (a failing step), logging.
- **Fake transport, fake firmware, message generator**: test doubles and tools.
- **Partly modelled components**: the manager's drift event and `reloadDevices` (its
  file is in `DeviceList`); the serial transport's 'auto' port lookup and its write;
  the poller's 'detached' reports, which the manager ignores; the shim's search for
  the process of Claude Code and its chained status line.
