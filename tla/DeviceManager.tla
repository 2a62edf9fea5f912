--------------------------- MODULE DeviceManager ---------------------------
(***************************************************************************)
(* The daemon's device manager (packages/daemon/src/device-manager.ts): it *)
(* owns the one link to the display, opens the best candidate its          *)
(* discoveries report, hands the port to a flashing client and takes it    *)
(* back.                                                                   *)
(*                                                                         *)
(* The program is one event loop.  An action is one macrotask: everything  *)
(* from an event to the next await.  A suspended openAndHandshake is a     *)
(* "link" whose pc says what it awaits, so several may be suspended at     *)
(* once, as in the code.  Continuations that only wait for microtasks run  *)
(* before any other event (Settling).  What SerialTransport, BleTransport  *)
(* and DeviceSession do to the manager is part of the actions: close()     *)
(* marks a transport at once but the port itself closes later, and a       *)
(* second close() of the same transport returns immediately.               *)
(***************************************************************************)
EXTENDS Naturals, FiniteSets

CONSTANTS
  SerialCand,   \* serial ports a discovery may report
  BleCand,      \* paired peripherals a discovery may report
  Link,         \* transports that may exist at once (bound)
  FlashClient,  \* control clients that call flashHold / flashRelease
  PairClient,   \* control clients that call pauseBle / resumeBle / rescan
  LastBackoff,  \* index of the longest back-off delay
  NoLink, NoCand, NoClient

Cand == SerialCand \cup BleCand

ASSUME CandAssumption == SerialCand \cap BleCand = {} /\ NoCand \notin Cand
ASSUME NullAssumption == NoLink \notin Link /\ NoClient \notin FlashClient
ASSUME BackoffAssumption == LastBackoff \in Nat

VARIABLES
  run,            \* "new", "started" or "stopped": start() and stop()
  state,          \* _state
  session,        \* this.session, named by its link
  current,        \* this.currentTransport, named by its link
  priority,       \* currentPriority
  cooldownIdx,    \* cooldownIdx, saturated at LastBackoff
  cooldownTimer,  \* the back-off timer is armed
  heldTimer,      \* the hold timer is armed
  heldBy,         \* heldBy
  queue,          \* candidateQueue, as a set
  drain,          \* candidateDrainScheduled
  paused,         \* blePausedBy
  polling,        \* the discoveries are running
  pc,             \* what each link's openAndHandshake awaits
  cand,           \* the candidate each link was opened for
  tr,             \* the operating system's view of each link's transport
  old,            \* the transport whose close a replacement awaits
  hold,           \* what each flash client has been told
  holdOn,         \* the transport whose close a client's flashHold awaits
  nameless        \* history: the holds, awaited or granted, whose client's name
                  \* was replaced or cleared in heldBy

mgr     == <<state, session, current, priority>>
timers  == <<cooldownIdx, cooldownTimer, heldTimer, heldBy>>
disco   == <<queue, drain, paused, polling>>
links   == <<pc, cand, tr, old>>
clients == <<hold, holdOn, nameless>>
vars    == <<run, mgr, timers, disco, links, clients>>

States == {"Scanning", "Opening", "Handshaking", "Connected", "Cooldown", "Held"}

\* pc: "connect" awaits BleCentral.connect; "open" and "set" await the two
\* callbacks of SerialTransport.open; "openClosed" is "open" after close();
\* "hung" never resumes; "hello" awaits session.start(); "up" has completed;
\* "swap" is a replacement that awaits the old transport's close.
Pcs == {"idle", "swap", "connect", "open", "openClosed", "hung", "set",
        "hello", "up"}

\* tr: "closing" until the port is really closed; "stuck" is open with nobody
\* left who would close it.
Trs == {"none", "open", "closing", "stuck"}

SERIAL_PRIORITY == 100
BLE_PRIORITY == 50
Prio(c) == IF c \in SerialCand THEN SERIAL_PRIORITY ELSE BLE_PRIORITY

TypeOK ==
  /\ run \in {"new", "started", "stopped"}
  /\ state \in States
  /\ session \in Link \cup {NoLink}
  /\ current \in Link \cup {NoLink}
  /\ priority \in {0, BLE_PRIORITY, SERIAL_PRIORITY}
  /\ cooldownIdx \in 0..LastBackoff
  /\ cooldownTimer \in BOOLEAN
  /\ heldTimer \in BOOLEAN
  /\ heldBy \in FlashClient \cup {NoClient}
  /\ queue \subseteq Cand
  /\ drain \in BOOLEAN
  /\ paused \subseteq PairClient
  /\ polling \in BOOLEAN
  /\ pc \in [Link -> Pcs]
  /\ cand \in [Link -> Cand \cup {NoCand}]
  /\ tr \in [Link -> Trs]
  /\ old \in [Link -> Link \cup {NoLink}]
  /\ hold \in [FlashClient -> {"idle", "closing", "held", "expired"}]
  /\ holdOn \in [FlashClient -> Link \cup {NoLink}]
  /\ nameless \subseteq FlashClient

Init ==
  /\ run = "new"
  /\ state = "Scanning"
  /\ session = NoLink
  /\ current = NoLink
  /\ priority = 0
  /\ cooldownIdx = 0
  /\ cooldownTimer = FALSE
  /\ heldTimer = FALSE
  /\ heldBy = NoClient
  /\ queue = {}
  /\ drain = FALSE
  /\ paused = {}
  /\ polling = FALSE
  /\ pc = [l \in Link |-> "idle"]
  /\ cand = [l \in Link |-> NoCand]
  /\ tr = [l \in Link |-> "none"]
  /\ old = [l \in Link |-> NoLink]
  /\ hold = [c \in FlashClient |-> "idle"]
  /\ holdOn = [c \in FlashClient |-> NoLink]
  /\ nameless = {}

-----------------------------------------------------------------------------
(* Steps shared by the handlers. *)

\* Mutant: discoveries stop as soon as a device is connected.
ShouldRunOnlyScanning(st, cur) == st = "Scanning"

\* syncDiscoveries' condition, for a state and the current transport.
ShouldRun(st, cur) ==
  \/ st = "Scanning"
  \/ st = "Connected" /\ cur # NoLink /\ cand[cur] \in BleCand

\* transition(next), when the current transport is cur.
Goto(next, cur) ==
  /\ state' = next
  /\ polling' = IF next = state \/ run # "started" THEN polling
                ELSE ShouldRun(next, cur)
  /\ drain' = (drain \/ (next = "Scanning" /\ state # "Scanning"))

\* Mutant: the back-off index runs past its table.
EnterCooldownOffByOne ==
  /\ Goto("Cooldown", NoLink)
  /\ cooldownIdx' = IF cooldownIdx <= LastBackoff THEN cooldownIdx + 1
                    ELSE cooldownIdx
  /\ cooldownTimer' = TRUE

EnterCooldown ==
  /\ Goto("Cooldown", NoLink)
  /\ cooldownIdx' = IF cooldownIdx < LastBackoff THEN cooldownIdx + 1
                    ELSE cooldownIdx
  /\ cooldownTimer' = TRUE

\* Mutant: a failure counts only in Opening.
AttemptFailedInOpening ==
  /\ current' = NoLink
  /\ IF state = "Opening" THEN EnterCooldown
     ELSE UNCHANGED <<state, polling, drain, cooldownIdx, cooldownTimer>>
  /\ UNCHANGED <<run, session, priority, heldTimer, heldBy, queue, paused,
                 clients>>

\* The catch blocks of openAndHandshake.
AttemptFailed ==
  /\ current' = NoLink
  /\ EnterCooldown
  /\ UNCHANGED <<run, session, priority, heldTimer, heldBy, queue, paused,
                 clients>>

\* Mutant: the listener checks the state before it clears the session.
DisconnectedIfConnected(l) ==
  IF session # l \/ state # "Connected"
  THEN UNCHANGED <<mgr, cooldownIdx, cooldownTimer, drain, polling>>
  ELSE /\ session' = NoLink
       /\ current' = NoLink
       /\ UNCHANGED priority
       /\ EnterCooldown

\* The 'disconnect' listener openAndHandshake leaves on session l.
Disconnected(l) ==
  IF session # l
  THEN UNCHANGED <<mgr, cooldownIdx, cooldownTimer, drain, polling>>
  ELSE /\ session' = NoLink
       /\ current' = NoLink
       /\ UNCHANGED priority
       /\ IF state = "Connected" THEN EnterCooldown
          ELSE UNCHANGED <<state, cooldownIdx, cooldownTimer, drain, polling>>

Free(l) == pc[l] = "idle" /\ tr[l] = "none" /\ current # l

\* The port or peripheral is taken by another transport of this process.
Busy(l) == \E m \in Link \ {l} : cand[m] = cand[l] /\ tr[m] # "none"

\* Somebody awaits the close of l.
Awaited(l) ==
  \/ \E c \in FlashClient : hold[c] = "closing" /\ holdOn[c] = l
  \/ \E m \in Link : pc[m] = "swap" /\ old[m] = l

\* A continuation is queued as a microtask: no other event runs before it.
Settling ==
  \/ \E c \in FlashClient : hold[c] = "closing" /\ tr[holdOn[c]] = "none"
  \/ \E l \in Link : pc[l] = "swap" /\ tr[old[l]] = "none"
  \/ \E l \in Link : pc[l] = "hello" /\ tr[l] = "none"

\* The transports after close() of link l, which may be NoLink.
Closing(l) ==
  IF l \in Link /\ tr[l] = "open" THEN [tr EXCEPT ![l] = "closing"] ELSE tr

\* Where openAndHandshake first waits: a serial transport exists at once, a
\* BLE one only when connect resolves.
FirstWait(c) == IF c \in SerialCand THEN "open" ELSE "connect"
CurrentAfterOpen(l, c) == IF c \in SerialCand THEN l ELSE current

-----------------------------------------------------------------------------
(* Life of the manager and what its discoveries tell it. *)

Start ==
  /\ ~Settling
  /\ run = "new"
  /\ run' = "started"
  /\ polling' = ShouldRun(state, current)
  /\ UNCHANGED <<mgr, timers, queue, drain, paused, links, clients>>

Stop ==
  /\ ~Settling
  /\ run = "started"
  /\ run' = "stopped"
  /\ cooldownTimer' = FALSE
  /\ heldTimer' = FALSE
  /\ tr' = Closing(session)
  /\ pc' = IF session = NoLink THEN pc ELSE [pc EXCEPT ![session] = "idle"]
  /\ session' = NoLink
  /\ current' = NoLink
  /\ priority' = 0
  /\ queue' = {}
  /\ polling' = FALSE
  /\ UNCHANGED <<state, cooldownIdx, heldBy, drain, paused, cand, old, clients>>

\* Mutant: a late BLE candidate is taken although BLE was paused meanwhile.
ReportedAlways(c) == run # "new"

\* A scan in flight may report after its discovery was stopped.
Reported(c) == run # "new" /\ (c \in BleCand => paused = {})

QueueCandidate(c) ==
  /\ ~Settling
  /\ Reported(c)
  /\ state = "Scanning"
  /\ queue' = queue \cup {c}
  /\ drain' = TRUE
  /\ UNCHANGED <<run, mgr, timers, paused, polling, links, clients>>

\* onCandidate -> replaceWithCandidate.  The poller reports a port twice
\* ('attached', then 'candidate'): the second report finds the manager in
\* Scanning and is queued.  The session is destroyed before the transport's
\* close is awaited, so the wait is real only for another link's transport.
ReplaceWithCandidate(l, c) ==
  /\ ~Settling
  /\ Reported(c)
  /\ state = "Connected"
  /\ Prio(c) > priority
  /\ Free(l)
  /\ LET waits == current # session /\ current # NoLink /\ tr[current] = "open"
         pc1 == IF session = NoLink THEN pc ELSE [pc EXCEPT ![session] = "idle"]
         pc2 == IF current # NoLink /\ pc[current] = "open"
                THEN [pc1 EXCEPT ![current] = "openClosed"] ELSE pc1
         tr1 == Closing(session)
     IN /\ tr' = IF waits THEN [tr1 EXCEPT ![current] = "closing"] ELSE tr1
        /\ pc' = [pc2 EXCEPT ![l] = IF waits THEN "swap" ELSE FirstWait(c)]
        /\ old' = IF waits THEN [old EXCEPT ![l] = current] ELSE old
        /\ state' = IF waits THEN "Scanning" ELSE "Opening"
        /\ current' = IF waits \/ c \in BleCand THEN NoLink ELSE l
        /\ polling' = IF run = "started" THEN waits ELSE polling
  /\ cand' = [cand EXCEPT ![l] = c]
  /\ session' = NoLink
  /\ priority' = 0
  /\ queue' = IF c \in SerialCand THEN queue \cup {c} ELSE queue
  /\ drain' = TRUE
  /\ UNCHANGED <<run, timers, paused, clients>>

\* replaceWithCandidate resumes; openAndHandshake returns unless Scanning.
SwapClosed(l) ==
  /\ pc[l] = "swap"
  /\ tr[old[l]] = "none"
  /\ old' = [old EXCEPT ![l] = NoLink]
  /\ IF state = "Scanning"
     THEN /\ current' = CurrentAfterOpen(l, cand[l])
          /\ Goto("Opening", CurrentAfterOpen(l, cand[l]))
          /\ pc' = [pc EXCEPT ![l] = FirstWait(cand[l])]
          /\ UNCHANGED cand
     ELSE /\ pc' = [pc EXCEPT ![l] = "idle"]
          /\ cand' = [cand EXCEPT ![l] = NoCand]
          /\ UNCHANGED <<state, current, polling, drain>>
  /\ UNCHANGED <<run, session, priority, timers, queue, paused, tr, clients>>

\* Mutant: the drain does not look at the state again.
OpenBestInAnyState(l, c) ==
  /\ ~Settling
  /\ drain
  /\ c \in queue
  /\ Free(l)
  /\ queue' = {}
  /\ drain' = FALSE
  /\ state' = "Opening"
  /\ current' = CurrentAfterOpen(l, c)
  /\ polling' = IF run = "started" THEN FALSE ELSE polling
  /\ pc' = [pc EXCEPT ![l] = FirstWait(c)]
  /\ cand' = [cand EXCEPT ![l] = c]
  /\ UNCHANGED <<run, session, priority, timers, paused, tr, old, clients>>

\* drainCandidates in Scanning: the best candidate is opened, the others are
\* forgotten.  Candidates of one kind are ordered by lastSeenAt: any of them.
OpenBest(l, c) ==
  /\ ~Settling
  /\ drain
  /\ state = "Scanning"
  /\ c \in queue
  /\ \A d \in queue : Prio(d) <= Prio(c)
  /\ Free(l)
  /\ queue' = {}
  /\ drain' = FALSE
  /\ state' = "Opening"
  /\ current' = CurrentAfterOpen(l, c)
  /\ polling' = IF run = "started" THEN FALSE ELSE polling
  /\ pc' = [pc EXCEPT ![l] = FirstWait(c)]
  /\ cand' = [cand EXCEPT ![l] = c]
  /\ UNCHANGED <<run, session, priority, timers, paused, tr, old, clients>>

\* drainCandidates in another state leaves the queue as it is.
DrainNothing ==
  /\ ~Settling
  /\ drain
  /\ state # "Scanning" \/ queue = {}
  /\ drain' = FALSE
  /\ UNCHANGED <<run, mgr, timers, queue, paused, polling, links, clients>>

-----------------------------------------------------------------------------
(* The steps of openAndHandshake. *)

BleConnected(l) ==
  /\ ~Settling
  /\ pc[l] = "connect"
  /\ ~Busy(l)
  /\ pc' = [pc EXCEPT ![l] = "hello"]
  /\ tr' = [tr EXCEPT ![l] = "open"]
  /\ current' = l
  /\ Goto("Handshaking", l)
  /\ UNCHANGED <<run, session, priority, timers, queue, paused, cand, old,
                 clients>>

\* A failure after the peripheral was connected leaves it connected.
BleConnectFails(l) ==
  /\ ~Settling
  /\ pc[l] = "connect"
  /\ pc' = [pc EXCEPT ![l] = "idle"]
  /\ \/ UNCHANGED tr /\ cand' = [cand EXCEPT ![l] = NoCand]
     \/ ~Busy(l) /\ tr' = [tr EXCEPT ![l] = "stuck"] /\ UNCHANGED cand
  /\ UNCHANGED old
  /\ AttemptFailed

\* SerialPort.open calls back.  After close() the transport has no port left
\* to set DTR on: the promise is never resolved and the port stays open.
SerialOpened(l) ==
  /\ ~Settling
  /\ pc[l] \in {"open", "openClosed"}
  /\ ~Busy(l)
  /\ pc' = [pc EXCEPT ![l] = IF pc[l] = "open" THEN "set" ELSE "hung"]
  /\ tr' = [tr EXCEPT ![l] = IF pc[l] = "open" THEN "open" ELSE "stuck"]
  /\ UNCHANGED <<run, mgr, timers, disco, cand, old, clients>>

SerialOpenFails(l) ==
  /\ ~Settling
  /\ pc[l] \in {"open", "openClosed"}
  /\ pc' = [pc EXCEPT ![l] = "idle"]
  /\ cand' = [cand EXCEPT ![l] = NoCand]
  /\ UNCHANGED <<tr, old>>
  /\ AttemptFailed

SerialReady(l) ==
  /\ ~Settling
  /\ pc[l] = "set"
  /\ tr[l] = "open"
  /\ pc' = [pc EXCEPT ![l] = "hello"]
  /\ Goto("Handshaking", current)
  /\ UNCHANGED <<run, session, current, priority, timers, queue, paused, cand,
                 tr, old, clients>>

\* SerialPort.set fails, or the transport was closed meanwhile; the failed
\* transport is dropped without a close().
SerialSetFails(l) ==
  /\ ~Settling
  /\ pc[l] = "set"
  /\ pc' = [pc EXCEPT ![l] = "idle"]
  /\ tr' = [tr EXCEPT ![l] = IF tr[l] = "open" THEN "stuck" ELSE tr[l]]
  /\ cand' = [cand EXCEPT ![l] = IF tr[l] = "none" THEN NoCand ELSE cand[l]]
  /\ UNCHANGED old
  /\ AttemptFailed

\* hello.ack: bytes already read are delivered even while the port closes.
HelloAcked(l) ==
  /\ ~Settling
  /\ pc[l] = "hello"
  /\ tr[l] # "none"
  /\ pc' = [pc EXCEPT ![l] = "up"]
  /\ session' = l
  /\ priority' = Prio(cand[l])
  /\ cooldownIdx' = 0
  /\ Goto("Connected", current)
  /\ UNCHANGED <<run, current, cooldownTimer, heldTimer, heldBy, queue, paused,
                 cand, tr, old, clients>>

\* Mutant: the session whose hello failed is not destroyed.
HelloFailsUndestroyed(l) ==
  /\ ~Settling
  /\ pc[l] = "hello"
  /\ tr[l] # "none"
  /\ pc' = [pc EXCEPT ![l] = "idle"]
  /\ UNCHANGED <<tr, cand, old>>
  /\ AttemptFailed

\* The hello times out, its write fails or the answer is not a hello.ack.
HelloFails(l) ==
  /\ ~Settling
  /\ pc[l] = "hello"
  /\ tr[l] # "none"
  /\ pc' = [pc EXCEPT ![l] = "idle"]
  /\ tr' = Closing(l)
  /\ UNCHANGED <<cand, old>>
  /\ AttemptFailed

\* The transport closed: the pending hello is rejected.  The rejection takes
\* one microtask more than the continuation of whoever awaited the close.
HelloRejected(l) ==
  /\ pc[l] = "hello"
  /\ tr[l] = "none"
  /\ ~Awaited(l)
  /\ pc' = [pc EXCEPT ![l] = "idle"]
  /\ cand' = [cand EXCEPT ![l] = NoCand]
  /\ UNCHANGED <<tr, old>>
  /\ AttemptFailed

-----------------------------------------------------------------------------
(* Transports and sessions end. *)

\* The transport's 'close' event.
TransportClosed(l) ==
  /\ tr' = [tr EXCEPT ![l] = "none"]
  /\ IF pc[l] \in {"set", "hello"} THEN UNCHANGED <<pc, cand>>
     ELSE /\ pc' = [pc EXCEPT ![l] = "idle"]
          /\ cand' = IF current = l /\ session # l THEN cand
                     ELSE [cand EXCEPT ![l] = NoCand]
  /\ IF pc[l] = "up" THEN Disconnected(l)
     ELSE UNCHANGED <<mgr, cooldownIdx, cooldownTimer, drain, polling>>
  /\ UNCHANGED <<run, heldTimer, heldBy, queue, paused, old, clients>>

CloseCompletes(l) == ~Settling /\ tr[l] = "closing" /\ TransportClosed(l)

\* The cable is pulled or the radio link drops.
LinkLost(l) ==
  ~Settling /\ tr[l] \in {"open", "stuck"} /\ TransportClosed(l)

\* Too many missed pings: forceDisconnect.
WatchdogFires(l) ==
  /\ ~Settling
  /\ pc[l] = "up"
  /\ pc' = [pc EXCEPT ![l] = "idle"]
  /\ tr' = Closing(l)
  /\ Disconnected(l)
  /\ UNCHANGED <<run, heldTimer, heldBy, queue, paused, cand, old, clients>>

CooldownExpires ==
  /\ ~Settling
  /\ cooldownTimer
  /\ cooldownTimer' = FALSE
  /\ IF state = "Cooldown" /\ run = "started" THEN Goto("Scanning", current)
     ELSE UNCHANGED <<state, polling, drain>>
  /\ UNCHANGED <<run, session, current, priority, cooldownIdx, heldTimer, heldBy,
                 queue, paused, links, clients>>

-----------------------------------------------------------------------------
(* Control clients: m5ct flash and m5ct pair. *)

\* The last part of flashHold, after the transport is closed.
Granted(c) ==
  /\ current' = NoLink
  /\ cooldownTimer' = FALSE
  /\ Goto("Held", NoLink)
  /\ heldTimer' = TRUE
  /\ hold' = [hold EXCEPT ![c] = "held"]

\* flashHold up to its await.  close() of a transport that is still opening,
\* or that its session's destroy() has closed, returns at once.  In state
\* Held the client is told already_held and nothing changes.
FlashHold(c) ==
  /\ ~Settling
  /\ hold[c] = "idle"
  /\ state # "Held"
  /\ heldBy' = c
  /\ nameless' = {d \in FlashClient \ {c} : hold[d] \in {"closing", "held"}}
  /\ session' = NoLink
  /\ LET waits == current # session /\ current # NoLink /\ tr[current] = "open"
         pc1 == IF session = NoLink THEN pc ELSE [pc EXCEPT ![session] = "idle"]
         tr1 == Closing(session)
     IN IF waits
        THEN /\ tr' = [tr1 EXCEPT ![current] = "closing"]
             /\ pc' = pc1
             /\ hold' = [hold EXCEPT ![c] = "closing"]
             /\ holdOn' = [holdOn EXCEPT ![c] = current]
             /\ UNCHANGED <<state, current, cooldownTimer, heldTimer, drain,
                            polling>>
        ELSE /\ tr' = tr1
             /\ pc' = IF current # NoLink /\ pc[current] = "open"
                      THEN [pc1 EXCEPT ![current] = "openClosed"] ELSE pc1
             /\ Granted(c)
             /\ UNCHANGED holdOn
  /\ UNCHANGED <<run, priority, cooldownIdx, queue, paused, cand, old>>

\* Mutant: flashHold resumes only if heldBy still names its client.
HoldClosedIfHolder(c) ==
  /\ hold[c] = "closing"
  /\ heldBy = c
  /\ tr[holdOn[c]] = "none"
  /\ Granted(c)
  /\ holdOn' = [holdOn EXCEPT ![c] = NoLink]
  /\ UNCHANGED <<run, session, priority, cooldownIdx, heldBy, queue, paused,
                 links, nameless>>

HoldClosed(c) ==
  /\ hold[c] = "closing"
  /\ tr[holdOn[c]] = "none"
  /\ Granted(c)
  /\ holdOn' = [holdOn EXCEPT ![c] = NoLink]
  /\ UNCHANGED <<run, session, priority, cooldownIdx, heldBy, queue, paused,
                 links, nameless>>

\* Mutant: a release is not checked against heldBy.
FlashReleaseByAnyone(c) ==
  /\ ~Settling
  /\ hold[c] \in {"held", "expired"}
  /\ hold' = [hold EXCEPT ![c] = "idle"]
  /\ nameless' = nameless \ {c}
  /\ IF state = "Held"
     THEN /\ heldTimer' = FALSE
          /\ heldBy' = NoClient
          /\ Goto("Scanning", current)
     ELSE UNCHANGED <<state, heldTimer, heldBy, polling, drain>>
  /\ UNCHANGED <<run, session, current, priority, cooldownIdx, cooldownTimer,
                 queue, paused, links, holdOn>>

\* m5ct flash is done: flashRelease, refused as not_held or wrong_client.
FlashRelease(c) ==
  /\ ~Settling
  /\ hold[c] \in {"held", "expired"}
  /\ hold' = [hold EXCEPT ![c] = "idle"]
  /\ nameless' = nameless \ {c}
  /\ IF state = "Held" /\ heldBy \in {NoClient, c}
     THEN /\ heldTimer' = FALSE
          /\ heldBy' = NoClient
          /\ Goto("Scanning", current)
     ELSE UNCHANGED <<state, heldTimer, heldBy, polling, drain>>
  /\ UNCHANGED <<run, session, current, priority, cooldownIdx, cooldownTimer,
                 queue, paused, links, holdOn>>

\* m5ct flash dies without releasing.
FlashClientDies(c) ==
  /\ ~Settling
  /\ hold[c] \in {"held", "expired"}
  /\ hold' = [hold EXCEPT ![c] = "idle"]
  /\ nameless' = nameless \ {c}
  /\ UNCHANGED <<run, mgr, timers, disco, links, holdOn>>

\* The hold timer fires; "expired" records that the grants are over.  It also
\* clears the name of a client whose flashHold still awaits its close.
HeldExpires ==
  /\ ~Settling
  /\ heldTimer
  /\ heldTimer' = FALSE
  /\ heldBy' = NoClient
  /\ hold' = [c \in FlashClient |-> IF hold[c] = "held" THEN "expired" ELSE hold[c]]
  /\ nameless' = {c \in FlashClient : hold[c] = "closing"}
  /\ IF state = "Held" THEN Goto("Scanning", current)
     ELSE UNCHANGED <<state, polling, drain>>
  /\ UNCHANGED <<run, session, current, priority, cooldownIdx, cooldownTimer,
                 queue, paused, links, holdOn>>

PauseBle(p) ==
  /\ ~Settling
  /\ p \notin paused
  /\ paused' = paused \cup {p}
  /\ queue' = queue \ BleCand
  /\ polling' = IF run = "started" THEN ShouldRun(state, current) ELSE polling
  /\ UNCHANGED <<run, mgr, timers, drain, links, clients>>

\* rescan() restarts every discovery, whatever the state.  Only m5ct pair and
\* the commands that edit the device list call it.
Rescan(p) ==
  /\ ~Settling
  /\ run = "started"
  /\ polling' = TRUE
  /\ UNCHANGED <<run, mgr, timers, queue, drain, paused, links, clients>>

ResumeBle(p) ==
  /\ ~Settling
  /\ p \in paused
  /\ paused' = paused \ {p}
  /\ polling' = IF run = "started" THEN TRUE ELSE polling
  /\ UNCHANGED <<run, mgr, timers, queue, drain, links, clients>>

-----------------------------------------------------------------------------
Discovered ==
  \/ \E c \in Cand : QueueCandidate(c)
  \/ \E l \in Link, c \in Cand : ReplaceWithCandidate(l, c)

Drain == DrainNothing \/ \E l \in Link, c \in Cand : OpenBest(l, c)

\* The steps that end an attempt's wait, other than a BLE connect.
AttemptStep(l) ==
  \/ SerialOpened(l) \/ SerialOpenFails(l)
  \/ SerialReady(l) \/ SerialSetFails(l)
  \/ HelloAcked(l) \/ HelloFails(l)

Microtask ==
  \/ \E c \in FlashClient : HoldClosed(c)
  \/ \E l \in Link : SwapClosed(l) \/ HelloRejected(l)

FlashStep(c) == FlashHold(c) \/ FlashRelease(c) \/ FlashClientDies(c)

LinkStep(l) ==
  \/ BleConnected(l) \/ BleConnectFails(l) \/ AttemptStep(l)
  \/ CloseCompletes(l) \/ LinkLost(l) \/ WatchdogFires(l)

Macrotask ==
  \/ Start \/ Stop
  \/ Discovered \/ Drain
  \/ CooldownExpires \/ HeldExpires
  \/ \E l \in Link : LinkStep(l)
  \/ \E c \in FlashClient : FlashStep(c)
  \/ \E p \in PairClient : PauseBle(p) \/ ResumeBle(p) \/ Rescan(p)

\* Every macrotask is guarded by ~Settling.
Next == Microtask \/ Macrotask

\* Timers fire, immediates run, serial calls call back, a close completes and
\* a hello is answered or times out.  Callbacks from outside the event loop are
\* strongly fair: a burst of microtasks only delays them.  Nothing bounds a BLE
\* connect.
Fairness ==
  /\ WF_vars(Microtask)
  /\ WF_vars(Drain)
  /\ WF_vars(CooldownExpires)
  /\ WF_vars(HeldExpires)
  /\ \A l \in Link : SF_vars(AttemptStep(l)) /\ SF_vars(CloseCompletes(l))

Spec == Init /\ [][Next]_vars
FairSpec == Spec /\ Fairness

-----------------------------------------------------------------------------
(* Properties *)

\* A hold always has its expiry timer: a flash client that dies cannot keep
\* the device for ever (flashHold arms the timer on every path to Held).
HoldHasTimer == state = "Held" /\ run # "stopped" => heldTimer

\* Cooldown always has its timer, although transitions by other attempts and
\* flashHold may have disarmed or consumed an earlier one (enterCooldown).
CooldownHasTimer == state = "Cooldown" /\ run = "started" => cooldownTimer

\* The manager is in a transient state only while an attempt is under way
\* that will take it out of it, however attempts and holds overlap.
TransientHasAttempt ==
  /\ state = "Opening" =>
       \E l \in Link : pc[l] \in {"connect", "open", "set"}
  /\ state = "Handshaking" => \E l \in Link : pc[l] = "hello"

\* The session the manager publishes has completed its hello, has not been
\* told of a disconnect and is the one currentPriority is about.
SessionIsLive ==
  session # NoLink =>
    /\ pc[session] = "up"
    /\ tr[session] \in {"open", "closing"}
    /\ priority = Prio(cand[session])

\* Being connected restarts the back-off, even after a straggling attempt of
\* an earlier round failed and lengthened it.
ConnectedRestartsBackoff == state = "Connected" => cooldownIdx = 0

\* While the manager scans, its discoveries run and what they have queued is
\* about to be drained: Scanning is never a dead end.
ScanningMakesProgress ==
  state = "Scanning" =>
    /\ run = "started" => polling
    /\ queue # {} => drain

\* No state of a running manager is a dead end: each has the timer, the attempt
\* or the running discoveries that will take the manager out of it, whatever
\* attempts, holds and stop() have overlapped before.
AlwaysAWayOn ==
  /\ HoldHasTimer
  /\ CooldownHasTimer
  /\ TransientHasAttempt
  /\ ScanningMakesProgress

\* While a pairing client has paused BLE no BLE candidate is kept for later.
PausedQueueIsSerial == paused # {} => queue \cap BleCand = {}

\* While BLE is paused no attempt at a BLE link begins (pauseBle).
PauseBlocksBle ==
  [][\A l \in Link :
       (paused # {} /\ pc'[l] = "connect") => pc[l] \in {"connect", "swap"}]_vars

\* A granted hold is ended by its own client or by its timer, and by no other
\* client's release, however late that release or an earlier hold's timer comes.
\* Excepted are the holds whose name is lost (nameless), in two ways the checks
\* at the top of flashHold and flashRelease leave open: another client's
\* flashHold was accepted meanwhile, since an attempt under way had left Held;
\* or the timer of an earlier hold fired while this one awaited its close, so
\* that heldBy is null and flashRelease refuses nobody.
HoldNotReleasedByOthers ==
  [][\A c \in FlashClient \ nameless :
       (state = "Held" /\ hold[c] = "held" /\ hold'[c] = "held")
         => state' # "Scanning"]_vars

\* Without a racing flash there is never more than one attempt or session, and
\* a session that answers pings is the one the manager publishes.
OneLinkAtATime ==
  /\ \A l, m \in Link :
       (pc[l] \notin {"idle", "hung"} /\ pc[m] \notin {"idle", "hung"}) => l = m
  /\ \A l \in Link : pc[l] = "up" => session = l

\* The stage of the session on link l, as the manager sees it.
Stage(l) ==
  IF pc[l] = "hello" /\ tr[l] # "none" THEN "hello"
  ELSE IF pc[l] = "up" THEN "up" ELSE "idle"

\* The promise of the session on link l, in a step in which it does not emit
\* 'disconnect', and in one in which it does as soon as it ends.
Unheard(l) == INSTANCE SessionPromise WITH stage <- Stage(l), link <- tr[l], told <- FALSE
Heard(l) == INSTANCE SessionPromise
              WITH stage <- Stage(l), link <- tr[l], told <- (Stage(l) = "idle")

\* Where there is no session, none begins but as promised.  Otherwise the
\* session does what it promises, and a 'disconnect' ends its publication.
Promised(l) ==
  IF Stage(l) = "idle"
  THEN Stage(l)' = "idle" \/ Unheard(l)!PromiseInit'
  ELSE \/ Unheard(l)!PromiseNext
       \/ Heard(l)!PromiseNext /\ (session = l => session' = NoLink)
       \/ UNCHANGED <<Stage(l), tr[l]>>

\* The manager expects of its sessions, and does to them, only what a session
\* implements (ImplementsPromise of DeviceSession): each begins on an open
\* transport, ends once and is heard of at most once, although attempts, holds
\* and replacements leave sessions behind that nobody publishes.
SessionsAsPromised == [][\A l \in Link : Promised(l)]_vars

\* A hold ends by itself, also when its client is gone.
HoldEnds == (state = "Held" /\ run = "started") ~> (state # "Held" \/ run = "stopped")

\* Every cooldown ends, and so does every attempt whose port calls back: serial
\* attempts do, a BLE connect has no time limit.
CooldownEnds ==
  (state = "Cooldown" /\ run = "started") ~> (state # "Cooldown" \/ run = "stopped")
AttemptEnds ==
  (state \in {"Opening", "Handshaking"}) ~> (state \notin {"Opening", "Handshaking"})

\* A flash client always gets an answer.
FlashAnswered == \A c \in FlashClient : (hold[c] = "closing") ~> (hold[c] # "closing")

\* What the documentation says of flashHold: the port is closed, the manager
\* stays Held, and a second client is rejected.
PortClosedWhileHeld ==
  \A c \in FlashClient, l \in Link :
    (hold[c] = "held" /\ cand[l] \in SerialCand) => tr[l] = "none"
HeldUntilReleased == (\E c \in FlashClient : hold[c] = "held") => state = "Held"
OneHolder == \A c, d \in FlashClient : hold[c] = "held" /\ hold[d] = "held" => c = d
=============================================================================
