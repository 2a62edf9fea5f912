------------------------------ MODULE HostLink ------------------------------
(***************************************************************************)
(* The device manager composed with the two discoveries that feed it:      *)
(* DevicePoller (packages/daemon/src/device-poller.ts) lists serial ports  *)
(* and reports the ones it has not seen, BleDiscovery                      *)
(* (packages/daemon/src/ble/discovery.ts) looks for the paired peripheral. *)
(* A scan awaits the operating system, so its result may arrive after the  *)
(* manager has stopped the discovery.                                      *)
(***************************************************************************)
EXTENDS DeviceManager

VARIABLES
  ports,     \* the serial ports that are plugged in (environment)
  seen,      \* DevicePoller.seen
  inScan,    \* DevicePoller.inScan
  bleScan    \* BleDiscovery.inScan

linkVars == <<vars, ports, seen, inScan, bleScan>>

LinkTypeOK ==
  /\ TypeOK
  /\ ports \subseteq SerialCand
  /\ seen \subseteq SerialCand
  /\ inScan \in BOOLEAN
  /\ bleScan \in BOOLEAN

LinkInit ==
  /\ Init
  /\ ports \in SUBSET SerialCand
  /\ seen = {}
  /\ inScan = FALSE
  /\ bleScan = FALSE

\* BleDiscovery.scan returns at once unless a default device is paired.
Paired == BleCand # {}

\* Mutant: stop() does not forget the ports seen.
DiscoveriesFollowKeepingSeen(restart) ==
  LET starts == polling' /\ (restart \/ ~polling)
  IN /\ seen' = seen
     /\ inScan' = (inScan \/ starts)
     /\ bleScan' = (bleScan \/ (starts /\ Paired))

\* What the manager's start() and stop() calls do to the discoveries: start()
\* scans at once and stop() forgets the ports seen.  rescan() calls both.
DiscoveriesFollow(restart) ==
  LET starts == polling' /\ (restart \/ ~polling)
      stops  == polling /\ (restart \/ ~polling')
  IN /\ seen' = IF stops THEN {} ELSE seen
     /\ inScan' = (inScan \/ starts)
     /\ bleScan' = (bleScan \/ (starts /\ Paired))

\* A port that is not plugged in cannot be opened.
OpensWhatIsThere ==
  \A l \in Link :
    (tr[l] = "none" /\ tr'[l] # "none" /\ cand[l] \in SerialCand) => cand[l] \in ports

ManagerStep ==
  \/ /\ \/ Start \/ Stop \/ Drain \/ CooldownExpires \/ HeldExpires
        \/ Microtask
        \/ \E l \in Link : LinkStep(l)
        \/ \E c \in FlashClient : FlashStep(c)
        \/ \E p \in PairClient : PauseBle(p)
     /\ OpensWhatIsThere
     /\ DiscoveriesFollow(FALSE)
     /\ UNCHANGED ports
  \/ /\ \E p \in PairClient : ResumeBle(p) \/ Rescan(p)
     /\ DiscoveriesFollow(run = "started")
     /\ UNCHANGED ports

\* onCandidate drops a candidate it has no use for.
Dropped(c) ==
  /\ ~Settling
  /\ \/ c \in BleCand /\ paused # {}
     \/ state \notin {"Scanning", "Connected"}
     \/ state = "Connected" /\ Prio(c) <= priority
  /\ UNCHANGED vars

OnCandidate(c) ==
  \/ QueueCandidate(c)
  \/ \E l \in Link : ReplaceWithCandidate(l, c)
  \/ Dropped(c)

\* The interval timers.  A drain scheduled with setImmediate runs before the
\* next timer.
ScanBegins ==
  /\ polling
  /\ ~inScan
  /\ ~drain
  /\ ~Settling
  /\ inScan' = TRUE
  /\ UNCHANGED <<vars, ports, seen, bleScan>>

BleScanBegins ==
  /\ polling
  /\ Paired
  /\ ~bleScan
  /\ ~drain
  /\ ~Settling
  /\ bleScan' = TRUE
  /\ UNCHANGED <<vars, ports, seen, inScan>>

\* SerialPort.list resolves.  The manager stops the poller, if it does, after
\* the scan has stored what it saw; a poller stopped earlier stores it anyway.
ScanCompletes ==
  /\ inScan
  /\ ~Settling
  /\ inScan' = FALSE
  /\ \/ ports \subseteq seen /\ UNCHANGED vars
     \/ \E c \in SerialCand : ports \ seen = {c} /\ OnCandidate(c)
  /\ seen' = IF polling /\ ~polling' THEN {} ELSE ports
  /\ UNCHANGED <<ports, bleScan>>

ScanFails ==
  /\ inScan
  /\ ~Settling
  /\ inScan' = FALSE
  /\ UNCHANGED <<vars, ports, seen, bleScan>>

BleScanCompletes ==
  /\ bleScan
  /\ ~Settling
  /\ bleScan' = FALSE
  /\ UNCHANGED vars \/ \E c \in BleCand : OnCandidate(c)
  /\ seen' = IF polling /\ ~polling' THEN {} ELSE seen
  /\ UNCHANGED <<ports, inScan>>

\* A cable is plugged in or pulled.
Plug(c) ==
  /\ ~Settling
  /\ ports' = ports \cup {c}
  /\ UNCHANGED <<vars, seen, inScan, bleScan>>

Unplug(c) ==
  /\ ~Settling
  /\ ports' = ports \ {c}
  /\ UNCHANGED <<vars, seen, inScan, bleScan>>

LinkNext ==
  \/ ManagerStep
  \/ ScanBegins \/ ScanCompletes \/ ScanFails
  \/ BleScanBegins \/ BleScanCompletes
  \/ \E c \in SerialCand : Plug(c) \/ Unplug(c)

\* A scan is repeated every interval and list() answers, now and then without
\* an error.
LinkFairness ==
  /\ Fairness
  /\ SF_linkVars(ScanBegins)
  /\ SF_linkVars(ScanCompletes)

LinkSpec == LinkInit /\ [][LinkNext]_linkVars
FairLinkSpec == LinkSpec /\ LinkFairness

-----------------------------------------------------------------------------
(* Properties *)

\* The manager does not scan for ever while a display is plugged in.
NeverStranded ==
  []<>~(state = "Scanning" /\ run = "started" /\ ports # {})

OverBle == state = "Connected" /\ session # NoLink /\ cand[session] \in BleCand

\* What the documentation says: whatever serial port is there takes over.
SerialOverridesBle == []<>~(OverBle /\ run = "started" /\ ports # {})
=============================================================================
