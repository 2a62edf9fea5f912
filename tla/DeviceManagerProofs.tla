------------------------- MODULE DeviceManagerProofs -------------------------
(* TLAPS proofs of the safety properties of DeviceManager, for any sets of   *)
(* candidates, links and clients, and that they hold of HostLink, the manager *)
(* with its discoveries.                                                     *)
EXTENDS HostLink, TLAPS

\* The type of what transition() writes.
LEMMA GotoType ==
  ASSUME TypeOK, NEW next \in States, NEW cur, Goto(next, cur)
  PROVE  state' \in States /\ polling' \in BOOLEAN /\ drain' \in BOOLEAN
BY DEF Goto, ShouldRun, TypeOK

\* The type of what enterCooldown() writes.
LEMMA EnterCooldownType ==
  ASSUME TypeOK, EnterCooldown
  PROVE  /\ state' = "Cooldown" /\ polling' \in BOOLEAN /\ drain' \in BOOLEAN
         /\ cooldownIdx' \in 0..LastBackoff /\ cooldownTimer' = TRUE
<1>1. "Cooldown" \in States BY DEF States
<1>2. Goto("Cooldown", NoLink) BY DEF EnterCooldown
<1>3. polling' \in BOOLEAN /\ drain' \in BOOLEAN
  BY <1>1, <1>2, GotoType
<1>4. cooldownIdx' \in 0..LastBackoff
  BY BackoffAssumption DEF EnterCooldown, TypeOK
<1> QED BY <1>2, <1>3, <1>4 DEF EnterCooldown, Goto

\* A failed attempt keeps the manager's part of the state well typed.
LEMMA AttemptFailedType ==
  ASSUME TypeOK, AttemptFailed,
         pc' \in [Link -> Pcs], cand' \in [Link -> Cand \cup {NoCand}],
         tr' \in [Link -> Trs], old' = old
  PROVE  TypeOK'
<1>1. EnterCooldown BY DEF AttemptFailed
<1>2. state' \in States BY <1>1, EnterCooldownType DEF States
<1> QED BY <1>1, <1>2, EnterCooldownType DEF AttemptFailed, TypeOK, clients

\* Hearing of a disconnect keeps the manager's part of the state well typed.
LEMMA DisconnectedType ==
  ASSUME TypeOK, NEW l \in Link, Disconnected(l)
  PROVE  /\ state' \in States /\ polling' \in BOOLEAN /\ drain' \in BOOLEAN
         /\ session' \in Link \cup {NoLink} /\ current' \in Link \cup {NoLink}
         /\ cooldownIdx' \in 0..LastBackoff /\ cooldownTimer' \in BOOLEAN
         /\ priority' = priority
<1>1. CASE EnterCooldown /\ session' = NoLink /\ current' = NoLink /\ UNCHANGED priority
  BY <1>1, EnterCooldownType DEF States
<1>2. CASE ~(EnterCooldown /\ session' = NoLink /\ current' = NoLink /\ UNCHANGED priority)
  BY <1>2 DEF Disconnected, TypeOK, mgr
<1> QED BY <1>1, <1>2

\* close() and openAndHandshake's first wait keep the links well typed.
LEMMA HelperTypes ==
  ASSUME TypeOK
  PROVE  /\ \A l : Closing(l) \in [Link -> Trs]
         /\ \A c : FirstWait(c) \in Pcs /\ FirstWait(c) \in {"open", "connect"}
         /\ \A c : Prio(c) \in {0, BLE_PRIORITY, SERIAL_PRIORITY}
         /\ \A st, cur : ShouldRun(st, cur) \in BOOLEAN
         /\ \A l \in Link : \A c : CurrentAfterOpen(l, c) \in Link \cup {NoLink}
BY DEF TypeOK, Closing, FirstWait, Prio, ShouldRun, CurrentAfterOpen, Pcs, Trs

\* The constructor's state is well typed.
LEMMA TypeInit == ASSUME Init PROVE TypeOK
<1>1. cooldownIdx \in 0..LastBackoff /\ state \in States
  BY BackoffAssumption DEF Init, States
<1>2. /\ pc \in [Link -> Pcs] /\ tr \in [Link -> Trs]
      /\ cand \in [Link -> Cand \cup {NoCand}] /\ old \in [Link -> Link \cup {NoLink}]
      /\ hold \in [FlashClient -> {"idle", "closing", "held", "expired"}]
      /\ holdOn \in [FlashClient -> Link \cup {NoLink}]
  BY DEF Init, Pcs, Trs
<1>3. /\ cooldownTimer \in BOOLEAN /\ heldTimer \in BOOLEAN
      /\ drain \in BOOLEAN /\ polling \in BOOLEAN
  BY DEF Init
<1> QED BY <1>1, <1>2, <1>3 DEF Init, TypeOK

\* Every handler keeps the state well typed.
LEMMA TypeNext == ASSUME TypeOK, [Next]_vars PROVE TypeOK'
<1> USE DEF mgr, timers, disco, links, clients
<1>1. CASE Start
  BY <1>1, HelperTypes DEF Start, TypeOK
<1>2. CASE Stop
  BY <1>2, HelperTypes DEF Stop, TypeOK, Pcs
<1>3. ASSUME NEW c \in Cand, QueueCandidate(c) PROVE TypeOK'
  BY <1>3 DEF QueueCandidate, TypeOK
<1>4. ASSUME NEW l \in Link, NEW c \in Cand, ReplaceWithCandidate(l, c) PROVE TypeOK'
  BY <1>4, HelperTypes DEF ReplaceWithCandidate, TypeOK, Pcs, Trs, States
<1>5. ASSUME NEW l \in Link, SwapClosed(l) PROVE TypeOK'
  <2>1. CASE state = "Scanning"
    <3>1. Goto("Opening", CurrentAfterOpen(l, cand[l])) BY <1>5, <2>1 DEF SwapClosed
    <3>2. state' \in States /\ polling' \in BOOLEAN /\ drain' \in BOOLEAN
      BY <3>1, GotoType DEF States
    <3> QED BY <1>5, <2>1, <3>2, HelperTypes DEF SwapClosed, TypeOK
  <2>2. CASE state # "Scanning"
    BY <1>5, <2>2 DEF SwapClosed, TypeOK, Pcs
  <2> QED BY <2>1, <2>2
<1>6. ASSUME NEW l \in Link, NEW c \in Cand, OpenBest(l, c) PROVE TypeOK'
  BY <1>6, HelperTypes DEF OpenBest, TypeOK, States
<1>7. CASE DrainNothing
  BY <1>7 DEF DrainNothing, TypeOK
<1>8. ASSUME NEW l \in Link, BleConnected(l) PROVE TypeOK'
  <2>1. Goto("Handshaking", l) BY <1>8 DEF BleConnected
  <2>2. state' \in States /\ polling' \in BOOLEAN /\ drain' \in BOOLEAN
    BY <2>1, GotoType DEF States
  <2> QED BY <1>8, <2>2 DEF BleConnected, TypeOK, Pcs, Trs
<1>9. ASSUME NEW l \in Link, BleConnectFails(l) PROVE TypeOK'
  BY <1>9, AttemptFailedType DEF BleConnectFails, TypeOK, Pcs, Trs
<1>10. ASSUME NEW l \in Link, SerialOpened(l) PROVE TypeOK'
  BY <1>10 DEF SerialOpened, TypeOK, Pcs, Trs
<1>11. ASSUME NEW l \in Link, SerialOpenFails(l) PROVE TypeOK'
  BY <1>11, AttemptFailedType DEF SerialOpenFails, TypeOK, Pcs
<1>12. ASSUME NEW l \in Link, SerialReady(l) PROVE TypeOK'
  <2>1. Goto("Handshaking", current) BY <1>12 DEF SerialReady
  <2>2. state' \in States /\ polling' \in BOOLEAN /\ drain' \in BOOLEAN
    BY <2>1, GotoType DEF States
  <2> QED BY <1>12, <2>2 DEF SerialReady, TypeOK, Pcs
<1>13. ASSUME NEW l \in Link, SerialSetFails(l) PROVE TypeOK'
  BY <1>13, AttemptFailedType DEF SerialSetFails, TypeOK, Pcs, Trs
<1>14. ASSUME NEW l \in Link, HelloAcked(l) PROVE TypeOK'
  <2>1. Goto("Connected", current) BY <1>14 DEF HelloAcked
  <2>2. state' \in States /\ polling' \in BOOLEAN /\ drain' \in BOOLEAN
    BY <2>1, GotoType DEF States
  <2> QED BY <1>14, <2>2, HelperTypes, BackoffAssumption DEF HelloAcked, TypeOK, Pcs
<1>15. ASSUME NEW l \in Link, HelloFails(l) PROVE TypeOK'
  BY <1>15, AttemptFailedType, HelperTypes DEF HelloFails, TypeOK, Pcs
<1>16. ASSUME NEW l \in Link, HelloRejected(l) PROVE TypeOK'
  BY <1>16, AttemptFailedType DEF HelloRejected, TypeOK, Pcs
<1>17. ASSUME NEW l \in Link, TransportClosed(l) PROVE TypeOK'
  <2>1. /\ pc' \in [Link -> Pcs] /\ tr' \in [Link -> Trs]
        /\ cand' \in [Link -> Cand \cup {NoCand}]
    BY <1>17 DEF TransportClosed, TypeOK, Pcs, Trs
  <2>2. CASE pc[l] = "up"
    BY <1>17, <2>1, <2>2, DisconnectedType DEF TransportClosed, TypeOK
  <2>3. CASE pc[l] # "up"
    BY <1>17, <2>1, <2>3 DEF TransportClosed, TypeOK
  <2> QED BY <2>2, <2>3
<1>18. ASSUME NEW l \in Link, WatchdogFires(l) PROVE TypeOK'
  BY <1>18, DisconnectedType, HelperTypes DEF WatchdogFires, TypeOK, Pcs
<1>19. CASE CooldownExpires
  <2>1. state' \in States /\ polling' \in BOOLEAN /\ drain' \in BOOLEAN
    <3>1. CASE state = "Cooldown" /\ run = "started"
      BY <1>19, <3>1, GotoType DEF CooldownExpires, States
    <3>2. CASE ~(state = "Cooldown" /\ run = "started")
      BY <1>19, <3>2 DEF CooldownExpires, TypeOK
    <3> QED BY <3>1, <3>2
  <2> QED BY <1>19, <2>1 DEF CooldownExpires, TypeOK
<1>20. ASSUME NEW c \in FlashClient, Granted(c),
              pc' \in [Link -> Pcs], tr' \in [Link -> Trs],
              session' \in Link \cup {NoLink}, heldBy' \in FlashClient \cup {NoClient},
              holdOn' \in [FlashClient -> Link \cup {NoLink}],
              nameless' \subseteq FlashClient,
              UNCHANGED <<run, priority, cooldownIdx, queue, paused, cand, old>>
       PROVE  TypeOK'
  <2>1. state' \in States /\ polling' \in BOOLEAN /\ drain' \in BOOLEAN
    BY <1>20, GotoType DEF Granted, States
  <2> QED BY <1>20, <2>1 DEF Granted, TypeOK
<1>21. ASSUME NEW c \in FlashClient, FlashHold(c) PROVE TypeOK'
  <2>1. /\ pc' \in [Link -> Pcs] /\ tr' \in [Link -> Trs]
        /\ holdOn' \in [FlashClient -> Link \cup {NoLink}]
        /\ nameless' \subseteq FlashClient
    BY <1>21, HelperTypes DEF FlashHold, TypeOK, Pcs, Trs
  <2>2. CASE Granted(c)
    BY <1>20, <1>21, <2>1, <2>2 DEF FlashHold
  <2>3. CASE ~Granted(c)
    BY <1>21, <2>1, <2>3 DEF FlashHold, TypeOK
  <2> QED BY <2>2, <2>3
<1>22. ASSUME NEW c \in FlashClient, HoldClosed(c) PROVE TypeOK'
  BY <1>20, <1>22 DEF HoldClosed, TypeOK
<1>23. ASSUME NEW c \in FlashClient, FlashRelease(c) PROVE TypeOK'
  <2>1. CASE state = "Held" /\ heldBy \in {NoClient, c}
    <3>1. state' \in States /\ polling' \in BOOLEAN /\ drain' \in BOOLEAN
      BY <1>23, <2>1, GotoType DEF FlashRelease, States
    <3> QED BY <1>23, <2>1, <3>1 DEF FlashRelease, TypeOK
  <2>2. CASE ~(state = "Held" /\ heldBy \in {NoClient, c})
    BY <1>23, <2>2 DEF FlashRelease, TypeOK
  <2> QED BY <2>1, <2>2
<1>24. ASSUME NEW c \in FlashClient, FlashClientDies(c) PROVE TypeOK'
  BY <1>24 DEF FlashClientDies, TypeOK
<1>25. CASE HeldExpires
  <2>1. state' \in States /\ polling' \in BOOLEAN /\ drain' \in BOOLEAN
    <3>1. CASE state = "Held"
      BY <1>25, <3>1, GotoType DEF HeldExpires, States
    <3>2. CASE state # "Held"
      BY <1>25, <3>2 DEF HeldExpires, TypeOK
    <3> QED BY <3>1, <3>2
  <2> QED BY <1>25, <2>1 DEF HeldExpires, TypeOK
<1>26. ASSUME NEW p \in PairClient, PauseBle(p) PROVE TypeOK'
  BY <1>26, HelperTypes DEF PauseBle, TypeOK
<1>27. ASSUME NEW p \in PairClient, ResumeBle(p) \/ Rescan(p) PROVE TypeOK'
  BY <1>27 DEF ResumeBle, Rescan, TypeOK
<1>28. CASE UNCHANGED vars
  BY <1>28 DEF vars, TypeOK
<1> QED
  BY <1>1, <1>2, <1>3, <1>4, <1>5, <1>6, <1>7, <1>8, <1>9, <1>10, <1>11, <1>12,
     <1>13, <1>14, <1>15, <1>16, <1>17, <1>18, <1>19, <1>21, <1>22, <1>23, <1>24,
     <1>25, <1>26, <1>27, <1>28
  DEF Next, Microtask, Macrotask, Discovered, Drain, LinkStep, AttemptStep,
      FlashStep, CloseCompletes, LinkLost

\* Type correctness of the manager, however attempts, holds and candidates
\* interleave: no reference to a forgotten transport, no state outside the
\* documented six, and the back-off index stays inside its table.
THEOREM TypeCorrect == Spec => []TypeOK
<1>1. Init => TypeOK BY TypeInit
<1>2. TypeOK /\ [Next]_vars => TypeOK' BY TypeNext
<1> QED BY <1>1, <1>2, PTL DEF Spec

-----------------------------------------------------------------------------
(* The inductive invariant: the properties the runs check and two facts      *)
(* about the links that make them inductive.                                 *)

\* A transport nobody will close has no attempt or session left, and an
\* attempt that is still opening has no open transport.
LinkPhases ==
  \A l \in Link :
    /\ tr[l] = "stuck" => pc[l] \in {"idle", "hung"}
    /\ pc[l] \in {"swap", "connect", "open", "openClosed"} => tr[l] = "none"

\* Before start() only a flash client can have touched the manager.
NewIsQuiet ==
  run = "new" =>
    /\ state \in {"Scanning", "Held"}
    /\ session = NoLink /\ current = NoLink /\ queue = {}
    /\ \A l \in Link : pc[l] = "idle"

SafeInv ==
  /\ HoldHasTimer
  /\ CooldownHasTimer
  /\ TransientHasAttempt
  /\ SessionIsLive
  /\ ConnectedRestartsBackoff
  /\ ScanningMakesProgress
  /\ PausedQueueIsSerial
  /\ LinkPhases
  /\ NewIsQuiet

IInv == TypeOK /\ SafeInv

\* A manager that was only constructed satisfies the invariant.
LEMMA SafeInit == ASSUME Init PROVE SafeInv
BY NullAssumption
DEF Init, SafeInv, HoldHasTimer, CooldownHasTimer, TransientHasAttempt, SessionIsLive,
    ConnectedRestartsBackoff, ScanningMakesProgress, PausedQueueIsSerial,
    LinkPhases, NewIsQuiet

\* Every handler keeps the invariant, whatever attempts are suspended around it.
LEMMA SafeNext == ASSUME IInv, [Next]_vars PROVE SafeInv'
<1> USE NullAssumption, CandAssumption
    DEF IInv, TypeOK, SafeInv, mgr, timers, disco, links, clients, States, Pcs, Trs,
        HoldHasTimer, CooldownHasTimer, TransientHasAttempt, SessionIsLive,
        ConnectedRestartsBackoff, ScanningMakesProgress, PausedQueueIsSerial,
        LinkPhases, NewIsQuiet,
        Goto, ShouldRun, EnterCooldown, AttemptFailed, Disconnected, Closing, Free,
        FirstWait, Reported, Granted
<1>1. CASE Start
  BY <1>1 DEF Start
<1>2. CASE Stop
  BY <1>2 DEF Stop
<1>3. ASSUME NEW c \in Cand, QueueCandidate(c) PROVE SafeInv'
  BY <1>3 DEF QueueCandidate
<1>4. ASSUME NEW l \in Link, NEW c \in Cand, ReplaceWithCandidate(l, c) PROVE SafeInv'
  <2>1. HoldHasTimer' /\ CooldownHasTimer'
    BY <1>4 DEF ReplaceWithCandidate
  <2>2. TransientHasAttempt'
    BY <1>4 DEF ReplaceWithCandidate
  <2>3. SessionIsLive'
    BY <1>4 DEF ReplaceWithCandidate
  <2>4. ConnectedRestartsBackoff'
    BY <1>4 DEF ReplaceWithCandidate
  <2>5. ScanningMakesProgress' /\ PausedQueueIsSerial'
    BY <1>4 DEF ReplaceWithCandidate
  <2>6. LinkPhases'
    <3>1. \A m \in Link : \/ tr'[m] = tr[m]
                          \/ tr'[m] = "closing" /\ tr[m] = "open"
      BY <1>4 DEF ReplaceWithCandidate
    <3>2. \A m \in Link \ {l} : \/ pc'[m] = pc[m]
                                \/ pc'[m] = "idle" /\ m = session
                                \/ pc'[m] = "openClosed" /\ pc[m] = "open"
      BY <1>4 DEF ReplaceWithCandidate
    <3>3. tr[l] = "none" BY <1>4 DEF ReplaceWithCandidate
    <3>4. pc'[l] \in {"swap", "open", "connect"} BY <1>4 DEF ReplaceWithCandidate
    <3> QED BY <3>1, <3>2, <3>3, <3>4
  <2>7. NewIsQuiet'
    BY <1>4 DEF ReplaceWithCandidate
  <2> QED BY <2>1, <2>2, <2>3, <2>4, <2>5, <2>6, <2>7
<1>5. ASSUME NEW l \in Link, SwapClosed(l) PROVE SafeInv'
  <2>1. HoldHasTimer' /\ CooldownHasTimer'
    BY <1>5 DEF SwapClosed
  <2>2. TransientHasAttempt'
    <3>1. CASE state = "Scanning"
      <4>1. state' = "Opening" /\ pc'[l] \in {"open", "connect"}
        BY <1>5, <3>1 DEF SwapClosed
      <4> QED BY <4>1
    <3>2. CASE state # "Scanning"
      <4>1. state' = state /\ \A m \in Link : m # l => pc'[m] = pc[m]
        BY <1>5, <3>2 DEF SwapClosed
      <4>2. pc[l] = "swap" BY <1>5 DEF SwapClosed
      <4> QED BY <4>1, <4>2
    <3> QED BY <3>1, <3>2
  <2>3. SessionIsLive'
    BY <1>5 DEF SwapClosed
  <2>4. ConnectedRestartsBackoff'
    BY <1>5 DEF SwapClosed
  <2>5. ScanningMakesProgress' /\ PausedQueueIsSerial'
    BY <1>5 DEF SwapClosed
  <2>6. LinkPhases'
    <3>1. tr' = tr /\ \A m \in Link : m # l => pc'[m] = pc[m]
      BY <1>5 DEF SwapClosed
    <3>2. pc[l] = "swap" BY <1>5 DEF SwapClosed
    <3> QED BY <3>1, <3>2
  <2>7. NewIsQuiet'
    BY <1>5 DEF SwapClosed
  <2> QED BY <2>1, <2>2, <2>3, <2>4, <2>5, <2>6, <2>7
<1>6. ASSUME NEW l \in Link, NEW c \in Cand, OpenBest(l, c) PROVE SafeInv'
  BY <1>6 DEF OpenBest
<1>7. CASE DrainNothing
  BY <1>7 DEF DrainNothing
<1>8. ASSUME NEW l \in Link, BleConnected(l) PROVE SafeInv'
  BY <1>8 DEF BleConnected
<1>9. ASSUME NEW l \in Link, BleConnectFails(l) PROVE SafeInv'
  BY <1>9 DEF BleConnectFails
<1>10. ASSUME NEW l \in Link, SerialOpened(l) PROVE SafeInv'
  BY <1>10 DEF SerialOpened
<1>11. ASSUME NEW l \in Link, SerialOpenFails(l) PROVE SafeInv'
  BY <1>11 DEF SerialOpenFails
<1>12. ASSUME NEW l \in Link, SerialReady(l) PROVE SafeInv'
  BY <1>12 DEF SerialReady
<1>13. ASSUME NEW l \in Link, SerialSetFails(l) PROVE SafeInv'
  BY <1>13 DEF SerialSetFails
<1>14. ASSUME NEW l \in Link, HelloAcked(l) PROVE SafeInv'
  BY <1>14 DEF HelloAcked
<1>15. ASSUME NEW l \in Link, HelloFails(l) PROVE SafeInv'
  BY <1>15 DEF HelloFails
<1>16. ASSUME NEW l \in Link, HelloRejected(l) PROVE SafeInv'
  BY <1>16 DEF HelloRejected
<1>17. ASSUME NEW l \in Link, tr[l] # "none", TransportClosed(l) PROVE SafeInv'
  <2>1. HoldHasTimer' /\ CooldownHasTimer'
    BY <1>17 DEF TransportClosed
  <2>2. TransientHasAttempt'
    <3>1. state' = state \/ state' = "Cooldown" BY <1>17 DEF TransportClosed
    <3>2. \A m \in Link :
            pc[m] \in {"connect", "open", "set", "hello"} => pc'[m] = pc[m]
      BY <1>17 DEF TransportClosed
    <3> QED BY <3>1, <3>2
  <2>3. SessionIsLive'
    <3>1. CASE session = l
      <4>1. pc[l] = "up" BY <3>1
      <4>2. session' = NoLink BY <1>17, <3>1, <4>1 DEF TransportClosed
      <4> QED BY <4>2
    <3>2. CASE session # l
      <4>1. session' = session /\ priority' = priority
        BY <1>17, <3>2 DEF TransportClosed
      <4>2. \A m \in Link : m # l =>
              pc'[m] = pc[m] /\ tr'[m] = tr[m] /\ cand'[m] = cand[m]
        BY <1>17 DEF TransportClosed
      <4> QED BY <3>2, <4>1, <4>2 DEF Prio
    <3> QED BY <3>1, <3>2
  <2>4. ConnectedRestartsBackoff'
    BY <1>17 DEF TransportClosed
  <2>5. ScanningMakesProgress' /\ PausedQueueIsSerial'
    BY <1>17 DEF TransportClosed
  <2>6. LinkPhases'
    BY <1>17 DEF TransportClosed
  <2>7. NewIsQuiet'
    BY <1>17 DEF TransportClosed
  <2> QED BY <2>1, <2>2, <2>3, <2>4, <2>5, <2>6, <2>7
<1>18. ASSUME NEW l \in Link, WatchdogFires(l) PROVE SafeInv'
  <2>1. HoldHasTimer' /\ CooldownHasTimer'
    BY <1>18 DEF WatchdogFires
  <2>2. TransientHasAttempt'
    BY <1>18 DEF WatchdogFires
  <2>3. SessionIsLive'
    <3>1. CASE session = l
      <4>1. session' = NoLink BY <1>18, <3>1 DEF WatchdogFires
      <4> QED BY <4>1
    <3>2. CASE session # l
      <4>1. session' = session /\ priority' = priority /\ cand' = cand
        BY <1>18, <3>2 DEF WatchdogFires
      <4>2. \A m \in Link : m # l => pc'[m] = pc[m] /\ tr'[m] = tr[m]
        BY <1>18 DEF WatchdogFires
      <4> QED BY <3>2, <4>1, <4>2 DEF Prio
    <3> QED BY <3>1, <3>2
  <2>4. ConnectedRestartsBackoff'
    BY <1>18 DEF WatchdogFires
  <2>5. ScanningMakesProgress' /\ PausedQueueIsSerial'
    BY <1>18 DEF WatchdogFires
  <2>6. LinkPhases'
    BY <1>18 DEF WatchdogFires
  <2>7. NewIsQuiet'
    BY <1>18 DEF WatchdogFires
  <2> QED BY <2>1, <2>2, <2>3, <2>4, <2>5, <2>6, <2>7
<1>19. CASE CooldownExpires
  BY <1>19 DEF CooldownExpires
<1>20. ASSUME NEW c \in FlashClient, FlashHold(c) PROVE SafeInv'
  <2>1. HoldHasTimer' /\ CooldownHasTimer'
    BY <1>20 DEF FlashHold
  <2>2. TransientHasAttempt'
    <3>1. CASE state' = "Held" BY <3>1
    <3>2. CASE state' # "Held"
      <4>1. state' = state BY <1>20, <3>2 DEF FlashHold
      <4>2. \A m \in Link : m # session => pc'[m] = pc[m]
        BY <1>20, <3>2 DEF FlashHold
      <4> QED BY <4>1, <4>2
    <3> QED BY <3>1, <3>2
  <2>3. SessionIsLive'
    BY <1>20 DEF FlashHold
  <2>4. ConnectedRestartsBackoff'
    BY <1>20 DEF FlashHold
  <2>5. ScanningMakesProgress' /\ PausedQueueIsSerial'
    BY <1>20 DEF FlashHold
  <2>6. LinkPhases'
    <3>1. \A m \in Link : \/ tr'[m] = tr[m]
                          \/ tr'[m] = "closing" /\ tr[m] = "open"
      BY <1>20 DEF FlashHold
    <3>2. \A m \in Link : \/ pc'[m] = pc[m]
                          \/ pc'[m] = "idle" /\ m = session
                          \/ pc'[m] = "openClosed" /\ pc[m] = "open"
      BY <1>20 DEF FlashHold
    <3> QED BY <3>1, <3>2
  <2>7. NewIsQuiet'
    BY <1>20 DEF FlashHold
  <2> QED BY <2>1, <2>2, <2>3, <2>4, <2>5, <2>6, <2>7
<1>21. ASSUME NEW c \in FlashClient, HoldClosed(c) PROVE SafeInv'
  BY <1>21 DEF HoldClosed
<1>22. ASSUME NEW c \in FlashClient, FlashRelease(c) PROVE SafeInv'
  BY <1>22 DEF FlashRelease
<1>23. ASSUME NEW c \in FlashClient, FlashClientDies(c) PROVE SafeInv'
  BY <1>23 DEF FlashClientDies
<1>24. CASE HeldExpires
  BY <1>24 DEF HeldExpires
<1>25. ASSUME NEW p \in PairClient, PauseBle(p) PROVE SafeInv'
  BY <1>25 DEF PauseBle
<1>26. ASSUME NEW p \in PairClient, ResumeBle(p) PROVE SafeInv'
  BY <1>26 DEF ResumeBle
<1>27. ASSUME NEW p \in PairClient, Rescan(p) PROVE SafeInv'
  BY <1>27 DEF Rescan
<1>28. CASE UNCHANGED vars
  BY <1>28 DEF vars
<1> QED
  BY <1>1, <1>2, <1>3, <1>4, <1>5, <1>6, <1>7, <1>8, <1>9, <1>10, <1>11, <1>12, <1>13, <1>14, <1>15, <1>16, <1>17, <1>18, <1>19, <1>20, <1>21, <1>22, <1>23, <1>24, <1>25, <1>26, <1>27, <1>28
  DEF Next, Microtask, Macrotask, Discovered, Drain, LinkStep, AttemptStep,
      FlashStep, CloseCompletes, LinkLost

\* The inductive invariant of the manager: types, timers, published session,
\* queue, pause and the phases of its links, in every interleaving.
THEOREM ManagerInvariant == Spec => []IInv
<1>1. Init => IInv BY TypeInit, SafeInit DEF IInv
<1>2. IInv /\ [Next]_vars => IInv' BY TypeNext, SafeNext DEF IInv
<1> QED BY <1>1, <1>2, PTL DEF Spec

\* However flash clients, open attempts, timers and stop() interleave, every
\* state of a running manager has what will take it out of it: Held and Cooldown
\* their timers, Opening and Handshaking an attempt, Scanning its discoveries.
THEOREM NoStateIsADeadEnd == Spec => []AlwaysAWayOn
<1>1. IInv => AlwaysAWayOn BY DEF IInv, SafeInv, AlwaysAWayOn
<1> QED BY <1>1, ManagerInvariant, PTL

\* The published session is live and currentPriority is its priority.
THEOREM PublishedSessionIsLive == Spec => []SessionIsLive
<1>1. IInv => SessionIsLive BY DEF IInv, SafeInv
<1> QED BY <1>1, ManagerInvariant, PTL

\* Every connection restarts the back-off and no BLE candidate survives a pause.
THEOREM BackoffAndPause == Spec => [](ConnectedRestartsBackoff /\ PausedQueueIsSerial)
<1>1. IInv => ConnectedRestartsBackoff /\ PausedQueueIsSerial BY DEF IInv, SafeInv
<1> QED BY <1>1, ManagerInvariant, PTL

-----------------------------------------------------------------------------
(* The action properties.                                                    *)

\* Only these actions give a link a pc it did not have, and only the opening
\* ones can make it "connect".
LEMMA ConnectSteps ==
  ASSUME IInv, [Next]_vars, NEW l \in Link, pc'[l] = "connect", pc[l] # "connect"
  PROVE  \/ \E c \in Cand : ReplaceWithCandidate(l, c)
         \/ SwapClosed(l)
         \/ \E c \in Cand : OpenBest(l, c)
<1> USE DEF IInv, TypeOK, mgr, timers, disco, links, clients
<1>1. CASE Microtask
  BY <1>1 DEF Microtask, HoldClosed, SwapClosed, HelloRejected, Granted
<1>2. CASE Discovered \/ Drain
  <2>1. ASSUME NEW m \in Link, NEW c \in Cand, ReplaceWithCandidate(m, c)
        PROVE  m = l
    <3>1. \A k \in Link \ {m} : pc'[k] \in {pc[k], "idle", "openClosed"}
      BY <2>1 DEF ReplaceWithCandidate
    <3> QED BY <3>1
  <2>2. ASSUME NEW m \in Link, NEW c \in Cand, OpenBest(m, c)
        PROVE  m = l
    BY <2>2 DEF OpenBest
  <2>3. ASSUME NEW c \in Cand, QueueCandidate(c) PROVE FALSE
    BY <2>3 DEF QueueCandidate
  <2>4. ~DrainNothing BY DEF DrainNothing
  <2> QED BY <1>2, <2>1, <2>2, <2>3, <2>4 DEF Discovered, Drain
<1>3. CASE Start \/ Stop \/ CooldownExpires \/ HeldExpires
  BY <1>3 DEF Start, Stop, CooldownExpires, HeldExpires
<1>4. ASSUME NEW m \in Link, BleConnected(m) \/ BleConnectFails(m) \/ AttemptStep(m)
      PROVE  FALSE
  BY <1>4 DEF BleConnected, BleConnectFails, AttemptStep, SerialOpened,
              SerialOpenFails, SerialReady, SerialSetFails, HelloAcked, HelloFails
<1>5. ASSUME NEW m \in Link, CloseCompletes(m) \/ LinkLost(m) \/ WatchdogFires(m)
      PROVE  FALSE
  BY <1>5 DEF CloseCompletes, LinkLost, TransportClosed, WatchdogFires
<1>6. ASSUME NEW c \in FlashClient, FlashStep(c) PROVE FALSE
  BY <1>6 DEF FlashStep, FlashHold, FlashRelease, FlashClientDies
<1>7. ASSUME NEW p \in PairClient, PauseBle(p) \/ ResumeBle(p) \/ Rescan(p)
      PROVE  FALSE
  BY <1>7 DEF PauseBle, ResumeBle, Rescan
<1>8. CASE UNCHANGED vars
  BY <1>8 DEF vars
<1> QED
  BY <1>1, <1>2, <1>3, <1>4, <1>5, <1>6, <1>7, <1>8 DEF Next, Macrotask, LinkStep

\* pauseBle keeps its promise for every interleaving: while a client has BLE
\* paused no new BLE attempt begins, whether from a scan that was in flight,
\* from the queue or by replacing the current link.
THEOREM PausedMeansNoBle == Spec => PauseBlocksBle
<1>1. ASSUME IInv, [Next]_vars, NEW l \in Link,
             paused # {}, pc'[l] = "connect", pc[l] \notin {"connect", "swap"}
      PROVE  FALSE
  <2>1. ~SwapClosed(l) BY <1>1 DEF SwapClosed
  <2>2. ASSUME NEW c \in Cand, ReplaceWithCandidate(l, c) PROVE FALSE
    <3>1. c \in BleCand
      BY <1>1, <2>2 DEF ReplaceWithCandidate, FirstWait, IInv, TypeOK, Cand
    <3> QED BY <1>1, <2>2, <3>1 DEF ReplaceWithCandidate, Reported
  <2>3. ASSUME NEW c \in Cand, OpenBest(l, c) PROVE FALSE
    <3>1. c \in BleCand /\ c \in queue
      BY <1>1, <2>3 DEF OpenBest, FirstWait, IInv, TypeOK, Cand
    <3> QED BY <1>1, <3>1 DEF IInv, SafeInv, PausedQueueIsSerial
  <2> QED BY <1>1, <2>1, <2>2, <2>3, ConnectSteps
<1>2. IInv /\ [Next]_vars =>
        [\A l \in Link :
           (paused # {} /\ pc'[l] = "connect") => pc[l] \in {"connect", "swap"}]_vars
  BY <1>1
<1> QED BY <1>2, ManagerInvariant, PTL DEF Spec, PauseBlocksBle

\* Held is left for Scanning by a release or by the hold timer only.
LEMMA ReleaseSteps ==
  ASSUME IInv, [Next]_vars, state = "Held", state' = "Scanning"
  PROVE  HeldExpires \/ \E c \in FlashClient : FlashRelease(c)
<1> USE DEF mgr, timers, disco, links, clients, Goto, AttemptFailed, EnterCooldown
<1>1. CASE Microtask
  BY <1>1 DEF Microtask, HoldClosed, SwapClosed, HelloRejected, Granted
<1>2. CASE Discovered \/ Drain \/ Start \/ Stop
  BY <1>2 DEF Discovered, Drain, QueueCandidate, ReplaceWithCandidate, OpenBest,
              DrainNothing, Start, Stop
<1>3. CASE CooldownExpires
  BY <1>3 DEF CooldownExpires
<1>4. ASSUME NEW l \in Link, BleConnected(l) \/ BleConnectFails(l) \/ AttemptStep(l)
      PROVE  FALSE
  BY <1>4 DEF BleConnected, BleConnectFails, AttemptStep, SerialOpened,
              SerialOpenFails, SerialReady, SerialSetFails, HelloAcked, HelloFails
<1>5. ASSUME NEW l \in Link, CloseCompletes(l) \/ LinkLost(l) \/ WatchdogFires(l)
      PROVE  FALSE
  BY <1>5 DEF CloseCompletes, LinkLost, TransportClosed, WatchdogFires, Disconnected
<1>6. ASSUME NEW c \in FlashClient, FlashHold(c) \/ FlashClientDies(c) PROVE FALSE
  BY <1>6 DEF FlashHold, FlashClientDies
<1>7. ASSUME NEW p \in PairClient, PauseBle(p) \/ ResumeBle(p) \/ Rescan(p)
      PROVE  FALSE
  BY <1>7 DEF PauseBle, ResumeBle, Rescan
<1>8. CASE UNCHANGED vars
  BY <1>8 DEF vars
<1> QED
  BY <1>1, <1>2, <1>3, <1>4, <1>5, <1>6, <1>7, <1>8
  DEF Next, Macrotask, LinkStep, FlashStep

\* heldBy names a client from its flashHold on, until another client's flashHold
\* or an earlier hold's timer takes the name away.
NamedIsHolder ==
  \A c \in FlashClient \ nameless : hold[c] \in {"closing", "held"} => heldBy = c

LEMMA NamedInit == ASSUME Init PROVE NamedIsHolder
BY DEF Init, NamedIsHolder

\* Only flash clients and the hold timer touch the names.
LEMMA NamedNext == ASSUME IInv, NamedIsHolder, [Next]_vars PROVE NamedIsHolder'
<1> USE DEF mgr, timers, disco, links, clients
<1> DEFINE Kept == UNCHANGED <<heldBy, hold, nameless>>
<1>1. Kept => NamedIsHolder'
  BY DEF NamedIsHolder
<1>2. ASSUME NEW c \in FlashClient, FlashHold(c) PROVE NamedIsHolder'
  <2>1. /\ heldBy' = c
        /\ nameless' = {d \in FlashClient \ {c} : hold[d] \in {"closing", "held"}}
        /\ \A d \in FlashClient \ {c} : hold'[d] = hold[d]
    BY <1>2 DEF FlashHold, Granted, IInv, TypeOK
  <2> QED BY <2>1 DEF NamedIsHolder
<1>3. ASSUME NEW c \in FlashClient, HoldClosed(c) PROVE NamedIsHolder'
  <2>1. /\ heldBy' = heldBy /\ nameless' = nameless
        /\ hold[c] = "closing"
        /\ \A d \in FlashClient \ {c} : hold'[d] = hold[d]
    BY <1>3 DEF HoldClosed, Granted, IInv, TypeOK
  <2> QED BY <2>1 DEF NamedIsHolder
<1>4. ASSUME NEW c \in FlashClient, FlashRelease(c) PROVE NamedIsHolder'
  <2>1. /\ hold'[c] = "idle" /\ nameless' = nameless \ {c}
        /\ \A d \in FlashClient \ {c} : hold'[d] = hold[d]
    BY <1>4 DEF FlashRelease, IInv, TypeOK
  <2>2. heldBy' = heldBy \/ heldBy \in {NoClient, c}
    BY <1>4 DEF FlashRelease
  <2> QED BY <2>1, <2>2, NullAssumption DEF NamedIsHolder
<1>5. ASSUME NEW c \in FlashClient, FlashClientDies(c) PROVE NamedIsHolder'
  <2>1. /\ hold'[c] = "idle" /\ nameless' = nameless \ {c} /\ heldBy' = heldBy
        /\ \A d \in FlashClient \ {c} : hold'[d] = hold[d]
    BY <1>5 DEF FlashClientDies, IInv, TypeOK
  <2> QED BY <2>1 DEF NamedIsHolder
<1>6. CASE HeldExpires
  <2>1. /\ nameless' = {c \in FlashClient : hold[c] = "closing"}
        /\ hold' = [c \in FlashClient |-> IF hold[c] = "held" THEN "expired" ELSE hold[c]]
    BY <1>6 DEF HeldExpires
  <2> QED BY <2>1 DEF NamedIsHolder
<1>7. CASE Discovered \/ Drain \/ Start \/ Stop \/ CooldownExpires
  <2>1. Kept
    BY <1>7 DEF Discovered, Drain, QueueCandidate, ReplaceWithCandidate, OpenBest,
                DrainNothing, Start, Stop, CooldownExpires
  <2> QED BY <1>1, <2>1
<1>8. ASSUME NEW l \in Link, LinkStep(l) \/ SwapClosed(l) \/ HelloRejected(l)
      PROVE  NamedIsHolder'
  <2>1. Kept
    BY <1>8 DEF LinkStep, BleConnected, BleConnectFails, AttemptStep, SerialOpened,
                SerialOpenFails, SerialReady, SerialSetFails, HelloAcked, HelloFails,
                CloseCompletes, LinkLost, TransportClosed, WatchdogFires, SwapClosed,
                HelloRejected, AttemptFailed
  <2> QED BY <1>1, <2>1
<1>9. ASSUME NEW p \in PairClient, PauseBle(p) \/ ResumeBle(p) \/ Rescan(p)
      PROVE  NamedIsHolder'
  <2>1. Kept BY <1>9 DEF PauseBle, ResumeBle, Rescan
  <2> QED BY <1>1, <2>1
<1>10. CASE UNCHANGED vars
  <2>1. Kept BY <1>10 DEF vars
  <2> QED BY <1>1, <2>1
<1> QED
  BY <1>2, <1>3, <1>4, <1>5, <1>6, <1>7, <1>8, <1>9, <1>10
  DEF Next, Microtask, Macrotask, FlashStep

\* A granted hold is ended by its own client or by its timer, and by no other
\* client's release, unless its name in heldBy was lost.
THEOREM HoldsAreTheHolders == Spec => HoldNotReleasedByOthers
<1>1. ASSUME IInv, NamedIsHolder, [Next]_vars,
             NEW c \in FlashClient \ nameless,
             state = "Held", hold[c] = "held", hold'[c] = "held", state' = "Scanning"
      PROVE  FALSE
  <2>1. heldBy = c BY <1>1 DEF NamedIsHolder
  <2>2. ~HeldExpires BY <1>1 DEF HeldExpires
  <2>3. ASSUME NEW d \in FlashClient, FlashRelease(d) PROVE FALSE
    <3>1. d # c BY <1>1, <2>3 DEF FlashRelease, IInv, TypeOK
    <3>2. heldBy \notin {NoClient, d} BY <2>1, <3>1, NullAssumption
    <3>3. state' = state BY <2>3, <3>2 DEF FlashRelease
    <3> QED BY <1>1, <3>3
  <2> QED BY <1>1, <2>2, <2>3, ReleaseSteps
<1>2. IInv /\ NamedIsHolder /\ [Next]_vars =>
        [\A c \in FlashClient \ nameless :
           (state = "Held" /\ hold[c] = "held" /\ hold'[c] = "held")
             => state' # "Scanning"]_vars
  BY <1>1
<1>3. Init => NamedIsHolder BY NamedInit
<1>4. IInv /\ NamedIsHolder /\ [Next]_vars => NamedIsHolder' BY NamedNext
<1> QED BY <1>2, <1>3, <1>4, ManagerInvariant, PTL DEF Spec, HoldNotReleasedByOthers

-----------------------------------------------------------------------------
(* The manager and the promise of its sessions.                              *)

\* A session that a step leaves alone, or under which it closes the transport.
LEMMA LeftOrClosed ==
  ASSUME NEW l \in Link, pc'[l] = pc[l],
         tr'[l] = tr[l] \/ (tr[l] = "open" /\ tr'[l] = "closing")
  PROVE  Promised(l)
<1>1. CASE tr'[l] = tr[l]
  BY <1>1 DEF Promised, Stage
<1>2. CASE tr[l] = "open" /\ tr'[l] = "closing"
  <2>1. Stage(l)' = Stage(l) BY <1>2 DEF Stage
  <2>2. CASE Stage(l) = "idle" BY <2>1, <2>2 DEF Promised
  <2>3. CASE Stage(l) # "idle"
    BY <1>2, <2>1, <2>3 DEF Promised, Unheard!PromiseNext, Unheard!OwnerCloses, Unheard!CloseLink
  <2> QED BY <2>2, <2>3
<1> QED BY <1>1, <1>2

\* A session that the manager destroys.
LEMMA DestroyedByOwner ==
  ASSUME NEW l \in Link, pc[l] = "up", pc'[l] \in Pcs \ {"hello", "up"},
         tr'[l] = IF tr[l] = "open" THEN "closing" ELSE tr[l]
  PROVE  Promised(l)
<1>1. Stage(l) = "up" /\ Stage(l)' = "idle" BY DEF Stage
<1> QED
  BY <1>1 DEF Promised, Unheard!PromiseNext, Unheard!OwnerDestroys, Unheard!CloseLink

\* A link without a session that gets none.
LEMMA StaysWithout ==
  ASSUME NEW l \in Link, pc[l] \notin {"hello", "up"}, pc'[l] \notin {"hello", "up"}
  PROVE  Promised(l)
BY DEF Promised, Stage

\* The manager's handlers, one by one, on the session of any link.
LEMMA PromisedNext ==
  ASSUME IInv, [Next]_vars, NEW l \in Link
  PROVE  Promised(l)
<1> USE DEF mgr, timers, disco, links, clients
<1>t. TypeOK /\ SessionIsLive /\ LinkPhases BY DEF IInv, SafeInv
<1>a. pc \in [Link -> Pcs] /\ tr \in [Link -> Trs] BY <1>t DEF TypeOK
<1>n. NoLink \notin Link BY NullAssumption
<1>s. session \in Link \cup {NoLink} /\ current \in Link \cup {NoLink} BY <1>t DEF TypeOK
<1>u. session # NoLink => pc[session] = "up" BY <1>t DEF SessionIsLive
<1>1. ASSUME UNCHANGED <<pc, tr>> PROVE Promised(l)
  BY <1>1, LeftOrClosed
<1>2. CASE Stop
  <2>1. /\ tr' = Closing(session)
        /\ pc' = IF session = NoLink THEN pc ELSE [pc EXCEPT ![session] = "idle"]
    BY <1>2 DEF Stop
  <2>2. CASE session = l
    BY <1>a, <1>n, <1>u, <2>1, <2>2, DestroyedByOwner DEF Closing, Pcs
  <2>3. CASE session # l
    BY <1>a, <2>1, <2>3, LeftOrClosed DEF Closing
  <2> QED BY <2>2, <2>3
<1>3. ASSUME NEW m \in Link, NEW c \in Cand, ReplaceWithCandidate(m, c) PROVE Promised(l)
  <2>1. Free(m) BY <1>3 DEF ReplaceWithCandidate
  <2>2. CASE l = m
    <3>1. pc'[l] \in {"swap", "open", "connect"}
      BY <1>a, <1>3, <2>2 DEF ReplaceWithCandidate, FirstWait
    <3> QED BY <2>1, <2>2, <3>1, StaysWithout DEF Free
  <2>3. CASE l # m /\ l = session
    <3>1. pc'[l] = "idle" /\ tr'[l] = IF tr[l] = "open" THEN "closing" ELSE tr[l]
      BY <1>a, <1>n, <1>u, <1>3, <2>3 DEF ReplaceWithCandidate, Closing
    <3> QED BY <1>n, <1>u, <2>3, <3>1, DestroyedByOwner DEF Pcs
  <2>4. CASE l # m /\ l # session
    <3>1. tr'[l] = tr[l] \/ (tr[l] = "open" /\ tr'[l] = "closing")
      BY <1>a, <1>3, <2>4 DEF ReplaceWithCandidate, Closing
    <3>2. pc'[l] = pc[l] \/ (pc[l] = "open" /\ pc'[l] = "openClosed")
      BY <1>a, <1>n, <1>3, <2>4 DEF ReplaceWithCandidate
    <3> QED BY <3>1, <3>2, LeftOrClosed, StaysWithout
  <2> QED BY <2>2, <2>3, <2>4
<1>4. ASSUME NEW m \in Link, SwapClosed(m) PROVE Promised(l)
  <2>1. pc[m] = "swap" /\ tr' = tr BY <1>4 DEF SwapClosed
  <2>2. pc'[l] = pc[l] \/ (l = m /\ pc'[l] \in {"idle", "open", "connect"})
    BY <1>a, <1>4 DEF SwapClosed, FirstWait
  <2> QED BY <2>1, <2>2, LeftOrClosed, StaysWithout
<1>5. ASSUME NEW m \in Link, NEW c \in Cand, OpenBest(m, c) PROVE Promised(l)
  <2>1. pc[m] = "idle" /\ tr' = tr BY <1>5 DEF OpenBest, Free
  <2>2. pc'[l] = pc[l] \/ (l = m /\ pc'[l] \in {"open", "connect"})
    BY <1>a, <1>5 DEF OpenBest, FirstWait
  <2> QED BY <2>1, <2>2, LeftOrClosed, StaysWithout
<1>6. ASSUME NEW m \in Link, BleConnected(m) PROVE Promised(l)
  <2>1. CASE l = m
    <3>1. pc[l] = "connect" /\ pc'[l] = "hello" /\ tr'[l] = "open"
      BY <1>a, <1>6, <2>1 DEF BleConnected
    <3> QED BY <3>1 DEF Promised, Stage, Unheard!PromiseInit
  <2>2. CASE l # m BY <1>a, <1>6, <2>2, LeftOrClosed DEF BleConnected
  <2> QED BY <2>1, <2>2
<1>7. ASSUME NEW m \in Link, BleConnectFails(m) PROVE Promised(l)
  <2>1. CASE l = m BY <1>a, <1>7, <2>1, StaysWithout DEF BleConnectFails
  <2>2. CASE l # m BY <1>a, <1>7, <2>2, LeftOrClosed DEF BleConnectFails
  <2> QED BY <2>1, <2>2
<1>8. ASSUME NEW m \in Link, SerialOpened(m) \/ SerialOpenFails(m) PROVE Promised(l)
  <2>1. CASE l = m BY <1>a, <1>8, <2>1, StaysWithout DEF SerialOpened, SerialOpenFails
  <2>2. CASE l # m BY <1>a, <1>8, <2>2, LeftOrClosed DEF SerialOpened, SerialOpenFails
  <2> QED BY <2>1, <2>2
<1>9. ASSUME NEW m \in Link, SerialReady(m) PROVE Promised(l)
  <2>1. CASE l = m
    <3>1. pc[l] = "set" /\ pc'[l] = "hello" /\ tr'[l] = "open"
      BY <1>a, <1>9, <2>1 DEF SerialReady
    <3> QED BY <3>1 DEF Promised, Stage, Unheard!PromiseInit
  <2>2. CASE l # m BY <1>a, <1>9, <2>2, LeftOrClosed DEF SerialReady
  <2> QED BY <2>1, <2>2
<1>10. ASSUME NEW m \in Link, SerialSetFails(m) PROVE Promised(l)
  <2>1. CASE l = m BY <1>a, <1>10, <2>1, StaysWithout DEF SerialSetFails
  <2>2. CASE l # m BY <1>a, <1>10, <2>2, LeftOrClosed DEF SerialSetFails
  <2> QED BY <2>1, <2>2
<1>11. ASSUME NEW m \in Link, HelloAcked(m) PROVE Promised(l)
  <2>1. CASE l = m
    <3>1. pc[l] = "hello" /\ tr[l] # "none" /\ pc'[l] = "up" /\ tr' = tr
      BY <1>a, <1>11, <2>1 DEF HelloAcked
    <3> QED BY <3>1 DEF Promised, Stage, Unheard!PromiseNext, Unheard!Acked
  <2>2. CASE l # m BY <1>a, <1>11, <2>2, LeftOrClosed DEF HelloAcked
  <2> QED BY <2>1, <2>2
<1>12. ASSUME NEW m \in Link, HelloFails(m) PROVE Promised(l)
  <2>1. CASE l = m
    <3>1. /\ pc[l] = "hello" /\ tr[l] # "none" /\ pc'[l] = "idle"
          /\ tr'[l] = IF tr[l] = "open" THEN "closing" ELSE tr[l]
      BY <1>a, <1>12, <2>1 DEF HelloFails, Closing
    <3> QED
      BY <3>1 DEF Promised, Stage, Unheard!PromiseNext, Unheard!HelloFailed, Unheard!CloseLink
  <2>2. CASE l # m BY <1>a, <1>12, <2>2, LeftOrClosed DEF HelloFails, Closing
  <2> QED BY <2>1, <2>2
<1>13. ASSUME NEW m \in Link, HelloRejected(m) PROVE Promised(l)
  <2>1. CASE l = m
    <3>1. pc[l] = "hello" /\ tr[l] = "none" /\ pc'[l] = "idle"
      BY <1>a, <1>13, <2>1 DEF HelloRejected
    <3> QED BY <3>1 DEF Promised, Stage
  <2>2. CASE l # m BY <1>a, <1>13, <2>2, LeftOrClosed DEF HelloRejected
  <2> QED BY <2>1, <2>2
<1>14. ASSUME NEW m \in Link, tr[m] # "none", TransportClosed(m) PROVE Promised(l)
  <2>1. tr' = [tr EXCEPT ![m] = "none"] BY <1>14 DEF TransportClosed
  <2>2. CASE l = m /\ pc[l] = "up"
    <3>1. pc'[l] = "idle" /\ Disconnected(l) BY <1>a, <1>14, <2>2 DEF TransportClosed
    <3>2. session = l => session' = NoLink BY <3>1 DEF Disconnected
    <3>3. Stage(l) = "up" /\ Stage(l)' = "idle" BY <2>2, <3>1 DEF Stage
    <3>4. tr[l] # "none" /\ tr'[l] = "none" BY <1>a, <1>14, <2>1, <2>2
    <3>5. Heard(l)!LinkGone BY <3>3, <3>4 DEF Heard!LinkGone
    <3> QED BY <3>2, <3>3, <3>5 DEF Promised, Heard!PromiseNext
  <2>3. CASE l = m /\ pc[l] = "hello"
    <3>1. pc'[l] = "hello" /\ UNCHANGED mgr BY <1>14, <2>3 DEF TransportClosed
    <3>2. session # l BY <1>n, <1>u, <2>3
    <3>3. Stage(l) = "hello" /\ Stage(l)' = "idle"
      BY <1>a, <1>14, <2>1, <2>3, <3>1 DEF Stage
    <3>4. tr[l] # "none" /\ tr'[l] = "none" BY <1>a, <1>14, <2>1, <2>3
    <3>5. Heard(l)!LinkGone BY <3>3, <3>4 DEF Heard!LinkGone
    <3> QED BY <3>2, <3>3, <3>5 DEF Promised, Heard!PromiseNext
  <2>4. CASE l = m /\ pc[l] \notin {"hello", "up"}
    <3>1. pc'[l] \notin {"hello", "up"} BY <1>a, <1>14, <2>4 DEF TransportClosed
    <3> QED BY <2>4, <3>1, StaysWithout
  <2>5. CASE l # m
    <3>1. pc'[l] = pc[l] BY <1>a, <1>14, <2>5 DEF TransportClosed
    <3> QED BY <1>a, <2>1, <2>5, <3>1, LeftOrClosed
  <2> QED BY <2>2, <2>3, <2>4, <2>5
<1>15. ASSUME NEW m \in Link, WatchdogFires(m) PROVE Promised(l)
  <2>1. CASE l = m
    <3>1. /\ pc[l] = "up" /\ pc'[l] = "idle" /\ Disconnected(l)
          /\ tr'[l] = IF tr[l] = "open" THEN "closing" ELSE tr[l]
      BY <1>a, <1>15, <2>1 DEF WatchdogFires, Closing
    <3>2. session = l => session' = NoLink BY <3>1 DEF Disconnected
    <3>3. Stage(l) = "up" /\ Stage(l)' = "idle" BY <3>1 DEF Stage
    <3>4. Heard(l)!GivenUp BY <3>1, <3>3 DEF Heard!GivenUp, Heard!CloseLink
    <3> QED BY <3>2, <3>3, <3>4 DEF Promised, Heard!PromiseNext
  <2>2. CASE l # m BY <1>a, <1>15, <2>2, LeftOrClosed DEF WatchdogFires, Closing
  <2> QED BY <2>1, <2>2
<1>16. ASSUME NEW c \in FlashClient, FlashHold(c) PROVE Promised(l)
  <2>1. CASE l = session
    <3>1. pc'[l] = "idle" /\ tr'[l] = IF tr[l] = "open" THEN "closing" ELSE tr[l]
      BY <1>a, <1>n, <1>u, <1>16, <2>1 DEF FlashHold, Closing
    <3> QED BY <1>n, <1>u, <2>1, <3>1, DestroyedByOwner DEF Pcs
  <2>2. CASE l # session
    <3>1. tr'[l] = tr[l] \/ (tr[l] = "open" /\ tr'[l] = "closing")
      BY <1>a, <1>16, <2>2 DEF FlashHold, Closing
    <3>2. pc'[l] = pc[l] \/ (pc[l] = "open" /\ pc'[l] = "openClosed")
      BY <1>a, <1>n, <1>16, <2>2 DEF FlashHold
    <3> QED BY <3>1, <3>2, LeftOrClosed, StaysWithout
  <2> QED BY <2>1, <2>2
<1> QED
  <2>1. CASE UNCHANGED <<pc, tr>> BY <1>1, <2>1
  <2>2. CASE ~UNCHANGED <<pc, tr>>
    BY <1>2, <1>3, <1>4, <1>5, <1>6, <1>7, <1>8, <1>9, <1>10, <1>11, <1>12, <1>13,
       <1>14, <1>15, <1>16, <2>2
    DEF Next, Microtask, Macrotask, Discovered, Drain, LinkStep, AttemptStep, FlashStep,
        CloseCompletes, LinkLost, Start, QueueCandidate, DrainNothing, CooldownExpires,
        HeldExpires, FlashRelease, FlashClientDies, PauseBle, ResumeBle, Rescan,
        HoldClosed, vars
  <2> QED BY <2>1, <2>2

\* For any number of links and clients: the manager uses each of its sessions as
\* SessionPromise says, which DeviceSession implements (SessionKeepsItsPromise).
THEOREM SessionsUsedAsPromised == Spec => SessionsAsPromised
<1>1. IInv /\ [Next]_vars => [\A l \in Link : Promised(l)]_vars
  BY PromisedNext
<1> QED BY <1>1, ManagerInvariant, PTL DEF Spec, SessionsAsPromised

-----------------------------------------------------------------------------
(* Without a flash client that holds the device there is one link.           *)

NobodyHolds == \A c \in FlashClient : hold[c] = "idle"

\* What the manager's state says of its one link.  Nothing closes a transport
\* that is still opening, and nothing awaits a close: the current transport is the
\* link's.
OneLink ==
  /\ state # "Held"
  /\ \A l \in Link :
       /\ pc[l] \notin {"swap", "openClosed", "hung"}
       /\ pc[l] \in {"connect", "open", "set"} => state = "Opening"
       /\ pc[l] = "hello" => state = "Handshaking"
       /\ pc[l] = "up" => state = "Connected" /\ session = l
  /\ \A l, m \in Link : pc[l] # "idle" /\ pc[m] # "idle" => l = m
  /\ current # NoLink => pc[current] # "idle"

LEMMA OneLinkNext ==
  ASSUME IInv, OneLink, NobodyHolds, NobodyHolds', [Next]_vars PROVE OneLink'
<1> USE NullAssumption
    DEF IInv, TypeOK, OneLink, mgr, timers, disco, links, clients, Pcs,
        Goto, EnterCooldown, AttemptFailed
<1>1. CASE Start
  BY <1>1 DEF Start
<1>2. CASE Stop
  <2>1. \A l \in Link : pc'[l] = IF l = session THEN "idle" ELSE pc[l]
    BY <1>2 DEF Stop
  <2>2. \A l \in Link : pc'[l] # "up"
    BY <2>1
  <2> QED BY <1>2, <2>1, <2>2 DEF Stop
<1>3. ASSUME NEW c \in Cand, QueueCandidate(c) PROVE OneLink'
  BY <1>3 DEF QueueCandidate
<1>4. ASSUME NEW l \in Link, NEW c \in Cand, ReplaceWithCandidate(l, c) PROVE OneLink'
  <2>1. \A m \in Link : pc[m] # "idle" => m = session
    BY <1>4 DEF ReplaceWithCandidate
  <2>2. current \in {session, NoLink}
    BY <2>1
  <2>3. ~(current # session /\ current # NoLink /\ tr[current] = "open")
    BY <2>2
  <2>4. current # NoLink => pc[current] = "up"
    BY <2>2 DEF SafeInv, SessionIsLive
  <2>5. state' = "Opening" /\ current' \in {l, NoLink}
    BY <1>4, <2>3 DEF ReplaceWithCandidate
  <2>6. pc' = [(IF session = NoLink THEN pc ELSE [pc EXCEPT ![session] = "idle"])
                  EXCEPT ![l] = FirstWait(c)]
    BY <1>4, <2>3, <2>4 DEF ReplaceWithCandidate
  <2>7. FirstWait(c) \in {"open", "connect"}
    BY HelperTypes
  <2>8. pc'[l] = FirstWait(c) /\ \A m \in Link \ {l} : pc'[m] = "idle"
    BY <2>1, <2>6
  <2> QED BY <2>5, <2>7, <2>8
<1>5. ASSUME NEW l \in Link, SwapClosed(l) PROVE OneLink'
  BY <1>5 DEF SwapClosed
<1>6. ASSUME NEW l \in Link, NEW c \in Cand, OpenBest(l, c) PROVE OneLink'
  <2>1. \A m \in Link : pc[m] = "idle"
    BY <1>6 DEF OpenBest
  <2>2. current = NoLink
    BY <2>1
  <2>3. FirstWait(c) \in {"open", "connect"} /\ current' \in {l, NoLink}
    BY <1>6, <2>2, HelperTypes DEF OpenBest, CurrentAfterOpen
  <2> QED BY <1>6, <2>1, <2>3 DEF OpenBest
<1>7. CASE DrainNothing
  BY <1>7 DEF DrainNothing
<1>8. ASSUME NEW l \in Link, BleConnected(l) PROVE OneLink'
  BY <1>8 DEF BleConnected
<1>9. ASSUME NEW l \in Link,
             BleConnectFails(l) \/ SerialOpenFails(l) \/ SerialSetFails(l)
               \/ HelloFails(l) \/ HelloRejected(l)
      PROVE  OneLink'
  <2>1. pc[l] # "idle" /\ pc' = [pc EXCEPT ![l] = "idle"] /\ AttemptFailed
    BY <1>9 DEF BleConnectFails, SerialOpenFails, SerialSetFails, HelloFails, HelloRejected
  <2>2. \A m \in Link : pc'[m] = "idle"
    BY <2>1
  <2> QED BY <2>1, <2>2
<1>10. ASSUME NEW l \in Link, SerialOpened(l) PROVE OneLink'
  BY <1>10 DEF SerialOpened
<1>11. ASSUME NEW l \in Link, SerialReady(l) PROVE OneLink'
  BY <1>11 DEF SerialReady
<1>12. ASSUME NEW l \in Link, HelloAcked(l) PROVE OneLink'
  BY <1>12 DEF HelloAcked
<1>13. ASSUME NEW l \in Link, tr[l] # "none", TransportClosed(l) PROVE OneLink'
  <2>1. CASE pc[l] = "up"
    <3>1. Disconnected(l) /\ session = l /\ pc' = [pc EXCEPT ![l] = "idle"]
      BY <1>13, <2>1 DEF TransportClosed
    <3>2. \A m \in Link : pc'[m] = "idle"
      BY <2>1, <3>1
    <3> QED BY <2>1, <3>1, <3>2 DEF Disconnected
  <2>2. CASE pc[l] # "up"
    <3>1. pc[l] \in {"idle", "set", "hello"}
      BY <1>13, <2>2 DEF SafeInv, LinkPhases
    <3>2. \A m \in Link : pc'[m] = pc[m]
      BY <1>13, <3>1 DEF TransportClosed
    <3> QED BY <1>13, <2>2, <3>2 DEF TransportClosed
  <2> QED BY <2>1, <2>2
<1>14. ASSUME NEW l \in Link, WatchdogFires(l) PROVE OneLink'
  <2>1. pc[l] = "up" /\ Disconnected(l) /\ session = l /\ pc' = [pc EXCEPT ![l] = "idle"]
    BY <1>14 DEF WatchdogFires
  <2>2. \A m \in Link : pc'[m] = "idle"
    BY <2>1
  <2> QED BY <2>1, <2>2 DEF Disconnected
<1>15. CASE CooldownExpires
  BY <1>15 DEF CooldownExpires
<1>16. ASSUME NEW c \in FlashClient, HoldClosed(c) \/ FlashStep(c) PROVE FALSE
  BY <1>16 DEF NobodyHolds, FlashStep, HoldClosed, FlashHold, FlashRelease,
               FlashClientDies, Granted
<1>17. CASE HeldExpires
  BY <1>17 DEF HeldExpires
<1>18. ASSUME NEW p \in PairClient, PauseBle(p) \/ ResumeBle(p) \/ Rescan(p) PROVE OneLink'
  BY <1>18 DEF PauseBle, ResumeBle, Rescan
<1>19. CASE UNCHANGED vars
  BY <1>19 DEF vars
<1> QED
  BY <1>1, <1>2, <1>3, <1>4, <1>5, <1>6, <1>7, <1>8, <1>9, <1>10, <1>11, <1>12,
     <1>13, <1>14, <1>15, <1>16, <1>17, <1>18, <1>19
  DEF Next, Microtask, Macrotask, Discovered, Drain, LinkStep, AttemptStep,
      CloseCompletes, LinkLost

LEMMA OneLinkAlways == Spec /\ []NobodyHolds => []OneLink
<1>1. Init => OneLink BY NullAssumption DEF Init, OneLink
<1>2. IInv /\ OneLink /\ NobodyHolds /\ NobodyHolds' /\ [Next]_vars => OneLink'
  BY OneLinkNext
<1> QED BY <1>1, <1>2, ManagerInvariant, PTL DEF Spec

\* As long as no flash client has the device, or waits for it, there is one attempt
\* or session at most, and it is the one published once it answers pings: late
\* reports, replacements, cooldowns and stop() included.
THEOREM OneLinkWithoutHold == Spec /\ []NobodyHolds => []OneLinkAtATime
<1>1. OneLink => OneLinkAtATime BY DEF OneLink, OneLinkAtATime
<1> QED BY <1>1, OneLinkAlways, PTL

-----------------------------------------------------------------------------
(* The manager with its discoveries.                                         *)

\* A candidate reaches the manager as one of its own steps, or is dropped.
LEMMA CandidateStep ==
  ASSUME NEW c \in Cand, OnCandidate(c) PROVE [Next]_vars
BY DEF OnCandidate, Dropped, Next, Macrotask, Discovered

\* The poller and the BLE discovery take no part of the manager's state: HostLink
\* implements DeviceManager, and whatever holds of every manager holds of it.
THEOREM LinkIsManager == LinkSpec => Spec
<1>1. LinkInit => Init BY DEF LinkInit
<1>2. ASSUME [LinkNext]_linkVars PROVE [Next]_vars
  <2>1. CASE ManagerStep
    BY <2>1 DEF ManagerStep, Next, Macrotask
  <2>2. CASE ScanBegins \/ ScanFails \/ BleScanBegins
    BY <2>2 DEF ScanBegins, ScanFails, BleScanBegins
  <2>3. CASE ScanCompletes
    BY <2>3, CandidateStep DEF ScanCompletes, Cand
  <2>4. CASE BleScanCompletes
    BY <2>4, CandidateStep DEF BleScanCompletes, Cand
  <2>5. CASE \E c \in SerialCand : Plug(c) \/ Unplug(c)
    BY <2>5 DEF Plug, Unplug
  <2>6. CASE UNCHANGED linkVars
    BY <2>6 DEF linkVars
  <2> QED BY <1>2, <2>1, <2>2, <2>3, <2>4, <2>5, <2>6 DEF LinkNext
<1> QED BY <1>1, <1>2, PTL DEF LinkSpec, Spec

\* The properties of the run of HostLink, for any number of ports, peripherals,
\* links and pairing clients.
THEOREM LinkKeepsOneSession ==
  LinkSpec /\ []NobodyHolds => [](OneLinkAtATime /\ SessionIsLive)
BY LinkIsManager, OneLinkWithoutHold, PublishedSessionIsLive, PTL

\* HostLink as its run has it, without flash clients: one attempt or session, no
\* session leaked, and no BLE connect begins during a pause.
THEOREM LinkWithoutFlash ==
  ASSUME FlashClient = {}
  PROVE  LinkSpec => []OneLinkAtATime /\ PauseBlocksBle
<1>1. NobodyHolds BY DEF NobodyHolds
<1>2. []NobodyHolds BY <1>1, PTL
<1> QED BY <1>2, LinkKeepsOneSession, LinkIsManager, PausedMeansNoBle, PTL

\* The type of what HostLink adds to the manager: what the poller has seen are
\* serial ports, however late a scan stores them.
THEOREM LinkTypes == LinkSpec => []LinkTypeOK
<1> DEFINE Discoveries == /\ ports \subseteq SerialCand /\ seen \subseteq SerialCand
                          /\ inScan \in BOOLEAN /\ bleScan \in BOOLEAN
<1>1. LinkInit => Discoveries BY DEF LinkInit
<1>2. ASSUME Discoveries, [LinkNext]_linkVars PROVE Discoveries'
  <2>1. CASE ManagerStep
    BY <1>2, <2>1 DEF ManagerStep, DiscoveriesFollow
  <2>2. CASE ScanBegins \/ ScanFails \/ BleScanBegins
    BY <1>2, <2>2 DEF ScanBegins, ScanFails, BleScanBegins
  <2>3. CASE ScanCompletes
    BY <1>2, <2>3 DEF ScanCompletes
  <2>4. CASE BleScanCompletes
    BY <1>2, <2>4 DEF BleScanCompletes
  <2>5. CASE \E c \in SerialCand : Plug(c) \/ Unplug(c)
    BY <1>2, <2>5 DEF Plug, Unplug
  <2>6. CASE UNCHANGED linkVars
    BY <1>2, <2>6 DEF linkVars
  <2> QED BY <1>2, <2>1, <2>2, <2>3, <2>4, <2>5, <2>6 DEF LinkNext
<1>3. LinkSpec => []Discoveries BY <1>1, <1>2, PTL DEF LinkSpec
<1>4. TypeOK /\ Discoveries => LinkTypeOK BY DEF LinkTypeOK
<1> QED BY <1>3, <1>4, LinkIsManager, TypeCorrect, PTL
=============================================================================
