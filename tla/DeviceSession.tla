--------------------------- MODULE DeviceSession ---------------------------
(***************************************************************************)
(* packages/daemon/src/device-session.ts on one transport: the hello, the  *)
(* table of pending requests, the pings and the watchdog that gives up a   *)
(* link whose device has fallen silent.                                    *)
(*                                                                         *)
(* An action is one macrotask with the microtasks it queues: a rejected    *)
(* ping is counted, and a rejected hello makes the manager destroy the     *)
(* session, before any other event.  Ids are used once by the code; here   *)
(* an id is taken again when nothing of its last use is left.              *)
(***************************************************************************)
EXTENDS Naturals, FiniteSets

CONSTANTS
  PingId,     \* ids of the session's own requests, hello and pings (bound)
  AppId,      \* ids of tap and screenshot requests (bound on those at once)
  MaxMissed   \* cfg.maxMissedPings

MsgId == PingId \cup AppId

ASSUME IdAssumption == PingId \cap AppId = {}
ASSUME MissedAssumption == MaxMissed \in Nat \ {0}

VARIABLES
  phase,         \* progress of start(): "hello", "live" or "failed"
  pending,       \* ids in the pending table; each has its timer
  waiting,       \* ids whose promise is not settled
  net,           \* what the link carries for each id
  stale,         \* ids the answers of the port's last session still carry
  missed,        \* missedPings, saturated at MaxMissed
  pinging,       \* pingTimer is armed
  destroyed,
  disconnected,
  told,          \* 'disconnect' has been emitted
  tr,            \* the transport: "open", "closing" or "none"
  device         \* "answers", "noisy" (only undecodable lines) or "silent"

request == <<pending, waiting, net, stale>>
ended   == <<destroyed, disconnected, told, tr>>
vars    == <<phase, request, missed, pinging, ended, device>>

TypeOK ==
  /\ phase \in {"hello", "live", "failed"}
  /\ pending \subseteq MsgId
  /\ waiting \subseteq MsgId
  /\ net \in [MsgId -> {"none", "writing", "asked", "answered"}]
  /\ stale \subseteq MsgId
  /\ missed \in 0..MaxMissed
  /\ pinging \in BOOLEAN
  /\ destroyed \in BOOLEAN
  /\ disconnected \in BOOLEAN
  /\ told \in BOOLEAN
  /\ tr \in {"open", "closing", "none"}
  /\ device \in {"answers", "noisy", "silent"}

\* The session was constructed on an open transport and start() has written
\* its hello.  An earlier session on the same port used the same ids.
Init ==
  /\ phase = "hello"
  /\ \E id \in PingId :
       /\ pending = {id}
       /\ net = [i \in MsgId |-> IF i = id THEN "writing" ELSE "none"]
  /\ waiting = pending
  /\ stale \in SUBSET MsgId
  /\ missed = 0
  /\ pinging = FALSE
  /\ destroyed = FALSE
  /\ disconnected = FALSE
  /\ told = FALSE
  /\ tr = "open"
  /\ device = "answers"

-----------------------------------------------------------------------------
\* transport.close() marks the transport; the port closes later.
Closing == IF tr = "open" THEN "closing" ELSE tr

Free(id) == id \notin pending /\ net[id] = "none"

\* What an id is used for: the first request is the hello.
kind == [id \in MsgId |->
  IF phase = "hello" THEN "hello" ELSE IF id \in PingId THEN "ping" ELSE "app"]

\* request(): a timer, an entry and a write.
Request(id) ==
  /\ Free(id)
  /\ pending' = pending \cup {id}
  /\ waiting' = waiting \cup {id}
  /\ net' = [net EXCEPT ![id] = "writing"]
  /\ UNCHANGED <<phase, stale, missed, pinging, ended, device>>

\* Mutant: the table is emptied but its promises are left alone.
DisconnectForgetsRequests ==
  /\ disconnected' = TRUE
  /\ pinging' = FALSE
  /\ pending' = {}
  /\ UNCHANGED waiting
  /\ told' = TRUE
  /\ phase' = IF phase = "hello" THEN "failed" ELSE phase

\* onDisconnect(), once: the ping timer is cleared, every request rejected and
\* the listeners are told.
Disconnect ==
  /\ disconnected' = TRUE
  /\ pinging' = FALSE
  /\ pending' = {}
  /\ waiting' = waiting \ pending
  /\ told' = TRUE
  /\ phase' = IF phase = "hello" THEN "failed" ELSE phase

\* destroy(), once.
Destroy ==
  /\ destroyed' = TRUE
  /\ pinging' = FALSE
  /\ pending' = {}
  /\ waiting' = waiting \ pending
  /\ tr' = Closing

\* start() rejects: the manager destroys the session.
StartFails ==
  /\ phase' = "failed"
  /\ Destroy
  /\ UNCHANGED <<disconnected, told>>

\* Mutant: the watchdog closes the transport and waits for its close event.
PingMissedAwaitsClose(id) ==
  /\ missed' = IF missed < MaxMissed THEN missed + 1 ELSE missed
  /\ tr' = IF missed + 1 >= MaxMissed THEN Closing ELSE tr
  /\ pending' = pending \ {id}
  /\ waiting' = waiting \ {id}
  /\ UNCHANGED <<phase, pinging, destroyed, disconnected, told>>

\* Mutant: the link is given up one miss too early.
PingMissedTooEarly(id) ==
  /\ missed' = IF missed < MaxMissed THEN missed + 1 ELSE missed
  /\ IF missed + 2 >= MaxMissed /\ ~disconnected /\ ~destroyed
     THEN Disconnect /\ tr' = Closing /\ UNCHANGED destroyed
     ELSE /\ pending' = pending \ {id}
          /\ waiting' = waiting \ {id}
          /\ UNCHANGED <<phase, pinging, ended>>

\* A ping is missed: the startPing handler counts it and gives up the link.
\* (A ping that dies with its session is counted too, but nothing reads the
\* count of a session that has ended, and the model leaves it.)
PingMissed(id) ==
  /\ missed' = IF missed < MaxMissed THEN missed + 1 ELSE missed
  /\ IF missed + 1 >= MaxMissed /\ ~disconnected /\ ~destroyed
     THEN Disconnect /\ tr' = Closing /\ UNCHANGED destroyed
     ELSE /\ pending' = pending \ {id}
          /\ waiting' = waiting \ {id}
          /\ UNCHANGED <<phase, pinging, ended>>

\* A pending request is rejected by its timer or by its write.
Rejected(id) ==
  CASE kind[id] = "hello" -> StartFails /\ UNCHANGED missed
    [] kind[id] = "ping"  -> PingMissed(id)
    [] kind[id] = "app"   ->
         /\ pending' = pending \ {id}
         /\ waiting' = waiting \ {id}
         /\ UNCHANGED <<phase, missed, pinging, ended>>

\* A response resolves its request; a hello that was answered by something
\* else fails, any other answer of a hello starts the pings.
Resolved(id) ==
  IF kind[id] = "hello"
  THEN \/ /\ phase' = "live"
          /\ pinging' = TRUE
          /\ pending' = pending \ {id}
          /\ waiting' = waiting \ {id}
          /\ UNCHANGED ended
       \/ StartFails
  ELSE /\ pending' = pending \ {id}
       /\ waiting' = waiting \ {id}
       /\ UNCHANGED <<phase, pinging, ended>>

-----------------------------------------------------------------------------
\* The interval timer sends a ping.
Ping(id) == pinging /\ Request(id)

\* A control operation on the session the manager publishes: tap, screenshot.
AppRequest(id) ==
  /\ phase = "live"
  /\ ~destroyed
  /\ ~disconnected
  /\ Request(id)

\* A write that was not accepted rejects its request, if it is still pending.
WriteFails(id) ==
  /\ net[id] = "writing"
  /\ net' = [net EXCEPT ![id] = "none"]
  /\ IF id \in pending THEN Rejected(id)
     ELSE UNCHANGED <<phase, pending, waiting, missed, pinging, ended>>
  /\ UNCHANGED <<stale, device>>

WriteDone(id) ==
  /\ net[id] = "writing"
  /\ tr = "open"
  /\ net' = [net EXCEPT ![id] = "asked"]
  /\ UNCHANGED <<phase, pending, waiting, stale, missed, pinging, ended, device>>

RequestTimesOut(id) ==
  /\ id \in pending
  /\ Rejected(id)
  /\ UNCHANGED <<net, stale, device>>

\* onData: a line with the id of a pending request resolves it; any line
\* restarts the count of missed pings.
Answered(id) ==
  /\ tr # "none"
  /\ \/ net[id] = "answered" /\ net' = [net EXCEPT ![id] = "none"] /\ UNCHANGED stale
     \/ id \in stale /\ stale' = stale \ {id} /\ UNCHANGED net
  /\ missed' = 0
  /\ IF id \in pending THEN Resolved(id)
     ELSE UNCHANGED <<phase, pending, waiting, pinging, ended>>
  /\ UNCHANGED device

\* An event of the device, or a line that is not JSON.
OtherLine ==
  /\ tr # "none"
  /\ device # "silent"
  /\ missed # 0
  /\ missed' = 0
  /\ UNCHANGED <<phase, request, pinging, ended, device>>

\* Mutant: a destroyed session does not tell that its transport closed.
TransportClosedQuietly ==
  /\ tr # "none"
  /\ tr' = "none"
  /\ IF disconnected \/ destroyed
     THEN UNCHANGED <<phase, pending, waiting, pinging, told, disconnected>>
     ELSE Disconnect
  /\ destroyed' = (destroyed \/ phase = "hello")
  /\ net' = [i \in MsgId |-> IF net[i] = "writing" THEN "writing" ELSE "none"]
  /\ stale' = {}
  /\ UNCHANGED <<missed, device>>

\* The transport's 'close' event: the cable, the radio, or a close() of ours.
TransportClosed ==
  /\ tr # "none"
  /\ tr' = "none"
  /\ IF disconnected THEN UNCHANGED <<phase, pending, waiting, pinging, told, disconnected>>
     ELSE Disconnect
  /\ destroyed' = (destroyed \/ phase = "hello")
  /\ net' = [i \in MsgId |-> IF net[i] = "writing" THEN "writing" ELSE "none"]
  /\ stale' = {}
  /\ UNCHANGED <<missed, device>>

\* The manager closes the transport of a session that is still starting, or of
\* one it no longer publishes (flashHold, replace), or destroys the session it
\* publishes (flashHold, stop, replace).
OwnerCloses ==
  /\ phase \in {"hello", "live"}
  /\ ~destroyed
  /\ ~disconnected
  /\ tr = "open"
  /\ tr' = "closing"
  /\ UNCHANGED <<phase, request, missed, pinging, destroyed, disconnected, told, device>>

OwnerDestroys ==
  /\ phase = "live"
  /\ ~destroyed
  /\ ~disconnected
  /\ Destroy
  /\ UNCHANGED <<phase, net, stale, missed, disconnected, told, device>>

-----------------------------------------------------------------------------
(* The device (environment). *)

DeviceAnswers(id) ==
  /\ device = "answers"
  /\ net[id] = "asked"
  /\ net' = [net EXCEPT ![id] = "answered"]
  /\ UNCHANGED <<phase, pending, waiting, stale, missed, pinging, ended, device>>

DeviceIgnores(id) ==
  /\ net[id] = "asked"
  /\ net' = [net EXCEPT ![id] = "none"]
  /\ UNCHANGED <<phase, pending, waiting, stale, missed, pinging, ended, device>>

\* From now on the link is half open: writes succeed, and nothing comes back, or
\* nothing that decodes.
FallsSilent ==
  /\ device = "answers"
  /\ device' \in {"noisy", "silent"}
  /\ UNCHANGED <<phase, request, missed, pinging, ended>>

Wire(id) == WriteFails(id) \/ WriteDone(id) \/ Answered(id)

Next ==
  \/ \E id \in PingId : Ping(id)
  \/ \E id \in AppId : AppRequest(id)
  \/ \E id \in MsgId : RequestTimesOut(id) \/ Wire(id)
  \/ OtherLine \/ TransportClosed \/ OwnerCloses \/ OwnerDestroys
  \/ \E id \in MsgId : DeviceAnswers(id) \/ DeviceIgnores(id)
  \/ FallsSilent

\* Timers fire, a write ends, what was asked is answered or not.
Fairness ==
  /\ WF_vars(\E id \in PingId : Ping(id))
  /\ \A id \in MsgId :
       /\ WF_vars(RequestTimesOut(id))
       /\ WF_vars(Wire(id))
       /\ WF_vars(DeviceAnswers(id) \/ DeviceIgnores(id))

Spec == Init /\ [][Next]_vars
FairSpec == Spec /\ Fairness

-----------------------------------------------------------------------------
(* Properties *)

\* The promises that are not settled are exactly those of the pending table, so
\* that each has a timer: nobody awaits a request for ever, however timeouts,
\* failed writes, stale answers, disconnect and destroy overlap.
NoOrphanRequest == waiting = pending

\* A session that was destroyed or is disconnected pings no more and has no
\* request left, whichever came first (destroy, onDisconnect, forceDisconnect).
EndedIsQuiet == destroyed \/ disconnected => ~pinging /\ pending = {}

\* The watchdog counts only pings, each once: every missed one leaves the table.
\* A failed tap or screenshot, or a write error that follows a timeout, never
\* brings the link closer to being given up.
MissIsAPing ==
  [][missed' > missed =>
       /\ missed' = missed + 1
       /\ \E id \in pending \ pending' : kind[id] = "ping"]_vars

\* The link is given up (told while the transport is not closed) only for
\* MaxMissed misses with no line between them.
GivenUpForSilence ==
  [][(told' /\ ~told /\ tr' # "none") => missed = MaxMissed - 1 /\ missed' = MaxMissed]_vars

\* A session is what the device manager counts on.
stage ==
  CASE phase = "hello" -> "hello"
    [] phase = "live" /\ ~destroyed /\ ~disconnected -> "up"
    [] OTHER -> "idle"
SP == INSTANCE SessionPromise WITH link <- tr
ImplementsPromise == SP!Promise

\* A half-open link is given up although its transport never reports a close.
SilentLinkIsDropped == (device = "silent" /\ phase = "live") ~> (destroyed \/ disconnected)

\* What the comment in onData says: decoded frames prove that the link is alive,
\* so a device that sends none is given up.
NoisyLinkIsDropped ==
  (device = "noisy" /\ phase = "live" /\ tr = "open") ~> (destroyed \/ disconnected)

\* Every request is settled.
RequestsSettle == \A id \in MsgId : (id \in waiting) ~> (id \notin waiting)
=============================================================================
