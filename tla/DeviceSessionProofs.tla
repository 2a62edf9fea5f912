------------------------ MODULE DeviceSessionProofs ------------------------
(* Theorems about DeviceSession, for every set of ids and every MaxMissed. *)
EXTENDS DeviceSession, TLAPS

\* What the phase of start() and the flags say of each other: a starting
\* session has not ended, a failed one was destroyed, 'disconnect' is emitted
\* exactly when the session is disconnected, only a live session pings, and the
\* count of missed pings is full only when the session has ended.
Phases ==
  /\ phase = "hello" => ~destroyed /\ ~disconnected
  /\ phase = "failed" => destroyed
  /\ told <=> disconnected
  /\ tr = "none" => disconnected
  /\ pinging => phase = "live"
  /\ missed = MaxMissed => destroyed \/ disconnected

IInv == TypeOK /\ NoOrphanRequest /\ EndedIsQuiet /\ Phases

\* A session that has just sent its hello satisfies the invariant.
LEMMA SessionInit == ASSUME Init PROVE IInv
<1>1. PICK id \in PingId :
        /\ pending = {id}
        /\ net = [i \in MsgId |-> IF i = id THEN "writing" ELSE "none"]
  BY DEF Init
<1>2. pending \subseteq MsgId /\ waiting \subseteq MsgId BY <1>1 DEF Init, MsgId
<1>3. net \in [MsgId -> {"none", "writing", "asked", "answered"}] BY <1>1
<1>4. missed \in 0..MaxMissed BY MissedAssumption DEF Init
<1>5. TypeOK BY <1>2, <1>3, <1>4 DEF Init, TypeOK
<1>6. NoOrphanRequest BY DEF Init, NoOrphanRequest
<1>7. phase = "hello" /\ ~destroyed /\ ~disconnected /\ ~told /\ ~pinging /\ tr = "open"
  BY DEF Init
<1>8. missed # MaxMissed BY MissedAssumption DEF Init
<1>9. EndedIsQuiet /\ Phases BY <1>7, <1>8 DEF EndedIsQuiet, Phases
<1> QED BY <1>5, <1>6, <1>9 DEF IInv

\* Every step of a session keeps the invariant.
LEMMA SessionNext == ASSUME IInv, [Next]_vars PROVE IInv'
<1> USE MissedAssumption
<1> USE DEF IInv, TypeOK, NoOrphanRequest, EndedIsQuiet, Phases
<1>1. ASSUME NEW id \in PingId, Ping(id) PROVE IInv'
  BY <1>1 DEF Ping, Request, MsgId, ended
<1>2. ASSUME NEW id \in AppId, AppRequest(id) PROVE IInv'
  BY <1>2 DEF AppRequest, Request, MsgId, ended
<1>3. ASSUME NEW id \in MsgId, id \in pending, Rejected(id),
             net' \in [MsgId -> {"none", "writing", "asked", "answered"}],
             UNCHANGED <<stale, device>>
      PROVE  IInv'
  <2>1. CASE phase = "hello"
    BY <1>3, <2>1 DEF Rejected, kind, StartFails, Destroy, Closing
  <2>2. CASE phase # "hello" /\ id \in PingId
    <3>1. PingMissed(id) BY <1>3, <2>2 DEF Rejected, kind
    <3>2. missed' \in 0..MaxMissed BY <3>1 DEF PingMissed
    <3>3. CASE missed + 1 >= MaxMissed /\ ~disconnected /\ ~destroyed
      BY <1>3, <2>2, <3>1, <3>2, <3>3 DEF PingMissed, Disconnect, Closing
    <3>4. CASE ~(missed + 1 >= MaxMissed /\ ~disconnected /\ ~destroyed)
      BY <1>3, <3>1, <3>2, <3>4 DEF PingMissed, ended
    <3> QED BY <3>3, <3>4
  <2>3. CASE phase # "hello" /\ id \notin PingId
    BY <1>3, <2>3 DEF Rejected, kind, ended
  <2> QED BY <2>1, <2>2, <2>3
<1>4. ASSUME NEW id \in MsgId, WriteFails(id) PROVE IInv'
  <2>1. net' \in [MsgId -> {"none", "writing", "asked", "answered"}] BY <1>4 DEF WriteFails
  <2>2. CASE id \in pending BY <1>3, <1>4, <2>1, <2>2 DEF WriteFails
  <2>3. CASE id \notin pending BY <1>4, <2>1, <2>3 DEF WriteFails, ended
  <2> QED BY <2>2, <2>3
<1>5. ASSUME NEW id \in MsgId, RequestTimesOut(id) PROVE IInv'
  BY <1>3, <1>5 DEF RequestTimesOut
<1>6. ASSUME NEW id \in MsgId, WriteDone(id) PROVE IInv'
  BY <1>6 DEF WriteDone, ended
<1>7. ASSUME NEW id \in MsgId, Answered(id) PROVE IInv'
  <2>1. net' \in [MsgId -> {"none", "writing", "asked", "answered"}] /\ stale' \subseteq MsgId
    BY <1>7 DEF Answered
  <2>2. CASE id \notin pending BY <1>7, <2>1, <2>2 DEF Answered, ended
  <2>3. CASE id \in pending
    <3>1. Resolved(id) /\ missed' = 0 /\ UNCHANGED device BY <1>7, <2>3 DEF Answered
    <3>2. CASE StartFails
      <4>1. missed' \in 0..MaxMissed BY <3>1
      <4>2. tr' \in {"open", "closing", "none"} /\ (tr' = "none" => disconnected)
        BY <3>2 DEF StartFails, Destroy, Closing
      <4> QED BY <2>1, <3>1, <3>2, <4>1, <4>2 DEF StartFails, Destroy
    <3>3. CASE /\ pending' = pending \ {id}
               /\ waiting' = waiting \ {id}
               /\ UNCHANGED ended
               /\ \/ phase = "hello" /\ phase' = "live" /\ pinging' = TRUE
                  \/ UNCHANGED <<phase, pinging>>
      <4>1. missed' \in 0..MaxMissed BY <3>1
      <4>2. ~destroyed /\ ~disconnected BY <2>3
      <4>3. phase' \in {"hello", "live", "failed"} /\ pinging' \in BOOLEAN BY <3>3
      <4>4. TypeOK' BY <2>1, <3>1, <3>3, <4>1, <4>3 DEF ended
      <4>5. NoOrphanRequest' /\ EndedIsQuiet' BY <3>3, <4>2 DEF ended
      <4>6. Phases' BY <3>1, <3>3, <4>2 DEF ended
      <4> QED BY <4>4, <4>5, <4>6
    <3>4. \/ StartFails
          \/ /\ pending' = pending \ {id}
             /\ waiting' = waiting \ {id}
             /\ UNCHANGED ended
             /\ \/ phase = "hello" /\ phase' = "live" /\ pinging' = TRUE
                \/ UNCHANGED <<phase, pinging>>
      BY <3>1 DEF Resolved, kind
    <3> QED BY <3>2, <3>3, <3>4
  <2> QED BY <2>2, <2>3
<1>8. CASE OtherLine BY <1>8 DEF OtherLine, request, ended
<1>9. CASE TransportClosed BY <1>9 DEF TransportClosed, Disconnect
<1>10. CASE OwnerCloses BY <1>10 DEF OwnerCloses, request
<1>11. CASE OwnerDestroys BY <1>11 DEF OwnerDestroys, Destroy, Closing
<1>12. ASSUME NEW id \in MsgId, DeviceAnswers(id) \/ DeviceIgnores(id) PROVE IInv'
  BY <1>12 DEF DeviceAnswers, DeviceIgnores, ended
<1>13. CASE FallsSilent BY <1>13 DEF FallsSilent, request, ended
<1>14. CASE UNCHANGED vars BY <1>14 DEF vars, request, ended
<1> QED
  BY <1>1, <1>2, <1>4, <1>5, <1>6, <1>7, <1>8, <1>9, <1>10, <1>11, <1>12, <1>13, <1>14
  DEF Next, Wire

\* The session's inductive invariant.
THEOREM SessionInvariant == Spec => []IInv
<1>1. Init => IInv BY SessionInit
<1>2. IInv /\ [Next]_vars => IInv' BY SessionNext
<1> QED BY <1>1, <1>2, PTL DEF Spec

\* No caller of request() is left waiting on a promise that has no timer, and a
\* session that has ended neither pings nor keeps requests, in whatever order
\* answers, timeouts, failed writes, disconnects and destroy() come.
THEOREM NobodyIsForgotten == Spec => [](NoOrphanRequest /\ EndedIsQuiet)
<1>1. IInv => NoOrphanRequest /\ EndedIsQuiet BY DEF IInv
<1> QED BY <1>1, SessionInvariant, PTL

\* The watchdog's counter moves by one, and only for a ping that leaves the table.
LEMMA CountingSteps ==
  ASSUME IInv, [Next]_vars
  PROVE  missed' > missed =>
           /\ missed' = missed + 1
           /\ \E id \in pending \ pending' : kind[id] = "ping"
<1> USE MissedAssumption
<1> USE DEF IInv, TypeOK
<1> SUFFICES ASSUME missed' > missed
             PROVE  missed' = missed + 1 /\ \E id \in pending \ pending' : kind[id] = "ping"
  OBVIOUS
<1>1. PICK id \in MsgId : id \in pending /\ Rejected(id)
  BY DEF Next, Wire, Ping, AppRequest, Request, WriteFails, WriteDone, RequestTimesOut,
     Answered, OtherLine, TransportClosed, OwnerCloses, OwnerDestroys, DeviceAnswers,
     DeviceIgnores, FallsSilent, vars
<1>2. kind[id] \in {"hello", "ping", "app"} BY DEF kind
<1>3. kind[id] = "ping"
  <2>1. CASE kind[id] = "hello" BY <1>1, <2>1 DEF Rejected
  <2>2. CASE kind[id] = "app" BY <1>1, <2>2 DEF Rejected
  <2> QED BY <1>2, <2>1, <2>2
<1>4. PingMissed(id) BY <1>1, <1>3 DEF Rejected
<1>5. missed' = missed + 1 /\ id \notin pending' BY <1>4 DEF PingMissed, Disconnect
<1> QED BY <1>1, <1>3, <1>5

\* Only missed pings, each once, count against the link.
THEOREM OnlyPingsCount == Spec => MissIsAPing
<1>1. IInv /\ [Next]_vars =>
        [missed' > missed =>
           /\ missed' = missed + 1
           /\ \E id \in pending \ pending' : kind[id] = "ping"]_vars
  BY CountingSteps
<1> QED BY <1>1, SessionInvariant, PTL DEF Spec, MissIsAPing

\* A rejected request is a stutter of the promise, a failed hello, or the
\* watchdog's decision.
LEMMA RejectionMaps ==
  ASSUME IInv, NEW id \in pending, Rejected(id)
  PROVE  \/ SP!HelloFailed
         \/ SP!GivenUp
         \/ UNCHANGED SP!promiseVars
<1> USE DEF IInv, TypeOK, Phases, EndedIsQuiet
<1>1. id \in MsgId OBVIOUS
<1>2. CASE phase = "hello"
  <2>1. StartFails BY <1>1, <1>2 DEF Rejected, kind
  <2> QED BY <1>2, <2>1 DEF StartFails, Destroy, Closing, SP!HelloFailed, SP!CloseLink, stage
<1>3. CASE phase # "hello" /\ id \in PingId
  <2>1. PingMissed(id) BY <1>1, <1>3 DEF Rejected, kind
  <2>2. CASE missed + 1 >= MaxMissed /\ ~disconnected /\ ~destroyed
    <3>1. stage = "up" BY <1>3, <2>2 DEF stage
    <3>2. stage' = "idle" /\ told' = TRUE /\ SP!CloseLink
      BY <1>3, <2>1, <2>2 DEF PingMissed, Disconnect, Closing, stage, SP!CloseLink
    <3> QED BY <3>1, <3>2 DEF SP!GivenUp
  <2>3. CASE ~(missed + 1 >= MaxMissed /\ ~disconnected /\ ~destroyed)
    BY <2>1, <2>3 DEF PingMissed, ended, stage, SP!promiseVars
  <2> QED BY <2>2, <2>3
<1>4. CASE phase # "hello" /\ id \notin PingId
  BY <1>1, <1>4 DEF Rejected, kind, ended, stage, SP!promiseVars
<1> QED BY <1>2, <1>3, <1>4

\* Every step of a session is a step of the promise or a stutter.
LEMMA StepMaps ==
  ASSUME IInv, [Next]_vars
  PROVE  [SP!PromiseNext]_(SP!promiseVars)
<1> USE DEF IInv, TypeOK, Phases, EndedIsQuiet
<1>1. ASSUME NEW id \in PingId, Ping(id) PROVE UNCHANGED SP!promiseVars
  BY <1>1 DEF Ping, Request, ended, stage, SP!promiseVars
<1>2. ASSUME NEW id \in AppId, AppRequest(id) PROVE UNCHANGED SP!promiseVars
  BY <1>2 DEF AppRequest, Request, ended, stage, SP!promiseVars
<1>3. ASSUME NEW id \in MsgId, WriteFails(id) PROVE [SP!PromiseNext]_(SP!promiseVars)
  <2>1. CASE id \in pending
    BY <1>3, <2>1, RejectionMaps DEF WriteFails, SP!PromiseNext
  <2>2. CASE id \notin pending
    BY <1>3, <2>2 DEF WriteFails, ended, stage, SP!promiseVars
  <2> QED BY <2>1, <2>2
<1>4. ASSUME NEW id \in MsgId, RequestTimesOut(id) PROVE [SP!PromiseNext]_(SP!promiseVars)
  BY <1>4, RejectionMaps DEF RequestTimesOut, SP!PromiseNext
<1>5. ASSUME NEW id \in MsgId, WriteDone(id) PROVE UNCHANGED SP!promiseVars
  BY <1>5 DEF WriteDone, ended, stage, SP!promiseVars
<1>6. ASSUME NEW id \in MsgId, Answered(id) PROVE [SP!PromiseNext]_(SP!promiseVars)
  <2>1. CASE id \notin pending
    BY <1>6, <2>1 DEF Answered, ended, stage, SP!promiseVars
  <2>2. CASE id \in pending /\ phase = "hello"
    <3>1. tr # "none" /\ Resolved(id) BY <1>6, <2>2 DEF Answered
    <3>2. CASE StartFails
      BY <2>2, <3>2 DEF StartFails, Destroy, Closing, stage, SP!HelloFailed, SP!CloseLink,
                        SP!PromiseNext
    <3>3. CASE phase' = "live" /\ UNCHANGED ended
      BY <2>2, <3>1, <3>3 DEF ended, stage, SP!Acked, SP!PromiseNext
    <3> QED BY <2>2, <3>1, <3>2, <3>3 DEF Resolved, kind
  <2>3. CASE id \in pending /\ phase # "hello"
    BY <1>6, <2>3 DEF Answered, Resolved, kind, ended, stage, SP!promiseVars
  <2> QED BY <2>1, <2>2, <2>3
<1>7. CASE OtherLine BY <1>7 DEF OtherLine, ended, stage, SP!promiseVars
<1>8. CASE TransportClosed
  <2>1. stage' = "idle" BY <1>8 DEF TransportClosed, Disconnect, stage
  <2>2. tr # "none" /\ tr' = "none" /\ told' = TRUE
    BY <1>8 DEF TransportClosed, Disconnect
  <2> QED BY <2>1, <2>2 DEF SP!LinkGone, SP!PromiseNext
<1>9. CASE OwnerCloses
  BY <1>9 DEF OwnerCloses, stage, SP!OwnerCloses, SP!CloseLink, SP!PromiseNext
<1>10. CASE OwnerDestroys
  BY <1>10 DEF OwnerDestroys, Destroy, Closing, stage, SP!OwnerDestroys, SP!CloseLink,
               SP!PromiseNext
<1>11. ASSUME NEW id \in MsgId, DeviceAnswers(id) \/ DeviceIgnores(id)
       PROVE  UNCHANGED SP!promiseVars
  BY <1>11 DEF DeviceAnswers, DeviceIgnores, ended, stage, SP!promiseVars
<1>12. CASE FallsSilent BY <1>12 DEF FallsSilent, ended, stage, SP!promiseVars
<1>13. CASE UNCHANGED vars BY <1>13 DEF vars, ended, stage, SP!promiseVars
<1> QED
  BY <1>1, <1>2, <1>3, <1>4, <1>5, <1>6, <1>7, <1>8, <1>9, <1>10, <1>11, <1>12, <1>13
  DEF Next, Wire

\* A device session, with its request table, pings and watchdog, is what the
\* device manager counts on: start() ends once, a session goes down once, and
\* 'disconnect' is told at most once and only of a link that is given up or gone.
THEOREM SessionKeepsItsPromise == Spec => ImplementsPromise
<1>1. Init => SP!PromiseInit BY DEF Init, stage, SP!PromiseInit
<1>2. IInv /\ [Next]_vars => [SP!PromiseNext]_(SP!promiseVars) BY StepMaps
<1> QED BY <1>1, <1>2, SessionInvariant, PTL DEF Spec, ImplementsPromise, SP!Promise

\* The watchdog gives a link up only when MaxMissed pings in a row were missed.
THEOREM OnlySilenceGivesUp == Spec => GivenUpForSilence
<1>1. ASSUME IInv, [Next]_vars, told', ~told, tr' # "none"
      PROVE  missed = MaxMissed - 1 /\ missed' = MaxMissed
  <2> USE MissedAssumption
  <2> USE DEF IInv, TypeOK, Phases
  <2>1. PICK id \in MsgId : id \in pending /\ Rejected(id)
    BY <1>1 DEF Next, Wire, Ping, AppRequest, Request, WriteFails, WriteDone,
       RequestTimesOut, Answered, Resolved, StartFails, OtherLine, TransportClosed,
       OwnerCloses, OwnerDestroys, DeviceAnswers, DeviceIgnores, FallsSilent, vars, ended
  <2>2. kind[id] \in {"hello", "ping", "app"} BY DEF kind
  <2>3. kind[id] # "hello" BY <1>1, <2>1 DEF Rejected, StartFails
  <2>4. kind[id] # "app" BY <1>1, <2>1 DEF Rejected, ended
  <2>5. PingMissed(id) BY <2>1, <2>2, <2>3, <2>4 DEF Rejected
  <2>6. missed + 1 >= MaxMissed /\ ~disconnected /\ ~destroyed
    BY <1>1, <2>5 DEF PingMissed, ended
  <2>7. missed # MaxMissed BY <1>1, <2>6
  <2>8. missed \in 0..MaxMissed /\ missed + 1 >= MaxMissed BY <1>1, <2>6
  <2>9. missed = MaxMissed - 1 BY <2>7, <2>8
  <2> QED BY <2>5, <2>9 DEF PingMissed
<1> QED BY <1>1, SessionInvariant, PTL DEF Spec, GivenUpForSilence
=============================================================================
