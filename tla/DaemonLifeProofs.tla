-------------------------- MODULE DaemonLifeProofs --------------------------
(***************************************************************************)
(* Proofs about DaemonLife: types, and that at most one daemon serves.     *)
(***************************************************************************)
EXTENDS DaemonLife, TLAPS

USE DEF life, own, env

-----------------------------------------------------------------------------
\* Types

LEMMA GoneTypes ==
    ASSUME LifeTypeOK, NEW p \in Pid, Gone(p)
    PROVE  /\ proc' \in [Pid -> Phase]
           /\ version' \in [Pid -> 0 .. MaxVersion]
           /\ seen' \in [Pid -> LockInfo]
           /\ conn' \in [Client -> Pid \cup {NoOne}]
           /\ linked' \in Pid \cup {NoOne}
           /\ term' \subseteq Pid
           /\ \A q \in Pid : proc'[q] \in Daemon <=> version'[q] # 0
<1> USE DEF LifeTypeOK, Gone, Goto
<1>1. proc' \in [Pid -> Phase]
  BY DEF Phase
<1>2. version' \in [Pid -> 0 .. MaxVersion]
  BY BoundsAssumption
<1>3. seen' \in [Pid -> LockInfo]
  BY DEF LockInfo
<1>4. conn' \in [Client -> Pid \cup {NoOne}]
  OBVIOUS
<1>5. linked' \in Pid \cup {NoOne} /\ term' \subseteq Pid
  OBVIOUS
<1>6. \A q \in Pid : proc'[q] \in Daemon <=> version'[q] # 0
  BY DEF Daemon, Starting, Stopping
<1> QED
  BY <1>1, <1>2, <1>3, <1>4, <1>5, <1>6

\* A step between two phases of a daemon.
LEMMA GotoTypes ==
    ASSUME LifeTypeOK, NEW p \in Pid, NEW phase \in Daemon, proc[p] \in Daemon,
           Goto(p, phase), version' = version
    PROVE  /\ proc' \in [Pid -> Phase]
           /\ version' \in [Pid -> 0 .. MaxVersion]
           /\ \A q \in Pid : proc'[q] \in Daemon <=> version'[q] # 0
<1> USE DEF LifeTypeOK, Goto
<1>1. proc' \in [Pid -> Phase]
  BY DEF Phase
<1>2. \A q \in Pid : proc'[q] \in Daemon <=> version'[q] # 0
  OBVIOUS
<1> QED
  BY <1>1, <1>2

LEMMA OwnIsLock ==
    ASSUME LifeTypeOK, NEW p \in Pid, proc[p] \in Daemon
    PROVE  Own(p) \in LockInfo /\ Own(p) # NoLock
  BY NoOneAssumption, BoundsAssumption DEF LifeTypeOK, Own, LockInfo, NoLock

LEMMA NoLockIsLock == NoLock \in LockInfo
  BY DEF LockInfo

LEMMA DaemonTypes ==
    ASSUME LifeTypeOK, NEW p \in Pid, DaemonStep(p)
    PROVE  LifeTypeOK'
<1> USE DEF Daemon, Starting, Stopping
<1>1. CASE ReadLock(p)
  <2>1. proc' \in [Pid -> Phase] /\ version' \in [Pid -> 0 .. MaxVersion]
        /\ \A q \in Pid : proc'[q] \in Daemon <=> version'[q] # 0
    BY <1>1, GotoTypes DEF ReadLock
  <2>2. seen' \in [Pid -> LockInfo]
    BY <1>1 DEF ReadLock, LifeTypeOK
  <2> QED
    BY <1>1, <2>1, <2>2 DEF ReadLock, LifeTypeOK
<1>2. CASE Defer(p)
  BY <1>2, GoneTypes DEF Defer, LifeTypeOK
<1>3. CASE TruncateLock(p)
  <2>1. proc' \in [Pid -> Phase] /\ version' \in [Pid -> 0 .. MaxVersion]
        /\ \A q \in Pid : proc'[q] \in Daemon <=> version'[q] # 0
    BY <1>3, GotoTypes DEF TruncateLock
  <2>2. seen' \in [Pid -> LockInfo]
    BY <1>3, NoLockIsLock DEF TruncateLock, LifeTypeOK
  <2>3. lock' \in LockInfo /\ lost' \in BOOLEAN
    BY <1>3, NoLockIsLock DEF TruncateLock, LifeTypeOK
  <2> QED
    BY <1>3, <2>1, <2>2, <2>3 DEF TruncateLock, LifeTypeOK
<1>4. CASE WriteLock(p)
  <2>1. proc' \in [Pid -> Phase] /\ version' \in [Pid -> 0 .. MaxVersion]
        /\ \A q \in Pid : proc'[q] \in Daemon <=> version'[q] # 0
    BY <1>4, GotoTypes DEF WriteLock
  <2>2. lock' \in LockInfo /\ lost' \in BOOLEAN
    BY <1>4, OwnIsLock DEF WriteLock, LifeTypeOK
  <2> QED
    BY <1>4, <2>1, <2>2 DEF WriteLock, LifeTypeOK
<1>5. CASE Kill(p)
  <2>1. proc' \in [Pid -> Phase] /\ version' \in [Pid -> 0 .. MaxVersion]
        /\ \A q \in Pid : proc'[q] \in Daemon <=> version'[q] # 0
    BY <1>5, GotoTypes DEF Kill
  <2>2. term' \subseteq Pid
    BY <1>5 DEF Kill, Alive, LifeTypeOK
  <2> QED
    BY <1>5, <2>1, <2>2 DEF Kill, LifeTypeOK
<1>6. CASE WaitOver(p)
  <2>1. proc' \in [Pid -> Phase] /\ version' \in [Pid -> 0 .. MaxVersion]
        /\ \A q \in Pid : proc'[q] \in Daemon <=> version'[q] # 0
    BY <1>6, GotoTypes DEF WaitOver
  <2>2. seen' \in [Pid -> LockInfo]
    BY <1>6, NoLockIsLock DEF WaitOver, LifeTypeOK
  <2> QED
    BY <1>6, <2>1, <2>2 DEF WaitOver, LifeTypeOK
<1>7. CASE ClearPath(p)
  BY <1>7, GotoTypes DEF ClearPath, LifeTypeOK
<1>8. CASE Bind(p)
  BY <1>8, GotoTypes DEF Bind, LifeTypeOK
<1>9. CASE BindFails(p)
  BY <1>9, GoneTypes DEF BindFails, LifeTypeOK
<1>10. CASE TakeSignal(p)
  <2>0. lost' \in BOOLEAN
    BY <1>10 DEF TakeSignal, LifeTypeOK
  <2>1. CASE ShutDown(p) /\ term' = term \ {p}
    <3>1. proc' \in [Pid -> Phase] /\ version' \in [Pid -> 0 .. MaxVersion]
          /\ \A q \in Pid : proc'[q] \in Daemon <=> version'[q] # 0
      BY <2>1, GotoTypes DEF ShutDown
    <3> QED
      BY <1>10, <2>0, <2>1, <3>1 DEF TakeSignal, ShutDown, LifeTypeOK
  <2>2. CASE proc[p] \in Stopping /\ UNCHANGED version
             /\ Goto(p, IF proc[p] = "closing" THEN "release" ELSE proc[p])
             /\ term' = term \ {p} /\ UNCHANGED <<seen, conn, linked, path>>
    <3>1. proc' \in [Pid -> Phase] /\ version' \in [Pid -> 0 .. MaxVersion]
          /\ \A q \in Pid : proc'[q] \in Daemon <=> version'[q] # 0
      BY <2>2, GotoTypes
    <3> QED
      BY <1>10, <2>0, <2>2, <3>1 DEF TakeSignal, LifeTypeOK
  <2>3. CASE Gone(p) /\ UNCHANGED path
    BY <1>10, <2>0, <2>3, GoneTypes DEF TakeSignal, LifeTypeOK
  <2> QED
    BY <1>10, <2>1, <2>2, <2>3 DEF TakeSignal
<1>11. CASE ClosePath(p)
  BY <1>11, GotoTypes DEF ClosePath, LifeTypeOK
<1>12. CASE KeepLock(p)
  BY <1>12, GoneTypes DEF KeepLock, LifeTypeOK
<1>13. CASE OwnLock(p)
  BY <1>13, GotoTypes DEF OwnLock, LifeTypeOK
<1>14. CASE RemoveLock(p)
  <2>1. lock' \in LockInfo /\ lost' \in BOOLEAN
    BY <1>14, NoLockIsLock DEF RemoveLock, LifeTypeOK
  <2> QED
    BY <1>14, <2>1, GoneTypes DEF RemoveLock, LifeTypeOK
<1> QED
  BY <1>1, <1>2, <1>3, <1>4, <1>5, <1>6, <1>7, <1>8, <1>9, <1>10, <1>11,
     <1>12, <1>13, <1>14 DEF DaemonStep

LEMMA StartTypes ==
    ASSUME LifeTypeOK, NEW p \in Pid, Start(p)
    PROVE  /\ proc' \in [Pid -> Phase]
           /\ version' \in [Pid -> 0 .. MaxVersion]
           /\ \A q \in Pid : proc'[q] \in Daemon <=> version'[q] # 0
<1> USE DEF LifeTypeOK, Start, Goto
<1>1. proc' \in [Pid -> Phase]
  BY DEF Phase, Daemon, Starting
<1>2. version' \in [Pid -> 0 .. MaxVersion]
  BY BoundsAssumption
<1>3. \A q \in Pid : proc'[q] \in Daemon <=> version'[q] # 0
  BY BoundsAssumption DEF Daemon, Starting, Stopping
<1> QED
  BY <1>1, <1>2, <1>3

LEMMA EnsureTypes ==
    ASSUME LifeTypeOK, NEW s \in Shim, EnsureStep(s)
    PROVE  LifeTypeOK'
<1>1. CASE FindPath(s)
  BY <1>1 DEF FindPath, LifeTypeOK
<1>2. CASE ReadPid(s)
  BY <1>2 DEF ReadPid, LifeTypeOK
<1>3. CASE Unlink(s)
  BY <1>3 DEF Unlink, LifeTypeOK
<1>4. ASSUME NEW p \in Pid, Spawn(s, p)
      PROVE  LifeTypeOK'
  <2>1. Start(p)
    BY <1>4 DEF Spawn
  <2>2. proc' \in [Pid -> Phase] /\ version' \in [Pid -> 0 .. MaxVersion]
        /\ \A q \in Pid : proc'[q] \in Daemon <=> version'[q] # 0
    BY <2>1, StartTypes
  <2>3. shim' \in [Shim -> {"idle", "readpid", "unlink", "spawn"}]
    BY <1>4 DEF Spawn, LifeTypeOK
  <2> QED
    BY <1>4, <2>1, <2>2, <2>3 DEF Spawn, Start, LifeTypeOK
<1> QED
  BY <1>1, <1>2, <1>3, <1>4 DEF EnsureStep

LEMMA WorldTypes ==
    ASSUME LifeTypeOK, World
    PROVE  LifeTypeOK'
<1>1. CASE Unplug
  BY <1>1 DEF Unplug, LifeTypeOK
<1>2. CASE Install
  <2>1. installed' \in 1 .. MaxVersion
    BY <1>2, BoundsAssumption DEF Install, LifeTypeOK
  <2> QED
    BY <1>2, <2>1 DEF Install, LifeTypeOK
<1>3. ASSUME NEW c \in Client, Watch(c) \/ Leave(c)
      PROVE  LifeTypeOK'
  BY <1>3 DEF Watch, Leave, LifeTypeOK
<1>4. ASSUME NEW p \in Pid, StartByHand(p)
      PROVE  LifeTypeOK'
  <2>1. Start(p) /\ upsets' \in 0 .. MaxUpsets
    BY <1>4, BoundsAssumption DEF StartByHand, LifeTypeOK
  <2>2. proc' \in [Pid -> Phase] /\ version' \in [Pid -> 0 .. MaxVersion]
        /\ \A q \in Pid : proc'[q] \in Daemon <=> version'[q] # 0
    BY <2>1, StartTypes
  <2> QED
    BY <1>4, <2>1, <2>2 DEF StartByHand, Start, LifeTypeOK
<1>5. ASSUME NEW p \in Pid, Link(p)
      PROVE  LifeTypeOK'
  BY <1>5 DEF Link, LifeTypeOK
<1>6. ASSUME NEW p \in Pid, Interrupt(p)
      PROVE  LifeTypeOK'
  <2>1. upsets' \in 0 .. MaxUpsets
    BY <1>6, BoundsAssumption DEF Interrupt, LifeTypeOK
  <2> QED
    BY <1>6, <2>1 DEF Interrupt, LifeTypeOK
<1>7. ASSUME NEW p \in Pid, Crash(p)
      PROVE  LifeTypeOK'
  <2>1. upsets' \in 0 .. MaxUpsets
    BY <1>7, BoundsAssumption DEF Crash, LifeTypeOK
  <2>2. lost' \in BOOLEAN
    BY <1>7 DEF Crash, LifeTypeOK
  <2> QED
    BY <1>7, <2>1, <2>2, GoneTypes DEF Crash, LifeTypeOK
<1>8. ASSUME NEW p \in Pid, StrangerStarts(p)
      PROVE  LifeTypeOK'
  <2>1. upsets' \in 0 .. MaxUpsets
    BY <1>8, BoundsAssumption DEF StrangerStarts, LifeTypeOK
  <2>2. proc' \in [Pid -> Phase]
    BY <1>8 DEF StrangerStarts, Goto, LifeTypeOK, Phase
  <2>3. \A q \in Pid : proc'[q] \in Daemon <=> version'[q] # 0
    BY <1>8 DEF StrangerStarts, Goto, LifeTypeOK, Daemon, Starting, Stopping
  <2> QED
    BY <1>8, <2>1, <2>2, <2>3 DEF StrangerStarts, LifeTypeOK
<1>9. ASSUME NEW p \in Pid, StrangerEnds(p)
      PROVE  LifeTypeOK'
  BY <1>9, GoneTypes DEF StrangerEnds, LifeTypeOK
<1> QED
  BY <1>1, <1>2, <1>3, <1>4, <1>5, <1>6, <1>7, <1>8, <1>9 DEF World

LEMMA IdleTypes ==
    ASSUME LifeTypeOK, NEW p \in Pid, IdleExit(p)
    PROVE  LifeTypeOK'
<1>1. proc[p] \in Daemon /\ "closing" \in Daemon
  BY DEF IdleExit, ShutDown, Daemon, Stopping
<1>2. proc' \in [Pid -> Phase] /\ version' \in [Pid -> 0 .. MaxVersion]
      /\ \A q \in Pid : proc'[q] \in Daemon <=> version'[q] # 0
  BY <1>1, GotoTypes DEF IdleExit, ShutDown
<1> QED
  BY <1>2 DEF IdleExit, ShutDown, LifeTypeOK

LEMMA TypesStep == LifeTypeOK /\ [Next]_vars => LifeTypeOK'
<1> SUFFICES ASSUME LifeTypeOK, [Next]_vars
             PROVE  LifeTypeOK'
  OBVIOUS
<1>1. CASE UNCHANGED vars
  BY <1>1 DEF vars, LifeTypeOK
<1>2. CASE Next
  BY <1>2, DaemonTypes, IdleTypes, EnsureTypes, WorldTypes DEF Next
<1> QED
  BY <1>1, <1>2

LEMMA TypesInit == Init => LifeTypeOK
<1> SUFFICES ASSUME Init PROVE LifeTypeOK
  OBVIOUS
<1>1. proc \in [Pid -> Phase] /\ \A p \in Pid : proc[p] \in Daemon <=> version[p] # 0
  BY DEF Init, Phase, Daemon, Starting, Stopping
<1>2. version \in [Pid -> 0 .. MaxVersion] /\ installed \in 1 .. MaxVersion
      /\ upsets \in 0 .. MaxUpsets
  BY BoundsAssumption DEF Init
<1>3. lock \in LockInfo /\ seen \in [Pid -> LockInfo]
  BY NoLockIsLock DEF Init
<1>4. conn \in [Client -> Pid \cup {NoOne}] /\ lost \in BOOLEAN
      /\ shim \in [Shim -> {"idle", "readpid", "unlink", "spawn"}]
  BY DEF Init
<1> QED
  BY <1>1, <1>2, <1>3, <1>4 DEF Init, LifeTypeOK

(***************************************************************************)
(* Every variable of the daemon's life keeps its type, and a number is a   *)
(* daemon's exactly when it has a version.                                 *)
(***************************************************************************)
THEOREM LifeTypes == Spec => []LifeTypeOK
  BY TypesInit, TypesStep, PTL DEF Spec

-----------------------------------------------------------------------------
\* One daemon at a time

(***************************************************************************)
(* A step that leaves the lock alone keeps Takeover when nobody begins to  *)
(* take over or to hold, and nobody who supersedes a daemon stops to.      *)
(***************************************************************************)
LEMMA QuietStep ==
    ASSUME LifeTypeOK, Takeover, lock' = lock,
           \A p \in Pid : proc'[p] \in {"write", "kill"} =>
               proc'[p] = proc[p] /\ seen'[p] = seen[p] /\ version'[p] = version[p],
           \A p \in Holding' : p \in Holding /\ version'[p] = version[p],
           \A p \in Pid : Strands(p) => proc'[p] \in {"write", "kill"}
    PROVE  Takeover'
<1>1. TakingOver' \subseteq TakingOver
  BY DEF TakingOver
<1>2. \A p, q \in TakingOver' : p = q
  BY <1>1 DEF Takeover
<1>3. \A p \in Pid : /\ proc'[p] = "write" => lock' = NoLock
                     /\ proc'[p] = "kill" => lock' = Own(p)' /\ seen'[p] # NoLock
  BY DEF Takeover, Own
<1>4. ASSUME NEW p \in Holding'
      PROVE  \/ lock' = Own(p)'
             \/ \E q \in TakingOver' : seen'[q] = Own(p)'
  <2>1. p \in Pid /\ p \in Holding /\ Own(p)' = Own(p) /\ proc[p] \in Daemon
    BY <1>4 DEF Holding, Own, Daemon, Starting
  <2>2. CASE lock = Own(p)
    BY <2>1, <2>2
  <2>3. ASSUME NEW q \in TakingOver, seen[q] = Own(p)
        PROVE  \E r \in TakingOver' : seen'[r] = Own(p)'
    <3>1. Strands(q)
      BY <2>1, <2>3, OwnIsLock DEF Strands, TakingOver
    <3>2. q \in TakingOver' /\ seen'[q] = seen[q]
      BY <3>1 DEF TakingOver
    <3> QED
      BY <2>1, <2>3, <3>2
  <2> QED
    BY <2>1, <2>2, <2>3 DEF Takeover
<1> QED
  BY <1>2, <1>3, <1>4 DEF Takeover

LEMMA GoneQuiet ==
    ASSUME LifeTypeOK, Takeover, NEW p \in Pid, Gone(p), lock' = lock, ~Strands(p)
    PROVE  Takeover'
<1>1. proc'[p] = "free" /\ \A q \in Pid \ {p} :
         proc'[q] = proc[q] /\ seen'[q] = seen[q] /\ version'[q] = version[q]
  BY DEF Gone, Goto, LifeTypeOK
<1>2. \A q \in Holding' : q \in Holding /\ version'[q] = version[q]
  BY <1>1 DEF Gone, Holding
<1>3. \A q \in Pid : Strands(q) => proc'[q] \in {"write", "kill"}
  BY <1>1 DEF Strands
<1> QED
  BY <1>1, <1>2, <1>3, QuietStep

\* A move of a daemon that is not taking over, to a phase that holds nothing
\* new, with the lock and all versions as they were.
LEMMA MoveQuiet ==
    ASSUME LifeTypeOK, Takeover, NEW p \in Pid, NEW phase, Goto(p, phase),
           lock' = lock, version' = version, term' \cup {p} = term \cup {p},
           \A q \in Pid \ {p} : seen'[q] = seen[q],
           phase \notin {"write", "kill"}, ~Strands(p),
           p \in Holding' => p \in Holding
    PROVE  Takeover'
<1>1. proc'[p] = phase /\ \A q \in Pid \ {p} : proc'[q] = proc[q]
  BY DEF Goto, LifeTypeOK
<1>2. \A q \in Holding' : q \in Holding
  BY <1>1 DEF Holding
<1>3. \A q \in Pid : Strands(q) => proc'[q] \in {"write", "kill"}
  BY <1>1 DEF Strands
<1> QED
  BY <1>1, <1>2, <1>3, QuietStep DEF Holding

LEMMA TruncateTakeover ==
    ASSUME LifeTypeOK, Takeover, NEW p \in Pid, TruncateLock(p), ~lost'
    PROVE  Takeover'
<1>1. lock = seen[p] /\ \A q \in Pid \ {p} : proc[q] \notin {"write", "kill"}
  BY DEF TruncateLock, Overtaken
<1>2. /\ proc[p] = "decide" /\ proc'[p] = "write"
      /\ \A q \in Pid \ {p} : proc'[q] = proc[q] /\ seen'[q] = seen[q]
      /\ version' = version /\ term' = term /\ lock' = NoLock
  BY DEF TruncateLock, Goto, LifeTypeOK
<1>3. seen'[p] = IF Alive(seen[p].pid) THEN seen[p] ELSE NoLock
  BY DEF TruncateLock, LifeTypeOK
<1>4. TakingOver = {} /\ TakingOver' = {p}
  BY <1>1, <1>2 DEF TakingOver
<1>5. \A q \in Pid : /\ proc'[q] = "write" => lock' = NoLock
                     /\ proc'[q] = "kill" => lock' = Own(q)' /\ seen'[q] # NoLock
  BY <1>1, <1>2
<1>6. ASSUME NEW q \in Holding'
      PROVE  seen'[p] = Own(q)'
  <2>1. q \in Holding /\ q \in Pid /\ proc[q] # "free" /\ Own(q)' = Own(q)
    BY <1>2, <1>6 DEF Holding, Own
  <2>2. lock = Own(q)
    BY <1>4, <2>1 DEF Takeover
  <2>3. seen[p].pid = q
    BY <1>1, <2>2 DEF Own
  <2>4. Alive(seen[p].pid)
    BY <2>1, <2>3 DEF Alive
  <2> QED
    BY <1>1, <1>3, <2>1, <2>2, <2>4
<1> QED
  BY <1>4, <1>5, <1>6 DEF Takeover

LEMMA WriteTakeover ==
    ASSUME LifeTypeOK, Takeover, NEW p \in Pid, WriteLock(p)
    PROVE  Takeover'
<1>1. /\ proc[p] = "write" /\ lock = NoLock
      /\ \A q \in Pid \ {p} : proc[q] \notin {"write", "kill"}
  BY DEF WriteLock, Takeover, TakingOver
<1>2. /\ proc'[p] = IF seen[p] = NoLock THEN "clear" ELSE "kill"
      /\ \A q \in Pid \ {p} : proc'[q] = proc[q]
      /\ version' = version /\ term' = term /\ lock' = Own(p) /\ seen' = seen
  BY DEF WriteLock, Goto, LifeTypeOK
<1>3. \A q \in Pid : Own(q)' = Own(q)
  BY <1>2 DEF Own
<1>4. \A q, r \in TakingOver' : q = r
  BY <1>1, <1>2 DEF TakingOver
<1>5. \A q \in Pid : /\ proc'[q] = "write" => lock' = NoLock
                     /\ proc'[q] = "kill" => lock' = Own(q)' /\ seen'[q] # NoLock
  BY <1>1, <1>2, <1>3
<1>6. ASSUME NEW q \in Holding'
      PROVE  \/ lock' = Own(q)'
             \/ \E r \in TakingOver' : seen'[r] = Own(q)'
  <2>1. CASE q = p
    BY <1>2, <1>3, <2>1
  <2>2. CASE q # p
    <3>1. q \in Holding /\ q \in Pid /\ proc[q] \in Daemon
      BY <1>2, <1>6, <2>2 DEF Holding, Daemon, Starting
    <3>2. Own(q) # NoLock
      BY <3>1, OwnIsLock
    <3>3. seen[p] = Own(q)
      BY <1>1, <3>1, <3>2 DEF Takeover, TakingOver
    <3>4. p \in TakingOver'
      BY <1>2, <3>2, <3>3 DEF TakingOver
    <3> QED
      BY <1>2, <1>3, <3>1, <3>3, <3>4
  <2> QED
    BY <2>1, <2>2
<1> QED
  BY <1>4, <1>5, <1>6 DEF Takeover

LEMMA KillTakeover ==
    ASSUME LifeTypeOK, Takeover, NEW p \in Pid, Kill(p)
    PROVE  Takeover'
<1>1. /\ proc[p] = "kill" /\ lock = Own(p)
      /\ \A q \in Pid \ {p} : proc[q] \notin {"write", "kill"}
  BY DEF Kill, Takeover, TakingOver
<1>2. /\ proc'[p] = "wait" /\ \A q \in Pid \ {p} : proc'[q] = proc[q]
      /\ version' = version /\ lock' = lock /\ seen' = seen
      /\ term' = IF Alive(seen[p].pid) THEN term \cup {seen[p].pid} ELSE term
  BY DEF Kill, Goto, LifeTypeOK
<1>3. \A q \in Pid : Own(q)' = Own(q) /\ proc'[q] \notin {"write", "kill"}
  BY <1>1, <1>2 DEF Own
<1>4. ASSUME NEW q \in Holding', q # p
      PROVE  lock' = Own(q)'
  <2>1. q \in Pid /\ q \in Holding /\ proc[q] # "free" /\ q \notin term'
    BY <1>2, <1>4 DEF Holding
  <2>2. ASSUME seen[p] = Own(q)
        PROVE  FALSE
    <3>1. seen[p].pid = q
      BY <2>2 DEF Own
    <3>2. Alive(seen[p].pid)
      BY <2>1, <3>1 DEF Alive
    <3> QED
      BY <1>2, <2>1, <3>1, <3>2
  <2>3. lock = Own(q)
    BY <1>1, <2>1, <2>2 DEF Takeover, TakingOver
  <2> QED
    BY <1>2, <1>3, <2>1, <2>3
<1> QED
  BY <1>1, <1>2, <1>3, <1>4 DEF Takeover, TakingOver, Holding

LEMMA RemoveTakeover ==
    ASSUME LifeTypeOK, Takeover, NEW p \in Pid, RemoveLock(p), ~lost'
    PROVE  Takeover'
<1>1. proc[p] = "unlock" /\ lock = Own(p) /\ lock' = NoLock /\ Gone(p)
  BY DEF RemoveLock
<1>2. Own(p) # NoLock
  BY <1>1, OwnIsLock DEF Daemon, Stopping
<1>3. proc'[p] = "free" /\ \A q \in Pid \ {p} :
         proc'[q] = proc[q] /\ seen'[q] = seen[q] /\ version'[q] = version[q]
  BY <1>1 DEF Gone, Goto, LifeTypeOK
<1>4. \A q \in Pid \ {p} : Own(q) # Own(p)
  BY DEF Own
<1>5. \A q \in Pid : proc[q] \notin {"write", "kill"}
  BY <1>1, <1>2, <1>4 DEF Takeover
<1>6. Holding' = {}
  <2>1. SUFFICES ASSUME NEW q \in Holding' PROVE FALSE
    OBVIOUS
  <2>2. q \in Pid \ {p} /\ q \in Holding
    BY <1>1, <1>3 DEF Holding, Gone
  <2> QED
    BY <1>1, <1>4, <1>5, <2>2 DEF Takeover, TakingOver
<1> QED
  BY <1>3, <1>5, <1>6 DEF Takeover, TakingOver

\* The history never forgets.
LEMMA LostStays == LifeTypeOK /\ [Next]_vars => (lost => lost')
<1> SUFFICES ASSUME LifeTypeOK, [Next]_vars, lost
             PROVE  lost'
  OBVIOUS
<1>1. ASSUME NEW p \in Pid, DaemonStep(p)
      PROVE  lost'
  BY <1>1 DEF DaemonStep, ReadLock, Defer, TruncateLock, WriteLock, Kill, WaitOver,
     ClearPath, Bind, BindFails, TakeSignal, ClosePath, KeepLock, OwnLock, RemoveLock
<1>2. ASSUME NEW s \in Shim, EnsureStep(s)
      PROVE  lost'
  BY <1>2 DEF EnsureStep, FindPath, ReadPid, Unlink, Spawn, Start
<1>3. CASE World
  BY <1>3 DEF World, Unplug, Install, Watch, Leave, StartByHand, Start, Link,
     Interrupt, Crash, StrangerStarts, StrangerEnds
<1>4. ASSUME NEW p \in Pid, IdleExit(p)
      PROVE  lost'
  BY <1>4 DEF IdleExit
<1>5. CASE UNCHANGED vars
  BY <1>5 DEF vars
<1> QED
  BY <1>1, <1>2, <1>3, <1>4, <1>5 DEF Next

LEMMA DaemonTakeover ==
    ASSUME LifeTypeOK, Takeover, NEW p \in Pid, DaemonStep(p), ~lost'
    PROVE  Takeover'
<1>1. CASE ReadLock(p)
  BY <1>1, MoveQuiet DEF ReadLock, Strands, Holding, Goto, LifeTypeOK
<1>2. CASE Defer(p)
  BY <1>2, GoneQuiet DEF Defer, Strands
<1>3. CASE TruncateLock(p)
  BY <1>3, TruncateTakeover
<1>4. CASE WriteLock(p)
  BY <1>4, WriteTakeover
<1>5. CASE Kill(p)
  BY <1>5, KillTakeover
<1>6. CASE WaitOver(p)
  BY <1>6, MoveQuiet DEF WaitOver, Strands, Holding, Goto, LifeTypeOK
<1>7. CASE ClearPath(p)
  BY <1>7, MoveQuiet DEF ClearPath, Strands, Holding, Goto, LifeTypeOK
<1>8. CASE Bind(p)
  BY <1>8, MoveQuiet DEF Bind, Strands, Holding, Goto, LifeTypeOK
<1>9. CASE BindFails(p)
  BY <1>9, GoneQuiet DEF BindFails, Strands
<1>10. CASE TakeSignal(p)
  <2>0. ~Strands(p) /\ lock' = lock
    BY <1>10 DEF TakeSignal
  <2>1. CASE ShutDown(p) /\ term' = term \ {p}
    <3>1. Goto(p, "closing") /\ version' = version /\ seen' = seen
      BY <2>1 DEF ShutDown
    <3>2. p \notin Holding' /\ term' \cup {p} = term \cup {p}
      BY <2>1, <3>1 DEF Holding, Goto, LifeTypeOK
    <3> QED
      BY <2>0, <3>1, <3>2, MoveQuiet
  <2>2. CASE proc[p] \in Stopping /\ UNCHANGED version
             /\ Goto(p, IF proc[p] = "closing" THEN "release" ELSE proc[p])
             /\ term' = term \ {p} /\ UNCHANGED <<seen, conn, linked, path>>
    BY <2>0, <2>2, MoveQuiet DEF Stopping, Holding, Goto, LifeTypeOK
  <2>3. CASE Gone(p)
    BY <2>0, <2>3, GoneQuiet
  <2> QED
    BY <1>10, <2>1, <2>2, <2>3 DEF TakeSignal
<1>11. CASE ClosePath(p)
  BY <1>11, MoveQuiet DEF ClosePath, Strands, Holding, Goto, LifeTypeOK
<1>12. CASE KeepLock(p)
  BY <1>12, GoneQuiet DEF KeepLock, Strands
<1>13. CASE OwnLock(p)
  BY <1>13, MoveQuiet DEF OwnLock, Strands, Holding, Goto, LifeTypeOK
<1>14. CASE RemoveLock(p)
  BY <1>14, RemoveTakeover
<1> QED
  BY <1>1, <1>2, <1>3, <1>4, <1>5, <1>6, <1>7, <1>8, <1>9, <1>10, <1>11,
     <1>12, <1>13, <1>14 DEF DaemonStep

\* A new daemon has read nothing yet.
LEMMA StartTakeover ==
    ASSUME LifeTypeOK, Takeover, NEW p \in Pid, Start(p)
    PROVE  Takeover'
<1>1. proc'[p] = "read" /\ \A q \in Pid \ {p} :
         proc'[q] = proc[q] /\ seen'[q] = seen[q] /\ version'[q] = version[q]
  BY DEF Start, Goto, LifeTypeOK
<1>2. \A q \in Holding' : q \in Holding /\ version'[q] = version[q]
  BY <1>1 DEF Start, Holding
<1>3. \A q \in Pid : Strands(q) => proc'[q] \in {"write", "kill"}
  BY <1>1 DEF Strands, Start
<1>4. lock' = lock
  BY DEF Start
<1> QED
  BY <1>1, <1>2, <1>3, <1>4, QuietStep

\* Steps that change no process, no version and no lock.
LEMMA StillTakeover ==
    ASSUME LifeTypeOK, Takeover, UNCHANGED <<proc, version, seen, lock>>,
           term \subseteq term'
    PROVE  Takeover'
  BY DEF Takeover, TakingOver, Holding, Own

LEMMA WorldTakeover ==
    ASSUME LifeTypeOK, Takeover, World, ~lost'
    PROVE  Takeover'
<1>1. CASE Unplug \/ Install
  BY <1>1, StillTakeover DEF Unplug, Install
<1>2. ASSUME NEW c \in Client, Watch(c) \/ Leave(c)
      PROVE  Takeover'
  BY <1>2, StillTakeover DEF Watch, Leave
<1>3. ASSUME NEW p \in Pid, Link(p) \/ Interrupt(p)
      PROVE  Takeover'
  BY <1>3, StillTakeover DEF Link, Interrupt
<1>4. ASSUME NEW p \in Pid, StartByHand(p)
      PROVE  Takeover'
  BY <1>4, StartTakeover DEF StartByHand
<1>5. ASSUME NEW p \in Pid, Crash(p)
      PROVE  Takeover'
  BY <1>5, GoneQuiet DEF Crash
<1>6. ASSUME NEW p \in Pid, StrangerStarts(p)
      PROVE  Takeover'
  BY <1>6, MoveQuiet DEF StrangerStarts, Strands, Holding, Goto, LifeTypeOK
<1>7. ASSUME NEW p \in Pid, StrangerEnds(p)
      PROVE  Takeover'
  BY <1>7, GoneQuiet DEF StrangerEnds, Strands
<1> QED
  BY <1>1, <1>2, <1>3, <1>4, <1>5, <1>6, <1>7 DEF World

LEMMA EnsureTakeover ==
    ASSUME LifeTypeOK, Takeover, NEW s \in Shim, EnsureStep(s)
    PROVE  Takeover'
<1>1. CASE FindPath(s) \/ ReadPid(s) \/ Unlink(s)
  BY <1>1, StillTakeover DEF FindPath, ReadPid, Unlink
<1>2. ASSUME NEW p \in Pid, Spawn(s, p)
      PROVE  Takeover'
  BY <1>2, StartTakeover DEF Spawn
<1> QED
  BY <1>1, <1>2 DEF EnsureStep

LEMMA TakeoverStep == LifeTypeOK /\ TakeoverSound /\ [Next]_vars => TakeoverSound'
<1> SUFFICES ASSUME LifeTypeOK, TakeoverSound, [Next]_vars, ~lost'
             PROVE  Takeover'
  BY DEF TakeoverSound
<1>1. Takeover
  BY LostStays DEF TakeoverSound
<1>2. CASE UNCHANGED vars
  BY <1>1, <1>2, StillTakeover DEF vars
<1>3. ASSUME NEW p \in Pid, IdleExit(p)
      PROVE  Takeover'
  BY <1>1, <1>3, MoveQuiet DEF IdleExit, ShutDown, Strands, Holding, Goto, LifeTypeOK
<1>4. CASE Next
  BY <1>1, <1>3, <1>4, DaemonTakeover, EnsureTakeover, WorldTakeover DEF Next
<1> QED
  BY <1>2, <1>4

LEMMA TakeoverInit == Init => TakeoverSound
  BY DEF Init, TakeoverSound, Takeover, TakingOver, Holding

(***************************************************************************)
(* The lock names the one daemon that holds on, or the one that takes over *)
(* knows it, as long as nothing was lost: acquireLock.                     *)
(***************************************************************************)
THEOREM TakeoverIsSound == Spec => []TakeoverSound
<1>1. Init => LifeTypeOK /\ TakeoverSound
  BY TypesInit, TakeoverInit
<1>2. LifeTypeOK /\ TakeoverSound /\ [Next]_vars => (LifeTypeOK /\ TakeoverSound)'
  BY TypesStep, TakeoverStep
<1> QED
  BY <1>1, <1>2, PTL DEF Spec

LEMMA SoundServes == LifeTypeOK /\ TakeoverSound => OneServing
<1> SUFFICES ASSUME LifeTypeOK, Takeover, NEW p \in Serving, NEW q \in Serving
             PROVE  p = q
  BY DEF TakeoverSound, OneServing
<1>1. /\ p \in Holding /\ q \in Holding /\ p \in Pid /\ q \in Pid
      /\ p \notin TakingOver /\ q \notin TakingOver
  BY DEF Serving, Holding, TakingOver
<1>2. /\ proc[p] \in Daemon /\ proc[q] \in Daemon
      /\ Own(p) # NoLock /\ Own(q) # NoLock
  BY OwnIsLock DEF Serving, Daemon
<1>3. \A r, s \in Pid : Own(r) = Own(s) => r = s
  BY DEF Own
<1>4. \A r \in TakingOver : lock # Own(p) /\ lock # Own(q)
  BY <1>1, <1>2, <1>3 DEF Takeover, TakingOver
<1> QED
  BY <1>1, <1>3, <1>4 DEF Takeover

(***************************************************************************)
(* At most one daemon serves, for any number of processes, shims, clients, *)
(* versions and upsets.                                                    *)
(***************************************************************************)
THEOREM OneDaemonServes == Spec => []OneServing
<1>1. LifeTypeOK /\ TakeoverSound => OneServing
  BY SoundServes
<1> QED
  BY <1>1, LifeTypes, TakeoverIsSound, PTL

-----------------------------------------------------------------------------
(* A daemon that ends by its own shutdown leaves nothing that names it *)

Wrote == {"kill", "wait", "clear", "bind", "up"} \cup Stopping

\* What makes it so. The lock with the number of a daemon that has written it is
\* that daemon's own, not one of an earlier version left under the same number;
\* a daemon that stops has removed its socket.
CleanInv ==
    \A p \in Pid : /\ proc[p] \in Wrote /\ lock.pid = p => lock = Own(p)
                   /\ proc[p] \in Stopping => path # p

\* A step of p that writes no lock and binds no path.
LEMMA QuietClean ==
    ASSUME LifeTypeOK, CleanInv, NEW p \in Pid,
           \A q \in Pid \ {p} : proc'[q] = proc[q] /\ version'[q] = version[q],
           proc'[p] \in Wrote => proc[p] \in Wrote /\ version'[p] = version[p],
           proc'[p] \in Stopping => proc[p] \in Stopping \/ path' = NoOne,
           lock' \in {lock, NoLock}, path' \in {path, NoOne}
    PROVE  CleanInv'
<1> SUFFICES ASSUME NEW q \in Pid
             PROVE  /\ proc'[q] \in Wrote /\ lock'.pid = q => lock' = Own(q)'
                    /\ proc'[q] \in Stopping => path' # q
  BY DEF CleanInv
<1>1. proc'[q] \in Wrote => proc[q] \in Wrote /\ Own(q)' = Own(q)
  BY DEF Own
<1>2. lock'.pid = q => lock' = lock
  BY NoOneAssumption DEF NoLock
<1>3. proc'[q] \in Stopping => path' # q
  BY NoOneAssumption DEF CleanInv
<1> QED
  BY <1>1, <1>2, <1>3 DEF CleanInv

LEMMA GoneClean ==
    ASSUME LifeTypeOK, CleanInv, NEW p \in Pid, Gone(p),
           lock' \in {lock, NoLock}, path' = path
    PROVE  CleanInv'
<1>1. proc'[p] = "free" /\ \A q \in Pid \ {p} :
         proc'[q] = proc[q] /\ version'[q] = version[q]
  BY DEF Gone, Goto, LifeTypeOK
<1> QED
  BY <1>1, QuietClean DEF Wrote, Stopping

LEMMA MoveClean ==
    ASSUME LifeTypeOK, CleanInv, NEW p \in Pid, NEW phase, Goto(p, phase),
           version' = version,
           phase \in Wrote => proc[p] \in Wrote,
           phase \in Stopping => proc[p] \in Stopping \/ path' = NoOne,
           lock' \in {lock, NoLock}, path' \in {path, NoOne}
    PROVE  CleanInv'
<1>1. proc'[p] = phase /\ \A q \in Pid \ {p} : proc'[q] = proc[q]
  BY DEF Goto, LifeTypeOK
<1> QED
  BY <1>1, QuietClean

LEMMA StartClean ==
    ASSUME LifeTypeOK, CleanInv, NEW p \in Pid, Start(p)
    PROVE  CleanInv'
<1>1. proc'[p] = "read" /\ \A q \in Pid \ {p} :
         proc'[q] = proc[q] /\ version'[q] = version[q]
  BY DEF Start, Goto, LifeTypeOK
<1> QED
  BY <1>1, QuietClean DEF Start, Wrote, Stopping

LEMMA StillClean ==
    ASSUME CleanInv, UNCHANGED <<proc, version, lock>>, path' \in {path, NoOne}
    PROVE  CleanInv'
  BY NoOneAssumption DEF CleanInv, Own

LEMMA WriteClean ==
    ASSUME LifeTypeOK, CleanInv, NEW p \in Pid, WriteLock(p)
    PROVE  CleanInv'
<1>1. /\ proc'[p] \notin Stopping /\ \A q \in Pid \ {p} : proc'[q] = proc[q]
      /\ version' = version /\ lock' = Own(p) /\ path' = path
  BY DEF WriteLock, Goto, LifeTypeOK, Stopping
<1>2. \A q \in Pid : lock'.pid = q => lock' = Own(q)'
  BY <1>1 DEF Own
<1> QED
  BY <1>1, <1>2 DEF CleanInv

LEMMA BindClean ==
    ASSUME LifeTypeOK, CleanInv, NEW p \in Pid, Bind(p)
    PROVE  CleanInv'
<1>1. /\ proc[p] = "bind" /\ proc'[p] = "up"
      /\ \A q \in Pid \ {p} : proc'[q] = proc[q]
      /\ version' = version /\ lock' = lock /\ path' = p
  BY DEF Bind, Goto, LifeTypeOK
<1>2. \A q \in Pid : proc'[q] \in Stopping => path' # q
  BY <1>1 DEF Stopping
<1>3. \A q \in Pid : proc'[q] \in Wrote => proc[q] \in Wrote
  BY <1>1 DEF Wrote
<1> QED
  BY <1>1, <1>2, <1>3 DEF CleanInv, Own

LEMMA DaemonClean ==
    ASSUME LifeTypeOK, CleanInv, NEW p \in Pid, DaemonStep(p)
    PROVE  CleanInv'
<1> USE DEF Wrote, Stopping
<1>1. CASE ReadLock(p)
  BY <1>1, MoveClean DEF ReadLock
<1>2. CASE Defer(p)
  BY <1>2, GoneClean DEF Defer
<1>3. CASE TruncateLock(p)
  BY <1>3, MoveClean DEF TruncateLock
<1>4. CASE WriteLock(p)
  BY <1>4, WriteClean
<1>5. CASE Kill(p)
  BY <1>5, MoveClean DEF Kill
<1>6. CASE WaitOver(p)
  BY <1>6, MoveClean DEF WaitOver
<1>7. CASE ClearPath(p)
  BY <1>7, MoveClean DEF ClearPath
<1>8. CASE Bind(p)
  BY <1>8, BindClean
<1>9. CASE BindFails(p)
  BY <1>9, GoneClean DEF BindFails
<1>10. CASE TakeSignal(p)
  <2>1. lock' = lock
    BY <1>10 DEF TakeSignal
  <2>2. CASE ShutDown(p)
    BY <2>1, <2>2, MoveClean DEF ShutDown
  <2>3. CASE proc[p] \in Stopping /\ UNCHANGED <<version, path>>
             /\ Goto(p, IF proc[p] = "closing" THEN "release" ELSE proc[p])
    BY <2>1, <2>3, MoveClean
  <2>4. CASE Gone(p) /\ UNCHANGED path
    BY <2>1, <2>4, GoneClean
  <2> QED
    BY <1>10, <2>2, <2>3, <2>4 DEF TakeSignal
<1>11. CASE ClosePath(p)
  BY <1>11, MoveClean DEF ClosePath
<1>12. CASE KeepLock(p)
  BY <1>12, GoneClean DEF KeepLock
<1>13. CASE OwnLock(p)
  BY <1>13, MoveClean DEF OwnLock
<1>14. CASE RemoveLock(p)
  BY <1>14, GoneClean DEF RemoveLock
<1> QED
  BY <1>1, <1>2, <1>3, <1>4, <1>5, <1>6, <1>7, <1>8, <1>9, <1>10, <1>11,
     <1>12, <1>13, <1>14 DEF DaemonStep

LEMMA CleanStep == LifeTypeOK /\ CleanInv /\ [Next]_vars => CleanInv'
<1> SUFFICES ASSUME LifeTypeOK, CleanInv, [Next]_vars
             PROVE  CleanInv'
  OBVIOUS
<1>1. CASE UNCHANGED vars
  BY <1>1, StillClean DEF vars
<1>2. ASSUME NEW p \in Pid, IdleExit(p)
      PROVE  CleanInv'
  BY <1>2, MoveClean DEF IdleExit, ShutDown, Wrote, Stopping
<1>3. ASSUME NEW s \in Shim, EnsureStep(s)
      PROVE  CleanInv'
  <2>1. CASE FindPath(s) \/ ReadPid(s) \/ Unlink(s)
    BY <2>1, StillClean DEF FindPath, ReadPid, Unlink
  <2>2. ASSUME NEW p \in Pid, Spawn(s, p)
        PROVE  CleanInv'
    BY <2>2, StartClean DEF Spawn
  <2> QED
    BY <1>3, <2>1, <2>2 DEF EnsureStep
<1>4. CASE World
  <2>1. CASE Unplug \/ Install
    BY <2>1, StillClean DEF Unplug, Install
  <2>2. ASSUME NEW c \in Client, Watch(c) \/ Leave(c)
        PROVE  CleanInv'
    BY <2>2, StillClean DEF Watch, Leave
  <2>3. ASSUME NEW p \in Pid, Link(p) \/ Interrupt(p)
        PROVE  CleanInv'
    BY <2>3, StillClean DEF Link, Interrupt
  <2>4. ASSUME NEW p \in Pid, StartByHand(p)
        PROVE  CleanInv'
    BY <2>4, StartClean DEF StartByHand
  <2>5. ASSUME NEW p \in Pid, Crash(p) \/ StrangerEnds(p)
        PROVE  CleanInv'
    BY <2>5, GoneClean DEF Crash, StrangerEnds
  <2>6. ASSUME NEW p \in Pid, StrangerStarts(p)
        PROVE  CleanInv'
    BY <2>6, MoveClean DEF StrangerStarts, Wrote, Stopping
  <2> QED
    BY <1>4, <2>1, <2>2, <2>3, <2>4, <2>5, <2>6 DEF World
<1> QED
  BY <1>1, <1>2, <1>3, <1>4, DaemonClean DEF Next

LEMMA CleanInit == Init => CleanInv
  BY DEF Init, CleanInv, Wrote, Stopping

\* The two steps by which a daemon in "release" or "unlock" ends on its own.
LEMMA ExitIsClean ==
    ASSUME LifeTypeOK, CleanInv, [Next]_vars, NEW p \in Pid,
           proc[p] \in {"release", "unlock"}, proc'[p] = "free", upsets' = upsets
    PROVE  path' # p /\ lock'.pid # p
<1>1. upsets \in Nat
  BY BoundsAssumption DEF LifeTypeOK
<1>2. path # p /\ (lock.pid = p => lock = Own(p))
  BY DEF CleanInv, Wrote, Stopping
<1>3. KeepLock(p) \/ RemoveLock(p)
  <2>1. ASSUME NEW q \in Pid, q # p, proc'[p] = proc[p]
        PROVE  FALSE
    BY <2>1
  <2>2. ASSUME NEW q \in Pid, DaemonStep(q)
        PROVE  q = p /\ (KeepLock(p) \/ RemoveLock(p))
    <3>1. q = p
      BY <2>2 DEF DaemonStep, ReadLock, Defer, TruncateLock, WriteLock, Kill, WaitOver,
         ClearPath, Bind, BindFails, TakeSignal, ShutDown, ClosePath, KeepLock, OwnLock,
         RemoveLock, Gone, Goto, LifeTypeOK
    <3>2. DaemonStep(p)
      BY <2>2, <3>1
    <3> QED
      BY <3>1, <3>2 DEF DaemonStep, ReadLock, Defer, TruncateLock, WriteLock, Kill, WaitOver,
         ClearPath, Bind, BindFails, TakeSignal, ShutDown, ClosePath, OwnLock, Goto,
         LifeTypeOK, Starting, Stopping
  <2>3. ~(\E q \in Pid : IdleExit(q))
    BY DEF IdleExit, ShutDown, Goto, LifeTypeOK
  <2>4. ~(\E s \in Shim : EnsureStep(s))
    BY DEF EnsureStep, FindPath, ReadPid, Unlink, Spawn, Start, Goto, LifeTypeOK
  <2>5. ~World
    BY <1>1 DEF World, Unplug, Install, Watch, Leave, StartByHand, Start, Link, Interrupt,
       Crash, StrangerStarts, StrangerEnds, Gone, Goto, LifeTypeOK
  <2>6. ~UNCHANGED vars
    BY DEF vars
  <2> QED
    BY <2>2, <2>3, <2>4, <2>5, <2>6 DEF Next
<1>4. CASE KeepLock(p)
  BY <1>2, <1>4 DEF KeepLock
<1>5. CASE RemoveLock(p)
  BY <1>2, <1>5, NoOneAssumption DEF RemoveLock, NoLock
<1> QED
  BY <1>3, <1>4, <1>5

(***************************************************************************)
(* No lock and no socket names a daemon that ended by its own shutdown,    *)
(* for any number of processes, versions and upsets: releaseLock and the   *)
(* close of hook-server.ts.                                                *)
(***************************************************************************)
THEOREM ExitsAreClean == Spec => CleanExit
<1>1. Init => LifeTypeOK /\ CleanInv
  BY TypesInit, CleanInit
<1>2. LifeTypeOK /\ CleanInv /\ [Next]_vars => (LifeTypeOK /\ CleanInv)'
  BY TypesStep, CleanStep
<1>3. LifeTypeOK /\ CleanInv /\ [Next]_vars =>
        [\A p \in Pid : /\ proc[p] \in {"release", "unlock"}
                        /\ proc'[p] = "free"
                        /\ upsets' = upsets
                        => path' # p /\ lock'.pid # p]_vars
  BY ExitIsClean
<1> QED
  BY <1>1, <1>2, <1>3, PTL DEF Spec, CleanExit
=============================================================================
