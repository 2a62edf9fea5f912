----------------------------- MODULE DaemonLife -----------------------------
(***************************************************************************)
(* The life of the host daemon m5ctd: the lock file and the socket path,   *)
(* the only state its processes and the statusline shims share.            *)
(*   singleton.ts   acquireLock, releaseLock, shouldExitIdle               *)
(*   main.ts        start-up, waiting for a superseded daemon, shutdown    *)
(*   hook-server.ts listen and close                                       *)
(*   bootstrap.ts   ensureDaemon, run by every shim                        *)
(* A step is what one process does to a file, to another process or to     *)
(* itself between two points where another process may run: reading the    *)
(* lock and writing it are two steps, and so are truncating and filling.   *)
(***************************************************************************)
EXTENDS Naturals, FiniteSets

CONSTANTS
    Pid,            \* process numbers, used again once free
    Shim,           \* statusline shims that may run at the same time
    Client,         \* clients that stay connected: m5ct watch
    NoOne,          \* no process
    MaxVersion,     \* bound: versions of m5ctd installed, one after another
    MaxUpsets       \* bound: crashes, daemons started or ended by hand, and
                    \* unrelated processes that get a number of Pid

ASSUME NoOneAssumption == NoOne \notin Pid
ASSUME BoundsAssumption == /\ MaxVersion \in Nat \ {0}
                           /\ MaxUpsets \in Nat

VARIABLES
    proc,       \* [Pid -> what the process with this number is about to do]
    version,    \* [Pid -> its version, 0 when it is no daemon]
    seen,       \* [Pid -> the lock acquireLock has read; in "kill" and
                \*         "wait", the daemon it supersedes]
    lock,       \* daemon.pid; NoLock when absent or not readable
    path,       \* daemon.sock: the process that bound it, or NoOne if absent
    conn,       \* [Client -> the daemon it is connected to, or NoOne]
    linked,     \* the daemon that has the device open, or NoOne
    term,       \* processes with a SIGTERM or SIGINT they have not taken yet
    shim,       \* [Shim -> where it is in ensureDaemon]
    installed,  \* the version the command m5ctd starts
    upsets,
    lost        \* history: a running daemon is no longer known by the lock nor
                \* by a daemon about to end it, or may not be

own == <<version, seen, conn, linked, term>>
life == <<proc, own>>
env == <<shim, installed, upsets>>
vars == <<life, lock, path, env, lost>>

NoLock == [pid |-> NoOne, version |-> 0]
LockInfo == [pid : Pid, version : 1 .. MaxVersion] \cup {NoLock}

Starting == {"read", "decide", "write", "kill", "wait", "clear", "bind"}
Stopping == {"closing", "release", "unlock"}
Daemon == Starting \cup {"up"} \cup Stopping
Phase == Daemon \cup {"free", "stranger"}

Alive(p) == p \in Pid /\ proc[p] # "free"
Own(p) == [pid |-> p, version |-> version[p]]
HasClient(p) == \E c \in Client : conn[c] = p

LifeTypeOK ==
    /\ proc \in [Pid -> Phase]
    /\ version \in [Pid -> 0 .. MaxVersion]
    /\ seen \in [Pid -> LockInfo]
    /\ lock \in LockInfo
    /\ path \in Pid \cup {NoOne}
    /\ conn \in [Client -> Pid \cup {NoOne}]
    /\ linked \in Pid \cup {NoOne}
    /\ term \subseteq Pid
    /\ shim \in [Shim -> {"idle", "readpid", "unlink", "spawn"}]
    /\ installed \in 1 .. MaxVersion
    /\ upsets \in 0 .. MaxUpsets
    /\ lost \in BOOLEAN
    /\ \A p \in Pid : proc[p] \in Daemon <=> version[p] # 0

Init ==
    /\ proc = [p \in Pid |-> "free"]
    /\ version = [p \in Pid |-> 0]
    /\ seen = [p \in Pid |-> NoLock]
    /\ lock = NoLock
    /\ path = NoOne
    /\ conn = [c \in Client |-> NoOne]
    /\ linked = NoOne
    /\ term = {}
    /\ shim = [s \in Shim |-> "idle"]
    /\ installed = 1
    /\ upsets = 0
    /\ lost = FALSE

-----------------------------------------------------------------------------
\* How a process changes

Goto(p, phase) == proc' = [proc EXCEPT ![p] = phase]

\* Its number is free again; the system closes its connections and the port.
Gone(p) ==
    /\ Goto(p, "free")
    /\ version' = [version EXCEPT ![p] = 0]
    /\ seen' = [seen EXCEPT ![p] = NoLock]
    /\ conn' = [c \in Client |-> IF conn[c] = p THEN NoOne ELSE conn[c]]
    /\ linked' = IF linked = p THEN NoOne ELSE linked
    /\ term' = term \ {p}

\* A daemon that has written the lock over a running one's, and dies before it
\* could tell that one to end.
Strands(p) == proc[p] \in {"write", "kill"} /\ seen[p] # NoLock

\* shutdown() up to the wait in server.close: dm.stop frees the device, and
\* closing the listening socket removes whatever is at its path.
ShutDown(p) ==
    /\ proc[p] = "up"
    /\ Goto(p, "closing")
    /\ linked' = IF linked = p THEN NoOne ELSE linked
    /\ path' = NoOne
    /\ UNCHANGED <<version, seen, conn>>

-----------------------------------------------------------------------------
\* Start-up

\* m5ctd is run, by a shim or by hand
Start(p) ==
    /\ proc[p] = "free"
    /\ Goto(p, "read")
    /\ version' = [version EXCEPT ![p] = installed]
    /\ UNCHANGED <<seen, conn, linked, term, lock, path, installed, lost>>

StartByHand(p) ==
    /\ upsets < MaxUpsets
    /\ Start(p)
    /\ upsets' = upsets + 1
    /\ UNCHANGED shim

ReadLock(p) ==
    /\ proc[p] = "read"
    /\ Goto(p, "decide")
    /\ seen' = [seen EXCEPT ![p] = lock]
    /\ UNCHANGED <<version, conn, linked, term, lock, path, env, lost>>

\* outcome 'running': a live holder of the same version
DefersTo(p) == Alive(seen[p].pid) /\ seen[p].version = version[p]

Defer(p) ==
    /\ proc[p] = "decide"
    /\ DefersTo(p)
    /\ Gone(p)
    /\ UNCHANGED <<lock, path, env, lost>>

\* The lock is not what p has read, or another daemon is in the middle of it:
\* it has truncated the file, or has yet to end the daemon it supersedes.
Overtaken(p) == \/ lock # seen[p]
                \/ \E q \in Pid \ {p} : proc[q] \in {"write", "kill"}

\* otherwise writeFileSync, which truncates first
TruncateLock(p) ==
    /\ proc[p] = "decide"
    /\ ~DefersTo(p)
    /\ Goto(p, "write")
    /\ seen' = [seen EXCEPT ![p] = IF Alive(@.pid) THEN @ ELSE NoLock]
    /\ lost' = (lost \/ Overtaken(p))
    /\ lock' = NoLock
    /\ UNCHANGED <<version, conn, linked, term, path, env>>

\* Mutant of WriteLock: a superseded daemon is not told.
WriteLockOnly(p) ==
    /\ proc[p] = "write"
    /\ Goto(p, "clear")
    /\ lost' = (lost \/ lock # NoLock)
    /\ lock' = Own(p)
    /\ UNCHANGED <<own, path, env>>

\* 'superseded' when there was a live holder, of another version
WriteLock(p) ==
    /\ proc[p] = "write"
    /\ Goto(p, IF seen[p] = NoLock THEN "clear" ELSE "kill")
    /\ lost' = (lost \/ lock # NoLock)
    /\ lock' = Own(p)
    /\ UNCHANGED <<own, path, env>>

\* SIGTERM to the superseded daemon, or to whoever has its number by now
Kill(p) ==
    /\ proc[p] = "kill"
    /\ Goto(p, "wait")
    /\ term' = IF Alive(seen[p].pid) THEN term \cup {seen[p].pid} ELSE term
    /\ UNCHANGED <<version, seen, conn, linked, lock, path, env, lost>>

\* It leaves within the three seconds: only a client can hold it up longer.
LeavesSoon(h) == \/ h \in term
                 \/ proc[h] \in {"release", "unlock"}
                 \/ proc[h] = "closing" /\ ~HasClient(h)

WaitOver(p) ==
    /\ proc[p] = "wait"
    /\ ~LeavesSoon(seen[p].pid)
    /\ Goto(p, "clear")
    /\ seen' = [seen EXCEPT ![p] = NoLock]
    /\ UNCHANGED <<version, conn, linked, term, lock, path, env, lost>>

\* listen: an existing socket is taken for a stale one and removed ...
ClearPath(p) ==
    /\ proc[p] = "clear"
    /\ Goto(p, "bind")
    /\ path' = NoOne
    /\ UNCHANGED <<own, lock, env, lost>>

\* ... and the path is bound; when it exists again, main fails and exits.
Bind(p) ==
    /\ proc[p] = "bind"
    /\ path = NoOne
    /\ Goto(p, "up")
    /\ path' = p
    /\ UNCHANGED <<own, lock, env, lost>>

BindFails(p) ==
    /\ proc[p] = "bind"
    /\ path # NoOne
    /\ Gone(p)
    /\ UNCHANGED <<lock, path, env, lost>>

-----------------------------------------------------------------------------
\* The running daemon and its end

\* The device manager opens the device; the port is exclusive.
Link(p) ==
    /\ proc[p] = "up"
    /\ linked = NoOne
    /\ linked' = p
    /\ UNCHANGED <<proc, version, seen, conn, term, lock, path, env, lost>>

Unplug ==
    /\ linked # NoOne
    /\ linked' = NoOne
    /\ UNCHANGED <<proc, version, seen, conn, term, lock, path, env, lost>>

\* shouldExitIdle: no device, and no line on the socket for idle_exit_ms. A
\* connected client that only listens is no activity.
IdleExit(p) ==
    /\ linked # p
    /\ ShutDown(p)
    /\ UNCHANGED <<term, lock, env, lost>>

\* The user or a service manager ends a process.
Interrupt(p) ==
    /\ upsets < MaxUpsets
    /\ proc[p] \in Daemon
    /\ term' = term \cup {p}
    /\ upsets' = upsets + 1
    /\ UNCHANGED <<proc, version, seen, conn, linked, lock, path, shim,
                   installed, lost>>

\* The handlers are set once the daemon is up. A second shutdown() finds no
\* server to close and goes straight to releaseLock; before that, and in a
\* process that is not m5ctd, the signal just ends it.
TakeSignal(p) ==
    /\ p \in term
    /\ \/ ShutDown(p) /\ term' = term \ {p}
       \/ /\ proc[p] \in Stopping
          /\ Goto(p, IF proc[p] = "closing" THEN "release" ELSE proc[p])
          /\ term' = term \ {p}
          /\ UNCHANGED <<version, seen, conn, linked, path>>
       \/ /\ proc[p] \in Starting \cup {"stranger"}
          /\ Gone(p)
          /\ UNCHANGED path
    /\ lost' = (lost \/ Strands(p))
    /\ UNCHANGED <<lock, env>>

\* server.close returns once the last connection has ended, and unlinks what
\* is at the path by then.
ClosePath(p) ==
    /\ proc[p] = "closing"
    /\ ~HasClient(p)
    /\ Goto(p, "release")
    /\ path' = NoOne
    /\ UNCHANGED <<own, lock, env, lost>>

\* Mutant of KeepLock: the lock is left to the next daemon.
KeepAnyLock(p) ==
    /\ proc[p] = "release"
    /\ Gone(p)
    /\ UNCHANGED <<lock, path, env, lost>>

\* releaseLock reads the lock: not ours, exit
KeepLock(p) ==
    /\ proc[p] = "release"
    /\ lock # Own(p)
    /\ Gone(p)
    /\ UNCHANGED <<lock, path, env, lost>>

OwnLock(p) ==
    /\ proc[p] = "release"
    /\ lock = Own(p)
    /\ Goto(p, "unlock")
    /\ UNCHANGED <<own, lock, path, env, lost>>

RemoveLock(p) ==
    /\ proc[p] = "unlock"
    /\ lost' = (lost \/ lock # Own(p))
    /\ lock' = NoLock
    /\ Gone(p)
    /\ UNCHANGED <<path, env>>

-----------------------------------------------------------------------------
\* ensureDaemon, run by a shim at every status line and hook

FindPath(s) ==
    /\ shim[s] = "idle"
    /\ shim' = [shim EXCEPT ![s] = IF path = NoOne THEN "spawn" ELSE "readpid"]
    /\ UNCHANGED <<life, lock, path, installed, upsets, lost>>

\* Mutant of ReadPid: whoever is in the lock is taken to be alive.
ReadPidOnly(s) ==
    /\ shim[s] = "readpid"
    /\ shim' = [shim EXCEPT ![s] = IF lock # NoLock THEN "idle" ELSE "unlink"]
    /\ UNCHANGED <<life, lock, path, installed, upsets, lost>>

ReadPid(s) ==
    /\ shim[s] = "readpid"
    /\ shim' = [shim EXCEPT ![s] = IF Alive(lock.pid) THEN "idle" ELSE "unlink"]
    /\ UNCHANGED <<life, lock, path, installed, upsets, lost>>

Unlink(s) ==
    /\ shim[s] = "unlink"
    /\ path' = NoOne
    /\ shim' = [shim EXCEPT ![s] = "spawn"]
    /\ UNCHANGED <<life, lock, installed, upsets, lost>>

\* Numbers come round late: that a daemon gets the one in the lock is left to
\* StartByHand, and that somebody else does to StrangerStarts.
Spawn(s, p) ==
    /\ shim[s] = "spawn"
    /\ p # lock.pid
    /\ shim' = [shim EXCEPT ![s] = "idle"]
    /\ Start(p)
    /\ UNCHANGED upsets

-----------------------------------------------------------------------------
\* Clients and the world around

Watch(c) ==
    /\ conn[c] = NoOne
    /\ path # NoOne
    /\ proc[path] = "up"
    /\ conn' = [conn EXCEPT ![c] = path]
    /\ UNCHANGED <<proc, version, seen, linked, term, lock, path, env, lost>>

Leave(c) ==
    /\ conn[c] # NoOne
    /\ conn' = [conn EXCEPT ![c] = NoOne]
    /\ UNCHANGED <<proc, version, seen, linked, term, lock, path, env, lost>>

\* Another version is installed.
Install ==
    /\ installed < MaxVersion
    /\ installed' = installed + 1
    /\ UNCHANGED <<life, lock, path, shim, upsets, lost>>

\* A daemon dies where it is: both files stay.
Crash(p) ==
    /\ upsets < MaxUpsets
    /\ proc[p] \in Daemon
    /\ Gone(p)
    /\ upsets' = upsets + 1
    /\ lost' = (lost \/ Strands(p))
    /\ UNCHANGED <<lock, path, shim, installed>>

\* The system gives a free number to an unrelated process, which may end.
StrangerStarts(p) ==
    /\ upsets < MaxUpsets
    /\ proc[p] = "free"
    /\ Goto(p, "stranger")
    /\ upsets' = upsets + 1
    /\ UNCHANGED <<own, lock, path, shim, installed, lost>>

StrangerEnds(p) ==
    /\ proc[p] = "stranger"
    /\ Gone(p)
    /\ UNCHANGED <<lock, path, env, lost>>

-----------------------------------------------------------------------------
DaemonStep(p) ==
    \/ ReadLock(p) \/ Defer(p) \/ TruncateLock(p) \/ WriteLock(p) \/ Kill(p)
    \/ WaitOver(p) \/ ClearPath(p) \/ Bind(p) \/ BindFails(p)
    \/ TakeSignal(p) \/ ClosePath(p) \/ KeepLock(p) \/ OwnLock(p) \/ RemoveLock(p)

EnsureStep(s) ==
    \/ FindPath(s) \/ ReadPid(s) \/ Unlink(s)
    \/ \E p \in Pid : Spawn(s, p)

World ==
    \/ Unplug \/ Install
    \/ \E c \in Client : Watch(c) \/ Leave(c)
    \/ \E p \in Pid : \/ StartByHand(p) \/ Link(p) \/ Interrupt(p) \/ Crash(p)
                      \/ StrangerStarts(p) \/ StrangerEnds(p)

Next ==
    \/ \E p \in Pid : DaemonStep(p) \/ IdleExit(p)
    \/ \E s \in Shim : EnsureStep(s)
    \/ World

Spec == Init /\ [][Next]_vars

(***************************************************************************)
(* A process that can go on does; shims keep coming; the idle timer sees a *)
(* daemon without device that no line can reach. Nothing is assumed of     *)
(* users, clients, devices or unrelated processes.                         *)
(***************************************************************************)
LifeFairness ==
    /\ \A p \in Pid : /\ WF_vars(DaemonStep(p))
                      /\ WF_vars(IdleExit(p) /\ path # p)
    /\ \A s \in Shim : WF_vars(EnsureStep(s))

LiveSpec == Spec /\ LifeFairness

-----------------------------------------------------------------------------
(***************************************************************************)
(* One daemon at a time: unless a daemon changed the lock over a change it *)
(* had not seen, or took it from one that had still to end its forerunner, *)
(* or died before ending its own, at most one is up and not told to end,   *)
(* whatever is superseded, shut down, interrupted or crashes.              *)
(* (acquireLock, releaseLock and the wait of main.ts.)                     *)
(***************************************************************************)
Serving == {p \in Pid : proc[p] = "up" /\ p \notin term}
OneServing == lost \/ \A p, q \in Serving : p = q

(***************************************************************************)
(* What makes it so. Of the daemons that have written the lock and have    *)
(* not been told to end, the lock names one, or the one that is taking it  *)
(* over has read its name and is going to end it. Only one at a time takes *)
(* the lock over.                                                          *)
(***************************************************************************)
TakingOver == {p \in Pid : proc[p] \in {"write", "kill"}}
Holding == {p \in Pid : proc[p] \in {"wait", "clear", "bind", "up"} /\ p \notin term}

Takeover ==
    /\ \A p, q \in TakingOver : p = q
    /\ \A p \in Pid : /\ proc[p] = "write" => lock = NoLock
                      /\ proc[p] = "kill" => lock = Own(p) /\ seen[p] # NoLock
    /\ \A p \in Holding : \/ lock = Own(p)
                          \/ \E q \in TakingOver : seen[q] = Own(p)

TakeoverSound == lost \/ Takeover

(***************************************************************************)
(* A daemon that ends by its own shutdown leaves neither a lock nor a      *)
(* socket that names it: the next shim must not take it for a live one     *)
(* whose number may be somebody else's.                                    *)
(***************************************************************************)
CleanExit ==
    [][\A p \in Pid :
         /\ proc[p] \in {"release", "unlock"}
         /\ proc'[p] = "free"
         /\ upsets' = upsets
         => path' # p /\ lock'.pid # p]_vars

(***************************************************************************)
(* Recovery: if from some point on no client stays connected, no device    *)
(* holds a daemon back and no unrelated process has a daemon's number,     *)
(* then a daemon answers on the socket again and again: a stale lock, a    *)
(* stale socket, or a daemon whose socket was taken from it never last.    *)
(***************************************************************************)
Reachable == \E p \in Pid : proc[p] = "up" /\ path = p
Undisturbed ==
    /\ \A c \in Client : conn[c] = NoOne
    /\ linked = NoOne
    /\ \A p \in Pid : proc[p] # "stranger"
Recovery == <>[]Undisturbed => []<>Reachable

(***************************************************************************)
(* "a fresh local daemon DEFERS to an already-running same-version one"    *)
(* (docs/architecture/daemon-singleton-and-install.md:11): as long as the  *)
(* lock is to be trusted, a daemon that defers does so to one that answers *)
(* on the socket, or soon will.                                            *)
(***************************************************************************)
DeferralServed == \A p \in Pid :
    (proc[p] = "decide" /\ DefersTo(p) /\ ~lost) ~> (Reachable \/ lost)

(***************************************************************************)
(* As long as the lock is to be trusted, the daemon it names can be        *)
(* reached at the socket path once it is up.                               *)
(***************************************************************************)
UpIsReachable == lost \/ \A p \in Serving : lock = Own(p) => path = p

(***************************************************************************)
(* Superseding ends the daemon that the lock was written by, never an      *)
(* unrelated process.                                                      *)
(***************************************************************************)
StrangersAreSpared ==
    [][\A p \in Pid : proc[p] = "stranger" /\ proc'[p] = "free" => p \notin term]_vars
=============================================================================
