----------------------------- MODULE HookSocket -----------------------------
(***************************************************************************)
(* The daemon's socket and its clients:                                    *)
(*   hook-server.ts      connections, one line per connection, its answer   *)
(*   control-ops.ts      subscribeState                                    *)
(*   control-client.ts   callOnce and streamSubscription                   *)
(*   cmd-watch.ts, and the sending half of the statusline shim's main.ts   *)
(* A connection is two streams, in order and of any delay.  A line may     *)
(* arrive in two pieces.  What an operation does is the subject of other   *)
(* modules: here it answers at once, answers later or throws.  A client    *)
(* that dies, exits or destroys its socket ends its stream.                *)
(***************************************************************************)
EXTENDS Naturals, Sequences, FiniteSets, SequencesExt

CONSTANTS
    Caller,         \* processes that make one call
    Watcher,        \* m5ct watch
    Shim,           \* the statusline shim: sends and does not wait
    MaxChanges      \* bound: changes of the manager's state

ASSUME KindsAssumption ==
    Caller \cap Watcher = {} /\ Caller \cap Shim = {} /\ Watcher \cap Shim = {}
ASSUME BoundsAssumption == MaxChanges \in Nat

Client == Caller \cup Watcher \cup Shim

VARIABLES
    server,     \* "up", "closing" (server.close awaits the connections), "gone"
    state,      \* how often the manager's state has changed
    client,     \* [Client -> "new", "linked" but nothing sent, "writing", "open"
                \*  with its line sent, "settled", "failed", "dead", or "cut"
                \*  off before its line was sent]
    peer,       \* [Client -> the server's end: "none", "open", "busy" with an
                \*  operation, "answered", "subscribed" or "closed"]
    up,         \* [Client -> Seq of "piece", "line" and "fin" under way]
    down,       \* [Client -> Seq of states, Reply and Fin under way]
    replied,    \* callers with the answer in their buffer
    listeners,  \* watchers whose listener the manager has
    seen,       \* [Watcher -> Seq of the states it printed]
    taken       \* [Shim -> how often its message was handed on]

vars == <<server, state, client, peer, up, down, replied, listeners, seen, taken>>

\* Not a state: what ends a stream, and the answer to a call.
Fin == MaxChanges + 1
Reply == MaxChanges + 2

TypeOK ==
    /\ server \in {"up", "closing", "gone"}
    /\ state \in 0 .. MaxChanges
    /\ client \in [Client -> {"new", "linked", "writing", "open",
                             "settled", "failed", "dead", "cut"}]
    /\ peer \in [Client -> {"none", "open", "busy", "answered", "subscribed", "closed"}]
    /\ up \in [Client -> Seq({"piece", "line", "fin"})]
    /\ down \in [Client -> Seq(0 .. Reply)]
    /\ replied \subseteq Caller /\ listeners \subseteq Watcher
    /\ seen \in [Watcher -> Seq(0 .. MaxChanges)]
    /\ taken \in [Shim -> Nat]

Init ==
    /\ server = "up" /\ state = 0
    /\ client = [c \in Client |-> "new"] /\ peer = [c \in Client |-> "none"]
    /\ up = [c \in Client |-> <<>>] /\ down = [c \in Client |-> <<>>]
    /\ replied = {} /\ listeners = {}
    /\ seen = [w \in Watcher |-> <<>>] /\ taken = [s \in Shim |-> 0]

Alive(c) == client[c] \in {"linked", "writing", "open"}
Live(c) == peer[c] \in {"open", "busy", "answered", "subscribed"}
Send(c, items) == down' = [down EXCEPT ![c] = @ \o items]

-----------------------------------------------------------------------------
(* Clients *)

\* The server has the connection before the client is called back.
Connect(c) ==
    /\ client[c] = "new"
    /\ IF server = "up"
       THEN /\ client' = [client EXCEPT ![c] = "linked"]
            /\ peer' = [peer EXCEPT ![c] = "open"]
       ELSE client' = [client EXCEPT ![c] = "failed"] /\ UNCHANGED peer
    /\ UNCHANGED <<server, state, up, down, replied, listeners, seen, taken>>

\* The line goes out, in two parts, whoever is there to read it; the shim ends its
\* side with it.
Writes(c) ==
    /\ \/ /\ client[c] = "linked" /\ client' = [client EXCEPT ![c] = "writing"]
          /\ up' = [up EXCEPT ![c] = @ \o <<"piece">>]
       \/ /\ client[c] = "writing" /\ client' = [client EXCEPT ![c] = "open"]
          /\ up' = [up EXCEPT ![c] = @ \o IF c \in Shim THEN <<"line", "fin">> ELSE <<"line">>]
    /\ UNCHANGED <<server, state, peer, down, replied, listeners, seen, taken>>

\* 'data' and 'end': callOnce parses what it has at the end, a watch ends well
Reads(c) ==
    /\ Alive(c) /\ down[c] # <<>>
    /\ down' = [down EXCEPT ![c] = Tail(@)]
    /\ LET x == Head(down[c]) IN
       /\ replied' = IF x = Reply /\ c \in Caller THEN replied \cup {c} ELSE replied
       /\ seen' = IF x <= MaxChanges /\ c \in Watcher
                  THEN [seen EXCEPT ![c] = Append(@, x)] ELSE seen
       /\ IF x = Fin
          THEN /\ client' = [client EXCEPT ![c] =
                     IF c \in Caller /\ c \notin replied THEN "failed" ELSE "settled"]
               /\ up' = [up EXCEPT ![c] = Append(@, "fin")]
          ELSE UNCHANGED <<client, up>>
    /\ UNCHANGED <<server, state, peer, listeners, taken>>

\* killed, interrupted, or, for the shim, 500 ms are over, also before it has
\* written or while it does
Dies(c) ==
    /\ Alive(c)
    /\ client' = [client EXCEPT ![c] = IF @ = "open" THEN "dead" ELSE "cut"]
    /\ up' = [up EXCEPT ![c] = Append(@, "fin")]
    /\ UNCHANGED <<server, state, peer, down, replied, listeners, seen, taken>>

-----------------------------------------------------------------------------
(* The server *)

\* Mutant: every piece of a line is taken for a line.
AnyPieceAt(c) == up[c] # <<>> /\ Head(up[c]) # "fin"
LineAt(c) == up[c] # <<>> /\ Head(up[c]) = "line"

\* 'data' without a newline
Piece(c) ==
    /\ Live(c) /\ up[c] # <<>> /\ Head(up[c]) = "piece"
    /\ ~LineAt(c)
    /\ up' = [up EXCEPT ![c] = Tail(@)]
    /\ UNCHANGED <<server, state, client, peer, down, replied, listeners, seen, taken>>

Handled(c) ==
    /\ Live(c) /\ LineAt(c)
    /\ up' = [up EXCEPT ![c] = Tail(@)]
    /\ UNCHANGED <<server, state, client, replied, seen>>

\* a status line or a hook event: handed on, and answered without waiting
Message(s) ==
    /\ Handled(s) /\ s \in Shim
    /\ taken' = [taken EXCEPT ![s] = @ + 1]
    /\ peer' = [peer EXCEPT ![s] = "answered"] /\ Send(s, <<Reply, Fin>>)
    /\ UNCHANGED listeners

\* an operation that answers at once, or one that is awaited
Operation(c) ==
    /\ Handled(c) /\ c \in Caller
    /\ \/ peer' = [peer EXCEPT ![c] = "answered"] /\ Send(c, <<Reply, Fin>>)
       \/ peer' = [peer EXCEPT ![c] = "busy"] /\ UNCHANGED down
    /\ UNCHANGED <<listeners, taken>>

\* Mutant: the first line comes with the first change.
SnapshotNone == <<>>
Snapshot == <<state>>
Subscribe(w) ==
    /\ Handled(w) /\ w \in Watcher
    /\ peer' = [peer EXCEPT ![w] = "subscribed"]
    /\ listeners' = listeners \cup {w} /\ Send(w, Snapshot)
    /\ UNCHANGED taken

\* Mutant: an operation that throws leaves the connection as it is.
OperationEndsOrHangs(c) ==
    /\ peer[c] = "busy"
    /\ \/ peer' = [peer EXCEPT ![c] = "answered"] /\ Send(c, <<Reply, Fin>>)
       \/ peer' = [peer EXCEPT ![c] = "open"] /\ UNCHANGED down
    /\ UNCHANGED <<server, state, client, up, replied, listeners, seen, taken>>
\* its result or the error it threw
OperationEnds(c) ==
    /\ peer[c] = "busy"
    /\ peer' = [peer EXCEPT ![c] = "answered"] /\ Send(c, <<Reply, Fin>>)
    /\ UNCHANGED <<server, state, client, up, replied, listeners, seen, taken>>

\* Mutant: they are taken off when the client ends, not when a write fails.
OffOnEnd(c) == IF client[c] = "dead" /\ down[c] # <<>> THEN listeners ELSE listeners \ {c}
Off(c) == listeners \ {c}

\* 'close': the client's end of the stream has come, which ends the server's;
\* or a write to a client that is gone fails, and the socket is destroyed
Closed(c) ==
    /\ Live(c)
    /\ \/ up[c] # <<>> /\ Head(up[c]) = "fin"
       \/ client[c] = "dead" /\ down[c] # <<>>
    /\ peer' = [peer EXCEPT ![c] = "closed"] /\ listeners' = Off(c)
    /\ up' = [up EXCEPT ![c] = <<>>]
    /\ Send(c, IF peer[c] = "answered" THEN <<>> ELSE <<Fin>>)
    /\ UNCHANGED <<server, state, client, replied, seen, taken>>

Changes ==
    /\ server # "gone" /\ state < MaxChanges /\ state' = state + 1
    /\ down' = [c \in Client |-> IF c \in listeners THEN Append(down[c], state') ELSE down[c]]
    /\ UNCHANGED <<server, client, peer, up, replied, listeners, seen, taken>>

\* server.close: nobody gets in, and it returns when the last one has left
ServerCloses ==
    /\ server = "up" /\ server' = "closing"
    /\ UNCHANGED <<state, client, peer, up, down, replied, listeners, seen, taken>>

\* the end of shutdown, once the last has left, or of the process at any time
ServerGone ==
    /\ server # "gone" /\ server' = "gone"
    /\ down' = [c \in Client |-> down[c] \o
                    IF Live(c) /\ peer[c] # "answered" THEN <<Fin>> ELSE <<>>]
    /\ peer' = [c \in Client |-> IF Live(c) THEN "closed" ELSE peer[c]]
    /\ up' = [c \in Client |-> <<>>] /\ listeners' = {}
    /\ UNCHANGED <<state, client, replied, seen, taken>>

ServerStep(c) ==
    \/ Piece(c) \/ Message(c) \/ Operation(c) \/ Subscribe(c) \/ OperationEnds(c) \/ Closed(c)
Next ==
    \/ \E c \in Client : Connect(c) \/ Writes(c) \/ Reads(c) \/ Dies(c) \/ ServerStep(c)
    \/ Changes \/ ServerCloses \/ ServerGone

Spec == Init /\ [][Next]_vars

\* Streams are written and delivered, and every awaited operation ends: requests
\* have timeouts, and flashHold is answered (FlashAnswered of DeviceManager).
LiveSpec ==
    Spec /\ \A c \in Client : WF_vars(Writes(c)) /\ WF_vars(Reads(c)) /\ WF_vars(ServerStep(c))

-----------------------------------------------------------------------------
(* Properties *)

\* A call comes to an end, whether its operation answers, is awaited, throws, or
\* the daemon goes away in the middle.
CallsSettle == \A c \in Caller : Alive(c) ~> ~Alive(c)

\* A watch prints every state from the moment it subscribed, in order and
\* without a gap, and once it has read everything it shows the manager's.
WatchIsCurrent ==
    \A w \in Watcher :
        /\ \A i \in 1 .. Len(seen[w]) - 1 : seen[w][i + 1] = seen[w][i] + 1
        /\ w \in listeners /\ down[w] = <<>> /\ client[w] = "open" =>
               seen[w] # <<>> /\ Last(seen[w]) = state

\* The manager keeps no listener for a connection that is closed, however it
\* came to its end.
NoListenerLeft == \A w \in Watcher : peer[w] = "closed" => w \notin listeners

\* A message of the shim is handed on at most once, and once for sure when all of
\* it was sent and the connection ended with the daemon running: the shim need not
\* wait.  One that its timer cuts off before that is lost, and never taken in part.
MessageTakenOnce ==
    \A s \in Shim :
        /\ taken[s] <= 1
        /\ client[s] \in {"settled", "dead"} /\ peer[s] = "closed" /\ server # "gone"
               => taken[s] = 1
        /\ client[s] = "cut" => taken[s] = 0
=============================================================================
