-------------------------- MODULE HookSocketProofs --------------------------
(***************************************************************************)
(* Proofs about HookSocket, for any number of callers, watchers, shims and *)
(* changes: no listener is left behind, and a message is taken once.       *)
(***************************************************************************)
EXTENDS HookSocket, SequenceTheorems, TLAPS

USE DEF Client

-----------------------------------------------------------------------------
(* Listeners *)

Ends == {"none", "open", "busy", "answered", "subscribed", "closed"}
Fates == {"new", "linked", "writing", "open", "settled", "failed", "dead", "cut"}

\* Who has not begun has no connection, and a listener is a subscribed watcher's.
ListenersLive ==
    /\ peer \in [Client -> Ends] /\ client \in [Client -> Fates]
    /\ \A c \in Client : client[c] = "new" => peer[c] = "none"
    /\ \A c \in listeners : c \in Watcher /\ peer[c] = "subscribed"

LEMMA ListenersLiveNext == ListenersLive /\ [Next]_vars => ListenersLive'
<1> SUFFICES ASSUME ListenersLive, [Next]_vars PROVE ListenersLive'
  OBVIOUS
<1> USE DEF ListenersLive, Ends, Fates
<1>1. CASE UNCHANGED <<peer, client, listeners>>
  BY <1>1
<1>2. ASSUME NEW c \in Client, Connect(c) PROVE ListenersLive'
  BY <1>2 DEF Connect
<1>3. ASSUME NEW c \in Client, Reads(c) PROVE ListenersLive'
  BY <1>3 DEF Reads, Alive
<1>4. ASSUME NEW c \in Client, Dies(c) \/ Writes(c) PROVE ListenersLive'
  BY <1>4 DEF Dies, Writes, Alive
<1>5. ASSUME NEW c \in Client, Piece(c) PROVE ListenersLive'
  BY <1>1, <1>5 DEF Piece
<1>6. ASSUME NEW c \in Client, Message(c) PROVE ListenersLive'
  BY <1>6, KindsAssumption DEF Message, Handled, Live
<1>7. ASSUME NEW c \in Client, Operation(c) PROVE ListenersLive'
  BY <1>7, KindsAssumption DEF Operation, Handled, Live
<1>8. ASSUME NEW c \in Client, Subscribe(c) PROVE ListenersLive'
  BY <1>8 DEF Subscribe, Handled, Live
<1>9. ASSUME NEW c \in Client, OperationEnds(c) PROVE ListenersLive'
  BY <1>9 DEF OperationEnds
<1>10. ASSUME NEW c \in Client, Closed(c) PROVE ListenersLive'
  BY <1>10 DEF Closed, Off, Live
<1>11. CASE Changes \/ ServerCloses
  BY <1>1, <1>11 DEF Changes, ServerCloses
<1>12. CASE ServerGone
  BY <1>12 DEF ServerGone, Live
<1> QED
  BY <1>1, <1>2, <1>3, <1>4, <1>5, <1>6, <1>7, <1>8, <1>9, <1>10, <1>11, <1>12
  DEF Next, ServerStep, vars

\* The manager keeps no listener for a connection that is closed, whoever closed
\* it and in whatever state.
THEOREM NoListenerStays == Spec => []NoListenerLeft
<1>1. Init => ListenersLive
  BY DEF Init, ListenersLive, Ends, Fates
<1>2. ListenersLive => NoListenerLeft
  BY DEF ListenersLive, NoListenerLeft
<1> QED
  BY <1>1, <1>2, ListenersLiveNext, PTL DEF Spec

-----------------------------------------------------------------------------
(* The message of a shim *)

\* What a client has sent: a piece, its line, ends; the line comes once, and only
\* from one that was not cut off before it.
LineAhead(q) ==
    \/ Len(q) >= 1 /\ q[1] = "line" /\ \A i \in 2 .. Len(q) : q[i] = "fin"
    \/ Len(q) >= 2 /\ q[1] = "piece" /\ q[2] = "line" /\ \A i \in 3 .. Len(q) : q[i] = "fin"
OnlyEnds(q) == \A i \in 1 .. Len(q) : q[i] = "fin"
NoLine(q) == \A i \in 1 .. Len(q) : q[i] # "line"
SentBy(fate, q) ==
    /\ fate = "linked" => q = <<>>
    /\ fate = "writing" => q \in {<<>>, <<"piece">>}
    /\ fate = "cut" => NoLine(q)
    /\ fate \notin {"linked", "writing", "cut"} => LineAhead(q)

ShimIsAt(s) ==
    /\ client[s] = "new" => peer[s] = "none"
    /\ peer[s] = "none" => taken[s] = 0 /\ down[s] = <<>> /\ up[s] = <<>>
                           /\ client[s] \in {"new", "failed"}
    /\ peer[s] = "open" => taken[s] = 0 /\ down[s] = <<>> /\ SentBy(client[s], up[s])
    /\ peer[s] = "answered" => OnlyEnds(up[s]) /\ taken[s] = 1
    /\ peer[s] = "closed" => taken[s] = 1 \/ server = "gone" \/ client[s] = "cut"
    /\ taken[s] \in {0, 1}
    /\ taken[s] = 1 => client[s] \notin {"linked", "writing", "cut"}
    /\ peer[s] \in {"none", "open", "answered", "closed"}
Streams ==
    /\ peer \in [Client -> Ends] /\ client \in [Client -> Fates]
    /\ up \in [Client -> Seq({"piece", "line", "fin"})]
    /\ down \in [Client -> Seq(Nat)]
    /\ taken \in [Shim -> Nat] /\ state \in Nat
    /\ listeners \subseteq Watcher
ShimsServed == Streams /\ \A s \in Shim : ShimIsAt(s)

\* What happens to a stream that begins with its line, or is at its end.
LEMMA TailOfLine ==
    ASSUME NEW q \in Seq({"piece", "line", "fin"}), LineAhead(q)
    PROVE  /\ q # <<>> /\ Head(q) \in {"piece", "line"}
           /\ Tail(q) \in Seq({"piece", "line", "fin"})
           /\ Head(q) = "piece" => LineAhead(Tail(q))
           /\ Head(q) = "line" => OnlyEnds(Tail(q))
           /\ LineAhead(Append(q, "fin"))
           /\ Append(q, "fin") \in Seq({"piece", "line", "fin"})
  BY DEF LineAhead, OnlyEnds

\* What is written next, and what a client that dies leaves behind.
LEMMA SentGrows ==
    ASSUME NEW q \in Seq({"piece", "line", "fin"}), NEW fate \in Fates, SentBy(fate, q)
    PROVE  /\ fate = "linked" => SentBy("writing", q \o <<"piece">>)
           /\ fate = "writing" => SentBy("open", q \o <<"line">>)
           /\ fate = "writing" => SentBy("open", q \o <<"line", "fin">>)
           /\ fate \in {"linked", "writing"} => SentBy("cut", Append(q, "fin"))
           /\ fate = "open" => SentBy("dead", Append(q, "fin"))
<1>1. ASSUME fate = "linked" PROVE SentBy("writing", q \o <<"piece">>)
  BY <1>1 DEF SentBy
<1>2. ASSUME fate = "writing" PROVE LineAhead(q \o <<"line">>)
  <2>1. CASE q = <<>>
    BY <2>1 DEF LineAhead
  <2>2. CASE q = <<"piece">>
    BY <2>2 DEF LineAhead
  <2> QED
    BY <1>2, <2>1, <2>2 DEF SentBy
<1>3. ASSUME fate = "writing" PROVE LineAhead(q \o <<"line", "fin">>)
  <2>1. CASE q = <<>>
    <3>1. <<>> \o <<"line", "fin">> = <<"line", "fin">>
      OBVIOUS
    <3>2. LineAhead(<<"line", "fin">>)
      BY DEF LineAhead
    <3> QED
      BY <2>1, <3>1, <3>2
  <2>2. CASE q = <<"piece">>
    <3> DEFINE a == <<"piece">>
               b == <<"line", "fin">>
    <3>1. /\ a \in Seq({"piece", "line", "fin"}) /\ b \in Seq({"piece", "line", "fin"})
          /\ Len(a) = 1 /\ Len(b) = 2
          /\ a[1] = "piece" /\ b[1] = "line" /\ b[2] = "fin"
      OBVIOUS
    <3> HIDE DEF a, b
    <3>2. /\ Len(a \o b) = 3
          /\ \A i \in 1 .. 3 : (a \o b)[i] = IF i <= 1 THEN a[i] ELSE b[i - 1]
      <4>1. /\ Len(a \o b) = Len(a) + Len(b)
            /\ \A i \in 1 .. Len(a) + Len(b) :
                  (a \o b)[i] = IF i <= Len(a) THEN a[i] ELSE b[i - Len(a)]
        BY <3>1, ConcatProperties, Zenon
      <4> QED
        BY <3>1, <4>1
    <3>3. (a \o b)[1] = "piece" /\ (a \o b)[2] = "line" /\ (a \o b)[3] = "fin"
      BY <3>1, <3>2
    <3>4. LineAhead(a \o b)
      BY <3>2, <3>3 DEF LineAhead
    <3> QED
      BY <2>2, <3>4 DEF a, b
  <2> QED
    BY <1>3, <2>1, <2>2 DEF SentBy
<1>4. ASSUME fate \in {"linked", "writing"} PROVE NoLine(Append(q, "fin"))
  <2>1. q = <<>> \/ q = <<"piece">>
    BY <1>4 DEF SentBy
  <2> QED
    BY <2>1 DEF NoLine
<1>5. ASSUME fate = "open" PROVE LineAhead(Append(q, "fin"))
  <2>1. LineAhead(q)
    BY <1>5 DEF SentBy
  <2> QED
    BY <2>1, TailOfLine
<1> QED
  BY <1>1, <1>2, <1>3, <1>4, <1>5 DEF SentBy

\* What is read first.
LEMMA SentShrinks ==
    ASSUME NEW q \in Seq({"piece", "line", "fin"}), NEW fate \in Fates, SentBy(fate, q),
           q # <<>>
    PROVE  /\ Head(q) = "piece" => SentBy(fate, Tail(q))
           /\ Head(q) = "line" => /\ OnlyEnds(Tail(q))
                                  /\ fate \notin {"linked", "writing", "cut"}
           /\ Head(q) = "fin" => fate = "cut"
<1>1. CASE fate \notin {"linked", "writing", "cut"}
  <2>1. LineAhead(q)
    BY <1>1 DEF SentBy
  <2> QED
    BY <1>1, <2>1, TailOfLine DEF SentBy
<1>2. CASE fate = "cut"
  <2>1. NoLine(q)
    BY <1>2 DEF SentBy
  <2>2. NoLine(Tail(q)) /\ Head(q) # "line"
    BY <2>1 DEF NoLine
  <2> QED
    BY <1>2, <2>2 DEF SentBy
<1>3. CASE fate = "linked"
  BY <1>3 DEF SentBy
<1>4. CASE fate = "writing"
  <2>1. q = <<"piece">>
    BY <1>4 DEF SentBy
  <2>2. Head(q) = "piece" /\ Tail(q) = <<>>
    BY <2>1
  <2> QED
    BY <1>4, <2>2 DEF SentBy
<1> QED
  BY <1>1, <1>2, <1>3, <1>4

LEMMA TailOfEnds ==
    ASSUME NEW q \in Seq({"piece", "line", "fin"}), OnlyEnds(q)
    PROVE  /\ OnlyEnds(Append(q, "fin"))
           /\ q # <<>> => Head(q) = "fin"
           /\ Append(q, "fin") \in Seq({"piece", "line", "fin"})
  BY DEF OnlyEnds

\* A step of another client.
LEMMA ShimUntouched ==
    ASSUME NEW s \in Shim, ShimIsAt(s), server' = server \/ server' # "up",
           server = "gone" => server' = "gone",
           peer'[s] = peer[s], client'[s] = client[s], up'[s] = up[s],
           down'[s] = down[s], taken'[s] = taken[s]
    PROVE  ShimIsAt(s)'
  BY DEF ShimIsAt

LEMMA StreamsNext == ShimsServed /\ [Next]_vars => Streams'
<1> SUFFICES ASSUME ShimsServed, [Next]_vars PROVE Streams'
  OBVIOUS
<1> USE DEF Streams, ShimsServed, Ends, Fates
<1>0. /\ <<Reply, Fin>> \in Seq(Nat) /\ <<Fin>> \in Seq(Nat) /\ <<>> \in Seq(Nat)
      /\ <<"piece", "line">> \in Seq({"piece", "line", "fin"})
      /\ <<"fin">> \in Seq({"piece", "line", "fin"}) /\ <<>> \in Seq({"piece", "line", "fin"})
  BY BoundsAssumption DEF Reply, Fin
<1>1. CASE UNCHANGED vars
  BY <1>1 DEF vars
<1>2. ASSUME NEW c \in Client, Connect(c) PROVE Streams'
  BY <1>2 DEF Connect
<1>14. ASSUME NEW c \in Client, Writes(c) PROVE Streams'
  <2>1. PICK sent \in {<<"piece">>, <<"line", "fin">>, <<"line">>} :
            up' = [up EXCEPT ![c] = up[c] \o sent]
    BY <1>14 DEF Writes
  <2>2. sent \in Seq({"piece", "line", "fin"})
    <3>1. CASE sent = <<"piece">>
      BY <3>1
    <3>2. CASE sent = <<"line", "fin">>
      BY <3>2
    <3>3. CASE sent = <<"line">>
      BY <3>3
    <3> QED
      BY <3>1, <3>2, <3>3
  <2>3. up[c] \in Seq({"piece", "line", "fin"})
    OBVIOUS
  <2>4. up[c] \o sent \in Seq({"piece", "line", "fin"})
    BY <2>2, <2>3
  <2>5. up' \in [Client -> Seq({"piece", "line", "fin"})]
    BY <2>1, <2>4
  <2> QED
    BY <1>14, <2>5 DEF Writes
<1>3. ASSUME NEW c \in Client, Reads(c) PROVE Streams'
  <2>1. down' \in [Client -> Seq(Nat)]
    BY <1>3 DEF Reads
  <2>2. up' \in [Client -> Seq({"piece", "line", "fin"})]
    <3>1. up' = up \/ up' = [up EXCEPT ![c] = Append(up[c], "fin")]
      BY <1>3 DEF Reads
    <3>2. Append(up[c], "fin") \in Seq({"piece", "line", "fin"})
      OBVIOUS
    <3> QED
      BY <3>1, <3>2
  <2>3. client' \in [Client -> Fates]
    BY <1>3 DEF Reads
  <2> QED
    BY <1>3, <2>1, <2>2, <2>3 DEF Reads
<1>4. ASSUME NEW c \in Client, Dies(c) PROVE Streams'
  BY <1>4 DEF Dies, Alive
<1>5. ASSUME NEW c \in Client, Piece(c) PROVE Streams'
  BY <1>5 DEF Piece
<1>6. ASSUME NEW c \in Client, Message(c) PROVE Streams'
  BY <1>0, <1>6 DEF Message, Handled, LineAt, Send
<1>7. ASSUME NEW c \in Client, Operation(c) PROVE Streams'
  <2>1. down' \in [Client -> Seq(Nat)]
    <3>1. down' = down \/ down' = [down EXCEPT ![c] = down[c] \o <<Reply, Fin>>]
      BY <1>7 DEF Operation, Send
    <3>2. down[c] \o <<Reply, Fin>> \in Seq(Nat)
      BY <1>0
    <3> QED
      BY <3>1, <3>2
  <2>2. up' \in [Client -> Seq({"piece", "line", "fin"})]
    BY <1>7 DEF Operation, Handled, LineAt
  <2> QED
    BY <1>7, <2>1, <2>2 DEF Operation, Handled
<1>8. ASSUME NEW c \in Client, Subscribe(c) PROVE Streams'
  <2>1. Snapshot \in Seq(Nat)
    BY DEF Snapshot
  <2> QED
    BY <1>8, <2>1 DEF Subscribe, Handled, LineAt, Send
<1>9. ASSUME NEW c \in Client, OperationEnds(c) PROVE Streams'
  BY <1>0, <1>9 DEF OperationEnds, Send
<1>10. ASSUME NEW c \in Client, Closed(c) PROVE Streams'
  BY <1>0, <1>10 DEF Closed, Off, Send
<1>11. CASE Changes
  <2>1. \A c \in Client : Append(down[c], state') \in Seq(Nat)
    BY <1>11, BoundsAssumption DEF Changes
  <2>2. down' \in [Client -> Seq(Nat)]
    BY <1>11, <2>1 DEF Changes
  <2> QED
    BY <1>11, <2>2, BoundsAssumption DEF Changes
<1>12. CASE ServerCloses
  BY <1>12 DEF ServerCloses
<1>13. CASE ServerGone
  <2>1. \A c \in Client : down[c] \o (IF Live(c) /\ peer[c] # "answered" THEN <<Fin>> ELSE <<>>)
                             \in Seq(Nat)
    BY <1>0
  <2>2. down' \in [Client -> Seq(Nat)]
    BY <1>13, <2>1 DEF ServerGone
  <2> QED
    BY <1>0, <1>13, <2>2 DEF ServerGone, Live
<1> QED
  BY <1>1, <1>2, <1>3, <1>4, <1>5, <1>6, <1>7, <1>8, <1>9, <1>10, <1>11, <1>12, <1>13, <1>14
  DEF Next, ServerStep

LEMMA ShimsServedNext == ShimsServed /\ [Next]_vars => ShimsServed'
<1> SUFFICES ASSUME ShimsServed, [Next]_vars, NEW s \in Shim PROVE ShimIsAt(s)'
  BY StreamsNext DEF ShimsServed
<1> DEFINE q == up[s]
<1>0. /\ Streams /\ ShimIsAt(s) /\ s \in Client /\ s \notin Caller /\ s \notin Watcher
      /\ q \in Seq({"piece", "line", "fin"})
  BY KindsAssumption DEF ShimsServed, Streams
<1>1. CASE UNCHANGED vars
  BY <1>0, <1>1, ShimUntouched DEF vars
<1>2. ASSUME NEW c \in Client, c # s,
             Connect(c) \/ Writes(c) \/ Reads(c) \/ Dies(c) \/ Piece(c)
      PROVE  ShimIsAt(s)'
  BY <1>0, <1>2, ShimUntouched DEF Connect, Writes, Reads, Dies, Piece, Streams
<1>3. ASSUME NEW c \in Client, c # s,
             Message(c) \/ Operation(c) \/ Subscribe(c) \/ OperationEnds(c) \/ Closed(c)
      PROVE  ShimIsAt(s)'
  BY <1>0, <1>3, ShimUntouched
  DEF Message, Operation, Subscribe, OperationEnds, Closed, Handled, Send, Streams
<1>4. CASE Connect(s)
  <2>1. peer[s] = "none" /\ down[s] = <<>> /\ taken[s] = 0 /\ q = <<>>
    BY <1>0, <1>4 DEF Connect, ShimIsAt
  <2>2. SentBy("linked", q)
    BY <2>1 DEF SentBy
  <2> QED
    BY <1>0, <1>4, <2>1, <2>2 DEF Connect, ShimIsAt, Streams
<1>13. CASE Writes(s)
  <2>1. /\ client[s] \in {"linked", "writing"} /\ UNCHANGED <<server, peer, down, taken>>
        /\ peer[s] \in {"open", "closed"} /\ taken[s] = 0
    BY <1>0, <1>13 DEF Writes, ShimIsAt
  <2>2. \/ client[s] = "linked" /\ client'[s] = "writing" /\ up'[s] = q \o <<"piece">>
        \/ client[s] = "writing" /\ client'[s] = "open" /\ up'[s] = q \o <<"line", "fin">>
    BY <1>0, <1>13 DEF Writes, Streams
  <2>3. peer[s] = "open" => SentBy(client'[s], up'[s])
    BY <1>0, <2>1, <2>2, SentGrows DEF ShimIsAt, Streams
  <2> QED
    BY <1>0, <2>1, <2>2, <2>3 DEF ShimIsAt
<1>5. CASE Reads(s)
  <2>1. peer[s] \in {"answered", "closed"}
    BY <1>0, <1>5 DEF Reads, ShimIsAt
  <2>2. /\ up'[s] \in {q, Append(q, "fin")} /\ client'[s] \in {client[s], "settled"}
        /\ client[s] \in {"linked", "writing", "open"}
        /\ UNCHANGED <<server, peer, taken>>
    BY <1>0, <1>5 DEF Reads, Alive, Streams
  <2>3. peer[s] = "answered" => OnlyEnds(up'[s])
    BY <1>0, <2>2, TailOfEnds DEF ShimIsAt
  <2> QED
    BY <1>0, <2>1, <2>2, <2>3 DEF ShimIsAt
<1>6. CASE Dies(s)
  <2>1. /\ peer[s] # "none" /\ up'[s] = Append(q, "fin") /\ UNCHANGED <<server, peer, down, taken>>
        /\ \/ client[s] = "open" /\ client'[s] = "dead"
           \/ client[s] \in {"linked", "writing"} /\ client'[s] = "cut"
    BY <1>0, <1>6 DEF Dies, Alive, ShimIsAt, Streams
  <2>2. peer[s] = "open" => SentBy(client'[s], up'[s])
    BY <1>0, <2>1, SentGrows DEF ShimIsAt, Streams
  <2>3. peer[s] = "answered" => OnlyEnds(up'[s])
    BY <1>0, <2>1, TailOfEnds DEF ShimIsAt
  <2> QED
    BY <1>0, <2>1, <2>2, <2>3 DEF ShimIsAt
<1>7. CASE Piece(s)
  <2>1. peer[s] = "open" /\ Head(q) = "piece" /\ q # <<>>
    BY <1>0, <1>7, TailOfEnds DEF Piece, Live, ShimIsAt
  <2>2. up'[s] = Tail(q) /\ UNCHANGED <<server, client, peer, down, taken>>
    BY <1>0, <1>7 DEF Piece, Streams
  <2>3. SentBy(client[s], Tail(q))
    BY <1>0, <2>1, SentShrinks DEF ShimIsAt, Streams
  <2> QED
    BY <1>0, <2>1, <2>2, <2>3 DEF ShimIsAt
<1>8. CASE Message(s)
  <2>1. peer[s] = "open" /\ Head(q) = "line" /\ q # <<>>
    BY <1>0, <1>8, TailOfEnds DEF Message, Handled, LineAt, Live, ShimIsAt
  <2>2. up'[s] = Tail(q) /\ taken[s] = 0
    BY <1>0, <1>8, <2>1 DEF Message, Handled, ShimIsAt, Streams
  <2>3. OnlyEnds(Tail(q)) /\ client[s] \notin {"linked", "writing", "cut"}
    BY <1>0, <2>1, SentShrinks DEF ShimIsAt, Streams
  <2>4. taken'[s] = 1 /\ peer'[s] = "answered" /\ client'[s] = client[s]
    BY <1>0, <1>8, <2>2 DEF Message, Handled, Streams
  <2>5. client[s] # "new"
    BY <1>0, <2>1 DEF ShimIsAt
  <2> QED
    BY <1>0, <2>1, <2>2, <2>3, <2>4, <2>5 DEF ShimIsAt
<1>9. CASE Operation(s) \/ Subscribe(s) \/ OperationEnds(s)
  BY <1>0, <1>9 DEF Operation, Subscribe, OperationEnds, ShimIsAt
<1>10. CASE Closed(s)
  <2>1. /\ peer[s] \in {"open", "answered"} /\ peer'[s] = "closed"
        /\ UNCHANGED <<server, client, taken>>
        /\ peer[s] = "open" => q # <<>> /\ Head(q) = "fin"
    BY <1>0, <1>10 DEF Closed, Live, ShimIsAt, Streams
  <2>2. peer[s] = "open" => client[s] = "cut"
    BY <1>0, <2>1, SentShrinks DEF ShimIsAt, Streams
  <2>3. client[s] # "new"
    BY <1>0, <2>1 DEF ShimIsAt
  <2> QED
    BY <1>0, <2>1, <2>2, <2>3 DEF ShimIsAt
<1>11. CASE Changes \/ ServerCloses
  BY <1>0, <1>11, ShimUntouched DEF Changes, ServerCloses, Streams
<1>12. CASE ServerGone
  <2>1. peer'[s] = (IF Live(s) THEN "closed" ELSE peer[s])
    BY <1>0, <1>12 DEF ServerGone
  <2>2. CASE Live(s)
    BY <1>0, <1>12, <2>1, <2>2 DEF ServerGone, ShimIsAt, Live
  <2>3. CASE ~Live(s)
    <3>1. peer[s] \in {"none", "closed"}
      BY <1>0, <2>3 DEF Live, ShimIsAt
    <3>2. down'[s] = down[s] \o <<>>
      BY <1>0, <1>12, <2>3 DEF ServerGone
    <3>3. peer[s] = "none" => down'[s] = <<>>
      BY <1>0, <3>2 DEF ShimIsAt
    <3> QED
      BY <1>0, <1>12, <2>1, <2>3, <3>1, <3>3 DEF ServerGone, ShimIsAt
  <2> QED
    BY <2>2, <2>3
<1> QED
  BY <1>1, <1>2, <1>3, <1>4, <1>5, <1>6, <1>7, <1>8, <1>9, <1>10, <1>11, <1>12, <1>13
  DEF Next, ServerStep

\* A message comes in pieces, its sender does not wait, the connection ends from
\* either side: one that was sent in full is handed on once, and one that was cut
\* off never, not even in part.
THEOREM MessageHandedOnOnce == Spec => []MessageTakenOnce
<1>1. Init => ShimsServed
  <2> SUFFICES ASSUME Init PROVE ShimsServed
    OBVIOUS
  <2>1. Streams
    BY DEF Init, Streams, Ends, Fates
  <2>2. \A s \in Shim : ShimIsAt(s)
    BY DEF Init, ShimIsAt
  <2> QED
    BY <2>1, <2>2 DEF ShimsServed
<1>2. ShimsServed => MessageTakenOnce
  BY DEF ShimsServed, ShimIsAt, MessageTakenOnce
<1> QED
  BY <1>1, <1>2, ShimsServedNext, PTL DEF Spec

-----------------------------------------------------------------------------
(* What a watch prints *)

\* A stream of states without a gap, that may end.
Unbroken(q) == \A i \in 1 .. Len(q) - 1 : q[i] # Fin /\ q[i + 1] \in {q[i] + 1, Fin}

\* What w has printed and what is under way to it are one such stream.  Before it
\* subscribes there is none, and as long as it is a listener the stream goes up to
\* the manager's state.
WatchIsAt(w) ==
    /\ down[w] \in Seq(0 .. Fin) /\ Unbroken(down[w]) /\ Unbroken(seen[w])
    /\ seen[w] # <<>> /\ down[w] # <<>> => down[w][1] \in {seen[w][Len(seen[w])] + 1, Fin}
    /\ peer[w] \in {"none", "open", "subscribed", "closed"}
    /\ peer[w] \in {"none", "open"} => seen[w] = <<>> /\ down[w] = <<>>
    /\ peer[w] = "none" => client[w] \in {"new", "failed"} /\ up[w] = <<>>
    /\ peer[w] = "open" => SentBy(client[w], up[w])
    /\ peer[w] = "subscribed" =>
           /\ client[w] \notin {"linked", "writing"}
           /\ w \in listeners /\ OnlyEnds(up[w])
           /\ down[w] # <<>> => down[w][Len(down[w])] = state
           /\ down[w] = <<>> => seen[w] # <<>> /\ seen[w][Len(seen[w])] = state

WatchersFed ==
    /\ state \in 0 .. MaxChanges
    /\ seen \in [Watcher -> Seq(0 .. MaxChanges)]
    /\ \A w \in Watcher : WatchIsAt(w)

\* The next state of a stream, at its end and at its head.
LEMMA StreamGrows ==
    ASSUME NEW q \in Seq(0 .. Fin), Unbroken(q), NEW x \in 0 .. Fin,
           q # <<>> => q[Len(q)] # Fin /\ x \in {q[Len(q)] + 1, Fin}
    PROVE  /\ Unbroken(Append(q, x)) /\ Append(q, x) \in Seq(0 .. Fin)
           /\ Append(q, x) # <<>> /\ Append(q, x)[Len(Append(q, x))] = x
           /\ q # <<>> => Append(q, x)[1] = q[1]
           /\ q = <<>> => Append(q, x)[1] = x
<1> DEFINE r == Append(q, x)
<1>1. Len(r) = Len(q) + 1 /\ r[Len(q) + 1] = x /\ \A i \in 1 .. Len(q) : r[i] = q[i]
  OBVIOUS
<1>2. r \in Seq(0 .. Fin) /\ r # <<>> /\ Len(q) \in Nat /\ (q # <<>> => Len(q) > 0)
  OBVIOUS
<1>3. ASSUME NEW i \in 1 .. Len(r) - 1
      PROVE  r[i] # Fin /\ r[i + 1] \in {r[i] + 1, Fin}
  <2>1. CASE i = Len(q)
    BY <1>1, <1>2, <2>1
  <2>2. CASE i # Len(q)
    <3>1. i \in 1 .. Len(q) - 1 /\ i + 1 \in 1 .. Len(q)
      BY <1>1, <1>2, <2>2
    <3> QED
      BY <1>1, <3>1 DEF Unbroken
  <2> QED
    BY <2>1, <2>2
<1> QED
  BY <1>1, <1>2, <1>3 DEF Unbroken

LEMMA StreamShrinks ==
    ASSUME NEW q \in Seq(0 .. Fin), Unbroken(q), q # <<>>
    PROVE  /\ Unbroken(Tail(q)) /\ Tail(q) \in Seq(0 .. Fin)
           /\ Head(q) = q[1] /\ Head(q) \in 0 .. Fin
           /\ Tail(q) # <<>> => /\ Head(q) # Fin /\ Tail(q)[1] \in {Head(q) + 1, Fin}
                                /\ Tail(q)[Len(Tail(q))] = q[Len(q)]
           /\ Tail(q) = <<>> => q[Len(q)] = Head(q)
<1>1. /\ Len(q) \in Nat /\ Len(q) > 0 /\ Len(Tail(q)) = Len(q) - 1 /\ Head(q) = q[1]
      /\ \A i \in 1 .. Len(q) - 1 : Tail(q)[i] = q[i + 1]
      /\ Tail(q) \in Seq(0 .. Fin) /\ q[1] \in 0 .. Fin
  <2>1. Len(q) \in Nat \ {0} /\ q \in [1 .. Len(q) -> 0 .. Fin]
    BY EmptySeq, LenProperties
  <2>2. Head(q) = q[1]
    BY <2>1
  <2> QED
    BY <2>1, <2>2, HeadTailProperties
<1>2. ASSUME NEW i \in 1 .. Len(Tail(q)) - 1
      PROVE  Tail(q)[i] # Fin /\ Tail(q)[i + 1] \in {Tail(q)[i] + 1, Fin}
  BY <1>1 DEF Unbroken
<1>3. Tail(q) # <<>> => /\ q[1] # Fin /\ Tail(q)[1] \in {q[1] + 1, Fin}
                        /\ Tail(q)[Len(Tail(q))] = q[Len(q)]
  <2>1. Tail(q) # <<>> => Len(q) - 1 >= 1
    BY <1>1
  <2> QED
    BY <1>1, <2>1 DEF Unbroken
<1>4. Tail(q) = <<>> => Len(q) = 1
  <2>1. Len(Tail(q)) = Len(q) - 1 /\ Len(q) \in Nat
    BY <1>1
  <2> QED
    BY <2>1
<1> QED
  BY <1>1, <1>2, <1>3, <1>4 DEF Unbroken

\* A step of another client.
LEMMA WatchUntouched ==
    ASSUME NEW w \in Watcher, WatchIsAt(w), state' = state,
           client'[w] = client[w], peer'[w] = peer[w],
           up'[w] = up[w], down'[w] = down[w], seen'[w] = seen[w],
           w \in listeners => w \in listeners'
    PROVE  WatchIsAt(w)'
  BY DEF WatchIsAt, Unbroken, Fin

\* Nothing reaches a watcher that is no listener.
LEMMA WatchStill ==
    ASSUME NEW w \in Watcher, WatchIsAt(w), peer[w] # "subscribed",
           client'[w] = client[w], peer'[w] = peer[w],
           down'[w] = down[w], seen'[w] = seen[w],
           up'[w] = up[w] \/ (peer[w] # "open" /\ up'[w] = <<>>)
    PROVE  WatchIsAt(w)'
  BY DEF WatchIsAt, Unbroken, Fin

\* The connection of w ends: the end of its stream is all it still gets.
LEMMA WatchEnds ==
    ASSUME NEW w \in Watcher, WatchIsAt(w), WatchersFed, Live(w),
           peer'[w] = "closed", down'[w] = Append(down[w], Fin), seen'[w] = seen[w]
    PROVE  WatchIsAt(w)'
<1>1. Fin \in Nat /\ Fin \in 0 .. Fin /\ state # Fin
  BY BoundsAssumption DEF Fin, WatchersFed
<1>2. down[w] # <<>> => down[w][Len(down[w])] # Fin
  BY <1>1 DEF WatchIsAt, Live
<1>3. /\ Unbroken(down'[w]) /\ down'[w] \in Seq(0 .. Fin)
      /\ down'[w][1] = IF down[w] = <<>> THEN Fin ELSE down[w][1]
  BY <1>1, <1>2, StreamGrows DEF WatchIsAt
<1> QED
  BY <1>3 DEF WatchIsAt, Unbroken, Fin

LEMMA WatchReads ==
    ASSUME WatchersFed, Streams, NEW w \in Watcher, Reads(w)
    PROVE  WatchIsAt(w)' /\ seen' \in [Watcher -> Seq(0 .. MaxChanges)]
<1> DEFINE q == down[w]  x == Head(q)  r == seen[w]
<1>0. /\ w \in Client /\ w \notin Caller /\ q # <<>> /\ q \in Seq(0 .. Fin) /\ Unbroken(q)
      /\ r \in Seq(0 .. MaxChanges) /\ Unbroken(r) /\ WatchIsAt(w)
      /\ MaxChanges \in Nat /\ Fin = MaxChanges + 1
  BY KindsAssumption, BoundsAssumption DEF Reads, WatchersFed, WatchIsAt, Fin
<1>1. /\ down'[w] = Tail(q) /\ peer' = peer /\ listeners' = listeners /\ state' = state
      /\ x # Fin => up' = up /\ client' = client
      /\ client[w] # "new" /\ client'[w] \in {client[w], "settled"}
      /\ seen' = IF x <= MaxChanges THEN [seen EXCEPT ![w] = Append(r, x)] ELSE seen
  BY <1>0 DEF Reads, Alive, Streams, WatchersFed
<1>2. /\ Unbroken(Tail(q)) /\ Tail(q) \in Seq(0 .. Fin) /\ x = q[1] /\ x \in 0 .. Fin
      /\ Tail(q) # <<>> => /\ x # Fin /\ Tail(q)[1] \in {x + 1, Fin}
                           /\ Tail(q)[Len(Tail(q))] = q[Len(q)]
      /\ Tail(q) = <<>> => q[Len(q)] = x
  BY <1>0, StreamShrinks
<1>3. peer[w] \in {"subscribed", "closed"}
  BY <1>0 DEF WatchIsAt
<1>4. CASE x = Fin
  <2>1. seen' = seen /\ Tail(q) = <<>> /\ q[Len(q)] = Fin
    BY <1>0, <1>1, <1>2, <1>4
  <2>2. peer[w] = "closed"
    BY <1>0, <1>3, <2>1 DEF WatchIsAt, WatchersFed
  <2> QED
    BY <1>0, <1>1, <1>2, <2>1, <2>2 DEF WatchIsAt, Unbroken, Fin, WatchersFed
<1>5. CASE x # Fin
  <2>1. x \in 0 .. MaxChanges /\ seen' = [seen EXCEPT ![w] = Append(r, x)]
    BY <1>0, <1>1, <1>2, <1>5
  <2>2. /\ seen' \in [Watcher -> Seq(0 .. MaxChanges)] /\ seen'[w] = Append(r, x)
        /\ r \in Seq(0 .. Fin)
    BY <1>0, <2>1 DEF WatchersFed
  <2>3. r # <<>> => r[Len(r)] # Fin /\ x = r[Len(r)] + 1
    <3>1. ASSUME r # <<>> PROVE r[Len(r)] \in 0 .. MaxChanges /\ x = r[Len(r)] + 1
      <4>1. Len(r) \in 1 .. Len(r)
        BY <1>0, <3>1
      <4>2. r[Len(r)] \in 0 .. MaxChanges
        BY <1>0, <4>1
      <4> QED
        BY <1>0, <1>2, <1>5, <3>1, <4>2 DEF WatchIsAt
    <3> QED
      BY <1>0, <3>1
  <2>4. /\ Unbroken(seen'[w]) /\ seen'[w] # <<>> /\ seen'[w][Len(seen'[w])] = x
    <3>1. x \in 0 .. Fin /\ (r # <<>> => r[Len(r)] # Fin /\ x \in {r[Len(r)] + 1, Fin})
      BY <1>2, <2>3
    <3>2. /\ Unbroken(Append(r, x)) /\ Append(r, x) # <<>>
          /\ Append(r, x)[Len(Append(r, x))] = x
      BY <1>0, <2>2, <3>1, StreamGrows
    <3> QED
      BY <2>2, <3>2
  <2>5. peer[w] = "subscribed" => w \in listeners /\ q[Len(q)] = state
    BY <1>0 DEF WatchIsAt
  <2> QED
    <3>1. /\ up'[w] = up[w] /\ peer'[w] = peer[w] /\ down'[w] = Tail(q)
          /\ (w \in listeners)' = (w \in listeners) /\ state' = state
          /\ client'[w] = client[w]
      BY <1>1, <1>5
    <3>2. Tail(q) # <<>> => Tail(q)[1] \in {seen'[w][Len(seen'[w])] + 1, Fin}
      BY <1>2, <2>4
    <3>3. peer[w] = "subscribed" =>
             /\ OnlyEnds(up[w]) /\ client[w] \notin {"linked", "writing"}
             /\ Tail(q) # <<>> => Tail(q)[Len(Tail(q))] = state
             /\ Tail(q) = <<>> => seen'[w][Len(seen'[w])] = state
      BY <1>0, <1>2, <2>4, <2>5 DEF WatchIsAt
    <3> HIDE DEF q, x, r
    <3> QED
      BY <1>2, <1>3, <2>2, <2>4, <2>5, <3>1, <3>2, <3>3
      DEF WatchIsAt, Unbroken, Fin, OnlyEnds
<1> QED
  BY <1>4, <1>5

LEMMA WatchersFedNext ==
    WatchersFed /\ Streams /\ ListenersLive /\ [Next]_vars => WatchersFed'
<1> SUFFICES ASSUME WatchersFed, Streams, ListenersLive, [Next]_vars PROVE WatchersFed'
  OBVIOUS
<1>0. /\ \A w \in Watcher : WatchIsAt(w) /\ w \in Client /\ w \notin Shim /\ w \notin Caller
      /\ MaxChanges \in Nat /\ Fin = MaxChanges + 1 /\ state \in 0 .. MaxChanges
      /\ down \in [Client -> Seq(Nat)] /\ peer \in [Client -> Ends]
      /\ up \in [Client -> Seq({"piece", "line", "fin"})]
      /\ seen \in [Watcher -> Seq(0 .. MaxChanges)]
  BY KindsAssumption, BoundsAssumption DEF WatchersFed, Streams, Fin
<1>1. CASE UNCHANGED vars
  BY <1>0, <1>1, WatchUntouched DEF vars, WatchersFed
<1>2. ASSUME NEW c \in Client, Connect(c) PROVE WatchersFed'
  <2>1. ASSUME NEW w \in Watcher PROVE WatchIsAt(w)'
    <3>1. CASE w # c
      BY <1>0, <1>2, <3>1, WatchUntouched DEF Connect, ListenersLive
    <3>2. CASE w = c
      <4>1. /\ peer[w] = "none" /\ UNCHANGED <<up, down, seen, state, listeners>> /\ up[w] = <<>>
            /\ \/ peer'[w] = "open" /\ client'[w] = "linked"
               \/ peer'[w] = "none" /\ client'[w] = "failed"
        BY <1>0, <1>2, <3>2 DEF Connect, ListenersLive, WatchIsAt
      <4>2. SentBy("linked", up'[w])
        BY <4>1 DEF SentBy
      <4> QED
        BY <1>0, <4>1, <4>2 DEF WatchIsAt, Unbroken, Fin
    <3> QED
      BY <3>1, <3>2
  <2> QED
    BY <1>0, <1>2, <2>1 DEF Connect, WatchersFed
<1>3. ASSUME NEW c \in Client, Reads(c) PROVE WatchersFed'
  <2>1. seen' \in [Watcher -> Seq(0 .. MaxChanges)]
    BY <1>0, <1>3, WatchReads DEF Reads
  <2>2. ASSUME NEW w \in Watcher PROVE WatchIsAt(w)'
    <3>1. CASE w = c
      BY <1>3, <3>1, WatchReads
    <3>2. CASE w # c
      BY <1>0, <1>3, <3>2, WatchUntouched DEF Reads, ListenersLive
    <3> QED
      BY <3>1, <3>2
  <2> QED
    BY <1>0, <1>3, <2>1, <2>2 DEF Reads, WatchersFed
<1>4. ASSUME NEW c \in Client, Writes(c) \/ Dies(c) \/ Piece(c) PROVE WatchersFed'
  <2>1. /\ UNCHANGED <<state, peer, down, seen, listeners>>
        /\ \A w \in Watcher \ {c} : up'[w] = up[w] /\ client'[w] = client[w]
        /\ up[c] \in Seq({"piece", "line", "fin"}) /\ client[c] \in Fates
    BY <1>0, <1>4 DEF Writes, Dies, Piece, ListenersLive
  <2>2. ASSUME NEW w \in Watcher PROVE WatchIsAt(w)'
    <3>1. CASE w # c
      BY <1>0, <2>1, <3>1, WatchUntouched
    <3>2. CASE w = c
      <4>1. WatchIsAt(c) /\ c \notin Shim /\ c \in Watcher
        BY <1>0, <3>2
      <4>2. \/ /\ client[c] = "linked" /\ client'[c] = "writing"
               /\ up'[c] = up[c] \o <<"piece">>
            \/ /\ client[c] = "writing" /\ client'[c] = "open"
               /\ up'[c] = up[c] \o <<"line">>
            \/ /\ client[c] \in {"linked", "writing"} /\ client'[c] = "cut"
               /\ up'[c] = Append(up[c], "fin")
            \/ /\ client[c] = "open" /\ client'[c] = "dead"
               /\ up'[c] = Append(up[c], "fin")
            \/ /\ client'[c] = client[c] /\ up[c] # <<>> /\ Head(up[c]) = "piece"
               /\ up'[c] = Tail(up[c]) /\ peer[c] \in {"open", "subscribed"}
        <5>1. CASE Writes(c)
          BY <1>0, <4>1, <5>1 DEF Writes, ListenersLive
        <5>2. CASE Dies(c)
          BY <1>0, <5>2 DEF Dies, Alive, ListenersLive
        <5>3. CASE Piece(c)
          BY <1>0, <4>1, <5>3 DEF Piece, Live, WatchIsAt
        <5> QED
          BY <1>4, <5>1, <5>2, <5>3
      <4>3. peer[c] = "open" => SentBy(client'[c], up'[c])
        BY <2>1, <4>1, <4>2, SentGrows, SentShrinks DEF WatchIsAt
      <4>4. peer[c] = "subscribed" => /\ OnlyEnds(up'[c])
                                      /\ client'[c] \notin {"linked", "writing"}
        BY <2>1, <4>1, <4>2, TailOfEnds DEF WatchIsAt
      <4>5. peer[c] # "none"
        BY <4>1, <4>2 DEF WatchIsAt
      <4>6. WatchIsAt(c)'
        BY <2>1, <4>1, <4>3, <4>4, <4>5 DEF WatchIsAt, Unbroken, Fin
      <4> QED
        BY <3>2, <4>6
    <3> QED
      BY <3>1, <3>2
  <2> QED
    BY <1>0, <2>1, <2>2 DEF WatchersFed
<1>5. ASSUME NEW c \in Client, Message(c) \/ Operation(c) PROVE WatchersFed'
  <2>1. ASSUME NEW w \in Watcher PROVE WatchIsAt(w)'
    <3>1. w # c
      BY <1>0, <1>5 DEF Message, Operation
    <3> QED
      BY <1>0, <1>5, <3>1, WatchUntouched DEF Message, Operation, Handled, Send
  <2> QED
    BY <1>0, <1>5, <2>1 DEF Message, Operation, Handled, WatchersFed
<1>6. ASSUME NEW c \in Client, Subscribe(c) PROVE WatchersFed'
  <2>1. /\ c \in Watcher /\ Live(c) /\ peer'[c] = "subscribed" /\ c \in listeners'
        /\ down' = [down EXCEPT ![c] = down[c] \o <<state>>]
        /\ state' = state /\ seen' = seen /\ listeners \subseteq listeners'
    BY <1>0, <1>6 DEF Subscribe, Handled, Send, Snapshot
  <2>2. WatchIsAt(c)'
    <3>1. /\ up[c] \in Seq({"piece", "line", "fin"}) /\ up[c] # <<>>
          /\ Head(up[c]) = "line" /\ up'[c] = Tail(up[c])
      BY <1>6 DEF Subscribe, Handled, LineAt, Streams
    <3>2. /\ peer[c] = "open" /\ OnlyEnds(up'[c])
          /\ client'[c] = client[c] /\ client[c] \notin {"linked", "writing"}
      <4>1. peer[c] = "open"
        BY <1>0, <2>1, <3>1, TailOfEnds DEF WatchIsAt, Live
      <4>2. client[c] \in Fates /\ client' = client
        BY <1>6, <2>1 DEF ListenersLive, Subscribe, Handled
      <4>3. SentBy(client[c], up[c])
        BY <1>0, <2>1, <4>1 DEF WatchIsAt
      <4> QED
        BY <3>1, <4>1, <4>2, <4>3, SentShrinks
    <3>3. down[c] = <<>> /\ seen[c] = <<>>
      BY <1>0, <2>1, <3>2 DEF WatchIsAt
    <3>4. down'[c] = <<state>> /\ seen'[c] = <<>>
      BY <1>0, <2>1, <3>3
    <3> QED
      <4>1. Unbroken(<<state>>) /\ Unbroken(<<>>) /\ <<state>> \in Seq(0 .. Fin)
        BY <1>0 DEF Unbroken
      <4>2. /\ down'[c] # <<>> /\ down'[c][Len(down'[c])] = state' /\ state' = state
            /\ Unbroken(down'[c]) /\ Unbroken(seen'[c]) /\ down'[c] \in Seq(0 .. Fin)
        <5>1. <<state>> # <<>> /\ <<state>>[Len(<<state>>)] = state
          OBVIOUS
        <5> QED
          BY <2>1, <3>4, <4>1, <5>1
      <4> QED
        BY <2>1, <3>2, <3>4, <4>2 DEF WatchIsAt, Unbroken, Fin, OnlyEnds
  <2>3. ASSUME NEW w \in Watcher, w # c PROVE WatchIsAt(w)'
    BY <1>0, <1>6, <2>1, <2>3, WatchUntouched DEF Subscribe, Handled
  <2> QED
    BY <1>0, <2>1, <2>2, <2>3 DEF WatchersFed
<1>7. ASSUME NEW c \in Client, OperationEnds(c) PROVE WatchersFed'
  <2>1. ASSUME NEW w \in Watcher PROVE WatchIsAt(w)'
    <3>1. w # c
      BY <1>0, <1>7 DEF OperationEnds, WatchIsAt
    <3> QED
      BY <1>0, <1>7, <3>1, WatchUntouched DEF OperationEnds, Send
  <2> QED
    BY <1>0, <1>7, <2>1 DEF OperationEnds, WatchersFed
<1>8. ASSUME NEW c \in Client, Closed(c) PROVE WatchersFed'
  <2>1. ASSUME NEW w \in Watcher PROVE WatchIsAt(w)'
    <3>1. CASE w = c
      <4>1. peer[c] # "answered" /\ Live(c) /\ peer'[c] = "closed"
        BY <1>0, <1>8, <3>1 DEF Closed, WatchIsAt
      <4>2. down'[c] = down[c] \o <<Fin>> /\ seen' = seen
        BY <1>0, <1>8, <4>1 DEF Closed, Send
      <4>3. down'[c] = Append(down[c], Fin)
        BY <1>0, <4>2
      <4> QED
        BY <1>0, <3>1, <4>1, <4>2, <4>3, WatchEnds
    <3>2. CASE w # c
      BY <1>0, <1>8, <3>2, WatchUntouched DEF Closed, Send, Off
    <3> QED
      BY <3>1, <3>2
  <2> QED
    BY <1>0, <1>8, <2>1 DEF Closed, WatchersFed
<1>9. CASE Changes
  <2>1. /\ state' = state + 1 /\ state' \in 0 .. MaxChanges /\ state' \in 0 .. Fin
        /\ seen' = seen /\ peer' = peer /\ listeners' = listeners
    BY <1>0, <1>9 DEF Changes
  <2>2. ASSUME NEW w \in Watcher PROVE WatchIsAt(w)'
    <3>1. CASE w \in listeners
      <4>1. peer[w] = "subscribed" /\ down'[w] = Append(down[w], state')
        BY <1>0, <1>9, <3>1 DEF Changes, ListenersLive
      <4>2. /\ down[w] \in Seq(0 .. Fin) /\ Unbroken(down[w])
            /\ down[w] # <<>> => down[w][Len(down[w])] # Fin
                                 /\ state' = down[w][Len(down[w])] + 1
        BY <1>0, <2>1, <4>1 DEF WatchIsAt
      <4>3. /\ Unbroken(down'[w]) /\ down'[w] \in Seq(0 .. Fin) /\ down'[w] # <<>>
            /\ down'[w][Len(down'[w])] = state'
            /\ down[w] # <<>> => down'[w][1] = down[w][1]
            /\ down[w] = <<>> => down'[w][1] = state'
        BY <2>1, <4>1, <4>2, StreamGrows
      <4>4. down[w] = <<>> => seen[w] # <<>> /\ state' = seen[w][Len(seen[w])] + 1
        BY <1>0, <2>1, <4>1 DEF WatchIsAt
      <4>5. up'[w] = up[w] /\ client'[w] = client[w]
        BY <1>9 DEF Changes
      <4>6. /\ WatchIsAt(w) /\ seen'[w] = seen[w] /\ (w \in listeners)'
            /\ seen[w] # <<>> => down'[w][1] \in {seen[w][Len(seen[w])] + 1, Fin}
        BY <1>0, <2>1, <3>1, <4>3, <4>4 DEF WatchIsAt
      <4> QED
        BY <2>1, <3>1, <4>1, <4>3, <4>4, <4>5, <4>6
        DEF WatchIsAt, Unbroken, Fin, OnlyEnds
    <3>2. CASE w \notin listeners
      <4>1. peer[w] # "subscribed" /\ down'[w] = down[w]
        BY <1>0, <1>9, <3>2 DEF Changes, WatchIsAt
      <4> QED
        BY <1>0, <1>9, <2>1, <4>1, WatchStill DEF Changes
    <3> QED
      BY <3>1, <3>2
  <2> QED
    BY <1>0, <2>1, <2>2 DEF WatchersFed
<1>10. CASE ServerCloses
  BY <1>0, <1>10, WatchUntouched DEF ServerCloses, WatchersFed
<1>11. CASE ServerGone
  <2>1. ASSUME NEW w \in Watcher PROVE WatchIsAt(w)'
    <3>1. CASE Live(w)
      <4>1. peer[w] # "answered" /\ peer'[w] = "closed" /\ seen' = seen
        BY <1>0, <1>11, <3>1 DEF ServerGone, WatchIsAt
      <4>2. down'[w] = down[w] \o <<Fin>>
        BY <1>0, <1>11, <3>1, <4>1 DEF ServerGone
      <4>3. down'[w] = Append(down[w], Fin)
        BY <1>0, <4>2
      <4> QED
        BY <1>0, <3>1, <4>1, <4>3, WatchEnds
    <3>2. CASE ~Live(w)
      <4>1. down'[w] = down[w] \o <<>> /\ peer'[w] = peer[w]
        BY <1>0, <1>11, <3>2 DEF ServerGone
      <4>2. down'[w] = down[w]
        BY <1>0, <4>1
      <4> QED
        BY <1>0, <1>11, <3>2, <4>1, <4>2, WatchStill DEF ServerGone, WatchIsAt, Live
    <3> QED
      BY <3>1, <3>2
  <2> QED
    BY <1>0, <1>11, <2>1 DEF ServerGone, WatchersFed
<1> QED
  BY <1>1, <1>2, <1>3, <1>4, <1>5, <1>6, <1>7, <1>8, <1>9, <1>10, <1>11
  DEF Next, ServerStep

LEMMA FedIsCurrent == WatchersFed /\ ListenersLive => WatchIsCurrent
<1> SUFFICES ASSUME WatchersFed, ListenersLive, NEW w \in Watcher
             PROVE  /\ \A i \in 1 .. Len(seen[w]) - 1 : seen[w][i + 1] = seen[w][i] + 1
                    /\ w \in listeners /\ down[w] = <<>> /\ client[w] = "open" =>
                           seen[w] # <<>> /\ Last(seen[w]) = state
  BY DEF WatchIsCurrent
<1>1. /\ WatchIsAt(w) /\ seen[w] \in Seq(0 .. MaxChanges)
      /\ MaxChanges \in Nat /\ Fin = MaxChanges + 1
  BY BoundsAssumption DEF WatchersFed, Fin
<1>2. ASSUME NEW i \in 1 .. Len(seen[w]) - 1
      PROVE  seen[w][i + 1] = seen[w][i] + 1
  <2>1. i + 1 \in 1 .. Len(seen[w])
    BY <1>1
  <2>2. seen[w][i + 1] \in 0 .. MaxChanges
    BY <1>1, <2>1
  <2>3. seen[w][i + 1] # Fin
    BY <1>1, <2>2
  <2>4. seen[w][i + 1] \in {seen[w][i] + 1, Fin}
    BY <1>1 DEF WatchIsAt, Unbroken
  <2> QED
    BY <2>3, <2>4
<1>3. w \in listeners => peer[w] = "subscribed"
  BY DEF ListenersLive
<1> QED
  BY <1>1, <1>2, <1>3 DEF WatchIsAt, Last

\* Changes come while a watch subscribes, reads, dies or is closed: it misses none,
\* prints none twice, and is at the manager's state when it has read everything.
THEOREM WatchesAreCurrent == Spec => []WatchIsCurrent
<1>1. Init => WatchersFed /\ ShimsServed /\ ListenersLive
  <2> SUFFICES ASSUME Init PROVE WatchersFed /\ ShimsServed /\ ListenersLive
    OBVIOUS
  <2>1. Streams /\ ListenersLive
    BY DEF Init, Streams, ListenersLive, Ends, Fates
  <2>2. \A s \in Shim : ShimIsAt(s)
    BY DEF Init, ShimIsAt
  <2>3. \A w \in Watcher : WatchIsAt(w)
    BY DEF Init, WatchIsAt, Unbroken
  <2> QED
    BY <2>1, <2>2, <2>3, BoundsAssumption DEF Init, ShimsServed, WatchersFed
<1>2. WatchersFed /\ ShimsServed /\ ListenersLive /\ [Next]_vars =>
        (WatchersFed /\ ShimsServed /\ ListenersLive)'
  BY WatchersFedNext, ShimsServedNext, ListenersLiveNext DEF ShimsServed
<1>3. WatchersFed /\ ListenersLive => WatchIsCurrent
  BY FedIsCurrent
<1> QED
  BY <1>1, <1>2, <1>3, PTL DEF Spec
=============================================================================
