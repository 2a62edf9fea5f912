------------------------ MODULE HistoryAndWireProofs ------------------------
(***************************************************************************)
(* Theorems about two modules that have no name in common.                 *)
(*                                                                         *)
(* TodayHistory, for any slots, days and amounts.  Today's total           *)
(* (TodayCost) stays opaque: only which costs it sums matters here.        *)
(*                                                                         *)
(* BleWire, for any lines of any number of chunks, any bytes in            *)
(* notifications of any length, any number of scans and faults.            *)
(***************************************************************************)
EXTENDS TodayHistory, BleWire, SequenceTheorems, FiniteSetTheorems,
        WellFoundedInduction, TLAPS

-----------------------------------------------------------------------------
(* Costs and restored history *)

\* Both properties are inductive as they stand.
HistoryInv == CostsAreOfLiveSessions /\ RestoredGoesToOne

LEMMA HistoryInvInit == HistoryInit => HistoryInv
  BY DEF HistoryInit, HistoryInv, CostsAreOfLiveSessions, RestoredGoesToOne

\* A tick adds its slot, on a new day after forgetting all others.
LEMMA HistoryInvTick ==
  ASSUME HistoryInv, NEW s \in Slot, Tick(s)
  PROVE  HistoryInv'
<1>1. PICK cost \in {NoCost, real[s]}, long \in BOOLEAN, fails \in BOOLEAN :
        UpdateHistory(s, cost, long, fails)
  BY DEF Tick
<1>2. slots' = slots \cup {s} /\ restored' = IF slots = {} THEN 0 ELSE restored
  BY DEF Tick, EnsureSlot
<1>3. sessions' = (IF todayDay = clock THEN sessions ELSE {}) \cup {s}
  BY <1>1 DEF UpdateHistory, SessionsOfToday
<1>4. costs' = [x \in Slot |-> IF x = s /\ cost # NoCost THEN cost
                               ELSE IF todayDay = clock THEN costs[x] ELSE NoCost]
  BY <1>1 DEF UpdateHistory
<1>5. CostsAreOfLiveSessions'
  <2>. SUFFICES ASSUME NEW x \in Slot, costs'[x] # NoCost
                PROVE  x \in slots' /\ x \in sessions'
    BY DEF CostsAreOfLiveSessions
  <2>1. CASE x = s
    BY <2>1, <1>2, <1>3
  <2>2. CASE x # s
    <3>1. todayDay = clock /\ costs[x] # NoCost
      BY <2>2, <1>4
    <3>2. x \in slots /\ x \in sessions
      BY <3>1 DEF HistoryInv, CostsAreOfLiveSessions
    <3>. QED BY <3>1, <3>2, <1>2, <1>3
  <2>. QED BY <2>1, <2>2
<1>6. RestoredGoesToOne'
  BY <1>2 DEF HistoryInv, RestoredGoesToOne
<1>. QED BY <1>5, <1>6 DEF HistoryInv

\* The end of sessions forgets their costs and creates no slot.
LEMMA HistoryInvEnd ==
  ASSUME HistoryInv, NEW E \in SUBSET slots, CheckLiveness(E)
  PROVE  HistoryInv'
<1>1. /\ slots' = slots \ E
      /\ costs' = [s \in Slot |-> IF s \in E THEN NoCost ELSE costs[s]]
      /\ UNCHANGED <<sessions, restored>>
  BY DEF CheckLiveness, RemoveSlots
<1>. QED BY <1>1 DEF HistoryInv, CostsAreOfLiveSessions, RestoredGoesToOne

LEMMA HistoryInvNext == HistoryInv /\ [HistoryNext]_historyVars => HistoryInv'
<1>. SUFFICES ASSUME HistoryInv, [HistoryNext]_historyVars
              PROVE  HistoryInv'
  OBVIOUS
<1>1. CASE \E s \in Slot : Tick(s)
  BY <1>1, HistoryInvTick
<1>2. CASE \E E \in SUBSET slots : CheckLiveness(E)
  BY <1>2, HistoryInvEnd
<1>3. CASE \E torn \in BOOLEAN : Restart(torn)
  <2>1. slots' = {} /\ costs' = [s \in Slot |-> NoCost]
    BY <1>3 DEF Restart, Restarted
  <2>. QED BY <2>1 DEF HistoryInv, CostsAreOfLiveSessions, RestoredGoesToOne
<1>4. CASE \/ \E s \in Slot : Spend(s)
           \/ \E s \in slots : SetFocus(s)
           \/ Midnight
           \/ UNCHANGED historyVars
  <2>1. UNCHANGED <<slots, restored, costs, sessions>>
    BY <1>4 DEF Spend, SetFocus, Midnight, historyVars, aggHistory
  <2>. QED BY <2>1 DEF HistoryInv, CostsAreOfLiveSessions, RestoredGoesToOne
<1>. QED BY <1>1, <1>2, <1>3, <1>4 DEF HistoryNext

\* updateHistory() and removeSlot() together price live sessions of the day only,
\* through ticks, ends, midnight and restarts in any order.
THEOREM PricedSessionsLive == HistorySpec => []CostsAreOfLiveSessions
<1>1. HistoryInv => CostsAreOfLiveSessions
  BY DEF HistoryInv
<1>. QED BY <1>1, HistoryInvInit, HistoryInvNext, PTL DEF HistorySpec

\* ensureSlot() hands the burn history of the last daemon to one slot at most.
THEOREM RestoredOnce == HistorySpec => []RestoredGoesToOne
<1>1. HistoryInv => RestoredGoesToOne
  BY DEF HistoryInv
<1>. QED BY <1>1, HistoryInvInit, HistoryInvNext, PTL DEF HistorySpec

-----------------------------------------------------------------------------
(* The day's sessions across restarts *)

\* What the property needs besides itself: as long as no save has failed, the
\* file agrees with the memory, and nothing ticked on a day the memory has not
\* seen.
SessionsInv ==
  /\ clock \in Nat
  /\ todayDay \in Int /\ todayDay <= clock
  /\ saved.day \in Int /\ saved.day <= clock
  /\ ~lost => /\ saved.day = todayDay
              /\ saved.sessions = sessions
              /\ todayDay = clock => sessions = ticked
              /\ todayDay # clock => ticked = {}

LEMMA SessionsInvInit == HistoryInit => SessionsInv
  BY DEF HistoryInit, SessionsInv, NoFile, NoDay

\* Everything a tick or a restart writes that the invariant reads.
LEMMA SessionsInvTick ==
  ASSUME SessionsInv, NEW s \in Slot, Tick(s)
  PROVE  SessionsInv'
<1>1. PICK cost \in {NoCost, real[s]}, long \in BOOLEAN, fails \in BOOLEAN :
        UpdateHistory(s, cost, long, fails)
  BY DEF Tick
<1>2. /\ todayDay' = clock /\ clock' = clock
      /\ sessions' = (IF todayDay = clock THEN sessions ELSE {}) \cup {s}
      /\ ticked' = ticked \cup {s}
      /\ lost' <=> (lost \/ fails)
  BY <1>1 DEF Tick, UpdateHistory, SessionsOfToday
<1>3. IF fails THEN saved' = saved
      ELSE saved'.day = todayDay' /\ saved'.sessions = sessions'
  BY <1>1 DEF UpdateHistory
<1>4. /\ clock' \in Nat
      /\ todayDay' \in Int /\ todayDay' <= clock'
      /\ saved'.day \in Int /\ saved'.day <= clock'
  BY <1>2, <1>3 DEF SessionsInv
<1>5. ~lost' => sessions' = ticked'
  <2>1. ~lost => (IF todayDay = clock THEN sessions ELSE {}) = ticked
    BY DEF SessionsInv
  <2>. QED BY <2>1, <1>2
<1>. QED BY <1>2, <1>3, <1>4, <1>5 DEF SessionsInv

LEMMA SessionsInvRestart ==
  ASSUME SessionsInv, NEW torn \in BOOLEAN, Restart(torn)
  PROVE  SessionsInv'
<1>1. /\ clock' = clock /\ ticked' = ticked
      /\ todayDay' = saved'.day /\ sessions' = saved'.sessions
      /\ lost' <=> (lost \/ torn)
      /\ saved' = IF torn THEN NoFile ELSE saved
  BY DEF Restart, Restarted, Load
<1>2. CASE torn
  <2>1. lost' /\ saved'.day = -1 /\ todayDay' = -1
    BY <1>1, <1>2 DEF NoFile, NoDay
  <2>. QED BY <2>1, <1>1 DEF SessionsInv
<1>3. CASE ~torn
  <2>1. saved' = saved /\ (lost' <=> lost)
    BY <1>1, <1>3
  <2>. QED BY <2>1, <1>1 DEF SessionsInv
<1>. QED BY <1>2, <1>3

LEMMA SessionsInvNext == SessionsInv /\ [HistoryNext]_historyVars => SessionsInv'
<1>. SUFFICES ASSUME SessionsInv, [HistoryNext]_historyVars
              PROVE  SessionsInv'
  OBVIOUS
<1>1. CASE \E s \in Slot : Tick(s)
  BY <1>1, SessionsInvTick
<1>2. CASE \E torn \in BOOLEAN : Restart(torn)
  BY <1>2, SessionsInvRestart
<1>3. CASE Midnight
  BY <1>3 DEF Midnight, SessionsInv, aggHistory
<1>4. CASE \/ \E s \in Slot : Spend(s)
           \/ \E s \in slots : SetFocus(s)
           \/ \E E \in SUBSET slots : CheckLiveness(E)
           \/ UNCHANGED historyVars
  <2>1. UNCHANGED <<todayDay, sessions, saved, clock, ticked, lost>>
    BY <1>4 DEF Spend, SetFocus, CheckLiveness, historyVars, aggHistory, ghosts
  <2>. QED BY <2>1 DEF SessionsInv
<1>. QED BY <1>1, <1>2, <1>3, <1>4 DEF HistoryNext

\* Any number of restarts keeps the day's sessions exact, unless a save failed.
THEOREM SessionsExact == HistorySpec => []SessionsSurviveRestarts
<1>1. SessionsInv => SessionsSurviveRestarts
  BY DEF SessionsInv, SessionsSurviveRestarts
<1>. QED BY <1>1, SessionsInvInit, SessionsInvNext, PTL DEF HistorySpec
-----------------------------------------------------------------------------
(* The life of a BLE transport *)

\* The link is open while the transport is, and noble's connection under it; a
\* transport that was told to close awaits the disconnect, and the radio is busy
\* with something else only while there is no transport.
Ends ==
  /\ link = "open" <=> transport = "open"
  /\ central # "idle" => transport # "open" /\ closing = FALSE
  /\ transport = "open" => closing = FALSE /\ told = 0
  /\ transport = "none" => closing = FALSE /\ told = 0
  /\ transport \in {"none", "open", "closed"}
  /\ closing \in BOOLEAN
  /\ transport = "closed" => told = IF closing THEN 0 ELSE 1

LEMMA EndsNext == Ends /\ [Next]_vars => Ends'
<1> SUFFICES ASSUME Ends, [Next]_vars
             PROVE  Ends'
  OBVIOUS
<1>1. ASSUME UNCHANGED <<link, transport, closing, told>>, central' = "idle" \/ central # "idle"
                                                          \/ central' = central
      PROVE  Ends'
  BY <1>1 DEF Ends
<1>2. CASE PoweredOn \/ Discovered \/ ScanDone \/ ScanResolves \/ ConnectGoesOn \/ ConnectFails
  BY <1>1, <1>2 DEF PoweredOn, Discovered, ScanDone, ScanResolves, ConnectGoesOn, ConnectFails,
                    Connecting, conn
<1>3. CASE ScanBegins
  BY <1>3 DEF ScanBegins, conn, Ends
<1>4. CASE Connects
  BY <1>1, <1>4 DEF Connects
<1>5. CASE Subscribed
  <2>1. /\ central = "subscribe" /\ central' = "idle" /\ link' = "open" /\ transport' = "open"
        /\ told' = 0 /\ closing' = closing
    BY <1>5 DEF Subscribed
  <2> QED
    BY <2>1 DEF Ends
<1>6. CASE Close
  <2>1. /\ transport = "open" /\ transport' = "closed" /\ closing' = TRUE /\ link' = "closed"
        /\ told' = told /\ central' = central
    BY <1>6 DEF Close
  <2> QED
    BY <2>1 DEF Ends
<1>7. CASE CloseCompletes
  <2>1. /\ closing = TRUE /\ closing' = FALSE /\ transport' = "closed" /\ link' = link
        /\ told' = told + IF transport = "open" THEN 2 ELSE 1
        /\ central' = central
    BY <1>7 DEF CloseCompletes, Ends
  <2>2. transport = "closed" /\ told = 0
    BY <2>1 DEF Ends
  <2>3. told' = 1
    BY <2>1, <2>2
  <2> QED
    BY <2>1, <2>2, <2>3 DEF Ends
<1>8. CASE Disconnected
  <2>1. CASE link = "open"
    <3>1. /\ transport = "open" /\ link' = "closed" /\ transport' = "closed"
          /\ told' = told + 1 /\ closing' = closing /\ central' = central
      BY <1>8, <2>1 DEF Disconnected, Ends
    <3> QED
      BY <3>1 DEF Ends
  <2>2. CASE link # "open"
    BY <1>1, <1>8, <2>2 DEF Disconnected
  <2> QED
    BY <2>1, <2>2
<1>9. CASE (\E l \in Line : Write(l) \/ ChunkTaken(l) \/ ChunkRefused(l)) \/ Notified
             \/ UNCHANGED vars
  BY <1>1, <1>9 DEF Write, ChunkTaken, ChunkRefused, Notified, conn, vars
<1> QED
  BY <1>2, <1>3, <1>4, <1>5, <1>6, <1>7, <1>8, <1>9 DEF Next, CentralStep

\* The owner of a BLE transport hears of its end exactly once, whether it closed
\* it, the link was lost, or both.
THEOREM EndToldOnce == Spec => []CloseToldOnce
<1>1. Init => Ends
  BY DEF Init, Ends
<1>2. Ends => CloseToldOnce
  BY DEF Ends, CloseToldOnce
<1> QED
  BY <1>1, <1>2, EndsNext, PTL DEF Spec

-----------------------------------------------------------------------------
(* Lines in chunks *)

\* A line has at least one chunk, so its last one ends it.
LEMMA PartsLength ==
  ASSUME NEW l \in Line
  PROVE  Chunks[l] \in Nat \ {0} /\ DOMAIN PartsOf(l) = 1..Chunks[l]
  BY ChunksAssumption DEF PartsOf

\* Unless a write broke off: what the device has of an unfinished line is of lines
\* that are being written, and of the line alone when no other write overlapped.
Alone(l) ==
  /\ l \notin begun => arrived[l] = "no"
  /\ l \in writing => writing = {l} /\ air = [i \in 1..sent[l] |-> <<l, i>>] /\ arrived[l] = "no"
  /\ l \in begun \ writing => arrived[l] = "whole"

Chunked ==
  /\ writing \subseteq begun /\ begun \subseteq Line
  /\ sent \in [Line -> Nat]
  /\ arrived \in [Line -> {"no", "whole", "broken"}]
  /\ air \in Seq(Line \X Nat)
  /\ \A l \in Line : l \notin begun => sent[l] = 0
  /\ \A l \in writing : sent[l] < Chunks[l]

Unmixed ==
  /\ writing = {} => air = <<>>
  /\ \A i \in DOMAIN air : air[i][1] \in writing
  /\ \A l \in Line \ crossed : Alone(l)

Lines == Chunked /\ cut \in BOOLEAN /\ (~cut => Unmixed)

\* The device takes a chunk of l; a line of which it holds nothing is not touched.
LEMMA Received ==
  ASSUME Chunked, NEW l \in writing, Receive(<<l, sent[l] + 1>>)
  PROVE  /\ air' \in Seq(Line \X Nat)
         /\ arrived' \in [Line -> {"no", "whole", "broken"}]
         /\ sent[l] + 1 < Chunks[l] => air' = Append(air, <<l, sent[l] + 1>>) /\ arrived' = arrived
         /\ ~(sent[l] + 1 < Chunks[l]) =>
              /\ air' = <<>>
              /\ \A m \in Line : (m # l /\ \A i \in DOMAIN air : air[i][1] # m) =>
                                   arrived'[m] = arrived[m]
              /\ Append(air, <<l, sent[l] + 1>>) = PartsOf(l) => arrived'[l] = "whole"
<1> DEFINE chunk == <<l, sent[l] + 1>>
           got == Append(air, chunk)
<1>1. chunk \in Line \X Nat /\ chunk[1] = l /\ chunk[2] = sent[l] + 1
  BY DEF Chunked
<1>2. /\ got \in Seq(Line \X Nat) /\ Len(air) \in Nat
      /\ DOMAIN air = 1..Len(air) /\ DOMAIN got = 1..(Len(air) + 1)
      /\ \A i \in 1..Len(air) : got[i] = air[i]
      /\ got[Len(air) + 1] = chunk
  BY <1>1, LenProperties, AppendProperties DEF Chunked
<1>3. IF chunk[2] < Chunks[chunk[1]]
      THEN air' = got /\ arrived' = arrived
      ELSE /\ air' = <<>>
           /\ arrived' = [m \in Line |->
                IF got = PartsOf(m) THEN "whole"
                ELSE IF \E i \in DOMAIN got : got[i][1] = m THEN "broken" ELSE arrived[m]]
  BY Zenon DEF Receive
<1> HIDE DEF chunk, got
<1>4. CASE sent[l] + 1 < Chunks[l]
  <2>1. air' = got /\ arrived' = arrived
    BY <1>1, <1>3, <1>4
  <2> QED
    BY <1>2, <1>4, <2>1 DEF Chunked, got, chunk
<1>5. CASE ~(sent[l] + 1 < Chunks[l])
  <2>1. /\ air' = <<>>
        /\ arrived' = [m \in Line |->
             IF got = PartsOf(m) THEN "whole"
             ELSE IF \E i \in DOMAIN got : got[i][1] = m THEN "broken" ELSE arrived[m]]
    BY <1>1, <1>3, <1>5
  <2>2. air' \in Seq(Line \X Nat)
    BY <2>1, EmptySeq
  <2>3. arrived' \in [Line -> {"no", "whole", "broken"}]
    BY <2>1 DEF Chunked
  <2>4. ASSUME NEW m \in Line, m # l, \A i \in DOMAIN air : air[i][1] # m
        PROVE  arrived'[m] = arrived[m]
    <3>1. \A i \in DOMAIN got : got[i][1] # m
      <4> SUFFICES ASSUME NEW i \in DOMAIN got
                   PROVE  got[i][1] # m
        OBVIOUS
      <4>1. i \in 1..Len(air) \/ i = Len(air) + 1
        BY <1>2
      <4> QED
        BY <1>1, <1>2, <2>4, <4>1
    <3>2. got # PartsOf(m)
      <4>1. got[Len(air) + 1][1] = l
        BY <1>1, <1>2
      <4>2. Len(air) + 1 \in DOMAIN got
        BY <1>2
      <4>3. \A i \in DOMAIN PartsOf(m) : PartsOf(m)[i][1] = m
        BY DEF PartsOf
      <4> QED
        BY <2>4, <4>1, <4>2, <4>3
    <3> QED
      BY <2>1, <3>1, <3>2
  <2>5. got = PartsOf(l) => arrived'[l] = "whole"
    <3>1. l \in Line
      BY DEF Chunked
    <3> QED
      BY <2>1, <3>1
  <2> QED
    BY <1>5, <2>1, <2>2, <2>3, <2>4, <2>5 DEF got, chunk
<1> QED
  BY <1>4, <1>5

\* A transport that is opened begins with nothing written.
LEMMA LinesOpened ==
  ASSUME begun' = {}, writing' = {}, sent' = [l \in Line |-> 0], air' = <<>>,
         arrived' = [l \in Line |-> "no"], crossed' = {}, cut' = FALSE
  PROVE  Lines'
<1>1. air' \in Seq(Line \X Nat) /\ DOMAIN air' = {}
  BY EmptySeq
<1>2. Chunked'
  BY <1>1 DEF Chunked
<1>3. Unmixed'
  BY <1>1 DEF Unmixed, Alone
<1> QED
  BY <1>2, <1>3 DEF Lines

\* A write that begins while another is in progress crosses it.
LEMMA LinesWrite ==
  ASSUME Lines, NEW l \in Line, Write(l)
  PROVE  Lines'
<1>1. /\ l \notin begun /\ begun' = begun \cup {l} /\ writing' = writing \cup {l}
      /\ crossed' = IF writing = {} THEN crossed ELSE crossed \cup writing \cup {l}
      /\ sent' = sent /\ air' = air /\ arrived' = arrived /\ cut' = cut
  BY DEF Write
<1>2. Chunked'
  <2>1. sent[l] = 0 /\ 0 < Chunks[l]
    BY <1>1, PartsLength DEF Lines, Chunked
  <2> QED
    BY <1>1, <2>1 DEF Lines, Chunked
<1>3. ASSUME ~cut
      PROVE  Unmixed'
  <2>1. Unmixed /\ Chunked
    BY <1>3 DEF Lines
  <2>2. ASSUME NEW m \in Line \ crossed'
        PROVE  Alone(m)'
    <3>1. m \in Line \ crossed
      BY <1>1, <2>2
    <3>2. Alone(m)
      BY <2>1, <3>1 DEF Unmixed
    <3>3. CASE writing = {}
      <4>1. air = <<>> /\ sent[l] = 0 /\ arrived \in [Line -> {"no", "whole", "broken"}]
        BY <1>1, <2>1, <3>3 DEF Unmixed, Chunked
      <4>2. air = [i \in 1..sent[l] |-> <<l, i>>]
        BY <4>1
      <4>3. CASE m = l
        BY <1>1, <3>2, <3>3, <4>2, <4>3 DEF Alone
      <4>4. CASE m # l
        BY <1>1, <3>2, <3>3, <4>4 DEF Alone
      <4> QED
        BY <4>3, <4>4
    <3>4. CASE writing # {}
      <4>1. m \notin writing /\ m # l
        BY <1>1, <2>2, <3>4
      <4> QED
        BY <1>1, <3>2, <4>1 DEF Alone
    <3> QED
      BY <3>3, <3>4
  <2> QED
    BY <1>1, <2>1, <2>2 DEF Unmixed
<1> QED
  BY <1>1, <1>2, <1>3 DEF Lines

\* The last chunk of a line empties the air: with all of a line that was alone the
\* device has it whole.
LEMMA LinesTaken ==
  ASSUME Lines, NEW l \in Line, ChunkTaken(l)
  PROVE  Lines'
<1>1. /\ l \in writing
      /\ sent' = [sent EXCEPT ![l] = sent[l] + 1]
      /\ Receive(<<l, sent[l] + 1>>)
      /\ writing' = IF sent[l] + 1 = Chunks[l] THEN writing \ {l} ELSE writing
      /\ begun' = begun /\ crossed' = crossed /\ cut' = cut
  BY DEF ChunkTaken, LastChunk
<1>2. /\ Chunked /\ cut \in BOOLEAN
      /\ sent[l] \in Nat /\ Chunks[l] \in Nat /\ sent[l] < Chunks[l]
  BY <1>1, PartsLength DEF Lines, Chunked
<1>3. /\ air' \in Seq(Line \X Nat)
      /\ arrived' \in [Line -> {"no", "whole", "broken"}]
      /\ sent[l] + 1 < Chunks[l] => air' = Append(air, <<l, sent[l] + 1>>) /\ arrived' = arrived
      /\ ~(sent[l] + 1 < Chunks[l]) =>
           /\ air' = <<>>
           /\ \A m \in Line : (m # l /\ \A i \in DOMAIN air : air[i][1] # m) =>
                                arrived'[m] = arrived[m]
           /\ Append(air, <<l, sent[l] + 1>>) = PartsOf(l) => arrived'[l] = "whole"
  BY <1>1, <1>2, Received
<1>4. Chunked'
  <2>1. sent' \in [Line -> Nat]
    BY <1>1, <1>2 DEF Chunked
  <2>2. \A m \in Line : m \notin begun' => sent'[m] = 0
    BY <1>1, <1>2 DEF Chunked
  <2>3. ASSUME NEW m \in writing'
        PROVE  sent'[m] < Chunks[m]
    <3>1. CASE m = l
      <4>1. sent[l] + 1 # Chunks[l] /\ sent'[l] = sent[l] + 1
        BY <1>1, <1>2, <2>3, <3>1 DEF Chunked
      <4> QED
        BY <1>2, <3>1, <4>1
    <3>2. CASE m # l
      BY <1>1, <1>2, <2>3, <3>2 DEF Chunked
    <3> QED
      BY <3>1, <3>2
  <2>4. writing' \subseteq begun' /\ begun' \subseteq Line
    BY <1>1, <1>2 DEF Chunked
  <2> QED
    BY <1>3, <2>1, <2>2, <2>3, <2>4 DEF Chunked
<1>5. ASSUME ~cut
      PROVE  Unmixed'
  <2>1. Unmixed
    BY <1>5 DEF Lines
  <2>2. /\ Len(air) \in Nat /\ DOMAIN air = 1..Len(air)
        /\ Append(air, <<l, sent[l] + 1>>) \in Seq(Line \X Nat)
        /\ Len(Append(air, <<l, sent[l] + 1>>)) = Len(air) + 1
        /\ DOMAIN Append(air, <<l, sent[l] + 1>>) = 1..(Len(air) + 1)
        /\ \A i \in 1..Len(air) : Append(air, <<l, sent[l] + 1>>)[i] = air[i]
        /\ Append(air, <<l, sent[l] + 1>>)[Len(air) + 1] = <<l, sent[l] + 1>>
    <3>1. <<l, sent[l] + 1>> \in Line \X Nat /\ air \in Seq(Line \X Nat)
      BY <1>2 DEF Chunked
    <3> QED
      BY <3>1, LenProperties, AppendProperties
  <2>3. l \notin crossed =>
          /\ writing = {l} /\ arrived[l] = "no"
          /\ Append(air, <<l, sent[l] + 1>>) = [i \in 1..(sent[l] + 1) |-> <<l, i>>]
    <3> SUFFICES ASSUME l \notin crossed
                 PROVE  /\ writing = {l} /\ arrived[l] = "no"
                        /\ Append(air, <<l, sent[l] + 1>>) = [i \in 1..(sent[l] + 1) |-> <<l, i>>]
      OBVIOUS
    <3> DEFINE got == Append(air, <<l, sent[l] + 1>>)
               all == [i \in 1..(sent[l] + 1) |-> <<l, i>>]
    <3>1. writing = {l} /\ arrived[l] = "no" /\ air = [i \in 1..sent[l] |-> <<l, i>>]
      BY <1>1, <2>1 DEF Unmixed, Alone
    <3>2. Len(air) = sent[l]
      BY <1>2, <2>2, <3>1
    <3>3. DOMAIN got = 1..(sent[l] + 1) /\ got = [i \in DOMAIN got |-> got[i]]
      BY <2>2, <3>2
    <3>4. ASSUME NEW i \in 1..(sent[l] + 1)
          PROVE  got[i] = <<l, i>>
      <4>1. CASE i \in 1..sent[l]
        <5>1. air[i] = <<l, i>>
          BY <3>1, <4>1
        <5>2. got[i] = air[i]
          BY <2>2, <3>2, <4>1
        <5> QED
          BY <5>1, <5>2
      <4>2. CASE i = sent[l] + 1
        <5>1. got[Len(air) + 1] = <<l, sent[l] + 1>>
          BY <2>2
        <5>2. Len(air) + 1 = i /\ sent[l] + 1 = i
          BY <3>2, <4>2
        <5> HIDE DEF got
        <5> QED
          BY <5>1, <5>2
      <4>3. i \in 1..sent[l] \/ i = sent[l] + 1
        BY <1>2
      <4> QED
        BY <4>1, <4>2, <4>3
    <3> HIDE DEF got
    <3>5. got = all
      BY <3>3, <3>4
    <3> QED
      BY <3>1, <3>5 DEF got
  <2>4. CASE sent[l] + 1 < Chunks[l]
    <3>1. writing' = writing /\ air' = Append(air, <<l, sent[l] + 1>>) /\ arrived' = arrived
      BY <1>1, <1>2, <1>3, <2>4
    <3>2. ASSUME NEW i \in DOMAIN air'
          PROVE  air'[i][1] \in writing'
      <4>1. i \in 1..Len(air) \/ i = Len(air) + 1
        BY <2>2, <3>1, <3>2
      <4> QED
        BY <1>1, <2>1, <2>2, <3>1, <4>1 DEF Unmixed
    <3>3. ASSUME NEW m \in Line \ crossed'
          PROVE  Alone(m)'
      <4>1. Alone(m)
        BY <1>1, <2>1, <3>3 DEF Unmixed
      <4>2. CASE m = l
        <5>1. sent'[l] = sent[l] + 1
          BY <1>1, <1>2 DEF Chunked
        <5>2. air' = [i \in 1..sent'[l] |-> <<l, i>>]
          BY <1>1, <2>3, <3>1, <3>3, <4>2, <5>1
        <5> QED
          BY <1>1, <3>1, <4>1, <4>2, <5>2 DEF Alone
      <4>3. CASE m # l
        <5>1. m \notin writing
          BY <1>1, <4>1, <4>3 DEF Alone
        <5> QED
          BY <1>1, <3>1, <4>1, <5>1 DEF Alone
      <4> QED
        BY <4>2, <4>3
    <3> QED
      BY <1>1, <3>1, <3>2, <3>3 DEF Unmixed
  <2>5. CASE ~(sent[l] + 1 < Chunks[l])
    <3>1. sent[l] + 1 = Chunks[l] /\ writing' = writing \ {l} /\ air' = <<>>
      BY <1>1, <1>2, <1>3, <2>5
    <3>2. DOMAIN air' = {}
      BY <3>1
    <3>3. ASSUME NEW m \in Line \ crossed'
          PROVE  Alone(m)'
      <4>1. Alone(m)
        BY <1>1, <2>1, <3>3 DEF Unmixed
      <4>2. CASE m = l
        <5>1. Append(air, <<l, sent[l] + 1>>) = PartsOf(l)
          BY <1>1, <2>3, <3>1, <3>3, <4>2 DEF PartsOf
        <5>2. arrived'[l] = "whole"
          BY <1>3, <2>5, <5>1
        <5> QED
          BY <1>1, <1>2, <3>1, <4>2, <5>2 DEF Alone, Chunked
      <4>3. CASE m # l
        <5>1. m \notin writing
          BY <1>1, <4>1, <4>3 DEF Alone
        <5>2. \A i \in DOMAIN air : air[i][1] # m
          BY <2>1, <5>1 DEF Unmixed
        <5>3. arrived'[m] = arrived[m]
          BY <1>3, <2>5, <4>3, <5>2
        <5> QED
          BY <1>1, <3>1, <4>1, <5>1, <5>3 DEF Alone
      <4> QED
        BY <4>2, <4>3
    <3> QED
      BY <3>1, <3>2, <3>3 DEF Unmixed
  <2> QED
    BY <2>4, <2>5
<1> QED
  BY <1>1, <1>2, <1>4, <1>5 DEF Lines

LEMMA LinesNext == Lines /\ [Next]_vars => Lines'
<1> SUFFICES ASSUME Lines, [Next]_vars
             PROVE  Lines'
  OBVIOUS
<1>1. ASSUME UNCHANGED outbound
      PROVE  Lines'
  BY <1>1 DEF outbound, Lines, Chunked, Unmixed, Alone
<1>2. ASSUME UNCHANGED <<begun, sent, air, arrived, crossed>>,
             writing' = {}, cut' = (cut \/ writing # {})
      PROVE  Lines'
  <2>1. Chunked' /\ cut' \in BOOLEAN
    BY <1>2 DEF Lines, Chunked
  <2>2. CASE cut \/ writing # {}
    <3>1. cut'
      BY <1>2, <2>2
    <3> QED
      BY <2>1, <3>1 DEF Lines
  <2>3. CASE ~cut /\ writing = {}
    <3>1. Unmixed
      BY <2>3 DEF Lines
    <3>2. Unmixed'
      BY <1>2, <2>3, <3>1 DEF Unmixed, Alone
    <3> QED
      BY <2>1, <3>2 DEF Lines
  <2> QED
    BY <2>2, <2>3
<1>3. ASSUME NEW l \in Line, ChunkRefused(l)
      PROVE  Lines'
  <2>1. writing' = writing \ {l} /\ cut' = TRUE /\ UNCHANGED <<begun, sent, air, arrived, crossed>>
    BY <1>3 DEF ChunkRefused
  <2>2. Chunked'
    BY <2>1 DEF Lines, Chunked
  <2> QED
    BY <2>1, <2>2 DEF Lines
<1>4. CASE Subscribed
  <2>1. /\ begun' = {} /\ writing' = {} /\ sent' = [l \in Line |-> 0] /\ air' = <<>>
        /\ arrived' = [l \in Line |-> "no"] /\ crossed' = {} /\ cut' = FALSE
    BY <1>4 DEF Subscribed
  <2> QED
    BY <2>1, LinesOpened
<1>5. CASE CloseCompletes \/ Disconnected
  BY <1>2, <1>5 DEF CloseCompletes, Disconnected
<1>6. CASE \/ PoweredOn \/ ScanDone \/ ScanResolves \/ ScanBegins \/ Discovered \/ Connects
           \/ ConnectGoesOn \/ ConnectFails \/ Close \/ Notified \/ UNCHANGED vars
  BY <1>1, <1>6 DEF PoweredOn, ScanDone, ScanResolves, ScanBegins, Discovered, Connects,
                    ConnectGoesOn, ConnectFails, Close, Notified, vars, outbound
<1> QED
  BY <1>3, <1>4, <1>5, <1>6, LinesWrite, LinesTaken DEF Next, CentralStep

\* BleTransport.write sends a line chunk after chunk: however many lines there are
\* and however long they are, one is mangled only by another whose chunks came
\* between its own, or after a write broke off.
THEOREM OnlyCrossedLinesMangled == Spec => []OnlyOverlapMangles
<1>1. Init => Lines
  <2> SUFFICES ASSUME Init
               PROVE  Lines
    OBVIOUS
  <2>1. air \in Seq(Line \X Nat) /\ DOMAIN air = {}
    BY EmptySeq DEF Init
  <2>2. Chunked
    BY <2>1 DEF Init, Chunked
  <2>3. Unmixed
    BY <2>1 DEF Init, Unmixed, Alone
  <2> QED
    BY <2>2, <2>3 DEF Init, Lines
<1>2. Lines => OnlyOverlapMangles
  BY DEF Lines, Chunked, Unmixed, Alone, OnlyOverlapMangles
<1> QED
  BY <1>1, <1>2, LinesNext, PTL DEF Spec

-----------------------------------------------------------------------------
(* The framer                                                              *)
(*                                                                         *)
(* How long a notification is nobody knows, so what a framer makes of it   *)
(* takes an induction over its bytes.  It is done by contradiction: a set  *)
(* of numbers has a least element, and the least byte that breaks the      *)
(* promise did not.                                                        *)

\* From the library: the naturals are well founded.
LEMMA LeastNumber ==
  ASSUME NEW T \in SUBSET Nat, T # {}
  PROVE  \E m \in T : \A k \in T : ~(k < m)
<1> DEFINE R == OpToRel(<, Nat)
<1>1. IsWellFoundedOn(R, Nat)
  BY NatLessThanWellFounded
<1>2. PICK m \in T : \A k \in T : ~(<<k, m>> \in R)
  <2> HIDE DEF R
  <2> QED BY <1>1, WFMin, Zenon
<1>3. \A k \in T : k < m => <<k, m>> \in R
  BY DEF OpToRel
<1>4. \A k \in T : ~(k < m)
  BY <1>2, <1>3, Zenon
<1> HIDE DEF R
<1> QED BY <1>4

Char == Byte \cup {Newline}

LEMMA PrefixOfAppend ==
  ASSUME NEW S, NEW s \in Seq(S), NEW x \in S,
         NEW k \in 1 .. Len(s) + 1, NEW i \in 0 .. Len(s)
  PROVE  SubSeq(Append(s, x), k, i) = SubSeq(s, k, i)
<1> DEFINE t == Append(s, x)
           a == SubSeq(t, k, i)
           b == SubSeq(s, k, i)
<1>1. /\ t \in Seq(S) /\ Len(t) = Len(s) + 1
      /\ \A j \in 1 .. Len(s) : t[j] = s[j]
  BY AppendProperties
<1>2. Len(s) \in Nat
  BY LenProperties
<1>3. /\ \A j \in k .. i : s[j] \in S
      /\ \A j \in k .. i : t[j] = s[j]
  BY <1>1, <1>2, ElementOfSeq
<1> HIDE DEF t
<1>4. /\ b \in Seq(S) /\ Len(b) = IF k <= i THEN i - k + 1 ELSE 0
      /\ \A j \in 1 .. i - k + 1 : b[j] = s[k + j - 1]
  BY <1>2, <1>3, SubSeqProperties
<1>5. /\ a \in Seq(S) /\ Len(a) = IF k <= i THEN i - k + 1 ELSE 0
      /\ \A j \in 1 .. i - k + 1 : a[j] = t[k + j - 1]
  BY <1>1, <1>2, <1>3, SubSeqProperties
<1> HIDE DEF a, b
<1>6. \A j \in 1 .. Len(a) : a[j] = b[j]
  <2> SUFFICES ASSUME NEW j \in 1 .. Len(a) PROVE a[j] = b[j]
    OBVIOUS
  <2>1. j \in 1 .. i - k + 1 /\ k + j - 1 \in k .. i
    BY <1>2, <1>5
  <2> QED BY <2>1, <1>3, <1>4, <1>5
<1>7. a = b
  BY <1>4, <1>5, <1>6, SeqEqual
<1> QED BY <1>7 DEF a, b, t

LEMMA EndOfAppend ==
  ASSUME NEW S, NEW s \in Seq(S), NEW x \in S, NEW k \in 1 .. Len(s) + 1
  PROVE  SubSeq(Append(s, x), k, Len(s) + 1) = Append(SubSeq(s, k, Len(s)), x)
<1> DEFINE t == Append(s, x)
           n == Len(s)
<1>1. /\ t \in Seq(S) /\ Len(t) = n + 1 /\ t[n + 1] = x
      /\ \A j \in 1 .. n : t[j] = s[j]
  BY AppendProperties
<1>2. n \in Nat
  BY LenProperties
<1>3. /\ \A j \in k .. n : s[j] \in S
      /\ \A j \in k .. n + 1 : t[j] \in S
  BY <1>1, <1>2, ElementOfSeq
<1> HIDE DEF t, n
<1> DEFINE a == SubSeq(t, k, n + 1)
           c == SubSeq(s, k, n)
           b == Append(c, x)
<1>4. /\ c \in Seq(S) /\ Len(c) = n - k + 1
      /\ \A j \in 1 .. n - k + 1 : c[j] = s[k + j - 1]
  BY <1>2, <1>3, SubSeqProperties DEF n
<1>5. /\ a \in Seq(S) /\ Len(a) = n - k + 2
      /\ \A j \in 1 .. n - k + 2 : a[j] = t[k + j - 1]
  BY <1>2, <1>3, SubSeqProperties DEF n
<1> HIDE DEF c, a
<1>6. /\ b \in Seq(S) /\ Len(b) = Len(c) + 1 /\ b[Len(c) + 1] = x
      /\ \A j \in 1 .. Len(c) : b[j] = c[j]
  <2>1. c \in Seq(S)
    BY <1>4
  <2>2. b \in Seq(S) /\ Len(b) = Len(c) + 1
    BY <2>1, AppendProperties
  <2>3. b[Len(c) + 1] = x
    BY <2>1, AppendProperties
  <2>4. \A j \in 1 .. Len(c) : b[j] = c[j]
    BY <2>1, AppendProperties
  <2> QED BY <2>2, <2>3, <2>4
<1> HIDE DEF b
<1>7. \A j \in 1 .. Len(a) : a[j] = b[j]
  <2> SUFFICES ASSUME NEW j \in 1 .. Len(a) PROVE a[j] = b[j]
    OBVIOUS
  <2>1. j \in 1 .. n - k + 1 \/ j = n - k + 2
    BY <1>2, <1>5
  <2>2. CASE j \in 1 .. n - k + 1
    <3>1. k + j - 1 \in 1 .. n /\ j \in 1 .. Len(c)
      BY <2>2, <1>2, <1>4 DEF n
    <3>2. a[j] = t[k + j - 1] /\ c[j] = s[k + j - 1]
      BY <2>2, <1>2, <1>4, <1>5
    <3> QED BY <3>1, <3>2, <1>1, <1>6
  <2>3. CASE j = n - k + 2
    BY <2>3, <1>1, <1>2, <1>4, <1>5, <1>6 DEF n
  <2> QED BY <2>1, <2>2, <2>3
<1>8. Len(a) = Len(b)
  BY <1>2, <1>4, <1>5, <1>6 DEF n
<1>9. a = b
  BY <1>5, <1>6, <1>7, <1>8, SeqEqual
<1> QED BY <1>9 DEF a, b, c, n, t

LEMMA StandsKept ==
  ASSUME NEW s \in Seq(Char), NEW x \in Char, NEW r, NEW i \in 1 .. Len(s) + 1,
         StandsBefore(r, s, i)
  PROVE  StandsBefore(r, Append(s, x), i)
<1>1. /\ Len(s) \in Nat
      /\ \A j \in 1 .. Len(s) : Append(s, x)[j] = s[j]
  BY AppendProperties, LenProperties
<1>2. PICK k \in 0 .. i - 1 :
        /\ k = 0 \/ s[k] = Newline
        /\ \A j \in k + 1 .. i - 1 : s[j] # Newline
        /\ r = SubSeq(s, k + 1, i - 1)
  BY DEF StandsBefore
<1>3. k + 1 \in 1 .. Len(s) + 1 /\ i - 1 \in 0 .. Len(s)
  BY <1>1
<1>4. r = SubSeq(Append(s, x), k + 1, i - 1)
  <2>1. SubSeq(Append(s, x), k + 1, i - 1) = SubSeq(s, k + 1, i - 1)
    BY <1>3, PrefixOfAppend, Zenon
  <2> QED BY <2>1, <1>2, Zenon
<1>5. k = 0 \/ Append(s, x)[k] = Newline
  BY <1>1, <1>2
<1>6. \A j \in k + 1 .. i - 1 : Append(s, x)[j] # Newline
  BY <1>1, <1>2
<1> QED BY <1>4, <1>5, <1>6 DEF StandsBefore

LEMMA StandsLonger ==
  ASSUME NEW s \in Seq(Char), NEW x \in Char, x # Newline, NEW r,
         StandsBefore(r, s, Len(s) + 1)
  PROVE  StandsBefore(Append(r, x), Append(s, x), Len(s) + 2)
<1> DEFINE t == Append(s, x)
<1>1. /\ Len(s) \in Nat /\ t[Len(s) + 1] = x
      /\ \A j \in 1 .. Len(s) : t[j] = s[j]
  BY AppendProperties, LenProperties
<1> HIDE DEF t
<1>2. PICK k \in 0 .. Len(s) :
        /\ k = 0 \/ s[k] = Newline
        /\ \A j \in k + 1 .. Len(s) : s[j] # Newline
        /\ r = SubSeq(s, k + 1, Len(s))
  <2>1. \A k : k \in 0 .. Len(s) + 1 - 1 <=> k \in 0 .. Len(s)
    BY <1>1
  <2>2. Len(s) + 1 - 1 = Len(s)
    BY <1>1
  <2> QED BY <2>1, <2>2 DEF StandsBefore
<1>3. k + 1 \in 1 .. Len(s) + 1
  BY <1>1
<1>4. Append(r, x) = SubSeq(t, k + 1, Len(s) + 1)
  <2>1. t = Append(s, x) /\ x \in Char /\ s \in Seq(Char)
    BY DEF t
  <2>2. SubSeq(t, k + 1, Len(s) + 1) = Append(SubSeq(s, k + 1, Len(s)), x)
    BY <2>1, <1>3, EndOfAppend, Zenon
  <2> QED BY <2>2, <1>2, Zenon
<1>5. k = 0 \/ t[k] = Newline
  BY <1>1, <1>2
<1>6. \A j \in k + 1 .. Len(s) + 1 : t[j] # Newline
  <2>1. \A j \in k + 1 .. Len(s) + 1 : j \in k + 1 .. Len(s) \/ j = Len(s) + 1
    BY <1>1
  <2>2. \A j \in k + 1 .. Len(s) : j \in 1 .. Len(s)
    BY <1>1
  <2> QED BY <1>1, <1>2, <2>1, <2>2
<1>7. k \in 0 .. (Len(s) + 2) - 1 /\ (Len(s) + 2) - 1 = Len(s) + 1
  BY <1>1
<1>8. StandsBefore(Append(r, x), t, Len(s) + 2)
  BY <1>4, <1>5, <1>6, <1>7 DEF StandsBefore
<1> QED BY <1>8 DEF t

LEMMA StandsNothing ==
  ASSUME NEW s \in Seq(Char)
  PROVE  StandsBefore(<<>>, Append(s, Newline), Len(s) + 2)
<1> DEFINE t == Append(s, Newline)
<1>1. Len(s) \in Nat /\ t[Len(s) + 1] = Newline
  BY AppendProperties, LenProperties DEF Char
<1>2. /\ Len(s) + 1 \in 0 .. (Len(s) + 2) - 1 /\ (Len(s) + 2) - 1 = Len(s) + 1
      /\ Len(s) + 1 + 1 > Len(s) + 1
      /\ Len(s) + 1 + 1 .. Len(s) + 1 = {}
  BY <1>1
<1>3. SubSeq(t, Len(s) + 1 + 1, Len(s) + 1) = <<>>
  BY <1>1, <1>2, SubSeqEmpty
<1> HIDE DEF t
<1>4. StandsBefore(<<>>, t, Len(s) + 2)
  BY <1>1, <1>2, <1>3 DEF StandsBefore
<1> QED BY <1>4 DEF t

\* What follows the last newline is empty just when the text is, or ends in one.
LEMMA RestEmpty ==
  ASSUME NEW s \in Seq(Char), NEW r, StandsBefore(r, s, Len(s) + 1)
  PROVE  /\ r \in Seq(Char)
         /\ r = <<>> <=> Len(s) = 0 \/ s[Len(s)] = Newline
<1> DEFINE n == Len(s)
<1>1. n \in Nat /\ \A j \in 1 .. n : s[j] \in Char
  BY LenProperties, ElementOfSeq
<1>2. PICK k \in 0 .. n :
        /\ k = 0 \/ s[k] = Newline
        /\ \A j \in k + 1 .. n : s[j] # Newline
        /\ r = SubSeq(s, k + 1, n)
  <2>1. \A k : k \in 0 .. n + 1 - 1 <=> k \in 0 .. n
    BY <1>1
  <2>2. n + 1 - 1 = n
    BY <1>1
  <2> QED BY <2>1, <2>2 DEF StandsBefore
<1> HIDE DEF n
<1>3. r \in Seq(Char) /\ Len(r) = IF k + 1 <= n THEN n - k ELSE 0
  <2>1. k + 1 \in Int /\ n \in Int /\ \A j \in k + 1 .. n : s[j] \in Char
    BY <1>1
  <2>2. r \in Seq(Char) /\ Len(r) = IF k + 1 <= n THEN n - (k + 1) + 1 ELSE 0
    <3>1. /\ SubSeq(s, k + 1, n) \in Seq(Char)
          /\ Len(SubSeq(s, k + 1, n)) = IF k + 1 <= n THEN n - (k + 1) + 1 ELSE 0
      BY <2>1, SubSeqProperties, Zenon
    <3> QED BY <3>1, <1>2, Zenon
  <2> QED BY <2>2, <1>1
<1>4. r = <<>> <=> Len(r) = 0
  BY <1>3, EmptySeq
<1>5. r = <<>> <=> k = n
  BY <1>1, <1>3, <1>4
<1>6. k = n => n = 0 \/ s[n] = Newline
  BY <1>2
<1>7. k # n => n # 0 /\ s[n] # Newline
  BY <1>1, <1>2
<1> QED BY <1>3, <1>5, <1>6, <1>7 DEF n

LEMMA EndsOfAppend ==
  ASSUME NEW s \in Seq(Char), NEW x \in Char
  PROVE  LineEnds(Append(s, x)) = LineEnds(s) \cup
            IF x = Newline /\ Len(s) # 0 /\ s[Len(s)] # Newline
            THEN {Len(s) + 1} ELSE {}
<1> DEFINE t == Append(s, x)
           n == Len(s)
<1>1. /\ n \in Nat /\ Len(t) = n + 1 /\ t[n + 1] = x
      /\ \A j \in 1 .. n : t[j] = s[j]
  BY AppendProperties, LenProperties
<1> HIDE DEF t, n
<1>2. LineEnds(t) = {i \in 2 .. n + 1 : t[i] = Newline /\ t[i - 1] # Newline}
  BY <1>1 DEF LineEnds
<1>3. LineEnds(s) = {i \in 2 .. n : s[i] = Newline /\ s[i - 1] # Newline}
  BY DEF LineEnds, n
<1>4. \A i \in 2 .. n : t[i] = s[i] /\ t[i - 1] = s[i - 1]
  BY <1>1
<1>5. \A i \in 2 .. n : i \in LineEnds(t) <=> i \in LineEnds(s)
  BY <1>1, <1>2, <1>3, <1>4
<1>6. n + 1 \in LineEnds(t) <=> x = Newline /\ n # 0 /\ s[n] # Newline
  <2>1. n # 0 => t[n + 1 - 1] = s[n]
    BY <1>1
  <2>2. n # 0 <=> n + 1 \in 2 .. n + 1
    BY <1>1
  <2> QED BY <1>1, <1>2, <2>1, <2>2
<1>7. LineEnds(t) \subseteq 2 .. n + 1 /\ LineEnds(s) \subseteq 2 .. n
  BY <1>2, <1>3
<1>8. \A i \in 2 .. n + 1 : i \in 2 .. n \/ i = n + 1
  BY <1>1
<1>9. n + 1 \notin 2 .. n
  BY <1>1
<1>10. LineEnds(t) = LineEnds(s) \cup
          IF x = Newline /\ n # 0 /\ s[n] # Newline THEN {n + 1} ELSE {}
  BY <1>5, <1>6, <1>7, <1>8, <1>9
<1> QED BY <1>10 DEF t, n

LEMMA EndsFinite ==
  ASSUME NEW s \in Seq(Char)
  PROVE  /\ LineEnds(s) \subseteq 2 .. Len(s) /\ Len(s) \in Nat
         /\ IsFiniteSet(LineEnds(s))
         /\ \A i : IsFiniteSet({e \in LineEnds(s) : e <= i})
<1>1. LineEnds(s) \subseteq 2 .. Len(s) /\ Len(s) \in Nat
  BY LenProperties DEF LineEnds
<1>2. IsFiniteSet(LineEnds(s))
  <2>1. IsFiniteSet(2 .. Len(s))
    BY <1>1, FS_Interval
  <2> QED BY <1>1, <2>1, FS_Subset
<1>3. \A i : IsFiniteSet({e \in LineEnds(s) : e <= i})
  <2> TAKE i
  <2>1. {e \in LineEnds(s) : e <= i} \subseteq LineEnds(s)
    OBVIOUS
  <2> QED BY <1>2, <2>1, FS_Subset
<1> QED BY <1>1, <1>2, <1>3

\* A byte that ends no line with something in it leaves the lines as they are.
LEMMA FramedWithoutEnd ==
  ASSUME NEW s \in Seq(Char), NEW x \in Char, NEW lines, NEW r, NEW q,
         Framed(s, lines, r),
         LineEnds(Append(s, x)) = LineEnds(s),
         StandsBefore(q, Append(s, x), Len(s) + 2)
  PROVE  Framed(Append(s, x), lines, q)
<1> DEFINE t == Append(s, x)
           K(i) == Cardinality({e \in LineEnds(s) : e <= i})
<1>1. /\ Len(lines) = Cardinality(LineEnds(s))
      /\ \A i \in LineEnds(s) : StandsBefore(lines[K(i)], s, i)
  BY DEF Framed
<1>2. \A i \in LineEnds(s) : StandsBefore(lines[K(i)], t, i)
  <2> SUFFICES ASSUME NEW i \in LineEnds(s)
               PROVE  StandsBefore(lines[K(i)], t, i)
    OBVIOUS
  <2> HIDE DEF K
  <2>1. i \in 1 .. Len(s) + 1
    BY EndsFinite
  <2> QED BY <1>1, <2>1, StandsKept, Zenon
<1>3. Len(t) + 1 = Len(s) + 2
  BY AppendProperties, LenProperties
<1> HIDE DEF t
<1>4. LineEnds(t) = LineEnds(s) /\ StandsBefore(q, t, Len(t) + 1)
  BY <1>3 DEF t
<1>5. Framed(t, lines, q)
  BY <1>1, <1>2, <1>4, Zenon DEF Framed
<1> QED BY <1>5 DEF t

\* A newline after something ends one more line.
LEMMA FramedWithEnd ==
  ASSUME NEW s \in Seq(Char), NEW lines \in Seq(Seq(Char)), NEW r,
         Framed(s, lines, r), r # <<>>
  PROVE  Framed(Append(s, Newline), Append(lines, r), <<>>)
<1> DEFINE t == Append(s, Newline)
           n == Len(s)
           more == Append(lines, r)
           E == LineEnds(s)
<1>1. /\ Len(lines) = Cardinality(E)
      /\ \A i \in E : StandsBefore(lines[Cardinality({e \in E : e <= i})], s, i)
      /\ StandsBefore(r, s, n + 1)
  BY DEF Framed
<1>2. r \in Seq(Char) /\ n # 0 /\ s[n] # Newline
  <2>1. StandsBefore(r, s, Len(s) + 1)
    BY <1>1
  <2>2. r \in Seq(Char) /\ (r = <<>> <=> Len(s) = 0 \/ s[Len(s)] = Newline)
    BY <2>1, RestEmpty
  <2> QED BY <2>2
<1>3. Newline \in Char
  BY DEF Char
<1>4. LineEnds(t) = E \cup {n + 1}
  BY <1>2, <1>3, EndsOfAppend
<1>5. E \subseteq 2 .. n /\ n \in Nat /\ IsFiniteSet(E)
  BY EndsFinite
<1>6. /\ Len(t) = n + 1 /\ more \in Seq(Seq(Char)) /\ Len(more) = Len(lines) + 1
      /\ more[Len(lines) + 1] = r
      /\ \A i \in 1 .. Len(lines) : more[i] = lines[i]
  BY <1>2, <1>3, AppendProperties
<1>7. StandsBefore(<<>>, t, n + 2) /\ StandsBefore(r, t, n + 1)
  <2>1. StandsBefore(<<>>, t, n + 2)
    BY StandsNothing
  <2>2. n + 1 \in 1 .. n + 1
    BY <1>5
  <2>3. StandsBefore(r, t, n + 1)
    BY <1>1, <1>3, <2>2, StandsKept, Zenon
  <2> QED BY <2>1, <2>3
<1>8. \A i \in E : StandsBefore(lines[Cardinality({e \in E : e <= i})], t, i)
  <2> SUFFICES ASSUME NEW i \in E
               PROVE  StandsBefore(lines[Cardinality({e \in E : e <= i})], t, i)
    OBVIOUS
  <2>1. i \in 1 .. n + 1
    BY <1>5
  <2> QED BY <1>1, <1>3, <2>1, StandsKept, Zenon
<1>9. Len(lines) \in Nat
  BY LenProperties
<1> HIDE DEF t, n, more, E
<1>10. Cardinality(LineEnds(t)) = Cardinality(E) + 1 /\ Cardinality(E) \in Nat
  <2>1. n + 1 \notin E
    BY <1>5
  <2> QED BY <1>4, <1>5, <2>1, FS_AddElement, FS_CardinalityType
<1>11. \A i \in E : /\ {e \in LineEnds(t) : e <= i} = {e \in E : e <= i}
                    /\ Cardinality({e \in E : e <= i}) \in 1 .. Len(lines)
  <2> SUFFICES ASSUME NEW i \in E
               PROVE  /\ {e \in LineEnds(t) : e <= i} = {e \in E : e <= i}
                      /\ Cardinality({e \in E : e <= i}) \in 1 .. Len(lines)
    OBVIOUS
  <2>1. i \in 2 .. n
    BY <1>5
  <2>2. {e \in LineEnds(t) : e <= i} = {e \in E : e <= i}
    BY <1>4, <1>5, <2>1
  <2> DEFINE U == {e \in E : e <= i}
  <2>3. U \subseteq E /\ i \in U
    BY <2>1
  <2> HIDE DEF U
  <2>4. IsFiniteSet(U) /\ Cardinality(U) <= Cardinality(E)
    BY <1>5, <2>3, FS_Subset
  <2>5. Cardinality(U) \in Nat /\ Cardinality(U) # 0
    BY <2>3, <2>4, FS_EmptySet, FS_CardinalityType
  <2>6. Cardinality(U) \in 1 .. Len(lines)
    BY <1>1, <1>10, <2>4, <2>5
  <2> QED BY <2>2, <2>6 DEF U
<1>12. {e \in LineEnds(t) : e <= n + 1} = LineEnds(t)
  <2>1. \A e \in LineEnds(t) : e <= n + 1
    <3> SUFFICES ASSUME NEW e \in LineEnds(t) PROVE e <= n + 1
      OBVIOUS
    <3>1. e \in 2 .. n \/ e = n + 1
      BY <1>4, <1>5
    <3> QED BY <3>1, <1>5
  <2> QED BY <2>1
<1>13. \A i \in LineEnds(t) :
          StandsBefore(more[Cardinality({e \in LineEnds(t) : e <= i})], t, i)
  <2> SUFFICES ASSUME NEW i \in LineEnds(t)
      PROVE  StandsBefore(more[Cardinality({e \in LineEnds(t) : e <= i})], t, i)
    OBVIOUS
  <2>1. CASE i \in E
    <3>1. more[Cardinality({e \in LineEnds(t) : e <= i})]
            = lines[Cardinality({e \in E : e <= i})]
      BY <2>1, <1>6, <1>11, Zenon
    <3> QED BY <3>1, <2>1, <1>8, Zenon
  <2>2. CASE i = n + 1
    <3>1. Cardinality({e \in LineEnds(t) : e <= i}) = Len(lines) + 1
      <4>1. {e \in LineEnds(t) : e <= i} = LineEnds(t)
        BY <2>2, <1>12, Zenon
      <4> QED BY <4>1, <1>1, <1>10
    <3>2. more[Cardinality({e \in LineEnds(t) : e <= i})] = r
      BY <3>1, <1>6, Zenon
    <3> QED BY <3>2, <2>2, <1>7, Zenon
  <2> QED BY <2>1, <2>2, <1>4
<1>14. Len(more) = Cardinality(LineEnds(t))
  BY <1>1, <1>6, <1>10
<1>15. Len(t) + 1 = n + 2
  BY <1>5, <1>6
<1>16. Framed(t, more, <<>>)
  BY <1>7, <1>13, <1>14, <1>15, Zenon DEF Framed
<1> QED BY <1>16 DEF t, more

\* The framer's state after each byte of a notification.
Steps(g, first, chunk, n) ==
  g = [i \in 0 .. n |-> IF i = 0 THEN first ELSE PushByte(g[i - 1], chunk[i])]

LEMMA StepsExist ==
  ASSUME NEW first, NEW chunk, NEW n \in Nat
  PROVE  \E g : Steps(g, first, chunk, n)
<1> DEFINE T == {m \in Nat : ~ \E g : Steps(g, first, chunk, m)}
<1> SUFFICES ASSUME T # {} PROVE FALSE
  OBVIOUS
<1>1. PICK m \in T : \A k \in T : ~(k < m)
  <2>1. T \in SUBSET Nat
    OBVIOUS
  <2> HIDE DEF T
  <2> QED BY <2>1, LeastNumber, Zenon
<1>2. m \in Nat /\ ~ \E g : Steps(g, first, chunk, m)
  OBVIOUS
<1>3. CASE m = 0
  <2> DEFINE g == [i \in 0 .. 0 |-> first]
  <2>1. g = [i \in 0 .. 0 |-> IF i = 0 THEN first ELSE PushByte(g[i - 1], chunk[i])]
    OBVIOUS
  <2>2. Steps(g, first, chunk, 0)
    BY <2>1 DEF Steps
  <2> QED BY <2>2, <1>2, <1>3
<1>4. CASE m # 0
  <2>1. m - 1 \in Nat /\ m - 1 < m
    BY <1>2, <1>4
  <2>2. PICK g : Steps(g, first, chunk, m - 1)
    BY <1>1, <2>1
  <2> DEFINE h == [i \in 0 .. m |-> IF i = m THEN PushByte(g[m - 1], chunk[m]) ELSE g[i]]
  <2>3. \A i \in 0 .. m - 1 : g[i] = IF i = 0 THEN first ELSE PushByte(g[i - 1], chunk[i])
    BY <2>2 DEF Steps
  <2>4. \A i \in 0 .. m : h[i] = IF i = 0 THEN first ELSE PushByte(h[i - 1], chunk[i])
    <3> SUFFICES ASSUME NEW i \in 0 .. m
                 PROVE  h[i] = IF i = 0 THEN first ELSE PushByte(h[i - 1], chunk[i])
      OBVIOUS
    <3>1. CASE i = m
      <4>1. h[i] = PushByte(g[m - 1], chunk[m]) /\ h[i - 1] = g[m - 1]
        BY <3>1, <2>1, <1>4
      <4> QED BY <4>1, <3>1, <1>4
    <3>2. CASE i # m
      <4>1. i \in 0 .. m - 1 /\ h[i] = g[i] /\ (i # 0 => h[i - 1] = g[i - 1])
        BY <3>2, <1>2
      <4> QED BY <4>1, <2>3
    <3> QED BY <3>1, <3>2
  <2>5. h = [i \in 0 .. m |-> h[i]]
    OBVIOUS
  <2> HIDE DEF h
  <2>6. h = [i \in 0 .. m |-> IF i = 0 THEN first ELSE PushByte(h[i - 1], chunk[i])]
    BY <2>4, <2>5
  <2>7. Steps(h, first, chunk, m)
    BY <2>6 DEF Steps
  <2> QED BY <2>7, <1>2
<1> QED BY <1>3, <1>4

LEMMA PushIsLastStep ==
  ASSUME NEW first, NEW chunk, Len(chunk) \in Nat
  PROVE  \E g : /\ Steps(g, first, chunk, Len(chunk))
                /\ PushBytes(first, chunk) = g[Len(chunk)]
<1> DEFINE f == CHOOSE g : g = [n \in 0 .. Len(chunk) |->
                   IF n = 0 THEN first ELSE PushByte(g[n - 1], chunk[n])]
<1>1. PushBytes(first, chunk) = f[Len(chunk)]
  BY DEF PushBytes
<1>2. \E g : g = [n \in 0 .. Len(chunk) |->
                   IF n = 0 THEN first ELSE PushByte(g[n - 1], chunk[n])]
  <2>1. PICK g : Steps(g, first, chunk, Len(chunk))
    BY StepsExist
  <2>2. g = [n \in 0 .. Len(chunk) |->
                   IF n = 0 THEN first ELSE PushByte(g[n - 1], chunk[n])]
    BY <2>1, Zenon DEF Steps
  <2> QED BY <2>2, Zenon
<1>3. f = [n \in 0 .. Len(chunk) |->
                   IF n = 0 THEN first ELSE PushByte(f[n - 1], chunk[n])]
  BY <1>2, Zenon
<1> HIDE DEF f
<1> QED BY <1>1, <1>3 DEF Steps

Framer == [rest : Seq(Char), lines : Seq(Seq(Char))]

LEMMA AppendToConcat ==
  ASSUME NEW S, NEW s \in Seq(S), NEW a \in Seq(S), NEW x \in S
  PROVE  /\ Append(a, x) \in Seq(S)
         /\ s \o Append(a, x) = Append(s \o a, x)
<1>1. Append(a, x) \in Seq(S) /\ Append(a, x) = a \o <<x>> /\ s \o a \in Seq(S)
  BY AppendProperties, AppendIsConcat, ConcatProperties
<1>2. Append(s \o a, x) = (s \o a) \o <<x>>
  BY <1>1, AppendIsConcat, Zenon
<1>3. <<x>> \in Seq(S)
  OBVIOUS
<1>4. (s \o a) \o <<x>> = s \o (a \o <<x>>)
  BY <1>3, ConcatAssociative
<1> QED BY <1>1, <1>2, <1>4, Zenon

LEMMA FramerRecord ==
  ASSUME NEW r \in Seq(Char), NEW l \in Seq(Seq(Char)), NEW p,
         p = [rest |-> r, lines |-> l]
  PROVE  p \in Framer /\ p.rest = r /\ p.lines = l
  BY DEF Framer

\* One byte keeps the framer's promise, whatever lines it gave before.
LEMMA FramedByte ==
  ASSUME NEW s \in Seq(Char), NEW given \in Seq(Seq(Char)), NEW f \in Framer,
         NEW x \in Char, Framed(s, given \o f.lines, f.rest)
  PROVE  /\ PushByte(f, x) \in Framer
         /\ Framed(Append(s, x), given \o PushByte(f, x).lines, PushByte(f, x).rest)
<1> DEFINE p == PushByte(f, x)
           n == Len(s)
           all == given \o f.lines
<1>1. f.rest \in Seq(Char) /\ f.lines \in Seq(Seq(Char)) /\ f = [rest |-> f.rest, lines |-> f.lines]
  BY DEF Framer
<1>2. all \in Seq(Seq(Char))
  BY <1>1, ConcatProperties
<1>3. /\ StandsBefore(f.rest, s, n + 1)
      /\ f.rest = <<>> <=> n = 0 \/ s[n] = Newline
  <2>1. StandsBefore(f.rest, s, Len(s) + 1)
    BY Zenon DEF Framed
  <2>2. f.rest = <<>> <=> n = 0 \/ s[n] = Newline
    BY <2>1, RestEmpty
  <2> QED BY <2>1, <2>2
<1>4. CASE x # Newline
  <2>1. p = [rest |-> Append(f.rest, x), lines |-> f.lines]
    BY <1>4, <1>1 DEF PushByte, Framer
  <2>2. LineEnds(Append(s, x)) = LineEnds(s)
    BY <1>4, EndsOfAppend
  <2>3. StandsBefore(Append(f.rest, x), Append(s, x), Len(s) + 2)
    BY <1>3, <1>4, StandsLonger, Zenon
  <2>4. Framed(Append(s, x), all, Append(f.rest, x))
    BY <2>2, <2>3, FramedWithoutEnd, Zenon
  <2>5. Append(f.rest, x) \in Seq(Char)
    BY <1>1, AppendProperties
  <2> HIDE DEF p
  <2>6. p \in Framer /\ p.lines = f.lines /\ p.rest = Append(f.rest, x)
    <3> DEFINE q == Append(f.rest, x)
    <3>1. p = [rest |-> q, lines |-> f.lines] /\ q \in Seq(Char)
      BY <2>1, <2>5
    <3> HIDE DEF q
    <3>2. p \in Framer /\ p.lines = f.lines /\ p.rest = q
      BY <3>1, <1>1, FramerRecord
    <3> QED BY <3>2 DEF q
  <2> QED BY <2>4, <2>6, Zenon DEF p
<1>5. CASE x = Newline /\ f.rest = <<>>
  <2>1. p = [rest |-> <<>>, lines |-> f.lines]
    BY <1>5 DEF PushByte
  <2>2. LineEnds(Append(s, x)) = LineEnds(s)
    BY <1>3, <1>5, EndsOfAppend
  <2>3. StandsBefore(<<>>, Append(s, x), Len(s) + 2)
    BY <1>5, StandsNothing, Zenon
  <2>4. Framed(Append(s, x), all, <<>>)
    BY <2>2, <2>3, FramedWithoutEnd, Zenon
  <2> HIDE DEF p
  <2>5. p \in Framer /\ p.lines = f.lines /\ p.rest = <<>>
    BY <2>1, <1>1, <1>5, FramerRecord, Zenon
  <2> QED BY <2>4, <2>5, Zenon DEF p
<1>6. CASE x = Newline /\ f.rest # <<>>
  <2>1. p = [rest |-> <<>>, lines |-> Append(f.lines, f.rest)]
    BY <1>6 DEF PushByte
  <2>2. Framed(Append(s, Newline), Append(all, f.rest), <<>>)
    BY <1>2, <1>6, FramedWithEnd, Zenon
  <2>3. /\ Append(f.lines, f.rest) \in Seq(Seq(Char))
        /\ given \o Append(f.lines, f.rest) = Append(all, f.rest)
    BY <1>1, AppendToConcat
  <2>4. <<>> \in Seq(Char)
    BY EmptySeq
  <2> HIDE DEF p
  <2>5. p \in Framer /\ p.lines = Append(f.lines, f.rest) /\ p.rest = <<>>
    <3> DEFINE q == Append(f.lines, f.rest)
    <3>1. p = [rest |-> <<>>, lines |-> q] /\ q \in Seq(Seq(Char))
      BY <2>1, <2>3
    <3> HIDE DEF q
    <3>2. p \in Framer /\ p.lines = q /\ p.rest = <<>>
      BY <3>1, <2>4, FramerRecord
    <3> QED BY <3>2 DEF q
  <2> QED BY <2>2, <2>3, <2>5, <1>6, Zenon DEF p
<1> QED BY <1>4, <1>5, <1>6, Zenon

\* So does a notification: the least byte after which it were broken would have
\* broken it.
LEMMA FramedPush ==
  ASSUME NEW s \in Seq(Char), NEW given \in Seq(Seq(Char)), NEW b,
         NEW chunk \in Seq(Char), Framed(s, given, b)
  PROVE  /\ Push(b, chunk) \in Framer
         /\ Framed(s \o chunk, given \o Push(b, chunk).lines, Push(b, chunk).rest)
<1> DEFINE first == [rest |-> b, lines |-> <<>>]
           N == Len(chunk)
<1>1. N \in Nat /\ \A i \in 1 .. N : chunk[i] \in Char
  BY LenProperties, ElementOfSeq
<1>2. PICK g : Steps(g, first, chunk, N) /\ PushBytes(first, chunk) = g[N]
  <2> HIDE DEF first
  <2> QED BY <1>1, PushIsLastStep
<1>3. Push(b, chunk) = g[N]
  BY <1>2, Zenon DEF Push
<1>4. g[0] = first
  BY <1>1, <1>2 DEF Steps
<1>5. \A i \in 1 .. N : g[i] = PushByte(g[i - 1], chunk[i])
  <2> HIDE DEF first
  <2> QED BY <1>1, <1>2 DEF Steps
<1>6. first \in Framer /\ first.lines = <<>> /\ first.rest = b
  <2>1. b \in Seq(Char)
    BY RestEmpty, Zenon DEF Framed
  <2>2. <<>> \in Seq(Seq(Char))
    BY EmptySeq
  <2> QED BY <2>1, <2>2 DEF Framer
<1> DEFINE Kept(m) == /\ g[m] \in Framer
                      /\ Framed(s \o SubSeq(chunk, 1, m), given \o g[m].lines, g[m].rest)
           T == {m \in 0 .. N : ~ Kept(m)}
<1>7. Kept(0)
  <2>1. SubSeq(chunk, 1, 0) = <<>>
    BY SubSeqEmpty
  <2>2. s \o <<>> = s /\ given \o <<>> = given
    BY ConcatEmptySeq
  <2> HIDE DEF first
  <2> QED BY <2>1, <2>2, <1>4, <1>6, Zenon
<1>8. ASSUME NEW m \in 1 .. N, Kept(m - 1) PROVE Kept(m)
  <2>1. m \in 1 .. N /\ m - 1 \in 0 .. N /\ m - 1 <= N /\ m \in Nat /\ chunk[m] \in Char
    BY <1>1
  <2> DEFINE a == SubSeq(chunk, 1, m - 1)
  <2>2. a \in Seq(Char)
    BY <2>1, <1>1, SubSeqProperties
  <2>3. SubSeq(chunk, 1, m) = a \o <<chunk[m]>>
    <3>1. 1 \in 1 .. Len(chunk) /\ m \in 1 .. Len(chunk)
      BY <2>1, <1>1
    <3> QED BY <3>1, SubSeqRecursiveSecond
  <2>4. SubSeq(chunk, 1, m) = Append(a, chunk[m])
    <3> HIDE DEF a
    <3> QED BY <2>1, <2>2, <2>3, AppendIsConcat, Zenon
  <2> HIDE DEF a
  <2>5. s \o SubSeq(chunk, 1, m) = Append(s \o a, chunk[m]) /\ s \o a \in Seq(Char)
    <3>1. s \o Append(a, chunk[m]) = Append(s \o a, chunk[m])
      BY <2>1, <2>2, AppendToConcat
    <3>2. s \o a \in Seq(Char)
      BY <2>2, ConcatProperties
    <3> QED BY <3>1, <3>2, <2>4, Zenon
  <2>6. g[m - 1] \in Framer /\ Framed(s \o a, given \o g[m - 1].lines, g[m - 1].rest)
    BY <1>8, Zenon DEF a
  <2>7. g[m] = PushByte(g[m - 1], chunk[m])
    BY <1>5, <2>1, Zenon
  <2>8. /\ PushByte(g[m - 1], chunk[m]) \in Framer
        /\ Framed(Append(s \o a, chunk[m]), given \o PushByte(g[m - 1], chunk[m]).lines,
                  PushByte(g[m - 1], chunk[m]).rest)
    BY <2>1, <2>5, <2>6, FramedByte, Zenon
  <2> QED BY <2>5, <2>7, <2>8, Zenon
<1>9. Kept(N)
  <2> HIDE DEF Kept
  <2> SUFFICES ASSUME T # {} PROVE FALSE
    BY <1>1
  <2>1. PICK m \in T : \A k \in T : ~(k < m)
    <3>1. T \in SUBSET Nat
      BY <1>1
    <3> HIDE DEF T
    <3> QED BY <3>1, LeastNumber, Zenon
  <2>2. m \in 0 .. N /\ ~ Kept(m)
    OBVIOUS
  <2>3. m # 0
    BY <2>2, <1>7
  <2>4. m - 1 \in 0 .. N /\ m - 1 < m /\ m \in 1 .. N
    BY <1>1, <2>2, <2>3
  <2>5. Kept(m - 1)
    BY <2>1, <2>4
  <2> QED BY <2>2, <2>4, <2>5, <1>8
<1>10. SubSeq(chunk, 1, N) = chunk
  BY SubSeqFull
<1> QED BY <1>3, <1>9, <1>10, Zenon

\* The promise itself, with the types of what it speaks of, is inductive.
FramerInv == /\ text \in Seq(Char) /\ out \in Seq(Seq(Char))
             /\ FramerAgrees

LEMMA FramedNothing == Framed(<<>>, <<>>, <<>>)
<1> DEFINE E == LineEnds(<<>>)
<1>1. Len(<<>>) = 0
  OBVIOUS
<1>2. E = {}
  BY <1>1 DEF LineEnds
<1>3. StandsBefore(<<>>, <<>>, 1)
  <2>1. SubSeq(<<>>, 1, 0) = <<>>
    BY SubSeqEmpty
  <2>2. 0 \in 0 .. 1 - 1 /\ 0 + 1 = 1 /\ 1 - 1 = 0 /\ 1 .. 0 = {}
    OBVIOUS
  <2> QED BY <2>1, <2>2 DEF StandsBefore
<1>4. Cardinality(E) = 0
  BY <1>2, FS_EmptySet
<1>5. StandsBefore(<<>>, <<>>, Len(<<>>) + 1)
  BY <1>1, <1>3
<1> HIDE DEF E
<1>6. Len(<<>>) = Cardinality(E)
  BY <1>1, <1>4
<1> QED BY <1>2, <1>5, <1>6, Zenon DEF Framed, E

\* A notification may have any length and end anywhere in a line.
LEMMA NotifiedKeeps == ASSUME FramerInv, Notified PROVE FramerInv'
<1>1. PICK n \in 1 .. MaxText - Len(text) : \E chunk \in [1 .. n -> Byte \cup {Newline}] :
        /\ text' = text \o chunk /\ buffer' = Push(buffer, chunk).rest
        /\ out' = out \o Push(buffer, chunk).lines
  BY Zenon DEF Notified
<1>2. PICK chunk \in [1 .. n -> Byte \cup {Newline}] :
        /\ text' = text \o chunk /\ buffer' = Push(buffer, chunk).rest
        /\ out' = out \o Push(buffer, chunk).lines
  BY <1>1
<1>3. chunk \in Seq(Char)
  <2>1. n \in Nat
    BY BoundsAssumption, LenProperties DEF FramerInv
  <2> QED BY <2>1 DEF Char
<1> DEFINE p == Push(buffer, chunk)
<1>4. p \in Framer /\ Framed(text \o chunk, out \o p.lines, p.rest)
  BY <1>3, FramedPush, Zenon DEF FramerInv, FramerAgrees
<1>5. p.lines \in Seq(Seq(Char))
  BY <1>4 DEF Framer
<1> HIDE DEF p
<1>6. text \o chunk \in Seq(Char) /\ out \o p.lines \in Seq(Seq(Char))
  BY <1>3, <1>5, ConcatProperties DEF FramerInv
<1>7. text' = text \o chunk /\ buffer' = p.rest /\ out' = out \o p.lines
  BY <1>2, Zenon DEF p
<1>8. Framed(text', out', buffer')
  BY <1>4, <1>7, Zenon
<1> QED BY <1>6, <1>7, <1>8, Zenon DEF FramerInv, FramerAgrees

LEMMA FramerNext == FramerInv /\ [Next]_vars => FramerInv'
<1> SUFFICES ASSUME FramerInv, [Next]_vars PROVE FramerInv'
  OBVIOUS
<1>1. CASE Subscribed
  <2>1. text' = <<>> /\ out' = <<>> /\ buffer' = <<>>
    BY <1>1 DEF Subscribed
  <2>2. Framed(text', out', buffer')
    BY <2>1, FramedNothing, Zenon
  <2>3. text' \in Seq(Char) /\ out' \in Seq(Seq(Char))
    BY <2>1, EmptySeq
  <2> QED BY <2>2, <2>3, Zenon DEF FramerInv, FramerAgrees
<1>2. CASE UNCHANGED inbound
  <2>1. text' = text /\ buffer' = buffer /\ out' = out
    BY <1>2 DEF inbound
  <2> QED BY <2>1, Zenon DEF FramerInv, FramerAgrees
<1>3. UNCHANGED inbound \/ Subscribed \/ Notified
  BY DEF Next, CentralStep, PoweredOn, ScanDone, ScanResolves, ScanBegins,
         Discovered, Connects, ConnectGoesOn, ConnectFails, Close, CloseCompletes,
         Disconnected, Write, ChunkTaken, ChunkRefused, vars
<1> QED BY <1>1, <1>2, <1>3, NotifiedKeeps

\* Whatever bytes the device sends and however its notifications cut them up, the
\* session gets exactly the lines that stand in the text, each once and in order
\* (NdjsonFramer.push, BleTransport's 'data').
THEOREM LinesCutRight == Spec => []FramerAgrees
<1>1. Init => FramerInv
  BY FramedNothing, EmptySeq DEF Init, FramerInv, FramerAgrees
<1>2. FramerInv => FramerAgrees
  BY DEF FramerInv
<1> QED BY <1>1, <1>2, FramerNext, PTL DEF Spec

-----------------------------------------------------------------------------
(* The promise leaves no choice *)

LEMMA StandsAlone ==
  ASSUME NEW s \in Seq(Char), NEW i \in 1 .. Len(s) + 1, NEW x, NEW y,
         StandsBefore(x, s, i), StandsBefore(y, s, i)
  PROVE  x = y
<1>1. PICK k \in 0 .. i - 1 :
        /\ k = 0 \/ s[k] = Newline
        /\ \A j \in k + 1 .. i - 1 : s[j] # Newline
        /\ x = SubSeq(s, k + 1, i - 1)
  BY DEF StandsBefore
<1>2. PICK m \in 0 .. i - 1 :
        /\ m = 0 \/ s[m] = Newline
        /\ \A j \in m + 1 .. i - 1 : s[j] # Newline
        /\ y = SubSeq(s, m + 1, i - 1)
  BY DEF StandsBefore
<1>3. i \in Nat /\ k \in Nat /\ m \in Nat
  BY LenProperties
<1>4. ~(k < m)
  <2> SUFFICES ASSUME k < m PROVE FALSE
    OBVIOUS
  <2>1. m # 0 /\ m \in k + 1 .. i - 1
    BY <1>3
  <2> QED BY <2>1, <1>1, <1>2
<1>5. ~(m < k)
  <2> SUFFICES ASSUME m < k PROVE FALSE
    OBVIOUS
  <2>1. k # 0 /\ k \in m + 1 .. i - 1
    BY <1>3
  <2> QED BY <2>1, <1>1, <1>2
<1>6. k = m
  BY <1>3, <1>4, <1>5
<1> QED BY <1>1, <1>2, <1>6, Zenon

\* Counting the elements up to each of a set of numbers reaches every number up
\* to its size.
LEMMA CountReaches ==
  ASSUME NEW E, IsFiniteSet(E), NEW n \in Nat, E \subseteq 1 .. n,
         NEW j \in 1 .. Cardinality(E)
  PROVE  \E i \in E : Cardinality({e \in E : e <= i}) = j
<1> DEFINE U(m) == {e \in E : e <= m}
           T == {m \in Nat : j <= Cardinality(U(m))}
<1>1. Cardinality(E) \in Nat /\ j \in Nat /\ j # 0 /\ j <= Cardinality(E)
  BY FS_CardinalityType
<1>2. \A m : IsFiniteSet(U(m)) /\ Cardinality(U(m)) \in Nat
  <2> TAKE m
  <2>1. U(m) \subseteq E
    OBVIOUS
  <2> HIDE DEF U
  <2> QED BY <2>1, FS_Subset, FS_CardinalityType
<1>3. U(n) = E /\ U(0) = {}
  <2>1. \A e \in E : e \in 1 .. n
    OBVIOUS
  <2>2. \A e \in E : e <= n /\ ~(e <= 0)
    BY <2>1
  <2> QED BY <2>2
<1>4. n \in T /\ 0 \notin T
  <2>1. Cardinality(U(0)) = 0
    BY <1>3, FS_EmptySet
  <2> HIDE DEF U
  <2> QED BY <1>1, <1>3, <2>1
<1>5. PICK m \in T : \A k \in T : ~(k < m)
  <2>1. T \in SUBSET Nat /\ T # {}
    BY <1>4
  <2> HIDE DEF T
  <2> QED BY <2>1, LeastNumber, Zenon
<1>6. m \in Nat /\ m - 1 \in Nat /\ m - 1 \notin T
  <2>1. m \in Nat /\ m # 0
    BY <1>4
  <2>2. m - 1 \in Nat /\ m - 1 < m
    BY <2>1
  <2> QED BY <2>1, <2>2, <1>5
<1>7. /\ m \notin U(m - 1)
      /\ m \in E => U(m) = U(m - 1) \cup {m}
      /\ m \notin E => U(m) = U(m - 1)
  <2>1. \A e \in E : e \in Nat
    OBVIOUS
  <2>2. \A e \in E : e <= m <=> e <= m - 1 \/ e = m
    BY <1>6, <2>1
  <2>3. ~(m <= m - 1)
    BY <1>6
  <2>4. m \notin U(m - 1)
    BY <2>3
  <2>5. m \in E => U(m) = U(m - 1) \cup {m}
    BY <2>2
  <2>6. m \notin E => U(m) = U(m - 1)
    BY <2>2
  <2> QED BY <2>4, <2>5, <2>6
<1>8. ~(j <= Cardinality(U(m - 1))) /\ j <= Cardinality(U(m))
  BY <1>5, <1>6
<1> HIDE DEF U, T
<1>9. m \in E
  BY <1>7, <1>8, Zenon
<1>10. Cardinality(U(m)) = Cardinality(U(m - 1)) + 1
  BY <1>2, <1>7, <1>9, FS_AddElement
<1>11. Cardinality(U(m)) = j
  BY <1>1, <1>2, <1>8, <1>10
<1> QED BY <1>9, <1>11 DEF U

\* What FramerAgrees says of the lines and of the buffer determines both: they
\* are a function of what the device sent, and of nothing in how it was cut.
THEOREM FramedOneWay ==
  ASSUME NEW s \in Seq(Char), NEW l1 \in Seq(Seq(Char)), NEW l2 \in Seq(Seq(Char)),
         NEW r1, NEW r2, Framed(s, l1, r1), Framed(s, l2, r2)
  PROVE  l1 = l2 /\ r1 = r2
<1> DEFINE E == LineEnds(s)
           K(i) == Cardinality({e \in E : e <= i})
<1>1. /\ Len(l1) = Cardinality(E) /\ Len(l2) = Cardinality(E)
      /\ \A i \in E : StandsBefore(l1[K(i)], s, i) /\ StandsBefore(l2[K(i)], s, i)
      /\ StandsBefore(r1, s, Len(s) + 1) /\ StandsBefore(r2, s, Len(s) + 1)
  BY DEF Framed
<1>2. E \subseteq 2 .. Len(s) /\ Len(s) \in Nat /\ IsFiniteSet(E)
  BY EndsFinite
<1>3. r1 = r2
  <2>1. Len(s) + 1 \in 1 .. Len(s) + 1
    BY <1>2
  <2> QED BY <1>1, <2>1, StandsAlone, Zenon
<1>4. ASSUME NEW j \in 1 .. Len(l1) PROVE l1[j] = l2[j]
  <2>1. E \subseteq 1 .. Len(s) /\ j \in 1 .. Cardinality(E)
    BY <1>1, <1>2
  <2>2. PICK i \in E : K(i) = j
    <3> HIDE DEF E
    <3> QED BY <1>2, <2>1, CountReaches, Zenon DEF K
  <2> HIDE DEF K
  <2>3. StandsBefore(l1[j], s, i) /\ StandsBefore(l2[j], s, i)
    BY <1>1, <2>2, Zenon
  <2>4. i \in 1 .. Len(s) + 1
    BY <1>2
  <2> QED BY <2>3, <2>4, StandsAlone, Zenon
<1>5. l1 = l2
  <2>1. Len(l1) = Len(l2)
    BY <1>1
  <2> QED BY <2>1, <1>4, SeqEqual
<1> QED BY <1>3, <1>5
=============================================================================
