------------------------ MODULE SessionAggregatorProofs ------------------------
(***************************************************************************)
(* Proofs about SessionAggregator, for any processes, sessions and number  *)
(* of ticks in flight: badges, the tables of slots, the frames and what    *)
(* the display shows.                                                      *)
(***************************************************************************)
EXTENDS SessionAggregator, SequenceTheorems, TLAPS

-----------------------------------------------------------------------------
(* Badges.  The order of slots, the foreground and what is sent stay opaque: no *)
(* badge depends on them.                                                    *)

\* Activities and frames are functions, and a stored frame is made of its slot's
\* activity.
BadgeInv ==
  /\ activity = [s \in Slot |-> activity[s]]
  /\ frame = [s \in Slot |-> frame[s]]
  /\ \A s \in Slot :
       frame[s] # NoFrame => frame[s] = [late |-> frame[s].late, activity |-> activity[s]]

LEMMA BadgeInit == AggInit => BadgeInv
  BY DEF AggInit, BadgeInv

\* A tick that finishes stores the activity it finds then, not the one it began
\* with; a slot that is gone is not written.
LEMMA BadgeFinished ==
  ASSUME BadgeInv, NEW s, NEW late, NEW sel, NEW ord,
         Finished(s, late, sel, ord, frame), activity' = activity
  PROVE  BadgeInv'
<1>1. frame' = frame \/ frame' = [frame EXCEPT ![s] = [late |-> late, activity |-> activity[s]]]
  BY DEF Finished
<1>2. frame' = [x \in Slot |-> frame'[x]]
  BY <1>1 DEF BadgeInv
<1>3. ASSUME NEW x \in Slot
      PROVE  frame'[x] = frame[x] \/ (frame'[x] = [late |-> late, activity |-> activity[x]])
  BY <1>1, <1>3 DEF BadgeInv
<1>4. ASSUME NEW x \in Slot, frame'[x] # NoFrame
      PROVE  frame'[x] = [late |-> frame'[x].late, activity |-> activity'[x]]
  <2>1. CASE frame'[x] = frame[x]
    BY <2>1, <1>4 DEF BadgeInv
  <2>2. CASE frame'[x] = [late |-> late, activity |-> activity[x]]
    BY <2>2
  <2>. QED BY <2>1, <2>2, <1>3, <1>4
<1>. QED BY <1>2, <1>4 DEF BadgeInv

\* A hook writes the same activity to the slot and to its frame.
LEMMA BadgeHook ==
  ASSUME BadgeInv, NEW s \in Slot, NEW next, Badge(s, next)
  PROVE  BadgeInv'
<1>1. /\ activity' = [activity EXCEPT ![s] = next]
      /\ frame' = IF frame[s] = NoFrame THEN frame ELSE [frame EXCEPT ![s].activity = next]
  BY DEF Badge
<1>2. activity' = [x \in Slot |-> activity'[x]] /\ frame' = [x \in Slot |-> frame'[x]]
  BY <1>1 DEF BadgeInv
<1>3. ASSUME NEW x \in Slot, frame'[x] # NoFrame
      PROVE  frame'[x] = [late |-> frame'[x].late, activity |-> activity'[x]]
  <2>1. CASE x # s
    <3>1. frame'[x] = frame[x] /\ activity'[x] = activity[x]
      BY <1>1, <2>1 DEF BadgeInv
    <3>. QED BY <3>1, <1>3 DEF BadgeInv
  <2>2. CASE x = s /\ frame[s] = NoFrame
    BY <2>2, <1>1, <1>3
  <2>3. CASE x = s /\ frame[s] # NoFrame
    <3>1. frame[s] = [late |-> frame[s].late, activity |-> activity[s]]
      BY <2>3 DEF BadgeInv
    <3>2. frame'[s] = [frame[s] EXCEPT !.activity = next]
      BY <1>1, <2>3 DEF BadgeInv
    <3>3. frame'[s] = [late |-> frame[s].late, activity |-> next]
      BY <3>1, <3>2
    <3>4. activity'[s] = next
      BY <1>1 DEF BadgeInv
    <3>. QED BY <3>3, <3>4, <2>3
  <2>. QED BY <2>1, <2>2, <2>3
<1>. QED BY <1>2, <1>3 DEF BadgeInv

\* A step that forgets slots resets their activity and their frame together.
LEMMA BadgeForgotten ==
  ASSUME BadgeInv, NEW E,
         activity' = [s \in Slot |-> IF s \in E THEN "working" ELSE activity[s]],
         frame' = [s \in Slot |-> IF s \in E THEN NoFrame ELSE frame[s]]
  PROVE  BadgeInv'
  BY DEF BadgeInv

LEMMA BadgeNext == BadgeInv /\ [AggNext]_aggVars => BadgeInv'
<1>. SUFFICES ASSUME BadgeInv, [AggNext]_aggVars
              PROVE  BadgeInv'
  OBVIOUS
<1>1. ASSUME NEW p \in Pid \cup {NoPid}, NEW x \in Sid \cup {NoSid}, NEW atOnce \in BOOLEAN,
             Ingest(p, x, atOnce)
      PROVE  BadgeInv'
  <2>1. CASE atOnce
    <3>1. Finished(SlotKey(p, x), FALSE, selected, order', frame) /\ activity' = activity
      BY <1>1, <2>1 DEF Ingest
    <3>. QED BY <3>1, BadgeFinished
  <2>2. CASE ~atOnce
    <3>1. UNCHANGED <<activity, frame>>
      BY <1>1, <2>2 DEF Ingest
    <3>. QED BY <3>1 DEF BadgeInv
  <2>. QED BY <2>1, <2>2
<1>2. ASSUME NEW i \in DOMAIN ticks, GitAnswers(i)
      PROVE  BadgeInv'
  <2>1. Finished(ticks[i].slot, ticks[i].late, selected, order, frame) /\ activity' = activity
    BY <1>2 DEF GitAnswers, tables
  <2>. QED BY <2>1, BadgeFinished
<1>3. ASSUME NEW ev \in HookEvents, NEW x \in Sid \cup {NoSid}, IngestHookEvent(ev, x)
      PROVE  BadgeInv'
  <2>1. CASE SlotForHook(x) \in Slot
    <3>1. Badge(SlotForHook(x), HookToActivity(ev, activity[SlotForHook(x)]))
      BY <1>3 DEF IngestHookEvent
    <3>. QED BY <2>1, <3>1, BadgeHook
  <2>2. CASE SlotForHook(x) \notin Slot
    <3>1. Badge(SlotForHook(x), HookToActivity(ev, activity[SlotForHook(x)]))
      BY <1>3 DEF IngestHookEvent
    <3>2. activity' = activity
      BY <3>1, <2>2 DEF Badge, BadgeInv
    <3>3. frame' = frame
      BY <3>1, <2>2 DEF Badge, BadgeInv
    <3>. QED BY <3>2, <3>3 DEF BadgeInv
  <2>. QED BY <2>1, <2>2
<1>4. ASSUME NEW E \in SUBSET slots, CheckLiveness(E)
      PROVE  BadgeInv'
  <2>1. /\ activity' = [s \in Slot |-> IF s \in E THEN "working" ELSE activity[s]]
        /\ frame' = [s \in Slot |-> IF s \in E THEN NoFrame ELSE frame[s]]
    BY <1>4 DEF CheckLiveness
  <2>. QED BY <2>1, BadgeForgotten
<1>5. CASE Restart
  BY <1>5 DEF Restart, BadgeInv
<1>6. CASE (\E s \in Slot : Tap(s)) \/ DeviceLost \/ DisplayFallsBack \/ DeviceBack \/ UNCHANGED aggVars
  <2>1. UNCHANGED <<activity, frame>>
    BY <1>6 DEF Tap, DeviceLost, DisplayFallsBack, DeviceBack, aggVars, tables
  <2>. QED BY <2>1 DEF BadgeInv
<1>. QED BY <1>1, <1>2, <1>3, <1>4, <1>5, <1>6 DEF AggNext

\* "Activity is sticky across statusLine ticks": whatever the order of ticks,
\* hooks and git's answers, the stored frame of a slot has the slot's badge.
THEOREM BadgesAreCurrent == AggSpec => []BadgeIsCurrent
<1>1. BadgeInv => BadgeIsCurrent
  BY DEF BadgeInv, BadgeIsCurrent
<1>. QED BY <1>1, BadgeInit, BadgeNext, PTL DEF AggSpec

-----------------------------------------------------------------------------
(* The tables of slots *)

\* However many slots have ended, some slot that is left is the first of any few.
FirstExists ==
  \A T \in SUBSET slots : T # {} => \E s \in T : \A t \in T \ {s} : <<s, t>> \in order

SlotTables ==
  /\ slots \subseteq Slot
  /\ alias \in [Sid -> Slot \cup {NoSlot}]
  /\ known \in [Slot -> SUBSET Sid]
  /\ sentIdle \in BOOLEAN
  /\ order \subseteq slots \X slots
  /\ \A s, t \in slots : <<s, t>> \in order <=> s # t /\ <<t, s>> \notin order
  /\ FirstExists
  /\ sentIdle <=> slots = {}
  /\ \A x \in Sid : alias[x] # NoSlot => alias[x] \in slots /\ x \in known[alias[x]]

LEMMA OrderGrows ==
  ASSUME SlotTables, NEW s \in Slot, slots' = slots \cup {s},
         order' = IF s \in slots THEN order ELSE order \cup (slots \X {s})
  PROVE  /\ order' \subseteq slots' \X slots'
         /\ \A u, t \in slots' : <<u, t>> \in order' <=> u # t /\ <<t, u>> \notin order'
         /\ FirstExists'
<1>1. CASE s \in slots
  BY <1>1 DEF SlotTables, FirstExists
<1>2. CASE s \notin slots
  <2>1. /\ order' \subseteq slots' \X slots'
        /\ \A u, t : <<u, t>> \in order' <=> <<u, t>> \in order \/ (u \in slots /\ t = s)
    BY <1>2 DEF SlotTables
  <2>2. ASSUME NEW u \in slots', NEW t \in slots'
        PROVE  <<u, t>> \in order' <=> u # t /\ <<t, u>> \notin order'
    BY <1>2, <2>1 DEF SlotTables
  <2>3. ASSUME NEW T \in SUBSET slots', T # {}
        PROVE  \E u \in T : \A t \in T \ {u} : <<u, t>> \in order'
    <3>1. CASE T \ {s} = {}
      BY <2>3, <3>1
    <3>2. CASE T \ {s} # {}
      <4>1. T \ {s} \in SUBSET slots
        BY <2>3
      <4>2. PICK u \in T \ {s} : \A t \in (T \ {s}) \ {u} : <<u, t>> \in order
        BY <3>2, <4>1 DEF SlotTables, FirstExists
      <4> QED
        BY <2>1, <4>1, <4>2
    <3> QED
      BY <3>1, <3>2
  <2> QED
    BY <2>1, <2>2, <2>3 DEF FirstExists
<1> QED
  BY <1>1, <1>2

LEMMA AliasRemembered ==
  ASSUME SlotTables, NEW s \in Slot, NEW x \in Sid \cup {NoSid},
         slots' = slots \cup {s}, RememberAlias(s, x)
  PROVE  /\ alias' \in [Sid -> Slot \cup {NoSlot}]
         /\ known' \in [Slot -> SUBSET Sid]
         /\ \A y \in Sid : alias'[y] # NoSlot => alias'[y] \in slots' /\ y \in known'[alias'[y]]
<1>1. CASE x = NoSid
  BY <1>1 DEF RememberAlias, SlotTables
<1>2. CASE x # NoSid
  <2>1. /\ x \in Sid /\ alias' = [alias EXCEPT ![x] = s]
        /\ known' = [known EXCEPT ![s] = known[s] \cup {x}]
    BY <1>2 DEF RememberAlias
  <2>2. alias' \in [Sid -> Slot \cup {NoSlot}] /\ known' \in [Slot -> SUBSET Sid]
    BY <2>1 DEF SlotTables
  <2>3. \A t \in Slot : known[t] \subseteq known'[t]
    BY <2>1 DEF SlotTables
  <2>4. ASSUME NEW y \in Sid, alias'[y] # NoSlot
        PROVE  alias'[y] \in slots' /\ y \in known'[alias'[y]]
    BY <2>1, <2>3, <2>4 DEF SlotTables
  <2> QED
    BY <2>2, <2>4
<1> QED
  BY <1>1, <1>2

LEMMA TablesIngest ==
  ASSUME SlotTables, NEW p \in Pid \cup {NoPid}, NEW x \in Sid \cup {NoSid},
         NEW atOnce \in BOOLEAN, Ingest(p, x, atOnce)
  PROVE  SlotTables'
<1> DEFINE s == SlotKey(p, x)
<1>1. /\ s \in Slot /\ slots' = slots \cup {s} /\ sentIdle' = FALSE
      /\ order' = IF s \in slots THEN order ELSE order \cup (slots \X {s})
      /\ RememberAlias(s, x)
  BY DEF Ingest
<1> HIDE DEF s
<1>2. slots' \subseteq Slot /\ (sentIdle' <=> slots' = {})
  BY <1>1 DEF SlotTables
<1>3. /\ order' \subseteq slots' \X slots'
      /\ \A u, t \in slots' : <<u, t>> \in order' <=> u # t /\ <<t, u>> \notin order'
      /\ FirstExists'
  BY <1>1, OrderGrows
<1>4. /\ alias' \in [Sid -> Slot \cup {NoSlot}]
      /\ known' \in [Slot -> SUBSET Sid]
      /\ \A y \in Sid : alias'[y] # NoSlot => alias'[y] \in slots' /\ y \in known'[alias'[y]]
  BY <1>1, AliasRemembered
<1>5. sentIdle' \in BOOLEAN
  BY <1>1
<1> QED
  BY <1>2, <1>3, <1>4, <1>5 DEF SlotTables

\* Only the aliases of slots that have ended are forgotten, and all of them.
LEMMA TablesLiveness ==
  ASSUME SlotTables, NEW E \in SUBSET slots, CheckLiveness(E)
  PROVE  SlotTables'
<1>1. /\ E # {} /\ slots' = slots \ E /\ order' = order \cap (slots' \X slots')
      /\ alias' = [x \in Sid |-> IF alias[x] \in E /\ x \in known[alias[x]]
                                 THEN NoSlot ELSE alias[x]]
      /\ known' = [s \in Slot |-> IF s \in E THEN {} ELSE known[s]]
  BY DEF CheckLiveness, AliasesForgotten
<1>2. /\ order' \subseteq slots' \X slots'
      /\ \A s, t \in slots' : <<s, t>> \in order' <=> <<s, t>> \in order
      /\ slots' \subseteq slots
  BY <1>1
<1>3. FirstExists'
  BY <1>2 DEF SlotTables, FirstExists
<1>4. alias' \in [Sid -> Slot \cup {NoSlot}] /\ known' \in [Slot -> SUBSET Sid]
  BY <1>1 DEF SlotTables
<1>5. ASSUME NEW x \in Sid, alias'[x] # NoSlot
      PROVE  alias'[x] \in slots' /\ x \in known'[alias'[x]]
  <2>1. alias'[x] = alias[x] /\ alias[x] \in slots /\ x \in known[alias[x]] /\ alias[x] \notin E
    BY <1>1, <1>5 DEF SlotTables
  <2> QED
    BY <1>1, <2>1 DEF SlotTables
<1>6. sentIdle' \in BOOLEAN /\ (sentIdle' <=> slots' = {})
  <2>1. slots # {} /\ sentIdle = FALSE
    BY <1>1 DEF SlotTables
  <2>2. sentIdle' = IF slots' = {} THEN TRUE ELSE sentIdle
    BY DEF CheckLiveness, AfterRemoval
  <2> QED
    BY <2>1, <2>2
<1> QED
  BY <1>1, <1>2, <1>3, <1>4, <1>5, <1>6 DEF SlotTables

LEMMA TablesNext == SlotTables /\ [AggNext]_aggVars => SlotTables'
<1> SUFFICES ASSUME SlotTables, [AggNext]_aggVars
             PROVE  SlotTables'
  OBVIOUS
<1>1. ASSUME UNCHANGED <<slots, order, alias, known, sentIdle>>
      PROVE  SlotTables'
  BY <1>1 DEF SlotTables, FirstExists
<1>2. CASE \E i \in DOMAIN ticks : GitAnswers(i)
  BY <1>1, <1>2 DEF GitAnswers, tables
<1>3. CASE \E ev \in HookEvents, x \in Sid \cup {NoSid} : IngestHookEvent(ev, x)
  BY <1>1, <1>3 DEF IngestHookEvent
<1>4. CASE (\E s \in Slot : Tap(s)) \/ DeviceLost \/ DisplayFallsBack \/ DeviceBack
             \/ UNCHANGED aggVars
  BY <1>1, <1>4 DEF Tap, DeviceLost, DisplayFallsBack, DeviceBack, aggVars, tables
<1>5. CASE Restart
  <2>1. /\ slots' = {} /\ order' = {} /\ sentIdle' = TRUE
        /\ alias' = [x \in Sid |-> NoSlot] /\ known' = [s \in Slot |-> {}]
    BY <1>5 DEF Restart
  <2> QED
    BY <2>1 DEF SlotTables, FirstExists
<1> QED
  BY <1>2, <1>3, <1>4, <1>5, TablesIngest, TablesLiveness DEF AggNext

LEMMA TablesInit == AggInit => SlotTables
  BY DEF AggInit, SlotTables, FirstExists

-----------------------------------------------------------------------------
(* Frames and the ticks in flight *)

\* Only slots that exist have frames and ticks, and one without a frame has a tick.
Frames ==
  /\ activity \in [Slot -> Activities]
  /\ frame \in [Slot -> Frame \cup {NoFrame}]
  /\ ticks \in Seq(TickRec)
  /\ \A s \in Slot : frame[s] # NoFrame => s \in slots
  /\ \A i \in DOMAIN ticks : ticks[i].slot \in slots \cup {NoSlot}
  /\ FrameComes

LEMMA NoFrameIsNone == NoFrame \notin Frame
  BY DEF NoFrame, Frame, Activities

\* Overtaking a tick changes neither its place nor its slot.
LEMMA OvertakenKeeps ==
  ASSUME NEW ts \in Seq(TickRec), NEW s
  PROVE  /\ Overtaken(ts, s) \in Seq(TickRec)
         /\ Len(Overtaken(ts, s)) = Len(ts)
         /\ DOMAIN Overtaken(ts, s) = DOMAIN ts
         /\ \A i \in DOMAIN ts : Overtaken(ts, s)[i].slot = ts[i].slot
<1>1. Len(ts) \in Nat /\ DOMAIN ts = 1..Len(ts) /\ \A i \in 1..Len(ts) : ts[i] \in TickRec
  BY LenProperties, ElementOfSeq
<1>2. \A i \in 1..Len(ts) :
        /\ Overtaken(ts, s)[i] \in TickRec
        /\ Overtaken(ts, s)[i].slot = ts[i].slot
  BY <1>1 DEF Overtaken, TickRec
<1>3. Overtaken(ts, s) = [i \in 1..Len(ts) |-> Overtaken(ts, s)[i]]
  BY <1>1 DEF Overtaken
<1>4. Overtaken(ts, s) \in Seq(TickRec)
  BY <1>1, <1>2, <1>3, IsASeq
<1>5. DOMAIN Overtaken(ts, s) = 1..Len(ts)
  BY <1>3
<1>6. Len(Overtaken(ts, s)) = Len(ts)
  BY <1>1, <1>4, <1>5, LenProperties
<1> QED
  BY <1>1, <1>2, <1>4, <1>5, <1>6

\* Taking the i-th tick out keeps the slots of the others.
LEMMA AnswerKeeps ==
  ASSUME NEW ts \in Seq(TickRec), NEW i \in DOMAIN ts,
         NEW a \in Seq(TickRec), Len(a) = i - 1, \A k \in 1..(i - 1) : a[k].slot = ts[k].slot
  PROVE  LET us == a \o SubSeq(ts, i + 1, Len(ts))
         IN /\ us \in Seq(TickRec)
            /\ \A j \in DOMAIN us : \E k \in DOMAIN ts : us[j].slot = ts[k].slot
            /\ \A k \in DOMAIN ts \ {i} : \E j \in DOMAIN us : us[j].slot = ts[k].slot
<1> DEFINE b == SubSeq(ts, i + 1, Len(ts))
           us == a \o b
<1>1. Len(ts) \in Nat /\ DOMAIN ts = 1..Len(ts) /\ i \in 1..Len(ts)
  BY LenProperties
<1>2. b \in Seq(TickRec) /\ Len(b) = Len(ts) - i /\ \A k \in 1..Len(b) : b[k] = ts[i + k]
  <2>1. i + 1 \in 1..(Len(ts) + 1) /\ Len(ts) \in i..Len(ts)
    BY <1>1
  <2> QED
    BY <1>1, <2>1, SubSeqProperties
<1> HIDE DEF b
<1>3. /\ us \in Seq(TickRec) /\ Len(us) = Len(ts) - 1
      /\ \A k \in 1..Len(us) : us[k] = IF k <= i - 1 THEN a[k] ELSE b[k - (i - 1)]
  <2>1. /\ us \in Seq(TickRec) /\ Len(us) = Len(a) + Len(b)
        /\ \A k \in 1..(Len(a) + Len(b)) : us[k] = IF k <= Len(a) THEN a[k] ELSE b[k - Len(a)]
    BY <1>2, ConcatProperties
  <2>2. Len(a) = i - 1 /\ Len(a) + Len(b) = Len(ts) - 1
    BY <1>1, <1>2
  <2> HIDE DEF us
  <2> QED
    BY <2>1, <2>2
<1> HIDE DEF us
<1>4. DOMAIN us = 1..(Len(ts) - 1)
  BY <1>3, LenProperties
<1>5. ASSUME NEW j \in 1..(Len(ts) - 1)
      PROVE  us[j].slot = IF j <= i - 1 THEN ts[j].slot ELSE ts[j + 1].slot
  <2>1. CASE j <= i - 1
    BY <1>1, <1>3, <2>1
  <2>2. CASE ~(j <= i - 1)
    <3>1. us[j] = b[j - (i - 1)] /\ j - (i - 1) \in 1..Len(b) /\ i + (j - (i - 1)) = j + 1
      BY <1>1, <1>2, <1>3, <2>2
    <3> QED
      BY <1>2, <2>2, <3>1
  <2> QED
    BY <2>1, <2>2
<1>6. \A j \in DOMAIN us : \E k \in DOMAIN ts : us[j].slot = ts[k].slot
  <2> SUFFICES ASSUME NEW j \in DOMAIN us
               PROVE  \E k \in DOMAIN ts : us[j].slot = ts[k].slot
    OBVIOUS
  <2>1. j \in 1..(Len(ts) - 1) /\ j \in DOMAIN ts /\ j + 1 \in DOMAIN ts
    BY <1>1, <1>4
  <2>2. us[j].slot = ts[j].slot \/ us[j].slot = ts[j + 1].slot
    BY <1>5, <2>1
  <2> QED
    BY <2>1, <2>2
<1>7. ASSUME NEW k \in DOMAIN ts \ {i}
      PROVE  \E j \in DOMAIN us : us[j].slot = ts[k].slot
  <2>1. CASE k < i
    BY <1>1, <1>4, <1>5, <2>1
  <2>2. CASE k > i
    <3>1. k - 1 \in 1..(Len(ts) - 1) /\ ~(k - 1 <= i - 1) /\ (k - 1) + 1 = k
      BY <1>1, <2>2
    <3> QED
      BY <1>4, <1>5, <3>1
  <2> QED
    BY <1>1, <2>1, <2>2
<1> QED
  BY <1>3, <1>6, <1>7 DEF us, b

\* The tick that finishes gives its slot a frame and leaves the other slots alone.
LEMMA FinishedFrame ==
  ASSUME Frames, NEW s \in Slot \cup {NoSlot}, NEW late \in BOOLEAN, NEW sel, NEW ord,
         Finished(s, late, sel, ord, frame)
  PROVE  /\ frame' \in [Slot -> Frame \cup {NoFrame}]
         /\ s # NoSlot => frame'[s] # NoFrame
         /\ \A t \in Slot : t # s => frame'[t] = frame[t]
<1>1. frame' = IF s = NoSlot THEN frame
               ELSE [frame EXCEPT ![s] = [late |-> late, activity |-> activity[s]]]
  BY DEF Finished
<1>2. CASE s = NoSlot
  BY <1>1, <1>2 DEF Frames
<1>3. CASE s # NoSlot
  <2>1. [late |-> late, activity |-> activity[s]] \in Frame
    BY <1>3 DEF Frames, Frame
  <2> QED
    BY <1>1, <1>3, <2>1, NoFrameIsNone DEF Frames
<1> QED
  BY <1>2, <1>3

LEMMA FramesInit == AggInit => Frames
<1> SUFFICES ASSUME AggInit
             PROVE  Frames
  OBVIOUS
<1>1. ticks \in Seq(TickRec) /\ DOMAIN ticks = {}
  BY EmptySeq DEF AggInit
<1>2. activity \in [Slot -> Activities] /\ frame \in [Slot -> Frame \cup {NoFrame}]
  BY DEF AggInit, Activities
<1> QED
  BY <1>1, <1>2 DEF AggInit, Frames, FrameComes

LEMMA HookActivity ==
  ASSUME NEW ev \in HookEvents, NEW a \in Activities
  PROVE  HookToActivity(ev, a) \in Activities
  BY DEF HookEvents, HookToActivity, Activities

\* A new slot begins with a tick in flight or with a frame.
LEMMA FramesIngest ==
  ASSUME Frames, slots \subseteq Slot, NEW p \in Pid \cup {NoPid}, NEW x \in Sid \cup {NoSid},
         NEW atOnce \in BOOLEAN, Ingest(p, x, atOnce)
  PROVE  Frames'
<1> DEFINE s == SlotKey(p, x)
<1>1. s \in Slot /\ slots' = slots \cup {s} /\ activity' = activity
  BY DEF Ingest
<1>2. CASE atOnce
  <2>1. ticks' = Overtaken(ticks, s) /\ Finished(s, FALSE, selected, order', frame)
    BY <1>2 DEF Ingest
  <2> HIDE DEF s
  <2>2. /\ frame' \in [Slot -> Frame \cup {NoFrame}] /\ frame'[s] # NoFrame
        /\ \A t \in Slot : t # s => frame'[t] = frame[t]
    <3>1. s # NoSlot /\ s \in Slot \cup {NoSlot}
      BY <1>1, SlotAssumption
    <3> QED
      BY <2>1, <3>1, FinishedFrame
  <2>3. /\ ticks' \in Seq(TickRec) /\ DOMAIN ticks' = DOMAIN ticks
        /\ \A i \in DOMAIN ticks : ticks'[i].slot = ticks[i].slot
    BY <2>1, OvertakenKeeps DEF Frames
  <2>4. \A t \in Slot : frame'[t] # NoFrame => t \in slots'
    BY <1>1, <2>2 DEF Frames
  <2>5. \A i \in DOMAIN ticks' : ticks'[i].slot \in slots' \cup {NoSlot}
    BY <1>1, <2>3 DEF Frames
  <2>6. FrameComes'
    <3> SUFFICES ASSUME NEW t \in slots', frame'[t] = NoFrame
                 PROVE  \E i \in DOMAIN ticks' : ticks'[i].slot = t
      BY DEF FrameComes, InFlight
    <3>1. t \in slots /\ t \in Slot /\ frame[t] = NoFrame
      BY <1>1, <2>2
    <3>2. PICK i \in DOMAIN ticks : ticks[i].slot = t
      BY <3>1 DEF Frames, FrameComes, InFlight
    <3> QED
      BY <2>3, <3>2
  <2> QED
    BY <1>1, <2>2, <2>3, <2>4, <2>5, <2>6 DEF Frames
<1>3. CASE ~atOnce
  <2>1. ticks' = Append(ticks, [slot |-> s, late |-> FALSE]) /\ frame' = frame
    BY <1>3 DEF Ingest
  <2> HIDE DEF s
  <2>2. [slot |-> s, late |-> FALSE] \in TickRec
    BY <1>1 DEF TickRec
  <2>3. /\ ticks' \in Seq(TickRec) /\ DOMAIN ticks' = 1..(Len(ticks) + 1) /\ Len(ticks) \in Nat
        /\ DOMAIN ticks = 1..Len(ticks)
        /\ \A i \in 1..Len(ticks) : ticks'[i] = ticks[i]
        /\ ticks'[Len(ticks) + 1].slot = s
    BY <2>1, <2>2, LenProperties, AppendProperties DEF Frames
  <2>4. \A t \in Slot : frame'[t] # NoFrame => t \in slots'
    BY <1>1, <2>1 DEF Frames
  <2>5. ASSUME NEW i \in DOMAIN ticks'
        PROVE  ticks'[i].slot \in slots' \cup {NoSlot}
    <3>1. i \in DOMAIN ticks \/ i = Len(ticks) + 1
      BY <2>3
    <3> QED
      BY <1>1, <2>3, <3>1 DEF Frames
  <2>6. FrameComes'
    <3> SUFFICES ASSUME NEW t \in slots', frame'[t] = NoFrame
                 PROVE  \E i \in DOMAIN ticks' : ticks'[i].slot = t
      BY DEF FrameComes, InFlight
    <3>1. CASE t = s
      <4>1. Len(ticks) + 1 \in DOMAIN ticks'
        BY <2>3
      <4> QED
        BY <2>3, <3>1, <4>1
    <3>2. CASE t # s
      <4>1. PICK i \in DOMAIN ticks : ticks[i].slot = t
        BY <1>1, <2>1, <3>2 DEF Frames, FrameComes, InFlight
      <4>2. i \in DOMAIN ticks' /\ ticks'[i] = ticks[i]
        BY <2>3
      <4> QED
        BY <4>1, <4>2
    <3> QED
      BY <3>1, <3>2
  <2> QED
    BY <1>1, <2>1, <2>3, <2>4, <2>5, <2>6 DEF Frames
<1> QED
  BY <1>2, <1>3

\* The answered tick leaves a frame behind, and no other tick is lost.
LEMMA FramesAnswer ==
  ASSUME Frames, slots \subseteq Slot, NEW i \in DOMAIN ticks, GitAnswers(i)
  PROVE  Frames'
<1> DEFINE n == Len(ticks)
           t == ticks[i]
           a == IF t.slot = NoSlot THEN SubSeq(ticks, 1, i - 1)
                ELSE Overtaken(SubSeq(ticks, 1, i - 1), t.slot)
<1>1. /\ ticks' = a \o SubSeq(ticks, i + 1, Len(ticks))
      /\ Finished(t.slot, t.late, selected, order, frame)
      /\ slots' = slots /\ activity' = activity
  BY DEF GitAnswers, tables
<1>2. n \in Nat /\ DOMAIN ticks = 1..n /\ i \in 1..n /\ t \in TickRec
  BY LenProperties, ElementOfSeq DEF Frames
<1>3. /\ SubSeq(ticks, 1, i - 1) \in Seq(TickRec) /\ Len(SubSeq(ticks, 1, i - 1)) = i - 1
      /\ \A k \in 1..(i - 1) : SubSeq(ticks, 1, i - 1)[k] = ticks[k]
  <2>1. \A k \in 1..(i - 1) : ticks[k] \in TickRec
    BY <1>2, ElementOfSeq DEF Frames
  <2> QED
    BY <1>2, <2>1, SubSeqProperties
<1>4. a \in Seq(TickRec) /\ Len(a) = i - 1 /\ \A k \in 1..(i - 1) : a[k].slot = ticks[k].slot
  <2>1. CASE t.slot = NoSlot
    BY <1>3, <2>1
  <2>2. CASE t.slot # NoSlot
    <3>1. DOMAIN SubSeq(ticks, 1, i - 1) = 1..(i - 1)
      BY <1>3, LenProperties
    <3>2. a = Overtaken(SubSeq(ticks, 1, i - 1), t.slot)
      BY <2>2
    <3> HIDE DEF a, t
    <3> QED
      BY <1>3, <3>1, <3>2, OvertakenKeeps
  <2> QED
    BY <2>1, <2>2
<1> HIDE DEF a, n
<1>5. /\ ticks' \in Seq(TickRec)
      /\ \A j \in DOMAIN ticks' : \E k \in DOMAIN ticks : ticks'[j].slot = ticks[k].slot
      /\ \A k \in DOMAIN ticks \ {i} : \E j \in DOMAIN ticks' : ticks'[j].slot = ticks[k].slot
  <2>1. ticks \in Seq(TickRec)
    BY DEF Frames
  <2> DEFINE us == a \o SubSeq(ticks, i + 1, Len(ticks))
  <2>2. /\ us \in Seq(TickRec)
        /\ \A j \in DOMAIN us : \E k \in DOMAIN ticks : us[j].slot = ticks[k].slot
        /\ \A k \in DOMAIN ticks \ {i} : \E j \in DOMAIN us : us[j].slot = ticks[k].slot
    BY <1>4, <2>1, AnswerKeeps
  <2>3. ticks' = us
    BY <1>1
  <2> HIDE DEF us
  <2> QED
    BY <2>2, <2>3
<1>6. /\ frame' \in [Slot -> Frame \cup {NoFrame}]
      /\ t.slot # NoSlot => frame'[t.slot] # NoFrame
      /\ \A u \in Slot : u # t.slot => frame'[u] = frame[u]
  <2>1. t.slot \in Slot \cup {NoSlot} /\ t.late \in BOOLEAN
    BY <1>2 DEF TickRec
  <2> QED
    BY <1>1, <2>1, FinishedFrame
<1>7. t.slot \in slots \cup {NoSlot}
  BY DEF Frames
<1>8. \A u \in Slot : frame'[u] # NoFrame => u \in slots'
  BY <1>1, <1>6, <1>7, SlotAssumption DEF Frames
<1>9. \A j \in DOMAIN ticks' : ticks'[j].slot \in slots' \cup {NoSlot}
  BY <1>1, <1>5 DEF Frames
<1>10. FrameComes'
  <2> SUFFICES ASSUME NEW u \in slots', frame'[u] = NoFrame
               PROVE  \E j \in DOMAIN ticks' : ticks'[j].slot = u
    BY DEF FrameComes, InFlight
  <2>1. u \in Slot /\ u \in slots /\ u # t.slot /\ frame[u] = NoFrame
    BY <1>1, <1>6, SlotAssumption
  <2>2. PICK k \in DOMAIN ticks : ticks[k].slot = u
    BY <2>1 DEF Frames, FrameComes, InFlight
  <2> QED
    BY <1>5, <2>1, <2>2
<1> QED
  BY <1>1, <1>5, <1>6, <1>8, <1>9, <1>10 DEF Frames

\* A hook changes the badge of a frame and makes or drops none.
LEMMA FramesHook ==
  ASSUME Frames, slots \subseteq Slot, NEW ev \in HookEvents, NEW x \in Sid \cup {NoSid},
         IngestHookEvent(ev, x)
  PROVE  Frames'
<1> DEFINE s == SlotForHook(x)
           next == HookToActivity(ev, activity[s])
<1>1. s \in slots /\ Badge(s, next) /\ slots' = slots /\ ticks' = ticks
  BY DEF IngestHookEvent
<1>2. s \in Slot /\ next \in Activities
  BY <1>1, HookActivity DEF Frames
<1> HIDE DEF s, next
<1>3. /\ activity' = [activity EXCEPT ![s] = next]
      /\ frame' = IF frame[s] = NoFrame THEN frame ELSE [frame EXCEPT ![s].activity = next]
  BY <1>1 DEF Badge
<1>4. activity' \in [Slot -> Activities]
  BY <1>2, <1>3 DEF Frames
<1>5. /\ frame' \in [Slot -> Frame \cup {NoFrame}]
      /\ \A t \in Slot : frame'[t] = NoFrame <=> frame[t] = NoFrame
  <2>1. CASE frame[s] = NoFrame
    BY <1>3, <2>1 DEF Frames
  <2>2. CASE frame[s] # NoFrame
    <3>1. frame[s] \in Frame
      BY <1>2, <2>2 DEF Frames
    <3>2. [frame[s] EXCEPT !.activity = next] \in Frame
      BY <1>2, <3>1 DEF Frame
    <3>3. frame' = [frame EXCEPT ![s] = [frame[s] EXCEPT !.activity = next]]
      BY <1>3, <2>2
    <3> QED
      BY <1>2, <2>2, <3>2, <3>3, NoFrameIsNone DEF Frames
  <2> QED
    BY <2>1, <2>2
<1>6. FrameComes'
  BY <1>1, <1>5 DEF Frames, FrameComes, InFlight
<1> QED
  BY <1>1, <1>4, <1>5, <1>6 DEF Frames

\* The frames and the ticks of the slots that ended go with them.
LEMMA FramesLiveness ==
  ASSUME Frames, slots \subseteq Slot, NEW E \in SUBSET slots, CheckLiveness(E)
  PROVE  Frames'
<1>1. /\ slots' = slots \ E
      /\ activity' = [s \in Slot |-> IF s \in E THEN "working" ELSE activity[s]]
      /\ frame' = [s \in Slot |-> IF s \in E THEN NoFrame ELSE frame[s]]
      /\ ticks' = [i \in DOMAIN ticks |->
           IF ticks[i].slot \in E THEN [slot |-> NoSlot, late |-> FALSE] ELSE ticks[i]]
  BY DEF CheckLiveness
<1>2. /\ activity' \in [Slot -> Activities]
      /\ frame' \in [Slot -> Frame \cup {NoFrame}]
      /\ \A s \in Slot : frame'[s] # NoFrame => s \in slots'
  BY <1>1 DEF Frames, Activities
<1>3. /\ Len(ticks) \in Nat /\ DOMAIN ticks = 1..Len(ticks)
      /\ \A i \in 1..Len(ticks) : ticks[i] \in TickRec
  BY LenProperties, ElementOfSeq DEF Frames
<1>4. DOMAIN ticks' = DOMAIN ticks
  BY <1>1
<1>5. \A i \in DOMAIN ticks :
        /\ ticks'[i].slot = IF ticks[i].slot \in E THEN NoSlot ELSE ticks[i].slot
        /\ ticks'[i] \in TickRec
  BY <1>1, <1>3 DEF TickRec
<1>6. ticks' \in Seq(TickRec)
  <2>1. ticks' = [i \in 1..Len(ticks) |-> ticks'[i]]
    BY <1>1, <1>3
  <2> QED
    BY <1>3, <1>5, <2>1, IsASeq
<1>7. \A i \in DOMAIN ticks' : ticks'[i].slot \in slots' \cup {NoSlot}
  BY <1>1, <1>4, <1>5 DEF Frames
<1>8. FrameComes'
  <2> SUFFICES ASSUME NEW s \in slots', frame'[s] = NoFrame
               PROVE  \E i \in DOMAIN ticks' : ticks'[i].slot = s
    BY DEF FrameComes, InFlight
  <2>1. s \in slots /\ s \notin E /\ frame[s] = NoFrame
    BY <1>1
  <2>2. PICK i \in DOMAIN ticks : ticks[i].slot = s
    BY <2>1 DEF Frames, FrameComes, InFlight
  <2> QED
    BY <1>4, <1>5, <2>1, <2>2
<1> QED
  BY <1>2, <1>6, <1>7, <1>8 DEF Frames

LEMMA FramesNext == SlotTables /\ Frames /\ [AggNext]_aggVars => Frames'
<1> SUFFICES ASSUME SlotTables, Frames, [AggNext]_aggVars
             PROVE  Frames'
  OBVIOUS
<1>1. slots \subseteq Slot
  BY DEF SlotTables
<1>2. ASSUME UNCHANGED <<slots, activity, frame, ticks>>
      PROVE  Frames'
  BY <1>2 DEF Frames, FrameComes, InFlight
<1>3. CASE (\E s \in Slot : Tap(s)) \/ DeviceLost \/ DisplayFallsBack \/ DeviceBack
             \/ UNCHANGED aggVars
  BY <1>2, <1>3 DEF Tap, DeviceLost, DisplayFallsBack, DeviceBack, aggVars, tables
<1>4. CASE Restart
  <2>1. /\ slots' = {} /\ activity' = [s \in Slot |-> "working"]
        /\ frame' = [s \in Slot |-> NoFrame] /\ ticks' = << >>
    BY <1>4 DEF Restart
  <2>2. ticks' \in Seq(TickRec) /\ DOMAIN ticks' = {}
    BY <2>1, EmptySeq
  <2>3. activity' \in [Slot -> Activities] /\ frame' \in [Slot -> Frame \cup {NoFrame}]
    BY <2>1 DEF Activities
  <2> QED
    BY <2>1, <2>2, <2>3 DEF Frames, FrameComes
<1> QED
  BY <1>1, <1>3, <1>4, FramesIngest, FramesAnswer, FramesHook, FramesLiveness DEF AggNext

-----------------------------------------------------------------------------
(* The foreground and what the display shows *)

Screens ==
  [slot : Slot, frame : Frame, rows : UNION {[S -> Activities] : S \in SUBSET Slot}]

\* What the display shows is said of a link that is up; the screen of another is
\* only some screen.
Shown ==
  /\ selected \in slots \cup {NoSlot}
  /\ device \in {"up", "down"}
  /\ screen = Waiting \/ screen \in Screens
  /\ synced \in BOOLEAN
  /\ synced => device = "up"
  /\ ScreenIsForeground
  /\ EndedLeavesScreen

\* A frame sent either arrives on a link that is up, or is known to be missing.
LEMMA SendResult ==
  ASSUME Shown, NEW shown, Send(shown)
  PROVE  \/ device = "up" /\ screen' = shown /\ synced' = TRUE
         \/ screen' \in {screen, shown} /\ synced' = FALSE
<1>1. CASE device = "up" /\ Deliver(shown)
  BY Zenon, <1>1 DEF Deliver
<1>2. CASE device = "down" /\ UNCHANGED <<screen, synced>>
  <2>1. ~synced /\ synced \in BOOLEAN
    BY <1>2 DEF Shown
  <2> QED
    BY <1>2, <2>1
<1> QED
  BY Zenon, <1>1, <1>2 DEF Send

\* A selected slot stays selected, with a frame or without.
LEMMA PushKeeps ==
  ASSUME NEW sel, NEW ord, NEW fr, sel # NoSlot, Push(sel, ord, fr)
  PROVE  selected' = sel
<1>1. Foreground(sel, ord, fr) = sel
  BY DEF Foreground
<1> QED
  BY <1>1 DEF Push

\* A push either sends the foreground's frame, or finds that the foreground has
\* none and leaves the display alone.
LEMMA PushResult ==
  ASSUME NEW sel \in Slot \cup {NoSlot}, NEW ord, NEW fr,
         LET withFrame == {s \in Slot : fr[s] # NoFrame}
         IN withFrame # {} => \E s \in withFrame : \A t \in withFrame \ {s} : <<s, t>> \in ord,
         Push(sel, ord, fr)
  PROVE  \/ /\ selected' = sel /\ screen' = screen /\ synced' = synced
            /\ IF sel = NoSlot THEN \A s \in Slot : fr[s] = NoFrame ELSE fr[sel] = NoFrame
         \/ \E f \in Slot :
              /\ fr[f] # NoFrame /\ selected' = f
              /\ Send([slot |-> f, frame |-> fr[f], rows |-> Rows(fr)])
<1> DEFINE withFrame == {s \in Slot : fr[s] # NoFrame}
           f == Foreground(sel, ord, fr)
<1>1. CASE sel # NoSlot
  <2>1. f = sel /\ f \in Slot
    BY <1>1 DEF Foreground
  <2> HIDE DEF f
  <2>2. f # NoSlot
    BY <1>1, <2>1
  <2>3. IF fr[f] = NoFrame THEN selected' = sel /\ UNCHANGED <<screen, synced>>
        ELSE selected' = f /\ Send([slot |-> f, frame |-> fr[f], rows |-> Rows(fr)])
    BY Zenon, <2>2 DEF Push, f
  <2> QED
    BY <1>1, <2>1, <2>3
<1>2. CASE sel = NoSlot /\ withFrame = {}
  <2>1. f = NoSlot
    BY <1>2 DEF Foreground, FirstWithFrame
  <2>2. selected' = sel /\ UNCHANGED <<screen, synced>>
    BY Zenon, <2>1 DEF Push
  <2> QED
    BY <1>2, <2>2
<1>3. CASE sel = NoSlot /\ withFrame # {}
  <2>1. f = CHOOSE s \in withFrame : \A t \in withFrame \ {s} : <<s, t>> \in ord
    BY Zenon, <1>3 DEF Foreground, FirstWithFrame
  <2>2. \E s \in withFrame : \A t \in withFrame \ {s} : <<s, t>> \in ord
    BY <1>3
  <2> HIDE DEF f, withFrame
  <2>3. f \in withFrame
    BY <2>1, <2>2
  <2>4. f \in Slot /\ fr[f] # NoFrame /\ f # NoSlot
    BY <2>3, SlotAssumption DEF withFrame
  <2>5. selected' = f /\ Send([slot |-> f, frame |-> fr[f], rows |-> Rows(fr)])
    BY Zenon, <2>4 DEF Push, f
  <2> QED
    BY <2>4, <2>5
<1> QED
  BY <1>1, <1>2, <1>3

\* The slots with a frame have a first one.
LEMMA FirstFrame ==
  ASSUME NEW S, NEW ord, NEW fr, \A s \in Slot : fr[s] # NoFrame => s \in S,
         \A T \in SUBSET S : T # {} => \E s \in T : \A t \in T \ {s} : <<s, t>> \in ord
  PROVE  LET withFrame == {s \in Slot : fr[s] # NoFrame}
         IN withFrame # {} => \E s \in withFrame : \A t \in withFrame \ {s} : <<s, t>> \in ord
<1> DEFINE withFrame == {s \in Slot : fr[s] # NoFrame}
<1>1. withFrame \in SUBSET S
  OBVIOUS
<1> HIDE DEF withFrame
<1>2. withFrame # {} => \E s \in withFrame : \A t \in withFrame \ {s} : <<s, t>> \in ord
  BY <1>1
<1> QED
  BY <1>2 DEF withFrame

LEMMA RowsType ==
  ASSUME NEW fr \in [Slot -> Frame \cup {NoFrame}]
  PROVE  Rows(fr) \in UNION {[S -> Activities] : S \in SUBSET Slot}
<1> DEFINE live == {s \in Slot : fr[s] # NoFrame}
<1>1. NoRows \in [{} -> Activities]
  BY DEF NoRows, Activities
<1>2. [s \in live |-> fr[s].activity] \in [live -> Activities]
  <2>1. \A s \in live : fr[s] \in Frame
    OBVIOUS
  <2> QED
    BY <2>1 DEF Frame
<1>3. Rows(fr) = NoRows \/ Rows(fr) = [s \in live |-> fr[s].activity]
  BY DEF Rows
<1>4. {} \in SUBSET Slot /\ live \in SUBSET Slot
  OBVIOUS
<1> HIDE DEF live
<1> QED
  BY <1>1, <1>2, <1>3, <1>4

\* After a push the display shows the foreground, or the foreground awaits its
\* first frame.
LEMMA PushShown ==
  ASSUME SlotTables', Frames', Shown, device' = device,
         NEW sel \in slots' \cup {NoSlot}, Push(sel, order', frame'),
         slots' # {} \/ slots = {}
  PROVE  Shown'
<1>1. slots' \subseteq Slot
  BY DEF SlotTables
<1>2. CASE /\ selected' = sel /\ screen' = screen /\ synced' = synced
           /\ IF sel = NoSlot THEN \A s \in Slot : frame'[s] = NoFrame ELSE frame'[sel] = NoFrame
  <2>1. ScreenIsForeground'
    BY <1>2 DEF ScreenIsForeground
  <2>2. EndedLeavesScreen'
    <3>1. CASE slots' = {}
      <4>1. slots = {}
        BY <3>1
      <4>2. synced => screen = Waiting
        BY <4>1 DEF Shown, EndedLeavesScreen
      <4> QED
        BY <1>2, <4>2 DEF EndedLeavesScreen
    <3>2. CASE slots' # {}
      <4>1. PICK s \in slots' : frame'[s] = NoFrame
        BY <1>1, <1>2, <3>2
      <4>2. InFlight(s)'
        BY <4>1 DEF Frames, FrameComes
      <4> QED
        BY <4>1, <4>2 DEF EndedLeavesScreen
    <3> QED
      BY <3>1, <3>2
  <2> QED
    BY <1>2, <2>1, <2>2 DEF Shown
<1>3. ASSUME NEW f \in Slot, frame'[f] # NoFrame, selected' = f,
             Send([slot |-> f, frame |-> frame'[f], rows |-> Rows(frame')])
      PROVE  Shown'
  <2> DEFINE new == [slot |-> f, frame |-> frame'[f], rows |-> Rows(frame')]
  <2>1. f \in slots' /\ frame'[f] \in Frame
    BY <1>3 DEF Frames
  <2>2. Rows(frame') \in UNION {[S -> Activities] : S \in SUBSET Slot}
    <3>1. frame' \in [Slot -> Frame \cup {NoFrame}]
      BY DEF Frames
    <3> QED
      BY <3>1, RowsType
  <2>3. new \in Screens /\ new.slot = f
    BY <2>1, <2>2 DEF Screens
  <2> HIDE DEF new
  <2>4. CASE device = "up" /\ screen' = new /\ synced' = TRUE
    <3>1. ScreenIsForeground'
      BY <1>3, <2>4 DEF ScreenIsForeground, new
    <3>2. EndedLeavesScreen'
      BY <2>1, <2>3, <2>4 DEF EndedLeavesScreen
    <3> QED
      BY <1>3, <2>1, <2>3, <2>4, <3>1, <3>2 DEF Shown
  <2>5. CASE screen' \in {screen, new} /\ synced' = FALSE
    BY <1>3, <2>1, <2>3, <2>5 DEF Shown, ScreenIsForeground, EndedLeavesScreen
  <2> QED
    BY <1>3, <2>4, <2>5, SendResult DEF new
<1>4. LET withFrame == {s \in Slot : frame'[s] # NoFrame}
      IN withFrame # {} => \E s \in withFrame : \A t \in withFrame \ {s} : <<s, t>> \in order'
  <2>1. \A s \in Slot : frame'[s] # NoFrame => s \in slots'
    BY DEF Frames
  <2>2. \A T \in SUBSET slots' : T # {} => \E s \in T : \A t \in T \ {s} : <<s, t>> \in order'
    BY DEF SlotTables, FirstExists
  <2> QED
    BY <2>1, <2>2, FirstFrame
<1> QED
  BY <1>1, <1>2, <1>3, <1>4, PushResult

LEMMA ShownInit == AggInit => Shown
  BY DEF AggInit, Shown, ScreenIsForeground, EndedLeavesScreen

\* A step that neither pushes nor removes slots leaves what is shown as good as it was.
LEMMA ShownKept ==
  ASSUME Shown, Frames', slots \subseteq slots',
         UNCHANGED <<selected, frame, display>>
  PROVE  Shown'
<1>1. /\ selected' = selected /\ frame' = frame
      /\ device' = device /\ screen' = screen /\ synced' = synced
  BY DEF display
<1>2. EndedLeavesScreen'
  <2> SUFFICES ASSUME synced, screen # Waiting, screen.slot \notin slots
               PROVE  \E s \in slots' : frame'[s] = NoFrame /\ InFlight(s)'
    BY <1>1 DEF EndedLeavesScreen
  <2>1. PICK s \in slots : frame[s] = NoFrame
    BY DEF Shown, EndedLeavesScreen
  <2>2. s \in slots' /\ frame'[s] = NoFrame
    BY <1>1, <2>1
  <2>3. InFlight(s)'
    BY <2>2 DEF Frames, FrameComes
  <2> QED
    BY <2>2, <2>3
<1>3. ScreenIsForeground'
  BY <1>1 DEF Shown, ScreenIsForeground
<1> QED
  BY <1>1, <1>2, <1>3 DEF Shown

\* When the last session ends the display is told to wait; else the next
\* foreground is pushed.
LEMMA ShownLiveness ==
  ASSUME SlotTables, SlotTables', Frames', Shown, NEW E \in SUBSET slots, CheckLiveness(E)
  PROVE  Shown'
<1> DEFINE sel == IF selected \in E THEN NoSlot ELSE selected
<1>1. /\ E # {} /\ slots' = slots \ E /\ device' = device
      /\ AfterRemoval(sel, order', frame')
  BY DEF CheckLiveness
<1>2. sel \in slots' \cup {NoSlot}
  BY <1>1 DEF Shown
<1> HIDE DEF sel
<1>3. CASE slots' # {}
  <2>1. Push(sel, order', frame')
    BY <1>1, <1>3 DEF AfterRemoval
  <2> QED
    BY <1>1, <1>2, <1>3, <2>1, PushShown
<1>4. CASE slots' = {}
  <2>1. slots # {}
    BY <1>1
  <2>2. ~sentIdle
    BY <2>1 DEF SlotTables
  <2>3. selected' = sel /\ Send(Waiting)
    BY Zenon, <1>1, <1>4, <2>2 DEF AfterRemoval
  <2>4. selected' = NoSlot
    BY <1>2, <1>4, <2>3
  <2>5. CASE device = "up" /\ screen' = Waiting /\ synced' = TRUE
    BY <1>1, <2>4, <2>5 DEF Shown, ScreenIsForeground, EndedLeavesScreen
  <2>6. CASE screen' \in {screen, Waiting} /\ synced' = FALSE
    BY <1>1, <2>4, <2>6 DEF Shown, ScreenIsForeground, EndedLeavesScreen
  <2> QED
    BY <2>3, <2>5, <2>6, SendResult
<1> QED
  BY <1>3, <1>4

LEMMA ShownNext ==
  SlotTables /\ Frames /\ SlotTables' /\ Frames' /\ Shown /\ [AggNext]_aggVars => Shown'
<1> SUFFICES ASSUME SlotTables, Frames, SlotTables', Frames', Shown, [AggNext]_aggVars
             PROVE  Shown'
  OBVIOUS
<1>1. ASSUME NEW p \in Pid \cup {NoPid}, NEW x \in Sid \cup {NoSid}, NEW atOnce \in BOOLEAN,
             Ingest(p, x, atOnce)
      PROVE  Shown'
  <2> DEFINE s == SlotKey(p, x)
  <2>1. slots' = slots \cup {s} /\ device' = device
    BY <1>1 DEF Ingest
  <2>2. CASE atOnce
    <3>1. Push(selected, order', frame')
      BY <1>1, <2>2 DEF Ingest, Finished
    <3>2. selected \in slots' \cup {NoSlot} /\ slots' # {}
      BY <2>1 DEF Shown
    <3> QED
      BY <2>1, <3>1, <3>2, PushShown
  <2>3. CASE ~atOnce
    <3>1. UNCHANGED <<selected, frame, display>>
      BY <1>1, <2>3 DEF Ingest, display
    <3> QED
      BY <2>1, <3>1, ShownKept
  <2> QED
    BY <2>2, <2>3
<1>2. ASSUME NEW i \in DOMAIN ticks, GitAnswers(i)
      PROVE  Shown'
  <2>1. slots' = slots /\ order' = order /\ device' = device /\ Push(selected, order, frame')
    BY <1>2 DEF GitAnswers, Finished, tables
  <2>2. selected \in slots' \cup {NoSlot} /\ (slots' # {} \/ slots = {})
    BY <2>1 DEF Shown
  <2>3. Push(selected, order', frame')
    BY <2>1
  <2> QED
    BY <2>1, <2>2, <2>3, PushShown
<1>3. ASSUME NEW ev \in HookEvents, NEW x \in Sid \cup {NoSid}, IngestHookEvent(ev, x)
      PROVE  Shown'
  <2>1. slots' = slots /\ order' = order /\ device' = device /\ Push(selected, order, frame')
    BY <1>3 DEF IngestHookEvent
  <2>2. selected \in slots' \cup {NoSlot} /\ (slots' # {} \/ slots = {})
    BY <2>1 DEF Shown
  <2>3. Push(selected, order', frame')
    BY <2>1
  <2> QED
    BY <2>1, <2>2, <2>3, PushShown
<1>4. ASSUME NEW s \in Slot, Tap(s)
      PROVE  Shown'
  <2> DEFINE sel == IF OnDevice(s) \in slots THEN OnDevice(s) ELSE selected
  <2>1. /\ slots' = slots /\ order' = order /\ frame' = frame /\ device' = device
        /\ Push(sel, order, frame)
    BY <1>4 DEF Tap, tables
  <2>2. sel \in slots' \cup {NoSlot} /\ (slots' # {} \/ slots = {})
    BY <2>1 DEF Shown
  <2> HIDE DEF sel
  <2>3. Push(sel, order', frame')
    BY <2>1
  <2> QED
    BY <2>1, <2>2, <2>3, PushShown
<1>5. CASE DeviceLost
  BY <1>5 DEF DeviceLost, tables, Shown, ScreenIsForeground, EndedLeavesScreen
<1>6. CASE DisplayFallsBack
  BY <1>6 DEF DisplayFallsBack, tables, Shown, ScreenIsForeground, EndedLeavesScreen
<1>7. CASE DeviceBack
  <2>1. /\ slots' = slots /\ selected' = selected /\ screen' = screen /\ device' = "up"
        /\ synced' = (screen = Waiting /\ slots = {})
    BY <1>7 DEF DeviceBack, tables
  <2>2. synced' => slots = {} /\ screen = Waiting
    BY <2>1
  <2>3. synced' \in BOOLEAN
    BY <2>1
  <2>4. synced' => selected' = NoSlot
    BY <2>1, <2>2 DEF Shown
  <2> QED
    BY <2>1, <2>2, <2>3, <2>4 DEF Shown, ScreenIsForeground, EndedLeavesScreen
<1>8. CASE Restart
  BY <1>8 DEF Restart, Shown, ScreenIsForeground, EndedLeavesScreen
<1>9. CASE UNCHANGED aggVars
  <2>1. slots' = slots /\ UNCHANGED <<selected, frame, display>>
    BY <1>9 DEF aggVars, tables
  <2> QED
    BY <2>1, ShownKept
<1>10. CASE \E E \in SUBSET slots : CheckLiveness(E)
  BY <1>10, ShownLiveness
<1> QED
  BY <1>1, <1>2, <1>3, <1>4, <1>5, <1>6, <1>7, <1>8, <1>9, <1>10 DEF AggNext

AggInv == SlotTables /\ Frames /\ Shown /\ restarts \in 0..MaxRestarts

LEMMA AggInvariant == AggSpec => []AggInv
<1>1. AggInit => AggInv
  BY TablesInit, FramesInit, ShownInit, BoundsAssumption DEF AggInv, AggInit
<1>2. restarts \in 0..MaxRestarts /\ [AggNext]_aggVars => restarts' \in 0..MaxRestarts
  <2> SUFFICES ASSUME restarts \in 0..MaxRestarts, [AggNext]_aggVars
               PROVE  restarts' \in 0..MaxRestarts
    OBVIOUS
  <2>1. CASE Restart
    BY <2>1, BoundsAssumption DEF Restart
  <2>2. CASE ~Restart
    <3>1. restarts' = restarts
      BY <2>2 DEF AggNext, aggVars, Ingest, GitAnswers, IngestHookEvent, Tap, CheckLiveness,
                  DeviceLost, DisplayFallsBack, DeviceBack
    <3> QED
      BY <3>1
  <2> QED
    BY <2>1, <2>2
<1>3. AggInv /\ [AggNext]_aggVars => AggInv'
  BY <1>2, TablesNext, FramesNext, ShownNext DEF AggInv
<1> QED
  BY <1>1, <1>3, PTL DEF AggSpec

-----------------------------------------------------------------------------
\* Every variable of the aggregator has its type, whatever comes in what order.
THEOREM AggTypeCorrect == AggSpec => []AggTypeOK
<1>1. AggInv => AggTypeOK
  <2> SUFFICES ASSUME AggInv
               PROVE  AggTypeOK
    OBVIOUS
  <2>1. /\ slots \subseteq Slot /\ order \subseteq Slot \X Slot
        /\ alias \in [Sid -> Slot \cup {NoSlot}] /\ known \in [Slot -> SUBSET Sid]
        /\ sentIdle \in BOOLEAN
    BY DEF AggInv, SlotTables
  <2>2. selected \in Slot \cup {NoSlot}
    BY <2>1 DEF AggInv, Shown
  <2>3. screen \in Screens => /\ screen.slot \in Slot
                              /\ screen.frame \in Frame
                              /\ screen.rows \in UNION {[S -> Activities] : S \in SUBSET Slot}
    BY DEF Screens
  <2> QED
    BY <2>1, <2>2, <2>3 DEF AggInv, Frames, Shown, AggTypeOK
<1> QED
  BY <1>1, AggInvariant, PTL

\* ensureSlot(), rememberSessionAlias(), removeSlot() and setFocus() keep their
\* tables in agreement, however ticks, hooks, taps and ends of sessions interleave:
\* no hook is attributed to a session that has ended.
THEOREM TablesAlwaysAgree == AggSpec => []TablesAgree
<1>1. AggInv => TablesAgree
  BY DEF AggInv, SlotTables, Shown, TablesAgree
<1> QED
  BY <1>1, AggInvariant, PTL

\* ingest() awaits git, and in whatever order git answers, a session without a
\* frame has a tick in flight.
THEOREM FirstFrameComes == AggSpec => []FrameComes
<1>1. AggInv => FrameComes
  BY DEF AggInv, Frames
<1> QED
  BY <1>1, AggInvariant, PTL

\* A display that has got the last frame sent shows what pushSelectedFrame() would
\* send now: no change of the foreground is kept from it, and a send that fails
\* or a display that falls back are the only ways to an older page.
THEOREM DisplayShowsForeground == AggSpec => []ScreenIsForeground
<1>1. AggInv => ScreenIsForeground
  BY DEF AggInv, Shown
<1> QED
  BY <1>1, AggInvariant, PTL

\* checkLiveness() leaves a display that gets what it sends with the page of no
\* session that has ended, unless the session that is left awaits its first frame.
THEOREM DisplayLeavesEnded == AggSpec => []EndedLeavesScreen
<1>1. AggInv => EndedLeavesScreen
  BY DEF AggInv, Shown
<1> QED
  BY <1>1, AggInvariant, PTL

\* Only a tap takes the page from a session that lives: ticks and hooks of other
\* sessions, their ends and what the link does leave the foreground alone.
THEOREM OnlyTapsMoveFocus == AggSpec => FocusIsKept
<1>1. ASSUME [AggNext]_aggVars, selected # NoSlot, selected \in slots', ~\E s \in Slot : Tap(s)
      PROVE  selected' = selected
  <2>1. ASSUME NEW p \in Pid \cup {NoPid}, NEW x \in Sid \cup {NoSid}, NEW atOnce \in BOOLEAN,
               Ingest(p, x, atOnce)
        PROVE  selected' = selected
    <3>1. Push(selected, order', frame') \/ selected' = selected
      BY <2>1 DEF Ingest, Finished
    <3> QED
      BY <1>1, <3>1, PushKeeps
  <2>2. CASE \E i \in DOMAIN ticks : GitAnswers(i)
    <3>1. Push(selected, order, frame')
      BY <2>2 DEF GitAnswers, Finished
    <3> QED
      BY <1>1, <3>1, PushKeeps
  <2>3. CASE \E ev \in HookEvents, x \in Sid \cup {NoSid} : IngestHookEvent(ev, x)
    <3>1. Push(selected, order, frame')
      BY <2>3 DEF IngestHookEvent
    <3> QED
      BY <1>1, <3>1, PushKeeps
  <2>4. ASSUME NEW E \in SUBSET slots, CheckLiveness(E)
        PROVE  selected' = selected
    <3>1. selected \notin E
      BY <1>1, <2>4 DEF CheckLiveness
    <3>2. AfterRemoval(selected, order', frame')
      BY <2>4, <3>1 DEF CheckLiveness
    <3>3. selected' = selected \/ Push(selected, order', frame')
      BY <3>2 DEF AfterRemoval
    <3> QED
      BY <1>1, <3>3, PushKeeps
  <2>5. CASE DeviceLost \/ DisplayFallsBack \/ DeviceBack \/ UNCHANGED aggVars
    BY <2>5 DEF DeviceLost, DisplayFallsBack, DeviceBack, aggVars
  <2>6. ~Restart
    BY <1>1 DEF Restart
  <2> QED
    BY <1>1, <2>1, <2>2, <2>3, <2>4, <2>5, <2>6 DEF AggNext
<1>2. [AggNext]_aggVars =>
        [(selected # NoSlot /\ selected \in slots') =>
           (selected' = selected \/ \E s \in Slot : Tap(s))]_aggVars
  BY <1>1
<1> QED
  BY <1>2, PTL DEF AggSpec, FocusIsKept
=============================================================================
