-------------------------- MODULE SessionAggregator --------------------------
(***************************************************************************)
(* packages/daemon/src/session-aggregator.ts: the terminal slots in which  *)
(* Claude Code sessions live, the aliases by which hooks find them, the    *)
(* foreground slot, and the status frames that reach the display.          *)
(*                                                                         *)
(* ingest() awaits git, so ticks may finish in another order than they     *)
(* began, and after their slot was removed.  An action is one macrotask.   *)
(* What updateHistory() and removeSlot() do to the day's cost and the burn *)
(* history is TodayHistory, in which the foreground may be any slot: no    *)
(* condition of this module reads it.                                      *)
(***************************************************************************)
EXTENDS Integers, Sequences, FiniteSets

CONSTANTS
  Slot,        \* the keys of terminal slots
  NoSlot,
  Pid,         \* Claude Code processes the shim has resolved
  Sid,         \* session ids
  Anonymous,   \* ANONYMOUS_SESSION_ID
  NoPid, NoSid,
  MaxTicks,    \* ticks that await git at once (bound)
  MaxRestarts  \* (bound)

ASSUME SlotAssumption ==
  /\ NoSlot \notin Slot
  /\ Slot \subseteq Pid \cup Sid \cup {Anonymous}
  /\ Pid \cap Sid = {}
  /\ Anonymous \notin Pid \cup Sid
  /\ NoPid \notin Pid
  /\ NoSid \notin Sid
ASSUME BoundsAssumption == MaxTicks \in Nat /\ MaxRestarts \in Nat

VARIABLES
  slots,      \* this.slots: the slots that exist
  selected,   \* selectedSlotId
  order,      \* this.order, as the pairs <<s, t>> in which s comes before t
  alias,      \* sessionAliases
  known,      \* knownSessionIds of each slot
  activity,   \* of each slot
  frame,      \* lastFrame of each slot
  ticks,      \* the ingests that await git, in the order they began
  sentIdle,
  device,     \* the session the manager publishes: "up" or "down"
  screen,     \* what the display shows
  synced,     \* history: the last frame sent has arrived, and the link and the
              \* display have held since
  restarts

tables  == <<slots, order, alias, known, activity, sentIdle>>
display == <<device, screen, synced>>
aggVars == <<tables, selected, frame, ticks, display, restarts>>

Activities == {"working", "awaiting_input", "needs_attention"}
NoFrame == [late |-> FALSE, activity |-> "none"]
Frame   == [late : BOOLEAN, activity : Activities]
NoRows  == [s \in {} |-> "working"]
Waiting == [slot |-> NoSlot, frame |-> NoFrame, rows |-> NoRows]

\* A tick belongs to the slot object it began with: NoSlot when that was removed.
\* It is late when a tick that began after it has already finished.
TickRec == [slot : Slot \cup {NoSlot}, late : BOOLEAN]

AggTypeOK ==
  /\ slots \subseteq Slot
  /\ selected \in Slot \cup {NoSlot}
  /\ order \subseteq Slot \X Slot
  /\ alias \in [Sid -> Slot \cup {NoSlot}]
  /\ known \in [Slot -> SUBSET Sid]
  /\ activity \in [Slot -> Activities]
  /\ frame \in [Slot -> Frame \cup {NoFrame}]
  /\ ticks \in Seq(TickRec)
  /\ sentIdle \in BOOLEAN
  /\ device \in {"up", "down"}
  /\ \/ screen = Waiting
     \/ /\ screen.slot \in Slot
        /\ screen.frame \in Frame
        /\ screen.rows \in UNION {[S -> Activities] : S \in SUBSET Slot}
  /\ synced \in BOOLEAN
  /\ restarts \in 0..MaxRestarts

AggInit ==
  /\ slots = {}
  /\ selected = NoSlot
  /\ order = {}
  /\ alias = [x \in Sid |-> NoSlot]
  /\ known = [s \in Slot |-> {}]
  /\ activity = [s \in Slot |-> "working"]
  /\ frame = [s \in Slot |-> NoFrame]
  /\ ticks = << >>
  /\ sentIdle = TRUE
  /\ device = "down"
  /\ screen = Waiting
  /\ synced = FALSE
  /\ restarts = 0

-----------------------------------------------------------------------------
SlotKey(p, x) == IF p # NoPid THEN p ELSE IF x # NoSid THEN x ELSE Anonymous

\* The frame is written and arrives, or the write fails, which is only logged:
\* the session stays published, and the frame may have got through or not.
Deliver(shown) ==
  \/ screen' = shown /\ synced' = TRUE
  \/ screen' \in {screen, shown} /\ synced' = FALSE

\* sendStatus(): without a session, or without its info, the frame is dropped.
Send(shown) ==
  \/ device = "up" /\ Deliver(shown)
  \/ device = "down" /\ UNCHANGED <<screen, synced>>

\* The first in this.order of the slots that have a frame.
FirstWithFrame(ord, fr) ==
  LET withFrame == {s \in Slot : fr[s] # NoFrame}
  IN IF withFrame = {} THEN NoSlot
     ELSE CHOOSE s \in withFrame : \A t \in withFrame \ {s} : <<s, t>> \in ord

\* Mutant: an absent frame of the selected slot falls through to another slot.
ForegroundWithFrame(sel, ord, fr) ==
  IF sel # NoSlot /\ fr[sel] # NoFrame THEN sel ELSE FirstWithFrame(ord, fr)

\* selectForeground(): the selected slot, else the first that has a frame.
Foreground(sel, ord, fr) ==
  IF sel # NoSlot THEN sel ELSE FirstWithFrame(ord, fr)

\* decorateFrame(): with two sessions or more, each one's activity goes along.
\* There are at most eight slots here, so none is cut off.
Rows(fr) ==
  LET live == {s \in Slot : fr[s] # NoFrame}
  IN IF Cardinality(live) < 2 THEN NoRows ELSE [s \in live |-> fr[s].activity]

\* Mutant: the rows are those of before the step.
PushOldRows(sel, ord, fr) ==
  LET f == Foreground(sel, ord, fr)
  IN IF f = NoSlot \/ fr[f] = NoFrame
     THEN selected' = sel /\ UNCHANGED <<screen, synced>>
     ELSE selected' = f /\ Send([slot |-> f, frame |-> fr[f], rows |-> Rows(frame)])

\* pushSelectedFrame(): nothing is sent while the foreground has no frame.
Push(sel, ord, fr) ==
  LET f == Foreground(sel, ord, fr)
  IN IF f = NoSlot \/ fr[f] = NoFrame
     THEN selected' = sel /\ UNCHANGED <<screen, synced>>
     ELSE selected' = f /\ Send([slot |-> f, frame |-> fr[f], rows |-> Rows(fr)])

\* Mutant: only the foreground's frame is stored.
FinishedForegroundOnly(s, late, sel, ord, fr) ==
  /\ frame' = IF s = NoSlot \/ sel \notin {NoSlot, s} THEN fr
              ELSE [fr EXCEPT ![s] = [late |-> late, activity |-> activity[s]]]
  /\ Push(sel, ord, frame')

\* The part of ingest() after git: the frame is stored in the slot object the
\* tick began with, and the foreground is pushed.
Finished(s, late, sel, ord, fr) ==
  /\ frame' = IF s = NoSlot THEN fr ELSE [fr EXCEPT ![s] = [late |-> late, activity |-> activity[s]]]
  /\ Push(sel, ord, frame')

\* The ticks of s that began earlier are late once one has finished.
Overtaken(ts, s) ==
  [i \in DOMAIN ts |-> IF ts[i].slot = s THEN [ts[i] EXCEPT !.late = TRUE] ELSE ts[i]]

\* rememberSessionAlias(), when the tick names its session.
RememberAlias(s, x) ==
  /\ alias' = IF x = NoSid THEN alias ELSE [alias EXCEPT ![x] = s]
  /\ known' = IF x = NoSid THEN known ELSE [known EXCEPT ![s] = @ \cup {x}]

-----------------------------------------------------------------------------
\* ingest() up to git.  A tick without a directory, or with one in git's cache,
\* finishes at once.
Ingest(p, x, atOnce) ==
  LET s == SlotKey(p, x)
  IN /\ s \in Slot
     /\ slots' = slots \cup {s}
     /\ order' = IF s \in slots THEN order ELSE order \cup (slots \X {s})
     /\ RememberAlias(s, x)
     /\ sentIdle' = FALSE
     /\ IF atOnce
        THEN /\ ticks' = Overtaken(ticks, s)
             /\ Finished(s, FALSE, selected, order', frame)
        ELSE /\ Len(ticks) < MaxTicks
             /\ ticks' = Append(ticks, [slot |-> s, late |-> FALSE])
             /\ UNCHANGED <<selected, frame, screen, synced>>
     /\ UNCHANGED <<activity, device, restarts>>

\* git answers a tick.
GitAnswers(i) ==
  LET t == ticks[i]
  IN /\ ticks' = (IF t.slot = NoSlot THEN SubSeq(ticks, 1, i - 1)
                  ELSE Overtaken(SubSeq(ticks, 1, i - 1), t.slot)) \o SubSeq(ticks, i + 1, Len(ticks))
     /\ Finished(t.slot, t.late, selected, order, frame)
     /\ UNCHANGED <<tables, device, restarts>>

\* The hooks and the types of notification that change an activity.
HookEvents == {"UserPromptSubmit", "PostToolUse", "Stop", "idle_prompt", "permission_prompt"}

\* hookToActivity() and classifyNotification(): an idle_prompt depends on the
\* activity it finds.
HookToActivity(ev, current) ==
  CASE ev \in {"UserPromptSubmit", "PostToolUse"} -> "working"
    [] ev = "Stop" -> "awaiting_input"
    [] ev = "idle_prompt" -> IF current = "needs_attention" THEN current ELSE "awaiting_input"
    [] ev = "permission_prompt" -> "needs_attention"

\* Mutant: only the slot's activity is updated, its frame keeps the old badge.
BadgeKeepsFrame(s, next) ==
  /\ activity' = [activity EXCEPT ![s] = next]
  /\ UNCHANGED frame

\* The activity is written to the slot and to its last frame.
Badge(s, next) ==
  /\ activity' = [activity EXCEPT ![s] = next]
  /\ frame' = IF frame[s] = NoFrame THEN frame ELSE [frame EXCEPT ![s].activity = next]

\* sessionForHook() finds the slot by alias; a hook that names no session is for
\* the anonymous slot.
SlotForHook(x) == IF x # NoSid THEN alias[x] ELSE Anonymous

\* ingestHookEvent().
IngestHookEvent(ev, x) ==
  LET s == SlotForHook(x)
  IN /\ s \in slots
     /\ HookToActivity(ev, activity[s]) # activity[s]
     /\ Badge(s, HookToActivity(ev, activity[s]))
     /\ Push(selected, order, frame')
     /\ UNCHANGED <<slots, order, alias, known, sentIdle, ticks, device, restarts>>

\* What the firmware makes of a slot id: "sid:" and a session id are longer than
\* SessionSummary.id (firmware/lib/m5render/status_model.h:58) and are cut.
OnDevice(s) == IF s \in Sid THEN NoSlot ELSE s

\* A row of the display's Sessions page is tapped and the focus event arrives:
\* setFocus(), which ignores a slot that has ended meanwhile.
Tap(s) ==
  /\ device = "up"
  /\ s \in DOMAIN screen.rows
  /\ Push(IF OnDevice(s) \in slots THEN OnDevice(s) ELSE selected, order, frame)
  /\ UNCHANGED <<tables, frame, ticks, device, restarts>>

\* Mutant: the aliases of a removed slot are left.
AliasesKept(E) == UNCHANGED alias

\* removeSlot() forgets the aliases that still lead to the slot.
AliasesForgotten(E) ==
  alias' = [x \in Sid |-> IF alias[x] \in E /\ x \in known[alias[x]] THEN NoSlot ELSE alias[x]]

\* Mutant: the end of the last session is not told.
AfterRemovalPushes(sel, ord, fr) == sentIdle' = (slots' = {}) /\ Push(sel, ord, fr)

\* The end of checkLiveness(): one idle frame for the last session that ends,
\* else the foreground again.
AfterRemoval(sel, ord, fr) ==
  IF slots' = {}
  THEN /\ sentIdle' = TRUE
       /\ selected' = sel
       /\ IF sentIdle THEN UNCHANGED <<screen, synced>> ELSE Send(Waiting)
  ELSE UNCHANGED sentIdle /\ Push(sel, ord, fr)

\* checkLiveness(): the slots E have ended.
CheckLiveness(E) ==
  LET sel == IF selected \in E THEN NoSlot ELSE selected
  IN /\ E # {}
     /\ slots' = slots \ E
     /\ order' = order \cap (slots' \X slots')
     /\ AliasesForgotten(E)
     /\ known' = [s \in Slot |-> IF s \in E THEN {} ELSE known[s]]
     /\ activity' = [s \in Slot |-> IF s \in E THEN "working" ELSE activity[s]]
     /\ frame' = [s \in Slot |-> IF s \in E THEN NoFrame ELSE frame[s]]
     /\ ticks' = [i \in DOMAIN ticks |->
          IF ticks[i].slot \in E THEN [slot |-> NoSlot, late |-> FALSE] ELSE ticks[i]]
     /\ AfterRemoval(sel, order', frame')
     /\ UNCHANGED <<device, restarts>>

-----------------------------------------------------------------------------
(* The device manager and the display (environment). *)

\* The link is lost.  The display keeps its page until it falls back.
DeviceLost ==
  /\ device = "up"
  /\ device' = "down"
  /\ synced' = FALSE
  /\ UNCHANGED <<tables, selected, frame, ticks, screen, restarts>>

\* The display sees its link go, or hears no line for its own timeout: also
\* while the manager still publishes the session.
DisplayFallsBack ==
  /\ screen # Waiting
  /\ screen' = Waiting
  /\ synced' = FALSE
  /\ UNCHANGED <<tables, selected, frame, ticks, device, restarts>>

\* 'connected': nothing is pushed.
DeviceBack ==
  /\ device = "down"
  /\ device' = "up"
  /\ synced' = (screen = Waiting /\ slots = {})
  /\ UNCHANGED <<tables, selected, frame, ticks, screen, restarts>>

\* The daemon is superseded or crashes, and its successor starts.
Restart ==
  /\ restarts < MaxRestarts
  /\ restarts' = restarts + 1
  /\ slots' = {}
  /\ selected' = NoSlot
  /\ order' = {}
  /\ alias' = [x \in Sid |-> NoSlot]
  /\ known' = [s \in Slot |-> {}]
  /\ activity' = [s \in Slot |-> "working"]
  /\ frame' = [s \in Slot |-> NoFrame]
  /\ ticks' = << >>
  /\ sentIdle' = TRUE
  /\ device' = "down"
  /\ synced' = FALSE
  /\ UNCHANGED screen

AggNext ==
  \/ \E p \in Pid \cup {NoPid}, x \in Sid \cup {NoSid}, atOnce \in BOOLEAN : Ingest(p, x, atOnce)
  \/ \E i \in DOMAIN ticks : GitAnswers(i)
  \/ \E ev \in HookEvents, x \in Sid \cup {NoSid} : IngestHookEvent(ev, x)
  \/ \E s \in Slot : Tap(s)
  \/ \E E \in SUBSET slots : CheckLiveness(E)
  \/ DeviceLost \/ DisplayFallsBack \/ DeviceBack \/ Restart

AggSpec == AggInit /\ [][AggNext]_aggVars

\* git answers or times out and the manager connects again: no Claude Code
\* session has to tick again.
AggFairness ==
  /\ WF_aggVars(\E i \in DOMAIN ticks : GitAnswers(i))
  /\ WF_aggVars(DeviceBack)

FairAggSpec == AggSpec /\ AggFairness

-----------------------------------------------------------------------------
(* Properties *)

InFlight(s) == \E i \in DOMAIN ticks : ticks[i].slot = s

\* The tables that removeSlot(), ensureSlot() and rememberSessionAlias() keep by
\* hand agree: order has each pair of slots once, the foreground exists, idle was sent
\* exactly when there is no slot, and an alias leads to a slot that knows it, so
\* no hook is attributed to a session that has ended.
TablesAgree ==
  /\ order \subseteq slots \X slots
  /\ \A s, t \in slots : <<s, t>> \in order <=> s # t /\ <<t, s>> \notin order
  /\ selected \in slots \cup {NoSlot}
  /\ sentIdle <=> slots = {}
  /\ \A x \in Sid : alias[x] # NoSlot => alias[x] \in slots /\ x \in known[alias[x]]

\* Activity is sticky across ticks: whatever hooks come between the beginning of
\* a tick and git's answer, the stored frame has the badge of its slot.
BadgeIsCurrent == \A s \in Slot : frame[s] # NoFrame => frame[s].activity = activity[s]

\* A session without a frame still has a tick in flight: the frame of its first
\* tick is never lost.
FrameComes == \A s \in slots : frame[s] = NoFrame => InFlight(s)

\* A display that has got the last frame sent shows the latest frame of the
\* foreground, with the badges of all sessions, unless the foreground awaits its
\* first frame: whatever changes is sent.  Nothing is said of a display whose last
\* frame failed, or that has lost its link or fallen back since: nothing is sent
\* again for it.
ScreenIsForeground ==
  (synced /\ selected # NoSlot /\ frame[selected] # NoFrame) =>
    screen = [slot |-> selected, frame |-> frame[selected], rows |-> Rows(frame)]

\* Such a display leaves the page of a session that has ended, with the frame
\* sent at its end or with the first frame of the session that is left.
EndedLeavesScreen ==
  synced => \/ screen = Waiting
            \/ screen.slot \in slots
            \/ \E s \in slots : frame[s] = NoFrame /\ InFlight(s)

\* Ticks and hooks of other sessions, and the end of others, do not interrupt the
\* page: while the foreground lives, only a tap takes it away.
FocusIsKept ==
  [][(selected # NoSlot /\ selected \in slots') =>
       (selected' = selected \/ \E s \in Slot : Tap(s))]_aggVars

\* "stays on the status page while a session is idle-but-alive": a connected
\* display shows a session that has a frame.
LiveSessionShown ==
  (device = "up" /\ screen = Waiting /\ \E s \in slots : frame[s] # NoFrame)
    ~> (screen # Waiting \/ slots = {} \/ device = "down")

\* "on PID death sends ONE state:'idle' frame": a connected display does not show
\* a session when all have ended.
IdleShown ==
  (device = "up" /\ slots = {}) ~> (screen = Waiting \/ slots # {} \/ device = "down")

\* "statusLine ticks just update the display": a stored frame is that of the
\* newest tick that has finished.
NewestTickKept == \A s \in Slot : ~frame[s].late

\* "Tapping one opens its detail pages": a tapped session that lives becomes the
\* foreground.
TapSelects == [][\A s \in slots : Tap(s) => selected' = s]_aggVars
=============================================================================
