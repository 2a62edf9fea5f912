---------------------------- MODULE TodayHistory ----------------------------
(***************************************************************************)
(* The history part of packages/daemon/src/session-aggregator.ts: what a   *)
(* statusLine tick adds to the day's cost, the day's sessions and the burn *)
(* rate, what the end of a session takes away, and what of it is saved by  *)
(* aggregator-store.ts and restored when the daemon starts again.          *)
(*                                                                         *)
(* Costs are whole cents, so that rounding to two places changes nothing.  *)
(* Which slot is the foreground is SessionAggregator's; here it is any.    *)
(***************************************************************************)
EXTENDS Integers, FiniteSetsExt

CONSTANTS
  Slot,         \* the keys of terminal slots
  NoSlot,
  MaxBurn,      \* BURN_HISTORY_MAX
  MaxSpend,     \* the most that is spent on a day (bound)
  LastDay,      \* the last local day (bound)
  MaxRestarts   \* (bound)

ASSUME NoSlotAssumption == NoSlot \notin Slot
ASSUME BurnAssumption == MaxBurn \in Nat \ {0}

VARIABLES
  slots,      \* this.slots: the slots that exist
  selected,   \* selectedSlotId
  burn,       \* length of each burnHistory
  sampled,    \* lastSample is set
  restored,   \* length of restoredBurnHistory
  todayDay,
  base,       \* todayBaseCost
  costs,      \* todaySessionCosts
  sessions,   \* todaySessions
  saved,      \* the state file
  clock,      \* the local day (environment)
  real,       \* what each terminal's Claude Code says it has cost so far
  spent,      \* what was really spent today (history variable)
  ticked,     \* the slots that ticked today (history variable)
  lost,       \* a save has failed (history variable)
  restarts

aggHistory == <<burn, sampled, restored, todayDay, base, costs, sessions>>
ghosts     == <<clock, real, spent, ticked, lost, restarts>>
historyVars == <<slots, selected, aggHistory, saved, ghosts>>

NoDay == -1
NoCost == -1

Saved == [burn : 0..MaxBurn, cost : Nat, day : (0..LastDay) \cup {NoDay}, sessions : SUBSET Slot]
NoFile == [burn |-> 0, cost |-> 0, day |-> NoDay, sessions |-> {}]

HistoryTypeOK ==
  /\ slots \subseteq Slot
  /\ selected \in Slot \cup {NoSlot}
  /\ burn \in [Slot -> 0..MaxBurn]
  /\ sampled \in [Slot -> BOOLEAN]
  /\ restored \in 0..MaxBurn
  /\ todayDay \in (0..LastDay) \cup {NoDay}
  /\ base \in Nat
  /\ costs \in [Slot -> Nat \cup {NoCost}]
  /\ sessions \subseteq Slot
  /\ saved \in Saved
  /\ clock \in 0..LastDay
  /\ real \in [Slot -> Nat]
  /\ spent \in 0..MaxSpend
  /\ ticked \subseteq Slot
  /\ lost \in BOOLEAN
  /\ restarts \in 0..MaxRestarts

HistoryInit ==
  /\ slots = {}
  /\ selected = NoSlot
  /\ burn = [s \in Slot |-> 0]
  /\ sampled = [s \in Slot |-> FALSE]
  /\ restored = 0
  /\ todayDay = NoDay
  /\ base = 0
  /\ costs = [s \in Slot |-> NoCost]
  /\ sessions = {}
  /\ saved = NoFile
  /\ clock = 0
  /\ real = [s \in Slot |-> 0]
  /\ spent = 0
  /\ ticked = {}
  /\ lost = FALSE
  /\ restarts = 0

-----------------------------------------------------------------------------
\* currentTodayCost() for the given base and costs.
TodayCost(b, c) == b + MapThenSumSet(LAMBDA s : c[s], {s \in Slot : c[s] # NoCost})

\* Mutant: the restored history is copied and not moved.
EnsureSlotCopies(s) ==
  /\ slots' = slots \cup {s}
  /\ UNCHANGED restored

\* ensureSlot(): a new slot that is alone takes the restored burn history.
EnsureSlot(s) ==
  /\ slots' = slots \cup {s}
  /\ restored' = IF slots = {} THEN 0 ELSE restored

BurnOf(s) == IF s \in slots THEN burn[s] ELSE IF slots = {} THEN restored ELSE 0

\* A burn history of n samples takes one more and keeps the last MaxBurn.
Pushed(n) == IF n < MaxBurn THEN n + 1 ELSE n

\* Mutant: a new day starts a new cost but keeps counting the old sessions.
SessionsOfTodayKept(s) == sessions \cup {s}

\* todaySessions after a tick of s.
SessionsOfToday(s) == (IF todayDay = clock THEN sessions ELSE {}) \cup {s}

\* updateHistory(): a tick of slot s with or without a total cost; long says
\* that its last sample is more than 0.01 minutes old, fails that the state
\* file cannot be written.
UpdateHistory(s, cost, long, fails) ==
  LET sameDay == todayDay = clock
      sample  == s \in slots /\ sampled[s] /\ cost # NoCost /\ long
  IN /\ todayDay' = clock
     /\ base' = IF sameDay THEN base ELSE 0
     /\ sessions' = SessionsOfToday(s)
     /\ costs' = [x \in Slot |->
          IF x = s /\ cost # NoCost THEN cost ELSE IF sameDay THEN costs[x] ELSE NoCost]
     /\ burn' = [burn EXCEPT ![s] =
          IF sample THEN Pushed(BurnOf(s)) ELSE BurnOf(s)]
     /\ sampled' = [sampled EXCEPT ![s] = cost # NoCost \/ (s \in slots /\ @)]
     /\ saved' =
          IF fails THEN saved
          ELSE [burn |-> IF selected \in slots' THEN burn'[selected] ELSE 0,
                cost |-> TodayCost(base', costs'),
                day |-> todayDay',
                sessions |-> sessions']
     /\ lost' = (lost \/ fails)
     /\ ticked' = ticked \cup {s}

\* Mutant: what an ended session has cost is banked and not forgotten.
RemoveSlotsBanking(E) ==
  /\ slots' = slots \ E
  /\ base' = base + MapThenSumSet(LAMBDA s : costs[s], {s \in E : costs[s] # NoCost})
  /\ UNCHANGED costs
  /\ burn' = [s \in Slot |-> IF s \in E THEN 0 ELSE burn[s]]
  /\ sampled' = [s \in Slot |-> s \notin E /\ sampled[s]]

\* removeSlot() of each ended slot.
RemoveSlots(E) ==
  /\ slots' = slots \ E
  /\ costs' = [s \in Slot |-> IF s \in E THEN NoCost ELSE costs[s]]
  /\ burn' = [s \in Slot |-> IF s \in E THEN 0 ELSE burn[s]]
  /\ sampled' = [s \in Slot |-> s \notin E /\ sampled[s]]
  /\ UNCHANGED base

\* Mutant: the sessions of the file are not read.
LoadWithoutSessions(f) ==
  /\ restored' = f.burn
  /\ base' = f.cost
  /\ todayDay' = f.day
  /\ sessions' = {}

\* load(), in the constructor of a daemon that starts again.
Load(f) ==
  /\ restored' = f.burn
  /\ base' = f.cost
  /\ todayDay' = f.day
  /\ sessions' = f.sessions

\* The daemon ends and starts again; if it dies while it writes the state file,
\* load() finds no JSON in it.
Restarted(torn) ==
  /\ slots' = {}
  /\ burn' = [s \in Slot |-> 0]
  /\ sampled' = [s \in Slot |-> FALSE]
  /\ costs' = [s \in Slot |-> NoCost]
  /\ saved' = IF torn THEN NoFile ELSE saved
  /\ Load(saved')
  /\ lost' = (lost \/ torn)
  /\ restarts' = restarts + 1

-----------------------------------------------------------------------------
Tick(s) ==
  /\ EnsureSlot(s)
  /\ \E cost \in {NoCost, real[s]}, long, fails \in BOOLEAN :
       UpdateHistory(s, cost, long, fails)
  /\ selected' \in slots' \cup {selected}
  /\ UNCHANGED <<clock, real, spent, restarts>>

\* Their processes have ended, or they were silent for NO_PID_TTL_MS.
CheckLiveness(E) ==
  /\ E # {}
  /\ RemoveSlots(E)
  /\ selected' \in slots' \cup {NoSlot}
  /\ real' = [s \in Slot |-> IF s \in E THEN 0 ELSE real[s]]
  /\ UNCHANGED <<restored, todayDay, sessions, saved, clock, spent, ticked, lost, restarts>>

SetFocus(s) ==
  /\ selected' = s
  /\ UNCHANGED <<slots, aggHistory, saved, ghosts>>

Restart(torn) ==
  /\ restarts < MaxRestarts
  /\ Restarted(torn)
  /\ selected' = NoSlot
  /\ UNCHANGED <<clock, real, spent, ticked>>

\* Claude Code spends another cent, and the clock passes midnight.
Spend(s) ==
  /\ spent < MaxSpend
  /\ spent' = spent + 1
  /\ real' = [real EXCEPT ![s] = @ + 1]
  /\ UNCHANGED <<slots, selected, aggHistory, saved, clock, ticked, lost, restarts>>

Midnight ==
  /\ clock < LastDay
  /\ clock' = clock + 1
  /\ spent' = 0
  /\ ticked' = {}
  /\ UNCHANGED <<slots, selected, aggHistory, saved, real, lost, restarts>>

HistoryNext ==
  \/ \E s \in Slot : Tick(s) \/ Spend(s)
  \/ \E E \in SUBSET slots : CheckLiveness(E)
  \/ \E s \in slots : SetFocus(s)
  \/ \E torn \in BOOLEAN : Restart(torn)
  \/ Midnight

HistorySpec == HistoryInit /\ [][HistoryNext]_historyVars

-----------------------------------------------------------------------------
(* Properties *)

\* Only a slot that exists, and is one of the day's sessions, contributes to the
\* live part of today's cost: whatever order ticks, ends, midnight and restarts
\* come in, no ended session is counted there.
CostsAreOfLiveSessions ==
  \A s \in Slot : costs[s] # NoCost => s \in slots /\ s \in sessions

\* A restart keeps the number of sessions of the day exact: unless a save
\* failed, the day's sessions are those that ticked since midnight.
SessionsSurviveRestarts == (todayDay = clock /\ ~lost) => sessions = ticked

\* The burn history of the last daemon is handed to one slot only.
RestoredGoesToOne == slots # {} => restored = 0

\* Today's cost is never more than what was spent today.
NeverOverstated == todayDay = clock => TodayCost(base, costs) <= spent

\* What the store is for: the burn history that was restored stays in the file
\* until there is a newer one.
RestoredStaysSaved == [][restored > 0 => saved'.burn > 0]_historyVars
=============================================================================
