-------------------------- MODULE FlashToolProofs --------------------------
(***************************************************************************)
(* Proofs about FlashTool, for any number of flashes, entries, files and   *)
(* boards: what is flashed is what was promised, another board's firmware  *)
(* is no surprise, and no hold is left behind.                             *)
(***************************************************************************)
EXTENDS FlashTool, TLAPS

USE DEF Places, At, Goto, daemon, history

-----------------------------------------------------------------------------
(* The inductive invariant *)

\* A file is missing from todo only when the cache has it, unless it was
\* written to since; past the check nothing is left to do.
VerifiedOf(c) ==
    /\ tool[c].at \in {"prepare", "fetch", "fill"} => tool[c].entry \notin Local
    /\ tool[c].at \in {"fetch", "fill"} => tool[c].todo # {}
    /\ tool[c].at \in {"check", "hold", "ask", "find", "erase", "write"}
          => tool[c].todo = {}
    /\ /\ tool[c].at \in {"prepare", "fetch", "fill", "check", "hold", "ask",
                          "find", "erase", "write"}
       /\ c \notin raced /\ tool[c].entry \notin Local
       => \A f \in File \ tool[c].todo : cache[PathOf(tool[c].entry, f)] = Wanted(c, f)
Verified == \A c \in Flasher : VerifiedOf(c)

\* The port belongs to the flash that erases, writes or resets.
PortIsTheirs ==
    \A c \in Flasher : tool[c].at \in {"erase", "write", "reset"} => port = c

\* Who was told of a board asked the daemon, and is right unless it is unsure; who
\* goes on in spite of it was forced to.
BoardKnownTo(c) ==
    /\ tool[c].told # NoBoard => Runs(c) /\ tool[c].calls
    /\ c \notin unsure /\ tool[c].told # NoBoard => tool[c].told = device.board
    /\ tool[c].at \in {"hold", "ask", "find", "erase", "write", "reset"}
          => (Mismatch(c) => tool[c].force)
BoardKnown == \A c \in Flasher : BoardKnownTo(c)

\* A holder is past its hold and before its release, or ended without giving it back.
HoldersRelease ==
    /\ \A c \in Flasher : tool[c].at = "hold" => tool[c].calls
    /\ \A c \in Flasher : holder = c =>
          \/ tool[c].at = "dropped"
          \/ /\ up /\ tool[c].calls
             /\ tool[c].at \in {"ask", "find", "erase", "write", "reset", "release"}

IInv == TypeOK /\ Verified /\ PortIsTheirs /\ BoardKnown /\ HoldersRelease /\ FlashedAsPromised

-----------------------------------------------------------------------------
(* Types *)

LEMMA NothingTyped ==
    ASSUME NEW place \in Places
    PROVE  /\ Nothing(place) \in Knows
           /\ Nothing(place).at = place /\ Nothing(place).told = NoBoard
<1> DEFINE e == CHOOSE e \in Entry : TRUE
<1>1. e \in Entry
  BY EntryAssumption
<1>2. Nothing(place) = [at |-> place, entry |-> e, told |-> NoBoard,
                        calls |-> FALSE, force |-> FALSE, todo |-> {}]
  BY DEF Nothing
<1> HIDE DEF e
<1> QED
  BY <1>1, <1>2 DEF Knows

LEMMA TheFileIsOne ==
    ASSUME TypeOK, NEW c \in Flasher, tool[c].todo # {}
    PROVE  TheFile(c) \in tool[c].todo /\ TheFile(c) \in File
  BY DEF TheFile, TypeOK, Knows

LEMMA PathTyped ==
    ASSUME NEW e \in Entry \ Local, NEW f \in File
    PROVE  PathOf(e, f) \in Path
  BY DEF PathOf, Path

LEMMA WantedTyped ==
    ASSUME TypeOK, NEW c \in Flasher, NEW f \in File
    PROVE  Wanted(c, f) \in Content /\ Wanted(c, f) \in Text
  BY DEF Wanted, Content, Text, TypeOK, Knows

\* A process that is gone leaves nothing but its place.
LEMMA LeavesTyped ==
    ASSUME TypeOK, NEW c \in Flasher, NEW how \in {"gone", "dropped"}, Leaves(c, how)
    PROVE  /\ tool' \in [Flasher -> Knows]
           /\ port' \in Flasher \cup {NoOne, Daemon}
           /\ raced' \subseteq Flasher /\ unsure' \subseteq Flasher
           /\ tool'[c] = Nothing(how)
           /\ \A d \in Flasher \ {c} : tool'[d] = tool[d]
<1>1. Nothing(how) \in Knows
  BY NothingTyped
<1> QED
  BY <1>1 DEF Leaves, TypeOK

Devices == [board : Board, image : [File -> Text], boot : BOOLEAN]

\* A step that only moves a process.
LEMMA GotoTyped ==
    ASSUME TypeOK, NEW c \in Flasher, NEW place \in Places, Goto(c, place)
    PROVE  /\ tool' \in [Flasher -> Knows]
           /\ tool'[c].at = place /\ tool'[c].entry = tool[c].entry
           /\ tool'[c].told = tool[c].told /\ tool'[c].calls = tool[c].calls
           /\ tool'[c].force = tool[c].force /\ tool'[c].todo = tool[c].todo
           /\ \A d \in Flasher \ {c} : tool'[d] = tool[d]
  BY DEF TypeOK, Knows

LEMMA DeviceTyped ==
    ASSUME TypeOK
    PROVE  /\ device \in Devices /\ device.image \in [File -> Text]
           /\ \A x \in [File -> Text] : [device EXCEPT !.image = x] \in Devices
           /\ \A b \in BOOLEAN : [device EXCEPT !.boot = b] \in Devices
           /\ \A x \in Text : [f \in File |-> x] \in [File -> Text]
  BY DEF TypeOK, Devices

\* A file that is done.
LEMMA FilledTakesOne ==
    ASSUME TypeOK, NEW c \in Flasher, Filled(c)
    PROVE  /\ tool' \in [Flasher -> Knows]
           /\ tool'[c].at = "prepare" /\ tool'[c].entry = tool[c].entry
           /\ tool'[c].told = tool[c].told /\ tool'[c].calls = tool[c].calls
           /\ tool'[c].force = tool[c].force
           /\ tool'[c].todo = tool[c].todo \ {TheFile(c)}
           /\ \A d \in Flasher \ {c} : tool'[d] = tool[d]
<1> DEFINE left == tool[c].todo \ {TheFile(c)}
           r == [tool[c] EXCEPT !.at = "prepare", !.todo = left]
<1>1. tool[c] \in Knows /\ left \in SUBSET File
  BY DEF TypeOK, Knows
<1>2. tool' = [tool EXCEPT ![c] = r]
  BY DEF Filled
<1>3. /\ r \in Knows /\ r.at = "prepare" /\ r.entry = tool[c].entry /\ r.told = tool[c].told
      /\ r.calls = tool[c].calls /\ r.force = tool[c].force /\ r.todo = left
  <2> HIDE DEF left
  <2> QED
    BY <1>1 DEF Knows
<1> HIDE DEF r
<1> QED
  BY <1>1, <1>2, <1>3 DEF TypeOK

LEMMA CacheTyped ==
    ASSUME TypeOK, NEW p, NEW x \in Text
    PROVE  [cache EXCEPT ![p] = x] \in [Path -> Text]
  BY DEF TypeOK

LEMMA BytesTyped ==
    ASSUME TypeOK, NEW c \in Flasher, NEW f \in File
    PROVE  Bytes(c, f) \in Text
<1>1. CASE tool[c].entry \in Local
  BY <1>1, WantedTyped DEF Bytes
<1>2. CASE tool[c].entry \notin Local
  <2>1. tool[c].entry \in Entry \ Local
    BY <1>2 DEF TypeOK, Knows
  <2> QED
    BY <1>2, <2>1, PathTyped DEF Bytes, TypeOK
<1> QED
  BY <1>1, <1>2

\* A process that begins.
LEMMA BeginsTyped ==
    ASSUME TypeOK, NEW c \in Flasher, NEW calls \in BOOLEAN,
           NEW told \in Board \cup {NoBoard}, Begins(c, calls, told)
    PROVE  /\ tool' \in [Flasher -> Knows]
           /\ tool'[c].at = IF tool'[c].entry \in Local THEN "check" ELSE "prepare"
           /\ tool'[c].todo = IF tool'[c].entry \in Local THEN {} ELSE File
           /\ tool'[c].told = told /\ tool'[c].calls = calls
           /\ \A d \in Flasher \ {c} : tool'[d] = tool[d]
<1>1. PICK e \in Entry : tool' = [tool EXCEPT ![c] =
          [at |-> IF e \in Local THEN "check" ELSE "prepare", entry |-> e,
           told |-> told, calls |-> calls, force |-> FALSE,
           todo |-> IF e \in Local THEN {} ELSE File]]
  BY DEF Begins
<1> QED
  BY <1>1 DEF TypeOK, Knows

LEMMA TypeInit == Init => TypeOK
<1> SUFFICES ASSUME Init PROVE TypeOK
  OBVIOUS
<1>1. tool \in [Flasher -> Knows]
  BY NothingTyped DEF Init
<1>2. PICK b \in Board : device = [board |-> b, image |-> [f \in File |-> Garbage], boot |-> FALSE]
  BY DEF Init
<1>3. device \in [board : Board, image : [File -> Text], boot : BOOLEAN]
  BY <1>2 DEF Text
<1>4. faults \in 0 .. MaxFaults
  BY BoundsAssumption DEF Init
<1> QED
  BY <1>1, <1>3, <1>4 DEF Init, TypeOK, Text

LEMMA TypeNext == TypeOK /\ [Next]_vars => TypeOK'
<1> SUFFICES ASSUME TypeOK, [Next]_vars PROVE TypeOK'
  OBVIOUS
<1>0. CASE UNCHANGED vars
  BY <1>0 DEF TypeOK, vars
<1>1. ASSUME NEW c \in Flasher, Status(c) PROVE TypeOK'
  <2>1. PICK calls \in BOOLEAN, told \in Board \cup {NoBoard} : Begins(c, calls, told)
    BY <1>1 DEF Status, TypeOK
  <2>2. tool' \in [Flasher -> Knows]
    BY <2>1, BeginsTyped
  <2>3. unsure' \subseteq Flasher
    BY <1>1 DEF Status, TypeOK
  <2> QED
    BY <1>1, <2>2, <2>3 DEF Status, TypeOK
<1>2. ASSUME NEW c \in Flasher, Prepare(c) PROVE TypeOK'
  BY <1>2 DEF Prepare, TypeOK, Knows
<1>3. ASSUME NEW c \in Flasher, Fetched(c) PROVE TypeOK'
  <2>1. tool' \in [Flasher -> Knows]
    BY <1>3, GotoTyped DEF Fetched
  <2>2. cache' \in [Path -> Text]
    BY <1>3, CacheTyped, Blank \in Text DEF Fetched, Text
  <2> QED
    BY <1>3, <2>1, <2>2 DEF Fetched, TypeOK, Readers
<1>4. ASSUME NEW c \in Flasher, Filled(c) PROVE TypeOK'
  <2>1. tool' \in [Flasher -> Knows]
    BY <1>4, FilledTakesOne
  <2> DEFINE p == PathOf(tool[c].entry, TheFile(c))
  <2>3. PICK x \in Written(p, Wanted(c, TheFile(c))) :
            /\ cache' = [cache EXCEPT ![p] = x]
            /\ raced' = raced \cup Readers(c) \cup IF x = Garbage THEN {c} ELSE {}
    BY <1>4 DEF Filled
  <2>4. cache' \in [Path -> Text]
    <3>1. CASE p \in Path
      <4>1. TheFile(c) \in File
        BY <3>1 DEF Path, PathOf
      <4>2. x \in Text
        BY <2>3, <4>1, WantedTyped DEF Written, Text
      <4> QED
        BY <2>3, <4>2 DEF TypeOK
    <3>2. CASE p \notin Path
      BY <2>3, <3>2 DEF TypeOK
    <3> QED
      BY <3>1, <3>2
  <2>5. raced' \subseteq Flasher
    BY <2>3 DEF TypeOK, Readers
  <2> QED
    BY <1>4, <2>1, <2>4, <2>5 DEF Filled, TypeOK
<1>5. ASSUME NEW c \in Flasher, PrepareFails(c) PROVE TypeOK'
  BY <1>5, LeavesTyped DEF PrepareFails, Exit, TypeOK
<1>6. ASSUME NEW c \in Flasher, Declines(c) PROVE TypeOK'
  BY <1>6, LeavesTyped DEF Declines, Exit, TypeOK
<1>7. ASSUME NEW c \in Flasher, GoesOn(c) PROVE TypeOK'
  BY <1>7 DEF GoesOn, TypeOK, Knows, Mismatch
<1>8. ASSUME NEW c \in Flasher, Held(c) PROVE TypeOK'
  BY <1>8 DEF Held, TypeOK, Knows
<1>9. ASSUME NEW c \in Flasher, NotHeld(c) PROVE TypeOK'
  BY <1>9, LeavesTyped DEF NotHeld, Exit, TypeOK
<1>10. ASSUME NEW c \in Flasher, Entered(c) PROVE TypeOK'
  <2>1. tool' \in [Flasher -> Knows]
    BY <1>10, GotoTyped DEF Entered
  <2>2. device' \in Devices
    BY <1>10, DeviceTyped DEF Entered
  <2> QED
    BY <1>10, <2>1, <2>2 DEF Entered, TypeOK, Devices
<1>11. ASSUME NEW c \in Flasher, Opened(c) PROVE TypeOK'
  BY <1>11 DEF Opened, TypeOK, Knows
<1>12. ASSUME NEW c \in Flasher, Erased(c) PROVE TypeOK'
  <2>1. tool' \in [Flasher -> Knows]
    BY <1>12, GotoTyped DEF Erased
  <2>2. device' \in Devices
    BY <1>12, DeviceTyped, Blank \in Text DEF Erased, Text
  <2> QED
    BY <1>12, <2>1, <2>2 DEF Erased, TypeOK, Devices
<1>13. ASSUME NEW c \in Flasher, Wrote(c) PROVE TypeOK'
  <2>1. tool' \in [Flasher -> Knows]
    BY <1>13, GotoTyped DEF Wrote
  <2>2. [f \in File |-> Bytes(c, f)] \in [File -> Text]
    BY BytesTyped
  <2>3. device' \in Devices
    BY <1>13, <2>2, DeviceTyped DEF Wrote
  <2> QED
    BY <1>13, <2>1, <2>3 DEF Wrote, TypeOK, Devices
<1>14. ASSUME NEW c \in Flasher, Reset(c) PROVE TypeOK'
  <2>1. tool' \in [Flasher -> Knows]
    BY <1>14, GotoTyped DEF Reset
  <2>2. device' \in Devices
    BY <1>14, DeviceTyped DEF Reset
  <2> QED
    BY <1>14, <2>1, <2>2 DEF Reset, TypeOK, Devices
<1>15. ASSUME NEW c \in Flasher, FlashFails(c) PROVE TypeOK'
  <2>1. tool' \in [Flasher -> Knows]
    BY <1>15, GotoTyped DEF FlashFails
  <2>2. device' \in Devices
    BY <1>15, DeviceTyped, Garbage \in Text DEF FlashFails, Text
  <2>3. port' \in Flasher \cup {NoOne, Daemon}
    BY <1>15 DEF FlashFails, TypeOK
  <2> QED
    BY <1>15, <2>1, <2>2, <2>3 DEF FlashFails, TypeOK, Devices
<1>16. ASSUME NEW c \in Flasher, Release(c) PROVE TypeOK'
  BY <1>16 DEF Release, TypeOK, Knows
<1>17. ASSUME NEW c \in Flasher, Ends(c) PROVE TypeOK'
  BY <1>17, LeavesTyped DEF Ends, Exit, TypeOK
<1>18. ASSUME NEW c \in Flasher, Killed(c) PROVE TypeOK'
  BY <1>18, LeavesTyped, BoundsAssumption DEF Killed, TypeOK
<1>22. ASSUME NEW c \in Flasher, PromptEnds(c) \/ ReleaseFails(c) PROVE TypeOK'
  BY <1>22, LeavesTyped DEF PromptEnds, ReleaseFails, TypeOK
<1>19. CASE DaemonStarts \/ Connects \/ ConnectsElsewhere \/ LinkEnds \/ HoldExpires
  BY <1>19 DEF DaemonStarts, Connects, ConnectsElsewhere, LinkEnds, HoldExpires, TypeOK
<1>21. CASE DaemonDies
  <2>1. faults' \in 0 .. MaxFaults
    BY <1>21, BoundsAssumption DEF DaemonDies, TypeOK
  <2> QED
    BY <1>21, <2>1 DEF DaemonDies, TypeOK
<1>20. CASE Swap
  BY <1>20, BoundsAssumption DEF Swap, TypeOK, Text
<1> QED
  BY <1>0, <1>1, <1>2, <1>3, <1>4, <1>5, <1>6, <1>7, <1>8, <1>9, <1>10, <1>11, <1>12, <1>13,
     <1>14, <1>15, <1>16, <1>17, <1>18, <1>19, <1>20, <1>21, <1>22 DEF Next, ToolStep

-----------------------------------------------------------------------------
(* What each step does to the process that takes it *)

LEMMA StatusTells ==
    ASSUME TypeOK, NEW c \in Flasher, Status(c)
    PROVE  /\ tool[c].at = "new"
           /\ tool'[c].at = IF tool'[c].entry \in Local THEN "check" ELSE "prepare"
           /\ tool'[c].todo = IF tool'[c].entry \in Local THEN {} ELSE File
           /\ tool'[c].told # NoBoard => tool'[c].calls
           /\ tool'[c].told # NoBoard /\ c \notin unsure' => tool'[c].told = device.board
           /\ tool'[c].calls => up
           /\ unsure' \in {unsure, unsure \cup {c}}
           /\ \A d \in Flasher \ {c} : tool'[d] = tool[d]
           /\ UNCHANGED <<cache, daemon, port, device, faults, raced>>
<1>1. CASE Begins(c, FALSE, NoBoard) /\ UNCHANGED unsure
  BY <1>1, BeginsTyped DEF Status
<1>2. CASE up /\ Begins(c, TRUE, device.board) /\ UNCHANGED unsure
  <2>1. device.board \in Board
    BY DEF TypeOK
  <2> QED
    BY <1>2, <2>1, BeginsTyped DEF Status
<1>3. CASE /\ up /\ Begins(c, TRUE, elsewhere)
           /\ unsure' = IF elsewhere = NoBoard THEN unsure ELSE unsure \cup {c}
  <2>1. elsewhere \in Board \cup {NoBoard}
    BY DEF TypeOK
  <2> QED
    BY <1>3, <2>1, BeginsTyped DEF Status
<1> QED
  BY <1>1, <1>2, <1>3 DEF Status

LEMMA PrepareGoesOn ==
    ASSUME TypeOK, NEW c \in Flasher, Prepare(c)
    PROVE  /\ tool[c].at = "prepare"
           /\ tool'[c].entry = tool[c].entry /\ tool'[c].told = tool[c].told
           /\ tool'[c].calls = tool[c].calls /\ tool'[c].force = tool[c].force
           /\ \/ tool'[c].at = "check" /\ tool[c].todo = {} /\ tool'[c].todo = {}
              \/ /\ tool'[c].at = "prepare" /\ tool'[c].todo = tool[c].todo \ {TheFile(c)}
                 /\ cache[PathOf(tool[c].entry, TheFile(c))] = Wanted(c, TheFile(c))
              \/ tool'[c].at = "fetch" /\ tool[c].todo # {} /\ tool'[c].todo = tool[c].todo
           /\ \A d \in Flasher \ {c} : tool'[d] = tool[d]
           /\ UNCHANGED <<cache, daemon, port, device, faults, history>>
<1>1. CASE tool[c].todo = {} /\ Goto(c, "check")
  BY <1>1, GotoTyped DEF Prepare
<1>2. CASE /\ tool[c].todo # {} /\ Cached(c, TheFile(c))
           /\ tool' = [tool EXCEPT ![c].todo = tool[c].todo \ {TheFile(c)}]
  BY <1>2 DEF Prepare, TypeOK, Knows, Cached
<1>3. CASE tool[c].todo # {} /\ Goto(c, "fetch")
  BY <1>3, GotoTyped DEF Prepare
<1> QED
  BY <1>1, <1>2, <1>3 DEF Prepare

LEMMA GoesOnForced ==
    ASSUME TypeOK, NEW c \in Flasher, GoesOn(c)
    PROVE  /\ tool[c].at = "check"
           /\ tool'[c].at = IF tool[c].calls THEN "hold" ELSE "ask"
           /\ tool'[c].entry = tool[c].entry /\ tool'[c].told = tool[c].told
           /\ tool'[c].calls = tool[c].calls /\ tool'[c].todo = tool[c].todo
           /\ tool'[c].force <=> Mismatch(c)
           /\ \A d \in Flasher \ {c} : tool'[d] = tool[d]
           /\ UNCHANGED <<cache, daemon, port, device, faults, history>>
  BY DEF GoesOn, TypeOK, Knows, Mismatch

-----------------------------------------------------------------------------
(* Verified *)

\* A step that leaves the cache alone can only harm the claim about its process.
LEMMA OthersVerified ==
    ASSUME TypeOK, Verified, NEW c \in Flasher, UNCHANGED cache,
           \A d \in Flasher \ {c} : tool'[d] = tool[d],
           raced' \in {raced, raced \ {c}}, VerifiedOf(c)'
    PROVE  Verified'
<1> SUFFICES ASSUME NEW d \in Flasher \ {c} PROVE VerifiedOf(d)'
  BY DEF Verified
<1>1. VerifiedOf(d) /\ tool'[d] = tool[d] /\ (d \in raced' <=> d \in raced)
  BY DEF Verified
<1> QED
  BY <1>1 DEF VerifiedOf, Wanted

\* A process that moves on with nothing left, or that is past its write.
LEMMA MovesVerified ==
    ASSUME TypeOK, Verified, NEW c \in Flasher, NEW place \in Places, Goto(c, place),
           UNCHANGED <<cache, raced>>,
           \/ /\ tool[c].at \in {"check", "hold", "ask", "find", "erase"}
              /\ place \in {"check", "hold", "ask", "find", "erase", "write"}
           \/ place \in {"reset", "release", "exit"}
    PROVE  Verified'
<1>1. VerifiedOf(c) /\ UNCHANGED cache
  BY DEF Verified
<1>2. /\ tool'[c].at = place /\ tool'[c].entry = tool[c].entry /\ tool'[c].todo = tool[c].todo
      /\ \A d \in Flasher \ {c} : tool'[d] = tool[d]
  BY GotoTyped
<1>3. VerifiedOf(c)'
  <2>1. CASE place \in {"reset", "release", "exit"}
    BY <1>2, <2>1 DEF VerifiedOf
  <2>2. CASE /\ tool[c].at \in {"check", "hold", "ask", "find", "erase"}
             /\ place \in {"check", "hold", "ask", "find", "erase", "write"}
    BY <1>1, <1>2, <2>2 DEF VerifiedOf, Wanted
  <2> QED
    BY <2>1, <2>2
<1> QED
  BY <1>2, <1>3, OthersVerified

LEMMA LeavesVerified ==
    ASSUME TypeOK, Verified, NEW c \in Flasher, NEW how \in {"gone", "dropped"},
           Leaves(c, how), UNCHANGED cache
    PROVE  Verified'
<1>1. tool'[c].at = how
  BY LeavesTyped, NothingTyped
<1>2. VerifiedOf(c)'
  BY <1>1 DEF VerifiedOf
<1> QED
  BY <1>2, LeavesTyped, OthersVerified DEF Leaves

\* Whoever writes into the cache makes the readers of that file raced.
LEMMA ReadersRaced ==
    ASSUME TypeOK, Verified, NEW c \in Flasher, NEW x, NEW d \in Flasher \ {c},
           cache' = [cache EXCEPT ![PathOf(tool[c].entry, TheFile(c))] = x],
           tool'[d] = tool[d],
           raced' \cup {c} = raced \cup Readers(c) \cup {c}
    PROVE  VerifiedOf(d)'
<1>1. VerifiedOf(d)
  BY DEF Verified
<1>2. SUFFICES ASSUME tool[d].at \in {"prepare", "fetch", "fill", "check", "hold", "ask",
                                      "find", "erase", "write"},
                      d \notin raced', tool[d].entry \notin Local,
                      NEW f \in File \ tool[d].todo
               PROVE  cache'[PathOf(tool[d].entry, f)] = Wanted(d, f)
  BY <1>1 DEF VerifiedOf, Wanted
<1>3. d \notin raced /\ d \notin Readers(c)
  BY <1>2
<1>4. Slot[tool[d].entry] # Slot[tool[c].entry] \/ TheFile(c) \in tool[d].todo
  BY <1>2, <1>3 DEF Readers, Runs
<1>5. PathOf(tool[d].entry, f) # PathOf(tool[c].entry, TheFile(c))
  BY <1>2, <1>4 DEF PathOf
<1>6. cache[PathOf(tool[d].entry, f)] = Wanted(d, f)
  BY <1>1, <1>2, <1>3 DEF VerifiedOf
<1>7. PathOf(tool[d].entry, f) \in Path
  BY <1>2, PathTyped DEF TypeOK, Knows
<1> QED
  BY <1>5, <1>6, <1>7 DEF TypeOK

LEMMA FetchedVerified ==
    ASSUME TypeOK, Verified, NEW c \in Flasher, Fetched(c) PROVE Verified'
<1>1. Goto(c, "fill") /\ VerifiedOf(c) /\ tool[c].at = "fetch"
  BY DEF Fetched, Verified
<1>2. ASSUME NEW d \in Flasher \ {c} PROVE VerifiedOf(d)'
  BY <1>1, <1>2, GotoTyped, ReadersRaced DEF Fetched
<1>3. VerifiedOf(c)'
  <2>1. SUFFICES ASSUME c \notin raced', NEW f \in File \ tool[c].todo
                 PROVE  cache'[PathOf(tool[c].entry, f)] = Wanted(c, f)
    <3>1. /\ tool'[c].at = "fill" /\ tool'[c].entry = tool[c].entry
          /\ tool'[c].todo = tool[c].todo
      BY <1>1, GotoTyped
    <3> QED
      BY <1>1, <3>1 DEF VerifiedOf, Wanted
  <2>2. c \notin raced /\ tool[c].entry \notin Local /\ tool[c].todo # {}
    BY <1>1, <2>1 DEF Fetched, VerifiedOf
  <2>3. cache[PathOf(tool[c].entry, f)] = Wanted(c, f)
    BY <1>1, <2>1, <2>2 DEF VerifiedOf
  <2>4. PathOf(tool[c].entry, f) # PathOf(tool[c].entry, TheFile(c))
    BY <2>1, <2>2, TheFileIsOne DEF PathOf
  <2>5. PathOf(tool[c].entry, f) \in Path
    BY <2>1, <2>2, PathTyped DEF TypeOK, Knows
  <2> QED
    BY <2>3, <2>4, <2>5 DEF Fetched, TypeOK
<1> QED
  BY <1>2, <1>3 DEF Verified

LEMMA FilledVerified ==
    ASSUME TypeOK, Verified, NEW c \in Flasher, Filled(c) PROVE Verified'
<1> DEFINE g == TheFile(c)
           p == PathOf(tool[c].entry, g)
<1>1. VerifiedOf(c) /\ tool[c].at = "fill"
  BY DEF Filled, Verified
<1>2. tool[c].entry \notin Local /\ tool[c].todo # {}
  BY <1>1 DEF VerifiedOf
<1>3. g \in tool[c].todo /\ g \in File
  BY <1>2, TheFileIsOne
<1>4. PICK x \in Written(p, Wanted(c, g)) :
          /\ cache' = [cache EXCEPT ![p] = x]
          /\ raced' = raced \cup Readers(c) \cup IF x = Garbage THEN {c} ELSE {}
  BY DEF Filled
<1>5. ASSUME NEW d \in Flasher \ {c} PROVE VerifiedOf(d)'
  <2>1. raced' \cup {c} = raced \cup Readers(c) \cup {c}
    BY <1>4
  <2> QED
    BY <1>4, <1>5, <2>1, FilledTakesOne, ReadersRaced
<1>6. VerifiedOf(c)'
  <2>1. SUFFICES ASSUME c \notin raced', NEW f \in File \ (tool[c].todo \ {g})
                 PROVE  cache'[PathOf(tool[c].entry, f)] = Wanted(c, f)
    BY <1>2, FilledTakesOne DEF VerifiedOf, Wanted
  <2>2. c \notin raced /\ x # Garbage
    BY <1>4, <2>1
  <2>3. x = Wanted(c, g)
    BY <1>4, <2>2 DEF Written
  <2>4. PathOf(tool[c].entry, f) \in Path
    BY <1>2, PathTyped DEF TypeOK, Knows
  <2>5. CASE f = g
    BY <1>4, <2>3, <2>4, <2>5 DEF TypeOK
  <2>6. CASE f # g
    <3>1. PathOf(tool[c].entry, f) # p
      BY <2>6 DEF PathOf
    <3>2. cache[PathOf(tool[c].entry, f)] = Wanted(c, f)
      BY <1>1, <1>2, <2>1, <2>2, <2>6 DEF VerifiedOf
    <3> QED
      BY <1>4, <2>4, <3>1, <3>2 DEF TypeOK
  <2> QED
    BY <2>5, <2>6
<1> QED
  BY <1>5, <1>6 DEF Verified

LEMMA VerifiedNext == TypeOK /\ Verified /\ [Next]_vars => Verified'
<1> SUFFICES ASSUME TypeOK, Verified, [Next]_vars PROVE Verified'
  OBVIOUS
<1>1. CASE UNCHANGED <<tool, cache, raced>>
  BY <1>1 DEF Verified, VerifiedOf, Wanted
<1>2. ASSUME NEW c \in Flasher, Status(c) PROVE Verified'
  <2>1. VerifiedOf(c)'
    BY <1>2, StatusTells DEF VerifiedOf
  <2> QED
    BY <1>2, <2>1, StatusTells, OthersVerified
<1>3. ASSUME NEW c \in Flasher, Prepare(c) PROVE Verified'
  <2>1. VerifiedOf(c) /\ UNCHANGED <<cache, raced>>
    BY <1>3, PrepareGoesOn DEF Verified
  <2>2. VerifiedOf(c)'
    BY <1>3, <2>1, PrepareGoesOn DEF VerifiedOf, Wanted
  <2> QED
    BY <1>3, <2>1, <2>2, PrepareGoesOn, OthersVerified
<1>4. ASSUME NEW c \in Flasher, Fetched(c) \/ Filled(c) PROVE Verified'
  BY <1>4, FetchedVerified, FilledVerified
<1>5. ASSUME NEW c \in Flasher,
             \/ PrepareFails(c) \/ Declines(c) \/ NotHeld(c) \/ Ends(c)
             \/ Killed(c) \/ PromptEnds(c) \/ ReleaseFails(c)
      PROVE  Verified'
  BY <1>5, LeavesVerified DEF PrepareFails, Declines, NotHeld, Ends, Killed, PromptEnds, ReleaseFails, Exit
<1>6. ASSUME NEW c \in Flasher, GoesOn(c) PROVE Verified'
  <2>1. VerifiedOf(c) /\ UNCHANGED <<cache, raced>>
    BY <1>6, GoesOnForced DEF Verified
  <2>2. VerifiedOf(c)'
    BY <1>6, <2>1, GoesOnForced DEF VerifiedOf, Wanted
  <2> QED
    BY <1>6, <2>1, <2>2, GoesOnForced, OthersVerified
<1>7. ASSUME NEW c \in Flasher, Held(c) PROVE Verified'
  BY <1>7, MovesVerified DEF Held
<1>8. ASSUME NEW c \in Flasher, Entered(c) PROVE Verified'
  BY <1>8, MovesVerified DEF Entered
<1>9. ASSUME NEW c \in Flasher, Opened(c) PROVE Verified'
  BY <1>9, MovesVerified DEF Opened
<1>10. ASSUME NEW c \in Flasher, Erased(c) PROVE Verified'
  BY <1>10, MovesVerified DEF Erased
<1>11. ASSUME NEW c \in Flasher, Wrote(c) \/ Reset(c) PROVE Verified'
  BY <1>11, MovesVerified DEF Wrote, Reset
<1>12. ASSUME NEW c \in Flasher, FlashFails(c) \/ Release(c) PROVE Verified'
  BY <1>12, MovesVerified DEF FlashFails, Release
<1>13. CASE \/ DaemonStarts \/ DaemonDies \/ Connects \/ ConnectsElsewhere \/ LinkEnds
            \/ HoldExpires \/ Swap
  BY <1>1, <1>13 DEF DaemonStarts, DaemonDies, Connects, ConnectsElsewhere, LinkEnds, HoldExpires, Swap
<1> QED
  BY <1>1, <1>2, <1>3, <1>4, <1>5, <1>6, <1>7, <1>8, <1>9, <1>10, <1>11, <1>12, <1>13
  DEF Next, ToolStep, vars

-----------------------------------------------------------------------------
(* The port and the hold *)

\* What a process that leaves does to the others.
LEMMA LeavesAlone ==
    ASSUME TypeOK, NEW c \in Flasher, NEW how \in {"gone", "dropped"}, Leaves(c, how)
    PROVE  /\ tool'[c].at = how /\ tool'[c].told = NoBoard
           /\ \A d \in Flasher \ {c} : tool'[d] = tool[d]
           /\ \A d \in Flasher \ {c} : port' = d <=> port = d
           /\ raced' = raced \ {c} /\ unsure' = unsure \ {c}
<1>1. tool'[c].at = how /\ tool'[c].told = NoBoard
  BY LeavesTyped, NothingTyped
<1>2. \A d \in Flasher \ {c} : tool'[d] = tool[d]
  BY LeavesTyped
<1>3. port' = IF port = c THEN NoOne ELSE port
  BY DEF Leaves
<1>4. ASSUME NEW d \in Flasher \ {c} PROVE port' = d <=> port = d
  BY <1>3, OwnerAssumption
<1>5. raced' = raced \ {c} /\ unsure' = unsure \ {c}
  BY DEF Leaves
<1> QED
  BY <1>1, <1>2, <1>4, <1>5

LEMMA PortIsTheirsNext == TypeOK /\ PortIsTheirs /\ [Next]_vars => PortIsTheirs'
<1> SUFFICES ASSUME TypeOK, PortIsTheirs, [Next]_vars PROVE PortIsTheirs'
  OBVIOUS
<1>1. CASE UNCHANGED <<tool, port>>
  BY <1>1 DEF PortIsTheirs
<1>2. ASSUME NEW c \in Flasher, Status(c) PROVE PortIsTheirs'
  BY <1>2, StatusTells DEF PortIsTheirs
<1>3. ASSUME NEW c \in Flasher, Prepare(c) PROVE PortIsTheirs'
  BY <1>3, PrepareGoesOn DEF PortIsTheirs
<1>4. ASSUME NEW c \in Flasher, Fetched(c) PROVE PortIsTheirs'
  BY <1>4, GotoTyped DEF Fetched, PortIsTheirs
<1>5. ASSUME NEW c \in Flasher, Filled(c) PROVE PortIsTheirs'
  BY <1>5, FilledTakesOne DEF Filled, PortIsTheirs
<1>6. ASSUME NEW c \in Flasher,
             \/ PrepareFails(c) \/ Declines(c) \/ NotHeld(c) \/ Ends(c)
             \/ Killed(c) \/ PromptEnds(c) \/ ReleaseFails(c)
      PROVE  PortIsTheirs'
  <2>1. PICK how \in {"gone", "dropped"} : Leaves(c, how)
    BY <1>6 DEF PrepareFails, Declines, NotHeld, Ends, Killed, PromptEnds, ReleaseFails, Exit
  <2> QED
    BY <2>1, LeavesAlone DEF PortIsTheirs
<1>7. ASSUME NEW c \in Flasher, GoesOn(c) PROVE PortIsTheirs'
  BY <1>7, GoesOnForced DEF PortIsTheirs
<1>8. ASSUME NEW c \in Flasher, Held(c) PROVE PortIsTheirs'
  BY <1>8, GotoTyped, OwnerAssumption DEF Held, PortIsTheirs
<1>9. ASSUME NEW c \in Flasher, Entered(c) PROVE PortIsTheirs'
  BY <1>9, GotoTyped, OwnerAssumption DEF Entered, PortIsTheirs
<1>10. ASSUME NEW c \in Flasher, Opened(c) PROVE PortIsTheirs'
  BY <1>10, GotoTyped, OwnerAssumption DEF Opened, PortIsTheirs
<1>11. ASSUME NEW c \in Flasher, Erased(c) PROVE PortIsTheirs'
  BY <1>11, GotoTyped DEF Erased, PortIsTheirs
<1>12. ASSUME NEW c \in Flasher, Wrote(c) PROVE PortIsTheirs'
  BY <1>12, GotoTyped DEF Wrote, PortIsTheirs
<1>13. ASSUME NEW c \in Flasher, Reset(c) PROVE PortIsTheirs'
  <2>1. \A d \in Flasher \ {c} : tool'[d] = tool[d]
    BY <1>13, GotoTyped DEF Reset
  <2>2. tool'[c].at = "release" /\ port = c
    BY <1>13, GotoTyped DEF Reset, PortIsTheirs
  <2> QED
    BY <2>1, <2>2 DEF PortIsTheirs
<1>14. ASSUME NEW c \in Flasher, FlashFails(c) PROVE PortIsTheirs'
  <2>1. port' = port \/ port = NoOne
    BY <1>14 DEF FlashFails
  <2> QED
    BY <1>14, <2>1, GotoTyped, OwnerAssumption DEF FlashFails, PortIsTheirs
<1>15. ASSUME NEW c \in Flasher, Release(c) PROVE PortIsTheirs'
  BY <1>15, GotoTyped DEF Release, PortIsTheirs
<1>16. CASE DaemonDies \/ Connects \/ LinkEnds \/ Swap
  BY <1>16, OwnerAssumption DEF DaemonDies, Connects, LinkEnds, Swap, PortIsTheirs
<1>17. CASE DaemonStarts \/ ConnectsElsewhere \/ HoldExpires
  BY <1>1, <1>17 DEF DaemonStarts, ConnectsElsewhere, HoldExpires
<1> QED
  BY <1>1, <1>2, <1>3, <1>4, <1>5, <1>6, <1>7, <1>8, <1>9, <1>10, <1>11, <1>12, <1>13,
     <1>14, <1>15, <1>16, <1>17 DEF Next, ToolStep, vars

LEMMA HoldersReleaseNext == TypeOK /\ HoldersRelease /\ [Next]_vars => HoldersRelease'
<1> SUFFICES ASSUME TypeOK, HoldersRelease, [Next]_vars PROVE HoldersRelease'
  OBVIOUS
<1>1. CASE UNCHANGED <<tool, up, holder>>
  BY <1>1 DEF HoldersRelease
<1>2. ASSUME NEW c \in Flasher, Status(c) PROVE HoldersRelease'
  BY <1>2, StatusTells DEF HoldersRelease
<1>3. ASSUME NEW c \in Flasher, Prepare(c) PROVE HoldersRelease'
  BY <1>3, PrepareGoesOn DEF HoldersRelease
<1>4. ASSUME NEW c \in Flasher, Fetched(c) PROVE HoldersRelease'
  BY <1>4, GotoTyped DEF Fetched, HoldersRelease
<1>5. ASSUME NEW c \in Flasher, Filled(c) PROVE HoldersRelease'
  BY <1>5, FilledTakesOne DEF Filled, HoldersRelease
<1>6. ASSUME NEW c \in Flasher, PrepareFails(c) \/ Declines(c) \/ NotHeld(c) \/ Ends(c)
      PROVE  HoldersRelease'
  <2>1. Leaves(c, "gone") /\ UNCHANGED <<up, holder>>
    BY <1>6 DEF PrepareFails, Declines, NotHeld, Ends, Exit
  <2>2. holder # c
    BY <1>6 DEF PrepareFails, Declines, NotHeld, Ends, HoldersRelease
  <2> QED
    BY <2>1, <2>2, LeavesAlone DEF HoldersRelease
<1>7. ASSUME NEW c \in Flasher, Killed(c) \/ PromptEnds(c) \/ ReleaseFails(c)
      PROVE  HoldersRelease'
  <2>1. Leaves(c, "dropped") /\ UNCHANGED <<up, holder>>
    BY <1>7 DEF Killed, PromptEnds, ReleaseFails
  <2> QED
    BY <2>1, LeavesAlone DEF HoldersRelease
<1>8. ASSUME NEW c \in Flasher, GoesOn(c) PROVE HoldersRelease'
  BY <1>8, GoesOnForced DEF HoldersRelease
<1>9. ASSUME NEW c \in Flasher, Held(c) PROVE HoldersRelease'
  <2>1. \A d \in Flasher \ {c} : tool'[d] = tool[d]
    BY <1>9, GotoTyped DEF Held
  <2>2. tool'[c].at = "ask" /\ tool'[c].calls /\ up'
    BY <1>9, GotoTyped DEF Held, HoldersRelease
  <2>3. holder' = c
    BY <1>9 DEF Held
  <2> QED
    BY <2>1, <2>2, <2>3 DEF HoldersRelease
<1>10. ASSUME NEW c \in Flasher, Entered(c) PROVE HoldersRelease'
  BY <1>10, GotoTyped DEF Entered, HoldersRelease
<1>11. ASSUME NEW c \in Flasher, Opened(c) \/ Erased(c) \/ Wrote(c) \/ Reset(c)
       PROVE  HoldersRelease'
  BY <1>11, GotoTyped DEF Opened, Erased, Wrote, Reset, HoldersRelease
<1>12. ASSUME NEW c \in Flasher, FlashFails(c) PROVE HoldersRelease'
  BY <1>12, GotoTyped DEF FlashFails, HoldersRelease
<1>13. ASSUME NEW c \in Flasher, Release(c) PROVE HoldersRelease'
  <2>1. holder' # c
    BY <1>13, OwnerAssumption DEF Release, HoldersRelease
  <2>2. holder' \in {holder, NoOne}
    BY <1>13 DEF Release
  <2> QED
    BY <1>13, <2>1, <2>2, GotoTyped, OwnerAssumption DEF Release, HoldersRelease
<1>14. CASE DaemonDies \/ HoldExpires
  BY <1>14, OwnerAssumption DEF DaemonDies, HoldExpires, HoldersRelease
<1>15. CASE DaemonStarts
  BY <1>15 DEF DaemonStarts, HoldersRelease
<1>16. CASE Connects \/ ConnectsElsewhere \/ LinkEnds \/ Swap
  BY <1>1, <1>16 DEF Connects, ConnectsElsewhere, LinkEnds, Swap
<1> QED
  BY <1>1, <1>2, <1>3, <1>4, <1>5, <1>6, <1>7, <1>8, <1>9, <1>10, <1>11, <1>12, <1>13,
     <1>14, <1>15, <1>16 DEF Next, ToolStep, vars

-----------------------------------------------------------------------------
(* The board *)

\* A step that leaves the boards alone can only harm the claim about its process.
LEMMA OthersKnow ==
    ASSUME BoardKnown, NEW c \in Flasher, device'.board = device.board,
           \A d \in Flasher \ {c} : tool'[d] = tool[d],
           unsure' \in {unsure, unsure \ {c}, unsure \cup {c}}, BoardKnownTo(c)'
    PROVE  BoardKnown'
<1> SUFFICES ASSUME NEW d \in Flasher \ {c} PROVE BoardKnownTo(d)'
  BY DEF BoardKnown
<1>1. BoardKnownTo(d) /\ tool'[d] = tool[d] /\ (d \in unsure' <=> d \in unsure)
  BY DEF BoardKnown
<1> QED
  BY <1>1 DEF BoardKnownTo, Runs, Mismatch

\* A process that keeps what it knows and does not go on past its check.
LEMMA KnowsAsBefore ==
    ASSUME BoardKnown, NEW c \in Flasher, device'.board = device.board,
           \A d \in Flasher \ {c} : tool'[d] = tool[d], UNCHANGED unsure,
           tool'[c].told = tool[c].told, tool'[c].entry = tool[c].entry,
           tool'[c].calls <=> tool[c].calls, tool'[c].force <=> tool[c].force,
           tool'[c].at \notin {"new", "gone", "dropped"},
           tool'[c].at \in {"hold", "ask", "find", "erase", "write", "reset"}
              => tool[c].at \in {"hold", "ask", "find", "erase", "write", "reset"}
    PROVE  BoardKnown'
<1>1. BoardKnownTo(c)
  BY DEF BoardKnown
<1>2. BoardKnownTo(c)'
  BY <1>1 DEF BoardKnownTo, Runs, Mismatch
<1> QED
  BY <1>2, OthersKnow

LEMMA MovesKnowing ==
    ASSUME TypeOK, BoardKnown, NEW c \in Flasher, NEW place \in Places, Goto(c, place),
           device'.board = device.board, UNCHANGED unsure,
           place \notin {"new", "gone", "dropped"},
           place \in {"hold", "ask", "find", "erase", "write", "reset"}
              => tool[c].at \in {"hold", "ask", "find", "erase", "write", "reset"}
    PROVE  BoardKnown'
<1>1. /\ tool'[c].at = place /\ tool'[c].entry = tool[c].entry
      /\ tool'[c].told = tool[c].told /\ tool'[c].calls = tool[c].calls
      /\ tool'[c].force = tool[c].force
      /\ \A d \in Flasher \ {c} : tool'[d] = tool[d]
  BY GotoTyped
<1> QED
  BY <1>1, KnowsAsBefore

LEMMA BoardKnownNext == TypeOK /\ BoardKnown /\ [Next]_vars => BoardKnown'
<1> SUFFICES ASSUME TypeOK, BoardKnown, [Next]_vars PROVE BoardKnown'
  OBVIOUS
<1>1. CASE UNCHANGED <<tool, device, unsure>>
  BY <1>1 DEF BoardKnown, BoardKnownTo, Runs, Mismatch
<1>2. ASSUME NEW c \in Flasher, Status(c) PROVE BoardKnown'
  <2>1. tool'[c].at \in {"check", "prepare"}
    BY <1>2, StatusTells
  <2>2. /\ tool'[c].told # NoBoard => tool'[c].calls
        /\ tool'[c].told # NoBoard /\ c \notin unsure' => tool'[c].told = device'.board
    BY <1>2, StatusTells
  <2>3. BoardKnownTo(c)'
    BY <2>1, <2>2 DEF BoardKnownTo, Runs
  <2> QED
    BY <1>2, <2>3, StatusTells, OthersKnow
<1>3. ASSUME NEW c \in Flasher, Prepare(c) PROVE BoardKnown'
  BY <1>3, PrepareGoesOn, KnowsAsBefore
<1>4. ASSUME NEW c \in Flasher, Fetched(c) PROVE BoardKnown'
  BY <1>4, MovesKnowing DEF Fetched
<1>5. ASSUME NEW c \in Flasher, Filled(c) PROVE BoardKnown'
  BY <1>5, FilledTakesOne, KnowsAsBefore DEF Filled
<1>6. ASSUME NEW c \in Flasher,
             \/ PrepareFails(c) \/ Declines(c) \/ NotHeld(c) \/ Ends(c)
             \/ Killed(c) \/ PromptEnds(c) \/ ReleaseFails(c)
      PROVE  BoardKnown'
  <2>1. PICK how \in {"gone", "dropped"} : Leaves(c, how)
    BY <1>6 DEF PrepareFails, Declines, NotHeld, Ends, Killed, PromptEnds, ReleaseFails, Exit
  <2>2. UNCHANGED device
    BY <1>6 DEF PrepareFails, Declines, NotHeld, Ends, Killed, PromptEnds, ReleaseFails
  <2>3. BoardKnownTo(c)'
    BY <2>1, LeavesAlone DEF BoardKnownTo
  <2> QED
    BY <2>1, <2>2, <2>3, LeavesAlone, OthersKnow
<1>7. ASSUME NEW c \in Flasher, GoesOn(c) PROVE BoardKnown'
  <2>1. BoardKnownTo(c)
    BY DEF BoardKnown
  <2>2. tool'[c].force <=> Mismatch(c)'
    BY <1>7, GoesOnForced DEF Mismatch
  <2>3. tool'[c].at \in {"hold", "ask"}
    BY <1>7, GoesOnForced
  <2>4. BoardKnownTo(c)'
    BY <1>7, <2>1, <2>2, <2>3, GoesOnForced DEF BoardKnownTo, Runs
  <2> QED
    BY <1>7, <2>4, GoesOnForced, OthersKnow
<1>8. ASSUME NEW c \in Flasher, Held(c) PROVE BoardKnown'
  BY <1>8, MovesKnowing DEF Held
<1>9. ASSUME NEW c \in Flasher, Entered(c) PROVE BoardKnown'
  <2>1. device'.board = device.board
    BY <1>9 DEF Entered, TypeOK
  <2> QED
    BY <1>9, <2>1, MovesKnowing DEF Entered
<1>10. ASSUME NEW c \in Flasher, Opened(c) PROVE BoardKnown'
  BY <1>10, MovesKnowing DEF Opened
<1>11. ASSUME NEW c \in Flasher, Erased(c) PROVE BoardKnown'
  <2>1. device'.board = device.board
    BY <1>11 DEF Erased, TypeOK
  <2> QED
    BY <1>11, <2>1, MovesKnowing DEF Erased
<1>12. ASSUME NEW c \in Flasher, Wrote(c) PROVE BoardKnown'
  <2>1. device'.board = device.board
    BY <1>12 DEF Wrote, TypeOK
  <2> QED
    BY <1>12, <2>1, MovesKnowing DEF Wrote
<1>13. ASSUME NEW c \in Flasher, Reset(c) PROVE BoardKnown'
  <2>1. device'.board = device.board
    BY <1>13 DEF Reset, TypeOK
  <2> QED
    BY <1>13, <2>1, MovesKnowing DEF Reset
<1>14. ASSUME NEW c \in Flasher, FlashFails(c) PROVE BoardKnown'
  <2>1. device'.board = device.board
    BY <1>14 DEF FlashFails, TypeOK
  <2> QED
    BY <1>14, <2>1, MovesKnowing DEF FlashFails
<1>15. ASSUME NEW c \in Flasher, Release(c) PROVE BoardKnown'
  BY <1>15, MovesKnowing DEF Release
<1>16. CASE Swap
  <2>1. SUFFICES ASSUME NEW d \in Flasher PROVE BoardKnownTo(d)'
    BY DEF BoardKnown
  <2>2. BoardKnownTo(d) /\ UNCHANGED tool
    BY <1>16 DEF Swap, BoardKnown
  <2>3. tool[d].told # NoBoard => d \in unsure'
    BY <1>16, <2>2 DEF Swap, BoardKnownTo
  <2> QED
    BY <2>2, <2>3 DEF BoardKnownTo, Runs, Mismatch
<1>17. CASE \/ DaemonStarts \/ DaemonDies \/ Connects \/ ConnectsElsewhere \/ LinkEnds
            \/ HoldExpires
  BY <1>1, <1>17 DEF DaemonStarts, DaemonDies, Connects, ConnectsElsewhere, LinkEnds, HoldExpires
<1> QED
  BY <1>1, <1>2, <1>3, <1>4, <1>5, <1>6, <1>7, <1>8, <1>9, <1>10, <1>11, <1>12, <1>13,
     <1>14, <1>15, <1>16, <1>17 DEF Next, ToolStep, vars

-----------------------------------------------------------------------------
(* What is flashed *)

\* A process about to reset has the port, and nobody else flashes.
LEMMA ImageStays ==
    ASSUME TypeOK, PortIsTheirs, FlashedAsPromised, NEW c \in Flasher,
           \A d \in Flasher \ {c} : tool'[d] = tool[d],
           tool'[c].at # "reset",
           raced \ {c} \subseteq raced',
           device'.image = device.image \/ port = c
    PROVE  FlashedAsPromised'
<1> SUFFICES ASSUME NEW d \in Flasher \ raced', At(d, "reset")',
                    NEW f \in File
             PROVE  device'.image[f] = Wanted(d, f)'
  BY DEF FlashedAsPromised
<1>1. d # c /\ tool'[d] = tool[d] /\ d \notin raced /\ tool[d].at = "reset"
  OBVIOUS
<1>2. port = d
  BY <1>1 DEF PortIsTheirs
<1>3. device'.image = device.image
  BY <1>1, <1>2
<1> QED
  BY <1>1, <1>3 DEF FlashedAsPromised, Wanted

LEMMA FlashedNext ==
    TypeOK /\ Verified /\ PortIsTheirs /\ FlashedAsPromised /\ [Next]_vars => FlashedAsPromised'
<1> SUFFICES ASSUME TypeOK, Verified, PortIsTheirs, FlashedAsPromised, [Next]_vars
             PROVE  FlashedAsPromised'
  OBVIOUS
<1>1. CASE UNCHANGED <<tool, device, raced>>
  BY <1>1 DEF FlashedAsPromised, Wanted
<1>2. ASSUME NEW c \in Flasher, Status(c) PROVE FlashedAsPromised'
  BY <1>2, StatusTells, ImageStays
<1>3. ASSUME NEW c \in Flasher, Prepare(c) PROVE FlashedAsPromised'
  BY <1>3, PrepareGoesOn, ImageStays
<1>4. ASSUME NEW c \in Flasher, Fetched(c) PROVE FlashedAsPromised'
  BY <1>4, GotoTyped, ImageStays DEF Fetched
<1>5. ASSUME NEW c \in Flasher, Filled(c) PROVE FlashedAsPromised'
  BY <1>5, FilledTakesOne, ImageStays DEF Filled
<1>6. ASSUME NEW c \in Flasher,
             \/ PrepareFails(c) \/ Declines(c) \/ NotHeld(c) \/ Ends(c)
             \/ Killed(c) \/ PromptEnds(c) \/ ReleaseFails(c)
      PROVE  FlashedAsPromised'
  <2>1. PICK how \in {"gone", "dropped"} : Leaves(c, how)
    BY <1>6 DEF PrepareFails, Declines, NotHeld, Ends, Killed, PromptEnds, ReleaseFails, Exit
  <2>2. UNCHANGED device
    BY <1>6 DEF PrepareFails, Declines, NotHeld, Ends, Killed, PromptEnds, ReleaseFails
  <2> QED
    BY <2>1, <2>2, LeavesAlone, ImageStays
<1>7. ASSUME NEW c \in Flasher, GoesOn(c) PROVE FlashedAsPromised'
  BY <1>7, GoesOnForced, ImageStays
<1>8. ASSUME NEW c \in Flasher, Held(c) PROVE FlashedAsPromised'
  BY <1>8, GotoTyped, ImageStays DEF Held
<1>9. ASSUME NEW c \in Flasher, Entered(c) PROVE FlashedAsPromised'
  <2>1. device'.image = device.image
    BY <1>9 DEF Entered, TypeOK
  <2> QED
    BY <1>9, <2>1, GotoTyped, ImageStays DEF Entered
<1>10. ASSUME NEW c \in Flasher, Opened(c) PROVE FlashedAsPromised'
  BY <1>10, GotoTyped, ImageStays DEF Opened
<1>11. ASSUME NEW c \in Flasher, Erased(c) PROVE FlashedAsPromised'
  <2>1. port = c
    BY <1>11 DEF Erased, PortIsTheirs
  <2> QED
    BY <1>11, <2>1, GotoTyped, ImageStays DEF Erased
<1>12. ASSUME NEW c \in Flasher, Wrote(c) PROVE FlashedAsPromised'
  <2>1. SUFFICES ASSUME NEW d \in Flasher \ raced, tool'[d].at = "reset", NEW f \in File
                 PROVE  device'.image[f] = <<tool'[d].entry, f>>
    BY <1>12 DEF FlashedAsPromised, Wanted, Wrote
  <2>2. tool[c].at = "write" /\ port = c
    BY <1>12 DEF Wrote, PortIsTheirs
  <2>3. d = c
    BY <1>12, <2>1, <2>2, GotoTyped DEF Wrote, PortIsTheirs
  <2>4. tool'[d].entry = tool[d].entry
    BY <1>12, <2>3, GotoTyped DEF Wrote
  <2>5. Bytes(d, f) = Wanted(d, f)
    <3>1. VerifiedOf(d) /\ tool[d].at = "write"
      BY <2>2, <2>3 DEF Verified
    <3> QED
      BY <2>1, <3>1 DEF VerifiedOf, Bytes
  <2>6. device'.image[f] = Bytes(d, f)
    BY <1>12, <2>3 DEF Wrote, TypeOK
  <2> QED
    BY <2>4, <2>5, <2>6 DEF Wanted
<1>13. ASSUME NEW c \in Flasher, Reset(c) PROVE FlashedAsPromised'
  <2>1. device'.image = device.image
    BY <1>13 DEF Reset, TypeOK
  <2> QED
    BY <1>13, <2>1, GotoTyped, ImageStays DEF Reset
<1>14. ASSUME NEW c \in Flasher, FlashFails(c) PROVE FlashedAsPromised'
  <2>1. device'.image = device.image \/ port = c
    BY <1>14 DEF FlashFails, TypeOK, PortIsTheirs
  <2> QED
    BY <1>14, <2>1, GotoTyped, ImageStays DEF FlashFails
<1>15. ASSUME NEW c \in Flasher, Release(c) PROVE FlashedAsPromised'
  BY <1>15, GotoTyped, ImageStays DEF Release
<1>16. CASE Swap
  <2>1. \A d \in Flasher : tool[d].at # "reset"
    BY <1>16, OwnerAssumption DEF Swap, PortIsTheirs
  <2> QED
    BY <1>16, <2>1 DEF Swap, FlashedAsPromised
<1>17. CASE \/ DaemonStarts \/ DaemonDies \/ Connects \/ ConnectsElsewhere \/ LinkEnds
            \/ HoldExpires
  BY <1>1, <1>17 DEF DaemonStarts, DaemonDies, Connects, ConnectsElsewhere, LinkEnds, HoldExpires
<1> QED
  BY <1>1, <1>2, <1>3, <1>4, <1>5, <1>6, <1>7, <1>8, <1>9, <1>10, <1>11, <1>12, <1>13,
     <1>14, <1>15, <1>16, <1>17 DEF Next, ToolStep, vars

-----------------------------------------------------------------------------
(* Theorems *)

LEMMA IInvInit == Init => IInv
<1> SUFFICES ASSUME Init PROVE IInv
  OBVIOUS
<1>1. \A c \in Flasher : tool[c].at = "new" /\ tool[c].told = NoBoard
  BY NothingTyped DEF Init
<1>2. holder \notin Flasher
  BY OwnerAssumption DEF Init
<1>3. Verified /\ PortIsTheirs /\ FlashedAsPromised
  BY <1>1 DEF Verified, VerifiedOf, PortIsTheirs, FlashedAsPromised
<1>4. BoardKnown /\ HoldersRelease
  BY <1>1, <1>2 DEF BoardKnown, BoardKnownTo, HoldersRelease
<1> QED
  BY <1>3, <1>4, TypeInit DEF IInv

\* The invariant of the flash: types, the checked files are in the cache, the
\* port is the flasher's, what it knows of the board holds, and a holder will
\* release.
THEOREM FlashInvariant == Spec => []IInv
<1>1. IInv /\ [Next]_vars => IInv'
  BY TypeNext, VerifiedNext, PortIsTheirsNext, BoardKnownNext, HoldersReleaseNext,
     FlashedNext DEF IInv
<1> QED
  BY <1>1, IInvInit, PTL DEF Spec

\* Whatever the crashes and overlapping downloads leave in the cache, a device
\* that is reset holds the files that were promised, unless somebody wrote to
\* one of them after the check.
THEOREM PromisedIsFlashed == Spec => []FlashedAsPromised
<1>1. IInv => FlashedAsPromised
  BY DEF IInv
<1> QED
  BY <1>1, FlashInvariant, PTL

\* Another board's firmware gets onto a device only by --force or when the board
\* was not known, whatever happens between the question and the flash, as long as
\* the daemon's session was with the board on the port that is flashed.
THEOREM BoardsAreKnown == Spec => []WrongBoardIsKnown
<1>1. IInv => WrongBoardIsKnown
  <2> SUFFICES ASSUME IInv, NEW c \in Flasher \ unsure, At(c, "reset"),
                      EntryBoard[tool[c].entry] \notin {NoBoard, device.board},
                      tool[c].told # NoBoard
               PROVE  tool[c].force
    BY DEF WrongBoardIsKnown
  <2>1. BoardKnownTo(c)
    BY DEF IInv, BoardKnown
  <2>2. Mismatch(c)
    BY <2>1 DEF BoardKnownTo, Mismatch
  <2> QED
    BY <2>1, <2>2 DEF BoardKnownTo
<1> QED
  BY <1>1, FlashInvariant, PTL

\* Whichever step fails, a flash leaves no hold behind, unless it was killed, its
\* prompt was closed or the call that gives the hold back failed.
THEOREM NoHoldStays == Spec => []NoHoldLeftBehind
<1>1. IInv => NoHoldLeftBehind
  BY DEF IInv, HoldersRelease, NoHoldLeftBehind
<1> QED
  BY <1>1, FlashInvariant, PTL
=============================================================================
