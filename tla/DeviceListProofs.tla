-------------------------- MODULE DeviceListProofs --------------------------
(***************************************************************************)
(* Proofs about DeviceList, for any devices, any number of m5ct processes,  *)
(* commands and faults: no edit is lost but to an overlap, a death or a    *)
(* stale copy, and the daemon knows the list.                              *)
(***************************************************************************)
EXTENDS DeviceList, TLAPS

USE DEF At, daemon, bounds, history

-----------------------------------------------------------------------------
(* The inductive invariant *)

Client == [at : Places, op : {"pair", "use", "unpair"}, id : Device \cup {NoDevice}, copy : List]

Types ==
    /\ file \in List \cup Unreadable
    /\ cli \in [Cli -> Client]
    /\ server \in {"down", "up", "fill"}
    /\ cache \in List /\ want \in List /\ dirty \subseteq Cli /\ spoilt \in BOOLEAN
    /\ news \in {"read", "coming", "lost"}
    /\ want.default \in want.devices \cup {NoDevice}

\* Past its choice a command has a device, and use one that is in its copy.
Chosen ==
    \A c \in Cli :
        /\ cli[c].at \in {"confirm", "read", "truncate", "fill"} => cli[c].id \in Device
        /\ c \in Holders /\ cli[c].op = "use" => cli[c].id \in cli[c].copy.devices

\* Whoever holds a copy while somebody else writes is dirty.
WritersDirty ==
    /\ server = "fill" => Holders \subseteq dirty
    /\ \A c, d \in Cli : At(d, "fill") /\ c # d /\ c \in Holders => c \in dirty

\* Word of an edit is on its way only while somebody brings it.
WordComes == news = "coming" => Bringers # {}

\* Until an edit is spoilt: the file has the list unless it is being written, a
\* clean copy is the list, a clean writer meets the file as it truncated it, and
\* the daemon that has read has the list, unless it read a torn file.
Clean ==
    /\ ~Torn => Read = want
    /\ server = "fill" => file = NoText
    /\ \A c \in Cli \ dirty : At(c, "fill") => file = NoText
    /\ \A c \in Holders \ dirty : cli[c].copy = want
    /\ news = "read" => cache = want \/ \E c \in Cli : At(c, "fill")

Inv == Types /\ Chosen /\ WritersDirty /\ WordComes /\ (~spoilt => Clean)

-----------------------------------------------------------------------------
(* Lists *)

LEMMA EmptyTyped == Empty \in List
  BY DEF Empty, List

LEMMA NormalTyped ==
    ASSUME NEW l \in List
    PROVE  /\ Normal(l) \in List /\ Normal(l).default \in Normal(l).devices \cup {NoDevice}
           /\ l.default \in l.devices \cup {NoDevice} => Normal(l) = l
  BY DEF Normal, List

LEMMA ReadTyped ==
    ASSUME Types PROVE Read \in List
  BY EmptyTyped, NormalTyped DEF Read, Types

LEMMA EditTyped ==
    ASSUME NEW op \in {"pair", "use", "unpair"}, NEW l \in List, NEW d \in Device
    PROVE  Edit(op, l, d) \in List /\ Asked(op, l, d) \in List
  BY DEF Edit, Asked, List, AddOrUpdate, SetDefault, Remove

\* What the code makes of a list is what was asked for.
LEMMA EditIsAsked ==
    ASSUME NEW op \in {"pair", "use", "unpair"}, NEW l \in List, NEW d \in Device,
           l.default \in l.devices \cup {NoDevice}, op = "use" => d \in l.devices
    PROVE  /\ Normal(Edit(op, l, d)) = Asked(op, l, d)
           /\ Asked(op, l, d).default \in Asked(op, l, d).devices \cup {NoDevice}
<1>1. CASE op = "pair"
  BY <1>1, NoDeviceAssumption DEF Edit, Asked, List, AddOrUpdate, Normal
<1>2. CASE op = "use"
  <2>1. l.devices \cup {d} = l.devices
    BY <1>2
  <2>2. SetDefault(l, d) = [devices |-> l.devices, default |-> d]
    BY DEF SetDefault, List
  <2> QED
    BY <1>2, <2>1, <2>2 DEF Edit, Asked, Normal
<1>3. CASE op = "unpair"
  BY <1>3, NoDeviceAssumption DEF Edit, Asked, List, Remove, Normal
<1> QED
  BY <1>1, <1>2, <1>3

\* A file that is written from its start is what was written, unless somebody
\* else wrote after the truncation.
LEMMA WrittenIsRead ==
    ASSUME NEW l \in List, l.default \in l.devices \cup {NoDevice},
           file = NoText, file' \in Written(l)
    PROVE  file' = l /\ Read' = l
<1>1. file' = l
  BY DEF Written
<1>2. l \notin Unreadable
  BY UnreadableAssumption DEF Unreadable
<1> QED
  BY <1>1, <1>2, NormalTyped DEF Read

-----------------------------------------------------------------------------
(* Clients *)

LEMMA GotoTyped ==
    ASSUME Types, NEW c \in Cli, NEW place \in Places, Goto(c, place)
    PROVE  /\ cli' \in [Cli -> Client]
           /\ cli'[c].at = place /\ cli'[c].op = cli[c].op /\ cli'[c].id = cli[c].id
           /\ cli'[c].copy = cli[c].copy
           /\ \A d \in Cli \ {c} : cli'[d] = cli[d]
  BY DEF Types, Client, Goto

LEMMA IdleTyped == Idle \in Client /\ Idle.at = "idle"
  BY EmptyTyped DEF Idle, Client, Places

LEMMA LeaveTyped ==
    ASSUME Types, NEW c \in Cli, Leave(c)
    PROVE  /\ cli' \in [Cli -> Client]
           /\ cli'[c].at = "idle"
           /\ \A d \in Cli \ {c} : cli'[d] = cli[d]
  BY IdleTyped DEF Types, Leave

LEMMA PairGotoTyped ==
    ASSUME Types, NEW c \in Cli, NEW place \in Places, PairGoto(c, place)
    PROVE  /\ cli' \in [Cli -> Client]
           /\ cli'[c].at = place
           /\ \A d \in Cli \ {c} : cli'[d] = cli[d]
<1>1. Pairing(place) \in Client /\ Pairing(place).at = place
  BY IdleTyped DEF Pairing, Client
<1> QED
  BY <1>1 DEF Types, PairGoto

\* Word that is still on its way without c is brought by somebody else.
LEMMA NewsWithoutResult ==
    ASSUME NEW c \in Cli
    PROVE  /\ NewsWithout(c) \in {news, "lost"}
           /\ NewsWithout(c) = "coming" => news = "coming" /\ Bringers \ {c} # {}
  BY DEF NewsWithout

\* A step of a client that neither holds a copy afterwards nor was writing.
LEMMA QuietStep ==
    ASSUME Inv, NEW c \in Cli, cli' \in [Cli -> Client],
           \A d \in Cli \ {c} : cli'[d] = cli[d],
           cli[c].at # "fill", cli'[c].at \notin {"truncate", "fill"},
           cli'[c].at \in {"confirm", "read"} => cli'[c].id \in Device,
           UNCHANGED <<file, server, cache, want, spoilt>>,
           dirty' \in {dirty, dirty \ {c}},
           news' \in {news, "lost"},
           news' = "coming" => \/ cli[c].at \notin {"close", "reload"}
                               \/ cli'[c].at \in {"close", "reload"}
                               \/ Bringers \ {c} # {}
    PROVE  Inv'
<1>1. Types'
  BY DEF Inv, Types
<1>2. Holders' \subseteq Holders /\ c \notin Holders'
  BY DEF Holders
<1>3. \A d \in Cli : At(d, "fill")' <=> At(d, "fill")
  OBVIOUS
<1>4. \A d \in Holders' : cli'[d] = cli[d] /\ d # c
  BY <1>2 DEF Holders
<1>5. Chosen'
  BY <1>2, <1>4 DEF Inv, Chosen
<1>6. WritersDirty'
  BY <1>2, <1>3, <1>4 DEF Inv, WritersDirty
<1>7. WordComes'
  <2> SUFFICES ASSUME news' = "coming" PROVE Bringers' # {}
    BY DEF WordComes
  <2>1. Bringers # {}
    BY DEF Inv, WordComes, Bringers
  <2>2. Bringers \ {c} \subseteq Bringers'
    BY DEF Bringers
  <2>3. cli'[c].at \in {"close", "reload"} => c \in Bringers'
    BY DEF Bringers
  <2>4. cli[c].at \notin {"close", "reload"} => c \notin Bringers
    BY DEF Bringers
  <2> QED
    BY <2>1, <2>2, <2>3, <2>4
<1>8. ~spoilt' => Clean'
  <2> SUFFICES ASSUME Clean PROVE Clean'
    BY DEF Inv
  <2>1. Torn' <=> Torn
    BY <1>3 DEF Torn
  <2>2. \A d \in Cli \ {c} : d \in dirty' <=> d \in dirty
    OBVIOUS
  <2>3. \A d \in (Cli \ dirty)' : At(d, "fill")' => file' = NoText
    BY <1>3, <2>2 DEF Clean
  <2>4. \A d \in (Holders \ dirty)' : cli'[d].copy = want'
    BY <1>2, <1>4, <2>2 DEF Clean
  <2> QED
    BY <1>3, <2>1, <2>3, <2>4 DEF Clean, Read
<1> QED
  BY <1>1, <1>5, <1>6, <1>7, <1>8 DEF Inv

LEMMA ClientQuiet ==
    ASSUME Inv, NEW c \in Cli,
           \/ Begin(c) \/ Pause(c) \/ PauseFails(c) \/ Found(c) \/ Confirmed(c)
           \/ PairFails(c) \/ Ambiguous(c) \/ Closed(c) \/ CloseFails(c) \/ ReloadFails(c)
           \/ Stopped(c) \/ Resume(c) \/ ResumeFails(c)
    PROVE  Inv'
<1>0. Types /\ cli[c] \in Client
  BY DEF Inv, Types
<1>1. CASE Begin(c)
  <2>1. CASE Goto(c, "pause")
    BY <1>0, <1>1, <2>1, GotoTyped, QuietStep DEF Begin, Places
  <2>2. ASSUME NEW d \in Device, NEW op \in {"use", "unpair"},
               cli' = [cli EXCEPT ![c] = [Idle EXCEPT !.at = "read", !.op = op, !.id = d]]
        PROVE  Inv'
    <3> DEFINE begun == [Idle EXCEPT !.at = "read", !.op = op, !.id = d]
    <3>1. begun \in Client /\ begun.at = "read" /\ begun.id = d
      BY IdleTyped DEF Client, Places
    <3>2. cli' = [cli EXCEPT ![c] = begun]
      BY <2>2
    <3> HIDE DEF begun
    <3>3. cli' \in [Cli -> Client] /\ cli'[c].at = "read" /\ cli'[c].id = d
          /\ \A e \in Cli \ {c} : cli'[e] = cli[e]
      BY <1>0, <2>2, <3>1, <3>2 DEF Types
    <3> QED
      BY <1>1, <3>3, QuietStep DEF Begin
  <2> QED
    BY <1>1, <2>1, <2>2 DEF Begin
<1>2. CASE Pause(c) \/ PauseFails(c)
  BY <1>0, <1>2, PairGotoTyped, QuietStep DEF Pause, PauseFails, Places
<1>3. CASE Found(c)
  <2>1. PICK d \in Device : cli' = [cli EXCEPT ![c].at = "confirm", ![c].id = d]
    BY <1>3 DEF Found
  <2>2. cli' \in [Cli -> Client] /\ cli'[c].at = "confirm" /\ cli'[c].id = d
        /\ \A e \in Cli \ {c} : cli'[e] = cli[e]
    BY <1>0, <2>1 DEF Types, Client, Places
  <2> QED
    BY <1>3, <2>2, QuietStep DEF Found
<1>4. CASE Confirmed(c)
  <2>1. cli[c].id \in Device
    BY <1>4 DEF Confirmed, Inv, Chosen
  <2> QED
    BY <1>0, <1>4, <2>1, GotoTyped, QuietStep DEF Confirmed, Places
<1>5. CASE PairFails(c)
  BY <1>0, <1>5, PairGotoTyped, QuietStep DEF PairFails, Places
<1>6. CASE Ambiguous(c)
  BY <1>0, <1>6, LeaveTyped, QuietStep DEF Ambiguous
<1>7. CASE Resume(c) \/ ResumeFails(c)
  BY <1>0, <1>7, LeaveTyped, QuietStep DEF Resume, ResumeFails
<1>8. CASE Closed(c) \/ Stopped(c)
  BY <1>0, <1>8, GotoTyped, QuietStep DEF Closed, Stopped, Places
<1>9. CASE CloseFails(c) \/ ReloadFails(c)
  <2>1. /\ cli[c].at \in {"close", "reload"} /\ PairGoto(c, "stop")
        /\ news' = NewsWithout(c)
        /\ UNCHANGED <<file, server, cache, want, dirty, spoilt>>
    BY <1>9 DEF CloseFails, ReloadFails
  <2>2. cli' \in [Cli -> Client] /\ cli'[c].at = "stop"
        /\ \A d \in Cli \ {c} : cli'[d] = cli[d]
    BY <1>0, <2>1, PairGotoTyped DEF Places
  <2> QED
    BY <2>1, <2>2, NewsWithoutResult, QuietStep
<1> QED
  BY <1>1, <1>2, <1>3, <1>4, <1>5, <1>6, <1>7, <1>8, <1>9

LEMMA ReadListKeeps ==
    ASSUME Inv, NEW c \in Cli, ReadList(c)
    PROVE  Inv'
<1>0. Types /\ cli[c] \in Client /\ cli[c].at = "read" /\ cli[c].id \in Device
  BY DEF Inv, Types, Chosen, ReadList
<1>1. CASE Leave(c) /\ UNCHANGED history
  BY <1>0, <1>1, LeaveTyped, QuietStep DEF ReadList
<1>2. CASE /\ ~(cli[c].op # "pair" /\ cli[c].id \notin Read.devices)
           /\ cli' = [cli EXCEPT ![c].at = "truncate", ![c].copy = Read]
           /\ dirty' = IF Torn THEN dirty \cup {c} ELSE dirty \ {c}
           /\ UNCHANGED <<want, news, spoilt, orphaned>>
  <2>1. UNCHANGED <<file, server, cache>> /\ Read' = Read
    BY DEF ReadList, Read
  <2>2. cli' \in [Cli -> Client] /\ cli'[c].at = "truncate" /\ cli'[c].copy = Read
        /\ cli'[c].op = cli[c].op /\ cli'[c].id = cli[c].id
        /\ \A d \in Cli \ {c} : cli'[d] = cli[d]
    BY <1>0, <1>2, ReadTyped DEF Types, Client, Places
  <2>3. Holders' = Holders \cup {c} /\ c \notin Holders
    BY <1>0, <2>2 DEF Holders
  <2>4. \A d \in Cli : At(d, "fill")' <=> At(d, "fill")
    BY <1>0, <2>2
  <2>5. Torn' <=> Torn
    BY <2>1, <2>4 DEF Torn
  <2>6. \A d \in Cli \ {c} : d \in dirty' <=> d \in dirty
    BY <1>2
  <2>7. c \in dirty' <=> Torn
    BY <1>2
  <2>8. Types'
    BY <1>2, <2>1, <2>2 DEF Inv, Types
  <2>9. Chosen'
    BY <1>0, <1>2, <2>2, <2>3 DEF Inv, Chosen
  <2>10. WritersDirty'
    <3>1. ASSUME NEW d \in Cli, At(d, "fill"), NEW e \in Holders', d # e
          PROVE  e \in dirty'
      <4>1. CASE e = c
        BY <3>1, <4>1, <2>7 DEF Torn
      <4>2. CASE e # c
        BY <3>1, <4>2, <2>3, <2>6 DEF Inv, WritersDirty, Holders
      <4> QED
        BY <4>1, <4>2
    <3>2. ASSUME server = "fill", NEW e \in Holders' PROVE e \in dirty'
      <4>1. CASE e = c
        BY <3>2, <4>1, <2>7 DEF Torn
      <4>2. CASE e # c
        BY <3>2, <4>2, <2>3, <2>6 DEF Inv, WritersDirty, Holders
      <4> QED
        BY <4>1, <4>2
    <3> QED
      BY <2>1, <2>4, <3>1, <3>2 DEF WritersDirty
  <2>11. WordComes'
    BY <1>0, <1>2, <2>1, <2>2 DEF Inv, WordComes, Bringers
  <2>12. ~spoilt' => Clean'
    <3> SUFFICES ASSUME Clean PROVE Clean'
      BY <1>2 DEF Inv
    <3>1. \A d \in (Holders \ dirty)' : cli'[d].copy = want'
      <4>1. c \notin dirty' => cli'[c].copy = want'
        BY <1>2, <2>2, <2>7 DEF Clean
      <4>2. ASSUME NEW d \in (Holders \ dirty)', d # c PROVE cli'[d].copy = want'
        BY <1>2, <4>2, <2>2, <2>3, <2>6 DEF Clean, Holders
      <4> QED
        BY <4>1, <4>2
    <3>2. \A d \in (Cli \ dirty)' : At(d, "fill")' => file' = NoText
      BY <1>0, <2>1, <2>2, <2>4, <2>6 DEF Clean
    <3> QED
      BY <1>2, <2>1, <2>4, <2>5, <3>1, <3>2 DEF Clean
  <2> QED
    BY <2>8, <2>9, <2>10, <2>11, <2>12 DEF Inv
<1> QED
  BY <1>1, <1>2 DEF ReadList

LEMMA TruncateKeeps ==
    ASSUME Inv, NEW c \in Cli, Truncate(c)
    PROVE  Inv'
<1>0. Types /\ cli[c] \in Client /\ cli[c].at = "truncate"
      /\ UNCHANGED <<server, cache, want, news, spoilt>> /\ file' = NoText
      /\ dirty' = dirty \cup (Holders \ {c})
  BY DEF Inv, Types, Truncate
<1>1. cli' \in [Cli -> Client]
      /\ cli'[c].at = "fill" /\ cli'[c].op = cli[c].op /\ cli'[c].id = cli[c].id
      /\ cli'[c].copy = cli[c].copy
      /\ \A d \in Cli \ {c} : cli'[d] = cli[d]
  BY <1>0, GotoTyped DEF Truncate, Places
<1>2. Holders' = Holders /\ c \in Holders
  BY <1>0, <1>1 DEF Holders
<1>3. Types'
  BY <1>0, <1>1, <1>2 DEF Inv, Types, Unreadable, Holders
<1>4. Chosen'
  BY <1>0, <1>1, <1>2 DEF Inv, Chosen
<1>5. WritersDirty'
  <2>1. \A d \in Cli \ {c} : At(d, "fill")' <=> At(d, "fill")
    BY <1>1
  <2> QED
    BY <1>0, <1>1, <1>2, <2>1 DEF Inv, WritersDirty, Holders
<1>6. WordComes'
  BY <1>0, <1>1 DEF Inv, WordComes, Bringers
<1>7. ~spoilt' => Clean'
  <2> SUFFICES ASSUME Clean PROVE Clean'
    BY <1>0 DEF Inv
  <2>1. Torn' /\ \E d \in Cli : At(d, "fill")'
    BY <1>1 DEF Torn
  <2>2. \A d \in (Holders \ dirty)' : cli'[d].copy = want'
    BY <1>0, <1>1, <1>2 DEF Clean
  <2> QED
    BY <1>0, <2>1, <2>2 DEF Clean
<1> QED
  BY <1>3, <1>4, <1>5, <1>6, <1>7 DEF Inv

\* A writer that nobody has written over writes the list with its edit, and it
\* is the only writer: whoever else was writing would have made it dirty.
LEMMA CleanWriter ==
    ASSUME Inv, Clean, NEW c \in Cli, c \notin dirty, Fill(c)
    PROVE  /\ Read' = want' /\ server # "fill"
           /\ \A d \in Cli : ~At(d, "fill")'
<1>0. Types /\ cli[c] \in Client /\ cli[c].at = "fill" /\ c \in Holders /\ cli[c].id \in Device
  BY DEF Inv, Types, Chosen, Fill, Holders
<1> DEFINE written == Normal(Edit(cli[c].op, cli[c].copy, cli[c].id))
<1>1. cli[c].copy = want /\ file = NoText
  BY <1>0 DEF Clean
<1>2. cli[c].op = "use" => cli[c].id \in want.devices
  BY <1>0, <1>1 DEF Inv, Chosen
<1>3. cli[c].op \in {"pair", "use", "unpair"} /\ want \in List
      /\ want.default \in want.devices \cup {NoDevice}
  BY <1>0 DEF Types, Client
<1>4. written = want' /\ want'.default \in want'.devices \cup {NoDevice} /\ want' \in List
  <2>1. want' = Asked(cli[c].op, want, cli[c].id)
    BY Zenon DEF Fill
  <2>2. /\ Normal(Edit(cli[c].op, want, cli[c].id)) = Asked(cli[c].op, want, cli[c].id)
        /\ Asked(cli[c].op, want, cli[c].id).default
             \in Asked(cli[c].op, want, cli[c].id).devices \cup {NoDevice}
    BY <1>0, <1>2, <1>3, EditIsAsked
  <2>3. Asked(cli[c].op, want, cli[c].id) \in List
    BY <1>0, <1>3, EditTyped
  <2> QED
    BY <1>1, <2>1, <2>2, <2>3
<1>5. file' \in Written(written)
  BY DEF Fill
<1>6. Read' = want'
  BY <1>1, <1>4, <1>5, WrittenIsRead
<1>7. server # "fill" /\ \A d \in Cli : At(d, "fill") => d = c
  BY <1>0 DEF Inv, WritersDirty, Holders
<1>8. cli'[c].at # "fill" /\ \A d \in Cli \ {c} : cli'[d] = cli[d]
  BY <1>0, PairGotoTyped, LeaveTyped DEF Fill, AfterFill, Places
<1> QED
  BY <1>6, <1>7, <1>8

LEMMA FillKeeps ==
    ASSUME Inv, NEW c \in Cli, Fill(c)
    PROVE  Inv'
<1>f. /\ cli[c].at = "fill" /\ UNCHANGED <<server, cache>>
      /\ dirty' = Holders \ {c}
      /\ news' = IF cli[c].op = "pair" THEN "coming" ELSE "lost"
      /\ want' = Asked(cli[c].op, want, cli[c].id)
      /\ AfterFill(c)
  BY Zenon DEF Fill
<1>0. Types /\ cli[c] \in Client /\ cli[c].id \in Device
  BY <1>f DEF Inv, Types, Chosen
<1>s. /\ spoilt' \in BOOLEAN
      /\ ~spoilt' => ~spoilt /\ c \notin dirty
  BY Zenon DEF Inv, Types, Fill
<1>1. /\ cli' \in [Cli -> Client] /\ cli'[c].at \in {"close", "idle"}
      /\ cli[c].op = "pair" => cli'[c].at = "close"
      /\ \A d \in Cli \ {c} : cli'[d] = cli[d]
  BY <1>f, <1>0, PairGotoTyped, LeaveTyped DEF AfterFill, Places
<1>2. Holders' = Holders \ {c} /\ Holders' \subseteq dirty' /\ Holders \subseteq Cli
  BY <1>f, <1>0, <1>1 DEF Holders
<1>3. Types'
  <2>1. cli[c].op \in {"pair", "use", "unpair"} /\ cli[c].copy \in List
    BY <1>f, <1>0 DEF Client
  <2>2. Edit(cli[c].op, cli[c].copy, cli[c].id) \in List
    BY <1>f, <1>0, <2>1, EditTyped
  <2>3. file' \in List \cup Unreadable
    BY <2>2, NormalTyped DEF Fill, Written, Unreadable
  <2>4. want' \in List
    BY <1>f, <1>0, <2>1, EditTyped DEF Types
  <2>5. want'.default \in want'.devices \cup {NoDevice}
    <3>1. want \in List /\ want.default \in want.devices \cup {NoDevice}
      BY <1>0 DEF Types
    <3> QED
      BY <1>f, <3>1, <2>1, <1>0 DEF Asked
  <2>6. dirty' \subseteq Cli
    BY <1>f, <1>0, <1>2 DEF Types
  <2> QED
    BY <1>s, <1>f, <1>0, <1>1, <2>3, <2>4, <2>5, <2>6 DEF Types
<1>4. Chosen'
  BY <1>1, <1>2 DEF Inv, Chosen, Holders
<1>5. WritersDirty'
  BY <1>2 DEF WritersDirty
<1>6. WordComes'
  BY <1>f, <1>0, <1>1 DEF WordComes, Bringers
<1>7. ~spoilt' => Clean'
  <2> SUFFICES ASSUME ~spoilt' PROVE Clean'
    OBVIOUS
  <2>1. Clean /\ c \notin dirty
    BY <1>s DEF Inv
  <2>2. Read' = want' /\ server # "fill" /\ \A d \in Cli : ~At(d, "fill")'
    BY <2>1, CleanWriter
  <2>3. news' # "read" /\ server' # "fill"
    BY <1>f, <2>2
  <2>4. \A d \in Holders' : d \in dirty'
    BY <1>2
  <2> QED
    BY <2>2, <2>3, <2>4 DEF Clean
<1> QED
  BY <1>3, <1>4, <1>5, <1>6, <1>7 DEF Inv

\* Whatever becomes of a writer, an edit is lost.
LEMMA WriterEnds ==
    ASSUME Inv, NEW c \in Cli, At(c, "fill"),
           cli' \in [Cli -> Client], cli'[c].at \notin {"truncate", "fill", "confirm", "read"},
           \A d \in Cli \ {c} : cli'[d] = cli[d],
           UNCHANGED <<file, server, cache, want>>, dirty' = dirty \ {c},
           news' \in {news, "lost"}, spoilt' = TRUE
    PROVE  Inv'
<1>1. Holders' = Holders \ {c}
  BY DEF Holders
<1>2. Types'
  BY DEF Inv, Types
<1>3. Chosen' /\ WritersDirty'
  BY <1>1 DEF Inv, Chosen, WritersDirty, Holders
<1>4. WordComes'
  <2>1. Bringers \subseteq Bringers'
    BY DEF Bringers
  <2> QED
    BY <2>1 DEF Inv, WordComes, Bringers
<1> QED
  BY <1>2, <1>3, <1>4 DEF Inv

LEMMA FaultKeeps ==
    ASSUME Inv, NEW c \in Cli, FillFails(c) \/ Killed(c)
    PROVE  Inv'
<1>0. Types /\ cli[c] \in Client /\ spoilt \in BOOLEAN
  BY DEF Inv, Types
<1>1. CASE FillFails(c)
  <2>1. news' = news /\ spoilt' = TRUE /\ dirty' = dirty \ {c}
    BY <1>1 DEF FillFails
  <2> QED
    BY <1>0, <1>1, <2>1, PairGotoTyped, LeaveTyped, WriterEnds DEF FillFails, Places
<1>2. CASE Killed(c)
  <2>1. /\ Leave(c) /\ news' = NewsWithout(c) /\ dirty' = dirty \ {c}
        /\ UNCHANGED <<file, server, cache, want>>
    BY <1>2 DEF Killed
  <2>2. cli' \in [Cli -> Client] /\ cli'[c].at = "idle"
        /\ \A d \in Cli \ {c} : cli'[d] = cli[d]
    BY <1>0, <2>1, LeaveTyped
  <2>3. CASE At(c, "fill")
    <3>1. spoilt' = TRUE
      BY <1>2, <2>3 DEF Killed
    <3> QED
      BY <2>1, <2>2, <2>3, <3>1, NewsWithoutResult, WriterEnds
  <2>4. CASE ~At(c, "fill")
    <3>1. spoilt' = spoilt
      BY <1>0, <1>2, <2>4 DEF Killed
    <3> QED
      BY <2>1, <2>2, <2>4, <3>1, NewsWithoutResult, QuietStep
  <2> QED
    BY <2>3, <2>4
<1> QED
  BY <1>1, <1>2

LEMMA ReloadKeeps ==
    ASSUME Inv, NEW c \in Cli, Reload(c)
    PROVE  Inv'
<1>0. Types /\ cli[c] \in Client /\ cli[c].at = "reload" /\ PairGoto(c, "stop")
      /\ server = "up" /\ UNCHANGED <<file, server, want, dirty, spoilt>>
  BY DEF Inv, Types, Reload
<1>1. cache' = Read /\ news' = "read"
  BY DEF Reload
<1>2. cli' \in [Cli -> Client] /\ cli'[c].at = "stop"
      /\ \A d \in Cli \ {c} : cli'[d] = cli[d]
  BY <1>0, PairGotoTyped DEF Places
<1>3. Holders' = Holders /\ c \notin Holders
  BY <1>0, <1>2 DEF Holders
<1>4. \A d \in Cli : At(d, "fill")' <=> At(d, "fill")
  BY <1>0, <1>2
<1>5. Types'
  BY <1>0, <1>1, <1>2, ReadTyped DEF Types
<1>6. Chosen' /\ WritersDirty'
  BY <1>0, <1>2, <1>3, <1>4 DEF Inv, Chosen, WritersDirty, Holders
<1>7. WordComes'
  BY <1>1 DEF WordComes
<1>8. ~spoilt' => Clean'
  <2> SUFFICES ASSUME Clean PROVE Clean'
    BY <1>0 DEF Inv
  <2>1. Read' = Read
    BY <1>0 DEF Read
  <2>2. (~Torn' => ~Torn) /\ (Torn => \E d \in Cli : At(d, "fill")')
    BY <1>0, <1>4 DEF Torn
  <2>3. cache' = want' \/ \E d \in Cli : At(d, "fill")'
    BY <1>0, <1>1, <2>2 DEF Clean
  <2>4. \A d \in (Holders \ dirty)' : cli'[d].copy = want'
    <3>1. \A d \in Holders : cli'[d] = cli[d]
      BY <1>2, <1>3 DEF Holders
    <3> QED
      BY <1>0, <1>3, <3>1 DEF Clean
  <2>5. \A d \in (Cli \ dirty)' : At(d, "fill")' => file' = NoText
    BY <1>0, <1>4 DEF Clean
  <2> QED
    BY <1>0, <2>1, <2>2, <2>3, <2>4, <2>5 DEF Clean
<1> QED
  BY <1>5, <1>6, <1>7, <1>8 DEF Inv

-----------------------------------------------------------------------------
(* The daemon *)

LEMMA DaemonStartsKeeps ==
    ASSUME Inv, DaemonStarts
    PROVE  Inv'
<1>0. Types /\ server = "down" /\ server' = "up" /\ cache' = Read /\ news' = "read"
      /\ UNCHANGED <<file, cli, want, dirty, spoilt>>
  BY DEF Inv, DaemonStarts
<1>1. Types'
  BY <1>0, ReadTyped DEF Types
<1>2. Holders' = Holders
  BY <1>0 DEF Holders
<1>3. Chosen' /\ WritersDirty'
  BY <1>0, <1>2 DEF Inv, Chosen, WritersDirty
<1>4. WordComes'
  BY <1>0 DEF WordComes
<1>5. ~spoilt' => Clean'
  <2> SUFFICES ASSUME Clean PROVE Clean'
    BY <1>0 DEF Inv
  <2>1. Read' = Read
    BY <1>0 DEF Read
  <2>2. (~Torn' => ~Torn) /\ (Torn => \E d \in Cli : At(d, "fill")')
    BY <1>0 DEF Torn
  <2>3. cache' = want' \/ \E d \in Cli : At(d, "fill")'
    BY <1>0, <2>2 DEF Clean
  <2> QED
    BY <1>0, <1>2, <2>1, <2>2, <2>3 DEF Clean
<1> QED
  BY <1>1, <1>3, <1>4, <1>5 DEF Inv

LEMMA DaemonDiesKeeps ==
    ASSUME Inv, DaemonDies
    PROVE  Inv'
<1>0. server' = "down" /\ UNCHANGED <<file, cli, cache, want, news, dirty>>
  BY DEF DaemonDies
<1>1. spoilt' \in BOOLEAN /\ (~spoilt' => ~spoilt /\ server # "fill")
  BY Zenon DEF Inv, Types, DaemonDies
<1>2. Types'
  BY <1>0, <1>1 DEF Inv, Types
<1>3. Holders' = Holders
  BY <1>0 DEF Holders
<1>4. Chosen' /\ WritersDirty' /\ WordComes'
  BY <1>0, <1>3 DEF Inv, Chosen, WritersDirty, WordComes, Bringers
<1>5. ~spoilt' => Clean'
  <2> SUFFICES ASSUME Clean, server # "fill" PROVE Clean'
    BY <1>1 DEF Inv
  <2>1. Read' = Read /\ (~Torn' => ~Torn)
    BY <1>0 DEF Read, Torn
  <2> QED
    BY <1>0, <1>3, <2>1 DEF Clean
<1> QED
  BY <1>2, <1>4, <1>5 DEF Inv

\* A step that touches nothing the invariant speaks of.
LEMMA LinkKeeps ==
    ASSUME Inv, UNCHANGED <<file, cli, server, cache, want, news, dirty, spoilt>>
    PROVE  Inv'
<1>1. Types' /\ Chosen' /\ WritersDirty' /\ WordComes'
  BY DEF Inv, Types, Chosen, WritersDirty, WordComes, Bringers, Holders
<1>2. ~spoilt' => Clean'
  BY DEF Inv, Clean, Torn, Holders, Read
<1> QED
  BY <1>1, <1>2 DEF Inv

LEMMA MarkSeenKeeps ==
    ASSUME Inv, MarkSeen
    PROVE  Inv'
<1>0. Types /\ server = "up" /\ server' = "fill" /\ file' = NoText
      /\ dirty' = dirty \cup Holders /\ UNCHANGED <<cli, cache, want, news, spoilt>>
  BY DEF Inv, MarkSeen
<1>1. Holders' = Holders /\ Holders' \subseteq dirty' /\ Holders \subseteq Cli
  BY <1>0 DEF Holders
<1>2. Types'
  BY <1>0, <1>1 DEF Types, Unreadable
<1>3. Chosen' /\ WritersDirty' /\ WordComes'
  BY <1>0, <1>1 DEF Inv, Chosen, WritersDirty, WordComes, Bringers
<1>4. ~spoilt' => Clean'
  <2> SUFFICES ASSUME Clean PROVE Clean'
    BY <1>0 DEF Inv
  <2>1. Torn'
    BY <1>0 DEF Torn
  <2> QED
    BY <1>0, <1>1, <2>1 DEF Clean
<1> QED
  BY <1>2, <1>3, <1>4 DEF Inv

\* The daemon writes the list back as it is, if it has read the last edit.
LEMMA SeenFilledKeeps ==
    ASSUME Inv, SeenFilled
    PROVE  Inv'
<1>0. Types /\ server = "fill" /\ server' = "up" /\ file' \in Written(Normal(cache))
      /\ dirty' = dirty \cup Holders /\ UNCHANGED <<cli, cache, want, news>>
  BY Zenon DEF Inv, SeenFilled
<1>1. spoilt' \in BOOLEAN /\ (~spoilt' => ~spoilt /\ news = "read")
  BY Zenon DEF Inv, Types, SeenFilled
<1>2. Holders' = Holders /\ Holders' \subseteq dirty' /\ Holders \subseteq Cli
  BY <1>0 DEF Holders
<1>3. Types'
  <2>1. file' \in List \cup Unreadable
    BY <1>0, NormalTyped DEF Types, Written, Unreadable
  <2> QED
    BY <1>0, <1>1, <1>2, <2>1 DEF Types
<1>4. Chosen' /\ WritersDirty'
  BY <1>0, <1>2 DEF Inv, Chosen, WritersDirty
<1>5. WordComes'
  BY <1>0 DEF Inv, WordComes, Bringers
<1>6. ~spoilt' => Clean'
  <2> SUFFICES ASSUME Clean, news = "read" PROVE Clean'
    BY <1>1 DEF Inv
  <2>1. CASE \E c \in Cli : At(c, "fill")
    <3>1. Torn' /\ \E c \in Cli : At(c, "fill")'
      BY <1>0, <2>1 DEF Torn
    <3>2. \A c \in Cli : At(c, "fill")' => c \in dirty'
      BY <1>0, <1>2 DEF Holders
    <3> QED
      BY <1>0, <1>2, <3>1, <3>2 DEF Clean
  <2>2. CASE ~\E c \in Cli : At(c, "fill")
    <3>1. cache = want /\ file = NoText
      BY <1>0, <2>2 DEF Clean
    <3>2. Normal(cache) = want /\ want \in List /\ want.default \in want.devices \cup {NoDevice}
      BY <1>0, <3>1, NormalTyped DEF Types
    <3>3. Read' = want
      BY <1>0, <3>1, <3>2, WrittenIsRead
    <3> QED
      BY <1>0, <1>2, <2>2, <3>1, <3>3 DEF Clean
  <2> QED
    BY <2>1, <2>2
<1> QED
  BY <1>3, <1>4, <1>5, <1>6 DEF Inv

-----------------------------------------------------------------------------
(* The theorems *)

LEMMA InvInit == Init => Inv
<1> SUFFICES ASSUME Init PROVE Inv
  OBVIOUS
<1>1. /\ file = Empty /\ want = Empty /\ cache = Empty /\ server = "down"
      /\ cli = [c \in Cli |-> Idle] /\ news = "read" /\ dirty = {} /\ spoilt = FALSE
  BY DEF Init
<1>2. Empty.default \in Empty.devices \cup {NoDevice}
  BY DEF Empty
<1>3. \A c \in Cli : cli[c] = Idle /\ cli[c].at = "idle"
  BY <1>1, IdleTyped
<1>4. Types
  BY <1>1, <1>2, EmptyTyped, IdleTyped DEF Types
<1>5. Holders = {}
  BY <1>3 DEF Holders
<1>6. Chosen /\ WritersDirty /\ WordComes
  BY <1>1, <1>3, <1>5 DEF Chosen, WritersDirty, WordComes, Bringers
<1>7. Read = Empty
  BY <1>1, <1>2, EmptyTyped, NormalTyped, UnreadableAssumption DEF Read, Unreadable
<1>8. Clean
  BY <1>1, <1>3, <1>5, <1>7 DEF Clean
<1> QED
  BY <1>4, <1>6, <1>8 DEF Inv

LEMMA InvNext == Inv /\ [Next]_vars => Inv'
<1> SUFFICES ASSUME Inv, [Next]_vars PROVE Inv'
  OBVIOUS
<1>1. ASSUME NEW c \in Cli, Begin(c) \/ CliStep(c) \/ Fault(c) PROVE Inv'
  BY <1>1, ClientQuiet, ReadListKeeps, TruncateKeeps, FillKeeps, ReloadKeeps, FaultKeeps
     DEF CliStep, CallFails, Fault
<1>2. CASE DaemonStep
  <2>1. CASE Attempt \/ LinkEnds
    BY <2>1, LinkKeeps DEF Attempt, LinkEnds
  <2> QED
    BY <1>2, <2>1, DaemonStartsKeeps, MarkSeenKeeps, SeenFilledKeeps DEF DaemonStep
<1>3. CASE DaemonDies
  BY <1>3, DaemonDiesKeeps
<1>4. CASE UNCHANGED vars
  BY <1>4, LinkKeeps DEF vars
<1> QED
  BY <1>1, <1>2, <1>3, <1>4 DEF Next

\* The list of devices stays well formed, a command that has chosen has a
\* device, and no writer, client or daemon, is unaware of a copy it makes stale.
THEOREM ListInvariant == Spec => []Inv
  BY InvInit, InvNext, PTL DEF Spec

\* However many m5ct processes edit the list while the daemon writes back its
\* copy, an edit is lost only to an overlapping edit, to a daemon that has not
\* read it, or to a writer that dies or fails: otherwise whoever reads the file
\* finds every edit, in order.
THEOREM EditsAreKept == Spec => []EditsKept
<1>1. Inv => EditsKept
  BY DEF Inv, Clean, EditsKept
<1> QED
  BY <1>1, ListInvariant, PTL

\* Once every command is over, a running daemon has the list with every edit,
\* unless an edit was spoilt or word of the last one was lost: what reloads during
\* the writing of others read is read again, and a client that cannot tell the
\* daemon leaves that to any other that still comes.
THEOREM DaemonKnowsTheList == Spec => []DaemonKnows
<1>1. Inv => DaemonKnows
  <2> SUFFICES ASSUME Inv, \A c \in Cli : At(c, "idle"), server = "up", ~spoilt, news # "lost"
               PROVE  cache = want
    BY DEF DaemonKnows
  <2>1. news \in {"read", "coming"}
    BY DEF Inv, Types
  <2>2. news # "coming"
    BY DEF Inv, WordComes, Bringers
  <2> QED
    BY <2>1, <2>2 DEF Inv, Clean
<1> QED
  BY <1>1, ListInvariant, PTL
=============================================================================
