------------------------------- MODULE BleWire ------------------------------
(***************************************************************************)
(* BLE from the adapter to the lines of the protocol:                      *)
(*   ble/backend-noble.ts   waiting for the adapter, a scan, the steps of   *)
(*                          connect, NobleBleLink                          *)
(*   transport/ble.ts       BleTransport: open, chunked writes, close       *)
(*   framing-ndjson.ts      the framer of what the device sends            *)
(* One process and one peripheral, of which noble keeps one object.  Scans, *)
(* connects and sessions follow one another (OneLinkAtATime in HostLink);  *)
(* within a session any number of writes overlap.  noble answers every call *)
(* of a scan; connect and what follows may stay unanswered.                *)
(***************************************************************************)
EXTENDS Naturals, Sequences, FiniteSets

CONSTANTS
    Line,           \* lines the host writes
    Chunks,         \* [Line -> how many chunks of 180 bytes it takes]
    Byte, Newline,  \* what the device sends
    MaxScans,       \* bound: scans
    MaxText,        \* bound: bytes the device sends in a session
    MaxFaults       \* bound: writes refused

ASSUME ChunksAssumption == Chunks \in [Line -> Nat \ {0}]
ASSUME ByteAssumption == Newline \notin Byte
ASSUME BoundsAssumption == {MaxScans, MaxText, MaxFaults} \subseteq Nat

VARIABLES
    central,    \* what the process does with the radio
    scan,       \* what a scan has set up: its timer, its listener, what it found
    peer,       \* noble has a connection to the peripheral
    link,       \* NobleBleLink: "none", "open", "closed"
    transport,  \* BleTransport: "none", "open" (_connected) or "closed"
    closing,    \* its close awaits the disconnect
    told,       \* 'close' events the transport emitted
    begun, writing,     \* lines whose write has begun, has not ended
    sent,       \* [Line -> chunks the radio has taken]
    air,        \* the device's input since the last line end
    arrived,    \* [Line -> "no", "whole" or "broken"]: how the device got it
    buffer,     \* NdjsonFramer: what follows the last newline
    out,        \* the lines it gave to the session
    scans, faults,
    text,       \* history: what the device sent in this session
    crossed,    \* history: lines whose write overlapped another's
    cut         \* history: a write broke off

conn == <<peer, link, transport, closing, told>>
outbound == <<begun, writing, sent, air, arrived, crossed, cut>>
inbound == <<text, buffer, out>>
vars == <<central, scan, scans, faults, conn, outbound, inbound>>

NoScan == [timer |-> "off", listens |-> FALSE, found |-> FALSE]
Connecting == {"connect", "discover", "read", "subscribe"}

TypeOK ==
    /\ central \in {"power", "absent", "idle", "scan", "stop"} \cup Connecting
    /\ scan \in [timer : {"off", "timeout", "finish"}, listens : BOOLEAN, found : BOOLEAN]
    /\ peer \in BOOLEAN
    /\ link \in {"none", "open", "closed"}
    /\ transport \in {"none", "open", "closed"} /\ closing \in BOOLEAN
    /\ told \in Nat
    /\ writing \subseteq begun /\ begun \subseteq Line /\ crossed \subseteq Line
    /\ sent \in [Line -> Nat] /\ cut \in BOOLEAN
    /\ arrived \in [Line -> {"no", "whole", "broken"}]
    /\ text \in Seq(Byte \cup {Newline})
    /\ scans \in 0 .. MaxScans /\ faults \in 0 .. MaxFaults

Init ==
    /\ central = "power" /\ scan = NoScan /\ scans = 0 /\ faults = 0
    /\ peer = FALSE /\ link = "none" /\ transport = "none" /\ closing = FALSE /\ told = 0
    /\ begun = {} /\ writing = {} /\ sent = [l \in Line |-> 0] /\ air = <<>>
    /\ arrived = [l \in Line |-> "no"] /\ crossed = {} /\ cut = FALSE
    /\ text = <<>> /\ buffer = <<>> /\ out = <<>>

-----------------------------------------------------------------------------
(* The adapter and a scan *)

\* waitPoweredOn: the adapter is on, off or forbidden, or says nothing for 5 s
PoweredOn ==
    /\ central = "power" /\ central' \in {"idle", "absent"}
    /\ UNCHANGED <<scan, scans, faults, conn, outbound, inbound>>

\* The manager scans while it has no session.
ScanBegins ==
    /\ central = "idle" /\ transport # "open" /\ ~closing /\ scans < MaxScans
    /\ scans' = scans + 1
    /\ central' = "scan" /\ scan' = [timer |-> "timeout", listens |-> TRUE, found |-> FALSE]
    /\ UNCHANGED <<faults, conn, outbound, inbound>>

\* Mutant: the found device stops the long timer and starts no short one.
DiscoveredOnly ==
    /\ central = "scan" /\ scan.listens /\ ~peer
    /\ scan' = [scan EXCEPT !.found = TRUE, !.timer = "off"]
    /\ UNCHANGED <<central, scans, faults, conn, outbound, inbound>>
\* an advertisement that parses and is the one looked for; a peripheral noble
\* is connected to does not advertise
Discovered ==
    /\ central = "scan" /\ scan.listens /\ ~peer
    /\ scan' = [scan EXCEPT !.found = TRUE, !.timer = "finish"]
    /\ UNCHANGED <<central, scans, faults, conn, outbound, inbound>>

\* done: after 250 ms with a device, at the timeout, or because the scan did
\* not start
ScanDone ==
    /\ central = "scan" /\ scan.timer # "off"
    /\ central' = "stop" /\ scan' = [scan EXCEPT !.timer = "off", !.listens = FALSE]
    /\ UNCHANGED <<scans, faults, conn, outbound, inbound>>

\* stopScanning is answered; a device that was found is connected to
ScanResolves ==
    /\ central = "stop" /\ scan' = NoScan
    /\ central' = IF scan.found THEN "connect" ELSE "idle"
    /\ UNCHANGED <<scans, faults, conn, outbound, inbound>>

-----------------------------------------------------------------------------
(* connect, and NobleBleLink with its transport *)

Connects ==
    /\ central = "connect" /\ ~peer
    /\ central' = "discover" /\ peer' = TRUE
    /\ UNCHANGED <<scan, scans, faults, link, transport, closing, told, outbound, inbound>>

\* discover with the required characteristics, read
ConnectGoesOn ==
    /\ peer /\ central \in {"discover", "read"}
    /\ central' = IF central = "discover" THEN "read" ELSE "subscribe"
    /\ UNCHANGED <<scan, scans, faults, conn, outbound, inbound>>

\* The link is made and its transport opened before the loop turns again.
Subscribed ==
    /\ central = "subscribe" /\ peer
    /\ central' = "idle" /\ link' = "open" /\ transport' = "open" /\ told' = 0
    /\ begun' = {} /\ writing' = {} /\ sent' = [l \in Line |-> 0] /\ air' = <<>>
    /\ arrived' = [l \in Line |-> "no"] /\ crossed' = {} /\ cut' = FALSE
    /\ text' = <<>> /\ buffer' = <<>> /\ out' = <<>>
    /\ UNCHANGED <<scan, scans, faults, peer, closing>>

\* an error of any step; nothing disconnects what had been connected
ConnectFails ==
    /\ central \in Connecting /\ central' = "idle"
    /\ UNCHANGED <<scan, scans, faults, conn, outbound, inbound>>

\* Mutant: the transport is marked closed when the link is.
CloseLate ==
    /\ transport = "open" /\ ~closing
    /\ closing' = TRUE /\ link' = "closed"
    /\ UNCHANGED <<central, scan, scans, faults, peer, transport, told, outbound, inbound>>
Close ==
    /\ transport = "open" /\ transport' = "closed"
    /\ closing' = TRUE /\ link' = "closed"
    /\ UNCHANGED <<central, scan, scans, faults, peer, told, outbound, inbound>>

\* the disconnect is answered: the link emits 'close', for which the transport
\* is deaf unless it is open, and the transport emits its own
CloseCompletes ==
    /\ closing /\ closing' = FALSE
    /\ peer' = FALSE /\ transport' = "closed"
    /\ told' = told + IF transport = "open" THEN 2 ELSE 1
    /\ writing' = {} /\ cut' = (cut \/ writing # {})
    /\ UNCHANGED <<central, scan, scans, faults, link, begun, sent, air, arrived, crossed, inbound>>

\* 'disconnect': the link tells the transport unless close came first; every
\* write in progress fails
Disconnected ==
    /\ peer /\ peer' = FALSE
    /\ IF link = "open"
       THEN /\ link' = "closed"
            /\ transport' = IF transport = "open" THEN "closed" ELSE transport
            /\ told' = told + IF transport = "open" THEN 1 ELSE 0
       ELSE UNCHANGED <<link, transport, told>>
    /\ UNCHANGED closing
    /\ writing' = {} /\ cut' = (cut \/ writing # {})
    /\ UNCHANGED <<central, scan, scans, faults, begun, sent, air, arrived, crossed, inbound>>

-----------------------------------------------------------------------------
(* Writing lines, chunk after chunk *)

Write(l) ==
    /\ transport = "open" /\ l \notin begun
    /\ begun' = begun \cup {l} /\ writing' = writing \cup {l}
    /\ crossed' = IF writing = {} THEN crossed ELSE crossed \cup writing \cup {l}
    /\ UNCHANGED <<central, scan, scans, faults, conn, sent, air, arrived, cut, inbound>>

\* Mutant: the last chunk is left out when it is not the only one.
LastChunkButOne(l) == IF Chunks[l] > 1 THEN Chunks[l] - 1 ELSE Chunks[l]
LastChunk(l) == Chunks[l]
PartsOf(l) == [i \in 1 .. Chunks[l] |-> <<l, i>>]
\* What the device makes of a chunk: one with a line end ends the line.
Receive(chunk) ==
    LET got == Append(air, chunk)
        l == chunk[1]
    IN  IF chunk[2] < Chunks[l]
        THEN air' = got /\ UNCHANGED arrived
        ELSE /\ air' = <<>>
             /\ arrived' = [m \in Line |->
                   IF got = PartsOf(m) THEN "whole"
                   ELSE IF \E i \in DOMAIN got : got[i][1] = m THEN "broken" ELSE arrived[m]]

\* link.write resolves: the next chunk goes out, and the write ends after the last
ChunkTaken(l) ==
    /\ l \in writing /\ peer
    /\ sent' = [sent EXCEPT ![l] = @ + 1]
    /\ Receive(<<l, sent[l] + 1>>)
    /\ writing' = IF sent[l] + 1 = LastChunk(l) THEN writing \ {l} ELSE writing
    /\ UNCHANGED <<central, scan, scans, faults, conn, begun, crossed, cut, inbound>>

\* link.write rejects: the rest of the line is not written
ChunkRefused(l) ==
    /\ l \in writing /\ faults < MaxFaults /\ faults' = faults + 1
    /\ writing' = writing \ {l} /\ cut' = TRUE
    /\ UNCHANGED <<central, scan, scans, conn, begun, sent, air, arrived, crossed, inbound>>

-----------------------------------------------------------------------------
(* The framer *)

PushByte(f, b) ==
    IF b # Newline THEN [f EXCEPT !.rest = Append(@, b)]
    ELSE [rest |-> <<>>,
          lines |-> IF f.rest = <<>> THEN f.lines ELSE Append(f.lines, f.rest)]
PushBytes(first, chunk) ==
    LET f[n \in 0 .. Len(chunk)] == IF n = 0 THEN first ELSE PushByte(f[n - 1], chunk[n])
    IN  f[Len(chunk)]
\* Mutant: what follows the last newline is dropped with its chunk.
PushAlone(b, chunk) == PushBytes([rest |-> <<>>, lines |-> <<>>], chunk)
Push(b, chunk) == PushBytes([rest |-> b, lines |-> <<>>], chunk)

\* a notification of any length
Notified ==
    /\ transport = "open"
    /\ \E n \in 1 .. MaxText - Len(text) : \E chunk \in [1 .. n -> Byte \cup {Newline}] :
          LET f == Push(buffer, chunk)
          IN  text' = text \o chunk /\ buffer' = f.rest /\ out' = out \o f.lines
    /\ UNCHANGED <<central, scan, scans, faults, conn, outbound>>

CentralStep == PoweredOn \/ ScanDone \/ ScanResolves
Next ==
    \/ CentralStep \/ ScanBegins \/ Discovered
    \/ Connects \/ ConnectGoesOn \/ Subscribed \/ ConnectFails
    \/ Close \/ CloseCompletes \/ Disconnected
    \/ \E l \in Line : Write(l) \/ ChunkTaken(l) \/ ChunkRefused(l)
    \/ Notified

Spec == Init /\ [][Next]_vars

\* Timers fire, and noble answers stopScanning.
LiveSpec == Spec /\ WF_vars(CentralStep)

-----------------------------------------------------------------------------
(* Properties *)

\* The owner of a transport hears of its end, and once: not twice when the
\* disconnect it asked for is reported too or the link is lost meanwhile.
CloseToldOnce == told <= 1 /\ (transport = "closed" /\ ~closing => told = 1)

\* Every scan comes to an end, whether it finds something, nothing, or does
\* not start.
ScanEnds == central \in {"power", "scan", "stop"} ~> central \notin {"power", "scan", "stop"}

\* However many lines are written, one that is whole leaves whole, unless its
\* chunks overlapped another line's or a write broke off before.
OnlyOverlapMangles ==
    ~cut => \A l \in Line \ crossed :
        /\ arrived[l] # "broken"
        /\ l \in begun \ writing => arrived[l] = "whole"

\* The lines the session gets do not depend on how the text was cut up: the
\* k-th is what stands before the k-th newline that ends a line with something
\* in it, and the buffer is all that follows the last newline.
LineEnds(s) == {i \in 2 .. Len(s) : s[i] = Newline /\ s[i - 1] # Newline}
StandsBefore(x, s, i) ==
    \E k \in 0 .. i - 1 :
        /\ k = 0 \/ s[k] = Newline
        /\ \A j \in k + 1 .. i - 1 : s[j] # Newline
        /\ x = SubSeq(s, k + 1, i - 1)
Framed(s, lines, rest) ==
    /\ Len(lines) = Cardinality(LineEnds(s))
    /\ \A i \in LineEnds(s) :
          StandsBefore(lines[Cardinality({e \in LineEnds(s) : e <= i})], s, i)
    /\ StandsBefore(rest, s, Len(s) + 1)
FramerAgrees == Framed(text, out, buffer)

\* Claimed: BLE is a byte stream that does not change the protocol, so a line
\* arrives as it was written unless the link fails.
LinesArriveWhole == ~cut => \A l \in Line : arrived[l] # "broken"

\* Claimed: a device whose connection attempt failed can be connected again.
FailureLetsGo == central = "idle" /\ transport # "open" /\ ~closing => ~peer
=============================================================================
