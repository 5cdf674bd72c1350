-------------------------------- MODULE Wire --------------------------------
(***************************************************************************)
(* The plant wire of one node session and its host, record by record: the   *)
(* simulated node (plantwire app/session.go, slices.go, host_records.go)    *)
(* numbers what it sends, faults of the run's options strike single         *)
(* numbers (domain/wire_faults.go), and the reference host                  *)
(* (plantwire host/) keeps its view of the devices, asks for a rebirth when *)
(* a number is missing, issues the commands of its script at barriers and   *)
(* judges them by what it observes.                                         *)
(*                                                                          *)
(* The stream itself is a socket: it loses and reorders nothing, so only    *)
(* the faults do.  What the host sends is never struck.  A batch is         *)
(* written in one step: the host reads one record at a time whenever it     *)
(* likes, so no order of reads is lost.  Control records of a batch come    *)
(* before its data records already.  Each device has one metric and, as in  *)
(* the code (app/boards.go boot), one boot for the life of a session.  The  *)
(* node's judgement of a command is NodeSession's subject; here a command   *)
(* has a fate.  Heartbeats only keep the node's timer quiet and appear as   *)
(* its absence: the host may go, and then the node finds it lost.           *)
(***************************************************************************)
EXTENDS Integers, Sequences

LOCAL INSTANCE SequencesExt

CONSTANTS
    Device,
    Initial,         \* devices of the world when the session begins
    Commissioned,    \* Options.Inventory of the host
    Script,          \* Options.Script, in the order it is issued: records of
                     \* device, at, within and fate
    Reading,         \* what a device may report: records of value and good
    FaultPlan,       \* Options.WireFaults: functions from numbers to kinds
    MaxSlices,       \* bound: Options.UntilNS, in slices
    MaxReports,      \* bound: readings of a whole session
    MaxMissed        \* bound: barriers missed in a session

FaultKind == {"drop", "duplicate", "swap", "garble"}

ASSUME WireBounds ==
    /\ Initial \subseteq Device /\ Commissioned \subseteq Device
    /\ \A i \in DOMAIN Script : /\ Script[i].device \in Device
                                /\ Script[i].fate \in {"succeeded", "refused", "silent"}
                                /\ {Script[i].at, Script[i].within} \subseteq Nat
    /\ \A i, j \in DOMAIN Script : i < j => Script[i].at <= Script[j].at
    /\ \A plan \in FaultPlan : \A seq \in DOMAIN plan : seq \in Nat /\ plan[seq] \in FaultKind
    /\ {MaxSlices, MaxReports, MaxMissed} \subseteq Nat

VARIABLES
    faults,          \* Options.WireFaults of this run
    node,            \* app.Session
    up,              \* records the node has written and the host not read
    down,            \* records the host has written and the node not taken
    host,            \* host.Host
    covered,         \* history: the last barrier of the node that was met
    proven,          \* history: commands whose device made a good reading after they ran
    struck,          \* history: births of the node that a fault struck, by number
    blurred          \* history: devices whose last record reached the host garbled

vars == <<faults, node, up, down, host, covered, proven, struck, blurred>>

Commands == DOMAIN Script

None == "none"

Nobody == "nobody"

NoReading == [value |-> None, good |-> FALSE]

(* Transmitter, Receiver, bdSeq, devices.current of app.Session.            *)
NewNode == [phase |-> "dials", next |-> 0, in |-> 0, bd |-> 0, slice |-> 0, sync |-> 0,
            current |-> [d \in Device |-> NoReading], known |-> Initial, done |-> {},
            left |-> MaxReports, late |-> MaxMissed]

Absent == [present |-> FALSE, value |-> None, valid |-> FALSE]

(* Status of a scripted command; sampled: the device's metric is updated    *)
(* later than the result (updated > resultAt).                              *)
NewStatus == [sent |-> FALSE, denied |-> FALSE, at |-> 0, accepted |-> FALSE,
              result |-> FALSE, sampled |-> FALSE, verified |-> "open"]

NewHost == [up |-> TRUE, in |-> 0, next |-> 0, bd |-> 0, asked |-> FALSE, accepted |-> FALSE,
            refused |-> FALSE, issued |-> 0, devices |-> [d \in Device |-> Absent],
            commands |-> [c \in Commands |-> NewStatus]]

Init ==
    /\ faults \in FaultPlan
    /\ node = NewNode /\ host = NewHost
    /\ up = <<>> /\ down = <<>> /\ covered = -1 /\ proven = {}
    /\ struck = {} /\ blurred = {}

-----------------------------------------------------------------------------
(* Numbers and faults (domain/sequence.go, wire_faults.go)                  *)

Arrival(next, seq) == IF seq < next THEN "duplicate" ELSE IF seq = next THEN "order" ELSE "gap"

After(next, seq) == IF seq < next THEN next ELSE seq + 1

FaultAt(seq) == IF seq \in DOMAIN faults THEN faults[seq] ELSE None

(* A garbled record keeps its number and its type and has no content.       *)
Garbled(m) == [m EXCEPT !.garbled = TRUE]

(* A swap takes the next record of the batch along, unless it is the last.  *)
ApplyWireFaults(batch) ==
    LET count == Len(batch)
        from[i \in 1..count + 2] ==
            IF i > count THEN <<>>
            ELSE LET m == batch[i]
                     kind == FaultAt(m.seq)
                 IN IF kind = "swap" /\ i < count THEN <<batch[i + 1], m>> \o from[i + 2]
                    ELSE (CASE kind = "drop" -> <<>>
                            [] kind = "duplicate" -> <<m, m>>
                            [] kind = "garble" -> <<Garbled(m)>>
                            [] OTHER -> <<m>>) \o from[i + 1]
    IN from[1]

Record(kind, of) == [kind |-> kind, of |-> of, value |-> None, good |-> TRUE, number |-> 0, seq |-> 0,
                     garbled |-> FALSE]

Stamp(next, records) == [i \in 1..Len(records) |-> [records[i] EXCEPT !.seq = next + i - 1]]

-----------------------------------------------------------------------------
(* The node (app/session.go, devices.go, host_records.go, slices.go).  s    *)
(* carries the session, what it wrote, and which births of it were struck.  *)

Session == [node |-> node, wrote |-> <<>>, struck |-> struck]

Send(s, records) ==
    LET batch == Stamp(s.node.next, records)
        wire == ApplyWireFaults(batch)
        lost == {m \in {batch[i] : i \in 1..Len(batch)} :
                    m.kind = "NBIRTH" /\ (wire = <<>> \/ Head(wire) # m)}
    IN [s EXCEPT !.node.next = @ + Len(records), !.wrote = @ \o wire,
                 !.struck = @ \cup {m.number : m \in lost}]

NodeBirth(n) == [Record("NBIRTH", Nobody) EXCEPT !.number = n.bd]

(* A birth repeats the last reading as a good one, whatever it was.         *)
DeviceBirth(n, d) == [Record("DBIRTH", d) EXCEPT !.value = n.current[d].value,
                                                   !.good = n.current[d] # NoReading]

Births(n) == LET devices == SetToSeq(n.known)
             IN [i \in 1..Len(devices) |-> DeviceBirth(n, devices[i])]

Rebirth_Devices(s) == Send(s, Births(s.node))

Rebirth(s) ==
    LET again == [s EXCEPT !.node.bd = @ + 1]
    IN Send(again, <<NodeBirth(again.node)>> \o Births(again.node))

Receipt(c, status) == [Record("DRECEIPT", c) EXCEPT !.value = status]

Result(c) == Record("DRESULT", c)

(* dispatch and answer: NodeSession judges commands, here each has its fate.*)
Command(s, c) ==
    LET ran == [s EXCEPT !.node.done = @ \cup {c}]
    IN CASE Script[c].fate = "succeeded" -> Send(ran, <<Receipt(c, "accepted"), Result(c)>>)
         [] Script[c].fate = "silent" -> ran
         [] OTHER -> Send(s, <<Receipt(c, "refused")>>)

Handle(s, m) ==
    CASE m.kind = "NCMD" -> Rebirth(s)
      [] m.kind = "DCMD" -> Command(s, m.of)
      [] OTHER -> s

Arrive(s, m) ==
    LET arrival == Arrival(s.node.in, m.seq)
        taken == [s EXCEPT !.node.in = After(@, m.seq)]
    IN IF s.node.phase = "failed" \/ arrival = "duplicate" THEN s
       ELSE IF arrival = "gap" THEN [taken EXCEPT !.node.phase = "failed"]
       ELSE Handle(taken, m)

Process(s, inbound) == FoldLeft(Arrive, s, inbound)

Wrote(s) == /\ node' = s.node /\ up' = up \o s.wrote /\ struck' = s.struck

(* handshake: a birth, the host's STATE and nothing else, every device.     *)
Dials ==
    /\ node.phase = "dials"
    /\ Wrote(Send([Session EXCEPT !.node.phase = "greets"], <<NodeBirth(node)>>))
    /\ UNCHANGED <<faults, down, host, covered, proven, blurred>>

Adopt ==
    /\ node.phase = "greets" /\ down # <<>>
    /\ LET state == Head(down)
           fits == state.kind = "STATE" /\ state.number = 1 /\ Arrival(node.in, state.seq) = "order"
           joined == [Session EXCEPT !.node.in = After(@, state.seq), !.node.phase = "runs"]
       IN Wrote(IF fits THEN Send(joined, Births(node))
                ELSE [Session EXCEPT !.node.phase = "failed"])
    /\ down' = Tail(down)
    /\ UNCHANGED <<faults, host, covered, proven, blurred>>

(* Advance and the records of its events; a device that has not been born   *)
(* is born with its first reading.                                          *)
Carried(n, d, reading) ==
    LET data == [Record("DDATA", d) EXCEPT !.value = reading.value, !.good = reading.good]
    IN IF d \in n.known THEN <<data>> ELSE <<DeviceBirth(n, d), data>>

Remember(n, readings) ==
    [n EXCEPT !.known = @ \cup DOMAIN readings, !.left = @ - Len(SetToSeq(DOMAIN readings)),
              !.current = [d \in Device |-> IF d \in DOMAIN readings THEN readings[d] ELSE @[d]]]

Sync(n) == [Record("NSYNC", Nobody) EXCEPT !.number = n.slice]

Slice ==
    /\ node.phase = "runs" /\ node.slice < MaxSlices
    /\ \E reporting \in SUBSET Device :
         /\ Len(SetToSeq(reporting)) <= node.left
         /\ \E readings \in [reporting -> Reading] :
              LET devices == SetToSeq(reporting)
                  data == FlattenSeq([i \in 1..Len(devices) |-> Carried(node, devices[i], readings[devices[i]])])
                  told == Send([Session EXCEPT !.node = [Remember(node, readings) EXCEPT !.slice = @ + 1]], data)
                  synced == Send(told, <<Sync(told.node)>>)
              IN /\ Wrote([synced EXCEPT !.node.sync = synced.node.next - 1, !.node.phase = "waits"])
                 /\ proven' = proven \cup {c \in node.done : /\ Script[c].device \in reporting
                                                              /\ readings[Script[c].device].good}
    /\ UNCHANGED <<faults, down, host, covered, blurred>>

(* awaitSync: an HSYNC that covers the node's own NSYNC; whatever arrived   *)
(* before it is handled first.                                              *)
Meets_Any(m) == m.kind = "HSYNC"

Meets(m) == m.kind = "HSYNC" /\ m.number >= node.sync

Settled(s, inbound) ==
    LET done == Process(s, inbound)
    IN IF done.node.phase = "failed" THEN done ELSE [done EXCEPT !.node.phase = "runs"]

Met ==
    /\ node.phase = "waits"
    /\ \E i \in 1..Len(down) :
         /\ Meets(down[i]) /\ \A j \in 1..i - 1 : ~Meets(down[j])
         /\ Wrote(Settled(Session, SubSeq(down, 1, i)))
         /\ down' = SubSeq(down, i + 1, Len(down))
    /\ covered' = node.sync
    /\ UNCHANGED <<faults, host, proven, blurred>>

(* The cap of a barrier ends the wait with what was taken until then: the   *)
(* world advances and the host is late, not lost.                           *)
Missed ==
    /\ node.phase = "waits" /\ node.late > 0
    /\ \E i \in 0..Len(down) :
         /\ \A j \in 1..i : ~Meets(down[j])
         /\ Wrote(Settled([Session EXCEPT !.node.late = @ - 1], SubSeq(down, 1, i)))
         /\ down' = SubSeq(down, i + 1, Len(down))
    /\ UNCHANGED <<faults, host, covered, proven, blurred>>

HandshakeExpires ==
    /\ node.phase = "greets"
    /\ node' = [node EXCEPT !.phase = "failed"]
    /\ UNCHANGED <<faults, up, down, host, covered, proven, struck, blurred>>

(* hostLost: the wait ends with the connection, or with three heartbeats    *)
(* missed; only a goodbye would have ended the session cleanly.             *)
HostLost ==
    /\ node.phase \in {"greets", "runs", "waits"} /\ ~host.up
    /\ node' = [node EXCEPT !.phase = "failed"] /\ down' = <<>>
    /\ UNCHANGED <<faults, up, host, covered, proven, struck, blurred>>

Close ==
    /\ node.phase = "runs" /\ node.slice = MaxSlices
    /\ Wrote(Send([Session EXCEPT !.node.phase = "ended"],
                  <<[Record("NDEATH", Nobody) EXCEPT !.number = node.bd]>>))
    /\ UNCHANGED <<faults, down, host, covered, proven, blurred>>

-----------------------------------------------------------------------------
(* The host (host/receive.go, devices.go, commands.go).  h carries it and   *)
(* the records it replies with.                                             *)

HostState == [host |-> host, says |-> <<>>]

Reply(h, kind, of, number) ==
    [h EXCEPT !.says = Append(@, [kind |-> kind, of |-> of, number |-> number, seq |-> h.host.next]),
              !.host.next = @ + 1]

Owner(c) == Script[c].device

(* askRebirth: once, until a birth of the node arrives.                     *)
AskRebirth(h, arrival) ==
    IF arrival # "gap" \/ h.host.asked THEN h
    ELSE Reply([h EXCEPT !.host.asked = TRUE], "NCMD", Nobody, 0)

HostBirth(h, m) ==
    LET born == [h EXCEPT !.host.asked = FALSE, !.host.bd = m.number]
    IN IF h.host.accepted THEN {born}
       ELSE {Reply([born EXCEPT !.host.accepted = TRUE, !.host.next = 0], "STATE", Nobody, 1),
             Reply([born EXCEPT !.host.refused = TRUE, !.host.next = 0], "STATE", Nobody, 0)}

NodeDeath(h, m) == IF m.number < h.host.bd THEN h
                   ELSE [h EXCEPT !.host.devices = [d \in Device |-> Absent]]

(* sample: the device's metric is newer than any result so far.             *)
SampleOf(h, d, value) ==
    [h EXCEPT !.host.devices[d] = [present |-> TRUE, value |-> value, valid |-> TRUE],
              !.host.commands = [c \in Commands |-> [@[c] EXCEPT !.sampled = @ \/ Owner(c) = d]]]

DeviceBorn(h, m) ==
    LET fresh == [h EXCEPT !.host.devices[m.of] = [Absent EXCEPT !.present = TRUE],
                           !.host.commands = [c \in Commands |->
                                                [@[c] EXCEPT !.sampled = @ /\ Owner(c) # m.of]]]
    IN IF m.of \notin Commissioned THEN [h EXCEPT !.host.devices[m.of] = Absent]
       ELSE IF m.good THEN SampleOf(fresh, m.of, m.value) ELSE fresh

Data(h, m) ==
    IF ~h.host.devices[m.of].present THEN h
    ELSE IF m.good THEN SampleOf(h, m.of, m.value)
    ELSE [h EXCEPT !.host.devices[m.of].valid = FALSE]

(* A result counts after an accepted receipt.                               *)
Answer(h, m) ==
    CASE m.kind = "DRECEIPT" -> [h EXCEPT !.host.commands[m.of].accepted = @ \/ m.value = "accepted"]
      [] h.host.commands[m.of].accepted /\ ~h.host.commands[m.of].result ->
            [h EXCEPT !.host.commands[m.of].result = TRUE, !.host.commands[m.of].sampled = FALSE]
      [] OTHER -> h

Observed(g, c) == /\ g.devices[Owner(c)].valid /\ g.devices[Owner(c)].value = "goal"
                  /\ g.commands[c].sampled

Verified(g, c, now) ==
    LET status == g.commands[c]
    IN IF ~status.result \/ status.verified # "open" THEN status
       ELSE IF Observed(g, c) THEN [status EXCEPT !.verified = "yes"]
       ELSE IF now - status.at >= Script[c].within THEN [status EXCEPT !.verified = "no"]
       ELSE status

Verify(h, now) == [h EXCEPT !.host.commands = [c \in Commands |-> Verified(h.host, c, now)]]

Issue(h, c, now) ==
    LET next == [h EXCEPT !.host.issued = c]
    IN IF ~h.host.devices[Owner(c)].present THEN [next EXCEPT !.host.commands[c].denied = TRUE]
       ELSE Reply([next EXCEPT !.host.commands[c].sent = TRUE, !.host.commands[c].at = now],
                  "DCMD", c, 0)

(* sync: judge, issue what is due, answer the barrier with its own number.  *)
Barrier(h, m) ==
    LET due == SelectSeq([c \in Commands |-> c], LAMBDA c : c > h.host.issued /\ Script[c].at <= m.number)
    IN Reply(FoldLeft(LAMBDA a, c : Issue(a, c, m.number), Verify(h, m.number), due),
             "HSYNC", Nobody, m.seq)

Dispatch(h, m) ==
    CASE m.kind = "NBIRTH" -> HostBirth(h, m)
      [] m.kind = "NDEATH" -> {NodeDeath(h, m)}
      [] m.kind = "NSYNC" -> {Barrier(h, m)}
      [] m.kind = "DBIRTH" -> {DeviceBorn(h, m)}
      [] m.kind = "DDATA" -> {Data(h, m)}
      [] OTHER -> {Answer(h, m)}

Admits(h, m) == ~m.garbled /\ (h.host.accepted \/ m.kind = "NBIRTH")

(* Receive: a number seen before is nothing; past a gap the record itself   *)
(* still counts.                                                            *)
Receive(m) ==
    LET arrival == Arrival(host.in, m.seq)
        taken == [HostState EXCEPT !.host.in = After(@, m.seq)]
        asked == AskRebirth(taken, arrival)
    IN IF host.refused \/ arrival = "duplicate" THEN {HostState}
       ELSE IF Admits(asked, m) THEN Dispatch(asked, m) ELSE {asked}

Blurred(m) ==
    IF Arrival(host.in, m.seq) = "duplicate" \/ m.kind \notin {"DBIRTH", "DDATA"} THEN blurred
    ELSE IF m.garbled THEN blurred \cup {m.of}
    ELSE IF m.kind = "DBIRTH" \/ (m.kind = "DDATA" /\ host.devices[m.of].present) THEN blurred \ {m.of}
    ELSE blurred

HostReads ==
    /\ host.up /\ up # <<>>
    /\ \E h \in Receive(Head(up)) : host' = h.host /\ down' = down \o h.says
    /\ up' = Tail(up) /\ blurred' = Blurred(Head(up))
    /\ UNCHANGED <<faults, node, covered, proven, struck>>

(* The host ends: refused, its peer gone, or stopped.                       *)
HostGoes ==
    /\ host.up
    /\ host' = [host EXCEPT !.up = FALSE]
    /\ UNCHANGED <<faults, node, up, down, covered, proven, struck, blurred>>

-----------------------------------------------------------------------------
Next == \/ Dials \/ Adopt \/ HandshakeExpires \/ Slice \/ Met \/ Missed \/ HostLost \/ Close
        \/ HostReads \/ HostGoes

Spec == Init /\ [][Next]_vars

-----------------------------------------------------------------------------
TypeOK ==
    /\ faults \in FaultPlan
    /\ node.phase \in {"dials", "greets", "runs", "waits", "ended", "failed"}
    /\ node.known \subseteq Device /\ node.done \subseteq Commands
    /\ {node.next, node.in, node.bd, node.slice, node.sync, node.left, node.late} \subseteq Nat
    /\ host.issued \in 0..Len(Script) /\ {host.in, host.next, host.bd} \subseteq Nat
    /\ \A c \in Commands : host.commands[c].verified \in {"open", "yes", "no"}
    /\ covered \in Int /\ proven \subseteq node.done /\ blurred \subseteq Device
    /\ struck \subseteq 0..node.bd

(* A barrier that was met was read: when the node takes an answer as its    *)
(* barrier's, the host has seen every number up to that NSYNC, however many *)
(* barriers were missed before (app/slices.go awaitSync, host/evidence.go   *)
(* barrier).                                                                *)
MetBarrierIsRead == covered < host.in

Tracked(d) ==
    LET view == host.devices[d]
        last == node.current[d]
    IN /\ view.present
       /\ view.valid => view.value = last.value
       /\ ~view.valid => ~last.good

(* Nothing is lost in silence: when the host has read past the last number  *)
(* the node has used and waits for no rebirth, its view of every            *)
(* commissioned device is the node's last reading, however many records the *)
(* faults struck, in a rebirth or behind it.  A number struck at the end is *)
(* missed when the next one is read.  A garbled record is the one exception,*)
(* as the wire has it: it keeps its number and has no content, so no gap    *)
(* tells of it (domain/sequence.go Accept, host/receive.go askRebirth).     *)
NothingLostInSilence ==
    (node.phase \in {"runs", "waits"} /\ host.in = node.next /\ host.accepted /\ ~host.asked)
        => \A d \in (node.known \cap Commissioned) \ blurred : Tracked(d)

UnderWay == \/ \E i \in 1..Len(down) : down[i].kind = "NCMD"
            \/ \E i \in 1..Len(up) : /\ up[i].kind = "NBIRTH" /\ ~up[i].garbled
                                     /\ up[i].number > host.bd /\ up[i].seq >= host.in

Asking == host.asked /\ host.up /\ node.phase \in {"greets", "runs", "waits"}

(* A rebirth that the host waits for is under way, as a command to the node *)
(* or as a birth the host will take, unless the birth that answered was     *)
(* itself struck: the host asks once until a birth arrives and then never   *)
(* asks again (host/receive.go askRebirth, app/host_records.go rebirth).    *)
RebirthIsUnderWay == Asking => (UnderWay \/ node.bd \in struck)

(* A gap makes the host send a rebirth request and the node answers it, so  *)
(* a host that waits for one always has one to come                         *)
(* (contracts/plant-wire/SPEC.md, 6 and 7).                                 *)
GapsEndInARebirth == Asking => UnderWay

(* Both: what a host has lost it learns of, and the birth that tells it the  *)
(* rest is on its way (domain/sequence.go Accept).                          *)
LossesHeal == NothingLostInSilence /\ RebirthIsUnderWay

(* A command is verified by a reading newer than its result                 *)
(* (host/commands.go observedAfterResult).                                  *)
EvidenceIsNewer == \A c \in Commands : host.commands[c].verified = "yes" => c \in proven

=============================================================================
