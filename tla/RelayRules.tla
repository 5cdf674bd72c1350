----------------------------- MODULE RelayRules -----------------------------
(***************************************************************************)
(* The rules of the plant wire relay                                        *)
(* (internal/plantwire/internal/domain/relay*.go): one node toward the real *)
(* host, one host toward a hardware gateway and, in a mixed relay, one host *)
(* toward a simulated node (the world).  The source keeps them as a pure    *)
(* state machine that the relay's loop steps, so this module too has no     *)
(* variable: an operator takes a step s and returns the next one, where     *)
(*                                                                          *)
(*   s.r                        the relay's state                           *)
(*   s.up, s.down, s.sim        what it sends to the host, to the gateway   *)
(*                              and to the world                            *)
(*   s.closeHost, s.closeGateway, s.failed    what the loop does afterwards *)
(*                                                                          *)
(* A relay without local control is modelled (no gate: r.ints is nil).      *)
(* Time, counters, notes, the field trace and boot ids are left out.        *)
(***************************************************************************)
EXTENDS Integers, Sequences, FiniteSets

LOCAL INSTANCE SequencesExt

CONSTANTS
    Device,          \* names of devices
    SimDevice,       \* the devices of the world; none: the relay has no world
    Refused,         \* the announcements the relay does not admit (Admission.Refusal)
    Id,              \* command ids
    SyncWindow,      \* syncWindow: pairs kept of a host session
    PendingSyncs     \* pendingSyncs: unanswered barriers kept of a side

ASSUME RelayConstants ==
    /\ SimDevice \subseteq Device /\ IsFiniteSet(Device)
    /\ Refused \subseteq SUBSET Device
    /\ SyncWindow \in Nat \ {0} /\ PendingSyncs \in Nat \ {0}

Mixed == SimDevice # {}

NoBirth == [seq |-> 0, devices |-> {}]

NewGatewaySide == [admitted |-> FALSE, answered |-> FALSE, asked |-> FALSE, in |-> 0, born |-> {}]

(* state: the host has announced itself; out: the seq of the next record.   *)
NewHostSide == [connected |-> FALSE, shaken |-> FALSE, beating |-> FALSE, state |-> FALSE,
                out |-> 0, table |-> <<>>, birthed |-> FALSE, birthSeq |-> 0, simTable |-> <<>>,
                gatewaySyncs |-> <<>>, simSyncs |-> <<>>]

NewSimSide == [started |-> FALSE, lost |-> FALSE, in |-> 0, born |-> {}]

NewRelay == [gateway |-> NewGatewaySide, host |-> NewHostSide, sim |-> NewSimSide,
             birth |-> NoBirth, gatewayDevices |-> {}, bdSeq |-> 0, birthBD |-> 0,
             lastUp |-> -1, routed |-> [i \in Id |-> "unknown"],
             gatewaySessions |-> 0, hostSessions |-> 0]

Step(r) == [r |-> r, up |-> <<>>, down |-> <<>>, sim |-> <<>>,
            closeHost |-> FALSE, closeGateway |-> FALSE, failed |-> FALSE]

-----------------------------------------------------------------------------
(* Pairs of sequence numbers, and the barriers that wait for an answer      *)

Newest(q, n) == IF Len(q) > n THEN SubSeq(q, Len(q) - n + 1, Len(q)) ELSE q

(* sort.Search: the number of elements before the first that Above holds    *)
(* of, found by halving; it means that only where Above is monotone.        *)
SearchFirst(q, Above(_)) ==
    LET Between[i \in 0..Len(q), j \in 0..Len(q)] ==
            IF i >= j THEN i
            ELSE LET h == (i + j) \div 2
                 IN IF Above(q[h + 1]) THEN Between[i, h] ELSE Between[h + 1, j]
    IN Between[0, Len(q)]

(* Pairs are kept in the order records go up: of the sender's seq and the   *)
(* relay's.                                                                 *)
AddPair(t, of, up) == Newest(Append(t, [of |-> of, up |-> up]), SyncWindow)

Uncovered == -1

UpFor(t, of) ==
    LET at == SearchFirst(t, LAMBDA p : p.of > of)
    IN IF at = 0 THEN Uncovered ELSE t[at].up

(* Variant: the first pair above.                                           *)
SenderFor_Above(t, up) ==
    LET at == SearchFirst(t, LAMBDA p : p.up > up)
    IN IF at = 0 THEN Uncovered ELSE IF at < Len(t) THEN t[at + 1].of ELSE t[at].of

SenderFor(t, up) ==
    LET at == SearchFirst(t, LAMBDA p : p.up > up)
    IN IF at = 0 THEN Uncovered ELSE t[at].of

AddSync(l, up) == Newest(Append(l, up), PendingSyncs)

(* Variant: one that is answered at its own number still waits.             *)
Waiting_Strict(l, through) == SearchFirst(l, LAMBDA u : u >= through)

Waiting(l, through) == SearchFirst(l, LAMBDA u : u > through)

Answers(l, through) == Waiting(l, through) > 0

Unanswered(l, through) == SubSeq(l, Waiting(l, through) + 1, Len(l))

-----------------------------------------------------------------------------
(* Sending.  side and of name the sender of a carried record and its seq.   *)

Up(s, type, arg, side, of) ==
    [s EXCEPT !.up = Append(@, [type |-> type, arg |-> arg, seq |-> s.r.host.out,
                                side |-> side, of |-> of]),
              !.r.host.out = @ + 1]

Down(s, type, arg) == [s EXCEPT !.down = Append(@, [type |-> type, arg |-> arg])]

ToSim(s, type, arg) == [s EXCEPT !.sim = Append(@, [type |-> type, arg |-> arg])]

LastUp(s) == s.r.host.out - 1

AskRebirth(s) ==
    IF s.r.gateway.asked THEN s
    ELSE [Down(s, "NCMD", "rebirth") EXCEPT !.r.gateway.asked = TRUE]

AskSimRebirth(s) ==
    IF Mixed /\ s.r.sim.started /\ s.r.host.shaken THEN ToSim(s, "NCMD", "rebirth") ELSE s

(* A DDEATH for each device, in one order.                                  *)
Deaths(s, devices, side) ==
    LET q == SetToSeq(devices)
    IN [s EXCEPT !.up = @ \o [i \in 1..Len(q) |->
                                [type |-> "DDEATH", arg |-> q[i], seq |-> s.r.host.out + i - 1,
                                 side |-> side, of |-> 0]],
                 !.r.host.out = @ + Len(q)]

-----------------------------------------------------------------------------
(* Births and losses                                                        *)

(* The relay's own birth: what the gateway announced and the world's boards. *)
BirthContent(r) ==
    [devices |-> r.birth.devices \cup SimDevice, bd |-> r.bdSeq, prior |-> r.lastUp]

BirthUp(s) ==
    LET seq == s.r.host.out
        sent == [Up(s, "NBIRTH", BirthContent(s.r), "relay", 0) EXCEPT
                    !.r.birthBD = s.r.bdSeq, !.r.bdSeq = @ + 1,
                    !.r.host.table = AddPair(@, s.r.birth.seq, seq),
                    !.r.host.birthed = TRUE, !.r.host.birthSeq = seq,
                    !.r.gateway.born = {}, !.r.sim.born = {}]
    IN AskSimRebirth(sent)

Online(s) == [Down(s, "STATE", "online") EXCEPT !.r.gateway.answered = TRUE]

Offline(s) == [Down(s, "STATE", "offline") EXCEPT !.r.gateway.answered = TRUE]

LoseHost(s) ==
    IF ~s.r.host.connected THEN s
    ELSE LET left == [s EXCEPT !.closeHost = TRUE, !.r.lastUp = LastUp(s),
                               !.r.host = NewHostSide,
                               !.r.gateway.asked = FALSE, !.r.gateway.born = {}]
         IN IF s.r.gateway.admitted THEN Offline(left) ELSE left

DiedUp(s) ==
    LET told == IF s.r.host.shaken THEN Deaths(s, s.r.gateway.born, "gateway") ELSE s
    IN [told EXCEPT !.r.gateway.born = {}]

ClearGateway(s) == [s EXCEPT !.r.gateway = NewGatewaySide, !.r.gatewayDevices = {},
                             !.r.host.gatewaySyncs = <<>>]

GatewayAttached(r) == [r EXCEPT !.gateway = NewGatewaySide, !.gatewaySessions = @ + 1]

LoseUnshakenHost(s) == IF s.r.host.connected /\ ~s.r.host.shaken THEN LoseHost(s) ELSE s

(* A host that has not answered the birth of a gateway that is lost is lost *)
(* with it.                                                                 *)
GatewayLost(s) ==
    ClearGateway(LoseUnshakenHost([DiedUp(s) EXCEPT !.r.gateway.admitted = FALSE]))

-----------------------------------------------------------------------------
(* Records from the gateway: [type, seq, arg]                               *)

NamesDevice(in) == in.type \in {"DBIRTH", "DDATA", "DDEATH"}

StrayDevice(s, in) == Mixed /\ NamesDevice(in) /\ in.arg \notin s.r.gatewayDevices

ForgedAnswer(s, in, side) == Mixed /\ in.type = "DRECEIPT" /\ s.r.routed[in.arg] # side

ForgedFromGateway(s, in) == \/ ForgedAnswer(s, in, "gateway")
                            \/ in.type = "DBIRTH" /\ in.arg \notin s.r.birth.devices

(* The announcement of a gateway may not name a device of the world.        *)
GatewayRefusal(in) == in.arg \in Refused \/ in.arg \cap SimDevice # {}

TakeBirth(s, in) ==
    [s EXCEPT !.r.birth = [seq |-> in.seq, devices |-> in.arg], !.r.gatewayDevices = in.arg,
              !.r.host.table = <<>>, !.r.host.gatewaySyncs = <<>>,
              !.r.gateway.admitted = TRUE, !.r.gateway.answered = FALSE,
              !.r.gateway.asked = FALSE, !.r.gateway.born = {}]

AfterBirth(s) == IF s.r.host.shaken THEN BirthUp(Online(s)) ELSE s

Admit(s, in) ==
    IF in.type # "NBIRTH" THEN s
    ELSE IF GatewayRefusal(in) THEN [Down(s, "STATE", "refused") EXCEPT !.closeGateway = TRUE]
    ELSE AfterBirth(TakeBirth(s, in))

Rebirth(s, in) ==
    IF GatewayRefusal(in) THEN s
    ELSE LET taken == [s EXCEPT !.r.birth = [seq |-> in.seq, devices |-> in.arg],
                                !.r.gateway.asked = FALSE, !.r.gatewayDevices = in.arg]
         IN IF s.r.host.shaken THEN BirthUp(taken) ELSE taken

(* Variant: a death leaves the device in the books.                         *)
Track_NoDeath(s, in, seq) ==
    CASE in.type = "DBIRTH" -> [s EXCEPT !.r.gateway.born = @ \cup {in.arg}]
      [] in.type = "NSYNC" -> [s EXCEPT !.r.host.gatewaySyncs = AddSync(@, seq)]
      [] OTHER -> s

Track(s, in, seq) ==
    CASE in.type = "DBIRTH" -> [s EXCEPT !.r.gateway.born = @ \cup {in.arg}]
      [] in.type = "DDEATH" -> [s EXCEPT !.r.gateway.born = @ \ {in.arg}]
      [] in.type = "NSYNC" -> [s EXCEPT !.r.host.gatewaySyncs = AddSync(@, seq)]
      [] OTHER -> s

(* A barrier goes up with its through_seq in the relay's numbers.           *)
ForwardUp(s, in) ==
    LET through == UpFor(s.r.host.table, in.arg)
        arg == IF in.type = "NSYNC" THEN through ELSE in.arg
        seq == s.r.host.out
        sent == [Up(s, in.type, arg, "gateway", in.seq) EXCEPT
                    !.r.host.table = AddPair(@, in.seq, seq)]
    IN IF in.type = "NSYNC" /\ through = Uncovered THEN s ELSE Track(sent, in, seq)

ForwardOrEnd(s, in) ==
    IF in.type = "NDEATH" THEN ClearGateway(DiedUp(s))
    ELSE IF StrayDevice(s, in) \/ ForgedFromGateway(s, in) \/ ~s.r.host.shaken THEN s
    ELSE ForwardUp(s, in)

(* "other" stands for every record that fails its schema, belongs to        *)
(* another session or does not travel up.                                   *)
GatewayRecord(s, in) ==
    CASE ~s.r.gateway.admitted -> Admit(s, in)
      [] s.r.gateway.admitted /\ in.type = "other" -> s
      [] s.r.gateway.admitted /\ in.type = "NBIRTH" -> Rebirth(s, in)
      [] OTHER -> ForwardOrEnd(s, in)

(* A repeated seq is dropped; after a gap the record is still carried.      *)
FromGateway(r, in) ==
    LET s == Step([r EXCEPT !.gateway.in = in.seq + 1])
        gap == in.seq > r.gateway.in /\ r.gateway.admitted
    IN IF in.seq < r.gateway.in THEN Step(r)
       ELSE GatewayRecord(IF gap THEN AskRebirth(s) ELSE s, in)

-----------------------------------------------------------------------------
(* Records from the host: [type, arg]                                       *)

HostAttached(r) ==
    LET s == Step([r EXCEPT !.host = [NewHostSide EXCEPT !.connected = TRUE],
                           !.hostSessions = @ + 1])
    IN IF r.gateway.admitted THEN BirthUp(s) ELSE s

HostUnreachable(r) ==
    IF r.gateway.admitted /\ ~r.gateway.answered THEN Offline(Step(r)) ELSE Step(r)

(* The state of the host goes to the world too; the first of a host session *)
(* asks a world that runs to birth again.                                   *)
StateToSim(s, first) ==
    IF ~Mixed \/ ~s.r.host.birthed THEN s
    ELSE LET told == [ToSim(s, "STATE", "online") EXCEPT !.r.sim.started = TRUE]
         IN IF first /\ s.r.sim.started THEN ToSim(told, "NCMD", "rebirth") ELSE told

NoteState(s, in) == [s EXCEPT !.r.host.state = TRUE, !.r.host.beating = @ \/ in.arg = "beat"]

(* ... and to the gateway, which births again when it has had a STATE.      *)
StateToGateway(s, first) ==
    IF ~s.r.gateway.admitted THEN s
    ELSE IF first /\ s.r.gateway.answered THEN AskRebirth(Online(s))
    ELSE Online(s)

(* Variant: a gateway that knows a host is not asked to birth again.        *)
StateDown_NoRebirth(s, in) ==
    StateToGateway(StateToSim(NoteState(s, in), ~s.r.host.state), FALSE)

StateDown(s, in) ==
    StateToGateway(StateToSim(NoteState(s, in), ~s.r.host.state), ~s.r.host.state)

(* Only a command gets an answer.                                           *)
RefuseCommand(s, in, reason) ==
    IF in.type = "DCMD" THEN Up(s, "DRECEIPT", in.arg.id, reason, 0) ELSE s

(* The answer to a barrier goes back in the gateway's own numbers.          *)
ForwardDown(s, in) ==
    LET through == SenderFor(s.r.host.table, in.arg)
    IN IF ~s.r.gateway.admitted THEN RefuseCommand(s, in, "not_ready")
       ELSE IF in.type # "HSYNC" THEN Down(s, in.type, in.arg)
       ELSE IF through = Uncovered THEN s
       ELSE Down(s, "HSYNC", through)

SyncToSim(s, in) ==
    LET through == SenderFor(s.r.host.simTable, in.arg)
    IN IF through = Uncovered THEN s ELSE ToSim(s, "HSYNC", through)

(* An answer goes to each side with a barrier at or below it.               *)
AnswerSim(s, in, waits) == IF waits THEN SyncToSim(s, in) ELSE s

AnswerGateway(s, in, waits) == IF waits THEN ForwardDown(s, in) ELSE s

RouteSync(s, in) ==
    AnswerGateway(AnswerSim([s EXCEPT !.r.host.simSyncs = Unanswered(@, in.arg),
                                      !.r.host.gatewaySyncs = Unanswered(@, in.arg)],
                            in, Answers(s.r.host.simSyncs, in.arg)),
                  in, Answers(s.r.host.gatewaySyncs, in.arg))

OriginOf(r, d) == CASE d \in r.gatewayDevices -> "gateway"
                    [] d \notin r.gatewayDevices /\ d \in SimDevice -> "sim"
                    [] OTHER -> "unknown"

(* A device that no side announces: refused not_ready when it is one of a   *)
(* gateway that is lost, unknown_device otherwise.                          *)
RefuseUnknown(s, in) ==
    RefuseCommand(s, in, IF ~s.r.gateway.admitted /\ in.arg.device \in s.r.birth.devices
                         THEN "not_ready" ELSE "unknown_device")

RouteToDevice(s, in) ==
    LET origin == OriginOf(s.r, in.arg.device)
        noted == IF origin = "unknown" THEN s ELSE [s EXCEPT !.r.routed[in.arg.id] = origin]
    IN CASE origin = "gateway" -> ForwardDown(noted, in)
         [] origin = "sim" -> IF s.r.sim.lost THEN RefuseCommand(noted, in, "not_ready")
                              ELSE ToSim(noted, in.type, in.arg)
         [] OTHER -> RefuseUnknown(noted, in)

DeliverDown(s, in) ==
    CASE in.type = "STATE" -> StateDown(s, in)
      [] Mixed /\ in.type = "HSYNC" -> RouteSync(s, in)
      [] Mixed /\ in.type = "DCMD" -> RouteToDevice(s, in)
      [] Mixed /\ in.type = "NCMD" -> AskSimRebirth(ForwardDown(s, in))
      [] OTHER -> ForwardDown(s, in)

(* A host that refuses the session ends the relay.                          *)
HostRefused(s) ==
    LET told == IF s.r.gateway.admitted THEN Down(s, "STATE", "refused") ELSE s
    IN [told EXCEPT !.failed = TRUE, !.closeHost = TRUE, !.closeGateway = TRUE,
                    !.r.host = NewHostSide]

HostHandshake(s, in) ==
    CASE in.type # "STATE" -> s
      [] in.type = "STATE" /\ in.arg = "refused" -> HostRefused(s)
      [] in.type = "STATE" /\ in.arg = "unnegotiable" -> LoseHost(s)
      [] OTHER -> StateDown([s EXCEPT !.r.host.shaken = TRUE], in)

(* A gap in the host's seq loses the host.                                  *)
FromHost(r, in, arrival) ==
    IF arrival = "gap" THEN LoseHost(Step(r))
    ELSE IF r.host.shaken THEN DeliverDown(Step(r), in)
    ELSE HostHandshake(Step(r), in)

(* idle: the gateway has been silent for gatewayIdleMS; quiet: the host for *)
(* three heartbeats.                                                        *)
IdleGateway(s, idle) ==
    IF s.r.gateway.admitted /\ s.r.host.shaken /\ idle
    THEN [GatewayLost(s) EXCEPT !.closeGateway = TRUE] ELSE s

QuietHost(s, quiet) ==
    IF s.r.host.shaken /\ s.r.host.beating /\ quiet THEN LoseHost(s) ELSE s

TickBy(r, idle, quiet) == QuietHost(IdleGateway(Step(r), idle), quiet)

WantsHost(r) == r.gateway.admitted /\ ~r.host.connected

Shutdown(r) == IF r.host.shaken THEN Up(Step(r), "NDEATH", r.birthBD, "relay", 0) ELSE Step(r)

-----------------------------------------------------------------------------
(* Records from the world: [type, seq, arg]                                 *)

(* Its birth is covered by the merged birth that went up before it.         *)
SimBirth(s, in) ==
    IF s.r.host.birthed
    THEN [s EXCEPT !.r.host.simTable = AddPair(@, in.seq, s.r.host.birthSeq)] ELSE s

SimEnded(s) ==
    LET told == IF s.r.host.shaken /\ s.r.host.birthed THEN Deaths(s, s.r.sim.born, "sim") ELSE s
    IN [told EXCEPT !.r.sim.born = {}]

TrackSim(s, in, seq) ==
    CASE in.type = "DBIRTH" -> [s EXCEPT !.r.sim.born = @ \cup {in.arg}]
      [] in.type = "DDEATH" -> [s EXCEPT !.r.sim.born = @ \ {in.arg}]
      [] in.type = "NSYNC" -> [s EXCEPT !.r.host.simSyncs = AddSync(@, seq)]
      [] OTHER -> s

SimUp(s, in) ==
    LET through == UpFor(s.r.host.simTable, in.arg)
        arg == IF in.type = "NSYNC" THEN through ELSE in.arg
        seq == s.r.host.out
        sent == [Up(s, in.type, arg, "sim", in.seq) EXCEPT
                    !.r.host.simTable = AddPair(@, in.seq, seq)]
    IN IF in.type = "NSYNC" /\ through = Uncovered THEN s ELSE TrackSim(sent, in, seq)

SimCarry(s, in) ==
    IF in.type = "NBIRTH" THEN SimBirth(s, in)
    ELSE IF in.type = "NDEATH" THEN SimEnded(s)
    ELSE IF \/ ~s.r.host.shaken \/ ~s.r.host.birthed
            \/ NamesDevice(in) /\ in.arg \notin SimDevice
            \/ ForgedAnswer(s, in, "sim") THEN s
    ELSE SimUp(s, in)

FromSim(r, in) ==
    LET s == Step([r EXCEPT !.sim.in = in.seq + 1])
    IN IF in.seq < r.sim.in THEN Step(r) ELSE SimCarry(s, in)

SimLost(r) == IF r.sim.lost THEN Step(r) ELSE SimEnded(Step([r EXCEPT !.sim.lost = TRUE]))
=============================================================================
