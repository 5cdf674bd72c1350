---------------------------- MODULE RelayControl ----------------------------
(***************************************************************************)
(* Local control in the relay (domain/relay_interrupts.go, relay_stops.go,  *)
(* relay_inventory.go): the rules of InterruptRules between a host and the  *)
(* devices of two sides, a hardware gateway and a simulated world, whose    *)
(* sessions come and go while holds, approvals and latches stay.            *)
(*                                                                          *)
(* What the relay carries besides is the module Relay; of it only who is    *)
(* there and what was announced is kept, and that every write may find the  *)
(* other end gone.  The rules read boards and safe stops from the inventory *)
(* the gate was last given, so there is an instance of them for each.  The  *)
(* two clocks are left out: what waits may be found overdue by any tick.    *)
(***************************************************************************)
EXTENDS Naturals, FiniteSets

CONSTANTS
    Device,          \* names of devices
    SimDevice,       \* the devices of the world; none: the relay has no world
    Board,           \* names of boards
    SimBoard,        \* the board of each device of the world
    Announcements,   \* what a gateway may announce: functions from devices to boards
    Stoppable,       \* the devices whose kind declares a safe stop
    All, Id, Key, Args, MaxScopes, MaxPending, MaxRepeats,
    HostCommands,    \* what the host may send: records of id, key, content and deadline
    ControlScope,    \* the scopes the operator uses
    MaxEpoch,        \* bound: authority epochs
    MaxBoot,         \* bound: boots of a device
    MaxInputs        \* bound: commands and controls

ASSUME RelayControlAssumption ==
    /\ SimDevice \subseteq Device /\ Stoppable \subseteq Device
    /\ SimBoard \in [SimDevice -> Board]
    /\ \A a \in Announcements : DOMAIN a \subseteq Device \ SimDevice /\ a \in [DOMAIN a -> Board]
    /\ {MaxEpoch, MaxBoot, MaxInputs} \subseteq Nat
    /\ \A c \in HostCommands : c.id \in Id /\ c.key \in Key /\ c.content.device \in Device
    /\ ControlScope \subseteq {All} \cup Board \cup Device

VARIABLES
    relay,           \* Relay and relayInterrupts
    gate,            \* InterruptGate.machine
    listed,          \* the boards and safe stops of the inventory the gate has
    attached,        \* relayLoop.gateway is there
    field,           \* the boot each device had last, the one this session of the gateway
                     \* told, and the devices that a rebirth left out, and that told nothing since
    left,            \* commands and controls left
    owed,            \* ids that this host session was told are queued, and no more since
    authority,       \* the last epoch but zero that a host announced
    out,             \* the commands and stops written in the last step
    stopped          \* the devices the reply of the last step names as stopped

vars == <<relay, gate, listed, attached, field, left, owed, authority, out, stopped>>

Rules(l) == INSTANCE InterruptRules WITH BoardOf <- l.board, SafeStopping <- l.stopping

Mixed == SimDevice # {}

NoBoots == [d \in Device |-> 0]

NewRelay == [admitted |-> FALSE, birth |-> <<>>, devices |-> {},
             host |-> "away", epoch |-> 0, lastEpoch |-> 0,
             boots |-> NoBoots, kinds |-> {}, ended |-> FALSE, lost |-> FALSE]

(* A device that was never announced has no board; All stands for none.     *)
NewListed == [board |-> [d \in Device |-> All], stopping |-> {}]

Init == /\ relay = NewRelay
        /\ gate = Rules(NewListed)!NewInterrupts
        /\ listed = NewListed
        /\ attached = FALSE
        /\ field = [boot |-> [d \in Device |-> 1], told |-> NoBoots, strays |-> {}]
        /\ left = MaxInputs
        /\ owed = {} /\ authority = 0 /\ out = {} /\ stopped = {}

-----------------------------------------------------------------------------
(* A step: what the loop does with what a handler of the relay decides.     *)
(* down, up: there is something to write to the gateway, to the host.       *)

Loop == [r |-> relay, m |-> gate, l |-> listed, attached |-> attached,
         out |-> {}, down |-> FALSE, up |-> FALSE, stopped |-> {}]

Forget(r, devices) == [r EXCEPT !.boots = [d \in Device |-> IF d \in devices THEN 0 ELSE @[d]]]

(* Variant: what waits for the operator is kept for the next host.          *)
LeaveHost_KeepsWaiting(s) ==
    [s EXCEPT !.r.lastEpoch = IF s.r.epoch > 0 THEN s.r.epoch ELSE @]

(* leaveHost: what waits is refused as the session ending, to nobody.       *)
LeaveHost(s) ==
    [s EXCEPT !.m = Rules(s.l)!Drop(s.m, s.m.pending),
              !.r.lastEpoch = IF s.r.epoch > 0 THEN s.r.epoch ELSE @]

LoseHost(s) ==
    IF s.r.host = "away" THEN s
    ELSE [LeaveHost(s) EXCEPT !.r.host = "away", !.r.epoch = 0, !.down = @ \/ s.r.admitted]

(* Variant: the boots of the session that ended are kept.                   *)
ClearGateway_KeepsBoots(s) == [s EXCEPT !.r = [@ EXCEPT !.admitted = FALSE, !.devices = {}]]

ClearGateway(s) == [s EXCEPT !.r = [Forget(@, s.r.devices) EXCEPT !.admitted = FALSE, !.devices = {}]]

(* What a host that is there is told of the deaths.                         *)
DiedUp(s) == [s EXCEPT !.up = @ \/ s.r.host = "shaken"]

(* A host that connected and was not yet answered for this gateway goes too. *)
LoseGateway(s) ==
    LET died == [DiedUp(s) EXCEPT !.r.admitted = FALSE, !.attached = FALSE]
    IN ClearGateway(IF s.r.host = "connected" THEN LoseHost(died) ELSE died)

(* What a failed write leaves reaches nobody.                               *)
Unsent(s, side) == [s EXCEPT !.out = {IF x.to = side THEN [x EXCEPT !.to = "nobody"] ELSE x : x \in @}]

SendDown(s, gone) ==
    [IF s.down /\ s.attached /\ "gateway" \in gone THEN LoseGateway(Unsent(s, "gateway")) ELSE s
        EXCEPT !.down = FALSE]

SendUp(s, gone) ==
    [IF s.up /\ s.r.host # "away" /\ "host" \in gone THEN LoseHost(Unsent(s, "host")) ELSE s
        EXCEPT !.up = FALSE]

(* apply: the gateway first, then the host; losing one may owe the other a  *)
(* word.  gone: the ends that a write of this step finds gone.              *)
Apply(s, gone) == SendDown(SendUp(SendDown(s, gone), gone), gone)

Gone == SUBSET {"gateway", "host"}

Queued(s) == {x.id : x \in {y \in s.out : y.type = "queued"}}

Settled(s) == {x.id : x \in {y \in s.out : y.settles}}

Continue(s) ==
    /\ relay' = s.r /\ gate' = s.m /\ listed' = s.l /\ attached' = s.attached
    /\ out' = {x \in s.out : x.type \in {"command", "stop"}} /\ stopped' = s.stopped
    /\ owed' = IF s.r.host = "shaken" THEN (owed \cup Queued(s)) \ Settled(s) ELSE {}

Do(s) == \E k \in {Apply(s, gone) : gone \in Gone} : Continue(k)

-----------------------------------------------------------------------------
(* Origins, boots and the inventory                                         *)

Origin(r, d) == IF d \in r.devices THEN "gateway" ELSE IF d \in SimDevice THEN "world" ELSE "unknown"

StopBoot(r, d) == IF Origin(r, d) = "unknown" THEN 0 ELSE r.boots[d]

Unreachable(r, d) == StopBoot(r, d) = 0 \/ (Origin(r, d) = "world" /\ r.lost)

BoardNow(r, d) == IF d \in SimDevice THEN SimBoard[d] ELSE r.birth[d]

Current(r) == DOMAIN r.birth \cup SimDevice

(* syncInterruptInventory: what is announced now over what was announced    *)
(* before.                                                                  *)
Sync(s) ==
    LET now == Current(s.r)
    IN [s EXCEPT !.m = Rules(s.l)!SetInventory(@, @.inventory \cup now),
                 !.l = [board |-> [d \in Device |-> IF d \in now THEN BoardNow(s.r, d) ELSE @.board[d]],
                        stopping |-> (@.stopping \ now) \cup (now \cap s.r.kinds \cap Stoppable)]]

-----------------------------------------------------------------------------
(* Commands and stops                                                       *)

(* A record written: to the gateway, the world or the host; settles: it     *)
(* ends the wait of a command that was queued.                              *)
Command(side, c, settles) ==
    [to |-> side, type |-> "command", id |-> c.id, device |-> c.content.device,
     kind |-> c.content.kind, boot |-> 0, epoch |-> 0, settles |-> settles]

Receipt(type, c, settles) == [Command("host", c, settles) EXCEPT !.type = type]

StopRecord(side, d, boot, epoch) ==
    [to |-> side, type |-> "stop", id |-> "none", device |-> d, kind |-> "stop",
     boot |-> boot, epoch |-> epoch, settles |-> FALSE]

Answer(s, type, cs, settles) ==
    [s EXCEPT !.out = @ \cup {Receipt(type, c, settles) : c \in cs}, !.up = TRUE]

Carry(s, side, cs, settles) ==
    [s EXCEPT !.out = @ \cup {Command(side, c, settles) : c \in cs}, !.down = @ \/ side = "gateway"]

(* onward: commands for one device go to the side that has it, or are       *)
(* refused.  A relay without a world asks only whether there is a gateway.  *)
Onward(s, d, cs, settles) ==
    LET side == IF Mixed THEN Origin(s.r, d) ELSE "gateway"
        there == IF Mixed THEN side # "unknown" /\ ~(side = "world" /\ s.r.lost) ELSE s.r.admitted
    IN IF there THEN Carry(s, side, cs, settles) ELSE Answer(s, "refused", cs, settles)

(* What a verdict of the rules does; now: before or past its deadline.      *)
Judged(s, c, now) ==
    LET verdict == Rules(s.l)!Verdict(s.m, c, now)
    IN CASE verdict = "pass" -> Onward(s, c.content.device, {c}, FALSE)
         [] verdict = "queue" -> Answer([s EXCEPT !.m = Rules(s.l)!Enqueue(@, c)], "queued", {c}, FALSE)
         [] verdict = "join" -> Answer([s EXCEPT !.m = Rules(s.l)!Join(@, c)], "queued", {c}, FALSE)
         [] verdict = "retry" -> Answer(s, "queued", {c}, FALSE)
         [] OTHER -> Answer(s, "refused", {c}, FALSE)

(* Variant: the inventory is as old as the last tick.                       *)
Judge_LastTick(s, c, now) == Judged(s, c, now)

(* gatedCommand: a command of the host is judged on what is announced now.  *)
Judge(s, c, now) == Judged(Sync(s), c, now)

(* The commands that wait as p: its own and its repeats.                    *)
Payloads(p) == {[id |-> i, content |-> p.content] : i \in Rules(listed)!Holders(p)}

(* Commands that waited are refused, if there is a host to hear it.         *)
Refuse(s, gone) ==
    LET told == [s EXCEPT !.m = Rules(s.l)!Drop(@, gone)]
    IN IF s.r.host # "shaken" \/ gone = {} THEN told
       ELSE Answer(told, "refused", UNION {Payloads(p) : p \in gone}, TRUE)

HostEpoch(r) == IF r.epoch > 0 THEN r.epoch ELSE r.lastEpoch

(* issueStops, after the answers.                                           *)
IssueStops(s, devices) ==
    LET Order(d) == StopRecord(Origin(s.r, d), d, StopBoot(s.r, d), HostEpoch(s.r))
    IN [s EXCEPT !.out = @ \cup {Order(d) : d \in devices}, !.stopped = devices,
                 !.down = @ \/ \E d \in devices : Origin(s.r, d) = "gateway"]

-----------------------------------------------------------------------------
(* Controls                                                                 *)

Hold(s, scope, latch) ==
    Refuse([s EXCEPT !.m = Rules(s.l)!SetHold(@, scope, latch)], Rules(s.l)!CoveredBy(s.m, scope))

(* Devices out of reach now are named so and get no order.                  *)
EStop(s, scope) ==
    IssueStops(Hold(s, scope, TRUE),
               {d \in Rules(s.l)!StopOrders(s.m, scope) : d \in Current(s.r) /\ ~Unreachable(s.r, d)})

(* A control that restricts a scope nobody knows, or one too many, changes  *)
(* nothing.                                                                 *)
Scoped(s, op, scope) ==
    IF op \in {"hold", "estop", "approve_mode"} /\ ~Rules(s.l)!Accepts(s.m, op, scope) THEN s
    ELSE CASE op = "hold" -> Hold(s, scope, FALSE)
           [] op = "estop" -> EStop(s, scope)
           [] op = "release" -> [s EXCEPT !.m = Rules(s.l)!ClearHold(@, scope)]
           [] OTHER -> [s EXCEPT !.m = Rules(s.l)!SetApprove(@, scope, op = "approve_mode")]

(* An approval stands only where no hold covers the device now.             *)
Decided(s, p, approve) ==
    LET forward == approve /\ ~Rules(s.l)!HoldCovers(s.m, p.content.device)
        done == [s EXCEPT !.m = Rules(s.l)!Drop(@, {p})]
    IN IF ~forward THEN Refuse(s, {p})
       ELSE IF s.r.host = "shaken" THEN Onward(done, p.content.device, Payloads(p), TRUE) ELSE done

-----------------------------------------------------------------------------
(* The loop                                                                 *)

(* ensureHost: the dial reaches the host, or does not; a host that is       *)
(* reached is told the birth.                                               *)
Attached(s) == [s EXCEPT !.r.host = "connected", !.up = TRUE]

Redial(s) ==
    \E gone \in Gone :
        \E k \in {Apply(s, gone)} :
           \/ Continue(k)
           \/ k.r.admitted /\ k.r.host = "away" /\ Continue(Apply(Attached(k), gone))

(* TickBy: the inventory, then what is overdue, then the dial.              *)
Tick ==
    /\ \E overdue \in SUBSET gate.pending : Redial(Refuse(Sync(Loop), overdue))
    /\ UNCHANGED <<field, left, authority>>

(* serveControls, after what the tick did.                                  *)
Serve ==
    /\ left > 0 /\ left' = left - 1
    /\ LET s == Sync(Loop)
       IN \/ \E op \in {"hold", "estop", "release", "approve_mode", "approve_off"}, scope \in ControlScope :
                Do(Scoped(s, op, scope))
          \/ \E p \in gate.pending, approve \in BOOLEAN : Do(Decided(s, p, approve))
    /\ UNCHANGED <<field, authority>>

-----------------------------------------------------------------------------
(* The gateway                                                              *)

GatewayConnects ==
    /\ ~attached /\ attached' = TRUE /\ out' = {} /\ stopped' = {}
    /\ UNCHANGED <<relay, gate, listed, field, left, owed, authority>>

(* The birth of a session.                                                  *)
GatewayBirths ==
    /\ attached /\ ~relay.admitted
    /\ \E a \in Announcements :
          LET taken == [Forget(relay, relay.devices) EXCEPT
                           !.birth = a, !.devices = DOMAIN a, !.admitted = TRUE]
              there == relay.host = "shaken"
          IN Redial([Loop EXCEPT !.r = taken, !.down = there, !.up = there])
    /\ field' = [field EXCEPT !.told = NoBoots] /\ UNCHANGED <<left, authority>>

(* A further birth within a session keeps the boots, those of devices that  *)
(* it leaves out too.                                                       *)
GatewayReborn ==
    /\ attached /\ relay.admitted
    /\ \E a \in Announcements :
          /\ Redial([Loop EXCEPT !.r = [relay EXCEPT !.birth = a, !.devices = DOMAIN a],
                                 !.up = relay.host = "shaken"])
          /\ field' = [field EXCEPT !.strays = @ \cup (relay.devices \ DOMAIN a)]
    /\ UNCHANGED <<left, authority>>

(* A record that the relay carries up, if there is a host.                  *)
Read(r) == Do([Loop EXCEPT !.r = r, !.up = relay.host = "shaken"])

(* A device that restarted announces a later boot.                          *)
DeviceBirths(d) ==
    /\ attached /\ d \in relay.devices
    /\ \E boot \in field.boot[d]..MaxBoot :
          /\ Read([relay EXCEPT !.boots[d] = boot, !.kinds = @ \cup {d}])
          /\ field' = [boot |-> [field.boot EXCEPT ![d] = boot],
                       told |-> [field.told EXCEPT ![d] = boot], strays |-> field.strays \ {d}]
    /\ UNCHANGED <<left, authority>>

DeviceDies(d) ==
    /\ attached /\ d \in relay.devices /\ field.told[d] # 0
    /\ Read([relay EXCEPT !.boots[d] = 0])
    /\ field' = [field EXCEPT !.told[d] = 0, !.strays = @ \ {d}]
    /\ UNCHANGED <<left, authority>>

(* The end of the gateway's session; the link may carry another.            *)
GatewayDies ==
    /\ attached /\ relay.admitted
    /\ Do(ClearGateway(DiedUp(Loop)))
    /\ UNCHANGED <<field, left, authority>>

(* A link ends, or the side was silent for too long (gatewayTick, TickBy).  *)
LinkEnds ==
    /\ \/ attached /\ Do(LoseGateway(Loop))
       \/ relay.host # "away" /\ Do(LoseHost(Loop))
    /\ UNCHANGED <<field, left, authority>>

-----------------------------------------------------------------------------
(* The host                                                                 *)

(* A STATE: the answer of a host that connected, and each of its beats.     *)
HostStates ==
    /\ relay.host # "away"
    /\ \E e \in relay.epoch..MaxEpoch :
          /\ Do([Loop EXCEPT !.r.host = "shaken", !.r.epoch = e, !.down = relay.admitted])
          /\ authority' = IF e > 0 THEN e ELSE authority
    /\ UNCHANGED <<field, left>>

HostSends(c) ==
    /\ relay.host = "shaken" /\ left > 0 /\ left' = left - 1
    /\ \E now \in {c.deadline, c.deadline + 1} : Do(Judge(Loop, c, now))
    /\ UNCHANGED <<field, authority>>

-----------------------------------------------------------------------------
(* The world, which is told nothing before a host is there                  *)

WorldBirths(d) ==
    /\ ~relay.ended /\ relay.host = "shaken"
    /\ Read([relay EXCEPT !.boots[d] = 1, !.kinds = @ \cup {d}])
    /\ UNCHANGED <<field, left, authority>>

(* The world's session ends with its death, and is then found lost; or it   *)
(* is found lost at once.                                                   *)
WorldDies ==
    /\ relay.kinds \cap SimDevice # {} /\ ~relay.ended
    /\ Do(DiedUp([Loop EXCEPT !.r = [Forget(relay, SimDevice) EXCEPT !.ended = TRUE]]))
    /\ UNCHANGED <<field, left, authority>>

WorldLost ==
    /\ relay.kinds \cap SimDevice # {} /\ ~relay.lost
    /\ Do(DiedUp([Loop EXCEPT !.r.ended = TRUE, !.r.lost = TRUE]))
    /\ UNCHANGED <<field, left, authority>>

-----------------------------------------------------------------------------
Next ==
    \/ Tick \/ Serve
    \/ GatewayConnects \/ GatewayBirths \/ GatewayReborn \/ GatewayDies
    \/ \E d \in Device : DeviceBirths(d) \/ DeviceDies(d)
    \/ LinkEnds
    \/ HostStates \/ \E c \in HostCommands : HostSends(c)
    \/ \E d \in SimDevice : WorldBirths(d)
    \/ WorldDies \/ WorldLost

Spec == Init /\ [][Next]_vars

-----------------------------------------------------------------------------
TypeOK ==
    /\ relay.devices \subseteq Device /\ relay.kinds \subseteq Device /\ relay.admitted \in BOOLEAN
    /\ relay.host \in {"away", "connected", "shaken"} /\ attached \in BOOLEAN
    /\ gate.inventory \subseteq Device /\ owed \subseteq Id /\ stopped \subseteq Device

(* The host waits for what waits: the ids it was told are queued and has    *)
(* heard no more of are those that wait for the operator, through the loss  *)
(* of the gateway and of the world, and a host that comes anew inherits     *)
(* nothing of the one before (relay_interrupts.go applyGate, leaveHost).    *)
WaitingIsOwed == owed = Rules(listed)!HoldersOf(gate.pending)

(* The scopes that reach a device as it is announced now, or was last.      *)
ScopesOf(d) == {All, d, IF d \in Current(relay) THEN BoardNow(relay, d) ELSE listed.board[d]}

(* Nothing but a declared stop goes down to a device that a hold covers,    *)
(* wherever a gateway that came back put the device since the hold was set  *)
(* or the command queued (relay_interrupts.go gatedCommand, Control).       *)
LocalControlStands ==
    \A x \in out : x.type = "command" /\ x.kind # "stop" =>
        \A scope \in ScopesOf(x.device) : gate.holds[scope] = "off"

(* The boot a stop is for is the one this session of the gateway told last. *)
(* Only for a device that a rebirth left out, and that told nothing since,  *)
(* it may be one of a session before: the relay forgets the boots of the    *)
(* devices that are announced when a session ends, and of no other.         *)
IsKnownBoot(boot, d) ==
    IF d \in SimDevice THEN boot = 1
    ELSE \/ boot = field.told[d]
         \/ d \in field.strays /\ field.told[d] = 0 /\ boot = field.boot[d]

Stops == {x \in out : x.type = "stop"}

(* An emergency stop names as stopped exactly the devices it ordered a stop *)
(* of: each on the side that has it, under the boot the relay was told of   *)
(* it last and the last authority a host had, whatever was announced in     *)
(* between.  An order that is written to a gateway and found to reach       *)
(* nobody is named so all the same: the reply is made before the write      *)
(* (relay_stops.go issueStop, relay_gateway.go rebirth, takeBirth).         *)
StopsGoWhereTheySay ==
    /\ stopped = {x.device : x \in Stops}
    /\ \A x \in Stops :
          /\ x.epoch = authority /\ IsKnownBoot(x.boot, x.device)
          /\ \/ x.to = (IF x.device \in SimDevice THEN "world" ELSE "gateway")
             \/ x.to = "nobody" /\ x.device \notin SimDevice /\ ~attached

(* A device whose stop was not sent is not named as stopped                 *)
(* (PHYSICAL_DEVICES.md "a device that declares a safe stop and could not   *)
(* be ordered is listed there and never in `stopped`").                     *)
StoppedWasOrdered == stopped \subseteq {x.device : x \in {y \in Stops : y.to # "nobody"}}

(* A stop is for a boot of the gateway's present session                    *)
(* (PHYSICAL_DEVICES.md "Stop boots": an entry is removed when the gateway  *)
(* is lost or readmitted).                                                  *)
StopsNameThisSession ==
    \A x \in Stops : x.device \notin SimDevice => x.boot = field.told[x.device]
=============================================================================
