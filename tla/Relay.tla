------------------------------- MODULE Relay -------------------------------
(***************************************************************************)
(* The loop of the plant wire relay (app/relay_loop.go, relay_links.go)     *)
(* between a gateway that comes and goes, a real host that comes and goes   *)
(* and, in a mixed relay, a simulated node in the same process.  One        *)
(* goroutine takes one event at a time from the two links, the world and    *)
(* the ticks, steps RelayRules and applies what it returns; a write that    *)
(* fails loses that side on the spot, inside the step that wrote.           *)
(*                                                                          *)
(* The other parties:                                                       *)
(*   - a gateway sends what its protocol allows; whatever it has not yet    *)
(*     read from the relay it simply has not acted on, so what it sends is  *)
(*     taken as it is sent.  A gateway may be gone while records of it are  *)
(*     still unread: then a write toward it fails;                          *)
(*   - the reference host (internal/plantwire/internal/host) reads the      *)
(*     records on the wire one by one; its answers reach the relay in the   *)
(*     step that reads, which delays the reading and loses no order;        *)
(*   - the world sends, waits at its barriers and passes one that its cap   *)
(*     ends.                                                                *)
(***************************************************************************)
EXTENDS RelayRules

LOCAL INSTANCE SequencesExt

CONSTANTS
    Announcement,    \* what a gateway may announce: sets of devices
    Reports,         \* bound: what a gateway sends beside births, of ReportKind
    Asks,            \* bound: what the host sends of its own accord, of AskKind
    MaxGateways,     \* bound: gateway connections
    MaxHosts,        \* bound: host sessions
    MaxRecords,      \* bound: records of a gateway session beside its births
    MaxUnread,       \* bound: records a gateway that is gone leaves unread
    MaxAsks,         \* bound: how often it does in a session
    MaxWire,         \* bound: records under way to the host
    MaxSteps         \* bound: barriers of the world

ReportKind == {"data", "gap", "repeat", "death", "sync", "stray", "answer", "end"}

AskKind == {"beat", "rebirth", "gap", "command"}

ASSUME RelayBounds ==
    /\ Reports \subseteq ReportKind /\ Asks \subseteq AskKind
    /\ Announcement \subseteq SUBSET Device
    /\ {MaxGateways, MaxHosts, MaxRecords, MaxUnread, MaxAsks, MaxWire, MaxSteps} \subseteq Nat

VARIABLES
    relay,           \* relayLoop.relay
    gatewayLink,     \* relayLoop.gateway: "none", "open", or "gone" (the other end has closed)
    hostLink,        \* relayLoop.host, likewise
    wire,            \* records written to the host and not yet read
    gateway,         \* the gateway process
    host,            \* the host process
    world,           \* the simulated node
    over             \* the loop has finished

vars == <<relay, gatewayLink, hostLink, wire, gateway, host, world, over>>

Link == {"none", "open", "gone"}

(* announced: the devices of its birth; wrote: its birth is sent; told: it  *)
(* has a STATE; asked: it owes a rebirth; alive, dead: devices born and     *)
(* died since the last birth; released: the highest through_seq it was      *)
(* answered; spent, unread: what its bounds have left.                      *)
NewGateway(devices) ==
    [announced |-> devices, wrote |-> FALSE, told |-> FALSE, asked |-> FALSE, next |-> 0,
     alive |-> {}, dead |-> {}, released |-> -1, left |-> MaxRecords, unread |-> MaxUnread]

NewHost == [accepted |-> FALSE, asked |-> FALSE, next |-> 0, devices |-> {}, bd |-> 0,
            left |-> MaxAsks]

NewWorld == [begun |-> FALSE, wrote |-> FALSE, told |-> FALSE, asked |-> FALSE, next |-> 0,
             alive |-> {}, waits |-> -1, released |-> -1, left |-> MaxSteps]

Init == /\ relay = NewRelay /\ gatewayLink = "none" /\ hostLink = "none" /\ wire = <<>>
        /\ gateway = NewGateway({})
        /\ host = NewHost /\ world = NewWorld /\ over = FALSE

-----------------------------------------------------------------------------
(* What the loop does with a step.  l carries the loop: the relay, its      *)
(* links, the wire, and what the gateway and the world were written.        *)

Loop == [relay |-> relay, gateway |-> gatewayLink, host |-> hostLink, wire |-> wire,
         heard |-> <<>>, simHeard |-> <<>>]

CloseHost(l) == [l EXCEPT !.host = "none", !.wire = <<>>]

CloseGateway(l) == [l EXCEPT !.gateway = "none"]

(* A gateway that is lost leaves records for the host; when the host proves *)
(* lost too there is no gateway to tell.                                    *)
AfterGateway(l, s) ==
    LET left == CloseGateway([l EXCEPT !.relay = s.r])
        told == IF l.host = "open" THEN [left EXCEPT !.wire = @ \o s.up]
                ELSE IF l.host = "gone" /\ s.up # <<>>
                     THEN CloseHost([left EXCEPT !.relay = LoseHost(Step(s.r)).r])
                ELSE left
    IN IF s.closeHost THEN CloseHost(told) ELSE told

LoseGateway(l) == AfterGateway(l, GatewayLost(Step(l.relay)))

SendDown(l, down) ==
    IF down = <<>> \/ l.gateway = "none" THEN l
    ELSE IF l.gateway = "gone" THEN LoseGateway(l)
    ELSE [l EXCEPT !.heard = @ \o down]

AfterHost(l, s) == SendDown(CloseHost([l EXCEPT !.relay = s.r]), s.down)

LoseHostLink(l) == AfterHost(l, LoseHost(Step(l.relay)))

SendUp(l, up) ==
    IF up = <<>> \/ l.host = "none" THEN l
    ELSE IF l.host = "gone" THEN LoseHostLink(l)
    ELSE [l EXCEPT !.wire = @ \o up]

(* apply: down, then to the world, then up, each write losing its side when *)
(* it fails, then the links to close.                                       *)
CloseLinks(l, s) ==
    LET hosted == IF s.closeHost THEN CloseHost(l) ELSE l
    IN IF s.closeGateway THEN CloseGateway(hosted) ELSE hosted

Apply(l, s) ==
    LET down == SendDown([l EXCEPT !.relay = s.r], s.down)
    IN CloseLinks(SendUp([down EXCEPT !.simHeard = @ \o s.sim], s.up), s)

(* ensureHost: the dial reaches the host, finds none, or finds a socket     *)
(* others can reach, which ends the loop.                                   *)
Dials(l) == IF ~WantsHost(l.relay) THEN {"none"}
            ELSE {"none", "exposed"} \cup
                 (IF l.relay.hostSessions < MaxHosts THEN {"reached"} ELSE {})

EnsureHost(l, dial) ==
    IF ~WantsHost(l.relay) THEN l
    ELSE LET reached == dial = "reached"
         IN Apply([l EXCEPT !.host = IF reached THEN "open" ELSE @],
                  IF reached THEN HostAttached(l.relay) ELSE HostUnreachable(l.relay))

-----------------------------------------------------------------------------
(* The other parties read what they were written                            *)

GatewayHears(g, heard) ==
    LET Hear(p, m) ==
            CASE m.type = "STATE" -> [p EXCEPT !.told = TRUE]
              [] m.type = "NCMD" -> [p EXCEPT !.asked = TRUE]
              [] m.type = "HSYNC" -> [p EXCEPT !.released = IF m.arg > @ THEN m.arg ELSE @]
              [] OTHER -> p
    IN FoldLeft(Hear, g, heard)

(* A barrier ends with an answer at or above its own seq.                   *)
WorldHears(w, heard) ==
    LET Hear(p, m) ==
            CASE m.type = "STATE" -> [p EXCEPT !.told = TRUE]
              [] m.type = "NCMD" -> [p EXCEPT !.asked = TRUE]
              [] m.type = "HSYNC" -> [p EXCEPT !.released = IF m.arg > @ THEN m.arg ELSE @,
                                               !.waits = IF m.arg >= @ THEN -1 ELSE @]
              [] OTHER -> p
    IN [FoldLeft(Hear, w, heard) EXCEPT !.begun = @ \/ heard # <<>>]

-----------------------------------------------------------------------------
(* One event of the loop                                                    *)

NoGateway == NewGateway({})

(* finish: the shutdown goes up, then both links are closed and the relay   *)
(* is gone; the host reads what was written to it.                          *)
Finish(l) ==
    \E ended \in {Apply(l, Shutdown(l.relay))} :
       /\ relay' = NewRelay /\ gatewayLink' = "none" /\ gateway' = NoGateway
       /\ world' = NewWorld
       /\ hostLink' = IF ended.host = "open" THEN "closing" ELSE "none"
       /\ wire' = IF ended.host = "open" THEN ended.wire ELSE <<>>
       /\ over' = TRUE

(* g, h and w: the gateway, the host and the world as the event left them.  *)
Continue(l, g, h, w) ==
    /\ relay' = l.relay /\ gatewayLink' = l.gateway /\ hostLink' = l.host /\ wire' = l.wire
    /\ gateway' = IF l.gateway = "none" THEN NoGateway ELSE GatewayHears(g, l.heard)
    /\ host' = IF l.host = "none" THEN NewHost ELSE h
    /\ world' = IF l.relay.sim.lost THEN NewWorld ELSE WorldHears(w, l.simHeard)
    /\ over' = FALSE

(* EnsureHost, and what follows it.                                         *)
Redial(l, g) ==
    \E dial \in Dials(l) : \E k \in {EnsureHost(l, dial)} :
        IF dial = "exposed"
        THEN Finish(k) /\ UNCHANGED host
        ELSE Continue(k, g, IF dial = "reached" THEN NewHost ELSE host, world)

-----------------------------------------------------------------------------
(* The gateway                                                              *)

(* GatewayAttached: the loop takes one gateway at a time.                   *)
GatewayConnects ==
    /\ ~over /\ gatewayLink = "none" /\ relay.gatewaySessions < MaxGateways
    /\ relay' = GatewayAttached(relay) /\ gatewayLink' = "open"
    /\ \E devices \in Announcement : gateway' = NewGateway(devices)
    /\ UNCHANGED <<hostLink, wire, host, world, over>>

CanSend == /\ ~over /\ Len(wire) < MaxWire
           /\ \/ gatewayLink = "open"
              \/ gatewayLink = "gone" /\ gateway.unread > 0

(* g: the gateway after the record; its numbering goes on behind it.        *)
Takes(in, g) ==
    LET after == [g EXCEPT !.next = IF in.seq >= @ THEN in.seq + 1 ELSE @,
                           !.unread = IF gatewayLink = "gone" THEN @ - 1 ELSE @]
    IN \E l \in {Apply(Loop, FromGateway(relay, in))} :
          IF in.type = "NBIRTH" THEN Redial(l, after) ELSE Continue(l, after, host, world)

Record(type, seq, arg) == [type |-> type, seq |-> seq, arg |-> arg]

(* The birth of the session, or the one it was asked for.                   *)
OwesBirth == CanSend /\ (~gateway.wrote \/ gateway.asked)

GatewayBirths ==
    /\ OwesBirth
    /\ Takes(Record("NBIRTH", gateway.next, gateway.announced),
             [gateway EXCEPT !.wrote = TRUE, !.asked = FALSE, !.alive = {}, !.dead = {}])

(* Once it has a STATE every device is born.                                *)
Unborn == gateway.announced \ (gateway.alive \cup gateway.dead)

OwesDevices == CanSend /\ gateway.wrote /\ gateway.told /\ ~gateway.asked /\ Unborn # {}

DeviceBirths ==
    /\ OwesDevices
    /\ \E d \in Unborn :
          Takes(Record("DBIRTH", gateway.next, d), [gateway EXCEPT !.alive = @ \cup {d}])

Spend(g) == [g EXCEPT !.left = @ - 1]

MayReport(kind) == kind \in Reports /\ CanSend /\ gateway.wrote /\ gateway.left > 0

Reported(type, seq, arg) == Takes(Record(type, seq, arg), Spend(gateway))

(* Data; data with records lost before it; data under a seq that was used.  *)
GatewayReports ==
    \E d \in gateway.alive :
        \/ MayReport("data") /\ Reported("DDATA", gateway.next, d)
        \/ MayReport("gap") /\ Reported("DDATA", gateway.next + 1, d)
        \/ MayReport("repeat") /\ Reported("DDATA", gateway.next - 1, d)

DeviceDies ==
    /\ MayReport("death")
    /\ \E d \in gateway.alive :
          Takes(Record("DDEATH", gateway.next, d),
                [Spend(gateway) EXCEPT !.alive = @ \ {d}, !.dead = @ \cup {d}])

GatewaySyncs == MayReport("sync") /\ Reported("NSYNC", gateway.next, gateway.next - 1)

(* Records the relay must not carry: one that is no record of a node, or    *)
(* one that names a device of the world.                                    *)
GatewayStrays ==
    /\ MayReport("stray")
    /\ \/ Reported("other", gateway.next, "none")
       \/ \E d \in SimDevice, type \in {"DBIRTH", "DDATA"} : Reported(type, gateway.next, d)

GatewayAnswers == MayReport("answer") /\ \E id \in Id : Reported("DRECEIPT", gateway.next, id)

(* The gateway ends its session and closes.                                 *)
GatewayDies ==
    /\ MayReport("end") /\ gatewayLink = "open"
    /\ \E l \in {Apply(Loop, FromGateway(relay, Record("NDEATH", gateway.next, "none")))} :
          Continue([l EXCEPT !.gateway = "gone"], [gateway EXCEPT !.unread = 0], host, world)

GatewayGoes ==
    /\ ~over /\ gatewayLink = "open" /\ gatewayLink' = "gone"
    /\ UNCHANGED <<relay, hostLink, wire, gateway, host, world, over>>

(* The end of the stream, or a line over 1 MiB, or a silent handshake.      *)
GatewayEnds ==
    /\ ~over /\ gatewayLink = "gone"
    /\ Continue(LoseGateway(Loop), gateway, host, world)

-----------------------------------------------------------------------------
(* The host                                                                 *)

(* What the reference host sends for a record and how it stands afterwards: *)
(* answer is its verdict on a birth, commands what it issues at a barrier.  *)
Received(h, m) ==
    CASE m.type = "NBIRTH" -> [h EXCEPT !.asked = FALSE, !.bd = m.arg.bd]
      [] m.type = "NDEATH" -> [h EXCEPT !.devices = IF m.arg >= h.bd THEN {} ELSE @]
      [] m.type = "DBIRTH" -> [h EXCEPT !.devices = @ \cup {m.arg}]
      [] m.type = "DDEATH" -> [h EXCEPT !.devices = @ \ {m.arg}]
      [] OTHER -> h

Message(type, arg) == [type |-> type, arg |-> arg]

Replies(h, m, answer, commands) ==
    CASE m.type = "NBIRTH" /\ ~h.accepted -> <<Message("STATE", answer)>>
      [] m.type = "NSYNC" /\ h.accepted -> Append(commands, Message("HSYNC", m.seq))
      [] OTHER -> <<>>

(* Its records reach the relay in order; a link the relay closed gets none. *)
FromHostAll(l, replies) ==
    LET Next(k, in) == IF k.host = "none" THEN k ELSE Apply(k, FromHost(k.relay, in, "in order"))
    IN FoldLeft(Next, l, replies)

Commands ==
    {<<>>} \cup IF "command" \notin Asks \/ host.left = 0 THEN {}
                ELSE {<<Message("DCMD", [id |-> id, device |-> d])>> : id \in Id, d \in Device}

MayRead == wire # <<>> /\ hostLink \in {"open", "closing"}

HostReads ==
    /\ MayRead
    /\ LET m == Head(wire)
           gap == m.seq > host.next /\ ~host.asked
           asks == IF gap THEN <<Message("NCMD", "rebirth")>> ELSE <<>>
           next == [host EXCEPT !.next = m.seq + 1, !.asked = @ \/ gap]
           unread == [Loop EXCEPT !.wire = Tail(@)]
       IN IF m.seq < host.next \/ (~host.accepted /\ m.type # "NBIRTH")
          THEN /\ wire' = Tail(wire)
               /\ host' = IF m.seq < host.next THEN host ELSE next
               /\ UNCHANGED <<relay, gatewayLink, hostLink, gateway, world, over>>
          ELSE \E answer \in {"welcome", "refused", "unnegotiable"}, commands \in Commands :
                 LET after == [Received(next, m) EXCEPT
                                  !.accepted = @ \/ answer # "refused"]
                     replies == asks \o Replies(host, m, answer, commands)
                 IN /\ answer # "welcome" => m.type = "NBIRTH" /\ ~host.accepted
                    /\ commands # <<>> => m.type = "NSYNC"
                    /\ IF over
                       THEN /\ wire' = Tail(wire) /\ host' = after
                            /\ UNCHANGED <<relay, gatewayLink, hostLink, gateway, world, over>>
                       ELSE \E l \in {FromHostAll(unread, replies)} :
                              IF answer = "refused"
                              THEN Finish(l) /\ UNCHANGED host
                              ELSE Continue(l, gateway,
                                            IF commands = <<>> THEN after ELSE Spend(after), world)

(* Its heartbeat, a rebirth it asks for, a record after a gap.              *)
HostSends ==
    /\ ~over /\ hostLink = "open" /\ host.accepted /\ host.left > 0
    /\ \E kind \in Asks \ {"command"} :
          LET in == IF kind = "rebirth" THEN Message("NCMD", "rebirth") ELSE Message("STATE", "beat")
              arrival == IF kind = "gap" THEN "gap" ELSE "in order"
          IN Continue(Apply(Loop, FromHost(relay, in, arrival)), gateway, Spend(host), world)

(* The host is gone, and what it had not read with it.                      *)
HostGoes ==
    /\ ~over /\ hostLink = "open" /\ hostLink' = "gone" /\ wire' = <<>> /\ host' = NewHost
    /\ UNCHANGED <<relay, gatewayLink, gateway, world, over>>

HostEnds ==
    /\ ~over /\ hostLink = "gone"
    /\ Continue(LoseHostLink(Loop), gateway, host, world)

-----------------------------------------------------------------------------
(* The ticks of the loop and its end                                        *)

(* A silence is told apart only where TickBy looks at it.                   *)
Tick ==
    /\ ~over
    /\ \E idle \in {FALSE, relay.gateway.admitted /\ relay.host.shaken},
          quiet \in {FALSE, relay.host.shaken /\ relay.host.beating} :
          \E l \in {Apply(Loop, TickBy(relay, idle, quiet))} : Redial(l, gateway)

Stop == ~over /\ Finish(Loop) /\ UNCHANGED host

Stopped == over /\ wire = <<>> /\ UNCHANGED vars

-----------------------------------------------------------------------------
(* The world: a node session of its own, which reads the relay's records    *)
(* where its slices end.                                                    *)

ApplySim(l, s) == SendUp([l EXCEPT !.relay = s.r], s.up)

WorldRuns == ~over /\ Mixed /\ world.begun /\ ~relay.sim.lost /\ world.waits = -1 /\ Len(wire) < MaxWire

WorldTakes(in, w) ==
    Continue(ApplySim(Loop, FromSim(relay, in)), gateway, host, [w EXCEPT !.next = @ + 1])

WorldOwesBirth == WorldRuns /\ (~world.wrote \/ world.asked)

WorldBirths ==
    /\ WorldOwesBirth
    /\ WorldTakes(Record("NBIRTH", world.next, SimDevice),
                  [world EXCEPT !.wrote = TRUE, !.asked = FALSE, !.alive = {}])

WorldOwesDevices ==
    WorldRuns /\ world.wrote /\ world.told /\ ~world.asked /\ SimDevice \ world.alive # {}

WorldDeviceBirths ==
    /\ WorldOwesDevices
    /\ \E d \in SimDevice \ world.alive :
          WorldTakes(Record("DBIRTH", world.next, d), [world EXCEPT !.alive = @ \cup {d}])

(* The end of a slice.                                                      *)
WorldSyncs ==
    /\ WorldRuns /\ world.wrote /\ world.told /\ world.alive = SimDevice /\ world.left > 0
    /\ WorldTakes(Record("NSYNC", world.next, world.next - 1),
                  [world EXCEPT !.waits = world.next, !.left = @ - 1])

(* The cap on the wait.                                                     *)
WorldPasses ==
    /\ ~over /\ world.waits # -1 /\ world' = [world EXCEPT !.waits = -1]
    /\ UNCHANGED <<relay, gatewayLink, hostLink, wire, gateway, host, over>>

(* Its session ends, with or without the death of the node.                 *)
WorldEnds ==
    /\ ~over /\ Mixed /\ world.begun /\ ~relay.sim.lost /\ Len(wire) < MaxWire
    /\ \E said \in {IF world.left = 0
                    THEN ApplySim(Loop, FromSim(relay, Record("NDEATH", world.next, "none")))
                    ELSE Loop} :
          Continue(ApplySim(said, SimLost(said.relay)), gateway, host, NewWorld)

-----------------------------------------------------------------------------
Next == \/ GatewayConnects \/ GatewayBirths \/ DeviceBirths \/ GatewayReports \/ DeviceDies
        \/ GatewaySyncs \/ GatewayStrays \/ GatewayAnswers \/ GatewayDies \/ GatewayGoes
        \/ GatewayEnds
        \/ HostReads \/ HostSends \/ HostGoes \/ HostEnds
        \/ Tick \/ Stop \/ Stopped
        \/ WorldBirths \/ WorldDeviceBirths \/ WorldSyncs \/ WorldPasses \/ WorldEnds

(* The host reads, and the gateway and the world send the births they owe;  *)
(* nothing makes a party come back, data flow or the loop stop.  Each       *)
(* conjunct is the weak fairness of an action, with the condition it can be *)
(* taken under in the place of ENABLED, which TLC evaluates slowly here.    *)
Fairness == /\ []<>~MayRead \/ []<><<HostReads>>_vars
            /\ []<>~OwesBirth \/ []<><<GatewayBirths>>_vars
            /\ []<>~OwesDevices \/ []<><<DeviceBirths>>_vars
            /\ []<>~WorldOwesBirth \/ []<><<WorldBirths>>_vars
            /\ []<>~WorldOwesDevices \/ []<><<WorldDeviceBirths>>_vars

Spec == Init /\ [][Next]_vars /\ Fairness

-----------------------------------------------------------------------------
(* Types                                                                    *)

Records == {"NBIRTH", "DBIRTH", "DDATA", "DDEATH", "NDEATH", "NSYNC", "DRECEIPT"}

PairsOk(t) == /\ Len(t) <= SyncWindow
              /\ \A i \in 1..Len(t) : t[i].of \in Nat /\ t[i].up \in Nat

TypeOK ==
    /\ gatewayLink \in Link /\ hostLink \in Link \cup {"closing"} /\ over \in BOOLEAN
    /\ relay.gateway.born \subseteq Device /\ relay.sim.born \subseteq SimDevice
    /\ relay.gatewayDevices \subseteq Device \ SimDevice
    /\ PairsOk(relay.host.table) /\ PairsOk(relay.host.simTable)
    /\ Len(relay.host.gatewaySyncs) <= PendingSyncs /\ Len(relay.host.simSyncs) <= PendingSyncs
    /\ relay.lastUp \in Nat \cup {-1} /\ relay.bdSeq \in Nat
    /\ \A i \in 1..Len(wire) : wire[i].type \in Records /\ wire[i].seq \in Nat
    /\ host.devices \subseteq Device /\ gateway.alive \subseteq gateway.announced

-----------------------------------------------------------------------------
(* Safety                                                                   *)

(* A barrier holds a side until the host has read what the side sent before *)
(* it: when the relay has answered a side up to a number, no record of that *)
(* side at or below it is still on its way (docs/design/PHYSICAL_DEVICES.md *)
(* "an answer to an earlier barrier never covers a later one").             *)
BarrierCovers ==
    \A i \in 1..Len(wire) :
        /\ wire[i].side = "gateway" /\ wire[i].of > 0 => wire[i].of > gateway.released
        /\ wire[i].side = "sim" /\ wire[i].of > 0 => wire[i].of > world.released

(* An answer the host gave reaches the world that waits for it: while the   *)
(* world waits, the host has not read its barrier.                          *)
WorldIsAnswered ==
    hostLink = "open" =>
        \A i \in 1..Len(relay.host.simTable) :
            relay.host.simTable[i].of = world.waits => relay.host.simTable[i].up >= host.next

(* What the relay will take back when the gateway is lost is what the host  *)
(* holds or is about to.                                                    *)
AtTheEnd == FoldLeft(Received, host, SelectSeq(wire, LAMBDA m : m.seq >= host.next))

BornIsHeld == relay.host.shaken /\ hostLink = "open" =>
                 /\ relay.gateway.born \subseteq AtTheEnd.devices
                 /\ relay.sim.born \subseteq AtTheEnd.devices

(* Records are written to the host in the order they are numbered.          *)
WrittenInOrder == \A i, j \in 1..Len(wire) : i < j => wire[i].seq < wire[j].seq

(* A gateway that is gone leaves none of its devices at the host: the host  *)
(* gets "a `DDEATH link_down` for each device it had born".                 *)
NoGhosts == ~over /\ gatewayLink = "none" /\ hostLink = "open" => AtTheEnd.devices \subseteq SimDevice

-----------------------------------------------------------------------------
(* Liveness                                                                 *)

Together == gatewayLink = "open" /\ hostLink = "open" /\ ~over

(* When the losses are over and both sides stay, the host ends up holding   *)
(* every device of the gateway that is alive.                               *)
HostCatchesUp == <>[](Together => gateway.announced \ gateway.dead \subseteq host.devices)
=============================================================================
