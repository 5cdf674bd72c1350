------------------------------- MODULE Device -------------------------------
(* The device emulator (internal/device) on a plant that is a simulated     *)
(* world (internal/deviceworld), behind its unix socket: a gateway sends    *)
(* commands on one connection at a time, is cut off or loses patience, and  *)
(* retries; the device admits a command, drives the world with it, injects  *)
(* the faults its schedule names, remembers what it did until it reboots,   *)
(* and makes the driven output safe when its lease has passed.              *)
(*                                                                          *)
(* A command's content is everything but its command_id: the digest the     *)
(* device compares is over exactly that (command_params.go).  The boot      *)
(* "boot-A" is 0 and "boot-reboot-<n>" is n.  What an output is set to is   *)
(* abstracted to whether the world drives it, and effects are immediate.    *)
EXTENDS Naturals, Sequences

CONSTANTS
  Target,     \* outputs the capability catalog routes and the bindings bind
  Stoppable,  \* those with a safe stop in both
  NoTarget,
  Id,         \* command ids a gateway uses
  Content,    \* the contents there are
  Gateways,   \* gateways: the contents each of them sends
  MaxValue,   \* the bound the catalog puts on a value
  MaxExpires, \* and on a command's lifetime
  Schedules,  \* fault schedules the device may be started with
  Mode,       \* ways in which the world answers an invocation
  MaxTime, MaxInbox, MaxHangs

Fault == {"ack_lost", "stuck", "reboot", "duplicate", "stale", "expired", "disconnect"}

Modes == {"ok", "ack_lost", "reject", "silent", "confirmed", "interlock", "precondition"}

ContentType == [key : Nat, target : Target \cup {NoTarget}, op : {"set", "safe_stop"},
                value : Nat, lease : Nat, boot : Nat, after : Nat, expires : Nat]

ASSUME DeviceAssumption ==
  /\ Stoppable \subseteq Target
  /\ NoTarget \notin Target
  /\ Content \subseteq ContentType
  /\ Gateways \subseteq SUBSET Content
  /\ Mode \subseteq Modes
  /\ MaxInbox \in Nat \ {0}
  /\ \A s \in Schedules : s \in Seq(SUBSET Fault)

VARIABLES
  device,    \* the emulator with the world it drives
  now,       \* its monotonic clock
  peer,      \* the gateway's end of the connection: "none", "open" or "gone"
  inbox,     \* lines the gateway has written and the device has not read
  hangs,
  gateway,   \* the contents it sends
  wanted,    \* contents the gateway has sent and has no answer to
  verdict    \* the last evidence the device produced for a content (history)

vars == <<device, now, peer, inbox, hangs, gateway, wanted, verdict>>

(* Evidence is told apart by the command id it names, not by its time, and  *)
(* refusals are not told apart at all.                                      *)
Refused == [accepted |-> FALSE, id |-> "none"]

(* --- The world as a plant ------------------------------------------------*)
Carries(m) == m \in {"ok", "ack_lost"}            \* the output really changes
Applied(m) == m \in {"ok", "ack_lost", "silent"}  \* the world says that it did
Accepted(m) == m \in {"ok", "silent", "confirmed"}
Remembers(m) == m \notin {"interlock", "precondition"}

NotCached == [target |-> NoTarget, value |-> 0, applied |-> FALSE]

Drive(p, m, t, value) ==
  IF Carries(m) THEN [p EXCEPT !.driven[t] = value > 0] ELSE p

(* The world's idempotency window, an hour, is longer than a run here: a    *)
(* known command id gets the first result again for the same request, and   *)
(* an error for another.                                                    *)
Cached(p, id) == p.cached[id] # NotCached

Replay(p, id, c) ==
  LET known == p.cached[id]
      same == known.target = c.target /\ known.value = c.value
  IN  [plant |-> [p EXCEPT !.deaf[c.target] = IF same THEN TRUE ELSE @],
       error |-> ~same, applied |-> same /\ known.applied]

Invocation(p, m, id, c) ==
  LET told == [Drive(p, m, c.target, c.value) EXCEPT
                 !.deaf[c.target] = IF m = "interlock" THEN @ ELSE ~Carries(m),
                 !.effects[c] = IF Carries(m) THEN @ + 1 ELSE @]
  IN  [plant |-> IF Remembers(m)
                   THEN [told EXCEPT !.cached[id] =
                           [target |-> c.target, value |-> c.value,
                            applied |-> Applied(m)]]
                   ELSE told,
       error |-> m = "interlock", applied |-> Applied(m)]

(* Plant.Apply: what the world's effector may make of a command.            *)
ApplyPlant(p, id, c) ==
  IF Cached(p, id)
    THEN {Replay(p, id, c)}
    ELSE {Invocation(p, m, id, c) : m \in Mode}

(* Plant.SafeStop: every safe stop has a command id of its own, so it is    *)
(* never a replay.  It counts only when the world accepted and applied it.  *)
SafeStop(p, t) ==
  {[plant |-> [Drive(p, m, t, 0) EXCEPT
                 !.deaf[t] = IF Applied(m) /\ Accepted(m) THEN m = "silent" ELSE @],
    confirmed |-> Applied(m) /\ Accepted(m)] : m \in Mode}

(* --- The device ----------------------------------------------------------*)
StopCurrent_Unchecked(d) ==
  IF d.cur \in Stoppable
    THEN {[r EXCEPT !.confirmed = TRUE] : r \in SafeStop(d.plant, d.cur)}
    ELSE {[plant |-> d.plant, confirmed |-> TRUE]}

(* The current target's safe stop; nothing to stop counts as stopped.       *)
StopCurrent(d) ==
  IF d.cur \in Stoppable
    THEN SafeStop(d.plant, d.cur)
    ELSE {[plant |-> d.plant, confirmed |-> TRUE]}

LeaseOver(d, at) == d.lease # 0 /\ at >= d.lease

ExpireLease(d, at) ==
  IF LeaseOver(d, at)
    THEN {[d EXCEPT !.plant = r.plant, !.energized = ~r.confirmed,
                    !.safe = r.confirmed, !.lease = 0] : r \in StopCurrent(d)}
    ELSE {d}

Reboot(d, n) ==
  {[d EXCEPT !.plant = r.plant, !.energized = ~r.confirmed, !.safe = r.confirmed,
             !.cur = IF r.confirmed THEN NoTarget ELSE @,
             !.boot = n, !.dedup = {}, !.lease = 0] : r \in StopCurrent(d)}

Fresh(c, at) == c.after > 0 => at \in c.after .. (c.after + c.expires)

Admits_AnyBoot(d, c, at) ==
  /\ Fresh(c, at)
  /\ c.expires <= MaxExpires
  /\ IF c.op = "safe_stop"
       THEN c.target \in Stoppable
       ELSE c.target \in Target /\ c.value <= MaxValue

Admits(d, c, at) ==
  /\ c.boot = d.boot
  /\ Fresh(c, at)
  /\ c.expires <= MaxExpires
  /\ IF c.op = "safe_stop"
       THEN c.target \in Stoppable
       ELSE c.target \in Target /\ c.value <= MaxValue

ExecuteSafeStop(d, c) ==
  {[accepted |-> r.confirmed,
    device |-> IF r.confirmed
                 THEN [d EXCEPT !.plant = r.plant, !.cur = c.target,
                                !.energized = FALSE, !.safe = TRUE, !.lease = 0]
                 ELSE [d EXCEPT !.plant = r.plant]] : r \in SafeStop(d.plant, c.target)}

(* A stuck actuator never reaches the plant, and the command is executed.   *)
Actuated(d, id, c, stuck) ==
  IF stuck
    THEN {[plant |-> [d.plant EXCEPT !.deaf[c.target] = TRUE],
           error |-> FALSE, applied |-> FALSE]}
    ELSE ApplyPlant(d.plant, id, c)

ExecutePlantCommand(d, id, c, at, stuck) ==
  {[accepted |-> ~r.error,
    device |-> IF r.error
                 THEN [d EXCEPT !.plant = r.plant]
                 ELSE [d EXCEPT !.plant = r.plant, !.cur = c.target,
                                !.energized = r.applied, !.safe = ~r.applied,
                                !.lease = IF c.lease = 0 THEN 0 ELSE at + c.lease]]
     : r \in Actuated(d, id, c, stuck)}

Execute(d, id, c, at, stuck) ==
  IF c.op = "safe_stop" THEN ExecuteSafeStop(d, c)
                        ELSE ExecutePlantCommand(d, id, c, at, stuck)

Rejection(d) == [device |-> d, evidence |-> Refused, faults |-> {}]

(* What is kept for a retry is the evidence, without the faults the first   *)
(* answer met on the wire.                                                  *)
Remember_WithFaults(d, c, evidence, faults) ==
  [d EXCEPT !.dedup = @ \cup {[content |-> c, evidence |-> evidence, faults |-> faults]}]

Remember(d, c, evidence, faults) ==
  [d EXCEPT !.dedup = @ \cup {[content |-> c, evidence |-> evidence, faults |-> {}]}]

(* The response faults of an executed command: a reboot forgets it too.     *)
Complete(x, id, c, at, n, faults) ==
  LET evidence == [accepted |-> TRUE, id |-> id]
  IN  IF ~x.accepted THEN {Rejection(x.device)}
      ELSE IF "reboot" \in faults
        THEN {[device |-> r, evidence |-> evidence, faults |-> faults \cup {"ack_lost"}]
                : r \in Reboot(x.device, n)}
        ELSE {[device |-> Remember(x.device, c, evidence, faults),
               evidence |-> evidence, faults |-> faults]}

(* The n-th command the device admits takes the faults scheduled for it;    *)
(* the count stops behind the last one scheduled.                           *)
ExecuteScheduled(d, id, c, at) ==
  LET n == IF d.accepted > Len(d.schedule) THEN d.accepted ELSE d.accepted + 1
      faults == IF n <= Len(d.schedule) THEN d.schedule[n] ELSE {}
      taken == [d EXCEPT !.accepted = n]
  IN  IF faults \cap {"stale", "expired"} # {} THEN {Rejection(taken)}
      ELSE UNION {Complete(x, id, c, at, n, faults)
                    : x \in Execute(taken, id, c, at, "stuck" \in faults)}

Known(d, c) == {e \in d.dedup : e.content.key = c.key}

Repeat(d, c) ==
  {IF e.content = c THEN [device |-> d, evidence |-> e.evidence, faults |-> e.faults]
                    ELSE Rejection(d) : e \in Known(d, c)}

Identified_AdmitFirst(d, id, c, at) ==
  IF ~Admits(d, c, at) THEN {Rejection(d)}
  ELSE IF Known(d, c) # {} THEN Repeat(d, c)
  ELSE ExecuteScheduled(d, id, c, at)

(* The evidence of an earlier run of the key comes before any admission.    *)
Identified(d, id, c, at) ==
  IF Known(d, c) # {} THEN Repeat(d, c)
  ELSE IF Admits(d, c, at) THEN ExecuteScheduled(d, id, c, at)
  ELSE {Rejection(d)}

ApplyCommand(d, id, c, at) ==
  UNION {Identified(e, id, c, at) : e \in ExpireLease(d, at)}

(* A command with the duplicate fault is applied again at once, and the     *)
(* second answer is not used.                                               *)
ApplyFrame(d, id, c, at) ==
  UNION {IF "duplicate" \in r.faults
           THEN {[r EXCEPT !.device = again.device] : again \in ApplyCommand(r.device, id, c, at)}
           ELSE {r} : r \in ApplyCommand(d, id, c, at)}

(* --- The socket ----------------------------------------------------------*)
Init ==
  /\ \E s \in Schedules :
       device = [boot |-> 0, dedup |-> {}, accepted |-> 0, cur |-> NoTarget,
                 energized |-> FALSE, safe |-> TRUE, lease |-> 0, schedule |-> s,
                 plant |-> [driven |-> [t \in Target |-> FALSE],
                            deaf |-> [t \in Target |-> FALSE],
                            cached |-> [i \in Id |-> NotCached],
                            effects |-> [c \in Content |-> 0]]]
  /\ now = 0
  /\ peer = "none"
  /\ inbox = << >>
  /\ hangs = 0
  /\ gateway \in Gateways
  /\ wanted = {}
  /\ verdict = [c \in Content |-> Refused]

(* The accept loop serves one connection at a time, and greets it with the  *)
(* state, which expires the lease.                                          *)
Connect ==
  /\ peer = "none"
  /\ peer' = "open"
  /\ device' \in ExpireLease(device, now)
  /\ UNCHANGED <<now, inbox, hangs, gateway, wanted, verdict>>

Write(line) ==
  /\ peer = "open"
  /\ Len(inbox) < MaxInbox
  /\ inbox' = Append(inbox, line)
  /\ UNCHANGED <<device, now, peer, hangs, gateway, verdict>>

Send(c) ==
  /\ c \in gateway
  /\ \E id \in Id : Write([kind |-> "command", id |-> id, content |-> c])
  /\ wanted' = wanted \cup {c}

Query ==
  /\ Write([kind |-> "query_state"])
  /\ UNCHANGED wanted

(* The gateway gives up; what it has written is still read.                 *)
HangUp ==
  /\ peer = "open"
  /\ hangs < MaxHangs
  /\ peer' = "gone"
  /\ hangs' = hangs + 1
  /\ UNCHANGED <<device, now, inbox, gateway, wanted, verdict>>

(* A write to a gateway that has gone ends the connection, and so does the  *)
(* disconnect fault; the lines behind it are lost.                          *)
Reply(faults, done) ==
  IF "ack_lost" \in faults
    THEN inbox' = Tail(inbox) /\ UNCHANGED <<peer, wanted>>
    ELSE /\ wanted' = IF peer = "open" THEN wanted \ done ELSE wanted
         /\ IF peer = "gone" \/ "disconnect" \in faults
              THEN peer' = "none" /\ inbox' = << >>
              ELSE inbox' = Tail(inbox) /\ UNCHANGED peer

ServeQuery ==
  /\ inbox # << >>
  /\ Head(inbox).kind = "query_state"
  /\ device' \in ExpireLease(device, now)
  /\ Reply({}, {})
  /\ UNCHANGED <<now, hangs, gateway, verdict>>

ServeCommand ==
  /\ inbox # << >>
  /\ Head(inbox).kind = "command"
  /\ LET c == Head(inbox).content
     IN  \E r \in ApplyFrame(device, Head(inbox).id, c, now) :
           /\ device' = r.device
           /\ verdict' = [verdict EXCEPT ![c] = r.evidence]
           /\ Reply(r.faults, {c})
  /\ UNCHANGED <<now, hangs, gateway>>

EndOfInput ==
  /\ peer = "gone"
  /\ inbox = << >>
  /\ peer' = "none"
  /\ UNCHANGED <<device, now, inbox, hangs, gateway, wanted, verdict>>

Tick ==
  /\ now < MaxTime
  /\ now' = now + 1
  /\ UNCHANGED <<device, peer, inbox, hangs, gateway, wanted, verdict>>

Serve == ServeQuery \/ ServeCommand \/ EndOfInput

Next ==
  \/ Connect
  \/ \E c \in Content : Send(c)
  \/ Query
  \/ HangUp
  \/ ServeQuery
  \/ ServeCommand
  \/ EndOfInput
  \/ Tick

(* The device serves what it has been sent; a gateway without an answer     *)
(* connects and asks again.                                                 *)
Fairness ==
  /\ WF_vars(Serve)
  /\ WF_vars(Connect /\ wanted # {})
  /\ \A c \in Content : SF_vars(Send(c) /\ c \in wanted)

Spec == Init /\ [][Next]_vars /\ Fairness

(* --- Properties ----------------------------------------------------------*)
TypeOK ==
  /\ device.boot \in Nat
  /\ \A e \in device.dedup : e.content \in Content
  /\ device.accepted \in Nat
  /\ device.cur \in Target \cup {NoTarget}
  /\ device.energized \in BOOLEAN
  /\ device.safe \in BOOLEAN
  /\ device.lease \in Nat
  /\ device.schedule \in Schedules
  /\ device.plant.driven \in [Target -> BOOLEAN]
  /\ device.plant.deaf \in [Target -> BOOLEAN]
  /\ device.plant.effects \in [Content -> Nat]
  /\ now \in 0 .. MaxTime
  /\ peer \in {"none", "open", "gone"}
  /\ Len(inbox) <= MaxInbox
  /\ hangs \in 0 .. MaxHangs
  /\ wanted \subseteq gateway

(* One command, one effect: however often a content is sent, under whatever *)
(* command id, on however many connections, through the duplicate fault,    *)
(* lost answers and reboots, the world carries it out at most once          *)
(* (command_execution.go:10, state.go:16, admission.go:11).                 *)
OncePerCommand == \A c \in Content : device.plant.effects[c] <= 1

(* An output the device reports as off is off, unless the world never did   *)
(* what its last command asked: leases, safe stops and reboots may not      *)
(* report what they have not had confirmed (safe_stop.go:25, state.go:57).  *)
OffIsOff ==
  /\ device.cur \in Stoppable
  /\ ~device.energized
  /\ ~device.plant.deaf[device.cur]
  => ~device.plant.driven[device.cur]

(* Evidence does not change: once the device has reported a command as run, *)
(* every retry in the same boot gets that report again, after its lifetime  *)
(* too, and under another command id (command_execution.go:10-17).          *)
EvidenceIsStable ==
  [][\A c \in Content :
       (verdict[c].accepted /\ c.boot = device'.boot) => verdict'[c] = verdict[c]]_vars

(* A gateway that keeps asking gets its answer, however the answers before  *)
(* it were lost, withheld or cut off (command_execution.go:57-62,           *)
(* exchange.go:87).                                                         *)
EveryCommandIsAnswered ==
  \A c \in Content : c \in wanted ~> c \notin wanted

(* What the documentation says of the device on a world                     *)
(* (deviceworld/doc.go:4-6): a command energizes an output because the      *)
(* world's effector actually applied a physical effect.                     *)
OnlyTheWorldEnergizes ==
  [][(~device.energized /\ device'.energized /\ device'.accepted > device.accepted)
       => \E c \in Content : device'.plant.effects[c] > device.plant.effects[c]]_vars

(* And of a lease (documentation/reference/cli.md:308-309): its expiry      *)
(* invokes the safe-stop path, so the lease of a driven output does not go  *)
(* without the output being stopped.                                        *)
LeaseIsCarriedOut ==
  [][(device.lease # 0 /\ (device'.lease = 0 \/ device'.cur # device.cur))
       => ~device'.plant.driven[device.cur]]_vars
=============================================================================
