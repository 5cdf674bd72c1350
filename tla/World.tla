-------------------------------- MODULE World --------------------------------
(***************************************************************************)
(* The world core (internal/world/internal/domain): the driven states of   *)
(* the entities under effector calls, leases, responders and faults, the   *)
(* integration that reads pull along, the KPI samples, and the event queue *)
(* an advance works off: emissions, pulse edges, births and deaths.        *)
(* A kick is in full effect from its start on; times are whole steps.      *)
(***************************************************************************)
EXTENDS Integers, SequencesExt, FiniteSetsExt

CONSTANTS Entity,        \* the ids that fit an instance set of the domain
          Initial,       \* those the world begins with
          Start,         \* StartNS
          WorldHorizon,  \* bound: the latest time of an advance or a command
          EffectorDecl,  \* [name -> what the kinds declare of the effector]
          FaultDecl,     \* [name -> what they declare of the fault]
          Watched,       \* the state the KPIs and the integrated state take in
          SampledBy,     \* [entity -> the entities it reads through a link]
          Args,          \* [effector -> the arguments a caller may send it]
          Modes,         \* the failure modes a call may draw
          Cadence,       \* how long after an emission the next may be due
          Births,        \* how long after a birth the next may be due; none: no churn
          Lifetimes,     \* how long what is born may live
          MaxWorldCommands  \* bound: the commands of a run, advances aside

None == -1

ASSUME WorldAssumption ==
  /\ IsFiniteSet(Entity) /\ Initial \subseteq Entity /\ Start \in Nat \ {0} /\ WorldHorizon \in Nat
  /\ Cadence \subseteq Nat \ {0} /\ Births \cup Lifetimes \subseteq Nat \ {0}
  /\ \A f \in DOMAIN FaultDecl : FaultDecl[f].lasts \in Nat
  /\ \A f \in DOMAIN EffectorDecl :
       /\ EffectorDecl[f].dead \in Nat
       /\ EffectorDecl[f].fallback \in {"none", "safe_off", "revert", "hold_last"}
       /\ \A args \in Args[f] : args.lease \in Nat \cup {None}

VARIABLES clockNS,  \* w.clockNS
          goal,     \* where the advance under way leads, or None
          left,     \* bound: the commands that may still come
          queue,    \* w.queue in the order of its tiebreaks, effect starts left out
          entity,   \* w.entities: bornNS, alive, retiredNS, and as history until
                    \* when its KPIs were sampled
          kicks,    \* w.kicks, each told from every other by its call and its part
          leases,   \* w.leases: the fallback that waits for a call to renew it
          faults,   \* w.faultsByID in the order of w.faultOrder
          calls,    \* w.effectorCalls
          drawn,    \* the inputs an entity's integrated state has taken in, step by step
          ahead,    \* history: those of them a look-ahead has left past the clock
          sampled   \* the values the KPIs of an entity were given

driving == <<kicks, leases, calls>>
worldVars == <<clockNS, goal, left, queue, entity, driving, faults, drawn, ahead, sampled>>

NoKick == [entity |-> "", state |-> "", start |-> None]
Exists(e) == entity[e].born # None
Live(e) == Exists(e) /\ entity[e].alive

Item(kind, e, at) == [kind |-> kind, entity |-> e, time |-> at]

-----------------------------------------------------------------------------
(***************************************************************************)
(* What a driven state is worth at a time, under the kicks and faults      *)
(* known now.                                                              *)
(***************************************************************************)
Started(e, s, t) == {k \in kicks : k.entity = e /\ k.state = s /\ k.start < t}

Sum(ks) == MapThenSumSet(LAMBDA k : k.delta, ks)

\* The order they were scheduled in; of one call the fallback comes last.
After(k, l) == k.call > l.call \/ (k.call = l.call /\ k.part = "fallback")

\* The latest assignment counts, of two at one instant the later issued, and
\* what was added after it.
Driven(ks) ==
  LET assigning == {k \in ks : k.assign}
      latest == CHOOSE k \in assigning :
                  \A l \in assigning \ {k} : l.start < k.start \/ (l.start = k.start /\ After(k, l))
  IN IF assigning = {} THEN Sum(ks)
     ELSE latest.delta + Sum({k \in ks : ~k.assign /\ k.start > latest.start})

ActiveAt(fault, t) == fault.onset <= t /\ (fault.cleared = 0 \/ t < fault.cleared)

Acting(e, s, t) ==
  {i \in DOMAIN faults : faults[i].entity = e /\ FaultDecl[faults[i].fault].state = s /\ ActiveAt(faults[i], t)}

Shifted(named) == MapThenSumSet(LAMBDA i : FaultDecl[named[i]].delta, DOMAIN named)

\* A fault that came later than the last kick acts on the natural value, which
\* is 0; one that came before it gives way.
Value(e, s, t) ==
  LET started == Started(e, s, t)
      acting == Acting(e, s, t)
  IN IF \E i \in acting : \A k \in started : faults[i].onset > k.start
       THEN Shifted([i \in acting |-> faults[i].fault])
       ELSE Driven(started)

-----------------------------------------------------------------------------
(***************************************************************************)
(* Reading a state integrates its entity, and those linked to it, as far   *)
(* as the time asked for: each step takes its input at its own start.      *)
(***************************************************************************)
LastAlive(e, t) == IF entity[e].alive THEN t ELSE Min({t, entity[e].retired})

\* Integrated up to t: every step that ends by then.
Integrated(e, t) ==
  drawn[e] \o [k \in 1 .. Max({0, t - entity[e].born - Len(drawn[e])}) |->
                 Value(e, Watched, entity[e].born + Len(drawn[e]) + k - 1)]

\* advanceReaders, and the inputs an entity takes from its sources.
Read(e, t) ==
  [f \in Entity |->
     CASE f = e -> Integrated(e, t)
       [] Exists(f) /\ f # e /\ e \in SampledBy[f] -> Integrated(f, LastAlive(f, t))
       [] Exists(f) /\ f # e /\ f \in SampledBy[e] -> Integrated(f, LastAlive(f, t - 1))
       [] OTHER -> drawn[f]]

\* Variant: a look past the clock is a read like any other.
LookedAhead_Read(e, t) == Read(e, t)

\* lookAhead: the entity asked about is put back, its links are not.
LookedAhead(e, t) == IF t > clockNS THEN [Read(e, t) EXCEPT ![e] = drawn[e]] ELSE Read(e, t)

\* History: the steps past the clock in which a look at e now leaves its links.
LeftAhead(e, now) ==
  [f \in Entity |-> ahead[f] \cup {k \in DOMAIN now[f] \ DOMAIN drawn[f] : f # e /\ entity[f].born + k - 1 >= clockNS}]

\* sampleKPIsThrough: one value a step, none after the entity retired.
SampledThrough(to) ==
  [e \in Entity |-> IF ~Exists(e) THEN <<>> ELSE
     sampled[e] \o [k \in 1 .. Max({0, LastAlive(e, to) - entity[e].born + 1 - Len(sampled[e])}) |->
                      Value(e, Watched, entity[e].born + Len(sampled[e]) + k - 1)]]

-----------------------------------------------------------------------------
\* Bound: there is a next birth as long as an id is free.
NextBirth(at, free) ==
  IF Births = {} \/ free = {} THEN {<<>>} ELSE {<<Item("birth", "", at + gap)>> : gap \in Births}

WorldInit ==
  /\ clockNS = Start /\ goal = None /\ left = MaxWorldCommands
  /\ \E next \in [Initial -> Cadence], births \in NextBirth(Start, Entity \ Initial) :
       queue = SetToSeq({Item("emission", e, Start + next[e]) : e \in Initial}) \o births
  /\ entity = [e \in Entity |-> [born |-> IF e \in Initial THEN Start ELSE None, alive |-> e \in Initial, retired |-> None, until |-> None]]
  /\ kicks = {} /\ faults = <<>> /\ calls = <<>>
  /\ leases = [e \in Entity |-> [f \in DOMAIN EffectorDecl |-> NoKick]]
  /\ drawn = [e \in Entity |-> <<>>] /\ ahead = [e \in Entity |-> {}] /\ sampled = [e \in Entity |-> <<>>]

\* Commands run between two advances.
Command == goal = None /\ left > 0 /\ left' = left - 1
Instants == clockNS .. WorldHorizon

-----------------------------------------------------------------------------
(***************************************************************************)
(* Faults.                                                                 *)
(***************************************************************************)

\* Before the clock nothing begins and nothing ends, unless the world has not
\* run yet.
Admits(at) == at >= clockNS \/ clockNS = Start

\* checkPulseEdge: the event-driven channel is looked at when a pulse begins
\* and when it ends.
PulseEdges(fault, times) ==
  IF FaultDecl[fault.fault].lasts = 0
    THEN <<>>
    ELSE [i \in DOMAIN times |-> Item("check", fault.entity, Max({times[i], clockNS}))]

InjectFault(e, f, onset) ==
  LET lasts == FaultDecl[f].lasts
      fault == [entity |-> e, fault |-> f, onset |-> onset, by |-> IF lasts = 0 THEN "" ELSE "pulse_end",
                cleared |-> IF lasts = 0 THEN 0 ELSE onset + lasts]
  IN /\ Command /\ Exists(e) /\ Admits(onset)
     /\ faults' = Append(faults, fault)
     /\ queue' = queue \o PulseEdges(fault, <<fault.onset, fault.cleared>>)
     /\ UNCHANGED <<clockNS, goal, entity, driving, drawn, ahead, sampled>>

\* clearFaultBy: a clear only shortens.
Shortens(fault, at) == Admits(at) /\ (fault.cleared = 0 \/ at < fault.cleared)

ClearedBy(fault, at, by) == [fault EXCEPT !.cleared = at, !.by = by]

ClearFault(i, at) ==
  /\ Command /\ Shortens(faults[i], at)
  /\ faults' = [faults EXCEPT ![i] = ClearedBy(@, at, "command")]
  /\ queue' = queue \o PulseEdges(faults[i], <<at>>)
  /\ UNCHANGED <<clockNS, goal, entity, driving, drawn, ahead, sampled>>

-----------------------------------------------------------------------------
(***************************************************************************)
(* InvokeEffector.                                                         *)
(***************************************************************************)
Acknowledged == {"ok", "ack_lost"}
AppliedModes == Acknowledged \cup {"partial"}

KickOf(part, e, s, delta, assign, start) ==
  [part |-> part, call |-> Len(calls) + 1,
   entity |-> e, state |-> s, delta |-> delta, assign |-> assign, start |-> start]

\* What an interlock or a precondition is judged by.
Accumulated(e, at) == FoldLeft(+, 0, Integrated(e, at))

Refused(e, f, at) ==
  EffectorDecl[f].guard # "none" /\ Accumulated(e, at) >= EffectorDecl[f].level

Looked(e, f, at) == IF EffectorDecl[f].guard = "none" THEN drawn ELSE LookedAhead(e, at)

\* A refusal is not remembered; an interlock acts on its own.
Refuse(e, f, at) ==
  LET d == EffectorDecl[f]
  IN /\ kicks' = kicks \cup (IF d.guard = "interlock" THEN {KickOf("interlock", e, d.acts, d.action, FALSE, at)} ELSE {})
     /\ calls' = Append(calls, [entity |-> e, effector |-> f, at |-> at, mode |-> "refused"])
     /\ UNCHANGED <<leases, faults, queue>>

\* Half the effect of a partial call: deltas are even.
Effect(e, f, args, at, mode) ==
  LET d == EffectorDecl[f]
      share == IF mode = "partial" THEN args.value \div 2 ELSE args.value
  IN IF d.form \in {"assign", "add"} /\ mode \in AppliedModes
       THEN {KickOf("effect", e, d.state, share, d.form = "assign", at + d.dead)}
       ELSE {}

\* dispatchResponder: who is sent finds at his arrival what is known now.
Arrival(f, at) == at + EffectorDecl[f].dead

Matched(e, f, args, at, mode) ==
  IF EffectorDecl[f].form = "responder" /\ mode \in Acknowledged
    THEN {i \in DOMAIN faults : /\ faults[i].entity = e /\ faults[i].fault = args.cause
                                /\ ActiveAt(faults[i], Arrival(f, at))}
    ELSE {}

Responded(e, f, args, at, mode) ==
  LET d == EffectorDecl[f]
      found == Matched(e, f, args, at, mode) # {}
  IN IF d.form = "responder" /\ mode \in Acknowledged
       THEN {KickOf("response", e, d.state, IF found THEN d.match ELSE d.miss, FALSE, Arrival(f, at))}
       ELSE {}

\* Variant: a call that comes at the instant of the lapse is too late to renew.
Withdrawn_Late(e, f, at) == leases[e][f].start > at

\* withdrawLease: the fallback that has not acted yet when the call comes.
Withdrawn(e, f, at) == leases[e][f].start >= at

Leased(f, args, mode) ==
  EffectorDecl[f].fallback # "none" /\ args.lease # None /\ mode \in Acknowledged

\* armLease: a revert undoes what the calls of its chain have added.
Fallback(e, f, args, at) ==
  LET d == EffectorDecl[f]
      lapse == at + d.dead + args.lease
      carried == IF Withdrawn(e, f, at) THEN -leases[e][f].delta ELSE 0
  IN CASE d.fallback = "safe_off" -> KickOf("fallback", e, d.state, d.safe, TRUE, lapse)
       [] d.fallback = "revert" -> KickOf("fallback", e, d.state, -(carried + args.value), FALSE, lapse)
       [] d.fallback = "hold_last" -> NoKick

Execute(e, f, args, at, mode) ==
  LET added == Effect(e, f, args, at, mode) \cup Responded(e, f, args, at, mode)
      leased == Leased(f, args, mode)
      fallback == Fallback(e, f, args, at)
      withdrawn == IF leased /\ Withdrawn(e, f, at) THEN {leases[e][f]} ELSE {}
      matched == {i \in Matched(e, f, args, at, mode) : Shortens(faults[i], Arrival(f, at))}
  IN /\ kicks' = (kicks \ withdrawn) \cup added \cup (IF leased THEN {fallback} \ {NoKick} ELSE {})
     /\ leases' = IF leased THEN [leases EXCEPT ![e][f] = fallback] ELSE leases
     /\ faults' = [i \in DOMAIN faults |->
                     IF i \in matched THEN ClearedBy(faults[i], Arrival(f, at), "responder") ELSE faults[i]]
     /\ queue' = queue \o FlattenSeq([i \in DOMAIN faults |->
                                        IF i \in matched THEN PulseEdges(faults[i], <<Arrival(f, at)>>) ELSE <<>>])
     /\ calls' = Append(calls, [entity |-> e, effector |-> f, at |-> at, mode |-> mode, args |-> args])

\* A job and a plant wire date a call now, a scenario file as it likes; dates
\* behind the clock, which the code takes too, are left out.
\* replayInvocation: a repeat within the idempotency window gets the first
\* answer again or is refused, which changes nothing and is no step.
InvokeEffector(e, f, args, at, mode) ==
  /\ Command /\ Live(e) /\ e \in EffectorDecl[f].on
  /\ drawn' = Looked(e, f, at) /\ ahead' = LeftAhead(e, drawn')
  /\ IF Refused(e, f, at)
       THEN mode = "reject" /\ Refuse(e, f, at)
       ELSE Execute(e, f, args, at, mode)
  /\ UNCHANGED <<clockNS, goal, entity, sampled>>

-----------------------------------------------------------------------------
(***************************************************************************)
(* Entities come and go.                                                   *)
(***************************************************************************)

Added(e, at) == [entity EXCEPT ![e].born = at, ![e].alive = TRUE]

\* addEntity: with its first emission.
AddEntity(e, at, next) ==
  /\ Command /\ ~Exists(e)
  /\ entity' = Added(e, at)
  /\ queue' = Append(queue, Item("emission", e, at + next))
  /\ UNCHANGED <<clockNS, goal, driving, faults, drawn, ahead, sampled>>

Retired(e, at) ==
  [entity EXCEPT ![e].alive = FALSE, ![e].retired = at, ![e].until = Max({at, clockNS - 1})]

\* At any time, also behind the clock.
Retire(e, at) ==
  /\ Command /\ Live(e)
  /\ entity' = Retired(e, at)
  /\ UNCHANGED <<clockNS, goal, queue, driving, faults, drawn, ahead, sampled>>

-----------------------------------------------------------------------------
(***************************************************************************)
(* Advance: the events that are due, one by one, and the end of it.        *)
(***************************************************************************)
AdvanceWorld(to) ==
  /\ goal = None /\ goal' = to
  /\ UNCHANGED <<clockNS, left, queue, entity, driving, faults, drawn, ahead, sampled>>

Due == {i \in DOMAIN queue : queue[i].time <= goal}

\* The order of the heap: the time, then the tiebreak.
Foremost ==
  CHOOSE i \in Due : \A j \in Due : queue[i].time < queue[j].time \/ (queue[i].time = queue[j].time /\ i <= j)

Pop(kind) ==
  /\ goal # None /\ Due # {} /\ queue[Foremost].kind = kind
  /\ clockNS' = queue[Foremost].time
  /\ sampled' = SampledThrough(clockNS' - 1)
  /\ UNCHANGED <<goal, left, driving, faults, ahead>>

Rest == RemoveAt(queue, Foremost)

DroppedOut(e, t) ==
  \E i \in DOMAIN faults : faults[i].entity = e /\ FaultDecl[faults[i].fault].drops /\ ActiveAt(faults[i], t)

\* Variant: what is dropped out does not come back.
Emission_Dropped(e, down, next) ==
  /\ Pop("emission") /\ queue[Foremost].entity = e
  /\ IF ~Live(e) \/ DroppedOut(e, clockNS')
       THEN UNCHANGED drawn /\ queue' = Rest
       ELSE /\ drawn' = IF down THEN drawn ELSE Read(e, clockNS')
            /\ queue' = Append(Rest, Item("emission", e, clockNS' + next))
  /\ UNCHANGED entity

\* processEmission: a channel that is down, or dropped out, is not read, and is
\* due again all the same.
Emission(e, down, next) ==
  /\ Pop("emission") /\ queue[Foremost].entity = e
  /\ IF Live(e)
       THEN /\ drawn' = IF down \/ DroppedOut(e, clockNS') THEN drawn ELSE Read(e, clockNS')
            /\ queue' = Append(Rest, Item("emission", e, clockNS' + next))
       ELSE UNCHANGED drawn /\ queue' = Rest
  /\ UNCHANGED entity

\* processEventCheck: beside the regular checks, which it leaves alone.
EventCheck(e, down) ==
  /\ Pop("check") /\ queue[Foremost].entity = e
  /\ drawn' = IF Live(e) /\ ~down /\ ~DroppedOut(e, clockNS') THEN Read(e, clockNS') ELSE drawn
  /\ queue' = Rest
  /\ UNCHANGED entity

\* birthAutonomous: under an id nobody has had.
Birth(next, lifetime) ==
  LET free == {e \in Entity : ~Exists(e)}
  IN /\ Pop("birth")
     /\ IF free = {}
          THEN UNCHANGED entity /\ queue' = Rest
          ELSE \E e \in free : \E births \in NextBirth(clockNS', free \ {e}) :
                 /\ entity' = Added(e, clockNS')
                 /\ queue' = Rest \o <<Item("emission", e, clockNS' + next), Item("death", e, clockNS' + lifetime)>> \o births
     /\ UNCHANGED drawn

Death(e) ==
  /\ Pop("death") /\ queue[Foremost].entity = e
  /\ entity' = IF Live(e) THEN Retired(e, clockNS') ELSE entity
  /\ queue' = Rest
  /\ UNCHANGED drawn

WorldReturns ==
  /\ goal # None /\ Due = {}
  /\ sampled' = SampledThrough(goal - 1)
  /\ clockNS' = goal /\ goal' = None
  /\ UNCHANGED <<left, queue, entity, driving, faults, drawn, ahead>>

-----------------------------------------------------------------------------
WorldNext ==
  \/ \E e \in Entity :
       \/ \E f \in DOMAIN FaultDecl, onset \in 1 .. WorldHorizon : InjectFault(e, f, onset)
       \/ \E f \in DOMAIN EffectorDecl : \E args \in Args[f], at \in Instants, mode \in Modes :
            InvokeEffector(e, f, args, at, mode)
       \/ \E at \in Start .. WorldHorizon : Retire(e, at)
       \/ \E at \in Instants : \E next \in Cadence : AddEntity(e, at, next)
       \/ \E down \in BOOLEAN : EventCheck(e, down) \/ \E next \in Cadence : Emission(e, down, next)
       \/ Death(e)
  \/ \E i \in DOMAIN faults, at \in Instants : ClearFault(i, at)
  \/ \E to \in Instants : AdvanceWorld(to)
  \/ \E next \in Cadence, lifetime \in Lifetimes : Birth(next, lifetime)
  \/ WorldReturns

WorldSpec == WorldInit /\ [][WorldNext]_worldVars

-----------------------------------------------------------------------------
(***************************************************************************)
(* Properties.                                                             *)
(***************************************************************************)

\* The acknowledged calls of an effector that named a lease.
Leasing(e, f) ==
  {i \in DOMAIN calls : /\ calls[i].entity = e /\ calls[i].effector = f
                        /\ calls[i].mode \in Acknowledged /\ calls[i].args.lease # None}

Effective(e, f) == {i \in DOMAIN calls : calls[i].entity = e /\ calls[i].effector = f /\ calls[i].mode \in AppliedModes}

Lapse(i) == calls[i].at + EffectorDecl[calls[i].effector].dead + calls[i].args.lease

Renewed(e, f, i) == \E j \in Leasing(e, f) : j > i /\ calls[j].at <= Lapse(i)

\* The calls whose effect a lease that is not renewed ends with it.
Chain(e, f, i) ==
  {j \in Leasing(e, f) : j <= i /\ \A k \in Leasing(e, f) : j <= k /\ k < i => Renewed(e, f, k)}

Contribution(i) == IF calls[i].mode = "partial" THEN calls[i].args.value \div 2 ELSE calls[i].args.value

Begun(e, f, t) == {i \in Effective(e, f) : calls[i].at + EffectorDecl[f].dead < t}

Ended(e, f, t) == {i \in Leasing(e, f) : ~Renewed(e, f, i) /\ Lapse(i) < t}

\* What the calls of the log have promised of a state that one effector drives.
Promised(e, f, t) ==
  LET d == EffectorDecl[f]
      begun == Begun(e, f, t)
      over == Ended(e, f, t)
      lastEffect == Max({calls[i].at + d.dead : i \in begun})
      lastLapse == Max({Lapse(i) : i \in over})
  IN CASE d.form = "add" ->
            MapThenSumSet(Contribution, begun)
              - (IF d.fallback = "revert" THEN MapThenSumSet(Contribution, UNION {Chain(e, f, i) : i \in over}) ELSE 0)
       [] d.form = "assign" /\ begun = {} -> 0
       [] d.form = "assign" /\ begun # {} ->
            IF d.fallback = "safe_off" /\ over # {} /\ (lastLapse > lastEffect \/ (lastLapse = lastEffect /\ Max(begun) = Max(over)))
              THEN d.safe ELSE Contribution(Max(begun))

AsPromised(e, f) ==
  \A t \in Start .. WorldHorizon + 1 : Driven(Started(e, EffectorDecl[f].state, t)) = Promised(e, f, t)

Driving(f) == EffectorDecl[f].form \in {"assign", "add"}

InOrder(e, f) == \A i, j \in Effective(e, f) : i <= j => calls[i].at <= calls[j].at

\* A state is what the calls say, where those that took effect were dated in
\* the order they came in, as a job and a plant wire do, which date them now:
\* an acknowledged call holds its effect for the seconds of its lease and no
\* longer, unless it was renewed in time, a revert undoes what its chain of
\* calls has added and no more, and a call that failed, was refused or came
\* without the argument renews nothing (effectors.go:206, follow_up.go:60).
LeaseHolds ==
  \A f \in DOMAIN EffectorDecl : \A e \in EffectorDecl[f].on : Driving(f) /\ InOrder(e, f) => AsPromised(e, f)

\* The same in whatever order a scenario file dates its calls
\* (docs/design/DOMAIN_SPEC_V0_2.md, 18).
EveryLeaseHolds ==
  \A f \in DOMAIN EffectorDecl : \A e \in EffectorDecl[f].on : Driving(f) => AsPromised(e, f)

\* Sampling goes on until the entity retires, and a retirement dated behind
\* the clock takes nothing back.
LastSampled(e, t) == IF entity[e].alive THEN t ELSE Min({t, entity[e].until})

AsNow(e, k, value) == value = Value(e, Watched, entity[e].born + k - 1)

\* What has been integrated and sampled is what the world would say of those
\* times now, however far past the clock calls are dated and looked ahead at:
\* the order of the reads does not matter, every step was taken once and every
\* sample is there once.  A look-ahead leaves no step past the clock to the
\* entity it is asked about; the steps it leaves to the entities linked to that
\* one are the exception, for a later command can still reach them
\* (integration.go:44, kpi.go:68, faults.go:181, protection.go:141).
PastStands ==
  \A e \in Entity :
    /\ \A k \in DOMAIN drawn[e] \ ahead[e] : entity[e].born + k - 1 < clockNS /\ AsNow(e, k, drawn[e][k])
    /\ \A k \in DOMAIN sampled[e] : AsNow(e, k, sampled[e][k])
    /\ goal = None /\ Exists(e) => Len(sampled[e]) = Max({0, LastSampled(e, clockNS - 1) - entity[e].born + 1})

\* A look-ahead never commits integration past the clock and never changes what
\* is read of an earlier time (docs/design/DOMAIN_SPEC_V0_2.md, 17).
EveryStepStands == \A e \in Entity : \A k \in DOMAIN drawn[e] : AsNow(e, k, drawn[e][k])

Emissions(e) == {i \in DOMAIN queue : queue[i].kind = "emission" /\ queue[i].entity = e}

\* The channel of a live entity is due again exactly once and never before the
\* clock, whatever outages, dropouts and pulse edges it went through
\* (observe.go:43, event_clock.go:42).
ChainsKeepGoing ==
  \A e \in Entity : Live(e) => \E i \in Emissions(e) : Emissions(e) = {i} /\ queue[i].time >= clockNS

==============================================================================
