------------------------------- MODULE Run_proofs -------------------------------
(***************************************************************************)
(* The run and the world it drives, for any number of callers, reports,    *)
(* events, commands, perturbations, entities, effectors and faults.        *)
(*   - A caller that waits for quiescence never sleeps through the report  *)
(*     it waits for; no run is called complete over a delivery that        *)
(*     failed, and every delivery that was numbered has exactly one        *)
(*     account; the command log of a reproducible run replays to it.       *)
(*   - In the world, the channel of a live entity stays due exactly once,  *)
(*     what a state was before the clock is never revised, and what was    *)
(*     integrated and sampled is what it would be now.                     *)
(* They share no variable here; of lists they take the same lemmas.        *)
(***************************************************************************)
EXTENDS Run, World, FiniteSetTheorems, SequenceTheorems, WellFoundedInduction, TLAPS

-----------------------------------------------------------------------------
(* The steps, by what they may do to the pass of a clock.advance.           *)

Commanding(c) ==
    \/ ChangeWorld(c)
    \/ \E p \in Offers : ApplyPerturb(c, p)
    \/ \E i \in DOMAIN layer.active : ClearPerturb(c, layer.active[i].id)

Waits(c) == Look(c) \/ Wake(c) \/ CancelWait(c) \/ TimeOut(c) \/ NotQuiesced(c)

Ends(c) == Abandon(c) \/ \E framed, sealed, published \in BOOLEAN : End(c, framed, sealed, published)

Starts(c) == \E to \in 1 .. Horizon, await \in BOOLEAN : Advance(c, to, await)

Hears(c) == (\E through \in 1 .. Horizon : Report(c, through)) \/ ReportLands(c)

Passing == EmitEvent \/ PerturbStep \/ Perturbed \/ Deliver \/ EventDone \/ Boundary \/ AdvanceReturns

LEMMA NextSteps ==
    Next => \/ \E c \in Driver : Commanding(c) \/ Waits(c) \/ Ends(c) \/ Starts(c)
            \/ \E c \in Consumer : Hears(c)
            \/ Passing
BY Zenon DEF Next, Commanding, Waits, Ends, Starts, Hears, Passing

-----------------------------------------------------------------------------
(* The pass of a clock.advance: whatever the layer makes of its records,    *)
(* the time it goes to is the one its caller gave.                          *)
PassFields == {"stage", "by", "to", "await", "at", "step", "records"}

PassInv ==
    /\ pass = [f \in PassFields |-> pass[f]]
    /\ pass.to \in Nat

LEMMA PassInvInit == Init => PassInv
BY DEF Init, PassInv, NoPass, PassFields

(* A pass that goes on keeps its fields and its time.                       *)
LEMMA PassGoesOn ==
    ASSUME PassInv, NEW stage, NEW t, NEW step, NEW records,
           pass' = [pass EXCEPT !.stage = stage, !.at = t, !.step = step, !.records = records]
    PROVE  PassInv' /\ pass'.to = pass.to
BY DEF PassInv, PassFields

LEMMA PassInvNext == PassInv /\ [Next]_vars => PassInv'
<1> SUFFICES ASSUME PassInv, [Next]_vars
             PROVE  PassInv'
  OBVIOUS
<1>1. CASE UNCHANGED pass
  BY <1>1 DEF PassInv
<1>2. ASSUME NEW c \in Driver, Starts(c)
      PROVE  PassInv'
  <2>1. PICK to \in 1 .. Horizon, await \in BOOLEAN : Advance(c, to, await)
    BY <1>2 DEF Starts
  <2>2. to \in Nat
    BY RunAssumption
  <2> QED
    BY <2>1, <2>2 DEF Advance, NoPass, PassInv, PassFields
<1>3. CASE EmitEvent
  <2>1. PICK t, records : pass' = [pass EXCEPT !.stage = "perturb", !.at = t, !.step = 1, !.records = records]
    BY <1>3 DEF EmitEvent
  <2> QED
    BY <2>1, PassGoesOn
<1>4. CASE PerturbStep
  <2>1. CASE Covers(layer.active[pass.step], pass.at)
    <3>1. PICK hit \in SUBSET DOMAIN pass.records :
            pass' = [pass EXCEPT !.step = pass.step + 1,
                                 !.records = Transformed(layer, pass.step, pass.records, pass.at, hit).out]
      BY <1>4, <2>1, Zenon DEF PerturbStep
    <3> DEFINE out == Transformed(layer, pass.step, pass.records, pass.at, hit).out
    <3> HIDE DEF out
    <3>2. pass' = [pass EXCEPT !.step = pass.step + 1, !.records = out]
      BY <3>1 DEF out
    <3> QED
      BY <3>2 DEF PassInv, PassFields
  <2>2. CASE ~Covers(layer.active[pass.step], pass.at)
    BY <1>4, <2>2 DEF PerturbStep, PassInv, PassFields
  <2> QED
    BY <2>1, <2>2
<1>5. CASE Perturbed \/ Deliver \/ EventDone
  <2>1. CASE Perturbed
    BY <2>1 DEF Perturbed, PassInv, PassFields
  <2>2. CASE Deliver
    <3>1. pass' = [pass EXCEPT !.records = Tail(pass.records)]
      BY <2>2 DEF Deliver
    <3> QED
      BY <3>1 DEF PassInv, PassFields
  <2>3. CASE EventDone
    BY <2>3 DEF EventDone, PassInv, PassFields
  <2> QED
    BY <1>5, <2>1, <2>2, <2>3
<1>6. CASE Boundary
  <2> DEFINE out == Released(layer, pass.to)
  <2>1. pass' = [pass EXCEPT !.stage = "boundary", !.records = out]
    BY <1>6 DEF Boundary
  <2> HIDE DEF out
  <2> QED
    BY <2>1 DEF PassInv, PassFields
<1>7. CASE AdvanceReturns
  BY <1>7 DEF AdvanceReturns, NoPass, PassInv, PassFields
<1>8. CASE UNCHANGED vars
  BY <1>1, <1>8 DEF vars, core
<1>9. ASSUME NEW c \in Driver, Commanding(c) \/ Waits(c) \/ Ends(c)
      PROVE  UNCHANGED pass
  BY <1>9, Zenon DEF Commanding, Waits, Ends, ChangeWorld, ApplyPerturb, ClearPerturb, Look, Wake,
     CancelWait, TimeOut, NotQuiesced, Abandon, End, core
<1>10. ASSUME NEW c \in Consumer, Hears(c)
       PROVE  UNCHANGED pass
  BY <1>10, Zenon DEF Hears, Report, ReportLands, core
<1> QED
  BY <1>1, <1>2, <1>3, <1>4, <1>5, <1>6, <1>7, <1>8, <1>9, <1>10, NextSteps DEF Passing

(* The world's next event is the first of those that are due.               *)
LEMMA LeastNumber ==
    ASSUME NEW T, T \subseteq Nat, T # {}
    PROVE  \E x \in T : \A y \in T : x <= y
<1> DEFINE R == OpToRel(<, Nat)
<1>1. IsWellFoundedOn(R, Nat)
  BY NatLessThanWellFounded
<1>2. \A x, y \in Nat : y < x => <<y, x>> \in R
  BY DEF OpToRel
<1> HIDE DEF R
<1>3. PICK x \in T : \A y \in T : ~ (<<y, x>> \in R)
  BY <1>1, WFMin
<1>4. ASSUME NEW y \in T
      PROVE  x <= y
  <2>1. x \in Nat /\ y \in Nat
    OBVIOUS
  <2>2. ~ (y < x)
    BY <1>2, <1>3, <2>1
  <2> QED
    BY <2>1, <2>2
<1> QED
  BY <1>4

-----------------------------------------------------------------------------
(* Quiescence.                                                              *)

Places == [do: {"idle", "reporting", "looking", "parked", "late"}, goal: Nat, seen: Nat]

(* A waiter that is asleep saw a channel that has been made: one that has   *)
(* not been closed since is the one the next report to move the mark closes.*)
WakingInv ==
    /\ at \in [Caller -> Places]
    /\ clock \in Nat /\ quiesced \in Nat /\ channel \in Nat
    /\ \A c \in Caller : at[c].do = "parked" => at[c].seen <= channel
    /\ NoLostWakeup

LEMMA WakingInvInit == Init => WakingInv
BY DEF Init, WakingInv, Places, Idle, NoLostWakeup

(* One caller goes somewhere while the reports stand still.                 *)
LEMMA OneCallerGoes ==
    ASSUME NEW c \in Caller, NEW do, NEW until \in Nat, NEW seen \in Nat, WakingInv,
           do \in {"idle", "reporting", "looking", "late"}
             \/ (do = "parked" /\ seen = channel /\ quiesced < until),
           Puts(c, do, until, seen), UNCHANGED <<clock, quiesced, channel>>
    PROVE  WakingInv'
<1>1. at' = [at EXCEPT ![c] = [do |-> do, goal |-> until, seen |-> seen]]
  BY DEF Puts
<1>2. at' \in [Caller -> Places]
  BY <1>1 DEF WakingInv, Places
<1>3. ASSUME NEW d \in Caller, at'[d].do = "parked"
      PROVE  at'[d].seen <= channel /\ (at'[d].seen = channel => quiesced < at'[d].goal)
  <2>1. CASE d = c
    BY <1>1, <1>3, <2>1 DEF WakingInv
  <2>2. CASE d # c
    BY <1>1, <1>3, <2>2 DEF WakingInv, NoLostWakeup
  <2> QED
    BY <2>1, <2>2
<1> QED
  BY <1>2, <1>3 DEF WakingInv, NoLostWakeup

(* A report lands, and wakes whoever sleeps if it moves the mark.           *)
LEMMA LandingWakes ==
    ASSUME NEW c \in Caller, WakingInv, ReportLands(c)
    PROVE  WakingInv'
<1>1. at' = [at EXCEPT ![c] = Idle] /\ UNCHANGED clock
  BY DEF ReportLands, Puts, Idle, core
<1>2. at' \in [Caller -> Places] /\ at[c] \in Places
  BY <1>1 DEF WakingInv, Places, Idle
<1>3. \/ quiesced' = at[c].goal /\ channel' = channel + 1
      \/ UNCHANGED <<quiesced, channel>>
  BY DEF ReportLands
<1>4. quiesced' \in Nat /\ channel' \in Nat
  BY <1>2, <1>3 DEF WakingInv, Places
<1>5. ASSUME NEW d \in Caller, at'[d].do = "parked"
      PROVE  at'[d].seen <= channel' /\ (at'[d].seen = channel' => quiesced' < at'[d].goal)
  <2>1. at'[d] = at[d] /\ at[d] \in Places
    BY <1>1, <1>5 DEF WakingInv, Idle
  <2>2. at[d].seen \in Nat /\ at[d].seen <= channel /\ (at[d].seen = channel => quiesced < at[d].goal)
    BY <1>5, <2>1 DEF WakingInv, NoLostWakeup, Places
  <2> QED
    BY <1>3, <2>1, <2>2 DEF WakingInv
<1> QED
  BY <1>1, <1>2, <1>4, <1>5 DEF WakingInv, NoLostWakeup

LEMMA WakingInvNext == PassInv /\ WakingInv /\ [Next]_vars => WakingInv'
<1> SUFFICES ASSUME PassInv, WakingInv, [Next]_vars
             PROVE  WakingInv'
  OBVIOUS
<1>1. CASE UNCHANGED <<quiesced, channel, at>> /\ clock' \in Nat
  BY <1>1 DEF WakingInv, NoLostWakeup
<1>2. ASSUME NEW c \in Driver, Commanding(c) \/ Ends(c) \/ Starts(c)
      PROVE  UNCHANGED <<quiesced, channel, at, clock>>
  BY <1>2, Zenon DEF Commanding, Ends, Starts, ChangeWorld, ApplyPerturb, ClearPerturb, Advance,
     Abandon, End, core, waiting
<1>3. ASSUME NEW c \in Driver, Waits(c)
      PROVE  WakingInv'
  <2>0. c \in Caller /\ at[c] \in Places /\ at[c].goal \in Nat /\ UNCHANGED <<clock, quiesced, channel>>
    BY <1>3 DEF Caller, WakingInv, Places, Waits, Look, Wake, CancelWait, TimeOut, NotQuiesced, core
  <2>1. CASE Look(c)
    <3>1. CASE quiesced >= at[c].goal
      BY <2>0, <2>1, <3>1, OneCallerGoes DEF Look
    <3>2. CASE ~(quiesced >= at[c].goal)
      <4>1. Puts(c, "parked", at[c].goal, channel) /\ channel \in Nat /\ quiesced < at[c].goal
        BY <2>0, <2>1, <3>2 DEF Look, WakingInv
      <4> QED
        BY <2>0, <4>1, OneCallerGoes
    <3> QED
      BY <3>1, <3>2
  <2>2. CASE Wake(c)
    BY <2>0, <2>2, OneCallerGoes DEF Wake
  <2>3. CASE CancelWait(c) \/ TimeOut(c) \/ NotQuiesced(c)
    BY <2>0, <2>3, OneCallerGoes DEF CancelWait, TimeOut, NotQuiesced
  <2> QED
    BY <1>3, <2>1, <2>2, <2>3 DEF Waits
<1>4. ASSUME NEW c \in Consumer, Hears(c)
      PROVE  WakingInv'
  <2>1. c \in Caller
    BY DEF Caller
  <2>2. ASSUME NEW through \in 1 .. Horizon, Report(c, through)
        PROVE  WakingInv'
    <3>1. Lower(through, clock) \in Nat
      BY RunAssumption DEF Lower, WakingInv
    <3> QED
      BY <2>1, <2>2, <3>1, OneCallerGoes DEF Report, core
  <2> QED
    BY <1>4, <2>1, <2>2, LandingWakes DEF Hears
<1>5. CASE EmitEvent \/ PerturbStep \/ Perturbed \/ Deliver \/ EventDone \/ Boundary
  <2>1. UNCHANGED <<quiesced, channel, at>>
    BY <1>5, Zenon DEF EmitEvent, PerturbStep, Perturbed, Deliver, EventDone, Boundary, waiting
  <2>2. clock' \in Nat
    <3>1. CASE EmitEvent
      <4>1. NextEvents \subseteq Nat /\ NextEvents # {}
        BY <3>1, RunAssumption DEF NextEvents, EmitEvent
      <4>2. clock' \in NextEvents
        BY <3>1, <4>1, LeastNumber DEF EmitEvent
      <4> QED
        BY <4>1, <4>2
    <3>2. CASE Boundary
      BY <3>2 DEF Boundary, PassInv
    <3>3. CASE PerturbStep \/ Perturbed \/ Deliver \/ EventDone
      BY <3>3 DEF PerturbStep, Perturbed, Deliver, EventDone, WakingInv
    <3> QED
      BY <1>5, <3>1, <3>2, <3>3
  <2> QED
    BY <1>1, <2>1, <2>2
<1>6. CASE AdvanceReturns
  <2>1. UNCHANGED <<clock, quiesced, channel>>
    BY <1>6 DEF AdvanceReturns
  <2>2. CASE UNCHANGED at
    BY <1>1, <2>1, <2>2 DEF WakingInv
  <2>3. CASE Puts(pass.by, "looking", pass.to, 0)
    <3>1. CASE pass.by \in Caller
      BY <2>1, <2>3, <3>1, OneCallerGoes DEF PassInv
    <3>2. CASE pass.by \notin Caller
      <4>1. at' = at
        BY <2>3, <3>2 DEF Puts, WakingInv
      <4> QED
        BY <2>2, <4>1
    <3> QED
      BY <3>1, <3>2
  <2> QED
    BY <1>6, <2>2, <2>3 DEF AdvanceReturns
<1>7. CASE UNCHANGED vars
  BY <1>1, <1>7 DEF vars, core, waiting, WakingInv
<1>8. clock \in Nat
  BY DEF WakingInv
<1> QED
  BY <1>1, <1>2, <1>3, <1>4, <1>5, <1>6, <1>7, <1>8, NextSteps DEF Passing

(* A caller asleep on a channel nobody has closed is one the consumer has   *)
(* not reported far enough for, in whatever order the reports land.         *)
THEOREM NobodySleepsThrough == Spec => []NoLostWakeup
<1>1. WakingInv => NoLostWakeup
  BY DEF WakingInv
<1> QED
  BY <1>1, PassInvInit, PassInvNext, WakingInvInit, WakingInvNext, PTL DEF Spec

-----------------------------------------------------------------------------
(* The stamps of the end.                                                   *)

(* Records are anything here: a ledger is a sequence all the same.          *)
IsList(s) == Len(s) \in Nat /\ s = [i \in 1 .. Len(s) |-> s[i]]

LEMMA AppendToList ==
    ASSUME NEW s, NEW e, IsList(s)
    PROVE  /\ IsList(Append(s, e))
           /\ Len(Append(s, e)) = Len(s) + 1
           /\ Append(s, e)[Len(s) + 1] = e
           /\ \A i \in 1 .. Len(s) : Append(s, e)[i] = s[i]
<1> DEFINE S == {s[i] : i \in 1 .. Len(s)} \cup {e}
<1>1. s \in Seq(S) /\ e \in S
  BY DEF IsList
<1> HIDE DEF S
<1>2. /\ Append(s, e) \in Seq(S)
      /\ Len(Append(s, e)) = Len(s) + 1
      /\ Append(s, e)[Len(s) + 1] = e
      /\ \A i \in 1 .. Len(s) : Append(s, e)[i] = s[i]
  BY <1>1
<1>3. \A t \in Seq(S) : IsList(t)
  BY DEF IsList
<1> QED
  BY <1>2, <1>3

Whole == \A i \in 1 .. Len(ledger) : ledger[i].outcome # "sink_error"

StatusType == [failed: BOOLEAN, incomplete: BOOLEAN, reproducible: BOOLEAN, finished: BOOLEAN]

(* A run that has failed is incomplete, one whose delivery failed has       *)
(* failed, and after the end there is no pass that could deliver.           *)
EndInv ==
    /\ IsList(ledger)
    /\ status \in StatusType
    /\ status.failed => status.incomplete
    /\ ~status.incomplete => Whole
    /\ status.finished => Free
    /\ ~status.finished => closed = "open" /\ artifact = "none"
    /\ artifact = "complete" => closed = "complete"
    /\ closed = "complete" => Whole

LEMMA EndInvInit == Init => EndInv
BY DEF Init, EndInv, IsList, Whole, StatusType

LEMMA FailedStatus ==
    ASSUME NEW s \in StatusType, s.failed => s.incomplete
    PROVE  /\ Failed(s) \in StatusType
           /\ Failed(s).failed /\ Failed(s).incomplete
           /\ Failed(s).finished = s.finished
BY DEF Failed, StatusType

(* A step that logs, or marks the run as failed, and delivers nothing.      *)
LEMMA StatusStep ==
    ASSUME EndInv, status' \in {status, Failed(status)}, UNCHANGED <<ledger, closed, artifact>>,
           status.finished => Free'
    PROVE  EndInv'
<1>1. status' \in StatusType /\ (status'.failed => status'.incomplete)
      /\ status'.finished = status.finished /\ (~status'.incomplete => ~status.incomplete)
  BY FailedStatus DEF EndInv
<1> QED
  BY <1>1 DEF EndInv, IsList, Whole

(* A record is delivered by a pass, before the end.                         *)
LEMMA DeliverKeepsEnd == EndInv /\ Deliver => EndInv'
<1> SUFFICES ASSUME EndInv, Deliver
             PROVE  EndInv'
  OBVIOUS
<1>1. ~status.finished /\ UNCHANGED <<closed, artifact>>
  BY DEF Deliver, EndInv, Free
<1>2. PICK row, outcome : /\ ledger' = Append(ledger, row) /\ row.outcome = outcome
                          /\ status' = IF outcome = "sink_error" THEN Failed(status) ELSE status
  BY DEF Deliver, Delivery, Ledgered
<1>3. status' \in StatusType /\ (status'.failed => status'.incomplete) /\ ~status'.finished
  BY <1>1, <1>2, FailedStatus DEF EndInv
<1>4. ~status'.incomplete => Whole /\ outcome # "sink_error"
  BY <1>2, FailedStatus DEF EndInv
<1>5. /\ IsList(ledger') /\ Len(ledger') = Len(ledger) + 1 /\ Len(ledger) \in Nat
      /\ ledger'[Len(ledger) + 1] = row /\ \A i \in 1 .. Len(ledger) : ledger'[i] = ledger[i]
  <2>1. IsList(ledger)
    BY DEF EndInv
  <2> QED
    BY <1>2, <2>1, AppendToList DEF IsList
<1>6. ~status'.incomplete => Whole'
  BY <1>2, <1>4, <1>5 DEF Whole
<1> QED
  BY <1>1, <1>3, <1>5, <1>6 DEF EndInv, IsList

LEMMA EndKeepsEnd ==
    ASSUME EndInv, NEW c \in Driver, NEW framed \in BOOLEAN, NEW sealed \in BOOLEAN,
           NEW published \in BOOLEAN, End(c, framed, sealed, published)
    PROVE  EndInv'
<1> DEFINE framing == IF status.failed \/ framed THEN status ELSE Failed(status)
           closing == IF sealed THEN framing ELSE Failed(framing)
<1>1. framing \in StatusType /\ (framing.failed => framing.incomplete)
      /\ (~framing.incomplete => ~status.incomplete)
  BY FailedStatus DEF EndInv
<1>2. closing \in StatusType /\ (closing.failed => closing.incomplete)
      /\ (~closing.incomplete => ~framing.incomplete)
  BY <1>1, FailedStatus
<1>3. /\ Free /\ status' = [closing EXCEPT !.finished = TRUE]
      /\ closed' = Stamp(framing) /\ artifact' = IF published THEN Stamp(closing) ELSE "none"
      /\ UNCHANGED <<pass, ledger>>
  BY DEF End, core
<1> HIDE DEF framing, closing
<1>4. status' \in StatusType /\ status'.finished /\ status'.failed = closing.failed
      /\ status'.incomplete = closing.incomplete
  BY <1>2, <1>3 DEF StatusType
<1>5. (closed' = "complete" => ~framing.incomplete) /\ (artifact' = "complete" => ~closing.incomplete)
      /\ (~framing.incomplete => closed' = "complete")
  BY <1>3 DEF Stamp
<1>6. ~status.incomplete => Whole
  BY DEF EndInv
<1> QED
  BY <1>1, <1>2, <1>3, <1>4, <1>5, <1>6 DEF EndInv, IsList, Whole, Free

LEMMA EndInvNext == EndInv /\ [Next]_vars => EndInv'
<1> SUFFICES ASSUME EndInv, [Next]_vars
             PROVE  EndInv'
  OBVIOUS
<1>1. ASSUME NEW c \in Driver, Commanding(c)
      PROVE  EndInv'
  <2>1. UNCHANGED <<ledger, closed, artifact, pass>> /\ status' \in {status, Failed(status)} /\ Free
    BY <1>1, Zenon DEF Commanding, Commands, Logs, ChangeWorld, ApplyPerturb, ClearPerturb
  <2> QED
    BY <2>1, StatusStep DEF Free
<1>2. ASSUME NEW c \in Driver, Waits(c)
      PROVE  EndInv'
  <2>1. UNCHANGED <<ledger, closed, artifact, pass>> /\ status' \in {status, Failed(status)}
    BY <1>2, Zenon DEF Waits, Look, Wake, CancelWait, TimeOut, NotQuiesced, core, ending
  <2> QED
    BY <2>1, StatusStep DEF Free, EndInv
<1>3. ASSUME NEW c \in Driver, Starts(c)
      PROVE  EndInv'
  <2>1. UNCHANGED <<ledger, closed, artifact, status>> /\ ~status.finished
    BY <1>3, Zenon DEF Starts, Advance, Commands, ending
  <2> QED
    BY <2>1, StatusStep
<1>4. ASSUME NEW c \in Driver, Abandon(c)
      PROVE  EndInv'
  BY <1>4 DEF Abandon, EndInv, StatusType, IsList, Whole, core
<1>5. ASSUME NEW c \in Driver, Ends(c)
      PROVE  EndInv'
  BY <1>4, <1>5, EndKeepsEnd DEF Ends
<1>6. ASSUME NEW c \in Consumer, Hears(c)
      PROVE  EndInv'
  <2>1. UNCHANGED <<ledger, closed, artifact, pass, status>>
    BY <1>6, Zenon DEF Hears, Report, ReportLands, core, ending
  <2> QED
    BY <2>1, StatusStep DEF Free, EndInv
<1>7. CASE EmitEvent \/ PerturbStep \/ Perturbed \/ EventDone \/ Boundary \/ AdvanceReturns
  <2>1. pass.stage # "none"
    BY <1>7, Zenon DEF EmitEvent, PerturbStep, Perturbed, EventDone, Boundary, AdvanceReturns
  <2>2. ~status.finished
    BY <2>1 DEF EndInv, Free
  <2>3. UNCHANGED <<ledger, closed, artifact>> /\ status' \in {status, Failed(status)}
    BY <1>7, Zenon DEF EmitEvent, PerturbStep, Perturbed, EventDone, Boundary, AdvanceReturns, Logs, ending
  <2> QED
    BY <2>2, <2>3, StatusStep
<1>8. CASE UNCHANGED vars
  BY <1>8, StatusStep DEF vars, core, ending, Free, EndInv
<1> QED
  BY <1>1, <1>2, <1>3, <1>5, <1>6, <1>7, <1>8, DeliverKeepsEnd, NextSteps DEF Passing

(* Neither the artifact nor the journal calls a run complete whose ledger   *)
(* holds a delivery that failed, and no artifact says more than the journal.*)
THEOREM CompleteMeansWhole == Spec => []CompleteIsWhole
<1>1. EndInv => CompleteIsWhole
  <2>1. IsList(ledger) => DOMAIN ledger = 1 .. Len(ledger)
    BY DEF IsList
  <2> QED
    BY <2>1 DEF EndInv, CompleteIsWhole, Whole
<1> QED
  BY <1>1, EndInvInit, EndInvNext, PTL DEF Spec

-----------------------------------------------------------------------------
(* The command log.                                                         *)

(* A replay is what the recursion says: the run after a command is made of  *)
(* the run before it.                                                       *)
Replays(f, l, m) ==
    f = [n \in 0 .. m |-> IF n = 0 THEN Opened ELSE ReplayStep(f[n - 1], l[n])]

LEMMA ReplayOfOneMore ==
    ASSUME NEW l, NEW m \in Nat, NEW f, Replays(f, l, m)
    PROVE  \E g : Replays(g, l, m + 1)
<1> DEFINE g == [n \in 0 .. m + 1 |-> IF n = m + 1 THEN ReplayStep(f[m], l[m + 1]) ELSE f[n]]
<1>1. \A n \in 0 .. m : f[n] = IF n = 0 THEN Opened ELSE ReplayStep(f[n - 1], l[n])
  BY DEF Replays
<1>2. ASSUME NEW n \in 0 .. m + 1
      PROVE  g[n] = IF n = 0 THEN Opened ELSE ReplayStep(g[n - 1], l[n])
  <2>1. CASE n = m + 1
    <3>1. g[n] = ReplayStep(f[m], l[n]) /\ g[n - 1] = f[m] /\ n # 0
      BY <2>1
    <3> QED
      BY <3>1
  <2>2. CASE n \in 1 .. m
    <3>1. g[n] = f[n] /\ g[n - 1] = f[n - 1] /\ n # 0
      BY <2>2
    <3> QED
      BY <1>1, <2>2, <3>1
  <2>3. CASE n = 0
    BY <1>1, <2>3
  <2> QED
    BY <2>1, <2>2, <2>3
<1> DEFINE h == [n \in 0 .. m + 1 |-> IF n = 0 THEN Opened ELSE ReplayStep(g[n - 1], l[n])]
<1>3. g = h
  <2>1. \A n \in 0 .. m + 1 : g[n] = h[n]
    BY <1>2
  <2> QED
    BY <2>1, Zenon
<1> QED
  BY <1>3 DEF Replays

LEMMA ReplayExists ==
    ASSUME NEW l, NEW m \in Nat
    PROVE  \E f : Replays(f, l, m)
<1> DEFINE T == {n \in Nat : ~ \E f : Replays(f, l, n)}
<1> SUFFICES ASSUME T # {}
             PROVE  FALSE
  OBVIOUS
<1>1. PICK n \in T : \A k \in T : n <= k
  BY LeastNumber
<1>2. n # 0
  <2> DEFINE f == [k \in 0 .. 0 |-> Opened]
  <2>1. \A k \in 0 .. 0 : k = 0
    OBVIOUS
  <2>2. f = [k \in 0 .. 0 |-> IF k = 0 THEN Opened ELSE ReplayStep(f[k - 1], l[k])]
    BY <2>1
  <2>3. Replays(f, l, 0)
    BY <2>2 DEF Replays
  <2> QED
    BY <1>1, <2>3
<1>3. n - 1 \in Nat /\ (n - 1) \notin T /\ (n - 1) + 1 = n
  BY <1>1, <1>2
<1>4. PICK f : Replays(f, l, n - 1)
  BY <1>3
<1> QED
  BY <1>1, <1>3, <1>4, ReplayOfOneMore

LEMMA ReplaysAgree ==
    ASSUME NEW l, NEW k, NEW m \in Nat, \A i \in 1 .. m : l[i] = k[i],
           NEW f, NEW g, Replays(f, l, m), Replays(g, k, m + 1)
    PROVE  f[m] = g[m]
<1> DEFINE T == {n \in 0 .. m : f[n] # g[n]}
<1>1. \A n \in 0 .. m : f[n] = IF n = 0 THEN Opened ELSE ReplayStep(f[n - 1], l[n])
  BY DEF Replays
<1>2. \A n \in 0 .. m + 1 : g[n] = IF n = 0 THEN Opened ELSE ReplayStep(g[n - 1], k[n])
  BY DEF Replays
<1>3. ASSUME T # {}
      PROVE  FALSE
  <2>0. T \subseteq Nat
    OBVIOUS
  <2>1. PICK n \in T : \A j \in T : n <= j
    <3> HIDE DEF T
    <3> QED
      BY <1>3, <2>0, LeastNumber
  <2>2. n # 0
    BY <1>1, <1>2, <2>1
  <2>3. n - 1 \in 0 .. m /\ (n - 1) \notin T /\ l[n] = k[n]
    BY <2>1, <2>2
  <2>4. f[n] = ReplayStep(f[n - 1], l[n]) /\ g[n] = ReplayStep(g[n - 1], k[n])
    BY <1>1, <1>2, <2>1, <2>2
  <2> QED
    BY <2>1, <2>3, <2>4
<1> QED
  BY <1>3

LEMMA ReplayIs ==
    ASSUME NEW l, Len(l) \in Nat
    PROVE  \E f : Replays(f, l, Len(l)) /\ Replay(l) = f[Len(l)]
<1> DEFINE run == CHOOSE f : Replays(f, l, Len(l))
<1>1. Replays(run, l, Len(l))
  BY ReplayExists
<1>2. Replay(l) = run[Len(l)]
  BY DEF Replay, Replays
<1> QED
  BY <1>1, <1>2

(* One more command in the log is one more step of its replay.              *)
LEMMA ReplayOfAppend ==
    ASSUME NEW l, NEW e, IsList(l)
    PROVE  Replay(Append(l, e)) = ReplayStep(Replay(l), e)
<1> DEFINE k == Append(l, e)
           m == Len(l)
<1>1. m \in Nat /\ Len(k) = m + 1 /\ k[m + 1] = e /\ \A i \in 1 .. m : l[i] = k[i]
  BY AppendToList DEF IsList
<1> HIDE DEF k
<1>2. PICK f : Replays(f, l, m) /\ Replay(l) = f[m]
  BY <1>1, ReplayIs
<1>3. PICK g : Replays(g, k, m + 1) /\ Replay(k) = g[m + 1]
  <2>1. Len(k) \in Nat
    BY <1>1
  <2> QED
    BY <1>1, <2>1, ReplayIs
<1>4. f[m] = g[m]
  <2> HIDE DEF m
  <2>1. m \in Nat /\ Replays(f, l, m) /\ Replays(g, k, m + 1) /\ \A i \in 1 .. m : l[i] = k[i]
    BY <1>1, <1>2, <1>3
  <2> QED
    BY <2>1, ReplaysAgree
<1>5. g[m + 1] = ReplayStep(g[m], k[m + 1])
  <2>1. m + 1 \in 0 .. m + 1 /\ m + 1 # 0 /\ (m + 1) - 1 = m
    BY <1>1
  <2> QED
    BY <1>3, <2>1 DEF Replays
<1> QED
  BY <1>1, <1>2, <1>3, <1>4, <1>5 DEF k

LEMMA ReplayOfNothing == Replay(<<>>) = Opened
<1>1. PICK f : Replays(f, <<>>, 0) /\ Replay(<<>>) = f[0]
  BY ReplayIs
<1> QED
  BY <1>1 DEF Replays

(* A layer of a run and the layer of its replay, that never delivered a     *)
(* record, have the same applications in the same order.                    *)
LayerFields == {"active", "seq", "next", "pending"}
ApplicationFields == {"id", "kind", "from", "until", "width", "held"}

Shaped(a) == a = [f \in ApplicationFields |-> a[f]]

IsLayer(y) ==
    /\ y = [f \in LayerFields |-> y[f]]
    /\ IsList(y.active)
    /\ \A i \in 1 .. Len(y.active) : Shaped(y.active[i])

Alike(a, b) == a.id = b.id /\ a.kind = b.kind /\ a.from = b.from /\ a.until = b.until

Twins(y, z) ==
    /\ IsLayer(y) /\ IsLayer(z)
    /\ y.seq = z.seq
    /\ Len(y.active) = Len(z.active)
    /\ \A i \in 1 .. Len(y.active) : Alike(y.active[i], z.active[i])

LEMMA TwinsApply ==
    ASSUME NEW y, NEW z, NEW p, Twins(y, z)
    PROVE  Twins(Applied(y, p), Applied(z, p))
<1> DEFINE a == Application(y.seq, p)
           s == Append(y.active, a)
           t == Append(z.active, a)
           m == Len(y.active)
<1>1. /\ Applied(y, p) = [y EXCEPT !.active = s, !.seq = y.seq + 1]
      /\ Applied(z, p) = [z EXCEPT !.active = t, !.seq = y.seq + 1]
  BY DEF Applied, Twins
<1>2. Shaped(a)
  BY DEF Application, Shaped, ApplicationFields
<1>3. m \in Nat /\ IsList(s) /\ Len(s) = m + 1 /\ s[m + 1] = a /\ \A i \in 1 .. m : s[i] = y.active[i]
  BY AppendToList DEF Twins, IsLayer, IsList
<1>4. IsList(t) /\ Len(t) = m + 1 /\ t[m + 1] = a /\ \A i \in 1 .. m : t[i] = z.active[i]
  BY AppendToList DEF Twins, IsLayer
<1> HIDE DEF a, s, t
<1>5. \A i \in 1 .. m + 1 : Shaped(s[i]) /\ Shaped(t[i]) /\ Alike(s[i], t[i])
  <2> TAKE i \in 1 .. m + 1
  <2>1. CASE i = m + 1
    BY <1>2, <1>3, <1>4, <2>1 DEF Alike
  <2>2. CASE i \in 1 .. m
    BY <1>3, <1>4, <2>2 DEF Twins, IsLayer
  <2> QED
    BY <1>3, <2>1, <2>2
<1>6. /\ Applied(y, p).active = s /\ Applied(z, p).active = t
      /\ Applied(y, p).seq = Applied(z, p).seq
      /\ Applied(y, p) = [f \in LayerFields |-> Applied(y, p)[f]]
      /\ Applied(z, p) = [f \in LayerFields |-> Applied(z, p)[f]]
  BY <1>1 DEF Twins, IsLayer, LayerFields
<1> HIDE DEF m
<1> QED
  BY <1>3, <1>4, <1>5, <1>6 DEF Twins, IsLayer

LEMMA ListsJoined ==
    ASSUME NEW S, NEW s \in Seq(S), NEW t \in Seq(S)
    PROVE  /\ s \o t \in Seq(S) /\ Len(s \o t) = Len(s) + Len(t)
           /\ \A j \in 1 .. Len(s) + Len(t) : (s \o t)[j] = IF j <= Len(s) THEN s[j] ELSE t[j - Len(s)]
OBVIOUS

(* What is left of a list without its i-th element.                         *)
LEMMA RemovedFromList ==
    ASSUME NEW s, IsList(s), NEW i \in 1 .. Len(s)
    PROVE  /\ IsList(RemoveAt(s, i))
           /\ Len(RemoveAt(s, i)) = Len(s) - 1
           /\ \A j \in 1 .. Len(s) - 1 : RemoveAt(s, i)[j] = s[IF j < i THEN j ELSE j + 1]
<1> DEFINE S == {s[j] : j \in 1 .. Len(s)}
<1>1. s \in Seq(S) /\ Len(s) \in Nat
  BY DEF IsList
<1> HIDE DEF S
<1> DEFINE head == SubSeq(s, 1, i - 1)
           tail == SubSeq(s, i + 1, Len(s))
<1>2. /\ head \in Seq(S) /\ Len(head) = i - 1
      /\ \A j \in 1 .. i - 1 : head[j] = s[j]
  BY <1>1
<1>3. /\ tail \in Seq(S) /\ Len(tail) = Len(s) - i
      /\ \A j \in 1 .. Len(s) - i : tail[j] = s[i + j]
  BY <1>1
<1> HIDE DEF head, tail
<1>4. /\ head \o tail \in Seq(S) /\ Len(head \o tail) = Len(s) - 1
      /\ \A j \in 1 .. Len(s) - 1 : (head \o tail)[j] = IF j < i THEN head[j] ELSE tail[j - (i - 1)]
  <2>1. /\ head \o tail \in Seq(S) /\ Len(head \o tail) = Len(head) + Len(tail)
        /\ \A j \in 1 .. Len(head) + Len(tail) :
             (head \o tail)[j] = IF j <= Len(head) THEN head[j] ELSE tail[j - Len(head)]
    BY <1>2, <1>3, ListsJoined
  <2>2. Len(head) + Len(tail) = Len(s) - 1
    BY <1>1, <1>2, <1>3
  <2>3. ASSUME NEW j \in 1 .. Len(s) - 1
        PROVE  (head \o tail)[j] = IF j < i THEN head[j] ELSE tail[j - (i - 1)]
    <3>1. j \in 1 .. Len(head) + Len(tail) /\ (j < i <=> j <= Len(head))
      BY <1>1, <1>2, <1>3
    <3> QED
      BY <1>2, <2>1, <3>1
  <2> QED
    BY <2>1, <2>2, <2>3
<1>5. \A j \in 1 .. Len(s) - 1 : (head \o tail)[j] = s[IF j < i THEN j ELSE j + 1]
  <2> TAKE j \in 1 .. Len(s) - 1
  <2>1. CASE j < i
    BY <1>1, <1>2, <1>4, <2>1
  <2>2. CASE ~ (j < i)
    <3>1. j - (i - 1) \in 1 .. Len(s) - i /\ i + (j - (i - 1)) = j + 1
      BY <1>1, <2>2
    <3> QED
      BY <1>3, <1>4, <2>2, <3>1
  <2> QED
    BY <2>1, <2>2
<1>6. RemoveAt(s, i) = head \o tail
  BY DEF RemoveAt, head, tail
<1>7. \A t \in Seq(S) : IsList(t)
  BY DEF IsList
<1> QED
  BY <1>4, <1>5, <1>6, <1>7

LEMMA TwinsClear ==
    ASSUME NEW y, NEW z, NEW id, Twins(y, z), Known(y, id)
    PROVE  Twins(Cleared(y, id), Cleared(z, id))
<1> DEFINE i == Place(Ids(y.active), id)
           s == RemoveAt(y.active, i)
           t == RemoveAt(z.active, i)
           m == Len(y.active)
<1>0. /\ m \in Nat /\ DOMAIN y.active = 1 .. m /\ DOMAIN z.active = 1 .. m
      /\ IsList(y.active) /\ IsList(z.active) /\ Len(z.active) = m
  BY DEF Twins, IsLayer, IsList
<1>1. Ids(y.active) = Ids(z.active)
  BY <1>0 DEF Ids, Twins, Alike
<1>2. i \in 1 .. m
  <2>1. PICK j \in DOMAIN y.active : y.active[j].id = id
    BY DEF Known
  <2>2. j \in DOMAIN Ids(y.active) /\ Ids(y.active)[j] = id /\ DOMAIN Ids(y.active) = 1 .. m
    BY <1>0, <2>1 DEF Ids
  <2> QED
    BY <2>2 DEF Place
<1>3. /\ IsList(s) /\ Len(s) = m - 1
      /\ \A j \in 1 .. m - 1 : s[j] = y.active[IF j < i THEN j ELSE j + 1]
  <2> HIDE DEF i
  <2> QED
    BY <1>0, <1>2, RemovedFromList
<1>4. /\ IsList(t) /\ Len(t) = m - 1
      /\ \A j \in 1 .. m - 1 : t[j] = z.active[IF j < i THEN j ELSE j + 1]
  <2> HIDE DEF i
  <2> QED
    BY <1>0, <1>2, RemovedFromList
<1>5. /\ Cleared(y, id) = [y EXCEPT !.active = s, !.pending = y.pending \o Discarded(HeldBy(y, id))]
      /\ Cleared(z, id) = [z EXCEPT !.active = t, !.pending = z.pending \o Discarded(HeldBy(z, id))]
  BY <1>1 DEF Cleared, Kept
<1> HIDE DEF i, s, t
<1>6. \A j \in 1 .. m - 1 : Shaped(s[j]) /\ Shaped(t[j]) /\ Alike(s[j], t[j])
  <2> TAKE j \in 1 .. m - 1
  <2>1. PICK n \in 1 .. m : s[j] = y.active[n] /\ t[j] = z.active[n]
    BY <1>0, <1>2, <1>3, <1>4
  <2> QED
    BY <1>0, <2>1 DEF Twins, IsLayer
<1>7. /\ Cleared(y, id).active = s /\ Cleared(z, id).active = t
      /\ Cleared(y, id).seq = y.seq /\ Cleared(z, id).seq = z.seq
      /\ Cleared(y, id) = [f \in LayerFields |-> Cleared(y, id)[f]]
      /\ Cleared(z, id) = [f \in LayerFields |-> Cleared(z, id)[f]]
  BY <1>5 DEF Twins, IsLayer, LayerFields
<1> HIDE DEF m
<1> QED
  BY <1>3, <1>4, <1>6, <1>7 DEF Twins, IsLayer

LEMMA TwinsKnow ==
    ASSUME NEW y, NEW z, NEW id, Twins(y, z), Known(z, id)
    PROVE  Known(y, id)
BY DEF Known, Twins, Alike, IsLayer, IsList

(* What a pass does to the layer leaves it a twin: numbers are given out    *)
(* and records are held or let go.                                          *)
LEMMA TwinsNumber ==
    ASSUME NEW y, NEW z, NEW n, Twins(y, z)
    PROVE  Twins(y, [z EXCEPT !.next = n])
BY DEF Twins, IsLayer, LayerFields

LEMMA TwinsHold ==
    ASSUME NEW y, NEW z, NEW i, NEW held, Twins(y, z)
    PROVE  Twins(y, [z EXCEPT !.active[i].held = held])
<1> DEFINE s == [z.active EXCEPT ![i].held = held]
           x == [z EXCEPT !.active[i].held = held]
           m == Len(z.active)
<1>1. m \in Nat /\ z.active = [j \in 1 .. m |-> z.active[j]] /\ m = Len(y.active)
  BY DEF Twins, IsLayer, IsList
<1>2. s = [j \in 1 .. m |-> s[j]] /\ DOMAIN s = 1 .. m
  BY <1>1
<1>3. Len(s) = m /\ IsList(s)
  <2> HIDE DEF s, m
  <2>1. s \in Seq({s[j] : j \in 1 .. m})
    BY <1>1, <1>2
  <2>2. Len(s) = m
    BY <1>1, <1>2, <2>1
  <2> QED
    BY <1>1, <1>2, <2>2 DEF IsList
<1>4. ASSUME NEW j \in 1 .. m
      PROVE  Shaped(s[j]) /\ Alike(y.active[j], s[j])
  <2>1. Shaped(z.active[j]) /\ Alike(y.active[j], z.active[j])
    BY <1>1 DEF Twins, IsLayer
  <2>2. CASE j = i
    <3>1. s[j] = [z.active[j] EXCEPT !.held = held]
      BY <1>1, <2>2
    <3> HIDE DEF s
    <3> QED
      BY <2>1, <3>1 DEF Shaped, ApplicationFields, Alike
  <2>3. CASE j # i
    <3>1. s[j] = z.active[j]
      BY <1>1, <2>3
    <3> QED
      BY <2>1, <3>1
  <2> QED
    BY <2>2, <2>3
<1>5. x.active = s /\ x.seq = z.seq /\ x = [f \in LayerFields |-> x[f]]
  BY DEF Twins, IsLayer, LayerFields
<1> HIDE DEF s, x, m
<1> QED
  <2> HIDE DEF Twins
  <2> SUFFICES Twins(y, x)
    BY DEF x
  <2> QED
    BY <1>1, <1>3, <1>4, <1>5 DEF Twins, IsLayer, m

LEMMA TwinsTransform ==
    ASSUME NEW y, NEW z, NEW i, NEW records, NEW t, NEW hit, Twins(y, z)
    PROVE  Twins(y, Transformed(z, i, records, t, hit).layer)
<1>1. PICK way : Transformed(z, i, records, t, hit).layer
                   = [z EXCEPT !.active[i].held = way.held, !.next = way.next]
  BY DEF Transformed
<1> DEFINE x == [z EXCEPT !.active[i].held = way.held]
<1>2. [z EXCEPT !.active[i].held = way.held, !.next = way.next] = [x EXCEPT !.next = way.next]
  BY DEF Twins, IsLayer
<1> HIDE DEF x
<1>3. Twins(y, x)
  BY TwinsHold DEF x
<1> QED
  BY <1>1, <1>2, <1>3, TwinsNumber

LEMMA TwinsEmpty ==
    ASSUME NEW y, NEW z, NEW t, Twins(y, z)
    PROVE  Twins(y, Emptied(z, t))
<1> DEFINE s == [i \in DOMAIN z.active |->
                   IF GivesBack(z.active[i], t) THEN [z.active[i] EXCEPT !.held = <<>>] ELSE z.active[i]]
           x == [z EXCEPT !.pending = <<>>, !.active = s]
           m == Len(z.active)
<1>1. m \in Nat /\ DOMAIN z.active = 1 .. m /\ m = Len(y.active)
  BY DEF Twins, IsLayer, IsList
<1>2. s = [j \in 1 .. m |-> s[j]] /\ DOMAIN s = 1 .. m
  BY <1>1
<1>3. Len(s) = m /\ IsList(s)
  <2> HIDE DEF s, m
  <2>1. s \in Seq({s[j] : j \in 1 .. m})
    BY <1>1, <1>2
  <2>2. Len(s) = m
    BY <1>1, <1>2, <2>1
  <2> QED
    BY <1>1, <1>2, <2>2 DEF IsList
<1>4. ASSUME NEW j \in 1 .. m
      PROVE  Shaped(s[j]) /\ Alike(y.active[j], s[j])
  <2>1. Shaped(z.active[j]) /\ Alike(y.active[j], z.active[j])
    BY <1>1 DEF Twins, IsLayer
  <2>2. s[j] \in {z.active[j], [z.active[j] EXCEPT !.held = <<>>]}
    BY <1>1
  <2> HIDE DEF s
  <2> QED
    BY <2>1, <2>2 DEF Shaped, ApplicationFields, Alike
<1>5. x.active = s /\ x.seq = z.seq /\ x = [f \in LayerFields |-> x[f]]
  BY DEF Twins, IsLayer, LayerFields
<1>6. Emptied(z, t) = x
  BY DEF Emptied
<1> HIDE DEF s, x, m
<1> QED
  BY <1>1, <1>3, <1>4, <1>5, <1>6 DEF Twins, IsLayer, m

(* The log of a run that counts as reproducible replays to what the run is, *)
(* the clock apart while a pass holds it; what has failed does not count.   *)
RunFields == {"clock", "changes", "layer"}

Explains(run, done, y) ==
    /\ run = [f \in RunFields |-> run[f]]
    /\ IsList(run.changes) /\ run.changes = done
    /\ Twins(run.layer, y)

ExplainInv ==
    /\ status.failed => ~status.reproducible
    /\ pass.stage = "boundary" => clock = pass.to
    /\ IsList(log)
    /\ status.reproducible => Explains(Replayed, changes, layer) /\ (Free => Replayed.clock = clock)

LEMMA EmptyIsList == IsList(<<>>)
BY DEF IsList

LEMMA ExplainInvInit == Init => ExplainInv
<1> SUFFICES ASSUME Init
             PROVE  ExplainInv
  OBVIOUS
<1>1. Replayed = Opened /\ log = <<>> /\ changes = <<>> /\ layer = EmptyLayer /\ clock = 0
  BY ReplayOfNothing DEF Init, Replayed
<1>2. Twins(EmptyLayer, EmptyLayer)
  BY EmptyIsList DEF Twins, IsLayer, EmptyLayer, LayerFields
<1>3. Explains(Replayed, changes, layer)
  BY <1>1, <1>2, EmptyIsList DEF Explains, Opened, RunFields
<1>4. status.failed = FALSE /\ pass.stage = "none"
  BY DEF Init, NoPass
<1> QED
  BY <1>1, <1>3, <1>4, EmptyIsList DEF ExplainInv, Opened

(* What may become of the status.                                           *)
Worse(s, t) == (t.reproducible => s.reproducible) /\ (t.failed => ~t.reproducible)

LEMMA FailedIsWorse ==
    ASSUME NEW s \in StatusType, s.failed => ~s.reproducible
    PROVE  Worse(s, s) /\ Worse(s, Failed(s)) /\ Failed(s) \in StatusType
BY DEF Worse, Failed, StatusType

(* A step that changes neither the log nor the world, and keeps the clock   *)
(* unless a pass holds it.                                                  *)
LEMMA NothingLogged ==
    ASSUME ExplainInv, Worse(status, status'), UNCHANGED <<log, changes>>,
           \A y : Twins(y, layer) => Twins(y, layer'),
           Free' => Free /\ clock' = clock,
           pass'.stage = "boundary" => clock' = pass'.to
    PROVE  ExplainInv'
<1>1. Replayed' = Replayed
  BY DEF Replayed
<1> QED
  BY <1>1 DEF ExplainInv, Explains, Worse

(* A command is logged, and leaves the run where its replay leaves one.     *)
LEMMA OneMoreLogged ==
    ASSUME ExplainInv, NEW e, log' = Append(log, e), Worse(status, status'), pass'.stage # "boundary",
           Explains(Replayed, changes, layer) /\ (Free => Replayed.clock = clock)
             => Explains(ReplayStep(Replayed, e), changes', layer') /\ ReplayStep(Replayed, e).clock = clock'
    PROVE  ExplainInv'
<1>1. Replayed' = ReplayStep(Replayed, e)
  BY ReplayOfAppend DEF Replayed, ExplainInv
<1>2. IsList(log')
  BY AppendToList DEF ExplainInv
<1> QED
  BY <1>1, <1>2 DEF ExplainInv, Worse

LEMMA CommandLogged ==
    ASSUME ExplainInv, EndInv, PassInv, NEW c, Commanding(c)
    PROVE  ExplainInv'
<1>1. Free /\ UNCHANGED <<pass, clock>> /\ status' \in {status, Failed(status)}
  BY Zenon DEF Commanding, Commands, Logs, ChangeWorld, ApplyPerturb, ClearPerturb
<1>2. Worse(status, status') /\ pass'.stage # "boundary"
  BY <1>1, FailedIsWorse DEF ExplainInv, EndInv, Free
<1>3. CASE ChangeWorld(c)
  <2> DEFINE e == [op |-> "change"]
             run == Replayed
  <2>1. log' = Append(log, e) /\ changes' = Append(changes, clock) /\ UNCHANGED layer
    BY <1>3 DEF ChangeWorld, Logs
  <2>2. ReplayStep(run, e) = [run EXCEPT !.changes = Append(run.changes, run.clock)]
    BY DEF ReplayStep
  <2> HIDE DEF e, run
  <2>3. Explains(run, changes, layer) /\ run.clock = clock
          => Explains(ReplayStep(run, e), changes', layer') /\ ReplayStep(run, e).clock = clock'
    <3> DEFINE more == Append(run.changes, run.clock)
    <3>1. Explains(run, changes, layer) => IsList(more)
      BY AppendToList DEF Explains
    <3>2. run.changes = changes /\ run.clock = clock => more = changes'
      BY <2>1
    <3> HIDE DEF more
    <3>3. ReplayStep(run, e) = [run EXCEPT !.changes = more]
      BY <2>2 DEF more
    <3> QED
      BY <1>1, <2>1, <3>1, <3>2, <3>3 DEF Explains, RunFields
  <2> QED
    BY <1>1, <1>2, <2>1, <2>3, OneMoreLogged DEF run
<1>4. ASSUME NEW p \in Offers, ApplyPerturb(c, p)
      PROVE  ExplainInv'
  <2> DEFINE e == [op |-> "apply", choice |-> p]
             run == Replayed
  <2>1. log' = Append(log, e) /\ layer' = Applied(layer, p) /\ UNCHANGED changes
    BY <1>4 DEF ApplyPerturb, Logs
  <2>2. ReplayStep(run, e) = [run EXCEPT !.layer = Applied(run.layer, p)]
    BY DEF ReplayStep
  <2> HIDE DEF e, run
  <2>3. Explains(run, changes, layer) /\ run.clock = clock
          => Explains(ReplayStep(run, e), changes', layer') /\ ReplayStep(run, e).clock = clock'
    BY <1>1, <2>1, <2>2, TwinsApply DEF Explains, RunFields
  <2> QED
    BY <1>1, <1>2, <2>1, <2>3, OneMoreLogged DEF run
<1>5. ASSUME NEW i \in DOMAIN layer.active, ClearPerturb(c, layer.active[i].id)
      PROVE  ExplainInv'
  <2> DEFINE id == layer.active[i].id
             e == [op |-> "clear", id |-> id]
             run == Replayed
  <2>1. log' = Append(log, e) /\ layer' = Cleared(layer, id) /\ UNCHANGED changes
    BY <1>5 DEF ClearPerturb, Logs
  <2>2. ReplayStep(run, e) = [run EXCEPT !.layer = Cleared(run.layer, id)]
    BY DEF ReplayStep
  <2>3. Known(layer, id)
    BY DEF Known
  <2> HIDE DEF e, run, id
  <2>4. Explains(run, changes, layer) /\ run.clock = clock
          => Explains(ReplayStep(run, e), changes', layer') /\ ReplayStep(run, e).clock = clock'
    <3> SUFFICES ASSUME Explains(run, changes, layer), run.clock = clock
                 PROVE  Explains(ReplayStep(run, e), changes', layer') /\ ReplayStep(run, e).clock = clock'
      OBVIOUS
    <3>1. Known(run.layer, id)
      BY <2>3, TwinsKnow DEF Explains
    <3>2. Twins(Cleared(run.layer, id), Cleared(layer, id))
      BY <3>1, TwinsClear DEF Explains
    <3> QED
      BY <1>1, <2>1, <2>2, <3>2 DEF Explains, RunFields
  <2> QED
    BY <1>1, <1>2, <2>1, <2>4, OneMoreLogged DEF run
<1> QED
  BY <1>3, <1>4, <1>5 DEF Commanding

(* An advance that returns is logged with the time it brought the run to;   *)
(* one that failed is not, and the run counts as reproducible no more.      *)
LEMMA AdvanceLogged ==
    ASSUME ExplainInv, EndInv, PassInv, AdvanceReturns
    PROVE  ExplainInv'
<1>1. /\ pass.stage = "boundary" /\ pass' = NoPass /\ UNCHANGED <<changes, layer, clock>>
      /\ pass.stage # "none" /\ pass'.stage # "boundary" /\ clock = pass.to
  BY DEF AdvanceReturns, NoPass, ExplainInv
<1>2. CASE status.failed
  <2>1. UNCHANGED <<log, status>> /\ ~status.reproducible
    BY <1>2 DEF AdvanceReturns, ExplainInv
  <2> QED
    BY <1>1, <2>1 DEF ExplainInv
<1>3. CASE ~status.failed
  <2> DEFINE e == [op |-> "advance", to |-> pass.to]
             run == Replayed
  <2>1. log' = Append(log, e) /\ status' \in {status, Failed(status)}
    BY <1>3, Zenon DEF AdvanceReturns, Logs
  <2>2. Worse(status, status')
    BY <2>1, FailedIsWorse DEF ExplainInv, EndInv
  <2>3. ReplayStep(run, e) = [run EXCEPT !.clock = pass.to]
    BY DEF ReplayStep
  <2> HIDE DEF e, run
  <2>4. Explains(run, changes, layer)
          => Explains(ReplayStep(run, e), changes', layer') /\ ReplayStep(run, e).clock = clock'
    BY <1>1, <2>3 DEF Explains, RunFields
  <2> QED
    BY <1>1, <2>1, <2>2, <2>4, OneMoreLogged DEF run
<1> QED
  BY <1>2, <1>3

(* A pass on its way moves the clock and the layer, and says nothing yet.   *)
LEMMA PassExplains ==
    ASSUME ExplainInv, EndInv, PassInv,
           EmitEvent \/ PerturbStep \/ Perturbed \/ Deliver \/ EventDone \/ Boundary
    PROVE  ExplainInv'
<1>1. UNCHANGED <<log, changes>> /\ status' \in {status, Failed(status)}
  BY Zenon DEF EmitEvent, PerturbStep, Perturbed, Deliver, EventDone, Boundary, Delivery, Ledgered, ending
<1>2. Worse(status, status')
  BY <1>1, FailedIsWorse DEF ExplainInv, EndInv
<1>3. ASSUME EmitEvent \/ Perturbed \/ EventDone \/ Deliver
      PROVE  \A y : Twins(y, layer) => Twins(y, layer')
  <2>1. layer' = layer \/ layer' = [layer EXCEPT !.next = layer.next + 1]
    BY <1>3 DEF EmitEvent, Perturbed, EventDone, Deliver
  <2> QED
    BY <2>1, TwinsNumber
<1>4. CASE EmitEvent
  <2>1. PICK t, records : pass' = [pass EXCEPT !.stage = "perturb", !.at = t, !.step = 1, !.records = records]
    BY <1>4 DEF EmitEvent
  <2>2. pass'.stage = "perturb"
    BY <2>1 DEF PassInv, PassFields
  <2> QED
    BY <1>1, <1>2, <1>3, <1>4, <2>2, NothingLogged DEF Free
<1>5. CASE PerturbStep
  <2>1. pass.stage = "perturb" /\ UNCHANGED clock
    BY <1>5 DEF PerturbStep
  <2>2. CASE Covers(layer.active[pass.step], pass.at)
    <3>1. PICK hit \in SUBSET DOMAIN pass.records :
            /\ layer' = Transformed(layer, pass.step, pass.records, pass.at, hit).layer
            /\ pass' = [pass EXCEPT !.step = pass.step + 1,
                                    !.records = Transformed(layer, pass.step, pass.records, pass.at, hit).out]
      BY <1>5, <2>2, Zenon DEF PerturbStep
    <3>2. \A y : Twins(y, layer) => Twins(y, layer')
      BY <3>1, TwinsTransform
    <3> DEFINE out == Transformed(layer, pass.step, pass.records, pass.at, hit).out
    <3> HIDE DEF out
    <3>3. pass'.stage = pass.stage
      BY <3>1 DEF out, PassInv, PassFields
    <3> QED
      BY <1>1, <1>2, <2>1, <3>2, <3>3, NothingLogged DEF Free
  <2>3. CASE ~ Covers(layer.active[pass.step], pass.at)
    <3>1. layer' = layer /\ pass'.stage = pass.stage
      BY <1>5, <2>3 DEF PerturbStep, PassInv, PassFields
    <3> QED
      BY <1>1, <1>2, <2>1, <3>1, NothingLogged DEF Free
  <2> QED
    BY <2>2, <2>3
<1>6. CASE Perturbed \/ EventDone
  <2>1. pass'.stage \in {"deliver", "world"}
    BY <1>6 DEF Perturbed, EventDone, PassInv, PassFields
  <2> QED
    BY <1>1, <1>2, <1>3, <1>6, <2>1, NothingLogged DEF Free
<1>7. CASE Deliver
  <2>1. /\ pass.stage \in {"deliver", "boundary"} /\ UNCHANGED clock
        /\ pass' = [pass EXCEPT !.records = Tail(pass.records)]
    BY <1>7 DEF Deliver
  <2>2. pass'.stage = pass.stage /\ pass'.to = pass.to
    BY <2>1 DEF PassInv, PassFields
  <2>3. pass'.stage = "boundary" => clock' = pass'.to
    BY <2>1, <2>2 DEF ExplainInv
  <2> QED
    BY <1>1, <1>2, <1>3, <1>7, <2>1, <2>2, <2>3, NothingLogged DEF Free
<1>8. CASE Boundary
  <2> DEFINE out == Released(layer, pass.to)
  <2>1. clock' = pass.to /\ layer' = Emptied(layer, pass.to)
        /\ pass' = [pass EXCEPT !.stage = "boundary", !.records = out]
    BY <1>8 DEF Boundary
  <2> HIDE DEF out
  <2>2. pass'.stage = "boundary" /\ pass'.to = pass.to
    BY <2>1 DEF PassInv, PassFields
  <2>3. \A y : Twins(y, layer) => Twins(y, layer')
    BY <2>1, TwinsEmpty
  <2> QED
    BY <1>1, <1>2, <2>1, <2>2, <2>3, NothingLogged DEF Free
<1> QED
  BY <1>4, <1>5, <1>6, <1>7, <1>8

LEMMA EndExplains ==
    ASSUME ExplainInv, EndInv, NEW c, Ends(c)
    PROVE  ExplainInv'
<1>1. UNCHANGED <<log, changes, layer, pass, clock>>
  BY Zenon DEF Ends, Abandon, End, core
<1>2. Worse(status, status')
  <2>1. CASE Abandon(c)
    BY <2>1 DEF Abandon, Worse, EndInv, StatusType
  <2>2. ASSUME NEW framed \in BOOLEAN, NEW sealed \in BOOLEAN, NEW published \in BOOLEAN,
               End(c, framed, sealed, published)
        PROVE  Worse(status, status')
    <3> DEFINE framing == IF status.failed \/ framed THEN status ELSE Failed(status)
               closing == IF sealed THEN framing ELSE Failed(framing)
    <3>1. status' = [closing EXCEPT !.finished = TRUE]
      BY <2>2 DEF End
    <3>2. Worse(status, framing) /\ framing \in StatusType
      BY FailedIsWorse DEF ExplainInv, EndInv
    <3>3. Worse(framing, closing) /\ closing \in StatusType
      <4> HIDE DEF framing
      <4> QED
        BY <3>2, FailedIsWorse DEF Worse
    <3> HIDE DEF framing, closing
    <3> QED
      BY <3>1, <3>2, <3>3 DEF Worse, StatusType
  <2> QED
    BY <2>1, <2>2 DEF Ends
<1> QED
  BY <1>1, <1>2, NothingLogged DEF Free, ExplainInv

LEMMA ExplainInvNext == PassInv /\ EndInv /\ ExplainInv /\ [Next]_vars => ExplainInv'
<1> SUFFICES ASSUME PassInv, EndInv, ExplainInv, [Next]_vars
             PROVE  ExplainInv'
  OBVIOUS
<1>1. CASE /\ UNCHANGED <<log, changes, layer, pass, clock>>
           /\ status' \in {status, Failed(status)}
  BY <1>1, FailedIsWorse, NothingLogged DEF ExplainInv, EndInv, Free
<1>2. ASSUME NEW c \in Driver, Waits(c)
      PROVE  ExplainInv'
  <2>1. UNCHANGED <<log, changes, layer, pass, clock>> /\ status' \in {status, Failed(status)}
    BY <1>2, Zenon DEF Waits, Look, Wake, CancelWait, TimeOut, NotQuiesced, core, ending
  <2> QED
    BY <1>1, <2>1
<1>3. ASSUME NEW c \in Consumer, Hears(c)
      PROVE  ExplainInv'
  <2>1. UNCHANGED <<log, changes, layer, pass, clock>> /\ status' \in {status, Failed(status)}
    BY <1>3, Zenon DEF Hears, Report, ReportLands, core, ending
  <2> QED
    BY <1>1, <2>1
<1>4. ASSUME NEW c \in Driver, Starts(c)
      PROVE  ExplainInv'
  <2>1. UNCHANGED <<log, changes, layer, clock, status>> /\ pass'.stage = "world"
    BY <1>4 DEF Starts, Advance, ending, NoPass
  <2> QED
    BY <2>1, FailedIsWorse, NothingLogged DEF ExplainInv, EndInv, Free
<1>5. CASE UNCHANGED vars
  BY <1>1, <1>5 DEF vars, core, ending
<1> QED
  BY <1>2, <1>3, <1>4, <1>5, CommandLogged, AdvanceLogged, PassExplains, EndExplains, NextSteps
     DEF Passing

(* Between two commands, the log of a run that counts as reproducible leads *)
(* a replay to the clock, the changes of the world and the perturbations of *)
(* the run, however long the log and whatever was delivered, held or lost.  *)
THEOREM TheLogExplainsTheRun == Spec => []LogExplainsTheRun
<1>1. ExplainInv => LogExplainsTheRun
  <2> SUFFICES ASSUME ExplainInv, Free, status.reproducible
               PROVE  /\ Replayed.clock = clock /\ Replayed.changes = changes
                      /\ Applications(Replayed.layer.active) = Applications(layer.active)
                      /\ Replayed.layer.seq = layer.seq
    BY DEF LogExplainsTheRun
  <2>1. Replayed.clock = clock /\ Replayed.changes = changes /\ Twins(Replayed.layer, layer)
    BY DEF ExplainInv, Explains
  <2>2. \A y, z : Twins(y, z) => Applications(y.active) = Applications(z.active) /\ y.seq = z.seq
    <3> SUFFICES ASSUME NEW y, NEW z, Twins(y, z)
                 PROVE  Applications(y.active) = Applications(z.active) /\ y.seq = z.seq
      OBVIOUS
    <3>1. DOMAIN y.active = 1 .. Len(y.active) /\ DOMAIN z.active = 1 .. Len(y.active)
      BY DEF Twins, IsLayer, IsList
    <3>2. \A i \in 1 .. Len(y.active) : Alike(y.active[i], z.active[i])
      BY DEF Twins
    <3> QED
      BY <3>1, <3>2 DEF Applications, Alike, Twins
  <2> QED
    BY <2>1, <2>2
<1> QED
  BY <1>1, PassInvInit, PassInvNext, EndInvInit, EndInvNext, ExplainInvInit, ExplainInvNext, PTL DEF Spec

-----------------------------------------------------------------------------
(* The accounts of the records.                                             *)

(* Induction over the places of a list.                                     *)
LEMMA Upwards ==
    ASSUME NEW m \in Nat, NEW T, 0 \in T, \A n \in 1 .. m : n - 1 \in T => n \in T
    PROVE  \A n \in 0 .. m : n \in T
<1> DEFINE U == {n \in 0 .. m : n \notin T}
<1> SUFFICES ASSUME U # {}
             PROVE  FALSE
  OBVIOUS
<1>1. U \subseteq Nat
  OBVIOUS
<1>2. PICK n \in U : \A k \in U : n <= k
  <2> HIDE DEF U
  <2> QED
    BY <1>1, LeastNumber
<1>3. n \in 1 .. m /\ n - 1 \in 0 .. m
  BY <1>2
<1> QED
  BY <1>2, <1>3

(* A recursion over 0 .. m whose steps stay in a set has a solution.        *)
Steps(step, m, V) == step \in [(1 .. m) \X V -> V]
Runs(f, b, step, m, V) ==
    f \in [0 .. m -> V] /\ f[0] = b /\ \A n \in 1 .. m : f[n] = step[<<n, f[n - 1]>>]

LEMMA Recursion ==
    ASSUME NEW V, NEW b, NEW m, NEW step, b \in V, m \in Nat, Steps(step, m, V)
    PROVE  \E f : Runs(f, b, step, m, V)
<1> DEFINE Fits(f, k) == f \in [0 .. k -> V] /\ f[0] = b /\ \A n \in 1 .. k : f[n] = step[<<n, f[n - 1]>>]
           T == {k \in 0 .. m : \E f : Fits(f, k)}
<1>1. 0 \in T
  <2> DEFINE f == [n \in 0 .. 0 |-> b]
  <2>1. f \in [0 .. 0 -> V] /\ f[0] = b /\ 1 .. 0 = {}
    OBVIOUS
  <2> HIDE DEF f
  <2>2. Fits(f, 0) /\ 0 \in 0 .. m
    BY <2>1
  <2> QED
    BY <2>2
<1>2. ASSUME NEW k \in 1 .. m, k - 1 \in T
      PROVE  k \in T
  <2>1. PICK f : Fits(f, k - 1)
    BY <1>2
  <2> DEFINE g == [n \in 0 .. k |-> IF n = k THEN step[<<k, f[k - 1]>>] ELSE f[n]]
  <2>2. f[k - 1] \in V
    BY <2>1
  <2>3. g \in [0 .. k -> V]
    <3>1. step[<<k, f[k - 1]>>] \in V
      BY <2>2 DEF Steps
    <3>2. \A n \in 0 .. k : n # k => f[n] \in V
      BY <2>1
    <3> QED
      BY <3>1, <3>2
  <2>4. g[0] = b
    BY <2>1
  <2>5. ASSUME NEW n \in 1 .. k
        PROVE  g[n] = step[<<n, g[n - 1]>>]
    <3>0. n \in 0 .. k /\ n - 1 \in 0 .. k /\ n - 1 # k /\ n - 1 \in Nat
      OBVIOUS
    <3>1. g[n - 1] = f[n - 1] /\ g[n] = IF n = k THEN step[<<k, f[k - 1]>>] ELSE f[n]
      BY <3>0
    <3> HIDE DEF g
    <3>2. CASE n = k
      BY <3>1, <3>2
    <3>3. CASE n # k
      <4>1. n \in 1 .. k - 1
        BY <3>3
      <4> QED
        BY <2>1, <3>1, <3>3, <4>1
    <3> QED
      BY <3>2, <3>3
  <2> HIDE DEF g
  <2>6. Fits(g, k) /\ k \in 0 .. m
    BY <2>3, <2>4, <2>5
  <2> QED
    BY <2>6, Zenon
<1> HIDE DEF T
<1>3. m \in T
  BY <1>1, <1>2, Upwards
<1> QED
  BY <1>3 DEF T, Runs

(* How often something stands in a list.                                    *)
Spots(s, d) == {i \in 1 .. Len(s) : s[i] = d}
Times(s, d) == Cardinality(Spots(s, d))
One(b) == IF b THEN 1 ELSE 0

LEMMA SpotsFinite ==
    ASSUME NEW S, NEW s \in Seq(S), NEW d
    PROVE  IsFiniteSet(Spots(s, d)) /\ Times(s, d) \in Nat
<1>1. IsFiniteSet(1 .. Len(s))
  BY FS_Interval
<1>2. Spots(s, d) \in SUBSET (1 .. Len(s))
  BY DEF Spots
<1>3. IsFiniteSet(Spots(s, d))
  BY <1>1, <1>2, FS_Subset
<1> QED
  BY <1>3, FS_CardinalityType DEF Times

LEMMA TimesEmpty == \A d : Times(<<>>, d) = 0
<1>1. \A d : Spots(<<>>, d) = {}
  BY DEF Spots
<1> QED
  BY <1>1, FS_EmptySet DEF Times

LEMMA TimesAppend ==
    ASSUME NEW S, NEW s \in Seq(S), NEW e \in S, NEW d
    PROVE  Times(Append(s, e), d) = Times(s, d) + One(e = d)
<1> DEFINE n == Len(s) + 1
           t == Append(s, e)
<1>1. Len(t) = n /\ t[n] = e /\ n \in Nat /\ \A i \in 1 .. Len(s) : t[i] = s[i]
  OBVIOUS
<1> HIDE DEF t
<1>2. n \notin Spots(s, d) /\ IsFiniteSet(Spots(s, d)) /\ Times(s, d) \in Nat
  BY SpotsFinite DEF Spots
<1>3. CASE e = d
  <2>1. Spots(t, d) = Spots(s, d) \cup {n}
    BY <1>1, <1>3 DEF Spots
  <2>2. Cardinality(Spots(s, d) \cup {n}) = Cardinality(Spots(s, d)) + 1
    BY <1>2, FS_AddElement
  <2> QED
    BY <1>3, <2>1, <2>2 DEF Times, One, t
<1>4. CASE e # d
  <2>1. Spots(t, d) = Spots(s, d)
    BY <1>1, <1>4 DEF Spots
  <2> QED
    BY <1>2, <1>4, <2>1 DEF Times, One, t
<1> QED
  BY <1>3, <1>4

LEMMA TimesJoined ==
    ASSUME NEW S, NEW s \in Seq(S), NEW t \in Seq(S), NEW d
    PROVE  Times(s \o t, d) = Times(s, d) + Times(t, d)
<1> DEFINE pre(n) == SubSeq(t, 1, n)
           T == {n \in 0 .. Len(t) : Times(s \o pre(n), d) = Times(s, d) + Times(pre(n), d)}
<1>0. Times(s, d) \in Nat /\ Len(t) \in Nat
  BY SpotsFinite
<1>1. 0 \in T
  <2>1. pre(0) = <<>> /\ s \o <<>> = s
    OBVIOUS
  <2>2. Times(<<>>, d) = 0
    BY TimesEmpty
  <2>3. 0 \in 0 .. Len(t) /\ Times(s, d) = Times(s, d) + 0
    BY <1>0
  <2> HIDE DEF pre
  <2> QED
    BY <2>1, <2>2, <2>3
<1>2. ASSUME NEW n \in 1 .. Len(t), n - 1 \in T
      PROVE  n \in T
  <2> DEFINE before == pre(n - 1)
             both == s \o before
  <2>1. before \in Seq(S) /\ t[n] \in S /\ pre(n) = Append(before, t[n])
    OBVIOUS
  <2>2. Times(both, d) = Times(s, d) + Times(before, d)
    BY <1>2
  <2> HIDE DEF pre, before
  <2>3. both \in Seq(S) /\ s \o pre(n) = Append(both, t[n])
    BY <2>1
  <2> HIDE DEF both
  <2>4. Times(Append(both, t[n]), d) = Times(both, d) + One(t[n] = d)
    BY <2>1, <2>3, TimesAppend
  <2>5. Times(Append(before, t[n]), d) = Times(before, d) + One(t[n] = d)
    BY <2>1, TimesAppend
  <2>6. Times(before, d) \in Nat
    BY <2>1, SpotsFinite
  <2>7. One(t[n] = d) \in Nat
    BY DEF One
  <2>8. Times(s \o pre(n), d) = Times(s, d) + Times(pre(n), d)
    BY <1>0, <2>1, <2>2, <2>3, <2>4, <2>5, <2>6, <2>7
  <2>9. n \in 0 .. Len(t)
    OBVIOUS
  <2> QED
    BY <2>8, <2>9
<1>3. Len(t) \in T
  <2> HIDE DEF T
  <2>1. \A n \in 0 .. Len(t) : n \in T
    BY <1>0, <1>1, <1>2, Upwards
  <2>2. Len(t) \in 0 .. Len(t)
    BY <1>0
  <2> QED
    BY <2>1, <2>2
<1>4. pre(Len(t)) = t
  OBVIOUS
<1> HIDE DEF pre
<1> QED
  BY <1>3, <1>4

LEMMA TimesTail ==
    ASSUME NEW S, NEW s \in Seq(S), s # <<>>, NEW d
    PROVE  Head(s) \in S /\ Tail(s) \in Seq(S) /\ Times(s, d) = One(Head(s) = d) + Times(Tail(s), d)
<1> DEFINE e == Head(s)
           one == Append(<<>>, e)
           rest == Tail(s)
<1>1. s = one \o rest /\ e \in S /\ rest \in Seq(S) /\ one \in Seq(S) /\ <<>> \in Seq(S)
  OBVIOUS
<1> HIDE DEF e, rest
<1> DEFINE none == <<>>
<1>2. Times(one, d) = Times(none, d) + One(e = d) /\ Times(none, d) = 0
  <2>1. none \in Seq(S) /\ one = Append(none, e)
    OBVIOUS
  <2>2. Times(none, d) = 0
    BY TimesEmpty
  <2> HIDE DEF none, one
  <2> QED
    BY <1>1, <2>1, <2>2, TimesAppend
<1> HIDE DEF one, none
<1>3. Times(one \o rest, d) = Times(one, d) + Times(rest, d)
  BY <1>1, TimesJoined
<1>4. One(e = d) \in Nat
  BY DEF One
<1>5. Times(s, d) = One(e = d) + Times(rest, d)
  BY <1>1, <1>2, <1>3, <1>4
<1> QED
  BY <1>1, <1>5, Zenon DEF e, rest

(* Lists put end to end: how often something stands in the whole is the sum *)
(* of how often it stands in the parts.                                     *)
LEMMA Flattens ==
    ASSUME NEW S, NEW ss \in Seq(Seq(S)), Len(ss) # 0
    PROVE  \E f : /\ FlattenSeq(ss) = f[Len(ss)] /\ f[1] = ss[1]
                  /\ \A i \in 2 .. Len(ss) : f[i] = f[i - 1] \o ss[i]
<1> DEFINE m == Len(ss)
           Fits(f) == f = [i \in 1 .. m |-> IF i = 1 THEN ss[i] ELSE f[i - 1] \o ss[i]]
           V == Seq(S)
           none == <<>>
           step == [x \in (1 .. m) \X V |-> x[2] \o ss[x[1]]]
<1>1. m \in Nat /\ 1 \in 1 .. m /\ \A i \in 1 .. m : ss[i] \in V
  OBVIOUS
<1>2. none \in V /\ \A i \in 1 .. m : none \o ss[i] = ss[i]
  BY <1>1
<1>3. \A s, t \in V : s \o t \in V
  OBVIOUS
<1> HIDE DEF m, V, none
<1>4. Steps(step, m, V)
  BY <1>1, <1>3 DEF Steps
<1>5. \A i \in 1 .. m : \A s \in V : step[<<i, s>>] = s \o ss[i]
  OBVIOUS
<1> HIDE DEF step
<1>6. \E g : Runs(g, none, step, m, V)
  BY <1>1, <1>2, <1>4, Recursion
<1>7. PICK g \in [0 .. m -> V] : g[0] = none /\ \A i \in 1 .. m : g[i] = step[<<i, g[i - 1]>>]
  BY <1>6 DEF Runs
<1>8. \A i \in 1 .. m : g[i] = g[i - 1] \o ss[i]
  <2> TAKE i \in 1 .. m
  <2>1. g[i - 1] \in V
    BY <1>1, <1>7
  <2> QED
    BY <1>5, <1>7, <2>1
<1> DEFINE h == [i \in 1 .. m |-> g[i]]
<1>9. \A i \in 1 .. m : h[i] = IF i = 1 THEN ss[i] ELSE h[i - 1] \o ss[i]
  <2> TAKE i \in 1 .. m
  <2>1. CASE i = 1
    <3>1. g[1] = g[0] \o ss[1]
      <4>1. g[1] = g[1 - 1] \o ss[1]
        BY <1>1, <1>8, Zenon
      <4> QED
        BY <4>1
    <3>2. none \o ss[1] = ss[1]
      BY <1>1, <1>2
    <3>3. h[i] = g[1] /\ ss[i] = ss[1]
      BY <2>1
    <3> QED
      BY <1>7, <2>1, <3>1, <3>2, <3>3
  <2>2. CASE i # 1
    <3>1. i - 1 \in 1 .. m /\ i \in 1 .. m
      BY <1>1, <2>2
    <3> QED
      BY <1>8, <2>2, <3>1
  <2> QED
    BY <2>1, <2>2
<1>10. Fits(h)
  <2>1. h = [i \in 1 .. m |-> h[i]]
    OBVIOUS
  <2> HIDE DEF h
  <2> QED
    BY <1>9, <2>1
<1> DEFINE f == CHOOSE f : Fits(f)
<1>11. Fits(f)
  <2> HIDE DEF h, Fits
  <2> QED
    BY <1>10, Zenon
<1>12. FlattenSeq(ss) = f[m]
  BY DEF FlattenSeq, m
<1> HIDE DEF f
<1>13. f[1] = ss[1] /\ \A i \in 2 .. m : f[i] = f[i - 1] \o ss[i]
  <2>1. \A i \in 1 .. m : f[i] = IF i = 1 THEN ss[i] ELSE f[i - 1] \o ss[i]
    BY <1>11
  <2>2. \A i \in 2 .. m : i \in 1 .. m /\ i # 1
    BY <1>1
  <2> QED
    BY <1>1, <2>1, <2>2
<1> QED
  BY <1>12, <1>13 DEF m

(* The running sums of how often d stands in the lists of ss.               *)
Sums(P, ss, d) ==
    /\ P \in [0 .. Len(ss) -> Nat] /\ P[0] = 0
    /\ \A k \in 1 .. Len(ss) : P[k] = P[k - 1] + Times(ss[k], d)

LEMMA FlattenSums ==
    ASSUME NEW S, NEW ss \in Seq(Seq(S)), NEW d
    PROVE  /\ FlattenSeq(ss) \in Seq(S)
           /\ \E P : Sums(P, ss, d) /\ Times(FlattenSeq(ss), d) = P[Len(ss)]
<1> DEFINE m == Len(ss)
           V == Seq(S)
<1>1. m \in Nat /\ \A i \in 1 .. m : ss[i] \in V
  OBVIOUS
<1>2. CASE m = 0
  <2>1. ss = <<>> /\ <<>> \in Seq(S) /\ FlattenSeq(ss) = ss
    BY <1>2 DEF FlattenSeq
  <2> DEFINE P == [k \in 0 .. 0 |-> 0]
  <2>2. P \in [0 .. 0 -> Nat] /\ P[0] = 0 /\ 1 .. 0 = {}
    OBVIOUS
  <2>3. Times(<<>>, d) = 0
    BY TimesEmpty
  <2> HIDE DEF P
  <2>4. Sums(P, ss, d)
    BY <1>2, <2>2 DEF Sums
  <2> QED
    BY <1>2, <2>1, <2>2, <2>3, <2>4
<1>3. CASE m # 0
  <2>1. PICK f : /\ FlattenSeq(ss) = f[m] /\ f[1] = ss[1]
                 /\ \A i \in 2 .. m : f[i] = f[i - 1] \o ss[i]
    BY <1>3, Flattens
  <2> DEFINE T == {i \in 0 .. m : i = 0 \/ f[i] \in V}
  <2>2. \A i \in 1 .. m : i - 1 \in T => i \in T
    <3> SUFFICES ASSUME NEW i \in 1 .. m, i - 1 \in T
                 PROVE  f[i] \in V
      BY <1>1
    <3>1. CASE i = 1
      BY <1>1, <2>1, <3>1
    <3>2. CASE i # 1
      <4>1. i \in 2 .. m /\ f[i - 1] \in V /\ ss[i] \in V
        BY <1>1, <3>2
      <4>2. f[i] = f[i - 1] \o ss[i]
        BY <2>1, <4>1
      <4>3. f[i - 1] \o ss[i] \in V
        BY <4>1
      <4> QED
        BY <4>2, <4>3
    <3> QED
      BY <3>1, <3>2
  <2>3. \A i \in 1 .. m : f[i] \in V
    <3>1. 0 \in T
      BY <1>1
    <3> HIDE DEF T
    <3>2. \A i \in 0 .. m : i \in T
      BY <1>1, <2>2, <3>1, Upwards
    <3> QED
      BY <1>1, <3>2 DEF T
  <2> DEFINE P == [k \in 0 .. m |-> IF k = 0 THEN 0 ELSE Times(f[k], d)]
  <2>4. \A k \in 1 .. m : Times(f[k], d) \in Nat /\ Times(ss[k], d) \in Nat
    BY <1>1, <2>3, SpotsFinite
  <2>5. P \in [0 .. m -> Nat] /\ P[0] = 0 /\ P[m] = Times(f[m], d)
    BY <1>1, <1>3, <2>4
  <2>6. ASSUME NEW k \in 1 .. m
        PROVE  P[k] = P[k - 1] + Times(ss[k], d)
    <3>1. CASE k = 1
      BY <2>1, <2>4, <3>1
    <3>2. CASE k # 1
      <4>1. k \in 2 .. m /\ k - 1 \in 1 .. m /\ k - 1 # 0
        BY <1>1, <3>2
      <4>2. f[k] = f[k - 1] \o ss[k] /\ f[k - 1] \in Seq(S) /\ ss[k] \in Seq(S)
        BY <1>1, <2>1, <2>3, <4>1
      <4>3. Times(f[k], d) = Times(f[k - 1], d) + Times(ss[k], d)
        BY <4>2, TimesJoined
      <4>4. P[k] = Times(f[k], d) /\ P[k - 1] = Times(f[k - 1], d)
        BY <1>1, <4>1
      <4> QED
        BY <4>3, <4>4
    <3> QED
      BY <3>1, <3>2
  <2> HIDE DEF P
  <2>7. Sums(P, ss, d)
    BY <2>5, <2>6 DEF Sums
  <2>8. FlattenSeq(ss) \in V /\ Times(FlattenSeq(ss), d) = P[m]
    BY <1>1, <1>3, <2>1, <2>3, <2>5
  <2> QED
    BY <2>7, <2>8
<1> QED
  BY <1>2, <1>3

(* One of the lists is another one.                                         *)
LEMMA FlattenOne ==
    ASSUME NEW S, NEW ss \in Seq(Seq(S)), NEW tt \in Seq(Seq(S)), Len(tt) = Len(ss), NEW d,
           NEW i \in 1 .. Len(ss), \A j \in 1 .. Len(ss) : j # i => tt[j] = ss[j]
    PROVE  Times(FlattenSeq(tt), d) + Times(ss[i], d) = Times(FlattenSeq(ss), d) + Times(tt[i], d)
<1> DEFINE m == Len(ss)
           x == Times(ss[i], d)
           y == Times(tt[i], d)
<1>1. PICK P : Sums(P, ss, d) /\ Times(FlattenSeq(ss), d) = P[m]
  BY FlattenSums
<1>2. PICK Q : Sums(Q, tt, d) /\ Times(FlattenSeq(tt), d) = Q[m]
  BY FlattenSums
<1>3. m \in Nat /\ i \in 1 .. m /\ ss[i] \in Seq(S) /\ tt[i] \in Seq(S)
  OBVIOUS
<1>4. x \in Nat /\ y \in Nat
  BY <1>3, SpotsFinite
<1>5. /\ \A k \in 0 .. m : P[k] \in Nat /\ Q[k] \in Nat
      /\ P[0] = 0 /\ Q[0] = 0
      /\ P[i] = P[i - 1] + x /\ Q[i] = Q[i - 1] + y
  BY <1>1, <1>2, <1>3 DEF Sums
<1>6. \A k \in 1 .. m : k # i => \E z \in Nat : P[k] = P[k - 1] + z /\ Q[k] = Q[k - 1] + z
  <2> SUFFICES ASSUME NEW k \in 1 .. m, k # i
               PROVE  \E z \in Nat : P[k] = P[k - 1] + z /\ Q[k] = Q[k - 1] + z
    OBVIOUS
  <2>1. ss[k] \in Seq(S) /\ tt[k] = ss[k]
    OBVIOUS
  <2>2. Times(ss[k], d) \in Nat
    BY <2>1, SpotsFinite
  <2> QED
    BY <1>1, <1>2, <2>1, <2>2 DEF Sums
<1> HIDE DEF m, x, y
<1> DEFINE T == {k \in 0 .. m : IF k < i THEN Q[k] = P[k] ELSE Q[k] + x = P[k] + y}
<1>7. 0 \in T
  BY <1>3, <1>5
<1>8. ASSUME NEW k \in 1 .. m, k - 1 \in T
      PROVE  k \in T
  <2>0. /\ k \in 0 .. m /\ k - 1 \in 0 .. m /\ P[k] \in Nat /\ P[k - 1] \in Nat
        /\ Q[k] \in Nat /\ Q[k - 1] \in Nat
    BY <1>3, <1>5
  <2>1. CASE k = i
    <3>1. Q[k - 1] = P[k - 1]
      BY <1>3, <1>8, <2>1
    <3>2. P[k] = P[k - 1] + x /\ Q[k] = Q[k - 1] + y /\ ~ (k < i)
      BY <1>3, <1>5, <2>1
    <3>3. Q[k] + x = P[k] + y
      <4>1. \A a, b, c \in Nat : (a + b) + c = (a + c) + b
        OBVIOUS
      <4>2. (P[k - 1] + y) + x = (P[k - 1] + x) + y
        BY <1>4, <2>0, <4>1, Zenon
      <4>3. Q[k] = P[k - 1] + y /\ P[k] = P[k - 1] + x
        BY <3>1, <3>2, Zenon
      <4> QED
        BY <4>2, <4>3, Zenon
    <3> QED
      BY <2>0, <3>2, <3>3
  <2>2. CASE k # i
    <3>1. PICK z \in Nat : P[k] = P[k - 1] + z /\ Q[k] = Q[k - 1] + z
      BY <1>6, <2>2
    <3>2. CASE k < i
      <4>1. k - 1 < i
        BY <1>3, <3>2
      <4>2. Q[k - 1] = P[k - 1]
        BY <1>8, <4>1
      <4> QED
        BY <2>0, <3>1, <3>2, <4>2
    <3>3. CASE ~ (k < i)
      <4>1. ~ (k - 1 < i)
        BY <1>3, <2>2, <3>3
      <4>2. Q[k - 1] + x = P[k - 1] + y
        BY <1>8, <4>1
      <4>3. x \in Nat /\ y \in Nat /\ z \in Nat /\ P[k - 1] \in Nat /\ Q[k - 1] \in Nat
        BY <1>4, <2>0
      <4>4. Q[k] + x = P[k] + y
        <5>1. Q[k] + x = (Q[k - 1] + x) + z
          BY <3>1, <4>3
        <5>2. P[k] + y = (P[k - 1] + y) + z
          BY <3>1, <4>3
        <5> QED
          BY <4>2, <5>1, <5>2
      <4> QED
        BY <2>0, <3>3, <4>4
    <3> QED
      BY <3>2, <3>3
  <2> QED
    BY <2>1, <2>2
<1>9. m \in T
  <2> HIDE DEF T
  <2>1. \A k \in 0 .. m : k \in T
    BY <1>3, <1>7, <1>8, Upwards
  <2> QED
    BY <1>3, <2>1
<1> QED
  BY <1>1, <1>2, <1>3, <1>9 DEF x, y

(* There is an empty list more at the end.                                  *)
LEMMA FlattenGrown ==
    ASSUME NEW S, NEW ss \in Seq(Seq(S)), NEW tt \in Seq(Seq(S)), NEW d,
           Len(tt) = Len(ss) + 1, tt[Len(ss) + 1] = <<>>, \A j \in 1 .. Len(ss) : tt[j] = ss[j]
    PROVE  Times(FlattenSeq(tt), d) = Times(FlattenSeq(ss), d)
<1> DEFINE m == Len(ss)
<1>1. PICK P : Sums(P, ss, d) /\ Times(FlattenSeq(ss), d) = P[m]
  BY FlattenSums
<1>2. PICK Q : Sums(Q, tt, d) /\ Times(FlattenSeq(tt), d) = Q[m + 1]
  BY FlattenSums
<1>3. m \in Nat
  OBVIOUS
<1>4. Q \in [0 .. m + 1 -> Nat] /\ Q[0] = 0 /\ Q[m + 1] = Q[(m + 1) - 1] + Times(tt[m + 1], d)
  <2>1. Len(tt) = m + 1 /\ m + 1 \in 1 .. m + 1
    BY <1>3
  <2> HIDE DEF m
  <2> QED
    BY <1>2, <2>1 DEF Sums
<1>5. Times(tt[m + 1], d) = 0
  BY TimesEmpty
<1>6. ASSUME NEW k \in 1 .. m
      PROVE  P[k] = P[k - 1] + Times(ss[k], d) /\ Q[k] = Q[k - 1] + Times(ss[k], d)
  <2>1. P[k] = P[k - 1] + Times(ss[k], d)
    BY <1>1 DEF Sums
  <2>2. Len(tt) = m + 1 /\ k \in 1 .. m + 1 /\ tt[k] = ss[k]
    BY <1>3
  <2> HIDE DEF m
  <2>3. Q[k] = Q[k - 1] + Times(tt[k], d)
    BY <1>2, <2>2 DEF Sums
  <2> QED
    BY <2>1, <2>2, <2>3
<1>7. P[0] = 0
  BY <1>1 DEF Sums
<1> HIDE DEF m
<1> DEFINE T == {k \in 0 .. m : Q[k] = P[k]}
<1>8. 0 \in T
  BY <1>3, <1>4, <1>7
<1>9. ASSUME NEW k \in 1 .. m, k - 1 \in T
      PROVE  k \in T
  BY <1>3, <1>6, <1>9
<1>10. m \in T
  <2> HIDE DEF T
  <2>1. \A k \in 0 .. m : k \in T
    BY <1>3, <1>8, <1>9, Upwards
  <2> QED
    BY <1>3, <2>1
<1>11. Q[m + 1] = Q[m]
  BY <1>3, <1>4, <1>5
<1> QED
  BY <1>1, <1>2, <1>10, <1>11

(* One of the lists is taken out.                                           *)
LEMMA FlattenRemoved ==
    ASSUME NEW S, NEW ss \in Seq(Seq(S)), NEW tt \in Seq(Seq(S)), NEW d, NEW i \in 1 .. Len(ss),
           Len(tt) = Len(ss) - 1, \A j \in 1 .. Len(ss) - 1 : tt[j] = ss[IF j < i THEN j ELSE j + 1]
    PROVE  Times(FlattenSeq(ss), d) = Times(FlattenSeq(tt), d) + Times(ss[i], d)
<1> DEFINE m == Len(ss)
           x == Times(ss[i], d)
<1>1. PICK P : Sums(P, ss, d) /\ Times(FlattenSeq(ss), d) = P[m]
  BY FlattenSums
<1>2. PICK Q : Sums(Q, tt, d) /\ Times(FlattenSeq(tt), d) = Q[m - 1]
  BY FlattenSums
<1>3. m \in Nat /\ i \in 1 .. m /\ m - 1 \in Nat /\ ss[i] \in Seq(S)
  OBVIOUS
<1>4. x \in Nat
  BY <1>3, SpotsFinite
<1>5. /\ \A k \in 0 .. m : P[k] \in Nat
      /\ \A k \in 0 .. m - 1 : Q[k] \in Nat
      /\ P[0] = 0 /\ Q[0] = 0 /\ P[i] = P[i - 1] + x
  BY <1>1, <1>2, <1>3 DEF Sums
<1>6. ASSUME NEW k \in 1 .. m - 1
      PROVE  \E z \in Nat : /\ Q[k] = Q[k - 1] + z
                            /\ k < i => P[k] = P[k - 1] + z
                            /\ ~ (k < i) => P[k + 1] = P[k] + z
  <2>1. k \in 1 .. m /\ k + 1 \in 1 .. m /\ (k + 1) - 1 = k
    BY <1>3
  <2>2. tt[k] \in Seq(S) /\ tt[k] = ss[IF k < i THEN k ELSE k + 1]
    BY <1>3
  <2>3. Times(tt[k], d) \in Nat
    BY <2>2, SpotsFinite
  <2>4. Q[k] = Q[k - 1] + Times(tt[k], d)
    BY <1>2 DEF Sums
  <2>5. P[k] = P[k - 1] + Times(ss[k], d) /\ P[k + 1] = P[(k + 1) - 1] + Times(ss[k + 1], d)
    BY <1>1, <2>1 DEF Sums
  <2> QED
    BY <2>1, <2>2, <2>3, <2>4, <2>5
<1> HIDE DEF m, x
<1> DEFINE T == {k \in 0 .. m - 1 : IF k < i THEN Q[k] = P[k] ELSE Q[k] + x = P[k + 1]}
<1>7. 0 \in T
  BY <1>3, <1>5
<1>8. ASSUME NEW k \in 1 .. m - 1, k - 1 \in T
      PROVE  k \in T
  <2>0. /\ k \in 0 .. m - 1 /\ k - 1 \in 0 .. m - 1
        /\ k \in 0 .. m /\ k - 1 \in 0 .. m /\ k + 1 \in 0 .. m /\ (k - 1) + 1 = k
    BY <1>3
  <2>1. PICK z \in Nat : /\ Q[k] = Q[k - 1] + z
                         /\ k < i => P[k] = P[k - 1] + z
                         /\ ~ (k < i) => P[k + 1] = P[k] + z
    BY <1>6
  <2>2. /\ P[k] \in Nat /\ P[k - 1] \in Nat /\ P[k + 1] \in Nat /\ Q[k] \in Nat /\ Q[k - 1] \in Nat
    BY <1>5, <2>0
  <2>3. CASE k < i
    <3>1. k - 1 < i
      BY <1>3, <2>3
    <3>2. Q[k - 1] = P[k - 1]
      BY <1>8, <3>1
    <3> QED
      BY <2>0, <2>1, <2>3, <3>2
  <2>4. CASE ~ (k < i)
    <3>1. CASE k = i
      <4>1. k - 1 < i
        BY <1>3, <3>1
      <4>2. Q[k - 1] = P[k - 1] /\ P[k] = P[k - 1] + x
        BY <1>5, <1>8, <3>1, <4>1
      <4>3. P[k + 1] = P[k] + z /\ Q[k] = Q[k - 1] + z
        BY <2>1, <2>4
      <4>4. Q[k] + x = P[k + 1]
        <5>1. Q[k] = P[k - 1] + z /\ P[k + 1] = (P[k - 1] + x) + z
          BY <4>2, <4>3
        <5>2. (P[k - 1] + z) + x = (P[k - 1] + x) + z
          BY <1>4, <2>2
        <5> QED
          BY <5>1, <5>2
      <4> QED
        BY <2>0, <2>4, <4>4
    <3>2. CASE k # i
      <4>1. ~ (k - 1 < i)
        BY <1>3, <2>4, <3>2
      <4>2. Q[k - 1] + x = P[k]
        BY <1>8, <2>0, <4>1
      <4>3. P[k + 1] = P[k] + z /\ Q[k] = Q[k - 1] + z
        BY <2>1, <2>4
      <4>4. Q[k] + x = P[k + 1]
        <5>1. Q[k] + x = (Q[k - 1] + z) + x
          BY <4>3
        <5>2. (Q[k - 1] + z) + x = (Q[k - 1] + x) + z
          BY <1>4, <2>2
        <5> QED
          BY <4>2, <4>3, <5>1, <5>2
      <4> QED
        BY <2>0, <2>4, <4>4
    <3> QED
      BY <3>1, <3>2
  <2> QED
    BY <2>3, <2>4
<1>9. m - 1 \in T
  <2> HIDE DEF T
  <2>1. \A k \in 0 .. m - 1 : k \in T
    BY <1>3, <1>7, <1>8, Upwards
  <2> QED
    BY <1>3, <2>1
<1>10. P[m] = Q[m - 1] + x
  <2>1. CASE m - 1 < i
    <3>1. m = i
      BY <1>3, <2>1
    <3> QED
      BY <1>5, <1>9, <2>1, <3>1
  <2>2. CASE ~ (m - 1 < i)
    <3>1. (m - 1) + 1 = m
      BY <1>3
    <3> QED
      BY <1>9, <2>2, <3>1
  <2> QED
    BY <2>1, <2>2
<1> QED
  BY <1>1, <1>2, <1>10 DEF x

(* Every list is parted in two.                                             *)
Parted(ss, tt, uu, d) ==
    /\ Len(tt) = Len(ss) /\ Len(uu) = Len(ss)
    /\ \A j \in 1 .. Len(ss) : Times(ss[j], d) = Times(tt[j], d) + Times(uu[j], d)

LEMMA FlattenParted ==
    ASSUME NEW S, NEW ss \in Seq(Seq(S)), NEW tt \in Seq(Seq(S)), NEW uu \in Seq(Seq(S)), NEW d,
           Parted(ss, tt, uu, d)
    PROVE  Times(FlattenSeq(ss), d) = Times(FlattenSeq(tt), d) + Times(FlattenSeq(uu), d)
<1> DEFINE m == Len(ss)
<1>1. PICK P : Sums(P, ss, d) /\ Times(FlattenSeq(ss), d) = P[m]
  BY FlattenSums
<1>2. PICK Q : Sums(Q, tt, d) /\ Times(FlattenSeq(tt), d) = Q[m]
  BY FlattenSums DEF Parted
<1>3. PICK R : Sums(R, uu, d) /\ Times(FlattenSeq(uu), d) = R[m]
  BY FlattenSums DEF Parted
<1>4. m \in Nat /\ Len(tt) = m /\ Len(uu) = m
  BY DEF Parted
<1>5. /\ \A k \in 0 .. m : Q[k] \in Nat /\ R[k] \in Nat
      /\ P[0] = 0 /\ Q[0] = 0 /\ R[0] = 0
  BY <1>1, <1>2, <1>3, <1>4 DEF Sums
<1>6. ASSUME NEW k \in 1 .. m
      PROVE  \E y, z \in Nat : P[k] = P[k - 1] + (y + z) /\ Q[k] = Q[k - 1] + y /\ R[k] = R[k - 1] + z
  <2>1. tt[k] \in Seq(S) /\ uu[k] \in Seq(S)
    BY <1>4
  <2>2. Times(tt[k], d) \in Nat /\ Times(uu[k], d) \in Nat
    BY <2>1, SpotsFinite
  <2>3. P[k] = P[k - 1] + Times(ss[k], d)
    BY <1>1 DEF Sums
  <2>4. Q[k] = Q[k - 1] + Times(tt[k], d) /\ R[k] = R[k - 1] + Times(uu[k], d)
    BY <1>2, <1>3, <1>4 DEF Sums
  <2>5. Times(ss[k], d) = Times(tt[k], d) + Times(uu[k], d)
    BY DEF Parted
  <2> QED
    BY <2>2, <2>3, <2>4, <2>5
<1> HIDE DEF m
<1> DEFINE T == {k \in 0 .. m : P[k] = Q[k] + R[k]}
<1>7. 0 \in T
  BY <1>4, <1>5
<1>8. ASSUME NEW k \in 1 .. m, k - 1 \in T
      PROVE  k \in T
  <2>1. PICK y, z \in Nat : P[k] = P[k - 1] + (y + z) /\ Q[k] = Q[k - 1] + y /\ R[k] = R[k - 1] + z
    BY <1>6
  <2>2. P[k - 1] = Q[k - 1] + R[k - 1] /\ k \in 0 .. m /\ k - 1 \in 0 .. m
    BY <1>4, <1>8
  <2> QED
    BY <1>5, <2>1, <2>2
<1>9. m \in T
  <2> HIDE DEF T
  <2>1. \A k \in 0 .. m : k \in T
    BY <1>4, <1>7, <1>8, Upwards
  <2> QED
    BY <1>4, <2>1
<1> QED
  BY <1>1, <1>2, <1>3, <1>9

(* The identities of what carries one.                                      *)
Named(R) == \A r \in R : r.id \in Nat
Cnt(rs, d) == Times(Ids(rs), d)

LEMMA IdsAre ==
    ASSUME NEW R, Named(R), NEW rs \in Seq(R)
    PROVE  /\ Ids(rs) \in Seq(Nat) /\ Len(Ids(rs)) = Len(rs)
           /\ \A i \in 1 .. Len(rs) : Ids(rs)[i] = rs[i].id
<1>1. Ids(rs) = [i \in 1 .. Len(rs) |-> rs[i].id]
  BY DEF Ids
<1>2. \A i \in 1 .. Len(rs) : rs[i].id \in Nat
  BY DEF Named
<1> QED
  BY <1>1, <1>2

LEMMA CntNat ==
    ASSUME NEW R, Named(R), NEW rs \in Seq(R), NEW d
    PROVE  Cnt(rs, d) \in Nat
<1>1. Ids(rs) \in Seq(Nat)
  BY IdsAre
<1> QED
  BY <1>1, SpotsFinite DEF Cnt

LEMMA CntEmpty == \A d : Cnt(<<>>, d) = 0
<1>1. Ids(<<>>) = <<>>
  BY DEF Ids
<1> QED
  BY <1>1, TimesEmpty DEF Cnt

LEMMA CntAppend ==
    ASSUME NEW R, Named(R), NEW rs \in Seq(R), NEW r \in R, NEW d
    PROVE  Cnt(Append(rs, r), d) = Cnt(rs, d) + One(r.id = d)
<1> DEFINE ts == Append(rs, r)
<1>1. ts \in Seq(R) /\ Len(ts) = Len(rs) + 1 /\ ts[Len(rs) + 1] = r /\ \A i \in 1 .. Len(rs) : ts[i] = rs[i]
  OBVIOUS
<1>2. /\ Ids(rs) \in Seq(Nat) /\ Len(Ids(rs)) = Len(rs)
      /\ \A i \in 1 .. Len(rs) : Ids(rs)[i] = rs[i].id
  BY IdsAre
<1> HIDE DEF ts
<1>3. /\ Ids(ts) \in Seq(Nat) /\ Len(Ids(ts)) = Len(ts)
      /\ \A i \in 1 .. Len(ts) : Ids(ts)[i] = ts[i].id
  BY <1>1, IdsAre
<1>4. r.id \in Nat
  BY DEF Named
<1>5. Ids(ts) = Append(Ids(rs), r.id)
  <2> DEFINE x == Ids(ts)
             y == Append(Ids(rs), r.id)
             n == Len(rs)
  <2>1. n \in Nat
    OBVIOUS
  <2>2. y \in Seq(Nat) /\ Len(y) = n + 1 /\ y[n + 1] = r.id /\ \A i \in 1 .. n : y[i] = Ids(rs)[i]
    BY <1>2, <1>4, <2>1
  <2>3. x \in Seq(Nat) /\ Len(x) = n + 1 /\ x[n + 1] = r.id /\ \A i \in 1 .. n : x[i] = rs[i].id
    <3>1. Len(ts) = n + 1 /\ n + 1 \in 1 .. n + 1 /\ \A i \in 1 .. n : i \in 1 .. n + 1
      BY <1>1, <2>1
    <3>2. x[n + 1] = ts[n + 1].id /\ ts[n + 1] = r
      BY <1>1, <1>3, <3>1
    <3>3. \A i \in 1 .. n : x[i] = ts[i].id /\ ts[i] = rs[i]
      BY <1>1, <1>3, <3>1
    <3> QED
      BY <1>3, <3>1, <3>2, <3>3
  <2> HIDE DEF x, y, n
  <2>4. \A i \in 1 .. n : x[i] = y[i]
    BY <1>2, <2>2, <2>3 DEF n
  <2>5. \A i \in 1 .. n + 1 : x[i] = y[i]
    BY <2>1, <2>2, <2>3, <2>4
  <2>6. x = y
    BY <2>1, <2>2, <2>3, <2>5
  <2> QED
    BY <2>6 DEF x, y
<1>6. Times(Append(Ids(rs), r.id), d) = Times(Ids(rs), d) + One(r.id = d)
  BY <1>2, <1>4, TimesAppend
<1> QED
  BY <1>5, <1>6, Zenon DEF Cnt, ts

LEMMA CntJoined ==
    ASSUME NEW R, Named(R), NEW rs \in Seq(R), NEW ss \in Seq(R), NEW d
    PROVE  rs \o ss \in Seq(R) /\ Cnt(rs \o ss, d) = Cnt(rs, d) + Cnt(ss, d)
<1> DEFINE ts == rs \o ss
           n == Len(rs)
           k == Len(ss)
<1>0. n \in Nat /\ k \in Nat
  OBVIOUS
<1>1. ts \in Seq(R) /\ Len(ts) = n + k /\ \A i \in 1 .. n + k : ts[i] = IF i <= n THEN rs[i] ELSE ss[i - n]
  BY ListsJoined
<1> HIDE DEF ts
<1>2. Ids(rs) \in Seq(Nat) /\ Len(Ids(rs)) = n /\ \A i \in 1 .. n : Ids(rs)[i] = rs[i].id
  BY IdsAre
<1>3. Ids(ss) \in Seq(Nat) /\ Len(Ids(ss)) = k /\ \A i \in 1 .. k : Ids(ss)[i] = ss[i].id
  BY IdsAre
<1>4. Ids(ts) \in Seq(Nat) /\ Len(Ids(ts)) = n + k /\ \A i \in 1 .. n + k : Ids(ts)[i] = ts[i].id
  BY <1>1, IdsAre
<1> HIDE DEF n, k
<1>5. Ids(ts) = Ids(rs) \o Ids(ss)
  <2> DEFINE x == Ids(ts)
             y == Ids(rs) \o Ids(ss)
  <2>1. /\ y \in Seq(Nat) /\ Len(y) = n + k
        /\ \A i \in 1 .. n + k : y[i] = IF i <= n THEN Ids(rs)[i] ELSE Ids(ss)[i - n]
    BY <1>2, <1>3, ListsJoined
  <2> HIDE DEF y
  <2>2. ASSUME NEW i \in 1 .. n + k
        PROVE  x[i] = y[i]
    <3>1. CASE i <= n
      <4>1. i \in 1 .. n
        BY <1>0, <3>1
      <4> QED
        BY <1>1, <1>2, <1>4, <2>1, <3>1, <4>1
    <3>2. CASE ~ (i <= n)
      <4>1. i - n \in 1 .. k
        BY <1>0, <3>2
      <4> QED
        BY <1>1, <1>3, <1>4, <2>1, <3>2, <4>1
    <3> QED
      BY <3>1, <3>2
  <2> HIDE DEF x
  <2>3. x \in Seq(Nat) /\ Len(x) = n + k
    BY <1>4 DEF x
  <2>4. x = y
    BY <1>0, <2>1, <2>2, <2>3
  <2> QED
    BY <2>4 DEF x, y
<1>6. Times(Ids(rs) \o Ids(ss), d) = Times(Ids(rs), d) + Times(Ids(ss), d)
  BY <1>2, <1>3, TimesJoined
<1> QED
  BY <1>1, <1>5, <1>6, Zenon DEF Cnt, ts

LEMMA CntTail ==
    ASSUME NEW R, Named(R), NEW rs \in Seq(R), rs # <<>>, NEW d
    PROVE  /\ Head(rs) \in R /\ Tail(rs) \in Seq(R)
           /\ Cnt(rs, d) = One(Head(rs).id = d) + Cnt(Tail(rs), d)
<1> DEFINE ts == Tail(rs)
           x == Ids(rs)
           n == Len(rs)
<1>1. n \in Nat \ {0} /\ Head(rs) = rs[1] /\ Head(rs) \in R /\ ts \in Seq(R) /\ Len(ts) = n - 1
      /\ \A i \in 1 .. n - 1 : ts[i] = rs[i + 1]
  OBVIOUS
<1>2. x \in Seq(Nat) /\ Len(x) = n /\ \A i \in 1 .. n : x[i] = rs[i].id
  BY IdsAre
<1> HIDE DEF ts
<1>3. Ids(ts) \in Seq(Nat) /\ Len(Ids(ts)) = Len(ts) /\ \A i \in 1 .. Len(ts) : Ids(ts)[i] = ts[i].id
  BY <1>1, IdsAre
<1> HIDE DEF x, n
<1>4. x # <<>> /\ Head(x) = Head(rs).id
  BY <1>1, <1>2
<1>5. Tail(x) = Ids(ts)
  <2> DEFINE y == Tail(x)
             z == Ids(ts)
  <2>1. y \in Seq(Nat) /\ Len(y) = n - 1 /\ \A i \in 1 .. n - 1 : y[i] = x[i + 1]
    BY <1>1, <1>2, <1>4
  <2>2. \A i \in 1 .. n - 1 : i + 1 \in 1 .. n
    BY <1>1
  <2> HIDE DEF y
  <2>3. ASSUME NEW i \in 1 .. n - 1
        PROVE  y[i] = z[i]
    <3>1. y[i] = x[i + 1] /\ x[i + 1] = rs[i + 1].id
      BY <1>2, <2>1, <2>2
    <3>2. z[i] = ts[i].id /\ ts[i] = rs[i + 1]
      BY <1>1, <1>3
    <3> QED
      BY <3>1, <3>2
  <2>4. z \in Seq(Nat) /\ Len(z) = n - 1
    BY <1>1, <1>3
  <2> HIDE DEF z
  <2>5. y = z
    BY <1>1, <2>1, <2>3, <2>4
  <2> QED
    BY <2>5 DEF y, z
<1>6. Times(x, d) = One(Head(x) = d) + Times(Tail(x), d)
  BY <1>2, <1>4, TimesTail
<1> QED
  BY <1>1, <1>4, <1>5, <1>6, Zenon DEF Cnt, ts, x

(* The records of a transform.                                              *)
RecordType == [id: Nat, delivered: BOOLEAN, malformed: BOOLEAN]
Records == Seq(RecordType)
WayType == [held: Records, next: Nat, out: Records]

LEMMA RecordsNamed == Named(RecordType)
BY DEF Named, RecordType

LEMMA CountsAreNumbers == \A rs \in Records : \A d : Cnt(rs, d) \in Nat
BY RecordsNamed, CntNat DEF Records

LEMMA OneIsNumber == \A b : One(b) \in Nat
BY DEF One

(* What is held and what has gone on are what was there, what was given and *)
(* what has been numbered since.                                            *)
Carries(w, base, given, first) ==
    /\ w \in WayType /\ w.next >= first
    /\ \A d \in Nat : Cnt(w.held, d) + Cnt(w.out, d)
                        = (Cnt(base, d) + Cnt(given, d)) + One(d \in first + 1 .. w.next)

LEMMA CarriesOn ==
    ASSUME NEW base \in Records, NEW given \in Records, NEW first \in Nat, NEW r \in RecordType,
           NEW w, Carries(w, base, given, first), NEW s \in RecordType, s.id = r.id
    PROVE  /\ Carries([w EXCEPT !.out = Append(w.out, s)], base, Append(given, r), first)
           /\ Carries([w EXCEPT !.held = Append(w.held, s)], base, Append(given, r), first)
<1> DEFINE h == Append(w.held, s)
           o == Append(w.out, s)
           g == Append(given, r)
<1>1. w \in WayType /\ w.held \in Records /\ w.out \in Records /\ w.next \in Nat /\ w.next >= first
  BY DEF Carries, WayType
<1>2. h \in Records /\ o \in Records
  BY <1>1 DEF Records
<1>3. ASSUME NEW d \in Nat
      PROVE  /\ Cnt(h, d) = Cnt(w.held, d) + One(r.id = d)
             /\ Cnt(o, d) = Cnt(w.out, d) + One(r.id = d)
             /\ Cnt(g, d) = Cnt(given, d) + One(r.id = d)
  <2>1. /\ Cnt(h, d) = Cnt(w.held, d) + One(s.id = d)
        /\ Cnt(o, d) = Cnt(w.out, d) + One(s.id = d)
        /\ Cnt(g, d) = Cnt(given, d) + One(r.id = d)
    BY <1>1, RecordsNamed, CntAppend DEF Records
  <2> QED
    BY <2>1
<1> HIDE DEF h, o, g
<1>4. ASSUME NEW d \in Nat
      PROVE  /\ Cnt(h, d) + Cnt(w.out, d) = (Cnt(base, d) + Cnt(g, d)) + One(d \in first + 1 .. w.next)
             /\ Cnt(w.held, d) + Cnt(o, d) = (Cnt(base, d) + Cnt(g, d)) + One(d \in first + 1 .. w.next)
  <2> DEFINE x == Cnt(w.held, d)
             y == Cnt(w.out, d)
             b == Cnt(base, d)
             c == Cnt(given, d)
             e == One(r.id = d)
             n == One(d \in first + 1 .. w.next)
  <2>1. x + y = (b + c) + n
    BY DEF Carries
  <2>2. Cnt(h, d) = x + e /\ Cnt(o, d) = y + e /\ Cnt(g, d) = c + e
    BY <1>3
  <2>3. x \in Nat /\ y \in Nat /\ b \in Nat /\ c \in Nat /\ e \in Nat /\ n \in Nat
    BY <1>1, CountsAreNumbers, OneIsNumber
  <2> HIDE DEF x, y, b, c, e, n
  <2>4. (x + e) + y = (b + (c + e)) + n /\ x + (y + e) = (b + (c + e)) + n
    BY <2>1, <2>3
  <2> QED
    BY <2>2, <2>4 DEF x, y, b, n
<1>5. ASSUME NEW v, v = [w EXCEPT !.held = h]
      PROVE  Carries(v, base, g, first)
  <2>1. v \in WayType /\ v.held = h /\ v.out = w.out /\ v.next = w.next
    BY <1>1, <1>2, <1>5 DEF WayType
  <2> QED
    BY <1>1, <1>4, <2>1 DEF Carries
<1>6. ASSUME NEW v, v = [w EXCEPT !.out = o]
      PROVE  Carries(v, base, g, first)
  <2>1. v \in WayType /\ v.held = w.held /\ v.out = o /\ v.next = w.next
    BY <1>1, <1>2, <1>6 DEF WayType
  <2> QED
    BY <1>1, <1>4, <2>1 DEF Carries
<1> QED
  BY <1>5, <1>6 DEF h, o, g

(* A copy is a record more, under the number that follows.                  *)
LEMMA CarriesCopy ==
    ASSUME NEW base \in Records, NEW given \in Records, NEW first \in Nat, NEW r \in RecordType,
           NEW w, Carries(w, base, given, first)
    PROVE  Carries(Way(w.held, w.next + 1, Append(Append(w.out, r), [r EXCEPT !.id = w.next + 1])),
                   base, Append(given, r), first)
<1> DEFINE copy == [r EXCEPT !.id = w.next + 1]
           o == Append(w.out, r)
           u == Append(o, copy)
           g == Append(given, r)
           v == Way(w.held, w.next + 1, u)
<1>1. w \in WayType /\ w.held \in Records /\ w.out \in Records /\ w.next \in Nat /\ w.next >= first
  BY DEF Carries, WayType
<1>2. copy \in RecordType /\ copy.id = w.next + 1
  BY <1>1 DEF RecordType
<1> HIDE DEF copy
<1>3. o \in Records /\ u \in Records
  BY <1>1, <1>2 DEF Records
<1>4. ASSUME NEW d \in Nat
      PROVE  /\ Cnt(u, d) = Cnt(o, d) + One(copy.id = d)
             /\ Cnt(o, d) = Cnt(w.out, d) + One(r.id = d)
             /\ Cnt(g, d) = Cnt(given, d) + One(r.id = d)
  <2> HIDE DEF o
  <2>1. Cnt(u, d) = Cnt(o, d) + One(copy.id = d)
    BY <1>2, <1>3, RecordsNamed, CntAppend DEF Records
  <2>2. /\ Cnt(o, d) = Cnt(w.out, d) + One(r.id = d)
        /\ Cnt(g, d) = Cnt(given, d) + One(r.id = d)
    BY <1>1, RecordsNamed, CntAppend DEF Records, o
  <2> QED
    BY <2>1, <2>2
<1> HIDE DEF o, u, g
<1>5. v \in WayType /\ v.held = w.held /\ v.out = u /\ v.next = w.next + 1
  BY <1>1, <1>3 DEF WayType, Way
<1>6. ASSUME NEW d \in Nat
      PROVE  Cnt(w.held, d) + Cnt(u, d) = (Cnt(base, d) + Cnt(g, d)) + One(d \in first + 1 .. w.next + 1)
  <2> DEFINE x == Cnt(w.held, d)
             y == Cnt(w.out, d)
             b == Cnt(base, d)
             c == Cnt(given, d)
             e == One(r.id = d)
             f == One(copy.id = d)
             n == One(d \in first + 1 .. w.next)
             k == One(d \in first + 1 .. w.next + 1)
  <2>1. x + y = (b + c) + n
    BY DEF Carries
  <2>2. Cnt(u, d) = (y + e) + f /\ Cnt(g, d) = c + e
    BY <1>4
  <2>3. x \in Nat /\ y \in Nat /\ b \in Nat /\ c \in Nat /\ e \in Nat /\ n \in Nat /\ f \in Nat /\ k \in Nat
    BY <1>1, CountsAreNumbers, OneIsNumber
  <2>4. k = n + f
    BY <1>1, <1>2 DEF One
  <2> HIDE DEF x, y, b, c, e, n, f, k
  <2>5. x + ((y + e) + f) = (b + (c + e)) + (n + f)
    BY <2>1, <2>3
  <2> QED
    BY <2>2, <2>4, <2>5 DEF x, b, k
<1> HIDE DEF v
<1>7. Carries(v, base, g, first)
  BY <1>1, <1>5, <1>6 DEF Carries
<1> QED
  BY <1>7 DEF v, u, o, copy, g

Passes(w, s) == [w EXCEPT !.out = Append(w.out, s)]
Holds(w, r) == [w EXCEPT !.held = Append(w.held, r)]
Doubles(w, r) == Way(w.held, w.next + 1, Append(Append(w.out, r), [r EXCEPT !.id = w.next + 1]))

LEMMA TreatedIs ==
    ASSUME NEW r \in RecordType, NEW w, NEW a, NEW t, NEW struck
    PROVE  \/ \E s \in RecordType : s.id = r.id /\ Treated(a, t, struck, r, w) = Passes(w, s)
           \/ Treated(a, t, struck, r, w) = Holds(w, r)
           \/ Treated(a, t, struck, r, w) = Doubles(w, r)
<1> DEFINE lost == [Record(r.id) EXCEPT !.delivered = FALSE]
           spoilt == [r EXCEPT !.malformed = TRUE]
<1>1. lost \in RecordType /\ lost.id = r.id /\ spoilt \in RecordType /\ spoilt.id = r.id
  BY DEF RecordType, Record
<1>2. Treated(a, t, struck, r, w) \in
        {Passes(w, r), Passes(w, lost), Passes(w, spoilt), Holds(w, r), Doubles(w, r)}
  <2> HIDE DEF lost, spoilt
  <2> QED
    BY DEF Treated, Multiplies, Passes, Holds, Doubles, lost, spoilt
<1> HIDE DEF lost, spoilt
<1> QED
  BY <1>1, <1>2

LEMMA TreatedType ==
    ASSUME NEW r \in RecordType, NEW w \in WayType, NEW a, NEW t, NEW struck
    PROVE  Treated(a, t, struck, r, w) \in WayType
<1>1. w.held \in Records /\ w.out \in Records /\ w.next \in Nat
  BY DEF WayType
<1>2. ASSUME NEW s \in RecordType
      PROVE  Passes(w, s) \in WayType /\ Holds(w, s) \in WayType
  <2>1. Append(w.out, s) \in Records /\ Append(w.held, s) \in Records
    BY <1>1 DEF Records
  <2> QED
    BY <2>1 DEF Passes, Holds, WayType
<1>3. Doubles(w, r) \in WayType
  <2> DEFINE copy == [r EXCEPT !.id = w.next + 1]
  <2>1. copy \in RecordType
    BY <1>1 DEF RecordType
  <2> HIDE DEF copy
  <2>2. Append(Append(w.out, r), copy) \in Records
    BY <1>1, <2>1 DEF Records
  <2> QED
    BY <1>1, <2>2 DEF Doubles, Way, WayType, copy
<1> QED
  BY <1>2, <1>3, TreatedIs

LEMMA TreatedCarries ==
    ASSUME NEW base \in Records, NEW given \in Records, NEW first \in Nat, NEW r \in RecordType,
           NEW w, Carries(w, base, given, first), NEW a, NEW t, NEW struck
    PROVE  Carries(Treated(a, t, struck, r, w), base, Append(given, r), first)
<1>1. CASE \E s \in RecordType : s.id = r.id /\ Treated(a, t, struck, r, w) = Passes(w, s)
  <2>1. PICK s \in RecordType : s.id = r.id /\ Treated(a, t, struck, r, w) = Passes(w, s)
    BY <1>1
  <2>2. Carries(Passes(w, s), base, Append(given, r), first)
    BY <2>1, CarriesOn DEF Passes
  <2> QED
    BY <2>1, <2>2
<1>2. CASE Treated(a, t, struck, r, w) = Holds(w, r)
  <2>1. Carries(Holds(w, r), base, Append(given, r), first)
    BY CarriesOn DEF Holds
  <2> QED
    BY <1>2, <2>1
<1>3. CASE Treated(a, t, struck, r, w) = Doubles(w, r)
  <2>1. Carries(Doubles(w, r), base, Append(given, r), first)
    BY CarriesCopy DEF Doubles
  <2> QED
    BY <1>3, <2>1
<1> QED
  BY <1>1, <1>2, <1>3, TreatedIs

(* The records go through the application one by one.                       *)
LEMMA MappedIs ==
    ASSUME NEW a, a.held \in Records, NEW t, NEW records \in Records, NEW hit, NEW first \in Nat
    PROVE  \E w : /\ Mapped(a, t, records, hit, first) = w[Len(records)]
                  /\ w[0] = Way(a.held, first, <<>>)
                  /\ \A n \in 1 .. Len(records) : w[n] = Treated(a, t, n \in hit, records[n], w[n - 1])
<1> DEFINE m == Len(records)
           b == Way(a.held, first, <<>>)
           Fits(w) == w = [n \in 0 .. m |-> IF n = 0 THEN b ELSE Treated(a, t, n \in hit, records[n], w[n - 1])]
           step == [x \in (1 .. m) \X WayType |-> Treated(a, t, x[1] \in hit, records[x[1]], x[2])]
<1>1. m \in Nat /\ \A n \in 1 .. m : records[n] \in RecordType
  BY DEF Records
<1>2. b \in WayType
  <2>1. <<>> \in Records
    BY DEF Records
  <2> QED
    BY <2>1 DEF Way, WayType
<1> HIDE DEF m, b
<1>3. Steps(step, m, WayType)
  <2>1. \A x \in (1 .. m) \X WayType : Treated(a, t, x[1] \in hit, records[x[1]], x[2]) \in WayType
    BY <1>1, TreatedType
  <2> QED
    BY <2>1 DEF Steps
<1>4. \A n \in 1 .. m : \A w \in WayType : step[<<n, w>>] = Treated(a, t, n \in hit, records[n], w)
  OBVIOUS
<1> HIDE DEF step
<1>5. PICK f : Runs(f, b, step, m, WayType)
  BY <1>1, <1>2, <1>3, Recursion
<1>6. f \in [0 .. m -> WayType] /\ f[0] = b /\ \A n \in 1 .. m : f[n] = step[<<n, f[n - 1]>>]
  BY <1>5 DEF Runs
<1>7. \A n \in 0 .. m : f[n] = IF n = 0 THEN b ELSE Treated(a, t, n \in hit, records[n], f[n - 1])
  <2> TAKE n \in 0 .. m
  <2>1. CASE n = 0
    BY <1>6, <2>1
  <2>2. CASE n # 0
    <3>1. n \in 1 .. m /\ n - 1 \in 0 .. m
      BY <1>1, <2>2
    <3>2. f[n - 1] \in WayType
      BY <1>6, <3>1
    <3> QED
      BY <1>4, <1>6, <2>2, <3>1, <3>2
  <2> QED
    BY <2>1, <2>2
<1>8. Fits(f)
  <2>1. f = [n \in 0 .. m |-> f[n]]
    BY <1>6
  <2> QED
    BY <1>7, <2>1
<1> DEFINE w == CHOOSE w : Fits(w)
<1>9. Fits(w)
  <2> HIDE DEF Fits
  <2> QED
    BY <1>8, Zenon
<1>10. Mapped(a, t, records, hit, first) = w[m]
  BY DEF Mapped, m, b
<1> HIDE DEF w
<1>11. w[0] = b /\ \A n \in 1 .. m : w[n] = Treated(a, t, n \in hit, records[n], w[n - 1])
  <2>1. \A n \in 0 .. m : w[n] = IF n = 0 THEN b ELSE Treated(a, t, n \in hit, records[n], w[n - 1])
    BY <1>9
  <2>2. 0 \in 0 .. m /\ \A n \in 1 .. m : n \in 0 .. m /\ n # 0
    BY <1>1
  <2> QED
    BY <2>1, <2>2
<1> QED
  BY <1>10, <1>11 DEF m, b

LEMMA MappedCarries ==
    ASSUME NEW a, a.held \in Records, NEW t, NEW records \in Records, NEW hit, NEW first \in Nat
    PROVE  Carries(Mapped(a, t, records, hit, first), a.held, records, first)
<1> DEFINE m == Len(records)
           given(n) == SubSeq(records, 1, n)
           none == <<>>
<1>1. PICK w : /\ Mapped(a, t, records, hit, first) = w[m]
               /\ w[0] = Way(a.held, first, none)
               /\ \A n \in 1 .. m : w[n] = Treated(a, t, n \in hit, records[n], w[n - 1])
  BY MappedIs
<1>2. m \in Nat /\ given(0) = none /\ given(m) = records /\ none \in Records
  BY DEF Records
<1>3. ASSUME NEW n \in 1 .. m
      PROVE  /\ given(n) = Append(given(n - 1), records[n])
             /\ given(n - 1) \in Records /\ records[n] \in RecordType
  BY DEF Records
<1>4. \A d : Cnt(none, d) = 0
  BY CntEmpty
<1> HIDE DEF given, m, none
<1>5. Carries(w[0], a.held, given(0), first)
  <2> DEFINE v == w[0]
  <2>1. v \in WayType /\ v.held = a.held /\ v.out = none /\ v.next = first
    BY <1>1, <1>2 DEF Way, WayType
  <2> HIDE DEF v
  <2>2. \A d \in Nat : Cnt(a.held, d) + 0 = (Cnt(a.held, d) + 0) + One(d \in first + 1 .. first)
    BY CountsAreNumbers DEF One
  <2>3. Carries(v, a.held, none, first)
    BY <1>4, <2>1, <2>2 DEF Carries
  <2> QED
    BY <1>2, <2>3 DEF v
<1> DEFINE T == {n \in 0 .. m : Carries(w[n], a.held, given(n), first)}
<1>6. ASSUME NEW n \in 1 .. m, n - 1 \in T
      PROVE  n \in T
  <2>1. Carries(w[n - 1], a.held, given(n - 1), first)
    BY <1>6
  <2>2. Carries(Treated(a, t, n \in hit, records[n], w[n - 1]), a.held, Append(given(n - 1), records[n]), first)
    BY <1>3, <2>1, TreatedCarries
  <2>3. Carries(w[n], a.held, given(n), first)
    BY <1>1, <1>3, <2>2
  <2>4. n \in 0 .. m
    BY <1>2
  <2> QED
    BY <2>3, <2>4
<1>7. m \in T
  <2>1. 0 \in T
    BY <1>2, <1>5
  <2> HIDE DEF T
  <2>2. \A n \in 0 .. m : n \in T
    BY <1>2, <1>6, <2>1, Upwards
  <2> QED
    BY <1>2, <2>2
<1> QED
  BY <1>1, <1>2, <1>7

(* What the reorder window lets go has only moved.                          *)
Moved(v, w) ==
    /\ v \in WayType /\ v.next = w.next
    /\ \A d \in Nat : Cnt(v.held, d) + Cnt(v.out, d) = Cnt(w.held, d) + Cnt(w.out, d)

LEMMA PoppedMoves ==
    ASSUME NEW w \in WayType, NEW a, a.width \in Nat, NEW struck
    PROVE  Moved(Popped(a, struck, w), w)
<1> DEFINE h == w.held
           o == w.out
<1>0. h \in Seq(RecordType) /\ o \in Seq(RecordType) /\ w.next \in Nat /\ Len(h) \in Nat
  BY DEF WayType, Records
<1>1. CASE Len(h) <= a.width
  <2>1. Popped(a, struck, w) = w
    BY <1>1 DEF Popped
  <2> QED
    BY <2>1 DEF Moved
<1>2. CASE ~ (Len(h) <= a.width) /\ ~ (Len(h) > 1 /\ struck)
  <2> DEFINE h1 == Tail(h)
             o1 == Append(o, Head(h))
             v == Way(h1, w.next, o1)
  <2>1. Popped(a, struck, w) = v
    BY <1>2 DEF Popped
  <2>2. h # <<>>
    BY <1>0, <1>2
  <2>3. ASSUME NEW d \in Nat
        PROVE  Head(h) \in RecordType /\ h1 \in Seq(RecordType) /\ Cnt(h, d) = One(Head(h).id = d) + Cnt(h1, d)
    <3> HIDE DEF h
    <3> QED
      BY <1>0, <2>2, RecordsNamed, CntTail
  <2>4. Head(h) \in RecordType /\ h1 \in Seq(RecordType) /\ o1 \in Seq(RecordType)
    BY <1>0, <2>3
  <2>5. ASSUME NEW d \in Nat
        PROVE  Cnt(o1, d) = Cnt(o, d) + One(Head(h).id = d)
    <3> HIDE DEF h, o
    <3> QED
      BY <1>0, <2>4, RecordsNamed, CntAppend
  <2>6. v \in WayType /\ v.next = w.next /\ v.held = h1 /\ v.out = o1
    BY <1>0, <2>4 DEF Way, WayType, Records
  <2> HIDE DEF v, h1, o1
  <2>7. ASSUME NEW d \in Nat
        PROVE  Cnt(h1, d) + Cnt(o1, d) = Cnt(h, d) + Cnt(o, d)
    <3> DEFINE x == Cnt(h1, d)
               y == Cnt(o, d)
               e == One(Head(h).id = d)
    <3>1. x \in Nat /\ y \in Nat /\ e \in Nat
      BY <1>0, <2>4, CountsAreNumbers, OneIsNumber DEF Records
    <3>2. Cnt(h, d) = e + x /\ Cnt(o1, d) = y + e
      BY <2>3, <2>5
    <3> HIDE DEF x, y, e
    <3>3. x + (y + e) = (e + x) + y
      BY <3>1
    <3> QED
      BY <3>2, <3>3 DEF x, y
  <2> QED
    BY <2>1, <2>6, <2>7 DEF Moved
<1>3. CASE ~ (Len(h) <= a.width) /\ Len(h) > 1 /\ struck
  <2> DEFINE h1 == Tail(h)
             h2 == Tail(h1)
             o1 == Append(o, Head(h1))
             o2 == Append(o1, Head(h))
             v == Way(h2, w.next, o2)
  <2>1. Popped(a, struck, w) = v
    BY <1>3 DEF Popped
  <2>2. h # <<>> /\ h1 # <<>>
    <3>1. Len(h1) = Len(h) - 1 /\ h # <<>>
      <4> HIDE DEF h
      <4> QED
        BY <1>0, <1>3
    <3> HIDE DEF h, h1
    <3>2. Len(h1) # 0
      BY <1>0, <1>3, <3>1
    <3> QED
      BY <3>1, <3>2
  <2>3. ASSUME NEW d \in Nat
        PROVE  Head(h) \in RecordType /\ h1 \in Seq(RecordType) /\ Cnt(h, d) = One(Head(h).id = d) + Cnt(h1, d)
    <3> HIDE DEF h
    <3> QED
      BY <1>0, <2>2, RecordsNamed, CntTail
  <2>4. ASSUME NEW d \in Nat
        PROVE  Head(h1) \in RecordType /\ h2 \in Seq(RecordType) /\ Cnt(h1, d) = One(Head(h1).id = d) + Cnt(h2, d)
    <3>1. h1 \in Seq(RecordType)
      BY <2>3
    <3> HIDE DEF h1
    <3> QED
      BY <2>2, <3>1, RecordsNamed, CntTail
  <2>5. /\ Head(h) \in RecordType /\ Head(h1) \in RecordType
        /\ h1 \in Seq(RecordType) /\ h2 \in Seq(RecordType)
    BY <2>3, <2>4
  <2>6. o1 \in Seq(RecordType)
    BY <1>0, <2>5
  <2>7. o2 \in Seq(RecordType)
    <3> HIDE DEF o1
    <3> QED
      BY <2>5, <2>6
  <2>8. ASSUME NEW d \in Nat
        PROVE  Cnt(o1, d) = Cnt(o, d) + One(Head(h1).id = d) /\ Cnt(o2, d) = Cnt(o1, d) + One(Head(h).id = d)
    <3>1. Cnt(o1, d) = Cnt(o, d) + One(Head(h1).id = d)
      <4> HIDE DEF h1, o
      <4> QED
        BY <1>0, <2>5, RecordsNamed, CntAppend
    <3>2. Cnt(o2, d) = Cnt(o1, d) + One(Head(h).id = d)
      <4> HIDE DEF h, o1
      <4> QED
        BY <2>5, <2>6, RecordsNamed, CntAppend
    <3> QED
      BY <3>1, <3>2
  <2>9. v \in WayType /\ v.next = w.next /\ v.held = h2 /\ v.out = o2
    BY <1>0, <2>5, <2>7 DEF Way, WayType, Records
  <2> HIDE DEF v, h1, h2, o1, o2
  <2>10. ASSUME NEW d \in Nat
         PROVE  Cnt(h2, d) + Cnt(o2, d) = Cnt(h, d) + Cnt(o, d)
    <3> DEFINE x == Cnt(h2, d)
               y == Cnt(o, d)
               e == One(Head(h).id = d)
               f == One(Head(h1).id = d)
    <3>1. x \in Nat /\ y \in Nat /\ e \in Nat /\ f \in Nat
      BY <1>0, <2>5, CountsAreNumbers, OneIsNumber DEF Records
    <3>2. Cnt(h, d) = e + (f + x) /\ Cnt(o2, d) = (y + f) + e
      BY <2>3, <2>4, <2>8
    <3> HIDE DEF x, y, e, f
    <3>3. x + ((y + f) + e) = (e + (f + x)) + y
      BY <3>1
    <3> QED
      BY <3>2, <3>3 DEF x, y
  <2> QED
    BY <2>1, <2>9, <2>10 DEF Moved
<1> QED
  BY <1>1, <1>2, <1>3

LEMMA PushedIs ==
    ASSUME NEW a, a.held \in Records, a.width \in Nat, NEW records \in Records, NEW hit, NEW first \in Nat
    PROVE  \E w : /\ Pushed(a, records, hit, first) = w[Len(records)]
                  /\ w[0] = Way(a.held \o records, first, <<>>)
                  /\ \A n \in 1 .. Len(records) : w[n] = Popped(a, n \in hit, w[n - 1])
<1> DEFINE m == Len(records)
           b == Way(a.held \o records, first, <<>>)
           Fits(w) == w = [n \in 0 .. m |-> IF n = 0 THEN b ELSE Popped(a, n \in hit, w[n - 1])]
           step == [x \in (1 .. m) \X WayType |-> Popped(a, x[1] \in hit, x[2])]
<1>1. m \in Nat
  BY DEF Records
<1>2. b \in WayType
  <2>1. <<>> \in Records /\ a.held \o records \in Records
    BY DEF Records
  <2> QED
    BY <2>1 DEF Way, WayType
<1> HIDE DEF m, b
<1>3. Steps(step, m, WayType)
  <2>1. \A x \in (1 .. m) \X WayType : Popped(a, x[1] \in hit, x[2]) \in WayType
    BY PoppedMoves DEF Moved
  <2> QED
    BY <2>1 DEF Steps
<1>4. \A n \in 1 .. m : \A w \in WayType : step[<<n, w>>] = Popped(a, n \in hit, w)
  OBVIOUS
<1> HIDE DEF step
<1>5. PICK f : Runs(f, b, step, m, WayType)
  BY <1>1, <1>2, <1>3, Recursion
<1>6. f \in [0 .. m -> WayType] /\ f[0] = b /\ \A n \in 1 .. m : f[n] = step[<<n, f[n - 1]>>]
  BY <1>5 DEF Runs
<1>7. \A n \in 0 .. m : f[n] = IF n = 0 THEN b ELSE Popped(a, n \in hit, f[n - 1])
  <2> TAKE n \in 0 .. m
  <2>1. CASE n = 0
    BY <1>6, <2>1
  <2>2. CASE n # 0
    <3>1. n \in 1 .. m /\ n - 1 \in 0 .. m
      BY <1>1, <2>2
    <3>2. f[n - 1] \in WayType
      BY <1>6, <3>1
    <3> QED
      BY <1>4, <1>6, <2>2, <3>1, <3>2
  <2> QED
    BY <2>1, <2>2
<1>8. Fits(f)
  <2>1. f = [n \in 0 .. m |-> f[n]]
    BY <1>6
  <2> QED
    BY <1>7, <2>1
<1> DEFINE w == CHOOSE w : Fits(w)
<1>9. Fits(w)
  <2> HIDE DEF Fits
  <2> QED
    BY <1>8, Zenon
<1>10. Pushed(a, records, hit, first) = w[m]
  BY DEF Pushed, m, b
<1> HIDE DEF w
<1>11. w[0] = b /\ \A n \in 1 .. m : w[n] = Popped(a, n \in hit, w[n - 1])
  <2>1. \A n \in 0 .. m : w[n] = IF n = 0 THEN b ELSE Popped(a, n \in hit, w[n - 1])
    BY <1>9
  <2>2. 0 \in 0 .. m /\ \A n \in 1 .. m : n \in 0 .. m /\ n # 0
    BY <1>1
  <2> QED
    BY <2>1, <2>2
<1> QED
  BY <1>10, <1>11 DEF m, b

LEMMA PushedCarries ==
    ASSUME NEW a, a.held \in Records, a.width \in Nat, NEW records \in Records, NEW hit, NEW first \in Nat
    PROVE  Carries(Pushed(a, records, hit, first), a.held, records, first)
<1> DEFINE m == Len(records)
           all == a.held \o records
           none == <<>>
<1>1. PICK w : /\ Pushed(a, records, hit, first) = w[m]
               /\ w[0] = Way(all, first, none)
               /\ \A n \in 1 .. m : w[n] = Popped(a, n \in hit, w[n - 1])
  BY PushedIs
<1>2. m \in Nat /\ none \in Records
  BY DEF Records
<1>3. all \in Records /\ \A d \in Nat : Cnt(all, d) = Cnt(a.held, d) + Cnt(records, d) /\ Cnt(none, d) = 0
  BY RecordsNamed, CntJoined, CntEmpty DEF Records
<1> HIDE DEF m, all, none
<1>4. Carries(w[0], a.held, records, first)
  <2> DEFINE v == w[0]
  <2>1. v \in WayType /\ v.held = all /\ v.out = none /\ v.next = first
    BY <1>1, <1>2, <1>3 DEF Way, WayType
  <2> HIDE DEF v
  <2>2. ASSUME NEW d \in Nat
        PROVE  (Cnt(a.held, d) + Cnt(records, d)) + 0
                 = (Cnt(a.held, d) + Cnt(records, d)) + One(d \in first + 1 .. first)
    BY DEF One
  <2>3. Carries(v, a.held, records, first)
    BY <1>3, <2>1, <2>2 DEF Carries
  <2> QED
    BY <2>3 DEF v
<1> DEFINE T == {n \in 0 .. m : Carries(w[n], a.held, records, first)}
<1>5. ASSUME NEW n \in 1 .. m, n - 1 \in T
      PROVE  n \in T
  <2> DEFINE u == w[n - 1]
  <2>1. Carries(u, a.held, records, first)
    BY <1>5
  <2> HIDE DEF u
  <2>2. Moved(Popped(a, n \in hit, u), u)
    BY <2>1, PoppedMoves DEF Carries
  <2>3. Carries(Popped(a, n \in hit, u), a.held, records, first)
    BY <2>1, <2>2 DEF Carries, Moved
  <2>4. n \in 0 .. m /\ w[n] = Popped(a, n \in hit, u)
    BY <1>1, <1>2 DEF u
  <2> QED
    BY <2>3, <2>4
<1>6. m \in T
  <2>1. 0 \in T
    BY <1>2, <1>4
  <2> HIDE DEF T
  <2>2. \A n \in 0 .. m : n \in T
    BY <1>2, <1>5, <2>1, Upwards
  <2> QED
    BY <1>2, <2>2
<1> QED
  BY <1>1, <1>6

(* What a layer holds back.                                                 *)
Kinds == {p.kind : p \in Offers}
AppType == [id: Nat, kind: Kinds, from: Nat, until: Nat, width: Nat, held: Records]
LayerType == [active: Seq(AppType), seq: Nat, next: Nat, pending: Records]
Helds(active) == [i \in DOMAIN active |-> Ids(active[i].held)]
InHand(y, d) == Cnt(y.pending, d) + Times(FlattenSeq(Helds(y.active)), d)

LEMMA HeldsAre ==
    ASSUME NEW active \in Seq(AppType)
    PROVE  /\ Len(active) \in Nat /\ Helds(active) \in Seq(Seq(Nat)) /\ Len(Helds(active)) = Len(active)
           /\ \A i \in 1 .. Len(active) : /\ active[i] \in AppType /\ active[i].held \in Records
                                         /\ Helds(active)[i] = Ids(active[i].held)
<1> DEFINE V == Seq(Nat)
           m == Len(active)
           e(i) == Ids(active[i].held)
<1>1. \A i \in 1 .. m : active[i] \in AppType
  OBVIOUS
<1>2. \A i \in 1 .. m : active[i].held \in Records
  BY <1>1 DEF AppType
<1>3. \A i \in 1 .. m : e(i) \in V
  BY <1>2, RecordsNamed, IdsAre DEF Records
<1>4. Helds(active) = [i \in 1 .. m |-> e(i)] /\ m \in Nat
  BY DEF Helds
<1> HIDE DEF V, m, e
<1>5. Helds(active) \in Seq(V) /\ Len(Helds(active)) = m /\ \A i \in 1 .. m : Helds(active)[i] = e(i)
  BY <1>3, <1>4
<1> QED
  BY <1>1, <1>2, <1>4, <1>5 DEF V, m, e

LEMMA InHandNat ==
    ASSUME NEW y \in LayerType, NEW d
    PROVE  /\ Cnt(y.pending, d) \in Nat /\ Times(FlattenSeq(Helds(y.active)), d) \in Nat
           /\ InHand(y, d) \in Nat
<1>1. y.active \in Seq(AppType) /\ y.pending \in Records
  BY DEF LayerType
<1>2. Helds(y.active) \in Seq(Seq(Nat))
  BY <1>1, HeldsAre
<1>3. FlattenSeq(Helds(y.active)) \in Seq(Nat)
  BY <1>2, FlattenSums
<1>4. Cnt(y.pending, d) \in Nat /\ Times(FlattenSeq(Helds(y.active)), d) \in Nat
  BY <1>1, <1>3, CountsAreNumbers, SpotsFinite
<1> QED
  BY <1>4 DEF InHand

(* An application holds nothing when it is new.                             *)
LEMMA AppliedHolds ==
    ASSUME NEW y \in LayerType, NEW p \in Offers
    PROVE  /\ Applied(y, p) \in LayerType /\ Applied(y, p).next = y.next
           /\ \A d : InHand(Applied(y, p), d) = InHand(y, d)
<1> DEFINE a == Application(y.seq, p)
           s == Append(y.active, a)
<1>1. y.active \in Seq(AppType) /\ y.seq \in Nat /\ y.next \in Nat /\ y.pending \in Records
  BY DEF LayerType
<1>2. a \in AppType /\ a.held = <<>>
  <2>1. p.from \in Nat /\ p.until \in Nat /\ p.width \in Nat /\ p.kind \in Kinds
    BY RunAssumption DEF Kinds
  <2>2. <<>> \in Records
    BY DEF Records
  <2> QED
    BY <1>1, <2>1, <2>2 DEF Application, AppType
<1> HIDE DEF a
<1>3. /\ s \in Seq(AppType) /\ Len(s) = Len(y.active) + 1 /\ s[Len(y.active) + 1] = a
      /\ \A i \in 1 .. Len(y.active) : s[i] = y.active[i]
  BY <1>1, <1>2
<1> DEFINE n == y.seq + 1
<1>4. Applied(y, p) = [y EXCEPT !.active = s, !.seq = n] /\ n \in Nat
  BY <1>1 DEF Applied, a
<1> HIDE DEF s, n
<1>5. /\ Applied(y, p) \in LayerType /\ Applied(y, p).next = y.next
      /\ Applied(y, p).active = s /\ Applied(y, p).pending = y.pending
  BY <1>1, <1>3, <1>4 DEF LayerType
<1> DEFINE ss == Helds(y.active)
           tt == Helds(s)
           m == Len(y.active)
<1>6. m \in Nat /\ ss \in Seq(Seq(Nat)) /\ Len(ss) = m /\ \A i \in 1 .. m : ss[i] = Ids(y.active[i].held)
  BY <1>1, HeldsAre
<1>7. tt \in Seq(Seq(Nat)) /\ Len(tt) = m + 1 /\ \A i \in 1 .. m + 1 : tt[i] = Ids(s[i].held)
  BY <1>3, HeldsAre
<1> HIDE DEF ss, tt, m
<1>8. tt[m + 1] = <<>> /\ \A i \in 1 .. m : tt[i] = ss[i]
  <2>1. m + 1 \in 1 .. m + 1 /\ \A i \in 1 .. m : i \in 1 .. m + 1
    BY <1>6
  <2>2. tt[m + 1] = Ids(s[m + 1].held) /\ s[m + 1] = a /\ Ids(<<>>) = <<>>
    <3>1. Ids(<<>>) = <<>>
      BY DEF Ids
    <3> QED
      BY <1>3, <1>7, <2>1, <3>1 DEF m
  <2>3. \A i \in 1 .. m : tt[i] = Ids(s[i].held) /\ s[i] = y.active[i]
    BY <1>3, <1>7, <2>1 DEF m
  <2> QED
    BY <1>2, <1>6, <2>2, <2>3
<1>9. ASSUME NEW d
      PROVE  Times(FlattenSeq(tt), d) = Times(FlattenSeq(ss), d)
  BY <1>6, <1>7, <1>8, FlattenGrown
<1> QED
  BY <1>5, <1>9 DEF InHand, ss, tt

(* What a cleared application held is dropped, and goes on all the same.    *)
LEMMA DiscardedCount ==
    ASSUME NEW rs \in Records
    PROVE  Discarded(rs) \in Records /\ \A d : Cnt(Discarded(rs), d) = Cnt(rs, d)
<1> DEFINE e(i) == [rs[i] EXCEPT !.delivered = FALSE]
<1>1. Discarded(rs) = [i \in 1 .. Len(rs) |-> e(i)] /\ Len(rs) \in Nat /\ DOMAIN rs = 1 .. Len(rs)
  BY DEF Discarded, Records
<1>2. \A i \in 1 .. Len(rs) : e(i) \in RecordType /\ e(i).id = rs[i].id
  <2> TAKE i \in 1 .. Len(rs)
  <2>1. rs[i] \in RecordType
    BY DEF Records
  <2> QED
    BY <2>1 DEF RecordType
<1> HIDE DEF e
<1>3. Discarded(rs) \in Records
  BY <1>1, <1>2 DEF Records
<1>4. Ids(Discarded(rs)) = Ids(rs)
  BY <1>1, <1>2 DEF Ids
<1> QED
  BY <1>3, <1>4 DEF Cnt

LEMMA ClearedHolds ==
    ASSUME NEW y \in LayerType, NEW id, Known(y, id)
    PROVE  /\ Cleared(y, id) \in LayerType /\ Cleared(y, id).next = y.next
           /\ \A d : InHand(Cleared(y, id), d) = InHand(y, d)
<1> DEFINE i == Place(Ids(y.active), id)
           m == Len(y.active)
           h == y.active[i].held
           s == RemoveAt(y.active, i)
           q == y.pending \o Discarded(h)
           z == Cleared(y, id)
<1>1. y.active \in Seq(AppType) /\ y.seq \in Nat /\ y.next \in Nat /\ y.pending \in Records
  BY DEF LayerType
<1>2. m \in Nat /\ DOMAIN y.active = 1 .. m /\ IsList(y.active)
  BY <1>1 DEF IsList
<1>3. i \in 1 .. m
  <2>1. PICK j \in DOMAIN y.active : y.active[j].id = id
    BY DEF Known
  <2>2. j \in DOMAIN Ids(y.active) /\ Ids(y.active)[j] = id /\ DOMAIN Ids(y.active) = 1 .. m
    BY <1>2, <2>1 DEF Ids
  <2> QED
    BY <2>2 DEF Place
<1>4. z = [y EXCEPT !.active = s, !.pending = q]
  BY DEF Cleared, Kept, HeldBy
<1> HIDE DEF i, z
<1>5. y.active[i] \in AppType /\ h \in Records
  BY <1>1, <1>3, HeldsAre
<1>6. q \in Records /\ \A d : Cnt(q, d) = Cnt(y.pending, d) + Cnt(h, d)
  <2> HIDE DEF h
  <2>1. Discarded(h) \in Records /\ \A d : Cnt(Discarded(h), d) = Cnt(h, d)
    BY <1>5, DiscardedCount
  <2>2. \A d : q \in Records /\ Cnt(q, d) = Cnt(y.pending, d) + Cnt(Discarded(h), d)
    BY <1>1, <2>1, RecordsNamed, CntJoined DEF Records
  <2> QED
    BY <2>1, <2>2
<1>7. /\ s \in Seq(AppType) /\ Len(s) = m - 1
      /\ \A j \in 1 .. m - 1 : s[j] = y.active[IF j < i THEN j ELSE j + 1]
  <2>1. /\ IsList(s) /\ Len(s) = m - 1
        /\ \A j \in 1 .. m - 1 : s[j] = y.active[IF j < i THEN j ELSE j + 1]
    BY <1>2, <1>3, RemovedFromList
  <2> HIDE DEF s
  <2>2. ASSUME NEW j \in 1 .. m - 1
        PROVE  s[j] \in AppType
    <3>1. j \in 1 .. m /\ j + 1 \in 1 .. m
      BY <1>2
    <3> QED
      BY <1>1, <2>1, <3>1
  <2>3. s = [j \in 1 .. m - 1 |-> s[j]] /\ m - 1 \in Nat
    BY <1>2, <1>3, <2>1 DEF IsList
  <2>4. s \in Seq(AppType)
    <3> HIDE DEF m
    <3> QED
      BY <2>2, <2>3
  <2> QED
    BY <2>1, <2>4
<1> HIDE DEF q, s
<1>8. z \in LayerType /\ z.next = y.next /\ z.active = s /\ z.pending = q
  BY <1>1, <1>4, <1>6, <1>7 DEF LayerType
<1> DEFINE ss == Helds(y.active)
           tt == Helds(s)
<1>9. ss \in Seq(Seq(Nat)) /\ Len(ss) = m /\ \A j \in 1 .. m : ss[j] = Ids(y.active[j].held)
  BY <1>1, HeldsAre
<1>10. tt \in Seq(Seq(Nat)) /\ Len(tt) = m - 1 /\ \A j \in 1 .. m - 1 : tt[j] = Ids(s[j].held)
  BY <1>7, HeldsAre
<1> HIDE DEF ss, tt, m
<1>11. \A j \in 1 .. m - 1 : tt[j] = ss[IF j < i THEN j ELSE j + 1]
  <2> TAKE j \in 1 .. m - 1
  <2>1. j \in 1 .. m /\ j + 1 \in 1 .. m
    BY <1>2
  <2> QED
    BY <1>7, <1>9, <1>10, <2>1
<1>12. ASSUME NEW d
       PROVE  Times(FlattenSeq(ss), d) = Times(FlattenSeq(tt), d) + Times(ss[i], d)
  BY <1>3, <1>9, <1>10, <1>11, FlattenRemoved
<1>13. ASSUME NEW d
       PROVE  InHand(z, d) = InHand(y, d)
  <2> DEFINE x == Cnt(y.pending, d)
             k == Cnt(h, d)
             t == Times(FlattenSeq(tt), d)
  <2>1. ss[i] = Ids(h)
    BY <1>3, <1>9
  <2>2. Times(FlattenSeq(ss), d) = t + k
    BY <1>12, <2>1 DEF Cnt
  <2>3. InHand(z, d) = (x + k) + t
    BY <1>6, <1>8 DEF InHand, tt
  <2>4. InHand(y, d) = x + (t + k)
    BY <2>2 DEF InHand, ss
  <2>5. x \in Nat /\ k \in Nat /\ t \in Nat
    BY <1>1, <1>5, <1>8, CountsAreNumbers, InHandNat DEF tt
  <2> HIDE DEF x, k, t
  <2> QED
    BY <2>3, <2>4, <2>5
<1> QED
  BY <1>8, <1>13 DEF z

(* A transform moves records between what its application holds and what    *)
(* goes on.                                                                 *)
LEMMA TransformedHolds ==
    ASSUME NEW y \in LayerType, NEW i \in 1 .. Len(y.active), NEW records \in Records, NEW t, NEW hit,
           NEW done, done = Transformed(y, i, records, t, hit)
    PROVE  /\ done.layer \in LayerType /\ done.layer.next >= y.next /\ done.out \in Records
           /\ \A d \in Nat : InHand(done.layer, d) + Cnt(done.out, d)
                = (InHand(y, d) + Cnt(records, d)) + One(d \in y.next + 1 .. done.layer.next)
<1> DEFINE a == y.active[i]
           way == IF a.kind = "reorder" THEN Pushed(a, records, hit, y.next)
                                        ELSE Mapped(a, t, records, hit, y.next)
           m == Len(y.active)
           s == [y.active EXCEPT ![i].held = way.held]
           z == done.layer
<1>1. y.active \in Seq(AppType) /\ y.seq \in Nat /\ y.next \in Nat /\ y.pending \in Records
  BY DEF LayerType
<1>2. m \in Nat /\ DOMAIN y.active = 1 .. m /\ \A j \in 1 .. m : y.active[j] \in AppType
  BY <1>1
<1>3. a \in AppType /\ a.held \in Records /\ a.width \in Nat
  <2>1. a \in AppType
    BY <1>2
  <2> QED
    BY <2>1 DEF AppType
<1>4. Carries(way, a.held, records, y.next)
  <2> HIDE DEF a
  <2>1. Carries(Pushed(a, records, hit, y.next), a.held, records, y.next)
    BY <1>1, <1>3, PushedCarries
  <2>2. Carries(Mapped(a, t, records, hit, y.next), a.held, records, y.next)
    BY <1>1, <1>3, MappedCarries
  <2> QED
    BY <2>1, <2>2
<1>5. done.layer = [y EXCEPT !.active = s, !.next = way.next] /\ done.out = way.out
  BY DEF Transformed
<1> HIDE DEF way
<1>6. way.held \in Records /\ way.out \in Records /\ way.next \in Nat /\ way.next >= y.next
  BY <1>4 DEF Carries, WayType
<1>7. /\ s \in Seq(AppType) /\ Len(s) = m /\ s[i].held = way.held
      /\ \A j \in 1 .. m : j # i => s[j] = y.active[j]
  <2> DEFINE b == [a EXCEPT !.held = way.held]
  <2>1. b \in AppType /\ b.held = way.held
    BY <1>3, <1>6 DEF AppType
  <2>2. s = [y.active EXCEPT ![i] = b]
    BY <1>2
  <2> HIDE DEF a, b, s
  <2> QED
    BY <1>1, <1>2, <2>1, <2>2
<1> HIDE DEF a, s, z
<1>8. z \in LayerType /\ z.next = way.next /\ z.active = s /\ z.pending = y.pending
  BY <1>1, <1>5, <1>6, <1>7 DEF LayerType, z
<1> DEFINE ss == Helds(y.active)
           tt == Helds(s)
<1>9. ss \in Seq(Seq(Nat)) /\ Len(ss) = m /\ \A j \in 1 .. m : ss[j] = Ids(y.active[j].held)
  BY <1>1, HeldsAre
<1>10. tt \in Seq(Seq(Nat)) /\ Len(tt) = m /\ \A j \in 1 .. m : tt[j] = Ids(s[j].held)
  BY <1>7, HeldsAre
<1> HIDE DEF ss, tt, m
<1>11. i \in 1 .. m
  BY DEF m
<1>12. ss[i] = Ids(a.held) /\ tt[i] = Ids(way.held) /\ \A j \in 1 .. m : j # i => tt[j] = ss[j]
  BY <1>7, <1>9, <1>10, <1>11 DEF a
<1>13. ASSUME NEW d \in Nat
       PROVE  InHand(z, d) + Cnt(done.out, d)
                = (InHand(y, d) + Cnt(records, d)) + One(d \in y.next + 1 .. z.next)
  <2> DEFINE x == Cnt(y.pending, d)
             f == Times(FlattenSeq(ss), d)
             g == Times(FlattenSeq(tt), d)
             h == Cnt(a.held, d)
             k == Cnt(way.held, d)
             o == Cnt(way.out, d)
             r == Cnt(records, d)
             n == One(d \in y.next + 1 .. way.next)
  <2>1. g + h = f + k
    <3>1. Times(FlattenSeq(tt), d) + Times(ss[i], d) = Times(FlattenSeq(ss), d) + Times(tt[i], d)
      <4>1. /\ ss \in Seq(Seq(Nat)) /\ tt \in Seq(Seq(Nat)) /\ Len(tt) = Len(ss) /\ i \in 1 .. Len(ss)
            /\ \A j \in 1 .. Len(ss) : j # i => tt[j] = ss[j]
        BY <1>9, <1>10, <1>11, <1>12
      <4> QED
        BY <4>1, FlattenOne
    <3> QED
      BY <1>12, <3>1 DEF Cnt
  <2>2. k + o = (h + r) + n
    BY <1>4 DEF Carries
  <2>3. /\ x \in Nat /\ f \in Nat /\ g \in Nat /\ h \in Nat /\ k \in Nat
        /\ o \in Nat /\ r \in Nat /\ n \in Nat
    BY <1>1, <1>3, <1>6, <1>8, CountsAreNumbers, OneIsNumber, InHandNat DEF ss, tt
  <2>4. InHand(z, d) = x + g /\ InHand(y, d) = x + f
    BY <1>8 DEF InHand, ss, tt
  <2> HIDE DEF x, f, g, h, k, o, r, n
  <2>5. (x + g) + o = ((x + f) + r) + n
    BY <2>1, <2>2, <2>3
  <2> QED
    BY <1>5, <1>8, <2>4, <2>5 DEF o, r, n
<1> QED
  BY <1>5, <1>6, <1>8, <1>13 DEF z

(* How often an identity stands in lists of records put end to end.         *)
LEMMA FlattenIds ==
    ASSUME NEW rss \in Seq(Records), NEW ss \in Seq(Seq(Nat)), Len(ss) = Len(rss),
           \A i \in 1 .. Len(rss) : ss[i] = Ids(rss[i])
    PROVE  FlattenSeq(rss) \in Records /\ \A d : Cnt(FlattenSeq(rss), d) = Times(FlattenSeq(ss), d)
<1> DEFINE m == Len(rss)
<1>1. m \in Nat /\ \A i \in 1 .. m : rss[i] \in Records
  OBVIOUS
<1>2. FlattenSeq(rss) \in Records
  BY FlattenSums DEF Records
<1>3. ASSUME NEW d
      PROVE  Cnt(FlattenSeq(rss), d) = Times(FlattenSeq(ss), d)
  <2>1. PICK P : Sums(P, ss, d) /\ Times(FlattenSeq(ss), d) = P[m]
    BY FlattenSums
  <2>2. P[0] = 0 /\ \A k \in 1 .. m : P[k] = P[k - 1] + Cnt(rss[k], d)
    BY <2>1 DEF Sums, Cnt
  <2>3. CASE m = 0
    <3>1. FlattenSeq(rss) = <<>>
      BY <2>3 DEF FlattenSeq
    <3>2. Cnt(<<>>, d) = 0
      BY CntEmpty
    <3> QED
      BY <2>1, <2>2, <2>3, <3>1, <3>2
  <2>4. CASE m # 0
    <3>1. PICK f : /\ FlattenSeq(rss) = f[m] /\ f[1] = rss[1]
                   /\ \A i \in 2 .. m : f[i] = f[i - 1] \o rss[i]
      BY <2>4, Flattens DEF Records
    <3> HIDE DEF m
    <3> DEFINE T == {k \in 0 .. m : k = 0 \/ (f[k] \in Records /\ Cnt(f[k], d) = P[k])}
    <3>2. ASSUME NEW k \in 1 .. m, k - 1 \in T
          PROVE  k \in T
      <4>0. k \in 0 .. m /\ rss[k] \in Records /\ P[k] = P[k - 1] + Cnt(rss[k], d)
        BY <1>1, <2>2
      <4>1. CASE k = 1
        <5>1. f[k] = rss[k] /\ P[k - 1] = 0 /\ Cnt(rss[k], d) \in Nat
          BY <2>2, <3>1, <4>0, <4>1, CountsAreNumbers
        <5> QED
          BY <4>0, <5>1
      <4>2. CASE k # 1
        <5>1. k \in 2 .. m /\ k - 1 # 0
          BY <1>1, <4>2
        <5>2. f[k] = f[k - 1] \o rss[k] /\ f[k - 1] \in Records /\ Cnt(f[k - 1], d) = P[k - 1]
          BY <3>1, <3>2, <5>1
        <5>3. f[k] \in Records /\ Cnt(f[k], d) = Cnt(f[k - 1], d) + Cnt(rss[k], d)
          BY <4>0, <5>2, RecordsNamed, CntJoined DEF Records
        <5> QED
          BY <4>0, <5>2, <5>3
      <4> QED
        BY <4>1, <4>2
    <3>3. m \in T
      <4>1. 0 \in T
        BY <1>1
      <4> HIDE DEF T
      <4>2. \A k \in 0 .. m : k \in T
        BY <1>1, <3>2, <4>1, Upwards
      <4> QED
        BY <1>1, <4>2
    <3> QED
      BY <2>1, <2>4, <3>1, <3>3
  <2> QED
    BY <2>3, <2>4
<1> QED
  BY <1>2, <1>3

(* A boundary releases what the layer no longer holds.                      *)
LEMMA EmptiedHolds ==
    ASSUME NEW y \in LayerType, NEW t
    PROVE  /\ Emptied(y, t) \in LayerType /\ Emptied(y, t).next = y.next /\ Released(y, t) \in Records
           /\ \A d : Cnt(Released(y, t), d) + InHand(Emptied(y, t), d) = InHand(y, d)
<1> DEFINE m == Len(y.active)
           gives(i) == GivesBack(y.active[i], t)
           s == [i \in 1 .. m |-> IF gives(i) THEN [y.active[i] EXCEPT !.held = <<>>] ELSE y.active[i]]
           rss == [i \in 1 .. m |-> IF gives(i) THEN y.active[i].held ELSE <<>>]
           z == Emptied(y, t)
           none == <<>>
<1>1. y.active \in Seq(AppType) /\ y.seq \in Nat /\ y.next \in Nat /\ y.pending \in Records
  BY DEF LayerType
<1>2. m \in Nat /\ DOMAIN y.active = 1 .. m
      /\ \A i \in 1 .. m : y.active[i] \in AppType /\ y.active[i].held \in Records
  BY <1>1, HeldsAre
<1>3. z = [y EXCEPT !.pending = none, !.active = s] /\ Released(y, t) = y.pending \o FlattenSeq(rss)
  BY <1>2 DEF Emptied, Released
<1>4. none \in Records /\ Ids(none) = none /\ \A d : Cnt(none, d) = 0 /\ Times(none, d) = 0
  BY CntEmpty, TimesEmpty DEF Records, Ids
<1> HIDE DEF gives
<1>5. /\ s \in Seq(AppType) /\ Len(s) = m
      /\ \A i \in 1 .. m : s[i].held = IF gives(i) THEN none ELSE y.active[i].held
  <2>1. ASSUME NEW i \in 1 .. m
        PROVE  s[i] \in AppType /\ s[i].held = IF gives(i) THEN none ELSE y.active[i].held
    <3>1. y.active[i] \in AppType
      BY <1>2
    <3>2. [y.active[i] EXCEPT !.held = none] \in AppType /\ [y.active[i] EXCEPT !.held = none].held = none
      BY <1>4, <3>1 DEF AppType
    <3> QED
      BY <3>1, <3>2
  <2>2. s = [i \in 1 .. m |-> s[i]]
    OBVIOUS
  <2> HIDE DEF s, m
  <2>3. s \in Seq(AppType) /\ Len(s) = m
    BY <1>2, <2>1, <2>2
  <2> QED
    BY <2>1, <2>3
<1>6. /\ rss \in Seq(Records) /\ Len(rss) = m
      /\ \A i \in 1 .. m : rss[i] = IF gives(i) THEN y.active[i].held ELSE none
  <2>1. \A i \in 1 .. m : rss[i] \in Records /\ rss[i] = IF gives(i) THEN y.active[i].held ELSE none
    BY <1>2, <1>4
  <2>2. rss = [i \in 1 .. m |-> rss[i]]
    OBVIOUS
  <2> HIDE DEF rss, m
  <2>3. rss \in Seq(Records) /\ Len(rss) = m
    BY <1>2, <2>1, <2>2
  <2> QED
    BY <2>1, <2>3
<1> HIDE DEF s, rss, z, none
<1>7. z \in LayerType /\ z.next = y.next /\ z.active = s /\ z.pending = none
  BY <1>1, <1>3, <1>4, <1>5 DEF LayerType
<1> DEFINE ss == Helds(y.active)
           tt == [i \in 1 .. m |-> Ids(rss[i])]
           uu == Helds(s)
<1>8. ss \in Seq(Seq(Nat)) /\ Len(ss) = m /\ \A j \in 1 .. m : ss[j] = Ids(y.active[j].held)
  BY <1>1, HeldsAre
<1>9. uu \in Seq(Seq(Nat)) /\ Len(uu) = m /\ \A j \in 1 .. m : uu[j] = Ids(s[j].held)
  BY <1>5, HeldsAre
<1>10. tt \in Seq(Seq(Nat)) /\ Len(tt) = m /\ \A j \in 1 .. m : tt[j] = Ids(rss[j])
  <2> DEFINE V == Seq(Nat)
  <2>1. \A j \in 1 .. m : rss[j] \in Records
    BY <1>6
  <2>2. \A j \in 1 .. m : tt[j] \in V /\ tt[j] = Ids(rss[j])
    BY <2>1, RecordsNamed, IdsAre DEF Records
  <2>3. tt = [j \in 1 .. m |-> tt[j]]
    OBVIOUS
  <2> HIDE DEF tt, V, m
  <2>4. tt \in Seq(V) /\ Len(tt) = m
    BY <1>2, <2>2, <2>3
  <2> QED
    BY <2>2, <2>4 DEF V
<1> HIDE DEF ss, tt, uu
<1>11. FlattenSeq(rss) \in Records /\ \A d : Cnt(FlattenSeq(rss), d) = Times(FlattenSeq(tt), d)
  <2> HIDE DEF m
  <2>1. Len(tt) = Len(rss) /\ \A i \in 1 .. Len(rss) : tt[i] = Ids(rss[i])
    BY <1>6, <1>10
  <2> QED
    BY <1>6, <1>10, <2>1, FlattenIds
<1>12. ASSUME NEW d
       PROVE  Times(FlattenSeq(ss), d) = Times(FlattenSeq(tt), d) + Times(FlattenSeq(uu), d)
  <2>1. ASSUME NEW j \in 1 .. m
        PROVE  Times(ss[j], d) = Times(tt[j], d) + Times(uu[j], d)
    <3>1. ss[j] \in Seq(Nat)
      BY <1>8
    <3>2. Times(ss[j], d) \in Nat /\ Times(none, d) = 0
      BY <1>4, <3>1, SpotsFinite
    <3>3. CASE gives(j)
      <4>1. tt[j] = ss[j] /\ uu[j] = none
        BY <1>4, <1>5, <1>6, <1>8, <1>9, <1>10, <3>3
      <4> QED
        BY <3>2, <4>1
    <3>4. CASE ~ gives(j)
      <4>1. tt[j] = none /\ uu[j] = ss[j]
        BY <1>4, <1>5, <1>6, <1>8, <1>9, <1>10, <3>4
      <4> QED
        BY <3>2, <4>1
    <3> QED
      BY <3>3, <3>4
  <2> HIDE DEF m
  <2>2. Parted(ss, tt, uu, d)
    BY <1>8, <1>9, <1>10, <2>1 DEF Parted
  <2> QED
    BY <1>8, <1>9, <1>10, <2>2, FlattenParted
<1>13. /\ Released(y, t) \in Records
       /\ \A d : Cnt(Released(y, t), d) = Cnt(y.pending, d) + Times(FlattenSeq(tt), d)
  <2> DEFINE fl == FlattenSeq(rss)
  <2> HIDE DEF fl
  <2>0. fl \in Records /\ \A d : Cnt(fl, d) = Times(FlattenSeq(tt), d)
    BY <1>11 DEF fl
  <2>1. \A d : y.pending \o fl \in Records /\ Cnt(y.pending \o fl, d) = Cnt(y.pending, d) + Cnt(fl, d)
    BY <1>1, <2>0, RecordsNamed, CntJoined DEF Records
  <2> QED
    BY <1>3, <2>0, <2>1 DEF fl
<1>14. ASSUME NEW d
       PROVE  Cnt(Released(y, t), d) + InHand(z, d) = InHand(y, d)
  <2> DEFINE x == Cnt(y.pending, d)
             f == Times(FlattenSeq(ss), d)
             g == Times(FlattenSeq(tt), d)
             u == Times(FlattenSeq(uu), d)
  <2>1. x \in Nat /\ u \in Nat /\ g \in Nat
    <3>1. FlattenSeq(tt) \in Seq(Nat)
      BY <1>10, FlattenSums
    <3> QED
      BY <1>1, <1>7, <3>1, InHandNat, SpotsFinite DEF uu
  <2>2. f = g + u /\ Cnt(Released(y, t), d) = x + g
    BY <1>12, <1>13
  <2>3. InHand(z, d) = 0 + u /\ InHand(y, d) = x + f
    BY <1>4, <1>7 DEF InHand, ss, uu
  <2> HIDE DEF x, f, g, u
  <2>4. (x + g) + (0 + u) = x + (g + u)
    BY <2>1
  <2> QED
    BY <2>2, <2>3, <2>4
<1> QED
  BY <1>7, <1>13, <1>14 DEF z

(* Every number that was given out has exactly one account.                 *)
RowType == [id: Nat, outcome: {"sent", "sink_error", "not_sent"}, dropped: BOOLEAN]
Accounts(l, records, y, d) == (Cnt(l, d) + Cnt(records, d)) + InHand(y, d)

AccountTypes ==
    /\ layer \in LayerType
    /\ pass.records \in Records
    /\ pass.stage \in {"none", "world"} => pass.records = <<>>
    /\ pass.stage = "perturb" => pass.step \in Nat \ {0}
    /\ ledger \in Seq(RowType)

AccountInv ==
    /\ AccountTypes
    /\ \A d \in Nat : Accounts(ledger, pass.records, layer, d) = One(d \in 1 .. layer.next)

LEMMA RowsNamed == Named(RowType)
BY DEF Named, RowType

LEMMA AccountInvInit == Init => AccountInv
<1> SUFFICES ASSUME Init
             PROVE  AccountInv
  OBVIOUS
<1>1. layer = EmptyLayer /\ pass = NoPass /\ ledger = <<>>
  BY DEF Init
<1>2. AccountTypes
  <2>1. pass.records = <<>> /\ pass.stage = "none"
    BY <1>1 DEF NoPass
  <2>2. layer \in LayerType
    BY <1>1 DEF EmptyLayer, LayerType, Records
  <2> QED
    BY <1>1, <2>1, <2>2 DEF AccountTypes, Records
<1>3. FlattenSeq(Helds(layer.active)) = <<>>
  BY <1>1 DEF EmptyLayer, Helds, FlattenSeq
<1>4. ASSUME NEW d \in Nat
      PROVE  Accounts(ledger, pass.records, layer, d) = One(d \in 1 .. layer.next)
  <2>1. ledger = <<>> /\ pass.records = <<>> /\ layer.pending = <<>> /\ layer.next = 0
    BY <1>1 DEF NoPass, EmptyLayer
  <2>2. Cnt(<<>>, d) = 0 /\ Times(<<>>, d) = 0
    BY CntEmpty, TimesEmpty
  <2> QED
    BY <1>3, <2>1, <2>2 DEF Accounts, InHand, One
<1> QED
  BY <1>2, <1>4 DEF AccountInv

LEMMA AccountNumbers ==
    ASSUME AccountTypes, NEW d
    PROVE  Cnt(ledger, d) \in Nat /\ Cnt(pass.records, d) \in Nat /\ InHand(layer, d) \in Nat
BY RowsNamed, CntNat, CountsAreNumbers, InHandNat DEF AccountTypes

(* A step may move accounts, and opens one for each number it gives out.    *)
LEMMA AccountsMove ==
    ASSUME AccountInv, AccountTypes', layer'.next >= layer.next,
           \A d \in Nat : Accounts(ledger', pass'.records, layer', d)
             = Accounts(ledger, pass.records, layer, d) + One(d \in layer.next + 1 .. layer'.next)
    PROVE  AccountInv'
<1>1. ASSUME NEW d \in Nat
      PROVE  Accounts(ledger', pass'.records, layer', d) = One(d \in 1 .. layer'.next)
  <2>1. layer.next \in Nat /\ layer'.next \in Nat /\ layer'.next >= layer.next
    BY DEF AccountInv, AccountTypes, LayerType
  <2>2. One(d \in 1 .. layer'.next) = One(d \in 1 .. layer.next) + One(d \in layer.next + 1 .. layer'.next)
    BY <2>1 DEF One
  <2> QED
    BY <2>2 DEF AccountInv
<1> QED
  BY <1>1 DEF AccountInv

LEMMA AccountsStay ==
    ASSUME AccountInv, AccountTypes', layer'.next = layer.next,
           \A d \in Nat : Accounts(ledger', pass'.records, layer', d) = Accounts(ledger, pass.records, layer, d)
    PROVE  AccountInv'
BY DEF AccountInv

(* A step that touches none of the places.                                  *)
LEMMA NothingMoves ==
    ASSUME AccountInv, UNCHANGED <<layer, ledger>>, pass'.records = pass.records,
           pass'.stage \in {"none", "world"} => pass'.records = <<>>,
           pass'.stage = "perturb" => pass'.step \in Nat \ {0}
    PROVE  AccountInv'
BY DEF AccountInv, AccountTypes

LEMMA EmitAccounts ==
    ASSUME AccountInv, PassInv, EmitEvent
    PROVE  AccountInv'
<1> DEFINE r == Record(layer'.next)
           none == <<>>
           one == Append(none, r)
<1>1. /\ pass.stage = "world" /\ layer' = [layer EXCEPT !.next = layer.next + 1] /\ ledger' = ledger
      /\ \E t : pass' = [pass EXCEPT !.stage = "perturb", !.at = t, !.step = 1, !.records = <<Record(layer'.next)>>]
  BY DEF EmitEvent
<1>2. AccountTypes /\ layer \in LayerType /\ pass.records = none /\ layer.next \in Nat
  BY <1>1 DEF AccountInv, AccountTypes, LayerType
<1>3. layer' \in LayerType /\ layer'.next = layer.next + 1
      /\ layer'.active = layer.active /\ layer'.pending = layer.pending
  BY <1>1, <1>2 DEF LayerType
<1>4. r \in RecordType /\ r.id = layer.next + 1
  BY <1>2, <1>3 DEF Record, RecordType
<1>5. pass'.stage = "perturb" /\ pass'.step = 1 /\ pass'.records = one
  BY <1>1 DEF PassInv, PassFields
<1> HIDE DEF r
<1>6. one \in Records /\ none \in Records
  BY <1>4 DEF Records
<1>7. AccountTypes'
  BY <1>1, <1>2, <1>3, <1>5, <1>6 DEF AccountTypes
<1>8. ASSUME NEW d \in Nat
      PROVE  Accounts(ledger', pass'.records, layer', d)
               = Accounts(ledger, pass.records, layer, d) + One(d \in layer.next + 1 .. layer'.next)
  <2> DEFINE x == Cnt(ledger, d)
             y == InHand(layer, d)
             e == One(d \in layer.next + 1 .. layer'.next)
  <2>1. Cnt(one, d) = Cnt(none, d) + One(r.id = d) /\ Cnt(none, d) = 0
    <3>1. Cnt(none, d) = 0
      BY CntEmpty
    <3> HIDE DEF none
    <3> QED
      BY <1>4, <1>6, <3>1, RecordsNamed, CntAppend DEF Records
  <2>2. One(r.id = d) = e
    BY <1>2, <1>3, <1>4 DEF One
  <2>3. InHand(layer', d) = y
    BY <1>3 DEF InHand
  <2>4. x \in Nat /\ y \in Nat /\ e \in Nat
    BY <1>2, AccountNumbers, OneIsNumber
  <2> HIDE DEF x, y, e, one, none
  <2>5. (x + (0 + e)) + y = ((x + 0) + y) + e
    BY <2>4
  <2> QED
    BY <1>1, <1>2, <1>5, <2>1, <2>2, <2>3, <2>5 DEF Accounts, x, y, e
<1>9. layer'.next >= layer.next
  BY <1>2, <1>3
<1> QED
  BY <1>7, <1>8, <1>9, AccountsMove

LEMMA PerturbAccounts ==
    ASSUME AccountInv, PassInv, PerturbStep
    PROVE  AccountInv'
<1>1. /\ pass.stage = "perturb" /\ pass.step <= Len(layer.active) /\ ledger' = ledger
      /\ layer \in LayerType /\ pass.records \in Records /\ ledger \in Seq(RowType) /\ AccountTypes
      /\ pass.step \in Nat \ {0}
  BY DEF PerturbStep, AccountInv, AccountTypes
<1>2. CASE Covers(layer.active[pass.step], pass.at)
  <2>1. PICK hit : /\ layer' = Transformed(layer, pass.step, pass.records, pass.at, hit).layer
                   /\ pass' = [pass EXCEPT !.step = pass.step + 1,
                                  !.records = Transformed(layer, pass.step, pass.records, pass.at, hit).out]
    BY <1>2, Zenon DEF PerturbStep
  <2> DEFINE done == Transformed(layer, pass.step, pass.records, pass.at, hit)
  <2>2. pass.step \in 1 .. Len(layer.active)
    <3>1. Len(layer.active) \in Nat
      BY <1>1 DEF LayerType
    <3> QED
      BY <1>1, <3>1
  <2>3. /\ done.layer \in LayerType /\ done.layer.next >= layer.next /\ done.out \in Records
        /\ \A d \in Nat : InHand(done.layer, d) + Cnt(done.out, d)
              = (InHand(layer, d) + Cnt(pass.records, d)) + One(d \in layer.next + 1 .. done.layer.next)
    <3> HIDE DEF done
    <3>1. \A dn : dn = done => dn = Transformed(layer, pass.step, pass.records, pass.at, hit)
      BY DEF done
    <3> QED
      BY <1>1, <2>2, <3>1, TransformedHolds
  <2>4. layer' = done.layer /\ pass' = [pass EXCEPT !.step = pass.step + 1, !.records = done.out]
    BY <2>1
  <2> HIDE DEF done
  <2>5. pass'.stage = "perturb" /\ pass'.step = pass.step + 1 /\ pass'.records = done.out
    BY <1>1, <2>4 DEF PassInv, PassFields
  <2>6. AccountTypes'
    BY <1>1, <2>3, <2>4, <2>5 DEF AccountTypes
  <2>7. ASSUME NEW d \in Nat
        PROVE  Accounts(ledger', pass'.records, layer', d)
                 = Accounts(ledger, pass.records, layer, d) + One(d \in layer.next + 1 .. layer'.next)
    <3> DEFINE x == Cnt(ledger, d)
               r == Cnt(pass.records, d)
               y == InHand(layer, d)
               o == Cnt(done.out, d)
               z == InHand(done.layer, d)
               e == One(d \in layer.next + 1 .. layer'.next)
    <3>1. z + o = (y + r) + e
      BY <2>3, <2>4
    <3>2. x \in Nat /\ r \in Nat /\ y \in Nat /\ e \in Nat /\ o \in Nat /\ z \in Nat
      BY <1>1, <2>3, AccountNumbers, OneIsNumber, CountsAreNumbers, InHandNat
    <3> HIDE DEF x, r, y, o, z, e
    <3>3. (x + o) + z = ((x + r) + y) + e
      BY <3>1, <3>2
    <3> QED
      BY <1>1, <2>4, <2>5, <3>3 DEF Accounts, x, r, y, o, z, e
  <2> QED
    BY <2>3, <2>4, <2>6, <2>7, AccountsMove
<1>3. CASE ~ Covers(layer.active[pass.step], pass.at)
  <2>1. pass' = [pass EXCEPT !.step = pass.step + 1] /\ layer' = layer
    BY <1>3 DEF PerturbStep
  <2>2. pass'.stage = "perturb" /\ pass'.step = pass.step + 1 /\ pass'.records = pass.records
    BY <1>1, <2>1 DEF PassInv, PassFields
  <2>3. pass'.step \in Nat \ {0}
    BY <1>1, <2>2
  <2> QED
    BY <1>1, <2>1, <2>2, <2>3, NothingMoves
<1> QED
  BY <1>2, <1>3

LEMMA DeliverAccounts ==
    ASSUME AccountInv, PassInv, Deliver
    PROVE  AccountInv'
<1> DEFINE r == Head(pass.records)
           rest == Tail(pass.records)
<1>1. /\ AccountTypes /\ pass.records \in Records /\ pass.records # <<>> /\ ledger \in Seq(RowType)
      /\ pass.stage \in {"deliver", "boundary"} /\ layer' = layer
      /\ pass' = [pass EXCEPT !.records = rest]
  BY DEF Deliver, AccountInv, AccountTypes
<1>2. ASSUME NEW d
      PROVE  /\ r \in RecordType /\ rest \in Records
             /\ Cnt(pass.records, d) = One(r.id = d) + Cnt(rest, d)
  BY <1>1, RecordsNamed, CntTail DEF Records
<1>3. r \in RecordType /\ rest \in Records
  BY <1>2
<1>4. PICK row \in RowType : ledger' = Append(ledger, row) /\ row.id = r.id
  <2>1. PICK outcome \in {"sent", "sink_error", "not_sent"} :
          ledger' = Append(ledger, [id |-> r.id, outcome |-> outcome, dropped |-> ~r.delivered])
    BY DEF Deliver, Delivery, Ledgered
  <2> HIDE DEF r
  <2> DEFINE row == [id |-> r.id, outcome |-> outcome, dropped |-> ~r.delivered]
  <2>2. row \in RowType /\ row.id = r.id
    BY <1>3 DEF RowType, RecordType
  <2> HIDE DEF row
  <2>3. ledger' = Append(ledger, row)
    BY <2>1 DEF row
  <2> QED
    BY <2>2, <2>3
<1> HIDE DEF r, rest
<1>5. pass'.stage = pass.stage /\ pass'.records = rest
  BY <1>1 DEF PassInv, PassFields
<1>6. ledger' \in Seq(RowType) /\ \A d : Cnt(ledger', d) = Cnt(ledger, d) + One(r.id = d)
  <2>1. \A d : Cnt(ledger', d) = Cnt(ledger, d) + One(row.id = d)
    BY <1>1, <1>4, RowsNamed, CntAppend
  <2>2. ledger' \in Seq(RowType)
    BY <1>1, <1>4
  <2> QED
    BY <1>4, <2>1, <2>2
<1>7. AccountTypes'
  BY <1>1, <1>3, <1>5, <1>6 DEF AccountTypes
<1>8. ASSUME NEW d \in Nat
      PROVE  Accounts(ledger', pass'.records, layer', d) = Accounts(ledger, pass.records, layer, d)
  <2> DEFINE x == Cnt(ledger, d)
             q == Cnt(rest, d)
             y == InHand(layer, d)
             e == One(r.id = d)
  <2>1. x \in Nat /\ q \in Nat /\ y \in Nat /\ e \in Nat
    BY <1>1, <1>3, AccountNumbers, OneIsNumber, CountsAreNumbers
  <2>2. Cnt(pass.records, d) = e + q /\ Cnt(ledger', d) = x + e
    BY <1>2, <1>6
  <2> HIDE DEF x, q, y, e
  <2>3. ((x + e) + q) + y = (x + (e + q)) + y
    BY <2>1
  <2> QED
    BY <1>1, <1>5, <2>2, <2>3 DEF Accounts, x, q, y
<1> QED
  BY <1>1, <1>7, <1>8, AccountsStay

LEMMA BoundaryAccounts ==
    ASSUME AccountInv, PassInv, Boundary
    PROVE  AccountInv'
<1> DEFINE z == Emptied(layer, pass.to)
           out == Released(layer, pass.to)
<1>1. /\ AccountTypes /\ layer \in LayerType /\ ledger \in Seq(RowType) /\ pass.records = <<>>
      /\ layer' = z /\ ledger' = ledger /\ pass' = [pass EXCEPT !.stage = "boundary", !.records = out]
  BY DEF Boundary, AccountInv, AccountTypes
<1>2. /\ z \in LayerType /\ z.next = layer.next /\ out \in Records
      /\ \A d : Cnt(out, d) + InHand(z, d) = InHand(layer, d)
  BY <1>1, EmptiedHolds
<1> HIDE DEF z, out
<1>3. pass'.stage = "boundary" /\ pass'.records = out
  BY <1>1 DEF PassInv, PassFields
<1>4. AccountTypes'
  BY <1>1, <1>2, <1>3 DEF AccountTypes
<1>5. ASSUME NEW d \in Nat
      PROVE  Accounts(ledger', pass'.records, layer', d) = Accounts(ledger, pass.records, layer, d)
  <2> DEFINE x == Cnt(ledger, d)
             y == InHand(layer, d)
             o == Cnt(out, d)
             h == InHand(z, d)
  <2>1. x \in Nat /\ o \in Nat /\ h \in Nat
    BY <1>1, <1>2, AccountNumbers, CountsAreNumbers, InHandNat
  <2>2. o + h = y /\ Cnt(<<>>, d) = 0
    BY <1>2, CntEmpty
  <2>3. Accounts(ledger', pass'.records, layer', d) = (x + o) + h
    BY <1>1, <1>3 DEF Accounts
  <2>4. Accounts(ledger, pass.records, layer, d) = (x + 0) + y
    BY <1>1, <2>2 DEF Accounts
  <2> HIDE DEF x, y, o, h
  <2>5. (x + o) + h = (x + 0) + (o + h)
    BY <2>1
  <2> QED
    BY <2>2, <2>3, <2>4, <2>5
<1> QED
  BY <1>1, <1>2, <1>4, <1>5, AccountsStay

LEMMA CommandAccounts ==
    ASSUME AccountInv, PassInv, NEW c, Commanding(c)
    PROVE  AccountInv'
<1>1. /\ AccountTypes /\ layer \in LayerType /\ UNCHANGED <<pass, ledger>>
  BY Zenon DEF AccountInv, AccountTypes, Commanding, ChangeWorld, ApplyPerturb, ClearPerturb
<1>2. ASSUME layer' \in LayerType, layer'.next = layer.next, \A d : InHand(layer', d) = InHand(layer, d)
      PROVE  AccountInv'
  <2>1. AccountTypes'
    BY <1>1, <1>2 DEF AccountTypes
  <2>2. \A d \in Nat : Accounts(ledger', pass'.records, layer', d) = Accounts(ledger, pass.records, layer, d)
    BY <1>1, <1>2 DEF Accounts
  <2> QED
    BY <1>2, <2>1, <2>2, AccountsStay
<1>3. CASE ChangeWorld(c)
  <2>1. layer' = layer
    BY <1>3 DEF ChangeWorld
  <2> QED
    BY <1>1, <1>2, <2>1
<1>4. ASSUME NEW p \in Offers, ApplyPerturb(c, p)
      PROVE  AccountInv'
  <2>1. layer' = Applied(layer, p)
    BY <1>4 DEF ApplyPerturb
  <2> QED
    BY <1>1, <1>2, <2>1, AppliedHolds
<1>5. ASSUME NEW i \in DOMAIN layer.active, ClearPerturb(c, layer.active[i].id)
      PROVE  AccountInv'
  <2> DEFINE id == layer.active[i].id
  <2>1. layer' = Cleared(layer, id) /\ Known(layer, id)
    BY <1>5 DEF ClearPerturb
  <2> HIDE DEF id
  <2> QED
    BY <1>1, <1>2, <2>1, ClearedHolds
<1> QED
  BY <1>3, <1>4, <1>5 DEF Commanding

LEMMA AccountInvNext == PassInv /\ AccountInv /\ [Next]_vars => AccountInv'
<1> SUFFICES ASSUME PassInv, AccountInv, [Next]_vars
             PROVE  AccountInv'
  OBVIOUS
<1>0. /\ pass.stage \in {"none", "world"} => pass.records = <<>>
      /\ pass.stage = "perturb" => pass.step \in Nat \ {0}
  BY DEF AccountInv, AccountTypes
<1>1. CASE UNCHANGED <<layer, ledger, pass>>
  BY <1>0, <1>1, NothingMoves
<1>2. ASSUME NEW c \in Driver, Waits(c) \/ Ends(c)
      PROVE  AccountInv'
  <2>1. UNCHANGED <<layer, ledger, pass>>
    BY <1>2, Zenon DEF Waits, Ends, Look, Wake, CancelWait, TimeOut, NotQuiesced, Abandon, End, core
  <2> QED
    BY <1>1, <2>1
<1>3. ASSUME NEW c \in Consumer, Hears(c)
      PROVE  AccountInv'
  <2>1. UNCHANGED <<layer, ledger, pass>>
    BY <1>3, Zenon DEF Hears, Report, ReportLands, core
  <2> QED
    BY <1>1, <2>1
<1>4. ASSUME NEW c \in Driver, Starts(c)
      PROVE  AccountInv'
  <2>1. /\ UNCHANGED <<layer, ledger>> /\ pass.stage = "none"
        /\ pass'.stage = "world" /\ pass'.records = <<>>
    BY <1>4 DEF Starts, Advance, Commands, Free, NoPass
  <2> QED
    BY <1>0, <2>1, NothingMoves
<1>5. CASE Perturbed
  <2>1. UNCHANGED <<layer, ledger>> /\ pass'.stage = "deliver" /\ pass'.records = pass.records
    BY <1>5 DEF Perturbed, PassInv, PassFields
  <2> QED
    BY <2>1, NothingMoves
<1>6. CASE EventDone
  <2>1. /\ UNCHANGED <<layer, ledger>> /\ pass.records = <<>>
        /\ pass'.stage = "world" /\ pass'.records = pass.records
    BY <1>6 DEF EventDone, PassInv, PassFields
  <2> QED
    BY <2>1, NothingMoves
<1>7. CASE AdvanceReturns
  <2>1. /\ UNCHANGED <<layer, ledger>> /\ pass.records = <<>>
        /\ pass'.stage = "none" /\ pass'.records = <<>>
    BY <1>7 DEF AdvanceReturns, NoPass
  <2> QED
    BY <2>1, NothingMoves
<1>8. CASE UNCHANGED vars
  BY <1>1, <1>8 DEF vars, core
<1> QED
  BY <1>2, <1>3, <1>4, <1>5, <1>6, <1>7, <1>8, CommandAccounts, EmitAccounts, PerturbAccounts,
     DeliverAccounts, BoundaryAccounts, NextSteps DEF Passing

(* A list in which each of 1 .. n stands once, and nothing else, is as long *)
(* as n.                                                                    *)
LEMMA EachOnce ==
    ASSUME NEW s \in Seq(Nat), NEW n \in Nat, \A d \in Nat : Times(s, d) = One(d \in 1 .. n)
    PROVE  Len(s) = n /\ ToSet(s) = 1 .. n
<1> DEFINE m == Len(s)
<1>1. m \in Nat /\ DOMAIN s = 1 .. m /\ \A i \in 1 .. m : s[i] \in Nat
  OBVIOUS
<1>2. \A d \in Nat : IsFiniteSet(Spots(s, d)) /\ (d \in 1 .. n => Cardinality(Spots(s, d)) = 1)
                    /\ (d \notin 1 .. n => Cardinality(Spots(s, d)) = 0)
  BY SpotsFinite DEF Times, One
<1>3. ASSUME NEW i \in 1 .. m
      PROVE  s[i] \in 1 .. n
  <2>1. i \in Spots(s, s[i]) /\ s[i] \in Nat
    BY <1>1 DEF Spots
  <2>2. Cardinality(Spots(s, s[i])) # 0
    BY <1>2, <2>1, FS_EmptySet
  <2> QED
    BY <1>2, <2>1, <2>2
<1>4. ASSUME NEW d \in 1 .. n
      PROVE  \E i \in 1 .. m : /\ s[i] = d
                               /\ \A j \in 1 .. m : s[j] = d => j = i
  <2>1. d \in Nat /\ IsFiniteSet(Spots(s, d)) /\ Cardinality(Spots(s, d)) = 1
    BY <1>2
  <2>2. PICK i : Spots(s, d) = {i}
    BY <2>1, FS_Singleton, Zenon
  <2>3. \A j : j \in {i} <=> j \in 1 .. m /\ s[j] = d
    BY <2>2 DEF Spots
  <2>4. i \in 1 .. m /\ s[i] = d /\ \A j \in 1 .. m : s[j] = d => j = i
    BY <2>3
  <2> QED
    BY <2>4
<1>5. ToSet(s) = 1 .. n
  BY <1>1, <1>3, <1>4 DEF ToSet
<1>6. s \in Bijection(1 .. m, 1 .. n)
  <2>1. s \in [1 .. m -> 1 .. n]
    <3>1. s = [i \in 1 .. m |-> s[i]]
      BY <1>1
    <3> QED
      BY <1>3, <3>1
  <2>2. \A i, j \in 1 .. m : s[i] = s[j] => i = j
    BY <1>3, <1>4
  <2>3. \A d \in 1 .. n : \E i \in 1 .. m : s[i] = d
    BY <1>4
  <2> HIDE DEF m
  <2>4. s \in Injection(1 .. m, 1 .. n)
    BY <2>1, <2>2 DEF Injection, IsInjective
  <2>5. s \in Surjection(1 .. m, 1 .. n)
    BY <2>1, <2>3 DEF Surjection
  <2> QED
    BY <2>4, <2>5 DEF Bijection
<1>7. Cardinality(1 .. n) = Cardinality(1 .. m)
  <2>1. IsFiniteSet(1 .. m)
    BY <1>1, FS_Interval
  <2> QED
    BY <1>6, <2>1, FS_Bijection DEF ExistsBijection
<1>8. Cardinality(1 .. n) = n /\ Cardinality(1 .. m) = m
  <2> HIDE DEF m
  <2>1. \A k \in Nat : Cardinality(1 .. k) = k
    <3> TAKE k \in Nat
    <3>1. Cardinality(1 .. k) = IF 1 > k THEN 0 ELSE k - 1 + 1
      BY FS_Interval
    <3> QED
      BY <3>1
  <2> QED
    BY <1>1, <2>1
<1> QED
  BY <1>5, <1>7, <1>8

LEMMA AccountsAreWhereabouts ==
    ASSUME AccountInv
    PROVE  EveryRecordIsAccounted
<1> DEFINE a == Ids(ledger)
           b == Ids(pass.records)
           c == Ids(layer.pending)
           e == FlattenSeq(Helds(layer.active))
<1>1. a \in Seq(Nat) /\ b \in Seq(Nat) /\ c \in Seq(Nat) /\ layer.next \in Nat
  BY RowsNamed, RecordsNamed, IdsAre DEF AccountInv, AccountTypes, LayerType, Records
<1>2. e \in Seq(Nat)
  BY HeldsAre, FlattenSums DEF AccountInv, AccountTypes, LayerType
<1>3. Whereabouts = a \o b \o c \o e
  BY DEF Whereabouts, Helds
<1>4. \A d \in Nat : (Times(a, d) + Times(b, d)) + (Times(c, d) + Times(e, d)) = One(d \in 1 .. layer.next)
  BY DEF AccountInv, Accounts, InHand, Cnt
<1> HIDE DEF a, b, c, e
<1> DEFINE f == a \o b
           g == f \o c
           w == g \o e
<1>5. f \in Seq(Nat) /\ \A d : Times(f, d) = Times(a, d) + Times(b, d)
  BY <1>1, TimesJoined
<1>6. g \in Seq(Nat) /\ \A d : Times(g, d) = Times(f, d) + Times(c, d)
  <2> HIDE DEF f
  <2> QED
    BY <1>1, <1>5, TimesJoined
<1>7. w \in Seq(Nat) /\ \A d : Times(w, d) = Times(g, d) + Times(e, d)
  <2> HIDE DEF g
  <2> QED
    BY <1>2, <1>6, TimesJoined
<1>8. Whereabouts = w
  BY <1>3
<1> HIDE DEF f, g, w
<1>9. \A d \in Nat : Times(w, d) = One(d \in 1 .. layer.next)
  <2> TAKE d \in Nat
  <2>1. Times(a, d) \in Nat /\ Times(b, d) \in Nat /\ Times(c, d) \in Nat /\ Times(e, d) \in Nat
    BY <1>1, <1>2, SpotsFinite
  <2>2. Times(w, d) = ((Times(a, d) + Times(b, d)) + Times(c, d)) + Times(e, d)
    BY <1>5, <1>6, <1>7
  <2>3. ((Times(a, d) + Times(b, d)) + Times(c, d)) + Times(e, d)
          = (Times(a, d) + Times(b, d)) + (Times(c, d) + Times(e, d))
    BY <2>1
  <2> QED
    BY <1>4, <2>2, <2>3
<1>10. Len(w) = layer.next /\ ToSet(w) = 1 .. layer.next
  BY <1>1, <1>7, <1>9, EachOnce
<1> QED
  BY <1>8, <1>10 DEF EveryRecordIsAccounted

(* Every delivery the layer has numbered is in one place and one only, and  *)
(* no run is called complete over a delivery that failed, whatever the      *)
(* perturbations drop, double, reorder or hold back.                        *)
THEOREM TheLedgerIsWhole == Spec => []LedgerIsWhole
<1>1. AccountInv /\ EndInv => LedgerIsWhole
  <2>1. EndInv => CompleteIsWhole
    <3>1. EndInv => \A i \in DOMAIN ledger : i \in 1 .. Len(ledger)
      BY DEF EndInv, IsList
    <3> QED
      BY <3>1 DEF EndInv, CompleteIsWhole, Whole
  <2> QED
    BY <2>1, AccountsAreWhereabouts DEF LedgerIsWhole
<1> QED
  BY <1>1, PassInvInit, PassInvNext, AccountInvInit, AccountInvNext, EndInvInit, EndInvNext, PTL DEF Spec

-----------------------------------------------------------------------------
(* The world that the run drives.  First more of lists: how they are put    *)
(* together, and what a fold leaves in a set or adds to one.                *)

LEMMA ListsPutTogether ==
    ASSUME NEW s, NEW t, IsList(s), IsList(t)
    PROVE  /\ IsList(s \o t) /\ Len(s \o t) = Len(s) + Len(t)
           /\ \A j \in 1 .. Len(s) : (s \o t)[j] = s[j]
           /\ \A j \in 1 .. Len(t) : (s \o t)[Len(s) + j] = t[j]
<1> DEFINE S == {s[i] : i \in 1 .. Len(s)} \cup {t[i] : i \in 1 .. Len(t)}
<1>1. s \in Seq(S) /\ t \in Seq(S)
  BY DEF IsList
<1> HIDE DEF S
<1>2. /\ s \o t \in Seq(S) /\ Len(s \o t) = Len(s) + Len(t)
      /\ \A j \in 1 .. Len(s) + Len(t) : (s \o t)[j] = IF j <= Len(s) THEN s[j] ELSE t[j - Len(s)]
  BY <1>1, ListsJoined
<1>3. \A u \in Seq(S) : IsList(u)
  BY DEF IsList
<1>4. Len(s) \in Nat /\ Len(t) \in Nat
  BY DEF IsList
<1>5. \A j \in 1 .. Len(s) : (s \o t)[j] = s[j]
  BY <1>2, <1>4
<1>6. \A j \in 1 .. Len(t) : (s \o t)[Len(s) + j] = t[j]
  <2> TAKE j \in 1 .. Len(t)
  <2>1. Len(s) + j \in 1 .. Len(s) + Len(t) /\ ~ (Len(s) + j <= Len(s)) /\ (Len(s) + j) - Len(s) = j
    BY <1>4
  <2> QED
    BY <1>2, <2>1
<1> QED
  BY <1>2, <1>3, <1>5, <1>6

LEMMA FlattenTyped ==
    ASSUME NEW S, NEW ss \in Seq(Seq(S))
    PROVE  FlattenSeq(ss) \in Seq(S)
<1>1. CASE Len(ss) = 0
  BY <1>1 DEF FlattenSeq
<1>2. CASE Len(ss) # 0
  <2> DEFINE m == Len(ss)
  <2>1. PICK f : /\ FlattenSeq(ss) = f[m] /\ f[1] = ss[1]
                 /\ \A i \in 2 .. m : f[i] = f[i - 1] \o ss[i]
    BY <1>2, Flattens
  <2>2. m \in Nat /\ m # 0 /\ \A i \in 1 .. m : ss[i] \in Seq(S)
    BY <1>2
  <2> HIDE DEF m
  <2> DEFINE T == {0} \cup {i \in 1 .. m : f[i] \in Seq(S)}
  <2>3. ASSUME NEW n \in 1 .. m, n - 1 \in T
        PROVE  n \in T
    <3>1. CASE n = 1
      BY <2>1, <2>2, <3>1
    <3>2. CASE n # 1
      <4>1. f[n - 1] \in Seq(S) /\ n \in 2 .. m
        BY <2>2, <2>3, <3>2
      <4>2. f[n] = f[n - 1] \o ss[n] /\ ss[n] \in Seq(S)
        BY <2>1, <2>2, <4>1
      <4>3. f[n - 1] \o ss[n] \in Seq(S)
        BY <4>1, <4>2
      <4> QED
        BY <4>2, <4>3
    <3> QED
      BY <3>1, <3>2
  <2>4. m \in T
    <3>1. 0 \in T
      OBVIOUS
    <3> HIDE DEF T
    <3>2. \A n \in 0 .. m : n \in T
      BY <2>2, <2>3, <3>1, Upwards
    <3> QED
      BY <2>2, <3>2
  <2> QED
    BY <2>1, <2>2, <2>4
<1> QED
  BY <1>1, <1>2

(* The larger and the smaller of two numbers.                               *)
LEMMA MaxIs ==
    ASSUME NEW x \in Int, NEW y \in Int
    PROVE  Max({x, y}) = IF x > y THEN x ELSE y
<1> DEFINE m == IF x > y THEN x ELSE y
<1>1. m \in {x, y} /\ \A z \in {x, y} : m >= z
  OBVIOUS
<1>2. \A n \in {x, y} : (\A z \in {x, y} : n >= z) => n = m
  OBVIOUS
<1> QED
  BY <1>1, <1>2 DEF Max

LEMMA MinIs ==
    ASSUME NEW x \in Int, NEW y \in Int
    PROVE  Min({x, y}) = IF x < y THEN x ELSE y
<1> DEFINE m == IF x < y THEN x ELSE y
<1>1. m \in {x, y} /\ \A z \in {x, y} : m =< z
  OBVIOUS
<1>2. \A n \in {x, y} : (\A z \in {x, y} : n =< z) => n = m
  OBVIOUS
<1> QED
  BY <1>1, <1>2 DEF Min

(* A finite set put in a list stands there once, element by element.        *)
LEMMA ListedOnce ==
    ASSUME NEW S, IsFiniteSet(S)
    PROVE  /\ SetToSeq(S) \in Seq(S)
           /\ \A i, j \in DOMAIN SetToSeq(S) : SetToSeq(S)[i] = SetToSeq(S)[j] => i = j
           /\ \A x \in S : \E i \in DOMAIN SetToSeq(S) : SetToSeq(S)[i] = x
<1> DEFINE n == Cardinality(S)
           f == SetToSeq(S)
<1>1. n \in Nat /\ ExistsBijection(1 .. n, S)
  BY FS_CardinalityType
<1>2. \E g \in [1 .. n -> S] : IsInjective(g)
  BY <1>1 DEF ExistsBijection, Bijection, Injection, Surjection
<1>3. f \in [1 .. n -> S] /\ IsInjective(f)
  BY <1>2 DEF SetToSeq
<1> HIDE DEF f
<1>4. f \in Injection(1 .. n, S)
  BY <1>3 DEF Injection
<1>5. Cardinality(1 .. n) = n
  BY <1>1, FS_Interval
<1>6. f \in Surjection(1 .. n, S)
  BY <1>4, <1>5, FS_Injection
<1>7. f \in Seq(S) /\ DOMAIN f = 1 .. n
  BY <1>1, <1>3
<1>8. \A x \in S : \E i \in 1 .. n : f[i] = x
  BY <1>6 DEF Surjection
<1> QED
  BY <1>3, <1>7, <1>8 DEF f, IsInjective

-----------------------------------------------------------------------------
(* The clock and the queue.                                                 *)

ItemKinds == {"emission", "check", "birth", "death"}
ItemType == [kind: ItemKinds, entity: Entity \cup {""}, time: Nat]
FaultType == [entity: Entity, fault: DOMAIN FaultDecl, onset: Nat, by: {"", "pulse_end", "command", "responder"}, cleared: Nat]
Checks(t) == {item \in ItemType : item.kind = "check" /\ item.time >= t}

ClockInv ==
    /\ clockNS \in Nat /\ Start <= clockNS
    /\ goal \in Nat \cup {None} /\ (goal # None => clockNS <= goal)
    /\ queue \in Seq(ItemType)
    /\ \A i \in 1 .. Len(queue) : queue[i].time >= clockNS
    /\ faults \in Seq(FaultType)

LEMMA ItemTyped ==
    ASSUME NEW kind \in ItemKinds, NEW e \in Entity \cup {""}, NEW when \in Nat
    PROVE  Item(kind, e, when) \in ItemType
BY DEF Item, ItemType

(* What a pulse puts into the queue.                                        *)
LEMMA PulseChecks ==
    ASSUME clockNS \in Nat, NEW fault \in FaultType, NEW n \in Nat, NEW times \in [1 .. n -> Nat]
    PROVE  PulseEdges(fault, times) \in Seq(Checks(clockNS))
<1>1. ASSUME NEW a \in Nat, a >= clockNS
      PROVE  Item("check", fault.entity, a) \in Checks(clockNS)
  <2>1. "check" \in ItemKinds /\ fault.entity \in Entity \cup {""}
    BY DEF ItemKinds, FaultType
  <2>2. Item("check", fault.entity, a) \in ItemType
    BY <2>1, ItemTyped
  <2> QED
    BY <1>1, <2>2 DEF Checks, Item
<1>2. [i \in 1 .. n |-> Item("check", fault.entity, Max({times[i], clockNS}))] \in Seq(Checks(clockNS))
  <2>1. ASSUME NEW i \in 1 .. n
        PROVE  Item("check", fault.entity, Max({times[i], clockNS})) \in Checks(clockNS)
    <3>1. Max({times[i], clockNS}) \in Nat /\ Max({times[i], clockNS}) >= clockNS
      BY MaxIs
    <3> QED
      BY <1>1, <3>1
  <2> QED
    BY <2>1
<1>3. DOMAIN times = 1 .. n
  OBVIOUS
<1> QED
  BY <1>2, <1>3 DEF PulseEdges

LEMMA QueueGrows ==
    ASSUME NEW q \in Seq(ItemType), NEW t \in Nat, \A i \in 1 .. Len(q) : q[i].time >= t,
           NEW more \in Seq(ItemType), \A i \in 1 .. Len(more) : more[i].time >= t
    PROVE  /\ q \o more \in Seq(ItemType)
           /\ \A i \in 1 .. Len(q \o more) : (q \o more)[i].time >= t
<1>1. /\ q \o more \in Seq(ItemType) /\ Len(q \o more) = Len(q) + Len(more)
      /\ \A j \in 1 .. Len(q) + Len(more) : (q \o more)[j] = IF j <= Len(q) THEN q[j] ELSE more[j - Len(q)]
  BY ListsJoined
<1>2. ASSUME NEW i \in 1 .. Len(q) + Len(more)
      PROVE  (q \o more)[i].time >= t
  <2>1. CASE i <= Len(q)
    <3>1. i \in 1 .. Len(q)
      BY <2>1
    <3> QED
      BY <1>1, <2>1, <3>1
  <2>2. CASE ~ (i <= Len(q))
    <3>1. i - Len(q) \in 1 .. Len(more)
      BY <2>2
    <3> QED
      BY <1>1, <2>2, <3>1
  <2> QED
    BY <2>1, <2>2
<1> QED
  BY <1>1, <1>2

(* The event that is due first.                                             *)
LEMMA ForemostIs ==
    ASSUME ClockInv, goal # None, Due # {}
    PROVE  /\ Foremost \in 1 .. Len(queue) /\ queue[Foremost].time <= goal
           /\ \A i \in 1 .. Len(queue) : queue[i].time >= queue[Foremost].time
<1> DEFINE m == Len(queue)
           Ts == {queue[i].time : i \in Due}
<1>1. /\ m \in Nat /\ DOMAIN queue = 1 .. m /\ goal \in Nat
      /\ \A i \in 1 .. m : queue[i] \in ItemType /\ queue[i].time \in Nat
  <2>1. queue \in Seq(ItemType) /\ \A item \in ItemType : item.time \in Nat
    BY DEF ClockInv, ItemType
  <2>2. goal \in Nat
    BY DEF ClockInv
  <2> QED
    BY <2>1, <2>2
<1>2. Due = {i \in 1 .. m : queue[i].time <= goal}
  BY <1>1 DEF Due
<1>3. Ts \subseteq Nat /\ Ts # {}
  BY <1>1, <1>2
<1> HIDE DEF m
<1>4. PICK t \in Ts : \A u \in Ts : t <= u
  <2> HIDE DEF Ts
  <2> QED
    BY <1>3, LeastNumber
<1> DEFINE Fs == {i \in Due : queue[i].time = t}
<1>5. Fs \subseteq Nat /\ Fs # {}
  BY <1>1, <1>2, <1>4
<1>6. PICK i \in Fs : \A j \in Fs : i <= j
  <2> HIDE DEF Fs
  <2> QED
    BY <1>5, LeastNumber
<1> DEFINE First(k) == \A j \in Due : queue[k].time < queue[j].time \/ (queue[k].time = queue[j].time /\ k <= j)
<1>7. i \in Due /\ First(i)
  <2>1. i \in Due /\ queue[i].time = t
    BY <1>6
  <2>2. ASSUME NEW j \in Due
        PROVE  queue[i].time < queue[j].time \/ (queue[i].time = queue[j].time /\ i <= j)
    <3>1. t <= queue[j].time /\ queue[j].time \in Nat /\ t \in Nat
      BY <1>1, <1>2, <1>4
    <3>2. CASE queue[j].time = t
      BY <1>6, <2>1, <3>2
    <3>3. CASE queue[j].time # t
      BY <2>1, <3>1, <3>3
    <3> QED
      BY <3>2, <3>3
  <2> QED
    BY <2>1, <2>2
<1>8. Foremost \in Due /\ First(Foremost)
  <2>1. Foremost = CHOOSE k \in Due : First(k)
    BY DEF Foremost
  <2> HIDE DEF First
  <2> QED
    BY <1>7, <2>1
<1>9. Foremost \in 1 .. m /\ queue[Foremost].time <= goal
  BY <1>2, <1>8
<1>10. ASSUME NEW k \in 1 .. m
       PROVE  queue[k].time >= queue[Foremost].time
  <2>1. queue[k].time \in Nat /\ queue[Foremost].time \in Nat
    BY <1>1, <1>9
  <2>2. CASE k \in Due
    BY <1>8, <2>1, <2>2
  <2>3. CASE k \notin Due
    BY <1>1, <1>2, <1>9, <2>1, <2>3
  <2> QED
    BY <2>2, <2>3
<1> QED
  BY <1>9, <1>10 DEF m

(* What is left in the queue when it is taken out.                          *)
LEMMA RestIs ==
    ASSUME ClockInv, goal # None, Due # {}
    PROVE  /\ Rest \in Seq(ItemType) /\ Len(Rest) = Len(queue) - 1
           /\ \A j \in 1 .. Len(queue) - 1 : Rest[j] = queue[IF j < Foremost THEN j ELSE j + 1]
           /\ \A j \in 1 .. Len(Rest) : Rest[j].time >= queue[Foremost].time
<1> DEFINE m == Len(queue)
<1>1. /\ IsList(queue) /\ m \in Nat /\ Foremost \in 1 .. m
      /\ \A i \in 1 .. m : queue[i] \in ItemType /\ queue[i].time >= queue[Foremost].time
  BY ForemostIs DEF ClockInv, IsList
<1>2. /\ IsList(Rest) /\ Len(Rest) = m - 1
      /\ \A j \in 1 .. m - 1 : Rest[j] = queue[IF j < Foremost THEN j ELSE j + 1]
  BY <1>1, RemovedFromList DEF Rest
<1>3. ASSUME NEW j \in 1 .. m - 1
      PROVE  Rest[j] \in ItemType /\ Rest[j].time >= queue[Foremost].time
  <2>1. (IF j < Foremost THEN j ELSE j + 1) \in 1 .. m
    BY <1>1
  <2> QED
    BY <1>1, <1>2, <2>1
<1>4. Rest \in Seq(ItemType)
  BY <1>2, <1>3 DEF IsList
<1> QED
  BY <1>2, <1>3, <1>4

LEMMA AppendIsJoin ==
    ASSUME NEW S, NEW s \in Seq(S), NEW x \in S
    PROVE  Append(s, x) = s \o <<x>> /\ <<x>> \in Seq(S) /\ Len(<<x>>) = 1 /\ <<x>>[1] = x
<1>1. <<x>> \in Seq(S) /\ Len(<<x>>) = 1 /\ <<x>>[1] = x
  OBVIOUS
<1>2. Append(s, x) = s \o <<x>>
  OBVIOUS
<1> QED
  BY <1>1, <1>2

(* An event is taken out at its time.                                       *)
LEMMA PopIs ==
    ASSUME ClockInv, NEW kind, Pop(kind)
    PROVE  /\ goal' = goal /\ goal \in Nat /\ faults' = faults
           /\ clockNS' = queue[Foremost].time /\ clockNS' \in Nat /\ clockNS <= clockNS' /\ clockNS' <= goal
           /\ Foremost \in 1 .. Len(queue) /\ queue[Foremost].kind = kind
           /\ Rest \in Seq(ItemType) /\ \A j \in 1 .. Len(Rest) : Rest[j].time >= clockNS'
<1>1. goal # None /\ Due # {} /\ queue[Foremost].kind = kind /\ clockNS' = queue[Foremost].time
      /\ goal' = goal /\ faults' = faults
  BY DEF Pop
<1>2. /\ Foremost \in 1 .. Len(queue) /\ queue[Foremost].time <= goal
      /\ Rest \in Seq(ItemType) /\ \A j \in 1 .. Len(Rest) : Rest[j].time >= queue[Foremost].time
  BY <1>1, ForemostIs, RestIs
<1>3. queue[Foremost] \in ItemType /\ queue[Foremost].time >= clockNS /\ clockNS \in Nat /\ goal \in Nat
  BY <1>1, <1>2 DEF ClockInv
<1>4. queue[Foremost].time \in Nat
  BY <1>3 DEF ItemType
<1> QED
  BY <1>1, <1>2, <1>3, <1>4

LEMMA PopClock ==
    ASSUME ClockInv, NEW kind, Pop(kind), NEW more \in Seq(ItemType), \A i \in 1 .. Len(more) : more[i].time >= clockNS',
           queue' = Rest \/ queue' = Rest \o more
    PROVE  ClockInv'
<1>1. /\ goal' = goal /\ goal \in Nat /\ faults' = faults
      /\ clockNS' \in Nat /\ clockNS <= clockNS' /\ clockNS' <= goal
      /\ Rest \in Seq(ItemType) /\ \A j \in 1 .. Len(Rest) : Rest[j].time >= clockNS'
  BY PopIs
<1>2. /\ Rest \o more \in Seq(ItemType)
      /\ \A i \in 1 .. Len(Rest \o more) : (Rest \o more)[i].time >= clockNS'
  BY <1>1, QueueGrows
<1>3. queue' \in Seq(ItemType) /\ \A i \in 1 .. Len(queue') : queue'[i].time >= clockNS'
  BY <1>1, <1>2
<1>4. Start <= clockNS /\ clockNS \in Nat /\ faults \in Seq(FaultType)
  BY DEF ClockInv
<1>5. Start <= clockNS'
  BY <1>1, <1>4, WorldAssumption
<1> QED
  BY <1>1, <1>3, <1>4, <1>5 DEF ClockInv

-----------------------------------------------------------------------------
(* The commands that come between two advances.                             *)

LEMMA CommandClock ==
    ASSUME ClockInv, clockNS' = clockNS, goal' = goal, faults' \in Seq(FaultType),
           NEW more \in Seq(ItemType), \A i \in 1 .. Len(more) : more[i].time >= clockNS,
           queue' = queue \/ queue' = queue \o more
    PROVE  ClockInv'
<1>1. /\ queue \o more \in Seq(ItemType)
      /\ \A i \in 1 .. Len(queue \o more) : (queue \o more)[i].time >= clockNS
  BY QueueGrows DEF ClockInv
<1> QED
  BY <1>1 DEF ClockInv

LEMMA ChecksAreItems ==
    ASSUME NEW t, NEW more \in Seq(Checks(t))
    PROVE  more \in Seq(ItemType) /\ \A i \in 1 .. Len(more) : more[i].time >= t /\ more[i].kind = "check"
<1>1. \A i \in 1 .. Len(more) : more[i] \in Checks(t)
  OBVIOUS
<1>2. \A i \in 1 .. Len(more) : more[i] \in ItemType /\ more[i].time >= t /\ more[i].kind = "check"
  BY <1>1 DEF Checks
<1>3. more = [i \in 1 .. Len(more) |-> more[i]] /\ Len(more) \in Nat
  OBVIOUS
<1> QED
  BY <1>2, <1>3

LEMMA ClearedTyped ==
    ASSUME NEW fault \in FaultType, NEW when \in Nat, NEW by \in {"command", "responder"}
    PROVE  /\ ClearedBy(fault, when, by) \in FaultType
           /\ ClearedBy(fault, when, by).entity = fault.entity /\ ClearedBy(fault, when, by).fault = fault.fault
           /\ ClearedBy(fault, when, by).onset = fault.onset /\ ClearedBy(fault, when, by).cleared = when
BY DEF ClearedBy, FaultType

(* The fault that an injection enters.                                      *)
Injected(e, f, onset) ==
    [entity |-> e, fault |-> f, onset |-> onset, by |-> IF FaultDecl[f].lasts = 0 THEN "" ELSE "pulse_end",
     cleared |-> IF FaultDecl[f].lasts = 0 THEN 0 ELSE onset + FaultDecl[f].lasts]

LEMMA InjectedTyped ==
    ASSUME NEW e \in Entity, NEW f \in DOMAIN FaultDecl, NEW onset \in Nat
    PROVE  Injected(e, f, onset) \in FaultType
<1>1. FaultDecl[f].lasts \in Nat
  BY WorldAssumption
<1>2. (IF FaultDecl[f].lasts = 0 THEN 0 ELSE onset + FaultDecl[f].lasts) \in Nat
  BY <1>1
<1>3. (IF FaultDecl[f].lasts = 0 THEN "" ELSE "pulse_end") \in {"", "pulse_end", "command", "responder"}
  OBVIOUS
<1> QED
  BY <1>2, <1>3 DEF Injected, FaultType

(* What each command does to the queue: it puts checks behind it.           *)
OnlyChecks(more) == more \in Seq(Checks(clockNS)) /\ (queue' = queue \/ queue' = queue \o more)

LEMMA InjectIs ==
    ASSUME ClockInv, NEW e \in Entity, NEW f \in DOMAIN FaultDecl, NEW onset \in 1 .. WorldHorizon,
           InjectFault(e, f, onset)
    PROVE  /\ faults' = Append(faults, Injected(e, f, onset)) /\ faults' \in Seq(FaultType)
           /\ UNCHANGED <<clockNS, goal, entity, kicks, leases, calls, drawn, ahead, sampled>>
           /\ \E more : OnlyChecks(more)
<1> DEFINE fault == Injected(e, f, onset)
           times == <<fault.onset, fault.cleared>>
<1>1. onset \in Nat
  BY WorldAssumption
<1>2. fault \in FaultType
  BY <1>1, InjectedTyped
<1>3. /\ faults' = Append(faults, fault) /\ queue' = queue \o PulseEdges(fault, times)
      /\ UNCHANGED <<clockNS, goal, entity, kicks, leases, calls, drawn, ahead, sampled>>
  BY DEF InjectFault, Injected, driving
<1>4. times \in [1 .. 2 -> Nat]
  <2>1. fault.onset \in Nat /\ fault.cleared \in Nat
    BY <1>2 DEF FaultType
  <2> HIDE DEF fault
  <2> QED
    BY <2>1
<1>5. faults \in Seq(FaultType) /\ clockNS \in Nat
  BY DEF ClockInv
<1> HIDE DEF fault, times
<1>6. PulseEdges(fault, times) \in Seq(Checks(clockNS))
  BY <1>2, <1>4, <1>5, PulseChecks
<1>7. Append(faults, fault) \in Seq(FaultType)
  BY <1>2, <1>5
<1> QED
  BY <1>3, <1>6, <1>7 DEF OnlyChecks, fault

LEMMA ClearIs ==
    ASSUME ClockInv, NEW i \in DOMAIN faults, NEW when \in Instants, ClearFault(i, when)
    PROVE  /\ faults' = [faults EXCEPT ![i] = ClearedBy(faults[i], when, "command")] /\ faults' \in Seq(FaultType)
           /\ Shortens(faults[i], when) /\ when \in Nat /\ when >= clockNS
           /\ UNCHANGED <<clockNS, goal, entity, kicks, leases, calls, drawn, ahead, sampled>>
           /\ \E more : OnlyChecks(more)
<1> DEFINE times == <<when>>
<1>1. clockNS \in Nat /\ faults \in Seq(FaultType) /\ faults[i] \in FaultType
  BY DEF ClockInv
<1>2. when \in Nat /\ when >= clockNS
  BY <1>1, WorldAssumption DEF Instants
<1>3. /\ faults' = [faults EXCEPT ![i] = ClearedBy(faults[i], when, "command")] /\ Shortens(faults[i], when)
      /\ queue' = queue \o PulseEdges(faults[i], times)
      /\ UNCHANGED <<clockNS, goal, entity, kicks, leases, calls, drawn, ahead, sampled>>
  BY DEF ClearFault, driving
<1>4. times \in [1 .. 1 -> Nat]
  BY <1>2
<1> HIDE DEF times
<1>5. PulseEdges(faults[i], times) \in Seq(Checks(clockNS))
  BY <1>1, <1>4, PulseChecks
<1>6. ClearedBy(faults[i], when, "command") \in FaultType
  BY <1>1, <1>2, ClearedTyped
<1>7. faults' \in Seq(FaultType)
  BY <1>1, <1>3, <1>6
<1> QED
  BY <1>2, <1>3, <1>5, <1>7 DEF OnlyChecks

(* The faults that whoever is sent clears at his arrival.                   *)
Ended_By(e, f, args, when, mode) == {i \in Matched(e, f, args, when, mode) : Shortens(faults[i], Arrival(f, when))}

LEMMA ExecuteIs ==
    ASSUME ClockInv, NEW e \in Entity, NEW f \in DOMAIN EffectorDecl, NEW args \in Args[f],
           NEW when \in Nat, when >= clockNS, NEW mode, Execute(e, f, args, when, mode)
    PROVE  /\ faults' = [i \in DOMAIN faults |->
                           IF i \in Ended_By(e, f, args, when, mode) THEN ClearedBy(faults[i], Arrival(f, when), "responder")
                           ELSE faults[i]]
           /\ faults' \in Seq(FaultType) /\ Arrival(f, when) \in Nat /\ Arrival(f, when) >= clockNS
           /\ \E more : OnlyChecks(more)
<1> DEFINE there == Arrival(f, when)
           S == Ended_By(e, f, args, when, mode)
           times == <<there>>
           edges == [i \in DOMAIN faults |-> IF i \in S THEN PulseEdges(faults[i], times) ELSE <<>>]
           m == Len(faults)
<1>1. /\ clockNS \in Nat /\ faults \in Seq(FaultType) /\ m \in Nat /\ DOMAIN faults = 1 .. m
      /\ \A i \in 1 .. m : faults[i] \in FaultType
  BY DEF ClockInv
<1>2. EffectorDecl[f].dead \in Nat
  BY WorldAssumption
<1>3. there \in Nat /\ there >= clockNS
  BY <1>1, <1>2 DEF Arrival
<1>4. /\ faults' = [i \in DOMAIN faults |-> IF i \in S THEN ClearedBy(faults[i], there, "responder") ELSE faults[i]]
      /\ queue' = queue \o FlattenSeq(edges)
  BY DEF Execute, Ended_By
<1> HIDE DEF S, there, m
<1>5. times \in [1 .. 1 -> Nat]
  BY <1>3
<1> HIDE DEF times
<1>6. \A i \in 1 .. m : edges[i] \in Seq(Checks(clockNS))
  <2> TAKE i \in 1 .. m
  <2>1. PulseEdges(faults[i], times) \in Seq(Checks(clockNS)) /\ <<>> \in Seq(Checks(clockNS))
    <3>1. faults[i] \in FaultType
      BY <1>1
    <3>2. PulseEdges(faults[i], times) \in Seq(Checks(clockNS))
      BY <1>1, <1>5, <3>1, PulseChecks
    <3> QED
      BY <3>2
  <2> QED
    BY <1>1, <2>1
<1>7. edges \in Seq(Seq(Checks(clockNS)))
  <2>1. edges = [i \in 1 .. m |-> edges[i]]
    BY <1>1
  <2> HIDE DEF edges
  <2> QED
    BY <1>1, <1>6, <2>1
<1> HIDE DEF edges
<1>8. FlattenSeq(edges) \in Seq(Checks(clockNS))
  BY <1>7, FlattenTyped
<1>9. \A i \in 1 .. m : ClearedBy(faults[i], there, "responder") \in FaultType
  BY <1>1, <1>3, ClearedTyped
<1>10. faults' \in Seq(FaultType)
  <2>1. \A i \in 1 .. m : (IF i \in S THEN ClearedBy(faults[i], there, "responder") ELSE faults[i]) \in FaultType
    BY <1>1, <1>9
  <2>2. faults' = [i \in 1 .. m |-> IF i \in S THEN ClearedBy(faults[i], there, "responder") ELSE faults[i]]
    BY <1>1, <1>4
  <2> QED
    BY <1>1, <2>1, <2>2
<1> QED
  BY <1>3, <1>4, <1>8, <1>10 DEF OnlyChecks, S, there

LEMMA InvokeIs ==
    ASSUME ClockInv, NEW e \in Entity, NEW f \in DOMAIN EffectorDecl, NEW args \in Args[f],
           NEW when \in Instants, NEW mode, InvokeEffector(e, f, args, when, mode)
    PROVE  /\ when \in Nat /\ when >= clockNS /\ faults' \in Seq(FaultType)
           /\ Live(e) /\ drawn' = Looked(e, f, when) /\ UNCHANGED <<clockNS, goal, entity, sampled>>
           /\ \E more : OnlyChecks(more)
           /\ \/ Refuse(e, f, when) /\ faults' = faults
              \/ Execute(e, f, args, when, mode)
<1>1. clockNS \in Nat /\ WorldHorizon \in Nat
  BY WorldAssumption DEF ClockInv
<1>2. when \in Nat /\ when >= clockNS
  BY <1>1 DEF Instants
<1>3. /\ Live(e) /\ drawn' = Looked(e, f, when) /\ UNCHANGED <<clockNS, goal, entity, sampled>>
      /\ Refuse(e, f, when) \/ Execute(e, f, args, when, mode)
  BY DEF InvokeEffector
<1>4. CASE Refuse(e, f, when)
  <2>1. UNCHANGED <<faults, queue>>
    BY <1>4 DEF Refuse
  <2>2. OnlyChecks(<<>>)
    BY <2>1 DEF OnlyChecks
  <2> QED
    BY <1>2, <1>3, <1>4, <2>1, <2>2 DEF ClockInv
<1>5. CASE Execute(e, f, args, when, mode)
  BY <1>1, <1>2, <1>3, <1>5, ExecuteIs
<1> QED
  BY <1>3, <1>4, <1>5

LEMMA ChecksClock ==
    ASSUME ClockInv, clockNS' = clockNS, goal' = goal, faults' \in Seq(FaultType), NEW more, OnlyChecks(more)
    PROVE  ClockInv'
<1>1. more \in Seq(ItemType) /\ \A i \in 1 .. Len(more) : more[i].time >= clockNS
  BY ChecksAreItems DEF OnlyChecks
<1> QED
  BY <1>1, CommandClock DEF OnlyChecks

-----------------------------------------------------------------------------
(* The clock never falls behind what is due.                                *)

LEMMA NextBirthIs ==
    ASSUME NEW when \in Nat, NEW free, NEW births \in NextBirth(when, free)
    PROVE  /\ births \in Seq(ItemType)
           /\ \A i \in 1 .. Len(births) : births[i].kind = "birth" /\ births[i].time >= when
<1>1. CASE births = <<>>
  BY <1>1
<1>2. ASSUME NEW gap \in Births, births = <<Item("birth", "", when + gap)>>
      PROVE  /\ births \in Seq(ItemType)
             /\ \A i \in 1 .. Len(births) : births[i].kind = "birth" /\ births[i].time >= when
  <2> DEFINE x == Item("birth", "", when + gap)
  <2>1. gap \in Nat
    BY WorldAssumption
  <2>2. when + gap \in Nat /\ when + gap >= when
    BY <2>1
  <2>3. x \in ItemType
    <3>1. "birth" \in ItemKinds /\ "" \in Entity \cup {""}
      BY DEF ItemKinds
    <3> QED
      BY <2>2, <3>1, ItemTyped
  <2>4. x.kind = "birth" /\ x.time >= when
    BY <2>2 DEF Item
  <2>5. births = <<x>>
    BY <1>2
  <2> HIDE DEF x
  <2>6. <<x>> \in Seq(ItemType) /\ Len(<<x>>) = 1 /\ <<x>>[1] = x
    BY <2>3
  <2> QED
    BY <2>4, <2>5, <2>6
<1> QED
  BY <1>1, <1>2 DEF NextBirth

(* The items the world begins with.                                         *)
Begins(next) == {Item("emission", e, Start + next[e]) : e \in Initial}

LEMMA BeginsFinite ==
    ASSUME NEW next \in [Initial -> Cadence]
    PROVE  IsFiniteSet(Begins(next)) /\ Begins(next) \subseteq ItemType
           /\ \A x \in Begins(next) : x.time >= Start /\ x.kind = "emission"
<1> DEFINE g == [e \in Initial |-> Item("emission", e, Start + next[e])]
<1>1. IsFiniteSet(Initial)
  BY FS_Subset, WorldAssumption
<1>2. g \in Surjection(Initial, Begins(next))
  BY DEF Surjection, Begins
<1> HIDE DEF g
<1>3. IsFiniteSet(Begins(next))
  BY <1>1, <1>2, FS_Surjection
<1>4. ASSUME NEW e \in Initial
      PROVE  /\ Item("emission", e, Start + next[e]) \in ItemType
             /\ Item("emission", e, Start + next[e]).time >= Start
             /\ Item("emission", e, Start + next[e]).kind = "emission"
  <2>1. next[e] \in Nat /\ Start \in Nat
    BY WorldAssumption
  <2>2. Start + next[e] \in Nat /\ Start + next[e] >= Start
    BY <2>1
  <2>3. Item("emission", e, Start + next[e]) \in ItemType
    <3>1. "emission" \in ItemKinds /\ e \in Entity \cup {""}
      BY WorldAssumption DEF ItemKinds
    <3> QED
      BY <2>2, <3>1, ItemTyped
  <2> QED
    BY <2>2, <2>3 DEF Item
<1>5. Begins(next) \subseteq ItemType /\ \A x \in Begins(next) : x.time >= Start /\ x.kind = "emission"
  BY <1>4 DEF Begins
<1> QED
  BY <1>3, <1>5

LEMMA ClockInvInit == ASSUME WorldInit PROVE ClockInv
<1>1. clockNS = Start /\ Start \in Nat /\ goal = None /\ faults = <<>>
  BY WorldAssumption DEF WorldInit
<1>2. PICK next \in [Initial -> Cadence], births \in NextBirth(Start, Entity \ Initial) :
        queue = SetToSeq(Begins(next)) \o births
  BY DEF WorldInit, Begins
<1> DEFINE first == SetToSeq(Begins(next))
<1>3. first \in Seq(Begins(next))
  BY BeginsFinite, ListedOnce
<1>4. \A i \in 1 .. Len(first) : first[i] \in Begins(next)
  BY <1>3
<1>5. first = [i \in 1 .. Len(first) |-> first[i]] /\ Len(first) \in Nat
  BY <1>3
<1> HIDE DEF first
<1>6. first \in Seq(ItemType) /\ \A i \in 1 .. Len(first) : first[i].time >= Start
  BY <1>4, <1>5, BeginsFinite
<1>7. births \in Seq(ItemType) /\ \A i \in 1 .. Len(births) : births[i].time >= Start
  BY <1>1, NextBirthIs
<1>8. queue \in Seq(ItemType) /\ \A i \in 1 .. Len(queue) : queue[i].time >= clockNS
  BY <1>1, <1>2, <1>6, <1>7, QueueGrows DEF first
<1> QED
  BY <1>1, <1>8 DEF ClockInv

LEMMA AdvanceClock ==
    ASSUME ClockInv, NEW to \in Instants, AdvanceWorld(to)
    PROVE  ClockInv'
<1>1. to \in Nat /\ to >= clockNS
  BY WorldAssumption DEF Instants, ClockInv
<1> QED
  BY <1>1 DEF AdvanceWorld, ClockInv

LEMMA ReturnClock ==
    ASSUME ClockInv, WorldReturns
    PROVE  ClockInv' /\ goal \in Nat /\ clockNS' = goal /\ clockNS <= goal
<1>1. goal # None /\ Due = {} /\ clockNS' = goal /\ goal' = None /\ UNCHANGED <<queue, faults>>
  BY DEF WorldReturns
<1>2. goal \in Nat /\ clockNS <= goal /\ clockNS \in Nat /\ Start \in Nat
  BY <1>1, WorldAssumption DEF ClockInv
<1>3. queue \in Seq(ItemType) /\ \A item \in ItemType : item.time \in Nat
  BY DEF ClockInv, ItemType
<1>4. \A i \in 1 .. Len(queue) : queue[i].time >= goal
  BY <1>1, <1>2, <1>3 DEF Due
<1> QED
  BY <1>1, <1>2, <1>4 DEF ClockInv

LEMMA EmissionItem ==
    ASSUME NEW t \in Nat, NEW e \in Entity, NEW next \in Cadence \cup Lifetimes, NEW kind \in ItemKinds
    PROVE  LET x == Item(kind, e, t + next)
           IN x \in ItemType /\ x.kind = kind /\ x.entity = e /\ x.time >= t
<1>1. next \in Nat
  BY WorldAssumption
<1>2. t + next \in Nat /\ t + next >= t
  BY <1>1
<1>3. Item(kind, e, t + next) \in ItemType
  <2>1. e \in Entity \cup {""}
    OBVIOUS
  <2> QED
    BY <1>2, <2>1, ItemTyped
<1> QED
  BY <1>2, <1>3 DEF Item

-----------------------------------------------------------------------------
(* The emissions that are due of an entity.                                 *)

Emits(x, e) == x.kind = "emission" /\ x.entity = e
NoneDue(q, e) == \A i \in 1 .. Len(q) : ~ Emits(q[i], e)
OnceDue(q, e) == \E i \in 1 .. Len(q) : Emits(q[i], e) /\ \A j \in 1 .. Len(q) : Emits(q[j], e) => j = i

LEMMA NothingJoins ==
    ASSUME NEW q \in Seq(ItemType), NEW more \in Seq(ItemType), NEW e, NoneDue(more, e)
    PROVE  /\ NoneDue(q, e) => NoneDue(q \o more, e)
           /\ OnceDue(q, e) => OnceDue(q \o more, e)
<1>1. /\ Len(q \o more) = Len(q) + Len(more) /\ Len(q) \in Nat /\ Len(more) \in Nat
      /\ \A j \in 1 .. Len(q) + Len(more) : (q \o more)[j] = IF j <= Len(q) THEN q[j] ELSE more[j - Len(q)]
  BY ListsJoined
<1>2. ASSUME NEW j \in 1 .. Len(q) + Len(more), Emits((q \o more)[j], e)
      PROVE  j \in 1 .. Len(q) /\ Emits(q[j], e)
  <2>1. CASE j <= Len(q)
    BY <1>1, <1>2, <2>1
  <2>2. CASE ~ (j <= Len(q))
    <3>1. j - Len(q) \in 1 .. Len(more)
      BY <1>1, <2>2
    <3>2. (q \o more)[j] = more[j - Len(q)]
      BY <1>1, <2>2
    <3> QED
      BY <1>2, <3>1, <3>2 DEF NoneDue
  <2> QED
    BY <2>1, <2>2
<1>3. ASSUME NEW i \in 1 .. Len(q)
      PROVE  i \in 1 .. Len(q) + Len(more) /\ (q \o more)[i] = q[i]
  BY <1>1
<1>4. NoneDue(q, e) => NoneDue(q \o more, e)
  BY <1>1, <1>2 DEF NoneDue
<1>5. ASSUME OnceDue(q, e)
      PROVE  OnceDue(q \o more, e)
  <2>1. PICK i \in 1 .. Len(q) : Emits(q[i], e) /\ \A j \in 1 .. Len(q) : Emits(q[j], e) => j = i
    BY <1>5 DEF OnceDue
  <2>2. i \in 1 .. Len(q \o more) /\ Emits((q \o more)[i], e)
    BY <1>1, <1>3, <2>1
  <2>3. \A j \in 1 .. Len(q \o more) : Emits((q \o more)[j], e) => j = i
    BY <1>1, <1>2, <2>1
  <2> QED
    BY <2>2, <2>3 DEF OnceDue
<1> QED
  BY <1>4, <1>5

LEMMA OneJoins ==
    ASSUME NEW q \in Seq(ItemType), NEW x \in ItemType, NEW more \in Seq(ItemType), NEW e,
           NoneDue(q, e), Emits(x, e), NoneDue(more, e)
    PROVE  OnceDue((q \o <<x>>) \o more, e) /\ OnceDue(Append(q, x), e)
<1> DEFINE one == <<x>>
           p == q \o one
<1>1. one \in Seq(ItemType) /\ Len(one) = 1 /\ one[1] = x /\ Append(q, x) = p
  BY AppendIsJoin
<1> HIDE DEF one
<1>2. /\ p \in Seq(ItemType) /\ Len(p) = Len(q) + 1 /\ Len(q) \in Nat
      /\ \A j \in 1 .. Len(q) + 1 : p[j] = IF j <= Len(q) THEN q[j] ELSE one[j - Len(q)]
  BY <1>1, ListsJoined
<1>3. p[Len(q) + 1] = x
  <2>1. Len(q) + 1 \in 1 .. Len(q) + 1 /\ ~ (Len(q) + 1 <= Len(q)) /\ (Len(q) + 1) - Len(q) = 1
    BY <1>2
  <2> QED
    BY <1>1, <1>2, <2>1
<1>4. ASSUME NEW j \in 1 .. Len(q) + 1, Emits(p[j], e)
      PROVE  j = Len(q) + 1
  <2>1. CASE j <= Len(q)
    <3>1. j \in 1 .. Len(q) /\ p[j] = q[j]
      BY <1>2, <2>1
    <3> QED
      BY <1>4, <3>1 DEF NoneDue
  <2>2. CASE ~ (j <= Len(q))
    BY <1>2, <2>2
  <2> QED
    BY <2>1, <2>2
<1> HIDE DEF p
<1>5. Len(q) + 1 \in 1 .. Len(p) /\ Emits(p[Len(q) + 1], e)
  BY <1>2, <1>3
<1>6. \A j \in 1 .. Len(p) : Emits(p[j], e) => j = Len(q) + 1
  BY <1>2, <1>4
<1>7. OnceDue(p, e)
  BY <1>5, <1>6 DEF OnceDue
<1>8. OnceDue(p \o more, e)
  BY <1>2, <1>7, NothingJoins
<1> QED
  BY <1>1, <1>7, <1>8 DEF p, one

(* What the event that is taken out leaves.                                 *)
LEMMA RestDue ==
    ASSUME ClockInv, goal # None, Due # {}, NEW e
    PROVE  /\ NoneDue(queue, e) => NoneDue(Rest, e)
           /\ OnceDue(queue, e) /\ ~ Emits(queue[Foremost], e) => OnceDue(Rest, e)
           /\ OnceDue(queue, e) /\ Emits(queue[Foremost], e) => NoneDue(Rest, e)
<1> DEFINE m == Len(queue)
           k == Foremost
           Beside(j) == IF j < k THEN j ELSE j + 1
<1>1. /\ m \in Nat /\ k \in 1 .. m /\ Len(Rest) = m - 1
      /\ \A j \in 1 .. m - 1 : Rest[j] = queue[Beside(j)]
  BY ForemostIs, RestIs DEF ClockInv
<1> HIDE DEF m, k
<1>2. \A j \in 1 .. m - 1 : Beside(j) \in 1 .. m /\ Beside(j) # k
  BY <1>1
<1>3. \A j, l \in 1 .. m - 1 : Beside(j) = Beside(l) => j = l
  BY <1>1
<1>4. \A i \in 1 .. m : i # k => \E j \in 1 .. m - 1 : Beside(j) = i
  <2> SUFFICES ASSUME NEW i \in 1 .. m, i # k
               PROVE  \E j \in 1 .. m - 1 : Beside(j) = i
    OBVIOUS
  <2>1. CASE i < k
    <3>1. i \in 1 .. m - 1 /\ Beside(i) = i
      BY <1>1, <2>1
    <3> QED
      BY <3>1
  <2>2. CASE ~ (i < k)
    <3>1. i - 1 \in 1 .. m - 1 /\ Beside(i - 1) = i
      BY <1>1, <2>2
    <3> QED
      BY <3>1
  <2> QED
    BY <2>1, <2>2
<1> HIDE DEF Beside
<1>5. ASSUME NoneDue(queue, e)
      PROVE  NoneDue(Rest, e)
  BY <1>1, <1>2, <1>5 DEF NoneDue, m
<1>6. ASSUME OnceDue(queue, e), ~ Emits(queue[k], e)
      PROVE  OnceDue(Rest, e)
  <2>1. PICK i \in 1 .. m : Emits(queue[i], e) /\ \A j \in 1 .. m : Emits(queue[j], e) => j = i
    BY <1>6 DEF OnceDue, m
  <2>2. PICK j \in 1 .. m - 1 : Beside(j) = i
    BY <1>4, <1>6, <2>1
  <2>3. Emits(Rest[j], e)
    BY <1>1, <2>1, <2>2
  <2>4. \A l \in 1 .. m - 1 : Emits(Rest[l], e) => l = j
    BY <1>1, <1>2, <1>3, <2>1, <2>2
  <2> QED
    BY <1>1, <2>3, <2>4 DEF OnceDue
<1>7. ASSUME OnceDue(queue, e), Emits(queue[k], e)
      PROVE  NoneDue(Rest, e)
  <2>1. PICK i \in 1 .. m : Emits(queue[i], e) /\ \A j \in 1 .. m : Emits(queue[j], e) => j = i
    BY <1>7 DEF OnceDue, m
  <2>2. i = k
    BY <1>1, <1>7, <2>1
  <2>3. \A l \in 1 .. m - 1 : ~ Emits(Rest[l], e)
    BY <1>1, <1>2, <2>1, <2>2
  <2> QED
    BY <1>1, <2>3 DEF NoneDue
<1> QED
  BY <1>5, <1>6, <1>7 DEF k

-----------------------------------------------------------------------------
(* The channel of a live entity stays due exactly once.                     *)

EntityType == [born: Nat \cup {None}, alive: BOOLEAN, retired: Nat \cup {None}, until: Int]

EntityInv ==
    /\ entity \in [Entity -> EntityType]
    /\ \A e \in Entity : Exists(e) => entity[e].born \in Nat /\ entity[e].born >= Start

DueInv ==
    \A e \in Entity : (Live(e) => OnceDue(queue, e)) /\ (~ Exists(e) => NoneDue(queue, e))

QueueInv == ClockInv /\ EntityInv /\ DueInv

LEMMA ChecksEmitNothing ==
    ASSUME NEW more \in Seq(ItemType), \A i \in 1 .. Len(more) : more[i].kind \in ItemKinds \ {"emission"}, NEW e
    PROVE  NoneDue(more, e)
BY DEF NoneDue, Emits

LEMMA ChecksQueue ==
    ASSUME QueueInv, entity' = entity, NEW more \in Seq(ItemType),
           \A i \in 1 .. Len(more) : more[i].kind \in ItemKinds \ {"emission"},
           queue' = queue \/ queue' = queue \o more
    PROVE  EntityInv' /\ DueInv'
<1>1. EntityInv'
  BY DEF QueueInv, EntityInv, Exists
<1>2. ASSUME NEW e \in Entity
      PROVE  (Live(e)' => OnceDue(queue', e)) /\ (~ Exists(e)' => NoneDue(queue', e))
  <2>1. (Live(e) => OnceDue(queue, e)) /\ (~ Exists(e) => NoneDue(queue, e))
    BY DEF QueueInv, DueInv
  <2>2. (Live(e)' <=> Live(e)) /\ (Exists(e)' <=> Exists(e))
    BY DEF Live, Exists
  <2>3. queue \in Seq(ItemType)
    BY DEF QueueInv, ClockInv
  <2>4. NoneDue(more, e)
    BY ChecksEmitNothing
  <2>5. (NoneDue(queue, e) => NoneDue(queue \o more, e)) /\ (OnceDue(queue, e) => OnceDue(queue \o more, e))
    BY <2>3, <2>4, NothingJoins
  <2> QED
    BY <2>1, <2>2, <2>5
<1>3. DueInv'
  BY <1>2 DEF DueInv
<1> QED
  BY <1>1, <1>3

LEMMA CommandQueue ==
    ASSUME QueueInv, clockNS' = clockNS, goal' = goal, entity' = entity, faults' \in Seq(FaultType), NEW more, OnlyChecks(more)
    PROVE  QueueInv'
<1>1. ClockInv'
  BY ChecksClock DEF QueueInv
<1>2. more \in Seq(ItemType) /\ \A i \in 1 .. Len(more) : more[i].kind = "check"
  BY ChecksAreItems DEF OnlyChecks
<1>3. \A i \in 1 .. Len(more) : more[i].kind \in ItemKinds \ {"emission"}
  BY <1>2 DEF ItemKinds
<1>4. EntityInv' /\ DueInv'
  BY <1>2, <1>3, ChecksQueue DEF OnlyChecks
<1> QED
  BY <1>1, <1>4 DEF QueueInv

(* Who is added is due once; the others are as they were.                   *)
LEMMA AddedEntities ==
    ASSUME EntityInv, NEW e \in Entity, NEW when \in Nat, when >= Start, entity' = Added(e, when)
    PROVE  /\ EntityInv' /\ Live(e)'
           /\ \A f \in Entity : f # e => entity'[f] = entity[f]
<1>1. entity \in [Entity -> EntityType] /\ entity[e] \in EntityType
  BY DEF EntityInv
<1> DEFINE x == [entity[e] EXCEPT !.born = when, !.alive = TRUE]
<1>2. x \in EntityType /\ x.born = when /\ x.alive = TRUE
  BY <1>1 DEF EntityType
<1>3. entity' = [entity EXCEPT ![e] = x]
  BY <1>1 DEF Added
<1> HIDE DEF x
<1>4. /\ entity' \in [Entity -> EntityType] /\ entity'[e] = x
      /\ \A f \in Entity : f # e => entity'[f] = entity[f]
  BY <1>1, <1>2, <1>3
<1>5. when # None
  BY DEF None
<1>6. Live(e)'
  BY <1>2, <1>4, <1>5 DEF Live, Exists
<1>7. \A f \in Entity : Exists(f)' => entity'[f].born \in Nat /\ entity'[f].born >= Start
  BY <1>2, <1>4 DEF EntityInv, Exists
<1> QED
  BY <1>4, <1>6, <1>7 DEF EntityInv

LEMMA AddedQueue ==
    ASSUME DueInv, NEW e \in Entity, ~ Exists(e), Live(e)', NEW q \in Seq(ItemType),
           \A f \in Entity : f # e => entity'[f] = entity[f],
           \A f \in Entity : (NoneDue(queue, f) => NoneDue(q, f)) /\ (OnceDue(queue, f) => OnceDue(q, f)),
           NEW x \in ItemType, Emits(x, e), NEW more \in Seq(ItemType), \A f \in Entity : NoneDue(more, f),
           queue' = Append(q, x) \/ queue' = (q \o <<x>>) \o more
    PROVE  DueInv'
<1>1. ASSUME NEW f \in Entity
      PROVE  (Live(f)' => OnceDue(queue', f)) /\ (~ Exists(f)' => NoneDue(queue', f))
  <2>1. (Live(f) => OnceDue(q, f)) /\ (~ Exists(f) => NoneDue(q, f)) /\ NoneDue(more, f)
    BY DEF DueInv
  <2>2. CASE f = e
    <3>1. OnceDue(queue', e)
      BY <2>1, <2>2, OneJoins
    <3>2. Exists(e)'
      BY DEF Live
    <3> QED
      BY <2>2, <3>1, <3>2
  <2>3. CASE f # e
    <3>1. (Live(f)' <=> Live(f)) /\ (Exists(f)' <=> Exists(f))
      BY <2>3 DEF Live, Exists
    <3>2. <<x>> \in Seq(ItemType) /\ Len(<<x>>) = 1 /\ <<x>>[1] = x /\ Append(q, x) = q \o <<x>>
      BY AppendIsJoin
    <3>3. NoneDue(<<x>>, f)
      <4>1. ~ Emits(x, f)
        BY <2>3 DEF Emits
      <4>2. \A i \in 1 .. Len(<<x>>) : i = 1
        BY <3>2
      <4> HIDE DEF Emits
      <4> QED
        BY <3>2, <4>1, <4>2 DEF NoneDue
    <3>4. /\ NoneDue(q, f) => NoneDue(q \o <<x>>, f)
          /\ OnceDue(q, f) => OnceDue(q \o <<x>>, f)
          /\ q \o <<x>> \in Seq(ItemType)
      BY <3>2, <3>3, NothingJoins, ListsJoined
    <3>5. /\ NoneDue(q, f) => NoneDue((q \o <<x>>) \o more, f)
          /\ OnceDue(q, f) => OnceDue((q \o <<x>>) \o more, f)
      BY <2>1, <3>4, NothingJoins
    <3> QED
      BY <2>1, <3>1, <3>2, <3>4, <3>5
  <2> QED
    BY <2>2, <2>3
<1> QED
  BY <1>1 DEF DueInv

(* Who retires keeps its birth; the others are as they were.                *)
LEMMA RetiredEntities ==
    ASSUME EntityInv, clockNS \in Nat, NEW e \in Entity, NEW when \in Nat, entity' = Retired(e, when)
    PROVE  /\ EntityInv' /\ ~ Live(e)'
           /\ entity'[e].alive = FALSE /\ entity'[e].retired = when
           /\ entity'[e].until = IF when > clockNS - 1 THEN when ELSE clockNS - 1
           /\ \A f \in Entity : f # e => entity'[f] = entity[f]
           /\ \A f \in Entity : entity'[f].born = entity[f].born
<1>1. entity \in [Entity -> EntityType] /\ entity[e] \in EntityType
  BY DEF EntityInv
<1> DEFINE last == Max({when, clockNS - 1})
           x == [entity[e] EXCEPT !.alive = FALSE, !.retired = when, !.until = last]
<1>0. last = (IF when > clockNS - 1 THEN when ELSE clockNS - 1) /\ last \in Int
  <2>1. when \in Int /\ clockNS - 1 \in Int
    OBVIOUS
  <2> QED
    BY <2>1, MaxIs
<1>3. entity' = [entity EXCEPT ![e] = x]
  BY <1>1 DEF Retired
<1> HIDE DEF last
<1>2. x \in EntityType /\ x.born = entity[e].born /\ x.alive = FALSE /\ x.retired = when /\ x.until = last
  BY <1>0, <1>1 DEF EntityType
<1> HIDE DEF x
<1>4. /\ entity' \in [Entity -> EntityType] /\ entity'[e] = x
      /\ \A f \in Entity : f # e => entity'[f] = entity[f]
  BY <1>1, <1>2, <1>3
<1>5. \A f \in Entity : entity'[f].born = entity[f].born
  BY <1>2, <1>4
<1>6. ~ Live(e)'
  BY <1>2, <1>4 DEF Live
<1>7. \A f \in Entity : Exists(f)' => entity'[f].born \in Nat /\ entity'[f].born >= Start
  BY <1>5 DEF EntityInv, Exists
<1> QED
  BY <1>0, <1>2, <1>4, <1>5, <1>6, <1>7 DEF EntityInv

LEMMA RetiredQueue ==
    ASSUME DueInv, NEW e \in Entity, Live(e), NEW when \in Nat,
           ~ Live(e)', \A f \in Entity : f # e => entity'[f] = entity[f], \A f \in Entity : entity'[f].born = entity[f].born,
           \A f \in Entity : (NoneDue(queue, f) => NoneDue(queue', f)) /\ (OnceDue(queue, f) => OnceDue(queue', f))
    PROVE  DueInv'
<1>1. ASSUME NEW f \in Entity
      PROVE  (Live(f)' => OnceDue(queue', f)) /\ (~ Exists(f)' => NoneDue(queue', f))
  <2>1. /\ (Live(f) => OnceDue(queue', f)) /\ (~ Exists(f) => NoneDue(queue', f))
        /\ Exists(f)' <=> Exists(f)
    BY DEF DueInv, Exists
  <2>2. f # e => (Live(f)' <=> Live(f))
    BY DEF Live, Exists
  <2> QED
    BY <2>1, <2>2
<1> QED
  BY <1>1 DEF DueInv

LEMMA AddQueue ==
    ASSUME QueueInv, NEW e \in Entity, NEW when \in Instants, NEW next \in Cadence, AddEntity(e, when, next)
    PROVE  QueueInv'
<1> DEFINE x == Item("emission", e, when + next)
<1>1. /\ clockNS \in Nat /\ Start \in Nat /\ Start <= clockNS /\ WorldHorizon \in Nat /\ queue \in Seq(ItemType)
      /\ \A i \in 1 .. Len(queue) : queue[i].time >= clockNS
  BY WorldAssumption DEF QueueInv, ClockInv
<1>2. when \in Nat /\ when >= clockNS /\ when >= Start
  BY <1>1 DEF Instants
<1>3. "emission" \in ItemKinds
  BY DEF ItemKinds
<1>4. x \in ItemType /\ Emits(x, e) /\ x.time >= clockNS
  <2>1. x \in ItemType /\ x.kind = "emission" /\ x.entity = e /\ x.time >= when /\ x.time \in Nat
    <3>1. x \in ItemType /\ x.kind = "emission" /\ x.entity = e /\ x.time >= when
      BY <1>2, <1>3, EmissionItem
    <3> HIDE DEF x
    <3> QED
      BY <3>1 DEF ItemType
  <2> HIDE DEF x
  <2> QED
    BY <1>1, <1>2, <2>1 DEF Emits
<1>5. ~ Exists(e) /\ entity' = Added(e, when) /\ queue' = Append(queue, x) /\ UNCHANGED <<clockNS, goal, faults>>
  BY DEF AddEntity
<1> HIDE DEF x
<1>6. Append(queue, x) = queue \o <<x>> /\ <<x>> \in Seq(ItemType) /\ Len(<<x>>) = 1 /\ <<x>>[1] = x
  BY <1>1, <1>4, AppendIsJoin
<1>7. ClockInv'
  <2>1. \A i \in 1 .. Len(<<x>>) : <<x>>[i].time >= clockNS
    <3>1. \A i \in 1 .. 1 : i = 1
      OBVIOUS
    <3> QED
      BY <1>4, <1>6, <3>1
  <2>2. ClockInv /\ faults' \in Seq(FaultType)
    BY <1>5 DEF QueueInv, ClockInv
  <2> QED
    BY <1>5, <1>6, <2>1, <2>2, CommandClock
<1>8. EntityInv' /\ Live(e)' /\ \A f \in Entity : f # e => entity'[f] = entity[f]
  BY <1>2, <1>5, AddedEntities DEF QueueInv
<1>9. DueInv'
  <2>1. <<>> \in Seq(ItemType) /\ \A f \in Entity : NoneDue(<<>>, f)
    BY DEF NoneDue
  <2>2. DueInv
    BY DEF QueueInv
  <2> QED
    BY <1>1, <1>4, <1>5, <1>8, <2>1, <2>2, AddedQueue
<1> QED
  BY <1>7, <1>8, <1>9 DEF QueueInv

LEMMA RetireQueue ==
    ASSUME QueueInv, NEW e \in Entity, NEW when \in Start .. WorldHorizon, Retire(e, when)
    PROVE  QueueInv'
<1>1. clockNS \in Nat /\ WorldHorizon \in Nat
  BY WorldAssumption DEF QueueInv, ClockInv
<1>2. when \in Nat
  BY WorldAssumption
<1>3. Live(e) /\ entity' = Retired(e, when) /\ UNCHANGED <<clockNS, goal, queue, faults>>
  BY DEF Retire
<1>4. /\ EntityInv' /\ ~ Live(e)' /\ \A f \in Entity : f # e => entity'[f] = entity[f]
      /\ \A f \in Entity : entity'[f].born = entity[f].born
  BY <1>1, <1>2, <1>3, RetiredEntities DEF QueueInv
<1>5. DueInv'
  BY <1>2, <1>3, <1>4, RetiredQueue DEF QueueInv
<1>6. ClockInv'
  BY <1>3 DEF QueueInv, ClockInv
<1> QED
  BY <1>4, <1>5, <1>6 DEF QueueInv

(* Events that are neither a birth nor a death.                             *)
LEMMA EmissionQueue ==
    ASSUME QueueInv, NEW e \in Entity, NEW down, NEW next \in Cadence, Emission(e, down, next)
    PROVE  QueueInv'
<1> DEFINE x == Item("emission", e, clockNS' + next)
<1>1. Pop("emission") /\ queue[Foremost].entity = e /\ entity' = entity
      /\ IF Live(e) THEN queue' = Append(Rest, x) ELSE queue' = Rest
  BY DEF Emission
<1>2. ClockInv /\ goal # None /\ Due # {}
  BY <1>1 DEF QueueInv, Pop
<1>3. clockNS' \in Nat /\ Rest \in Seq(ItemType) /\ queue[Foremost].kind = "emission"
  BY <1>1, <1>2, PopIs
<1>4. x \in ItemType /\ Emits(x, e) /\ x.time >= clockNS'
  <2>1. "emission" \in ItemKinds
    BY DEF ItemKinds
  <2>2. x \in ItemType /\ x.kind = "emission" /\ x.entity = e /\ x.time >= clockNS'
    BY <1>3, <2>1, EmissionItem
  <2> HIDE DEF x
  <2> QED
    BY <2>2 DEF Emits
<1> HIDE DEF x
<1>5. Append(Rest, x) = Rest \o <<x>> /\ <<x>> \in Seq(ItemType) /\ Len(<<x>>) = 1 /\ <<x>>[1] = x
  BY <1>3, <1>4, AppendIsJoin
<1>6. \A i \in 1 .. Len(<<x>>) : <<x>>[i].time >= clockNS'
  <2>1. \A i \in 1 .. 1 : i = 1
    OBVIOUS
  <2> QED
    BY <1>4, <1>5, <2>1
<1>7. ClockInv'
  BY <1>1, <1>2, <1>5, <1>6, PopClock
<1>8. ASSUME NEW f \in Entity
      PROVE  (Live(f)' => OnceDue(queue', f)) /\ (~ Exists(f)' => NoneDue(queue', f))
  <2>1. (Live(f) => OnceDue(queue, f)) /\ (~ Exists(f) => NoneDue(queue, f))
    BY DEF QueueInv, DueInv
  <2>2. (Live(f)' <=> Live(f)) /\ (Exists(f)' <=> Exists(f)) /\ (Live(f) => Exists(f))
    BY <1>1 DEF Live, Exists
  <2>3. /\ NoneDue(queue, f) => NoneDue(Rest, f)
        /\ OnceDue(queue, f) /\ ~ Emits(queue[Foremost], f) => OnceDue(Rest, f)
        /\ OnceDue(queue, f) /\ Emits(queue[Foremost], f) => NoneDue(Rest, f)
    BY <1>2, RestDue
  <2>4. CASE f = e /\ Live(e)
    <3>1. Emits(queue[Foremost], f)
      BY <1>1, <1>3, <2>4 DEF Emits
    <3>2. NoneDue(Rest, f)
      BY <2>1, <2>3, <2>4, <3>1
    <3>3. <<>> \in Seq(ItemType) /\ NoneDue(<<>>, f)
      BY DEF NoneDue
    <3>4. OnceDue(Append(Rest, x), f)
      BY <1>3, <1>4, <2>4, <3>2, <3>3, OneJoins
    <3> QED
      BY <1>1, <2>2, <2>4, <3>4
  <2>5. CASE f = e /\ ~ Live(e)
    BY <1>1, <2>1, <2>2, <2>3, <2>5
  <2>6. CASE f # e
    <3>1. ~ Emits(queue[Foremost], f) /\ ~ Emits(x, f)
      BY <1>1, <1>4, <2>6 DEF Emits
    <3>2. NoneDue(<<x>>, f)
      <4>1. \A i \in 1 .. 1 : i = 1
        OBVIOUS
      <4> QED
        BY <1>5, <3>1, <4>1 DEF NoneDue
    <3>3. (NoneDue(Rest, f) => NoneDue(Rest \o <<x>>, f)) /\ (OnceDue(Rest, f) => OnceDue(Rest \o <<x>>, f))
      BY <1>3, <1>5, <3>2, NothingJoins
    <3> QED
      BY <1>1, <1>5, <2>1, <2>2, <2>3, <3>1, <3>3
  <2> QED
    BY <2>4, <2>5, <2>6
<1>9. DueInv'
  BY <1>8 DEF DueInv
<1>10. EntityInv'
  BY <1>1 DEF QueueInv, EntityInv, Exists
<1> QED
  BY <1>7, <1>9, <1>10 DEF QueueInv

(* An event that is no emission leaves every emission.                      *)
LEMMA PoppedDue ==
    ASSUME ClockInv, NEW kind, kind # "emission", Pop(kind), NEW f
    PROVE  (NoneDue(queue, f) => NoneDue(Rest, f)) /\ (OnceDue(queue, f) => OnceDue(Rest, f))
<1>1. goal # None /\ Due # {} /\ queue[Foremost].kind = kind
  BY DEF Pop
<1>2. ~ Emits(queue[Foremost], f)
  BY <1>1 DEF Emits
<1> QED
  BY <1>1, <1>2, RestDue

LEMMA CheckQueue ==
    ASSUME QueueInv, NEW e \in Entity, NEW down, EventCheck(e, down)
    PROVE  QueueInv'
<1>1. Pop("check") /\ entity' = entity /\ queue' = Rest
  BY DEF EventCheck
<1>2. ClockInv'
  <2>1. <<>> \in Seq(ItemType) /\ \A i \in 1 .. Len(<<>>) : <<>>[i].time >= clockNS'
    OBVIOUS
  <2>2. ClockInv
    BY DEF QueueInv
  <2> QED
    BY <1>1, <2>1, <2>2, PopClock
<1>3. ASSUME NEW f \in Entity
      PROVE  (Live(f)' => OnceDue(queue', f)) /\ (~ Exists(f)' => NoneDue(queue', f))
  <2>1. (Live(f) => OnceDue(queue, f)) /\ (~ Exists(f) => NoneDue(queue, f)) /\ ClockInv
    BY DEF QueueInv, DueInv
  <2>2. (Live(f)' <=> Live(f)) /\ (Exists(f)' <=> Exists(f))
    BY <1>1 DEF Live, Exists
  <2>3. (NoneDue(queue, f) => NoneDue(Rest, f)) /\ (OnceDue(queue, f) => OnceDue(Rest, f))
    BY <1>1, <2>1, PoppedDue
  <2> QED
    BY <1>1, <2>1, <2>2, <2>3
<1>4. DueInv'
  BY <1>3 DEF DueInv
<1>5. EntityInv'
  BY <1>1 DEF QueueInv, EntityInv, Exists
<1> QED
  BY <1>2, <1>4, <1>5 DEF QueueInv

(* A list of two, and what comes behind it.                                 *)
Alone(x) == <<x>>
Pair(x, y) == <<x, y>>

LEMMA PairIs ==
    ASSUME NEW S, NEW x \in S, NEW y \in S
    PROVE  Alone(x) \in Seq(S) /\ Pair(x, y) = Alone(x) \o Alone(y)
<1> DEFINE a == <<x>>
           b == <<y>>
           c == <<x, y>>
<1>1. a \in Seq(S) /\ b \in Seq(S) /\ c \in Seq(S) /\ Len(a) = 1 /\ Len(b) = 1 /\ Len(c) = 2
  OBVIOUS
<1>2. a[1] = x /\ b[1] = y /\ c[1] = x /\ c[2] = y
  OBVIOUS
<1> HIDE DEF a, b, c
<1>3. /\ a \o b \in Seq(S) /\ Len(a \o b) = 2
      /\ \A j \in 1 .. 2 : (a \o b)[j] = IF j <= 1 THEN a[j] ELSE b[j - 1]
  <2>1. /\ a \o b \in Seq(S) /\ Len(a \o b) = Len(a) + Len(b)
        /\ \A j \in 1 .. Len(a) + Len(b) : (a \o b)[j] = IF j <= Len(a) THEN a[j] ELSE b[j - Len(a)]
    BY <1>1, ConcatProperties
  <2>2. Len(a) + Len(b) = 2
    BY <1>1
  <2> QED
    BY <1>1, <2>1, <2>2
<1>4. \A j \in 1 .. 2 : (a \o b)[j] = c[j]
  BY <1>2, <1>3
<1>5. a \o b = c
  BY <1>1, <1>3, <1>4, SeqEqual
<1> QED
  BY <1>1, <1>5 DEF a, b, c, Alone, Pair

LEMMA BirthQueue ==
    ASSUME QueueInv, NEW next \in Cadence, NEW lifetime \in Lifetimes, Birth(next, lifetime)
    PROVE  QueueInv'
<1>1. Pop("birth") /\ ClockInv /\ EntityInv /\ DueInv
  BY DEF Birth, QueueInv
<1>2. clockNS' \in Nat /\ clockNS <= clockNS' /\ Rest \in Seq(ItemType)
  BY <1>1, PopIs
<1>3. \A f \in Entity : (NoneDue(queue, f) => NoneDue(Rest, f)) /\ (OnceDue(queue, f) => OnceDue(Rest, f))
  BY <1>1, PoppedDue
<1>4. CASE entity' = entity /\ queue' = Rest
  <2>1. ClockInv'
    <3>1. <<>> \in Seq(ItemType) /\ \A i \in 1 .. Len(<<>>) : <<>>[i].time >= clockNS'
      OBVIOUS
    <3> QED
      BY <1>1, <1>4, <3>1, PopClock
  <2>2. ASSUME NEW f \in Entity
        PROVE  (Live(f)' => OnceDue(queue', f)) /\ (~ Exists(f)' => NoneDue(queue', f))
    <3>1. (Live(f)' <=> Live(f)) /\ (Exists(f)' <=> Exists(f))
      BY <1>4 DEF Live, Exists
    <3> QED
      BY <1>1, <1>3, <1>4, <3>1 DEF DueInv
  <2>3. EntityInv'
    BY <1>1, <1>4 DEF EntityInv, Exists
  <2> QED
    BY <2>1, <2>2, <2>3 DEF QueueInv, DueInv
<1>5. ASSUME NEW e \in Entity, ~ Exists(e), NEW free, NEW births \in NextBirth(clockNS', free), entity' = Added(e, clockNS'),
             queue' = Rest \o <<Item("emission", e, clockNS' + next), Item("death", e, clockNS' + lifetime)>> \o births
      PROVE  QueueInv'
  <2> DEFINE x == Item("emission", e, clockNS' + next)
             y == Item("death", e, clockNS' + lifetime)
             more == <<y>> \o births
  <2>1. "emission" \in ItemKinds /\ "death" \in ItemKinds
    BY DEF ItemKinds
  <2>2. x \in ItemType /\ x.kind = "emission" /\ x.entity = e /\ x.time >= clockNS'
    BY <1>2, <2>1, EmissionItem
  <2>3. y \in ItemType /\ y.kind = "death" /\ y.entity = e /\ y.time >= clockNS'
    BY <1>2, <2>1, EmissionItem
  <2>4. births \in Seq(ItemType) /\ \A i \in 1 .. Len(births) : births[i].kind = "birth" /\ births[i].time >= clockNS'
    BY <1>2, NextBirthIs
  <2>5. queue' = (Rest \o <<x, y>>) \o births
    BY <1>5
  <2> HIDE DEF x, y
  <2>6. queue' = (Rest \o <<x>>) \o more /\ more \in Seq(ItemType) /\ <<y>> \in Seq(ItemType) /\ <<x>> \in Seq(ItemType)
    <3>1. \A z \in ItemType : <<z>> \in Seq(ItemType)
      OBVIOUS
    <3>2. /\ <<y>> \o births \in Seq(ItemType)
          /\ (Rest \o <<x, y>>) \o births = (Rest \o <<x>>) \o (<<y>> \o births)
      <4>1. Rest \in Seq(ItemType) /\ x \in ItemType /\ y \in ItemType /\ births \in Seq(ItemType)
        BY <1>2, <2>2, <2>3, <2>4
      <4> QED
        <5> DEFINE a == Alone(x)
                   b == Alone(y)
                   c == Pair(x, y)
        <5>1. a \in Seq(ItemType) /\ b \in Seq(ItemType) /\ c = a \o b
          BY <4>1, PairIs
        <5> HIDE DEF a, b, c
        <5>2. b \in Seq(ItemType)
          BY <4>1, PairIs DEF b
        <5>3. (Rest \o a) \o b = Rest \o (a \o b)
          BY <4>1, <5>1, <5>2, ConcatAssociative
        <5> DEFINE p == Rest \o a
        <5>4. p \in Seq(ItemType) /\ b \o births \in Seq(ItemType)
          BY <4>1, <5>1, <5>2, ListsJoined
        <5>5. p \o b = Rest \o c
          BY <5>1, <5>3
        <5> HIDE DEF p
        <5>6. (p \o b) \o births = p \o (b \o births)
          BY <4>1, <5>2, <5>4, ConcatAssociative
        <5>7. (Rest \o c) \o births = p \o (b \o births)
          BY <5>5, <5>6
        <5> QED
          BY <5>4, <5>7 DEF p, a, b, c, Alone, Pair
    <3> QED
      BY <2>2, <2>3, <2>5, <3>1, <3>2
  <2>7. queue' = Rest \o (<<x>> \o more) /\ <<x>> \o more \in Seq(ItemType)
    BY <1>2, <2>6, ConcatAssociative, ConcatProperties
  <2>8. ASSUME NEW z \in ItemType, z.time >= clockNS'
        PROVE  /\ <<z>> \in Seq(ItemType) /\ Len(<<z>>) = 1 /\ <<z>>[1] = z
               /\ \A i \in 1 .. Len(<<z>>) : <<z>>[i].time >= clockNS'
    <3>1. <<z>> \in Seq(ItemType) /\ Len(<<z>>) = 1 /\ <<z>>[1] = z
      OBVIOUS
    <3>2. \A i \in 1 .. 1 : i = 1
      OBVIOUS
    <3> QED
      BY <2>8, <3>1, <3>2
  <2>9. \A i \in 1 .. Len(more) : more[i].time >= clockNS'
    BY <1>2, <2>3, <2>4, <2>6, <2>8, QueueGrows
  <2>10. \A f \in Entity : NoneDue(more, f)
    <3> TAKE f \in Entity
    <3>1. NoneDue(<<y>>, f)
      <4>1. ~ Emits(y, f)
        BY <2>3 DEF Emits
      <4>2. \A i \in 1 .. 1 : i = 1
        OBVIOUS
      <4> QED
        BY <2>3, <2>8, <4>1, <4>2 DEF NoneDue
    <3>2. NoneDue(births, f)
      BY <2>4 DEF NoneDue, Emits
    <3> QED
      BY <2>4, <2>6, <3>1, <3>2, NothingJoins
  <2> HIDE DEF more
  <2>11. \A i \in 1 .. Len(<<x>> \o more) : (<<x>> \o more)[i].time >= clockNS'
    BY <1>2, <2>2, <2>6, <2>8, <2>9, QueueGrows
  <2>12. ClockInv'
    BY <1>1, <2>7, <2>11, PopClock
  <2>13. EntityInv' /\ Live(e)' /\ \A f \in Entity : f # e => entity'[f] = entity[f]
    <3>1. Start \in Nat /\ Start <= clockNS /\ clockNS \in Nat
      BY <1>1, WorldAssumption DEF ClockInv
    <3>2. clockNS' >= Start
      BY <1>2, <3>1
    <3> QED
      BY <1>1, <1>2, <1>5, <3>2, AddedEntities
  <2>14. Emits(x, e)
    BY <2>2 DEF Emits
  <2>15. DueInv'
    BY <1>1, <1>2, <1>3, <1>5, <2>2, <2>6, <2>10, <2>13, <2>14, AddedQueue
  <2> QED
    BY <2>12, <2>13, <2>15 DEF QueueInv
<1>6. \/ entity' = entity /\ queue' = Rest
      \/ \E e \in Entity : \E free : \E births \in NextBirth(clockNS', free) :
           /\ ~ Exists(e) /\ entity' = Added(e, clockNS')
           /\ queue' = Rest \o <<Item("emission", e, clockNS' + next), Item("death", e, clockNS' + lifetime)>> \o births
  BY Zenon DEF Birth
<1> QED
  BY <1>4, <1>5, <1>6

LEMMA DeathQueue ==
    ASSUME QueueInv, NEW e \in Entity, Death(e)
    PROVE  QueueInv'
<1>1. /\ Pop("death") /\ queue' = Rest /\ ClockInv /\ EntityInv /\ DueInv
      /\ IF Live(e) THEN entity' = Retired(e, clockNS') ELSE entity' = entity
  BY DEF Death, QueueInv
<1>2. clockNS' \in Nat /\ clockNS \in Nat
  BY <1>1, PopIs DEF ClockInv
<1>3. \A f \in Entity : (NoneDue(queue, f) => NoneDue(Rest, f)) /\ (OnceDue(queue, f) => OnceDue(Rest, f))
  BY <1>1, PoppedDue
<1>4. ClockInv'
  <2>1. <<>> \in Seq(ItemType) /\ \A i \in 1 .. Len(<<>>) : <<>>[i].time >= clockNS'
    OBVIOUS
  <2> QED
    BY <1>1, <2>1, PopClock
<1>5. CASE ~ Live(e)
  <2>1. entity' = entity
    BY <1>1, <1>5
  <2>2. ASSUME NEW f \in Entity
        PROVE  (Live(f)' => OnceDue(queue', f)) /\ (~ Exists(f)' => NoneDue(queue', f))
    <3>1. (Live(f)' <=> Live(f)) /\ (Exists(f)' <=> Exists(f))
      BY <2>1 DEF Live, Exists
    <3> QED
      BY <1>1, <1>3, <3>1 DEF DueInv
  <2>3. EntityInv'
    BY <1>1, <2>1 DEF EntityInv, Exists
  <2> QED
    BY <1>4, <2>2, <2>3 DEF QueueInv, DueInv
<1>6. CASE Live(e)
  <2>1. /\ EntityInv' /\ ~ Live(e)' /\ \A f \in Entity : f # e => entity'[f] = entity[f]
        /\ \A f \in Entity : entity'[f].born = entity[f].born
    BY <1>1, <1>2, <1>6, RetiredEntities
  <2>2. DueInv'
    BY <1>1, <1>2, <1>3, <1>6, <2>1, RetiredQueue
  <2> QED
    BY <1>4, <2>1, <2>2 DEF QueueInv
<1> QED
  BY <1>5, <1>6

LEMMA InitQueue == ASSUME WorldInit PROVE QueueInv
<1>1. ClockInv
  BY ClockInvInit
<1>2. /\ entity = [e \in Entity |-> [born |-> IF e \in Initial THEN Start ELSE None, alive |-> e \in Initial, retired |-> None, until |-> None]]
      /\ Start \in Nat /\ Initial \subseteq Entity
  BY WorldAssumption DEF WorldInit
<1>3. /\ entity \in [Entity -> EntityType]
      /\ \A e \in Entity : entity[e].born = IF e \in Initial THEN Start ELSE None
  <2>1. ASSUME NEW e \in Entity
        PROVE  [born |-> IF e \in Initial THEN Start ELSE None, alive |-> e \in Initial, retired |-> None, until |-> None] \in EntityType
    <3>1. (IF e \in Initial THEN Start ELSE None) \in Nat \cup {None} /\ (e \in Initial) \in BOOLEAN
      BY <1>2
    <3> QED
      BY <3>1 DEF EntityType, None
  <2> QED
    BY <1>2, <2>1
<1>4. \A e \in Entity : Exists(e) <=> e \in Initial
  <2>1. Start # None
    BY <1>2 DEF None
  <2> QED
    BY <1>3, <2>1 DEF Exists
<1>5. EntityInv
  BY <1>2, <1>3, <1>4 DEF EntityInv
<1>6. PICK next \in [Initial -> Cadence], births \in NextBirth(Start, Entity \ Initial) :
        queue = SetToSeq(Begins(next)) \o births
  BY DEF WorldInit, Begins
<1> DEFINE first == SetToSeq(Begins(next))
           x(e) == Item("emission", e, Start + next[e])
<1>7. /\ first \in Seq(Begins(next))
      /\ \A i, j \in DOMAIN first : first[i] = first[j] => i = j
      /\ \A z \in Begins(next) : \E i \in DOMAIN first : first[i] = z
  BY BeginsFinite, ListedOnce
<1>8. Begins(next) = {x(e) : e \in Initial} /\ Begins(next) \subseteq ItemType
  BY BeginsFinite DEF Begins
<1>9. \A e, f \in Initial : Emits(x(f), e) <=> f = e
  BY DEF Emits, Item
<1> HIDE DEF first, x
<1>10. first \in Seq(ItemType) /\ Len(first) \in Nat /\ DOMAIN first = 1 .. Len(first) /\ \A i \in 1 .. Len(first) : first[i] \in Begins(next)
  <2>1. Len(first) \in Nat /\ DOMAIN first = 1 .. Len(first) /\ \A i \in 1 .. Len(first) : first[i] \in Begins(next)
    BY <1>7
  <2>2. first = [i \in 1 .. Len(first) |-> first[i]]
    BY <1>7
  <2> QED
    BY <1>8, <2>1, <2>2
<1>11. ASSUME NEW e \in Entity
       PROVE  (Live(e) => OnceDue(queue, e)) /\ (~ Exists(e) => NoneDue(queue, e))
  <2>1. births \in Seq(ItemType) /\ NoneDue(births, e)
    <3>1. births \in Seq(ItemType) /\ \A i \in 1 .. Len(births) : births[i].kind = "birth"
      BY <1>2, NextBirthIs
    <3> QED
      BY <3>1 DEF NoneDue, Emits
  <2>2. CASE e \in Initial
    <3>1. PICK i \in 1 .. Len(first) : first[i] = x(e)
      BY <1>7, <1>8, <1>10, <2>2
    <3>2. ASSUME NEW j \in 1 .. Len(first), Emits(first[j], e)
          PROVE  j = i
      <4>1. PICK f \in Initial : first[j] = x(f)
        BY <1>8, <1>10
      <4>2. f = e
        BY <1>9, <2>2, <3>2, <4>1
      <4> QED
        BY <1>7, <1>10, <3>1, <4>1, <4>2
    <3>3. OnceDue(first, e)
      BY <1>9, <2>2, <3>1, <3>2 DEF OnceDue
    <3>4. OnceDue(queue, e)
      BY <1>6, <1>10, <2>1, <3>3, NothingJoins DEF first
    <3> QED
      BY <1>4, <2>2, <3>4
  <2>3. CASE e \notin Initial
    <3>1. ASSUME NEW j \in 1 .. Len(first)
          PROVE  ~ Emits(first[j], e)
      <4>1. PICK f \in Initial : first[j] = x(f)
        BY <1>8, <1>10
      <4> QED
        BY <2>3, <4>1 DEF Emits, Item, x
    <3>2. NoneDue(first, e)
      BY <3>1 DEF NoneDue
    <3>3. NoneDue(queue, e)
      BY <1>6, <1>10, <2>1, <3>2, NothingJoins DEF first
    <3> QED
      BY <1>4, <2>3, <3>3 DEF Live
  <2> QED
    BY <2>2, <2>3
<1>12. DueInv
  BY <1>11 DEF DueInv
<1> QED
  BY <1>1, <1>5, <1>12 DEF QueueInv

LEMMA NextQueue == ASSUME QueueInv, [WorldNext]_worldVars PROVE QueueInv'
<1>0. ClockInv /\ EntityInv /\ DueInv
  BY DEF QueueInv
<1>1. ASSUME NEW e \in Entity, NEW f \in DOMAIN FaultDecl, NEW onset \in 1 .. WorldHorizon, InjectFault(e, f, onset)
      PROVE  QueueInv'
  BY <1>0, <1>1, InjectIs, CommandQueue
<1>2. ASSUME NEW e \in Entity, NEW f \in DOMAIN EffectorDecl, NEW args \in Args[f], NEW when \in Instants, NEW mode,
             InvokeEffector(e, f, args, when, mode)
      PROVE  QueueInv'
  BY <1>0, <1>2, InvokeIs, CommandQueue
<1>3. ASSUME NEW i \in DOMAIN faults, NEW when \in Instants, ClearFault(i, when)
      PROVE  QueueInv'
  BY <1>0, <1>3, ClearIs, CommandQueue
<1>4. ASSUME NEW to \in Instants, AdvanceWorld(to)
      PROVE  QueueInv'
  <2>1. UNCHANGED <<queue, entity>>
    BY <1>4 DEF AdvanceWorld
  <2> QED
    BY <1>0, <1>4, <2>1, AdvanceClock DEF QueueInv, EntityInv, DueInv, Live, Exists
<1>5. CASE WorldReturns
  <2>1. UNCHANGED <<queue, entity>>
    BY <1>5 DEF WorldReturns
  <2> QED
    BY <1>0, <1>5, <2>1, ReturnClock DEF QueueInv, EntityInv, DueInv, Live, Exists
<1>6. CASE UNCHANGED worldVars
  BY <1>0, <1>6 DEF worldVars, QueueInv, ClockInv, EntityInv, DueInv, Live, Exists
<1> QED
  BY <1>1, <1>2, <1>3, <1>4, <1>5, <1>6, RetireQueue, AddQueue, CheckQueue, EmissionQueue, DeathQueue, BirthQueue DEF WorldNext

-----------------------------------------------------------------------------
(* The channel of a live entity is due again exactly once, and never before *)
(* the clock, whatever outages, dropouts and pulse edges it went through:   *)
(* every pop of an emission puts one back (observe.go:43, event_clock.go:42).*)
THEOREM ChannelsKeepGoing == WorldSpec => []ChainsKeepGoing
<1>1. ASSUME QueueInv
      PROVE  ChainsKeepGoing
  <2>1. queue \in Seq(ItemType) /\ DOMAIN queue = 1 .. Len(queue) /\ \A i \in 1 .. Len(queue) : queue[i].time >= clockNS
    BY <1>1 DEF QueueInv, ClockInv
  <2>2. ASSUME NEW e \in Entity, Live(e)
        PROVE  \E i \in Emissions(e) : Emissions(e) = {i} /\ queue[i].time >= clockNS
    <3>1. PICK i \in 1 .. Len(queue) : Emits(queue[i], e) /\ \A j \in 1 .. Len(queue) : Emits(queue[j], e) => j = i
      BY <1>1, <2>2 DEF QueueInv, DueInv, OnceDue
    <3>2. Emissions(e) = {i}
      BY <2>1, <3>1 DEF Emissions, Emits
    <3> QED
      BY <2>1, <3>2
  <2> QED
    BY <2>2 DEF ChainsKeepGoing
<1>2. WorldSpec => []QueueInv
  <2>1. WorldInit => QueueInv
    BY InitQueue
  <2>2. QueueInv /\ [WorldNext]_worldVars => QueueInv'
    BY NextQueue
  <2> QED
    BY <2>1, <2>2, PTL DEF WorldSpec
<1> QED
  BY <1>1, <1>2, PTL

-----------------------------------------------------------------------------
(* What stands: a list of the values from a birth on, none of them of the   *)
(* time now or later but those in x, which may be anything.                 *)

History(f) == [z \in Int |-> Value(f, Watched, z)]

Stands(d, x, b, t, v) ==
    /\ IsList(d)
    /\ b = None => Len(d) = 0
    /\ \A k \in (1 .. Len(d)) \ x : b + k - 1 < t /\ d[k] = v[b + k - 1]

LEMMA StandsKept ==
    ASSUME NEW d, NEW x, NEW b \in Nat \cup {None}, NEW t \in Nat, NEW u \in Nat, t <= u, NEW v, NEW w,
           Start \in Nat, b # None => b >= Start,
           \A z \in Int : Start <= z /\ z < t => v[z] = w[z], Stands(d, x, b, t, v)
    PROVE  Stands(d, x, b, u, w)
<1>1. IsList(d) /\ Len(d) \in Nat /\ (b = None => Len(d) = 0)
  BY DEF Stands, IsList
<1>2. \A k \in (1 .. Len(d)) \ x : b + k - 1 < u /\ d[k] = w[b + k - 1]
  <2> TAKE k \in (1 .. Len(d)) \ x
  <2>1. b \in Nat /\ b >= Start /\ k \in Nat /\ k >= 1
    BY <1>1
  <2>2. b + k - 1 < t /\ d[k] = v[b + k - 1]
    BY DEF Stands
  <2>3. b + k - 1 \in Int /\ Start <= b + k - 1 /\ b + k - 1 < u
    BY <2>1, <2>2
  <2> QED
    BY <2>2, <2>3
<1> QED
  BY <1>1, <1>2 DEF Stands

LEMMA StandsNew ==
    ASSUME NEW d, NEW x, NEW t \in Nat, NEW v, Stands(d, x, None, t, v), NEW b \in Nat, NEW u \in Nat, NEW w
    PROVE  Stands(d, x, b, u, w) /\ Len(d) = 0
<1>1. IsList(d) /\ Len(d) = 0
  BY DEF Stands
<1>2. \A k \in (1 .. Len(d)) \ x : b + k - 1 < u /\ d[k] = w[b + k - 1]
  BY <1>1
<1>3. b # None
  BY DEF None
<1> QED
  BY <1>1, <1>2, <1>3 DEF Stands

LEMMA StandsMore ==
    ASSUME NEW d, NEW x, NEW y, x \subseteq y, NEW b, NEW t, NEW v, Stands(d, x, b, t, v)
    PROVE  Stands(d, y, b, t, v)
BY DEF Stands

Missing(d, b, x) == Max({0, x - b - Len(d)})
Grown(d, b, v, x) == d \o [k \in 1 .. Missing(d, b, x) |-> v[b + Len(d) + k - 1]]

LEMMA StandsGrows ==
    ASSUME NEW d, NEW e, NEW b \in Nat, NEW t \in Nat, NEW u \in Nat, t <= u, NEW v, Stands(d, e, b, t, v),
           NEW x \in Int, x <= u
    PROVE  Stands(Grown(d, b, v, x), e, b, u, v) /\ Len(Grown(d, b, v, x)) = Len(d) + Missing(d, b, x)
<1> DEFINE n == Len(d)
           m == Missing(d, b, x)
           more == [k \in 1 .. m |-> v[b + n + k - 1]]
<1>1. IsList(d) /\ n \in Nat
  BY DEF Stands, IsList
<1>2. \A k \in (1 .. n) \ e : b + k - 1 < t /\ d[k] = v[b + k - 1]
  BY DEF Stands
<1>3. m \in Nat /\ (m = 0 \/ b + n + m = x)
  <2>1. x - b - n \in Int
    BY <1>1
  <2>2. m = IF 0 > x - b - n THEN 0 ELSE x - b - n
    BY <2>1, MaxIs DEF Missing
  <2> HIDE DEF m, n
  <2> QED
    BY <1>1, <2>1, <2>2
<1> HIDE DEF n, m
<1>4. IsList(more) /\ Len(more) = m /\ \A k \in 1 .. m : more[k] = v[b + n + k - 1]
  BY <1>3 DEF IsList
<1> HIDE DEF more
<1>5. /\ IsList(d \o more) /\ Len(d \o more) = n + m
      /\ \A j \in 1 .. n : (d \o more)[j] = d[j]
      /\ \A j \in 1 .. m : (d \o more)[n + j] = more[j]
  BY <1>1, <1>4, ListsPutTogether DEF n
<1>6. \A k \in (1 .. n + m) \ e : b + k - 1 < u /\ (d \o more)[k] = v[b + k - 1]
  <2> TAKE k \in (1 .. n + m) \ e
  <2>1. CASE k <= n
    <3>1. k \in (1 .. n) \ e /\ k \in Nat
      BY <1>1, <1>3, <2>1
    <3>2. b + k - 1 < t /\ d[k] = v[b + k - 1]
      BY <1>2, <3>1
    <3>3. b + k - 1 < u
      BY <3>1, <3>2
    <3> QED
      BY <1>5, <3>1, <3>2, <3>3
  <2>2. CASE ~ (k <= n)
    <3>1. PICK j \in 1 .. m : k = n + j
      <4>1. k - n \in 1 .. m /\ k = n + (k - n)
        BY <1>1, <1>3, <2>2
      <4> QED
        BY <4>1
    <3>2. b + n + j - 1 = b + k - 1 /\ b + k - 1 < u
      BY <1>1, <1>3, <3>1
    <3> QED
      BY <1>4, <1>5, <3>1, <3>2
  <2> QED
    BY <2>1, <2>2
<1>8. b # None
  BY DEF None
<1>9. Stands(d \o more, e, b, u, v)
  BY <1>5, <1>6, <1>8 DEF Stands
<1> QED
  BY <1>5, <1>9 DEF more, m, n, Grown

-----------------------------------------------------------------------------
(* No command reaches behind the clock.                                     *)

LEMMA ValueSame ==
    ASSUME NEW e, NEW s, NEW t, Started(e, s, t)' = Started(e, s, t), Acting(e, s, t)' = Acting(e, s, t),
           \A i \in Acting(e, s, t) : faults'[i].onset = faults[i].onset /\ faults'[i].fault = faults[i].fault
    PROVE  Value(e, s, t)' = Value(e, s, t)
BY DEF Value

LEMMA HistorySame ==
    ASSUME kicks' = kicks, faults' = faults, NEW f
    PROVE  History(f)' = History(f)
<1>1. \A z : Started(f, Watched, z)' = Started(f, Watched, z) /\ Acting(f, Watched, z)' = Acting(f, Watched, z)
  BY DEF Started, Acting, ActiveAt
<1>2. \A z : Value(f, Watched, z)' = Value(f, Watched, z)
  BY <1>1, ValueSame
<1> QED
  BY <1>2 DEF History

LEMMA StartedKept ==
    ASSUME clockNS \in Nat, NEW z \in Int, z < clockNS, NEW gone, NEW added, kicks' = (kicks \ gone) \cup added,
           \A k \in gone \cup added : k.start \in Int /\ k.start >= clockNS, NEW e, NEW s
    PROVE  Started(e, s, z)' = Started(e, s, z)
<1>1. \A k \in gone \cup added : ~ (k.start < z)
  OBVIOUS
<1> QED
  BY <1>1 DEF Started

(* A fault that begins at the clock or later, or in a world that has not    *)
(* run yet.                                                                 *)
LEMMA InjectedActing ==
    ASSUME ClockInv, NEW x \in FaultType, x.onset >= clockNS, faults' = Append(faults, x),
           NEW z \in Int, z < clockNS, NEW e, NEW s
    PROVE  /\ Acting(e, s, z)' = Acting(e, s, z)
           /\ \A i \in Acting(e, s, z) : faults'[i].onset = faults[i].onset /\ faults'[i].fault = faults[i].fault
<1> DEFINE m == Len(faults)
<1>1. clockNS \in Nat /\ faults \in Seq(FaultType) /\ m \in Nat /\ DOMAIN faults = 1 .. m
  BY DEF ClockInv
<1>2. /\ DOMAIN faults' = 1 .. m + 1 /\ faults'[m + 1] = x
      /\ \A i \in 1 .. m : faults'[i] = faults[i]
  BY <1>1
<1>3. ~ ActiveAt(x, z)
  <2>1. x.onset \in Nat
    BY DEF FaultType
  <2> QED
    BY <1>1, <2>1 DEF ActiveAt
<1> HIDE DEF m
<1>4. \A i : i \in 1 .. m + 1 <=> i \in 1 .. m \/ i = m + 1
  BY <1>1
<1>5. m + 1 \notin 1 .. m
  BY <1>1
<1> DEFINE Acts(y) == y.entity = e /\ FaultDecl[y.fault].state = s /\ ActiveAt(y, z)
<1>6. Acting(e, s, z) = {i \in 1 .. m : Acts(faults[i])}
  BY <1>1 DEF Acting
<1>7. Acting(e, s, z)' = {i \in 1 .. m + 1 : Acts(faults'[i])}
  BY <1>2 DEF Acting, ActiveAt
<1>8. ~ Acts(x)
  BY <1>3
<1> HIDE DEF Acts
<1>9. {i \in 1 .. m + 1 : Acts(faults'[i])} = {i \in 1 .. m : Acts(faults[i])}
  BY <1>2, <1>4, <1>8
<1> QED
  BY <1>2, <1>6, <1>7, <1>9

(* Faults that are cleared at the clock or later.                           *)
LEMMA ClearedActing ==
    ASSUME ClockInv, NEW S, NEW when \in Nat, when >= clockNS, NEW by \in {"command", "responder"},
           \A i \in S \cap DOMAIN faults : Shortens(faults[i], when),
           faults' = [i \in DOMAIN faults |-> IF i \in S THEN ClearedBy(faults[i], when, by) ELSE faults[i]],
           NEW z \in Int, 0 < clockNS, z < clockNS, NEW e, NEW s
    PROVE  /\ Acting(e, s, z)' = Acting(e, s, z)
           /\ \A i \in Acting(e, s, z) : faults'[i].onset = faults[i].onset /\ faults'[i].fault = faults[i].fault
<1> DEFINE m == Len(faults)
<1>1. /\ clockNS \in Nat /\ faults \in Seq(FaultType) /\ m \in Nat /\ DOMAIN faults = 1 .. m
      /\ \A i \in 1 .. m : faults[i] \in FaultType
  BY DEF ClockInv
<1> HIDE DEF m
<1>2. ASSUME NEW i \in 1 .. m
      PROVE  /\ faults'[i].entity = faults[i].entity /\ faults'[i].fault = faults[i].fault
             /\ faults'[i].onset = faults[i].onset
             /\ ActiveAt(faults'[i], z) <=> ActiveAt(faults[i], z)
  <2>1. CASE i \notin S
    <3>1. faults'[i] = faults[i]
      BY <1>1, <2>1
    <3> QED
      BY <3>1
  <2>2. CASE i \in S
    <3> DEFINE x == faults[i]
               y == ClearedBy(x, when, by)
    <3>1. faults'[i] = y /\ Shortens(x, when) /\ x \in FaultType
      BY <1>1, <2>2
    <3>2. y.entity = x.entity /\ y.fault = x.fault /\ y.onset = x.onset /\ y.cleared = when
      <4> HIDE DEF x
      <4> QED
        BY <3>1, ClearedTyped
    <3>3. x.cleared \in Nat /\ x.onset \in Nat /\ (x.cleared = 0 \/ when < x.cleared)
      BY <3>1 DEF FaultType, Shortens
    <3> HIDE DEF x, y
    <3>4. ActiveAt(y, z) <=> x.onset <= z /\ (when = 0 \/ z < when)
      BY <3>2 DEF ActiveAt
    <3>5. ActiveAt(x, z) <=> x.onset <= z /\ (x.cleared = 0 \/ z < x.cleared)
      BY DEF ActiveAt
    <3>6. z < when /\ (x.cleared = 0 \/ z < x.cleared)
      BY <1>1, <3>3
    <3>7. ActiveAt(y, z) <=> ActiveAt(x, z)
      BY <3>4, <3>5, <3>6
    <3> QED
      BY <3>1, <3>2, <3>7 DEF x
  <2> QED
    BY <2>1, <2>2
<1> DEFINE Acts(w) == w.entity = e /\ FaultDecl[w.fault].state = s /\ ActiveAt(w, z)
<1>3. DOMAIN faults' = 1 .. m
  BY <1>1
<1>4. Acting(e, s, z) = {i \in 1 .. m : Acts(faults[i])}
  BY <1>1 DEF Acting
<1>5. Acting(e, s, z)' = {i \in 1 .. m : Acts(faults'[i])}
  BY <1>3 DEF Acting, ActiveAt
<1>6. \A i \in 1 .. m : Acts(faults'[i]) <=> Acts(faults[i])
  BY <1>2
<1> HIDE DEF Acts
<1>7. Acting(e, s, z)' = Acting(e, s, z)
  BY <1>4, <1>5, <1>6
<1> QED
  BY <1>2, <1>4, <1>7

LeaseInv ==
    /\ DOMAIN leases = Entity
    /\ \A e \in Entity : DOMAIN leases[e] = DOMAIN EffectorDecl
    /\ \A e \in Entity, f \in DOMAIN EffectorDecl : leases[e][f].start \in Int

(* What a call schedules acts at its own instant at the earliest.           *)
LEMMA ExecuteKicks ==
    ASSUME clockNS \in Nat, LeaseInv, NEW e \in Entity, NEW f \in DOMAIN EffectorDecl, NEW args \in Args[f],
           NEW when \in Nat, when >= clockNS, NEW mode, Execute(e, f, args, when, mode)
    PROVE  /\ \E gone, added : /\ kicks' = (kicks \ gone) \cup added
                               /\ \A k \in gone \cup added : k.start \in Int /\ k.start >= clockNS
           /\ LeaseInv'
<1> DEFINE leased == Leased(f, args, mode)
           fallback == Fallback(e, f, args, when)
           gone == IF leased /\ Withdrawn(e, f, when) THEN {leases[e][f]} ELSE {}
           more == IF leased THEN {fallback} \ {NoKick} ELSE {}
           effect == Effect(e, f, args, when, mode)
           response == Responded(e, f, args, when, mode)
           added == effect \cup response \cup more
<1>1. kicks' = (kicks \ gone) \cup added
  BY DEF Execute
<1>2. leases' = IF leased THEN [leases EXCEPT ![e][f] = fallback] ELSE leases
  BY DEF Execute
<1>3. /\ EffectorDecl[f].dead \in Nat
      /\ EffectorDecl[f].fallback \in {"none", "safe_off", "revert", "hold_last"}
      /\ args.lease \in Nat \cup {None}
  BY WorldAssumption
<1>4. \A k \in effect : k.start \in Int /\ k.start >= clockNS
  <2>1. when + EffectorDecl[f].dead \in Int /\ when + EffectorDecl[f].dead >= clockNS
    BY <1>3
  <2> QED
    BY <2>1 DEF Effect, KickOf
<1>5. \A k \in response : k.start \in Int /\ k.start >= clockNS
  <2>1. Arrival(f, when) \in Int /\ Arrival(f, when) >= clockNS
    BY <1>3 DEF Arrival
  <2> QED
    BY <2>1 DEF Responded, KickOf
<1>6. ASSUME leased
      PROVE  fallback = NoKick \/ (fallback.start \in Int /\ fallback.start >= clockNS)
  <2>1. EffectorDecl[f].fallback \in {"safe_off", "revert", "hold_last"} /\ args.lease \in Nat
    <3>1. EffectorDecl[f].fallback # "none" /\ args.lease # None
      BY <1>6 DEF Leased
    <3> QED
      BY <1>3, <3>1
  <2> DEFINE lapse == when + EffectorDecl[f].dead + args.lease
             carried == IF Withdrawn(e, f, when) THEN -leases[e][f].delta ELSE 0
  <2>2. lapse \in Int /\ lapse >= clockNS
    BY <1>3, <2>1
  <2>3. CASE EffectorDecl[f].fallback = "safe_off"
    <3>1. fallback = KickOf("fallback", e, EffectorDecl[f].state, EffectorDecl[f].safe, TRUE, lapse)
      BY <2>3 DEF Fallback
    <3> HIDE DEF fallback, lapse
    <3> QED
      BY <2>2, <3>1 DEF KickOf
  <2>4. CASE EffectorDecl[f].fallback = "revert"
    <3>1. fallback = KickOf("fallback", e, EffectorDecl[f].state, -(carried + args.value), FALSE, lapse)
      BY <2>4 DEF Fallback
    <3> HIDE DEF fallback, lapse
    <3> QED
      BY <2>2, <3>1 DEF KickOf
  <2>5. CASE EffectorDecl[f].fallback = "hold_last"
    BY <2>5 DEF Fallback
  <2> QED
    BY <2>1, <2>3, <2>4, <2>5
<1>7. NoKick.start \in Int
  BY DEF NoKick, None
<1> HIDE DEF leased, fallback, effect, response
<1>8. \A k \in gone : k.start \in Int /\ k.start >= clockNS
  <2>1. leases[e][f].start \in Int
    BY DEF LeaseInv
  <2> QED
    BY <2>1 DEF Withdrawn
<1>9. \A k \in more : k.start \in Int /\ k.start >= clockNS
  BY <1>6
<1>10. \A k \in gone \cup added : k.start \in Int /\ k.start >= clockNS
  <2> HIDE DEF gone, more
  <2> QED
    BY <1>4, <1>5, <1>8, <1>9
<1>11. LeaseInv'
  <2>1. CASE ~ leased
    BY <1>2, <2>1 DEF LeaseInv
  <2>2. CASE leased
    <3> DEFINE row == [leases[e] EXCEPT ![f] = fallback]
    <3>1. leases' = [leases EXCEPT ![e] = row]
      BY <1>2, <2>2
    <3>2. DOMAIN row = DOMAIN EffectorDecl /\ \A g \in DOMAIN EffectorDecl : row[g] = IF g = f THEN fallback ELSE leases[e][g]
      BY DEF LeaseInv
    <3>3. fallback.start \in Int
      BY <1>6, <1>7, <2>2
    <3>4. \A g \in DOMAIN EffectorDecl : row[g].start \in Int
      BY <3>2, <3>3 DEF LeaseInv
    <3> HIDE DEF row
    <3>5. DOMAIN leases' = Entity /\ \A h \in Entity : leases'[h] = IF h = e THEN row ELSE leases[h]
      BY <3>1 DEF LeaseInv
    <3> QED
      BY <3>2, <3>4, <3>5 DEF LeaseInv
  <2> QED
    BY <2>1, <2>2
<1> HIDE DEF gone, added
<1> QED
  BY <1>1, <1>10, <1>11

LEMMA HistoryAt ==
    ASSUME NEW f, NEW z \in Int, Started(f, Watched, z)' = Started(f, Watched, z), Acting(f, Watched, z)' = Acting(f, Watched, z),
           \A i \in Acting(f, Watched, z) : faults'[i].onset = faults[i].onset /\ faults'[i].fault = faults[i].fault
    PROVE  History(f)'[z] = History(f)[z]
<1>1. Value(f, Watched, z)' = Value(f, Watched, z)
  BY ValueSame
<1> QED
  BY <1>1 DEF History

(* Before the clock every value stays as it is, whatever the command.       *)
HistoryKept == \A f : \A z \in Int : Start <= z /\ z < clockNS => History(f)'[z] = History(f)[z]

LEMMA InjectHistory ==
    ASSUME ClockInv, NEW e \in Entity, NEW g \in DOMAIN FaultDecl, NEW onset \in 1 .. WorldHorizon,
           InjectFault(e, g, onset)
    PROVE  HistoryKept
<1> SUFFICES ASSUME NEW f, NEW z \in Int, Start <= z, z < clockNS
             PROVE  History(f)'[z] = History(f)[z]
  BY DEF HistoryKept
<1> DEFINE x == Injected(e, g, onset)
<1>1. faults' = Append(faults, x) /\ kicks' = kicks
  BY InjectIs
<1>2. x \in FaultType
  <2>1. onset \in Nat
    BY WorldAssumption
  <2> QED
    BY <2>1, InjectedTyped
<1>3. x.onset >= clockNS
  <2>1. Admits(onset)
    BY DEF InjectFault
  <2>2. x.onset = onset
    BY DEF Injected
  <2>3. clockNS # Start
    BY WorldAssumption DEF ClockInv
  <2> QED
    BY <2>1, <2>2, <2>3 DEF Admits
<1> HIDE DEF x
<1>4. /\ Acting(f, Watched, z)' = Acting(f, Watched, z)
      /\ \A i \in Acting(f, Watched, z) : faults'[i].onset = faults[i].onset /\ faults'[i].fault = faults[i].fault
  BY <1>1, <1>2, <1>3, InjectedActing
<1>5. Started(f, Watched, z)' = Started(f, Watched, z)
  BY <1>1 DEF Started
<1> QED
  BY <1>4, <1>5, HistoryAt

LEMMA ClearHistory ==
    ASSUME ClockInv, NEW i \in DOMAIN faults, NEW when \in Instants, ClearFault(i, when)
    PROVE  HistoryKept
<1> SUFFICES ASSUME NEW f, NEW z \in Int, Start <= z, z < clockNS
             PROVE  History(f)'[z] = History(f)[z]
  BY DEF HistoryKept
<1>1. /\ faults' = [faults EXCEPT ![i] = ClearedBy(faults[i], when, "command")] /\ kicks' = kicks
      /\ Shortens(faults[i], when) /\ when \in Nat /\ when >= clockNS
  BY ClearIs
<1> DEFINE S == {i}
<1>2. faults' = [j \in DOMAIN faults |-> IF j \in S THEN ClearedBy(faults[j], when, "command") ELSE faults[j]]
  BY <1>1
<1>3. \A j \in S \cap DOMAIN faults : Shortens(faults[j], when)
  BY <1>1
<1>4. "command" \in {"command", "responder"}
  OBVIOUS
<1>5. 0 < clockNS
  BY WorldAssumption DEF ClockInv
<1> HIDE DEF S
<1>6. /\ Acting(f, Watched, z)' = Acting(f, Watched, z)
      /\ \A j \in Acting(f, Watched, z) : faults'[j].onset = faults[j].onset /\ faults'[j].fault = faults[j].fault
  BY <1>1, <1>2, <1>3, <1>4, <1>5, ClearedActing
<1>7. Started(f, Watched, z)' = Started(f, Watched, z)
  BY <1>1 DEF Started
<1> QED
  BY <1>6, <1>7, HistoryAt

LEMMA InvokeHistory ==
    ASSUME ClockInv, LeaseInv, NEW e \in Entity, NEW g \in DOMAIN EffectorDecl, NEW args \in Args[g],
           NEW when \in Instants, NEW mode, InvokeEffector(e, g, args, when, mode)
    PROVE  HistoryKept /\ LeaseInv'
<1>1. clockNS \in Nat /\ Start \in Nat /\ Start <= clockNS
  BY WorldAssumption DEF ClockInv
<1>2. when \in Nat /\ when >= clockNS /\ ((Refuse(e, g, when) /\ faults' = faults) \/ Execute(e, g, args, when, mode))
  BY InvokeIs
<1>3. CASE Refuse(e, g, when) /\ faults' = faults
  <2> DEFINE added == kicks' \ kicks
             d == EffectorDecl[g]
             k == KickOf("interlock", e, d.acts, d.action, FALSE, when)
  <2>1. kicks' = kicks \cup (IF d.guard = "interlock" THEN {k} ELSE {})
    BY <1>3 DEF Refuse
  <2>2. k.start \in Int /\ k.start >= clockNS
    BY <1>2 DEF KickOf
  <2> HIDE DEF k
  <2>3. kicks' = (kicks \ {}) \cup added /\ \A l \in {} \cup added : l.start \in Int /\ l.start >= clockNS
    BY <2>1, <2>2
  <2> HIDE DEF added
  <2>4. ASSUME NEW f, NEW z \in Int, Start <= z, z < clockNS
        PROVE  History(f)'[z] = History(f)[z]
    <3>1. Started(f, Watched, z)' = Started(f, Watched, z)
      BY <1>1, <2>3, <2>4, StartedKept
    <3>2. /\ Acting(f, Watched, z)' = Acting(f, Watched, z)
          /\ \A i \in Acting(f, Watched, z) : faults'[i].onset = faults[i].onset /\ faults'[i].fault = faults[i].fault
      BY <1>3 DEF Acting, ActiveAt
    <3> QED
      BY <3>1, <3>2, HistoryAt
  <2>5. LeaseInv'
    BY <1>3 DEF Refuse, LeaseInv
  <2> QED
    BY <2>4, <2>5 DEF HistoryKept
<1>4. CASE Execute(e, g, args, when, mode)
  <2> DEFINE there == Arrival(g, when)
             S == Ended_By(e, g, args, when, mode)
  <2>1. /\ faults' = [i \in DOMAIN faults |-> IF i \in S THEN ClearedBy(faults[i], there, "responder") ELSE faults[i]]
        /\ there \in Nat /\ there >= clockNS
    BY <1>2, <1>4, ExecuteIs
  <2>2. \A i \in S \cap DOMAIN faults : Shortens(faults[i], there)
    BY DEF Ended_By
  <2> HIDE DEF S, there
  <2>3. PICK gone, added : /\ kicks' = (kicks \ gone) \cup added
                           /\ \A k \in gone \cup added : k.start \in Int /\ k.start >= clockNS
    BY <1>1, <1>2, <1>4, ExecuteKicks
  <2>4. LeaseInv'
    BY <1>1, <1>2, <1>4, ExecuteKicks
  <2>5. ASSUME NEW f, NEW z \in Int, Start <= z, z < clockNS
        PROVE  History(f)'[z] = History(f)[z]
    <3>1. Started(f, Watched, z)' = Started(f, Watched, z)
      BY <1>1, <2>3, <2>5, StartedKept
    <3>2. 0 < clockNS /\ "responder" \in {"command", "responder"}
      BY <1>1, WorldAssumption
    <3>3. /\ Acting(f, Watched, z)' = Acting(f, Watched, z)
          /\ \A i \in Acting(f, Watched, z) : faults'[i].onset = faults[i].onset /\ faults'[i].fault = faults[i].fault
      BY <2>1, <2>2, <2>5, <3>2, ClearedActing
    <3> QED
      BY <3>1, <3>3, HistoryAt
  <2> QED
    BY <2>4, <2>5 DEF HistoryKept
<1> QED
  BY <1>2, <1>3, <1>4

-----------------------------------------------------------------------------
(* What has been taken in and sampled stands.                               *)

(* Until when the KPIs of who has retired were sampled.                     *)
Closed(f, t) ==
    entity[f].alive \/ (entity[f].retired <= entity[f].until /\ (entity[f].until = entity[f].retired \/ entity[f].until < t))

PastInv ==
    \A f \in Entity :
      /\ Stands(drawn[f], ahead[f], entity[f].born, clockNS, History(f))
      /\ Stands(sampled[f], {}, entity[f].born, clockNS, History(f))
      /\ Exists(f) => Len(sampled[f]) = Max({0, LastSampled(f, clockNS - 1) - entity[f].born + 1})
      /\ Closed(f, clockNS)

(* The same of a step, before it adds or retires an entity.                 *)
Taken ==
    \A f \in Entity :
      /\ Stands(drawn'[f], ahead'[f], entity[f].born, clockNS', History(f)')
      /\ Stands(sampled'[f], {}, entity[f].born, clockNS', History(f)')
      /\ Exists(f) => Len(sampled'[f]) = Max({0, LastSampled(f, clockNS' - 1) - entity[f].born + 1})
      /\ Closed(f, clockNS')

LEMMA Born ==
    ASSUME EntityInv, NEW f \in Entity
    PROVE  /\ entity[f].born \in Nat \cup {None} /\ (Exists(f) <=> entity[f].born # None)
           /\ Exists(f) => entity[f].born \in Nat /\ entity[f].born >= Start
           /\ entity[f].alive \in BOOLEAN /\ entity[f].retired \in Int /\ entity[f].until \in Int
BY DEF EntityInv, EntityType, Exists, None

LEMMA LastAliveIs ==
    ASSUME EntityInv, NEW f \in Entity, NEW t \in Int
    PROVE  /\ LastAlive(f, t) \in Int /\ LastAlive(f, t) <= t
           /\ LastAlive(f, t) = IF entity[f].alive THEN t ELSE IF t < entity[f].retired THEN t ELSE entity[f].retired
<1>1. entity[f].retired \in Int
  BY Born
<1> QED
  BY <1>1, MinIs DEF LastAlive

LEMMA LastSampledIs ==
    ASSUME EntityInv, NEW f \in Entity, NEW t \in Int
    PROVE  /\ LastSampled(f, t) \in Int /\ LastSampled(f, t) <= t
           /\ LastSampled(f, t) = IF entity[f].alive THEN t ELSE IF t < entity[f].until THEN t ELSE entity[f].until
<1>1. entity[f].until \in Int
  BY Born
<1> QED
  BY <1>1, MinIs DEF LastSampled

LEMMA IntegratedStands ==
    ASSUME QueueInv, PastInv, NEW f \in Entity, Exists(f), NEW t \in Nat, clockNS <= t, NEW x \in Int, x <= t
    PROVE  Stands(Integrated(f, x), ahead[f], entity[f].born, t, History(f))
<1> DEFINE d == drawn[f]
           w == ahead[f]
           b == entity[f].born
           v == History(f)
           m == Missing(d, b, x)
           more == [k \in 1 .. m |-> v[b + Len(d) + k - 1]]
<1>1. b \in Nat /\ clockNS \in Nat /\ Stands(d, w, b, clockNS, v)
  BY Born DEF QueueInv, ClockInv, PastInv
<1>2. Len(d) \in Nat
  BY <1>1 DEF Stands, IsList
<1>3. Stands(d \o more, w, b, t, v)
  <2>1. Stands(Grown(d, b, v, x), w, b, t, v)
    <3> HIDE DEF d, w, b, v
    <3> QED
      BY <1>1, StandsGrows
  <2> QED
    BY <2>1 DEF Grown
<1>4. more = [k \in 1 .. m |-> Value(f, Watched, b + Len(d) + k - 1)]
  <2>1. \A k \in 1 .. m : b + Len(d) + k - 1 \in Int
    BY <1>1, <1>2
  <2>2. \A z \in Int : v[z] = Value(f, Watched, z)
    BY DEF History
  <2> HIDE DEF d, b, v, m
  <2> QED
    BY <2>1, <2>2
<1>5. Integrated(f, x) = d \o more
  BY <1>4 DEF Integrated, Missing
<1> QED
  BY <1>3, <1>5

LEMMA ReadStands ==
    ASSUME QueueInv, PastInv, NEW e \in Entity, Live(e), NEW t \in Nat, clockNS <= t, NEW f \in Entity
    PROVE  Stands(Read(e, t)[f], ahead[f], entity[f].born, t, History(f))
<1>1. EntityInv /\ clockNS \in Nat /\ Start \in Nat
  BY WorldAssumption DEF QueueInv, ClockInv
<1>2. /\ LastAlive(f, t) \in Int /\ LastAlive(f, t) <= t
      /\ LastAlive(f, t - 1) \in Int /\ LastAlive(f, t - 1) <= t
  <2>1. t - 1 \in Int /\ t \in Int
    OBVIOUS
  <2>2. LastAlive(f, t) \in Int /\ LastAlive(f, t) <= t
    BY <1>1, <2>1, LastAliveIs
  <2>3. LastAlive(f, t - 1) \in Int /\ LastAlive(f, t - 1) <= t - 1
    BY <1>1, <2>1, LastAliveIs
  <2> QED
    BY <2>2, <2>3
<1>3. CASE Exists(f) /\ \E x \in {t, LastAlive(f, t), LastAlive(f, t - 1)} : Read(e, t)[f] = Integrated(f, x)
  BY <1>2, <1>3, IntegratedStands
<1>4. CASE Read(e, t)[f] = drawn[f]
  <2>1. /\ Stands(drawn[f], ahead[f], entity[f].born, clockNS, History(f))
        /\ entity[f].born \in Nat \cup {None} /\ (entity[f].born # None => entity[f].born >= Start)
    BY <1>1, Born DEF PastInv
  <2> QED
    BY <1>1, <1>4, <2>1, StandsKept
<1>5. f = e => Exists(f)
  BY DEF Live
<1>6. \/ Read(e, t)[f] = drawn[f]
      \/ Exists(f) /\ \E x \in {t, LastAlive(f, t), LastAlive(f, t - 1)} : Read(e, t)[f] = Integrated(f, x)
  <2>1. CASE f = e
    BY <1>5, <2>1 DEF Read
  <2>2. CASE f # e /\ Exists(f) /\ e \in SampledBy[f]
    BY <2>2 DEF Read
  <2>3. CASE f # e /\ Exists(f) /\ ~ (e \in SampledBy[f]) /\ f \in SampledBy[e]
    BY <2>3 DEF Read
  <2>4. CASE f # e /\ (~ Exists(f) \/ (~ (e \in SampledBy[f]) /\ ~ (f \in SampledBy[e])))
    BY <2>4 DEF Read
  <2> QED
    BY <2>1, <2>2, <2>3, <2>4
<1> QED
  BY <1>3, <1>4, <1>6

(* The samples that were missing, up to now; none is taken twice.           *)
LEMMA SampledStands ==
    ASSUME QueueInv, PastInv, NEW u \in Nat, clockNS <= u, NEW f \in Entity
    PROVE  /\ Stands(SampledThrough(u - 1)[f], {}, entity[f].born, u, History(f))
           /\ Exists(f) => Len(SampledThrough(u - 1)[f]) = Max({0, LastSampled(f, u - 1) - entity[f].born + 1})
           /\ Closed(f, u)
<1> DEFINE d == sampled[f]
           b == entity[f].born
           v == History(f)
           last == LastAlive(f, u - 1)
           before == LastSampled(f, clockNS - 1)
           after == LastSampled(f, u - 1)
           x == last + 1
           m == Missing(d, b, x)
           more == [k \in 1 .. m |-> v[b + Len(d) + k - 1]]
<1>1. /\ Stands(d, {}, b, clockNS, v) /\ EntityInv /\ clockNS \in Nat
      /\ Exists(f) => Len(d) = Max({0, before - b + 1})
      /\ Closed(f, clockNS)
  BY DEF PastInv, QueueInv, ClockInv
<1>4. Closed(f, u)
  <2>1. entity[f].until \in Int /\ clockNS \in Nat
    BY <1>1, Born
  <2> QED
    BY <1>1, <2>1 DEF Closed
<1>2. CASE ~ Exists(f)
  <2>1. b = None /\ Len(d) = 0 /\ IsList(d)
    BY <1>1, <1>2 DEF Exists, Stands
  <2>2. SampledThrough(u - 1)[f] = <<>>
    BY <1>2 DEF SampledThrough
  <2>3. Stands(<<>>, {}, b, u, v)
    BY <2>1 DEF Stands, IsList
  <2> QED
    BY <1>2, <1>4, <2>2, <2>3
<1>3. CASE Exists(f)
  <2>1. b \in Nat /\ Len(d) \in Nat
    BY <1>1, <1>3, Born DEF Stands, IsList
  <2>2. /\ last \in Int /\ x \in Int /\ x <= u /\ before \in Int /\ after \in Int
        /\ (last = after /\ before <= last) \/ (after = before /\ last <= before)
    <3>1. u - 1 \in Int /\ clockNS - 1 \in Int /\ clockNS - 1 <= u - 1 /\ clockNS \in Nat
      BY <1>1
    <3>2. /\ last \in Int /\ last <= u - 1
          /\ last = IF entity[f].alive THEN u - 1 ELSE IF u - 1 < entity[f].retired THEN u - 1 ELSE entity[f].retired
      BY <1>1, <3>1, LastAliveIs
    <3>3. /\ before \in Int
          /\ before = IF entity[f].alive THEN clockNS - 1 ELSE IF clockNS - 1 < entity[f].until THEN clockNS - 1 ELSE entity[f].until
      BY <1>1, <3>1, LastSampledIs
    <3>4. /\ after \in Int
          /\ after = IF entity[f].alive THEN u - 1 ELSE IF u - 1 < entity[f].until THEN u - 1 ELSE entity[f].until
      BY <1>1, <3>1, LastSampledIs
    <3>5. entity[f].retired \in Int /\ entity[f].until \in Int
      BY <1>1, Born
    <3>6. x = last + 1
      OBVIOUS
    <3> HIDE DEF last, before, after, x
    <3>7. CASE entity[f].alive
      BY <3>1, <3>2, <3>3, <3>4, <3>6, <3>7
    <3>8. CASE ~ entity[f].alive
      <4>1. entity[f].retired <= entity[f].until /\ (entity[f].until = entity[f].retired \/ entity[f].until < clockNS)
        BY <1>1, <3>8 DEF Closed
      <4> QED
        BY <3>1, <3>2, <3>3, <3>4, <3>5, <3>6, <3>8, <4>1
    <3> QED
      BY <3>7, <3>8
  <2>3. Stands(d \o more, {}, b, u, v) /\ Len(d \o more) = Len(d) + m
    <3>1. x \in Int /\ x <= u /\ Stands(d, {}, b, clockNS, v) /\ clockNS \in Nat /\ b \in Nat
      BY <1>1, <2>1, <2>2
    <3>2. Stands(Grown(d, b, v, x), {}, b, u, v) /\ Len(Grown(d, b, v, x)) = Len(d) + Missing(d, b, x)
      <4> HIDE DEF d, b, v, x
      <4> QED
        BY <3>1, StandsGrows
    <3>3. Grown(d, b, v, x) = d \o more
      BY DEF Grown
    <3> HIDE DEF more
    <3> QED
      BY <3>2, <3>3
  <2>4. SampledThrough(u - 1)[f] = d \o more
    <3>1. last - b + 1 - Len(d) = x - b - Len(d)
      <4> HIDE DEF last, b, d
      <4> QED
        BY <2>1, <2>2
    <3>2. SampledThrough(u - 1)[f] =
            d \o [k \in 1 .. Max({0, last - b + 1 - Len(d)}) |-> Value(f, Watched, b + Len(d) + k - 1)]
      BY <1>3 DEF SampledThrough
    <3>3. more = [k \in 1 .. m |-> Value(f, Watched, b + Len(d) + k - 1)]
      <4>1. \A k \in 1 .. m : b + Len(d) + k - 1 \in Int
        BY <2>1
      <4>2. \A z \in Int : v[z] = Value(f, Watched, z)
        BY DEF History
      <4> HIDE DEF d, b, v, m
      <4> QED
        BY <4>1, <4>2
    <3> QED
      BY <3>1, <3>2, <3>3 DEF Missing
  <2>5. Len(d) + m = Max({0, after - b + 1})
    <3>1. Len(d) = IF 0 > before - b + 1 THEN 0 ELSE before - b + 1
      <4>1. before - b + 1 \in Int
        BY <2>1, <2>2
      <4> HIDE DEF before, b
      <4> QED
        BY <1>1, <1>3, <4>1, MaxIs DEF before, b
    <3>2. x - b - Len(d) \in Int /\ after - b + 1 \in Int
      BY <2>1, <2>2
    <3>3. m = IF 0 > x - b - Len(d) THEN 0 ELSE x - b - Len(d)
      BY <3>2, MaxIs DEF Missing
    <3>4. Max({0, after - b + 1}) = IF 0 > after - b + 1 THEN 0 ELSE after - b + 1
      BY <3>2, MaxIs
    <3>5. x = last + 1
      OBVIOUS
    <3> HIDE DEF m, d, b, last, before, after, x
    <3> QED
      BY <2>1, <2>2, <3>1, <3>3, <3>4, <3>5
  <2> QED
    BY <1>3, <1>4, <2>3, <2>4, <2>5
<1> QED
  BY <1>2, <1>3

(* A command, which takes nothing in but by a look at now.                  *)
LEMMA CommandTaken ==
    ASSUME QueueInv, PastInv, HistoryKept, clockNS' = clockNS, sampled' = sampled,
           \A f \in Entity : Stands(drawn'[f], ahead'[f], entity[f].born, clockNS, History(f))
    PROVE  Taken
<1> SUFFICES ASSUME NEW f \in Entity
             PROVE  /\ Stands(drawn'[f], ahead'[f], entity[f].born, clockNS', History(f)')
                    /\ Stands(sampled'[f], {}, entity[f].born, clockNS', History(f)')
                    /\ Exists(f) => Len(sampled'[f]) = Max({0, LastSampled(f, clockNS' - 1) - entity[f].born + 1})
                    /\ Closed(f, clockNS')
  BY DEF Taken
<1> DEFINE b == entity[f].born
           v == History(f)
           w == History(f)'
           x == ahead'[f]
<1>1. /\ clockNS \in Nat /\ Start \in Nat /\ b \in Nat \cup {None} /\ (b # None => b >= Start)
      /\ \A z \in Int : Start <= z /\ z < clockNS => v[z] = w[z]
  BY Born, WorldAssumption DEF QueueInv, ClockInv, HistoryKept
<1>2. Stands(sampled[f], {}, b, clockNS, v)
  BY DEF PastInv
<1>3. Stands(drawn'[f], x, b, clockNS, v)
  OBVIOUS
<1>4. Exists(f) => Len(sampled'[f]) = Max({0, LastSampled(f, clockNS' - 1) - b + 1})
  BY DEF PastInv
<1>5. clockNS <= clockNS
  BY <1>1
<1>7. Closed(f, clockNS')
  BY DEF PastInv
<1> HIDE DEF b, v, w, x
<1>6. Stands(drawn'[f], x, b, clockNS, w) /\ Stands(sampled[f], {}, b, clockNS, w)
  BY <1>1, <1>2, <1>3, <1>5, StandsKept
<1> QED
  BY <1>4, <1>6, <1>7 DEF b, w, x

(* The clock goes on, and what was missing of it is sampled.                *)
LEMMA AdvancedTaken ==
    ASSUME QueueInv, PastInv, clockNS' \in Nat, clockNS <= clockNS', sampled' = SampledThrough(clockNS' - 1),
           kicks' = kicks, faults' = faults, ahead' = ahead,
           drawn' = drawn \/ \E e \in Entity : Live(e) /\ drawn' = Read(e, clockNS')
    PROVE  Taken
<1> SUFFICES ASSUME NEW f \in Entity
             PROVE  /\ Stands(drawn'[f], ahead'[f], entity[f].born, clockNS', History(f)')
                    /\ Stands(sampled'[f], {}, entity[f].born, clockNS', History(f)')
                    /\ Exists(f) => Len(sampled'[f]) = Max({0, LastSampled(f, clockNS' - 1) - entity[f].born + 1})
                    /\ Closed(f, clockNS')
  BY DEF Taken
<1> DEFINE b == entity[f].born
           v == History(f)
           now == clockNS'
           x == ahead[f]
<1>1. /\ clockNS \in Nat /\ Start \in Nat /\ b \in Nat \cup {None} /\ (b # None => b >= Start)
      /\ now \in Nat /\ clockNS <= now
  BY Born, WorldAssumption DEF QueueInv, ClockInv
<1>2. History(f)' = v
  BY HistorySame
<1>3. /\ Stands(SampledThrough(now - 1)[f], {}, b, now, v)
      /\ Exists(f) => Len(SampledThrough(now - 1)[f]) = Max({0, LastSampled(f, now - 1) - b + 1})
      /\ Closed(f, now)
  <2> HIDE DEF now
  <2> QED
    BY <1>1, SampledStands
<1>4. Stands(drawn'[f], x, b, now, v)
  <2>1. CASE drawn' = drawn
    <3>1. Stands(drawn[f], x, b, clockNS, v)
      BY DEF PastInv
    <3> HIDE DEF b, v, now, x
    <3>2. Stands(drawn[f], x, b, now, v)
      BY <1>1, <3>1, StandsKept
    <3> QED
      BY <2>1, <3>2
  <2>2. ASSUME NEW e \in Entity, Live(e), drawn' = Read(e, now)
        PROVE  Stands(drawn'[f], x, b, now, v)
    <3>1. Stands(Read(e, now)[f], x, b, now, v)
      <4> HIDE DEF now
      <4> QED
        BY <1>1, <2>2, ReadStands
    <3> QED
      BY <2>2, <3>1
  <2> QED
    BY <2>1, <2>2
<1> QED
  BY <1>2, <1>3, <1>4

(* Nobody comes or goes.                                                    *)
LEMMA SamePast ==
    ASSUME Taken, entity' = entity
    PROVE  PastInv'
<1>1. ASSUME NEW f \in Entity
      PROVE  /\ Exists(f)' <=> Exists(f)
             /\ LastSampled(f, clockNS - 1)' = LastSampled(f, clockNS' - 1)
             /\ Closed(f, clockNS)' <=> Closed(f, clockNS')
  BY DEF Exists, LastSampled, Closed
<1> QED
  BY <1>1 DEF Taken, PastInv

(* Whoever is added has no past.                                            *)
LEMMA AddedPast ==
    ASSUME Taken, EntityInv, clockNS' \in Nat, NEW e \in Entity, ~ Exists(e),
           NEW when \in Nat, clockNS' <= when, entity' = Added(e, when)
    PROVE  PastInv'
<1>1. entity'[e].born = when /\ entity'[e].alive = TRUE /\ \A f \in Entity : f # e => entity'[f] = entity[f]
  <2>1. entity \in [Entity -> EntityType] /\ entity[e] \in EntityType
    BY DEF EntityInv
  <2> DEFINE x == [entity[e] EXCEPT !.born = when, !.alive = TRUE]
  <2>2. x.born = when /\ x.alive = TRUE
    BY <2>1 DEF EntityType
  <2>3. entity' = [entity EXCEPT ![e] = x]
    BY <2>1 DEF Added
  <2> HIDE DEF x
  <2> QED
    BY <2>1, <2>2, <2>3
<1>2. ASSUME NEW f \in Entity, f # e
      PROVE  /\ Stands(drawn'[f], ahead'[f], entity'[f].born, clockNS', History(f)')
             /\ Stands(sampled'[f], {}, entity'[f].born, clockNS', History(f)')
             /\ Exists(f)' => Len(sampled'[f]) = Max({0, LastSampled(f, clockNS - 1)' - entity'[f].born + 1})
             /\ Closed(f, clockNS)'
  <2>1. entity'[f] = entity[f]
    BY <1>1, <1>2
  <2>2. /\ Exists(f)' <=> Exists(f)
        /\ LastSampled(f, clockNS - 1)' = LastSampled(f, clockNS' - 1)
        /\ Closed(f, clockNS)' <=> Closed(f, clockNS')
    BY <2>1 DEF Exists, LastSampled, Closed
  <2> QED
    BY <2>1, <2>2 DEF Taken
<1>3. /\ Stands(drawn'[e], ahead'[e], entity'[e].born, clockNS', History(e)')
      /\ Stands(sampled'[e], {}, entity'[e].born, clockNS', History(e)')
      /\ Len(sampled'[e]) = 0
  <2>1. Stands(drawn'[e], ahead'[e], None, clockNS', History(e)') /\ Stands(sampled'[e], {}, None, clockNS', History(e)')
    BY DEF Taken, Exists
  <2> DEFINE d1 == drawn'[e]
             d2 == sampled'[e]
             x == ahead'[e]
             v == History(e)'
             now == clockNS'
  <2>2. now \in Nat /\ Stands(d1, x, None, now, v) /\ Stands(d2, {}, None, now, v)
    BY <2>1
  <2> HIDE DEF d1, d2, x, v, now
  <2>3. Stands(d1, x, when, now, v) /\ Stands(d2, {}, when, now, v) /\ Len(d2) = 0
    BY <2>2, StandsNew
  <2> QED
    BY <1>1, <2>3 DEF d1, d2, x, v, now
<1>4. Max({0, LastSampled(e, clockNS - 1)' - entity'[e].born + 1}) = 0
  <2>1. LastSampled(e, clockNS - 1)' = clockNS' - 1
    BY <1>1 DEF LastSampled
  <2> DEFINE now == clockNS'
             y == now - 1 - when + 1
  <2>2. y \in Int /\ (0 > y \/ y = 0)
    <3>1. now \in Nat /\ when \in Nat /\ now <= when
      OBVIOUS
    <3> HIDE DEF now
    <3> QED
      BY <3>1
  <2> HIDE DEF y
  <2>3. Max({0, y}) = 0
    BY <2>2, MaxIs
  <2> QED
    BY <1>1, <2>1, <2>3 DEF y
<1>5. Closed(e, clockNS)'
  BY <1>1 DEF Closed
<1> QED
  BY <1>2, <1>3, <1>4, <1>5 DEF PastInv

(* Whoever retires has been sampled until now, however far behind the clock *)
(* the retirement is dated.                                                 *)
LEMMA RetiredPast ==
    ASSUME Taken, EntityInv, clockNS \in Nat, clockNS' \in Nat, NEW e \in Entity, Live(e),
           NEW when \in Nat, clockNS' = clockNS \/ clockNS' = when, clockNS <= clockNS', entity' = Retired(e, when)
    PROVE  PastInv'
<1>1. /\ entity'[e].alive = FALSE /\ entity'[e].retired = when
      /\ entity'[e].until = IF when > clockNS - 1 THEN when ELSE clockNS - 1
      /\ \A f \in Entity : f # e => entity'[f] = entity[f]
      /\ \A f \in Entity : entity'[f].born = entity[f].born
  BY RetiredEntities
<1> DEFINE now == clockNS'
           last == entity'[e].until
<1>2. /\ now \in Nat /\ last \in Int /\ now - 1 <= last /\ when <= last
      /\ last = when \/ last < now
  <2>1. now \in Nat /\ (now = clockNS \/ now = when) /\ clockNS <= now
    OBVIOUS
  <2>2. last = IF when > clockNS - 1 THEN when ELSE clockNS - 1
    BY <1>1
  <2> HIDE DEF now, last
  <2> QED
    BY <2>1, <2>2
<1>3. ASSUME NEW f \in Entity
      PROVE  LastSampled(f, clockNS - 1)' = LastSampled(f, clockNS' - 1) /\ Closed(f, clockNS)'
  <2>1. CASE f = e
    <3>1. LastSampled(e, clockNS - 1)' = Min({now - 1, last})
      BY <1>1 DEF LastSampled
    <3>2. Min({now - 1, last}) = now - 1
      <4> HIDE DEF now, last
      <4>1. now - 1 \in Int /\ (now - 1 < last \/ now - 1 = last)
        BY <1>2
      <4> QED
        BY <1>2, <4>1, MinIs
    <3>3. LastSampled(e, clockNS' - 1) = now - 1
      BY DEF LastSampled, Live
    <3>4. Closed(e, clockNS)'
      BY <1>1, <1>2 DEF Closed
    <3> QED
      BY <2>1, <3>1, <3>2, <3>3, <3>4
  <2>2. CASE f # e
    <3>1. entity'[f] = entity[f]
      BY <1>1, <2>2
    <3> QED
      BY <3>1 DEF LastSampled, Closed, Taken
  <2> QED
    BY <2>1, <2>2
<1>4. \A f \in Entity : Exists(f)' <=> Exists(f)
  BY <1>1 DEF Exists
<1> QED
  BY <1>1, <1>3, <1>4 DEF Taken, PastInv

-----------------------------------------------------------------------------
(* Every step keeps it, however far ahead callers date their calls.         *)

StandingInv == QueueInv /\ LeaseInv /\ PastInv

LEMMA LeasesKept == ASSUME LeaseInv, leases' = leases PROVE LeaseInv'
BY DEF LeaseInv

(* A look at what is to come leaves the entity asked about as it was, and   *)
(* the steps past the clock it leaves to another are known.                 *)
LEMMA LookedStands ==
    ASSUME QueueInv, PastInv, NEW e \in Entity, Live(e), NEW g, NEW when \in Nat, clockNS <= when,
           drawn' = Looked(e, g, when), ahead' = LeftAhead(e, drawn'), NEW f \in Entity
    PROVE  Stands(drawn'[f], ahead'[f], entity[f].born, clockNS, History(f))
<1> DEFINE b == entity[f].born
           v == History(f)
<1>1. /\ clockNS \in Nat /\ b \in Nat \cup {None}
      /\ Stands(drawn[f], ahead[f], b, clockNS, v)
  BY Born DEF QueueInv, ClockInv, PastInv
<1>2. ahead'[f] = ahead[f] \cup {k \in DOMAIN drawn'[f] \ DOMAIN drawn[f] : f # e /\ entity[f].born + k - 1 >= clockNS}
  BY DEF LeftAhead
<1>3. ahead[f] \subseteq ahead'[f]
  BY <1>2
<1>4. CASE drawn'[f] = drawn[f]
  BY <1>1, <1>3, <1>4, StandsMore
<1>5. CASE when = clockNS /\ drawn'[f] = Read(e, when)[f]
  <2>1. Stands(Read(e, when)[f], ahead[f], b, clockNS, v)
    BY <1>1, <1>5, ReadStands
  <2> QED
    BY <1>3, <1>5, <2>1, StandsMore
<1>6. CASE f # e /\ drawn'[f] = Read(e, when)[f]
  <2> DEFINE d == drawn'[f]
             now == ahead'[f]
  <2>1. Stands(d, ahead[f], b, when, v)
    BY <1>1, <1>6, ReadStands
  <2>2. IsList(d) /\ (b = None => Len(d) = 0) /\ DOMAIN d = 1 .. Len(d) /\ Len(d) \in Nat
    BY <2>1 DEF Stands, IsList
  <2>3. IsList(drawn[f]) /\ DOMAIN drawn[f] = 1 .. Len(drawn[f])
    BY <1>1 DEF Stands, IsList
  <2>4. \A k \in (1 .. Len(d)) \ now : b + k - 1 < clockNS /\ d[k] = v[b + k - 1]
    <3> TAKE k \in (1 .. Len(d)) \ now
    <3>1. k \in (1 .. Len(d)) \ ahead[f] /\ k \in Nat /\ k \in DOMAIN d
      BY <1>3, <2>2
    <3>2. d[k] = v[b + k - 1]
      BY <2>1, <3>1 DEF Stands
    <3>3. b \in Nat
      <4>1. Len(d) # 0
        BY <2>2, <3>1
      <4> QED
        BY <1>1, <2>2, <4>1
    <3>4. CASE k \in DOMAIN drawn[f]
      <4>1. k \in (1 .. Len(drawn[f])) \ ahead[f]
        BY <2>3, <3>1, <3>4
      <4> QED
        BY <1>1, <3>2, <4>1 DEF Stands
    <3>5. CASE k \notin DOMAIN drawn[f]
      <4>1. ~ (b + k - 1 >= clockNS)
        BY <1>2, <1>6, <3>1, <3>5
      <4>2. b + k - 1 < clockNS
        <5> HIDE DEF b
        <5> QED
          BY <1>1, <3>1, <3>3, <4>1
      <4> QED
        BY <3>2, <4>2
    <3> QED
      BY <3>4, <3>5
  <2> QED
    BY <2>2, <2>4 DEF Stands
<1>7. \/ drawn'[f] = drawn[f]
      \/ when = clockNS /\ drawn'[f] = Read(e, when)[f]
      \/ f # e /\ drawn'[f] = Read(e, when)[f]
  <2>1. CASE drawn' = drawn
    BY <2>1
  <2>2. CASE when > clockNS /\ drawn' = [Read(e, when) EXCEPT ![e] = drawn[e]]
    <3>1. DOMAIN Read(e, when) = Entity
      BY DEF Read
    <3> QED
      BY <2>2, <3>1
  <2>3. CASE ~ (when > clockNS) /\ drawn' = Read(e, when)
    <3>1. when = clockNS
      BY <1>1, <2>3
    <3> QED
      BY <2>3, <3>1
  <2> QED
    BY <2>1, <2>2, <2>3 DEF Looked, LookedAhead
<1> QED
  BY <1>4, <1>5, <1>6, <1>7

LEMMA InvokePast ==
    ASSUME StandingInv, NEW e \in Entity, NEW g \in DOMAIN EffectorDecl, NEW args \in Args[g],
           NEW when \in Instants, NEW mode, InvokeEffector(e, g, args, when, mode)
    PROVE  LeaseInv' /\ PastInv'
<1>1. ClockInv /\ LeaseInv /\ QueueInv /\ PastInv
  BY DEF StandingInv, QueueInv
<1>2. HistoryKept /\ LeaseInv'
  BY <1>1, InvokeHistory
<1>3. Live(e) /\ drawn' = Looked(e, g, when) /\ UNCHANGED <<clockNS, goal, entity, sampled>>
  BY <1>1, InvokeIs
<1>4. ahead' = LeftAhead(e, drawn')
  BY DEF InvokeEffector
<1>5. when \in Nat /\ clockNS <= when
  BY <1>1, InvokeIs DEF ClockInv
<1>6. \A f \in Entity : Stands(drawn'[f], ahead'[f], entity[f].born, clockNS, History(f))
  BY <1>1, <1>3, <1>4, <1>5, LookedStands
<1>7. Taken
  BY <1>1, <1>2, <1>3, <1>6, CommandTaken
<1> QED
  BY <1>2, <1>3, <1>7, SamePast

LEMMA PopPast ==
    ASSUME StandingInv, NEW kind, Pop(kind), drawn' = drawn \/ \E e \in Entity : Live(e) /\ drawn' = Read(e, clockNS')
    PROVE  LeaseInv' /\ Taken /\ clockNS' \in Nat /\ clockNS <= clockNS'
<1>1. ClockInv /\ LeaseInv /\ QueueInv /\ PastInv
  BY DEF StandingInv, QueueInv
<1>2. clockNS' \in Nat /\ clockNS <= clockNS' /\ faults' = faults
  BY <1>1, PopIs
<1>3. sampled' = SampledThrough(clockNS' - 1) /\ kicks' = kicks /\ leases' = leases
  BY DEF Pop, driving
<1>5. ahead' = ahead
  BY DEF Pop
<1>4. Taken
  BY <1>1, <1>2, <1>3, <1>5, AdvancedTaken
<1> QED
  BY <1>1, <1>2, <1>3, <1>4, LeasesKept

LEMMA CommandPast ==
    ASSUME StandingInv, HistoryKept, clockNS' = clockNS, sampled' = sampled, drawn' = drawn, ahead' = ahead, leases' = leases
    PROVE  LeaseInv' /\ Taken /\ clockNS' \in Nat
<1>1. LeaseInv /\ QueueInv /\ PastInv /\ clockNS \in Nat
  BY DEF StandingInv, QueueInv, ClockInv
<1>2. \A f \in Entity : Stands(drawn'[f], ahead'[f], entity[f].born, clockNS, History(f))
  BY <1>1 DEF PastInv
<1> QED
  BY <1>1, <1>2, CommandTaken, LeasesKept

LEMMA HistoryStays == ASSUME kicks' = kicks, faults' = faults PROVE HistoryKept
BY HistorySame DEF HistoryKept

LEMMA InitStanding == ASSUME WorldInit PROVE StandingInv
<1>1. QueueInv
  BY InitQueue
<1>2. /\ clockNS = Start /\ Start \in Nat /\ Initial \subseteq Entity
      /\ entity = [e \in Entity |-> [born |-> IF e \in Initial THEN Start ELSE None, alive |-> e \in Initial, retired |-> None, until |-> None]]
      /\ leases = [e \in Entity |-> [f \in DOMAIN EffectorDecl |-> NoKick]]
      /\ drawn = [e \in Entity |-> <<>>] /\ sampled = [e \in Entity |-> <<>>]
  BY WorldAssumption DEF WorldInit
<1>3. LeaseInv
  <2>1. NoKick.start \in Int
    BY DEF NoKick, None
  <2> QED
    BY <1>2, <2>1 DEF LeaseInv
<1>4. ASSUME NEW f \in Entity
      PROVE  /\ Stands(drawn[f], ahead[f], entity[f].born, clockNS, History(f))
             /\ Stands(sampled[f], {}, entity[f].born, clockNS, History(f))
             /\ Exists(f) => Len(sampled[f]) = Max({0, LastSampled(f, clockNS - 1) - entity[f].born + 1})
             /\ Closed(f, clockNS)
  <2>1. drawn[f] = <<>> /\ sampled[f] = <<>>
    BY <1>2
  <2>2. \A x, b, t, v : Stands(<<>>, x, b, t, v)
    BY DEF Stands, IsList
  <2>3. ASSUME Exists(f)
        PROVE  Max({0, LastSampled(f, clockNS - 1) - entity[f].born + 1}) = 0
    <3>1. f \in Initial /\ entity[f].born = Start /\ entity[f].alive
      BY <1>2, <2>3 DEF Exists
    <3>2. LastSampled(f, clockNS - 1) = Start - 1
      BY <1>2, <3>1 DEF LastSampled
    <3>3. Start - 1 - Start + 1 = 0
      BY <1>2
    <3>4. Max({0, 0}) = 0
      BY MaxIs
    <3> QED
      BY <3>1, <3>2, <3>3, <3>4
  <2>4. Closed(f, clockNS)
    <3>1. entity[f].retired = None /\ entity[f].until = None /\ None <= None
      BY <1>2 DEF None
    <3> QED
      BY <3>1 DEF Closed
  <2> QED
    BY <2>1, <2>2, <2>3, <2>4
<1>5. PastInv
  BY <1>4 DEF PastInv
<1> QED
  BY <1>1, <1>3, <1>5 DEF StandingInv

LEMMA EventPast ==
    ASSUME StandingInv
    PROVE  /\ \A e \in Entity, down \in BOOLEAN, next \in Cadence : Emission(e, down, next) => LeaseInv' /\ PastInv'
           /\ \A e \in Entity, down \in BOOLEAN : EventCheck(e, down) => LeaseInv' /\ PastInv'
           /\ \A e \in Entity : Death(e) => LeaseInv' /\ PastInv'
           /\ \A next \in Cadence, lifetime \in Lifetimes : Birth(next, lifetime) => LeaseInv' /\ PastInv'
<1>0. EntityInv
  BY DEF StandingInv, QueueInv
<1>1. ASSUME NEW e \in Entity, NEW down \in BOOLEAN, NEW next \in Cadence, Emission(e, down, next)
      PROVE  LeaseInv' /\ PastInv'
  <2>1. Pop("emission") /\ entity' = entity /\ (drawn' = drawn \/ \E f \in Entity : Live(f) /\ drawn' = Read(f, clockNS'))
    BY <1>1 DEF Emission
  <2>2. LeaseInv' /\ Taken
    BY <2>1, PopPast
  <2> QED
    BY <2>1, <2>2, SamePast
<1>2. ASSUME NEW e \in Entity, NEW down \in BOOLEAN, EventCheck(e, down)
      PROVE  LeaseInv' /\ PastInv'
  <2>1. Pop("check") /\ entity' = entity /\ (drawn' = drawn \/ \E f \in Entity : Live(f) /\ drawn' = Read(f, clockNS'))
    BY <1>2 DEF EventCheck
  <2>2. LeaseInv' /\ Taken
    BY <2>1, PopPast
  <2> QED
    BY <2>1, <2>2, SamePast
<1>3. ASSUME NEW e \in Entity, Death(e)
      PROVE  LeaseInv' /\ PastInv'
  <2>1. Pop("death") /\ drawn' = drawn /\ (entity' = entity \/ (Live(e) /\ entity' = Retired(e, clockNS')))
    BY <1>3 DEF Death
  <2>2. LeaseInv' /\ Taken /\ clockNS' \in Nat /\ clockNS \in Nat /\ clockNS <= clockNS'
    BY <2>1, PopPast DEF StandingInv, QueueInv, ClockInv
  <2>3. CASE entity' = entity
    BY <2>2, <2>3, SamePast
  <2>4. CASE Live(e) /\ entity' = Retired(e, clockNS')
    <3> DEFINE when == clockNS'
    <3>1. when \in Nat /\ clockNS' = when /\ entity' = Retired(e, when)
      BY <2>2, <2>4
    <3> HIDE DEF when
    <3> QED
      BY <1>0, <2>2, <2>4, <3>1, RetiredPast
  <2> QED
    BY <2>1, <2>3, <2>4
<1>4. ASSUME NEW next \in Cadence, NEW lifetime \in Lifetimes, Birth(next, lifetime)
      PROVE  LeaseInv' /\ PastInv'
  <2>1. /\ Pop("birth") /\ drawn' = drawn
        /\ entity' = entity \/ \E e \in Entity : ~ Exists(e) /\ entity' = Added(e, clockNS')
    BY <1>4, Zenon DEF Birth
  <2>2. LeaseInv' /\ Taken /\ clockNS' \in Nat
    BY <2>1, PopPast
  <2>3. CASE entity' = entity
    BY <2>2, <2>3, SamePast
  <2>4. ASSUME NEW e \in Entity, ~ Exists(e), entity' = Added(e, clockNS')
        PROVE  PastInv'
    <3> DEFINE when == clockNS'
    <3>1. when \in Nat /\ clockNS' <= when /\ entity' = Added(e, when)
      BY <2>2, <2>4
    <3> HIDE DEF when
    <3> QED
      BY <1>0, <2>2, <2>4, <3>1, AddedPast
  <2> QED
    BY <2>1, <2>2, <2>3, <2>4
<1> QED
  BY <1>1, <1>2, <1>3, <1>4

LEMMA NextStanding ==
    ASSUME StandingInv, [WorldNext]_worldVars
    PROVE  StandingInv'
<1>0. QueueInv /\ ClockInv /\ EntityInv /\ LeaseInv /\ PastInv /\ clockNS \in Nat /\ WorldHorizon \in Nat
  BY WorldAssumption DEF StandingInv, QueueInv, ClockInv
<1>1. QueueInv'
  BY <1>0, NextQueue
<1> SUFFICES LeaseInv' /\ PastInv'
  BY <1>1 DEF StandingInv
<1>2. ASSUME NEW e \in Entity, NEW g \in DOMAIN FaultDecl, NEW onset \in 1 .. WorldHorizon, InjectFault(e, g, onset)
      PROVE  LeaseInv' /\ PastInv'
  <2>1. HistoryKept
    BY <1>0, <1>2, InjectHistory
  <2>2. UNCHANGED <<clockNS, entity, leases, drawn, ahead, sampled>>
    BY <1>0, <1>2, InjectIs
  <2> QED
    BY <2>1, <2>2, CommandPast, SamePast
<1>3. ASSUME NEW i \in DOMAIN faults, NEW when \in Instants, ClearFault(i, when)
      PROVE  LeaseInv' /\ PastInv'
  <2>1. HistoryKept
    BY <1>0, <1>3, ClearHistory
  <2>2. UNCHANGED <<clockNS, entity, leases, drawn, ahead, sampled>>
    BY <1>0, <1>3, ClearIs
  <2> QED
    BY <2>1, <2>2, CommandPast, SamePast
<1>4. ASSUME NEW e \in Entity, NEW when \in Instants, NEW next \in Cadence, AddEntity(e, when, next)
      PROVE  LeaseInv' /\ PastInv'
  <2>1. ~ Exists(e) /\ entity' = Added(e, when) /\ UNCHANGED <<clockNS, kicks, leases, faults, drawn, ahead, sampled>>
    BY <1>4 DEF AddEntity, driving
  <2>2. when \in Nat /\ clockNS' <= when
    BY <1>0, <2>1 DEF Instants
  <2> QED
    BY <1>0, <2>1, <2>2, HistoryStays, CommandPast, AddedPast
<1>5. ASSUME NEW e \in Entity, NEW when \in Start .. WorldHorizon, Retire(e, when)
      PROVE  LeaseInv' /\ PastInv'
  <2>1. Live(e) /\ entity' = Retired(e, when) /\ UNCHANGED <<clockNS, kicks, leases, faults, drawn, ahead, sampled>>
    BY <1>5 DEF Retire, driving
  <2>2. when \in Nat /\ clockNS' = clockNS /\ clockNS <= clockNS'
    BY <1>0, <2>1, WorldAssumption
  <2> QED
    BY <1>0, <2>1, <2>2, HistoryStays, CommandPast, RetiredPast
<1>6. ASSUME NEW to \in Instants, AdvanceWorld(to)
      PROVE  LeaseInv' /\ PastInv'
  <2>1. UNCHANGED <<clockNS, entity, kicks, leases, faults, drawn, ahead, sampled>>
    BY <1>6 DEF AdvanceWorld, driving
  <2> QED
    BY <2>1, HistoryStays, CommandPast, SamePast
<1>7. ASSUME WorldReturns
      PROVE  LeaseInv' /\ PastInv'
  <2>1. sampled' = SampledThrough(clockNS' - 1) /\ UNCHANGED <<entity, kicks, leases, faults, drawn, ahead>>
    BY <1>7 DEF WorldReturns, driving
  <2>2. clockNS' \in Nat /\ clockNS <= clockNS'
    BY <1>0, <1>7, ReturnClock
  <2>3. Taken
    BY <1>0, <2>1, <2>2, AdvancedTaken
  <2> QED
    BY <1>0, <2>1, <2>3, SamePast, LeasesKept
<1>8. CASE UNCHANGED worldVars
  <2>1. UNCHANGED <<clockNS, entity, kicks, leases, faults, drawn, ahead, sampled>>
    BY <1>8 DEF worldVars, driving
  <2> QED
    BY <2>1, HistoryStays, CommandPast, SamePast
<1>9. ASSUME NEW e \in Entity, NEW f \in DOMAIN EffectorDecl, NEW args \in Args[f], NEW when \in Instants, NEW mode,
             InvokeEffector(e, f, args, when, mode)
      PROVE  LeaseInv' /\ PastInv'
  BY <1>9, InvokePast
<1> QED
  BY <1>2, <1>3, <1>4, <1>5, <1>6, <1>7, <1>8, <1>9, EventPast DEF WorldNext

-----------------------------------------------------------------------------
(* What has been integrated and sampled is what the world would say of      *)
(* those times now, however far ahead callers date their calls: no command  *)
(* reaches behind it, the order of the reads does not matter, and every     *)
(* step and every sample was taken once; all but the steps past the clock   *)
(* that a look-ahead has left to the entities linked to the one it was      *)
(* asked about (integration.go:44, kpi.go:68, faults.go:181,                *)
(* protection.go:141).                                                      *)
THEOREM WhatWasTakenStands == WorldSpec => []PastStands
<1>1. ASSUME StandingInv
      PROVE  PastStands
  <2>1. ASSUME NEW e \in Entity, NEW d, NEW x, Stands(d, x, entity[e].born, clockNS, History(e))
        PROVE  \A k \in DOMAIN d \ x : entity[e].born + k - 1 < clockNS /\ AsNow(e, k, d[k])
    <3>1. /\ IsList(d) /\ (entity[e].born = None => Len(d) = 0)
          /\ \A k \in (1 .. Len(d)) \ x : entity[e].born + k - 1 < clockNS /\ d[k] = History(e)[entity[e].born + k - 1]
      BY <2>1 DEF Stands
    <3>2. Len(d) \in Nat /\ DOMAIN d = 1 .. Len(d)
      BY <3>1 DEF IsList
    <3>3. entity[e].born \in Int
      BY <1>1, Born DEF StandingInv, QueueInv, None
    <3>4. \A k \in 1 .. Len(d) : entity[e].born + k - 1 \in Int
      BY <3>2, <3>3
    <3> QED
      BY <3>1, <3>2, <3>4 DEF History, AsNow
  <2>2. \A e \in Entity : /\ Stands(drawn[e], ahead[e], entity[e].born, clockNS, History(e))
                          /\ Stands(sampled[e], {}, entity[e].born, clockNS, History(e))
                          /\ Exists(e) => Len(sampled[e]) = Max({0, LastSampled(e, clockNS - 1) - entity[e].born + 1})
    BY <1>1 DEF StandingInv, PastInv
  <2>3. \A e \in Entity : /\ \A k \in DOMAIN drawn[e] \ ahead[e] : entity[e].born + k - 1 < clockNS /\ AsNow(e, k, drawn[e][k])
                          /\ \A k \in DOMAIN sampled[e] : AsNow(e, k, sampled[e][k])
    <3> TAKE e \in Entity
    <3>1. \A k \in DOMAIN drawn[e] \ ahead[e] : entity[e].born + k - 1 < clockNS /\ AsNow(e, k, drawn[e][k])
      BY <2>1, <2>2, Zenon
    <3>2. \A k \in DOMAIN sampled[e] \ {} : entity[e].born + k - 1 < clockNS /\ AsNow(e, k, sampled[e][k])
      BY <2>1, <2>2, Zenon
    <3> QED
      BY <3>1, <3>2
  <2> QED
    BY <2>2, <2>3 DEF PastStands
<1>2. WorldSpec => []StandingInv
  <2>1. WorldInit => StandingInv
    BY InitStanding
  <2>2. StandingInv /\ [WorldNext]_worldVars => StandingInv'
    BY NextStanding
  <2> QED
    BY <2>1, <2>2, PTL DEF WorldSpec
<1> QED
  BY <1>1, <1>2, PTL

-----------------------------------------------------------------------------
(* However far ahead callers date their calls: what a state was before the  *)
(* clock no step changes any more.                                          *)

LEMMA NextHistory ==
    ASSUME QueueInv, LeaseInv, [WorldNext]_worldVars
    PROVE  HistoryKept /\ LeaseInv'
<1>0. ClockInv
  BY DEF QueueInv
<1>1. ASSUME NEW e \in Entity, NEW g \in DOMAIN FaultDecl, NEW onset \in 1 .. WorldHorizon, InjectFault(e, g, onset)
      PROVE  HistoryKept /\ LeaseInv'
  <2>1. leases' = leases
    BY <1>0, <1>1, InjectIs
  <2> QED
    BY <1>0, <1>1, <2>1, InjectHistory, LeasesKept
<1>2. ASSUME NEW i \in DOMAIN faults, NEW when \in Instants, ClearFault(i, when)
      PROVE  HistoryKept /\ LeaseInv'
  <2>1. leases' = leases
    BY <1>0, <1>2, ClearIs
  <2> QED
    BY <1>0, <1>2, <2>1, ClearHistory, LeasesKept
<1>3. ASSUME NEW e \in Entity, NEW f \in DOMAIN EffectorDecl, NEW args \in Args[f], NEW when \in Instants, NEW mode,
             InvokeEffector(e, f, args, when, mode)
      PROVE  HistoryKept /\ LeaseInv'
  BY <1>0, <1>3, InvokeHistory
<1>4. CASE UNCHANGED <<kicks, faults, leases>>
  BY <1>4, HistoryStays, LeasesKept
<1>5. ASSUME NEW e \in Entity
      PROVE  /\ \A when \in Start .. WorldHorizon : Retire(e, when) => UNCHANGED <<kicks, faults, leases>>
             /\ \A when \in Instants, next \in Cadence : AddEntity(e, when, next) => UNCHANGED <<kicks, faults, leases>>
             /\ \A down \in BOOLEAN : EventCheck(e, down) => UNCHANGED <<kicks, faults, leases>>
             /\ \A down \in BOOLEAN, next \in Cadence : Emission(e, down, next) => UNCHANGED <<kicks, faults, leases>>
             /\ Death(e) => UNCHANGED <<kicks, faults, leases>>
  BY DEF Retire, AddEntity, EventCheck, Emission, Death, Pop, driving
<1>6. \A next \in Cadence, lifetime \in Lifetimes : Birth(next, lifetime) => UNCHANGED <<kicks, faults, leases>>
  BY DEF Birth, Pop, driving
<1>7. /\ \A to \in Instants : AdvanceWorld(to) => UNCHANGED <<kicks, faults, leases>>
      /\ WorldReturns => UNCHANGED <<kicks, faults, leases>>
      /\ UNCHANGED worldVars => UNCHANGED <<kicks, faults, leases>>
  BY DEF AdvanceWorld, WorldReturns, worldVars, driving
<1> QED
  BY <1>1, <1>2, <1>3, <1>4, <1>5, <1>6, <1>7 DEF WorldNext

Settled == \A e \in Entity, t \in Start .. clockNS - 1 : Value(e, Watched, t)' = Value(e, Watched, t)

(* An onset, a clear, a call, its lease and whoever it sends act at the     *)
(* clock at the earliest, and a fallback that is withdrawn has not acted    *)
(* yet, so nothing that is known of the past is ever revised, whatever      *)
(* dates callers give (faults.go:181, follow_up.go:60).                     *)
THEOREM ThePastIsSettled == WorldSpec => [][Settled]_worldVars
<1>1. WorldInit => QueueInv /\ LeaseInv
  BY InitStanding DEF StandingInv
<1>2. QueueInv /\ LeaseInv /\ [WorldNext]_worldVars => (QueueInv /\ LeaseInv)'
  BY NextQueue, NextHistory
<1>3. ASSUME QueueInv, LeaseInv, [WorldNext]_worldVars
      PROVE  Settled
  <2>1. HistoryKept /\ clockNS \in Nat /\ Start \in Nat
    BY <1>3, NextHistory, WorldAssumption DEF QueueInv, ClockInv
  <2>2. ASSUME NEW e \in Entity, NEW t \in Start .. clockNS - 1
        PROVE  Value(e, Watched, t)' = Value(e, Watched, t)
    <3>1. t \in Int /\ Start <= t /\ t < clockNS
      BY <2>1
    <3>2. History(e)'[t] = History(e)[t]
      BY <2>1, <3>1 DEF HistoryKept
    <3> QED
      BY <3>1, <3>2 DEF History
  <2> QED
    BY <2>2 DEF Settled
<1> QED
  BY <1>1, <1>2, <1>3, PTL DEF WorldSpec
=============================================================================
