--------------------------------- MODULE Run ---------------------------------
(***************************************************************************)
(* One run (internal/run/internal/app): the commands that serialise on     *)
(* commandMu, the way of an event from the world through the perturbation  *)
(* layer and the sink into the delivery ledger, the consumer's reports of  *)
(* quiescence and the callers that wait for them, and the end of the run.  *)
(* Only clock.advance is taken apart: every other command holds commandMu  *)
(* from its first read to its last write.                                  *)
(***************************************************************************)
EXTENDS PerturbRules

CONSTANTS Driver,       \* the goroutines that command the run and may wait in it
          Consumer,     \* the goroutines that report for the consumer
          EmitTimes,    \* when the world emits an event of its own accord
          Horizon,      \* bound: the latest time a caller advances to
          Offers,      \* the perturbations a caller may apply
          MaxCommands   \* bound: the length of the command log

ASSUME RunAssumption ==
  /\ Horizon \in Nat \ {0} /\ MaxCommands \in Nat
  /\ EmitTimes \subseteq 1 .. Horizon
  /\ \A p \in Offers : p.from \in Nat /\ p.until \in Nat /\ p.width \in Nat

Caller == Driver \cup Consumer

VARIABLES clock,     \* World.Clock
          changes,   \* the times at which a command changed the world
          layer,     \* r.Perturb
          pass,      \* the clock.advance that holds commandMu
          ledger,    \* r.ledger; `dropped` (auxiliary): the layer had dropped it
          log,       \* r.commandLog
          status,    \* runErr, incomplete, reproducible, finished
          closed,    \* the journal's closing record
          artifact,  \* run.json
          quiesced,  \* r.quiescedThroughNS
          channel,   \* the number of notify channels closed so far
          at         \* where each caller is

core == <<clock, changes, layer, pass, ledger, log>>
ending == <<status, closed, artifact>>
waiting == <<quiesced, channel, at>>
vars == <<core, ending, waiting>>

NoPass == [stage |-> "none", by |-> 0, to |-> 0, await |-> FALSE, at |-> 0, step |-> 0, records |-> <<>>]
Idle == [do |-> "idle", goal |-> 0, seen |-> 0]

Init ==
  /\ clock = 0 /\ changes = <<>> /\ layer = EmptyLayer /\ pass = NoPass
  /\ ledger = <<>> /\ log = <<>>
  /\ status = [failed |-> FALSE, incomplete |-> FALSE, reproducible |-> TRUE, finished |-> FALSE]
  /\ closed = "open" /\ artifact = "none"
  /\ quiesced = 0 /\ channel = 0
  /\ at = [c \in Caller |-> Idle]

Free == pass.stage = "none"
Puts(c, do, goal, seen) == at' = [at EXCEPT ![c] = [do |-> do, goal |-> goal, seen |-> seen]]

\* Variant: a failed run goes on counting as reproducible.
Failed_Reproducible(s) == [s EXCEPT !.failed = TRUE]

\* fail: the first error ends the run as incomplete.
Failed(s) ==
  IF s.failed THEN s
  ELSE [s EXCEPT !.failed = TRUE, !.incomplete = TRUE, !.reproducible = FALSE]

-----------------------------------------------------------------------------
(***************************************************************************)
(* The commands that are one step: each is logged when it has succeeded,   *)
(* and the log is flushed to the journal, which may fail.                  *)
(***************************************************************************)
Commands(c) == Free /\ at[c].do = "idle" /\ ~status.finished /\ Len(log) < MaxCommands

Logs(entry) ==
  /\ log' = Append(log, entry)
  /\ \E flushed \in BOOLEAN : status' = IF flushed THEN status ELSE Failed(status)

\* InjectFault, ClearFault, InvokeEffector, AddEntity, RetireEntity.
ChangeWorld(c) ==
  /\ Commands(c)
  /\ changes' = Append(changes, clock)
  /\ Logs([op |-> "change"])
  /\ UNCHANGED <<clock, layer, pass, ledger, closed, artifact, waiting>>

ApplyPerturb(c, p) ==
  /\ Commands(c) /\ Admitted(p)
  /\ layer' = Applied(layer, p)
  /\ Logs([op |-> "apply", choice |-> p])
  /\ UNCHANGED <<clock, changes, pass, ledger, closed, artifact, waiting>>

ClearPerturb(c, id) ==
  /\ Commands(c) /\ Known(layer, id)
  /\ layer' = Cleared(layer, id)
  /\ Logs([op |-> "clear", id |-> id])
  /\ UNCHANGED <<clock, changes, pass, ledger, closed, artifact, waiting>>

-----------------------------------------------------------------------------
(***************************************************************************)
(* clock.advance: the world emits, every record is perturbed and delivered *)
(* one by one, and the boundary releases what the layer held back.         *)
(***************************************************************************)

\* advanceWorld refuses after an error and before the clock.
Advance(c, to, await) ==
  /\ Commands(c) /\ ~status.failed /\ to >= clock
  /\ pass' = [NoPass EXCEPT !.stage = "world", !.by = c, !.to = to, !.await = await]
  /\ UNCHANGED <<clock, changes, layer, ledger, log, ending, waiting>>

NextEvents == {e \in EmitTimes : clock < e /\ e <= pass.to}

EmitEvent ==
  /\ pass.stage = "world" /\ NextEvents # {}
  /\ clock' = CHOOSE e \in NextEvents : \A f \in NextEvents : e <= f
  /\ layer' = [layer EXCEPT !.next = @ + 1]
  /\ pass' = [pass EXCEPT !.stage = "perturb", !.at = clock', !.step = 1, !.records = <<Record(layer'.next)>>]
  /\ UNCHANGED <<changes, ledger, log, ending, waiting>>

\* One application of the layer; those whose window does not cover the event
\* leave its records alone.
PerturbStep ==
  /\ pass.stage = "perturb" /\ pass.step <= Len(layer.active)
  /\ IF Covers(layer.active[pass.step], pass.at)
       THEN \E hit \in SUBSET DOMAIN pass.records :
              LET done == Transformed(layer, pass.step, pass.records, pass.at, hit)
              IN /\ layer' = done.layer
                 /\ pass' = [pass EXCEPT !.step = @ + 1, !.records = done.out]
       ELSE pass' = [pass EXCEPT !.step = @ + 1] /\ UNCHANGED layer
  /\ UNCHANGED <<clock, changes, ledger, log, ending, waiting>>

Perturbed ==
  /\ pass.stage = "perturb" /\ pass.step > Len(layer.active)
  /\ pass' = [pass EXCEPT !.stage = "deliver"]
  /\ UNCHANGED <<clock, changes, layer, ledger, log, ending, waiting>>

\* appendLedger, and the end of the run when the sink or the renderer failed.
Ledgered(record, outcome) ==
  /\ ledger' = Append(ledger, [id |-> record.id, outcome |-> outcome, dropped |-> ~record.delivered])
  /\ status' = IF outcome = "sink_error" THEN Failed(status) ELSE status

\* deliver: a malformed record is written whatever the layer said of it, and one
\* the layer dropped is only written down.  Of what is "sent" the adapter may
\* render nothing.
Delivery(record) ==
  IF record.malformed \/ record.delivered
    THEN Ledgered(record, "sent") \/ Ledgered(record, "sink_error")
    ELSE Ledgered(record, "not_sent")

Deliver ==
  /\ pass.stage \in {"deliver", "boundary"} /\ pass.records # <<>>
  /\ Delivery(Head(pass.records))
  /\ pass' = [pass EXCEPT !.records = Tail(@)]
  /\ UNCHANGED <<clock, changes, layer, log, closed, artifact, waiting>>

EventDone ==
  /\ pass.stage = "deliver" /\ pass.records = <<>>
  /\ pass' = [pass EXCEPT !.stage = "world"]
  /\ UNCHANGED <<clock, changes, layer, ledger, log, ending, waiting>>

\* flushPendingDeliveries.
Boundary ==
  /\ pass.stage = "world" /\ NextEvents = {}
  /\ clock' = pass.to
  /\ layer' = Emptied(layer, pass.to)
  /\ pass' = [pass EXCEPT !.stage = "boundary", !.records = Released(layer, pass.to)]
  /\ UNCHANGED <<changes, ledger, log, ending, waiting>>

\* An advance whose delivery failed is not logged; one whose boundary cannot be
\* persisted is, and fails the run.
AdvanceReturns ==
  /\ pass.stage = "boundary" /\ pass.records = <<>>
  /\ pass' = NoPass
  /\ IF status.failed
       THEN UNCHANGED <<log, status, at>>
       ELSE /\ Logs([op |-> "advance", to |-> pass.to])
            /\ IF pass.await /\ ~status'.failed
                 THEN Puts(pass.by, "looking", pass.to, 0)
                 ELSE UNCHANGED at
  /\ UNCHANGED <<clock, changes, layer, ledger, closed, artifact, quiesced, channel>>

-----------------------------------------------------------------------------
(***************************************************************************)
(* Quiescence.  A report is clamped to the clock under commandMu and lands *)
(* under quiesceMu; a waiter looks under quiesceMu and sleeps outside.     *)
(***************************************************************************)
Lower(x, y) == IF x < y THEN x ELSE y

Report(c, through) ==
  /\ Free /\ at[c].do = "idle"
  /\ Puts(c, "reporting", Lower(through, clock), 0)
  /\ UNCHANGED <<core, ending, quiesced, channel>>

\* Variant: only a report that reaches the clock wakes the waiters.
ReportLands_Late(c) ==
  /\ at[c].do = "reporting"
  /\ quiesced' = IF at[c].goal > quiesced THEN at[c].goal ELSE quiesced
  /\ channel' = IF at[c].goal > quiesced /\ at[c].goal = clock THEN channel + 1 ELSE channel
  /\ Puts(c, "idle", 0, 0)
  /\ UNCHANGED <<core, ending>>

\* Reports land in any order; only one that moves the mark closes the channel.
ReportLands(c) ==
  /\ at[c].do = "reporting"
  /\ IF at[c].goal > quiesced
       THEN quiesced' = at[c].goal /\ channel' = channel + 1
       ELSE UNCHANGED <<quiesced, channel>>
  /\ Puts(c, "idle", 0, 0)
  /\ UNCHANGED <<core, ending>>

Look(c) ==
  /\ at[c].do = "looking"
  /\ IF quiesced >= at[c].goal THEN Puts(c, "idle", 0, 0) ELSE Puts(c, "parked", at[c].goal, channel)
  /\ UNCHANGED <<core, ending, quiesced, channel>>

Wake(c) ==
  /\ at[c].do = "parked" /\ channel > at[c].seen
  /\ Puts(c, "looking", at[c].goal, 0)
  /\ UNCHANGED <<core, ending, quiesced, channel>>

CancelWait(c) ==
  /\ at[c].do = "parked"
  /\ Puts(c, "idle", 0, 0)
  /\ UNCHANGED <<core, ending, quiesced, channel>>

\* The timer may fire beside a report that has just landed.
TimeOut(c) ==
  /\ at[c].do = "parked"
  /\ Puts(c, "late", 0, 0)
  /\ UNCHANGED <<core, ending, quiesced, channel>>

NotQuiesced(c) ==
  /\ at[c].do = "late" /\ Free
  /\ status' = Failed(status)
  /\ Puts(c, "idle", 0, 0)
  /\ UNCHANGED <<core, closed, artifact, quiesced, channel>>

-----------------------------------------------------------------------------
(***************************************************************************)
(* The end of the run.                                                     *)
(***************************************************************************)
Abandon(c) ==
  /\ Free /\ at[c].do = "idle" /\ ~status.finished
  /\ status' = [status EXCEPT !.incomplete = TRUE, !.reproducible = FALSE]
  /\ UNCHANGED <<core, closed, artifact, waiting>>

Stamp(s) == IF s.incomplete THEN "incomplete" ELSE "complete"

\* End: the postamble unless the run has failed, the sink and the ledger are
\* closed, then the journal, which says what is known by then; the artifact is
\* written only when the trace and the ledger could be closed and written.
End(c, framed, sealed, published) ==
  LET framing == IF status.failed \/ framed THEN status ELSE Failed(status)
      closing == IF sealed THEN framing ELSE Failed(framing)
  IN /\ Free /\ at[c].do = "idle" /\ ~status.finished
     /\ status' = [closing EXCEPT !.finished = TRUE]
     /\ closed' = Stamp(framing)
     /\ artifact' = IF published THEN Stamp(closing) ELSE "none"
     /\ UNCHANGED <<core, waiting>>

Next ==
  \/ \E c \in Driver :
       \/ ChangeWorld(c)
       \/ \E p \in Offers : ApplyPerturb(c, p)
       \/ \E i \in DOMAIN layer.active : ClearPerturb(c, layer.active[i].id)
       \/ \E to \in 1 .. Horizon, await \in BOOLEAN : Advance(c, to, await)
       \/ Look(c) \/ Wake(c) \/ CancelWait(c) \/ TimeOut(c) \/ NotQuiesced(c)
       \/ Abandon(c)
       \/ \E framed, sealed, published \in BOOLEAN : End(c, framed, sealed, published)
  \/ \E c \in Consumer : (\E through \in 1 .. Horizon : Report(c, through)) \/ ReportLands(c)
  \/ EmitEvent \/ PerturbStep \/ Perturbed \/ Deliver \/ EventDone \/ Boundary \/ AdvanceReturns

Spec == Init /\ [][Next]_vars

-----------------------------------------------------------------------------
(***************************************************************************)
(* Properties.                                                             *)
(***************************************************************************)
Whereabouts ==
  Ids(ledger) \o Ids(pass.records) \o Ids(layer.pending)
    \o FlattenSeq([i \in DOMAIN layer.active |-> Ids(layer.active[i].held)])

\* Every delivery the layer has numbered is in one place and one only: written
\* down in the ledger, on its way to it, or held back by a perturbation; a
\* cleared or flushed window neither loses nor repeats a record
\* (perturb.go:102, flush.go:8, delivery.go:39).
EveryRecordIsAccounted ==
  /\ Len(Whereabouts) = layer.next
  /\ ToSet(Whereabouts) = 1 .. layer.next

\* An artifact that says complete stands beside a journal that says so and a
\* ledger without a delivery that failed, and a journal that says complete
\* beside such a ledger (finalize.go:49, delivery.go:111).
CompleteIsWhole ==
  /\ artifact = "complete" => closed = "complete"
  /\ closed = "complete" => \A i \in DOMAIN ledger : ledger[i].outcome # "sink_error"

\* Both: every record has exactly one account, and what stands over the
\* accounts does not call whole what is not.
LedgerIsWhole == EveryRecordIsAccounted /\ CompleteIsWhole

Applications(active) ==
  [i \in DOMAIN active |-> <<active[i].id, active[i].kind, active[i].from, active[i].until>>]

\* What replay makes of a command, and of a command log
\* (command_executor.go, replay_execute.go).
ReplayStep(run, c) ==
  CASE c.op = "advance" -> [run EXCEPT !.clock = c.to]
    [] c.op = "change" -> [run EXCEPT !.changes = Append(@, run.clock)]
    [] c.op = "apply" -> [run EXCEPT !.layer = Applied(@, c.choice)]
    [] c.op = "clear" -> [run EXCEPT !.layer = Cleared(@, c.id)]

Opened == [clock |-> 0, changes |-> <<>>, layer |-> EmptyLayer]

Replay(commands) ==
  LET run[n \in 0 .. Len(commands)] ==
        IF n = 0 THEN Opened ELSE ReplayStep(run[n - 1], commands[n])
  IN run[Len(commands)]

Replayed == Replay(log)

\* Between two commands, the log of a run that counts as reproducible leads a
\* replay to the same clock, the same changes of the world at the same times
\* and the same perturbations under the same ids, whose random streams are
\* named after them (commands.go:156, advance.go:35, emission.go:57).
LogExplainsTheRun ==
  LET again == Replayed IN
  Free /\ status.reproducible =>
    /\ again.clock = clock
    /\ again.changes = changes
    /\ Applications(again.layer.active) = Applications(layer.active)
    /\ again.layer.seq = layer.seq

\* A waiter asleep on a channel nobody has closed is one the consumer has not
\* reported far enough for (quiescence.go:81).
NoLostWakeup ==
  \A c \in Caller :
    at[c].do = "parked" /\ at[c].seen = channel => quiesced < at[c].goal

\* A record the perturbation layer has dropped, one that a cleared perturbation
\* held among them, is not delivered (perturb_test.go:139, delivery.go:39).
DroppedIsNotSent == \A i \in DOMAIN ledger : ledger[i].dropped => ledger[i].outcome # "sent"

TypeOK ==
  /\ clock \in 0 .. Horizon /\ changes \in Seq(0 .. Horizon)
  /\ layer.next \in Nat /\ layer.seq \in Nat
  /\ pass.stage \in {"none", "world", "perturb", "deliver", "boundary"}
  /\ status \in [{"failed", "incomplete", "reproducible", "finished"} -> BOOLEAN]
  /\ closed \in {"open", "complete", "incomplete"}
  /\ artifact \in {"none", "complete", "incomplete"}
  /\ quiesced \in 0 .. Horizon /\ channel \in Nat
  /\ \A c \in Caller : at[c].do \in {"idle", "reporting", "looking", "parked", "late"}
=============================================================================
