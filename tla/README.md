# Formal models of Streams Simulator

TLA+ modules of the parts of this repository where a mistake needs several actors and several steps to show, the TLC runs
that check them on small instances, and proofs, checked by the TLA+ proof system, of what matters most for every value of
the constants. Paths below are relative to `src/`; `PW/` stands for `internal/plantwire/internal/`.

Contents: 1 the system; 2 what is modelled, module by module; 3 the runs and their bounds; 4 fairness; 5 the proofs;
6 where documents and code disagree; 7 what is left out; 8 the plan; 9 how to run it.

## 1. The system

Streams Simulator advances seeded worlds and shows them to a consumer. Much of it is a deterministic, single-threaded
computation over data (load a domain, compose a plant, adapt, score), which golden and unit tests reach well. The state that
is hard to test sits where processes, goroutines and operators meet, and where a long sequence of legal calls decides what
an earlier one meant:

```
 operator --control socket--> ControlPort --barrier--> NodeSession <--plant wire (Wire)--> host
                                                          |  writes InterruptLog
 hardware gateway <--wire--> Relay + RelayControl <--wire--> real host
                              ^---- simulated node -------+
 MCP operators --calls--> Director --starts--> Job --commands--> Run --advances--> World
 canvas --HTTP--> Bridge --child processes--> streamsim
 gateway --unix socket--> Device --effectors--> a world as its plant
```

| Component | State it keeps | Operations | What is hard | What makes it correct |
| --- | --- | --- | --- | --- |
| Node session (`PW/app/session.go`, `slices.go`, `commands.go`, `execution.go`, `host_records.go`, `interrupt_side.go`) | ledger of idempotency keys, queue of commands for later, authority epoch, gate, payloads | a slice of the world, a barrier, controls, host records, the due queue | one command passes up to three waiting places; repeats, holds and approvals meet in one barrier | one effect per key; every command answered once; nothing runs under a hold |
| Local control rules (`PW/domain/interrupts*.go`) | holds, latches, approve scopes, pending list, inventory | hold, resume, emergency stop, release, approve mode, approve, deny, deadlines | overlapping scopes, devices born later | a latch goes only by a release |
| Control port (`PW/app/interrupt_port.go`, `PW/uds/control.go`) | two lists of calls, published view | submit, take, reply, publish, time out, stop | a caller that gives up while its call is taken | who is answered sees his control; nobody waits for ever |
| Wire sequence, faults, link (`PW/domain/sequence.go`, `wire_faults.go`, `PW/uds/*.go`) and reference host (`PW/host/*.go`) | next number of each direction, births, readings, commands of a script | send, accept, rebirth, barrier, judge | gap against repeat; a barrier met over records that were struck | a met barrier was read; a loss is noticed and heals |
| Interrupt log and replay (`PW/app/interrupt_log.go`, `PW/domain/interrupts_replay.go`) | the records of a session, the evidence recomputed from them | append, replay | the evidence knows only what records say, the session knows the commands | a log is set aside when it could not be written or its own entries break a rule, and only then |
| Relay (`PW/domain/relay*.go`, `PW/app/relay_loop.go`, `relay_links.go`) | admitted gateway and host, born devices, pairs of sequence numbers, barriers under way | records of three sides, ticks, losses, dial, shutdown | every write can fail in the middle of a step; sides reconnect in any order | barriers cover what they claim; the host never keeps what the relay forgot |
| Relay local control (`PW/domain/relay_interrupts.go`, `relay_stops.go`, `relay_inventory.go`) | gate, payloads, inventory, boots, last authority | gate a command, control, purge, own stops | a gateway that returns on other boards; commands that wait while hosts come and go | nothing passes a hold; a stop goes to the device it names |
| Director worlds, registry, truth (`internal/director/internal/app`, `internal/truth`) | worlds and jobs by id, sealed labels | create, start, destroy, end, reveal, unblind, score | four mutexes, each held for single steps | one active job; labels stay blind; jobs tell the truth |
| Director job (`internal/director/internal/app/job*.go`) | gate, pace, job state, immediate door, fault ids | pause, resume, step, stop, destroy, inject now | operators act between any two steps of the job's goroutine | a step is one chunk; every call returns; a stop ends the job |
| Run (`internal/run/internal/app`) with quiescence and perturbation (`internal/perturb`) | clock, ledger, command log, watermark, held records | advance, deliver, command, report, await, end | a sink that fails half-way; a report between the check and the wait | every record accounted for; the log explains the run; no lost wake-up |
| World core (`internal/world/internal/domain`) | driven states, leases, faults, event queue, integrated reads | advance, invoke, inject, clear | look-ahead of reads; a lease against a later call; churn against emissions | an acknowledged call holds its effect; the past stands |
| Canvas bridge sessions (`internal/canvasbridge/internal/app`) | one session slot, its child process and directory | start, attach, stop, vacate, close | a stop during a launch, a close beside requests | one child; no directory that nobody is to delete |
| Device emulator and binding (`internal/device`, `internal/deviceworld`) | boot, memory of commands, output, lease, fault schedule | command, query, expire | retries, lost answers, reboots, a world that refuses or pretends | one effect per command; off is off; evidence stands |
| Live view, captured files, scoring, audit, lint, suites, reports, CLI, MCP, component library, adapters, sinks, journal | none beyond one call, or append-only | batch computations | data | golden tests |

The plant wire (`contracts/plant-wire/SPEC.md`) ties the first six together: a node sends births, data and at the end of
each slice a barrier `NSYNC`; the host answers `HSYNC` when it has read up to the barrier, and sends commands (`DCMD`) that
the node executes at barriers only. `PROJECT.json` lists every component with its status, the ones not modelled with the
reason, and the hazards of each at their lines.

## 2. The modules

| Module | What it is | Source |
| --- | --- | --- |
| `InterruptRules` | the hold, latch and approve rules as operators on one record | `PW/domain/interrupts*.go` |
| `KeyLedger` | abstract specification: what a node promises of an idempotency key | SPEC section 9, `PW/domain/commands.go` |
| `NodeSession` | the session's goroutine with host and operator; refines `KeyLedger` | `PW/app/` |
| `ControlPort` | connections, lists, timeouts, session and published view | `interrupt_port.go`, `uds/control.go` |
| `Wire` | one session record by record, with struck records and the host's view of the devices | `PW/domain/sequence.go`, `wire_faults.go`, `PW/app/`, `PW/host/` |
| `InterruptLog` | what a session writes of its decisions and the replay that judges it | `interrupt_log.go`, `interrupts_replay.go` |
| `RelayRules` | the relay's state machine as operators on a step record | `PW/domain/relay*.go` |
| `Relay` | the loop over three sides whose links break anywhere; gateway, host and world as processes | `PW/app/relay_*.go`, `PW/host`, `PW/standin` |
| `RelayControl` | the rules of `InterruptRules` inside the relay | `relay_interrupts.go`, `relay_stops.go`, `relay_inventory.go` |
| `Job` | one director job with its operators | `internal/director`, the scenario loop of `internal/run` |
| `Director` | worlds, runs, sealed truth and the job registry under concurrent calls | `internal/director`, `internal/truth` |
| `PerturbRules`, `Run` | the perturbation layer as operators; the run with its callers, ledger, log and watermark | `internal/perturb`, `internal/run` |
| `World` | driven states, leases, responders, faults, the event queue and the integration of reads | `internal/world` |
| `Bridge` | the session slot, its child processes and the closing bridge | `internal/canvasbridge` |
| `Device` | the emulator on a world, with a gateway that retries | `internal/device`, `internal/deviceworld` |
| `*_proofs` | theorems about the module they are named for; `Run_proofs` also about `World` | |
| `MC*` | the values of constants for TLC | |

`MCRun` checks `Run` and `World`, `MCInterrupts` checks `RelayControl` and `InterruptLog`: two machines that share no state
are run as a sum, where the initial state chooses which of them moves.

**NodeSession.** `phase` is the place of the session's goroutine: `advance` (a slice), `await` (the barrier wait, in which
the host sends), `control` and `purge` (the operator's side), `forward` (approved commands), `records` (the batch), `queue`
(commands fallen due), `closed`. A step is one control, one record or one command of a loop, so an invariant is checked
between any two of them. `ledger`, `queued` and `payloads` are the maps and lists of the code, `todo` and `forward` are what
a loop has left. `tally`, `runs`, `ran`, `lastAct` and `approved` are history variables. A receipt is counted, not built.
A safe stop has three shapes, because the code tells them apart: the first the kind declares (`stop`), the same with
arguments (`stop_args`), and a further one (`other_stop`, which `safeStopOf` does not find). The barrier is bounded by a
wall-clock cap in the code; here the host may simply stop sending at any moment.

**ControlPort.** Every method of the port holds its mutex, so each is a step; between two steps a timer may fire, a client
may leave, the session may end. A call times out without leaving the list (as in the code: `dropAbandoned` removes it later).
Where the `select` of `submit` finds both the reply and the timeout ready, both outcomes are in the model. The published
state is a version number.

**Wire.** `up` and `down` are what was written and not read. The stream loses nothing by itself: the faults of the run's
options strike numbers of a plan, one of any kind or two that lose a record. `struck` keeps the sessions whose birth was lost,
`blurred` the devices whose record was garbled. A batch is written in one step, because the host reads record by record whenever it likes.
The node's judgement of a command is `NodeSession`'s subject; here a command has a fate.

**InterruptLog.** The session's rules step again in the replay with the same inputs; what can disagree is the ledger of
evidence (what a command id was sent to, passed at, and restricted by) and the session's queue. A write may fail at any record.
A host may use an id again for another device, as the code lets it: `named` and `misnamed` are history and tell when the ledger,
which knows an id by its last device, has judged an entry of the earlier one.

**RelayRules and Relay.** The code separates pure rules, which return `Moves`, from a loop that applies them; so do the
modules. `Apply` follows `apply` of `relay_links.go` in its order: down, to the world, up, then the links to close; a write
to a link whose other end is gone loses that side inside the step. `gatewayLink` and `hostLink` are `none`, `open` or `gone`
(gone and not yet noticed). The wire to the host is a sequence the host reads one record at a time, so everything may
happen while records are under way; what the host answers is taken by the relay in the step that reads (delaying the read
loses no order). What the relay writes to the gateway takes effect on it at once, and what the gateway sends is taken as it
is sent; a gateway may be gone with up to `MaxUnread` of its records unread. The world sends, waits at barriers and may pass
one by its cap. Here the relay has no local control gate (`r.ints == nil`, a relay started without a control socket). Silence
counters are a free choice at a tick. Two assumptions on the gateway: it does not lose its own births in a gap, and it does
not go on after an `NDEATH`.

**RelayControl.** The same relay with a gate; of the carrying only who is there and what was announced is kept, and that every
write may find the other end gone and lose that side inside the step. The rules read boards and safe stops from the
inventory the gate was last given, so `Rules(listed)` is an instance of `InterruptRules` for each. `field` is what each device
really is (its boot, and whether this session told it), against `relay.boots`, what the relay remembers. Both clocks are left
out: what waits may be found overdue at any tick. A gateway may announce other devices in a rebirth than in its birth; the
history `strays` names the devices that a rebirth left out.

**Job.** `pc` is the place of the job's goroutine, one value per stretch between two acquisitions of `j.mu`; callers are
processes whose calls wait (`waiting`), have been let go (`answered`), inject (`now`) or destroy. Wall time is left out: a
pace wait ends by its timer at any moment. `allowance` is history: how many chunks the last control granted. A world's fault
ids are modelled as the world gives them, because the plan foresees ids and an injection by hand shifts them.

**Director.** Every tool call is a goroutine; each mutex (`Director.mu`, the store's, the run's, the job's) is held for single
steps and `startMu` over several. A world and its run share a number. The job's goroutine only executes and then concludes.

**Run and World.** Every command holds `commandMu` throughout and is one step; only `clock.advance` is taken apart (`pass`),
because reports, waits and failures fall into it. A record is its number, whether it is delivered and whether it is
malformed. `World` has the event queue in the order of its tiebreaks, leases with their fallbacks, responders, pulses and
dropouts, entities born and retired, and the look-ahead that reads pull along. Times are whole steps and a kick is in full
effect from its start. A call is dated at the clock (jobs and the plant wire) or ahead of it (a scenario file), a retirement at any time.
`ahead` and `until` are history: the steps a look-ahead has left past the clock, and until when the KPIs of who has retired were
sampled. What both modules have is named for the world in `World` (`clockNS`, `WorldNext`, `AdvanceWorld`).

**Bridge.** A request is a goroutine that takes `stateMu` or the session's mutex for single steps, and launches, signals and
waits outside of both; the goroutine that closes the bridge takes the same steps beside them. A claim holds `stateMu` from its look
at the old session to the new one (places `vacate`, `claim`) and makes the new directory after it (`offer`). Whoever takes the
remover of a control directory deletes it in a step of its own (`remove`, or `vacate` under `stateMu`), outside of the session's
mutex, so the slot may go on in between. A child is running, interrupted or has exited.

**Device.** The device serves one connection at a time; a line is handled in one step, as in the code. The content of a
command is everything but its id; evidence is told apart by the id it names. The world's answer to an invocation is a
choice among the modes it has. `verdict` is history: the last evidence produced for a content. The gateway is outside of this
repository: it asks again until it has its answer.

Definitions whose comment begins with *Variant:*, or whose name ends in an underscore and what is changed, are deliberate
changes of the definition that follows. No specification uses them; each shows that some property notices such a bug.

## 3. The runs

| Run | Question | States |
| --- | --- | --- |
| `session_ledger` | Do ledger and queue agree, does a key have one effect (refinement of `KeyLedger`), does the session end, under repeats, conflicting contents, epochs, full caps, a paced clock and an unreadable command? | 0.25 M |
| `session_control` | Is every command accounted for, is what the operator forbids never carried out, does an emergency stop stand until its release, while a device of the board is born and retires? | 1.7 M |
| `control_port` | Does who was answered see his control in the published state, and does nobody wait for ever, with clients that give up, full lists, a session that may stall or end and a server that stops? | 0.2 M |
| `job_controls` | Two operators and four calls: one chunk per step, each clear clears its own fault, no immediate command after the door is shut, every call returns and a stop ends the job? | 0.2 M |
| `director_worlds` | Three calls at once on two worlds: one active job, blind labels, jobs that tell the truth, calls that return? | 67 k |
| `device_commands` | One effect per content, off means off, evidence stands, every command answered, under lost answers, reboots, leases and a world that refuses or pretends? | 75 k |
| `relay_gateway` | A hardware relay whose links break anywhere: do barriers cover, is what counts as born held by the host, does the host catch up after the last loss? | 0.37 M |
| `relay_mixed` | A gateway beside a world: do answers reach the side that waits? | 0.86 M |
| `run_delivery` | The run: is every record accounted for and complete really whole, does the command log explain the run, is no wake-up lost? The world: does a lease hold, does the past stand under calls dated ahead, do emission chains go on? | 0.92 M |
| `bridge_sessions` | One child at a time, the directory follows its session, a close stops what it finds, a stop is carried out? | 0.16 M |
| `wire_link` | Is a met barrier read to its end, is no loss silent and is it healed by a rebirth, under one fault of any kind or two that lose records? | 2.6 M |
| `interrupt_gate` | The gate in the relay: does it owe what waits, does nothing pass a hold, do stops go where they say, whatever a rebirth announces? The log of a session: is it set aside when, and only when, it could not be written or an id was used for two devices? | 0.65 M |

All hold. The states of the rules are finite by *bounds*, constants marked so in each module; they are the smallest at which
the interesting case happens.

* Session: two ids, two keys, two devices on one board give a repeat under another id, a conflict under the same key and two
  commands that compete for a cap; caps are 1 or 2, so every list is full in some states; three slices let a command arrive,
  wait one barrier and fall due.
* Control port: three clients, `Backlog` 1 (one waits, one is refused), `MaxCalls` 2, one change by the session.
* Job: two chunks with an injection and a clear around them; four calls are a pause, a step, a resume and a stop by either.
* Director: three calls at once on two worlds meet between any two mutexes; two callers with four calls (0.7 M) also hold.
* Device: two outputs, three contents under two ids, one hang-up, two ticks, one line waiting, schedules of two entries: a retry
  meets the reboot, the passed lease and the lost answer. The world's idempotency window is longer than the run.
* Relay: one device announced of two names, two sessions on each side give every loss and return; `SyncWindow` 3 or 2 overflows
  (the code's 4096 behaves alike: the oldest pair goes), `PendingSyncs` 2 is never exceeded because a side sends one barrier
  per session; one record beside the births, one ask and two records on the wire per session, one record unread of a gateway
  that is gone. The mixed run has one session per side; losses with reconnection are the gateway run's.
* Run: two drivers, a consumer, two events and three logged commands. World: three instants, at any of which a call ahead of the
  clock may be dated, two commands, one id to be born, steps of one as cadence and lifetime. Three commands exceed half a million
  states before the search ends and were not finished.
* Bridge: three requests and two sessions: one is started while another ends.
* Wire: two slices, two reports, one barrier missed; at the numbers 0..8, which is as far as both births of a rebirth and the
  slice behind it, one fault of any kind or two of drop, swap and garble.
* Interrupts: three commands or controls in the relay, four in the log (five also hold, 3.7 M), one authority epoch, boots that
  do not restart (`MaxBoot` 2 ran 0.6 M states without an error and was not finished), one hardware device on two boards and
  one of the world.

Deadlock is checked except in `run_delivery`, `wire_link` and `interrupt_gate`, whose machines really stop: a run ends, a
session ends, inputs are used up. Elsewhere terminal states have an explicit self-loop (`Terminated`, `Stopped`, ...).

## 4. Fairness

* `NodeSession`: weak fairness of the node's own steps and its close. The host and the operator owe nothing; the barrier wait
  ends by its cap, and every loop of the session is finite, which is what `SessionEnds` shows.
* `ControlPort`: weak fairness of each waiting call (a timer fires, a ready `select` proceeds) and of a server that stops. A
  session in its slice may stay there for ever.
* `Job`: weak fairness of the job's goroutine, and of each caller whose call can go on. Nobody has to call.
* `Director`: weak fairness of each call that can go on and of each job that was asked to stop or has come to its end: Go
  schedules a goroutine that can run. A job need not come to its end by itself.
* `Bridge`: weak fairness of the requests and of the closing goroutine; a child that is killed is reaped by its waiter.
* `Device`: weak fairness of serving, weak fairness of a gateway that connects while it wants an answer, strong fairness of its
  retry. The gateway is external; without a retry nothing is promised, and the code promises nothing.
* `Relay`: the host reads what is on its wire, the gateway and the world send the births they owe. Nothing makes a party
  return, data flow, or losses end; `HostCatchesUp` therefore says `<>[]` of the time both are there. The conjuncts are written
  with the condition of the action in the place of `ENABLED`, which is equivalent and which TLC evaluates much faster.
* None for `Run`, `World`, `Wire`, `InterruptLog` and `RelayControl`: their properties are safety.

## 5. The proofs

All theorems hold for every value of the constants that satisfies the named assumptions; TLC evaluates those on every run
whose module extends the declaring one (`CommandAssumption`, `BoundsAssumption`, `ScopesDisjoint`, `LimitsAreNaturals`,
`PlanAssumption`, `PortAssumption`, `RunAssumption`, `DeviceAssumption`, `DirectorAssumption`, `BridgeAssumption`,
`RelayControlAssumption`, `WorldAssumption`). Bounds are constants too, so "every value" includes every number of calls,
commands and sessions.

| Run | Properties that are theorems | Properties TLC alone checks |
| --- | --- | --- |
| `session_ledger` | `QueueMatchesLedger`, `KeepsOneEffect` | `SessionEnds` (liveness) |
| `session_control` | `OperatorIsObeyed`, `EmergencyStopStands`, `EveryCommandAccounted` | |
| `control_port` | `RepliesAreVisible` | `NobodyWaitsForEver` (liveness) |
| `job_controls` | `StepIsOneChunk`, `ClearsItsOwnFault`, `ImmediateBeforeTheEnd` | `ControlsSettle` (liveness) |
| `director_worlds` | `OneActiveJob`, `BlindUntilOver`, `JobTellsTheTruth` | `EveryCallReturns` (liveness) |
| `device_commands` | `OncePerCommand`, `OffIsOff`, `EvidenceIsStable` | `EveryCommandIsAnswered` (liveness) |
| `bridge_sessions` | `OneChild`, `DirectoryFollowsSession`, `CloseStopsWhatItFinds` | `StopIsCarriedOut` (liveness) |
| `interrupt_gate` | `WaitingIsOwed`, `LocalControlStands`, `StopsGoWhereTheySay` | `SetAsideOnlyUnwritten` (folds) |
| `run_delivery` | `LedgerIsWhole`, `LogExplainsTheRun`, `NoLostWakeup`, `PastStands`, `ChainsKeepGoing` | `LeasesHold` |
| `relay_gateway`, `relay_mixed`, `wire_link` | | all of them |

*NodeSession_proofs*, in four parts. *Types:* `TypeCorrect` and `PayloadsKept`. `TypeOK` is not inductive: that an approval
forwards a real command needs the gate's payloads to match the pending list, and that needs two pending commands never to
share an id; so `TypeInv == TypeOK /\ PendingInv`. *Keys:* `QueueAndLedgerAgree`, `RunsAtMostOnce` and the refinement
`ImplementsKeyLedger`. `LedgerInv` joins the agreement of queue and ledger, one effect per key, and that a loop's list is
empty outside of loops. `Agree` states it of any list and any ledger, and the lemmas `AgreeSame`, `AgreeSettles`, `AgreeTail`,
`AgreeAppend` and `AgreeRotate` say how it survives what the code does to the list. *Control:* `TheOperatorIsObeyed` and
`AnEmergencyStopStands`, from `ControlInv`: whatever waits in the queue may be run at once. A control that would forbid it
has purged it in the same barrier before anything runs, and a device that is announced for the first time brings nothing
queued under its board, because a command is queued only after its device was born. *Accounts:* `NothingLostNorAnsweredTwice`,
from `AccountInv`: per id the books balance (`Balanced`), the ids of a waiting command are distinct, and nothing is left to
forward once that loop is over. `UnderKeysOpened`, `UnderKeysClosed`, `ForOperatorSize`, `ApprovalsTail` and `ApprovalsOfPayloads`
say how large the places are that an id waits in; `Takes` says what a step does to books and ledger together.

*Job_proofs.* `ImmediateOnlyBeforeTheEnd`, from `DoorInv`: once the door is shut no caller is inside. `AStepIsOneChunk`, from
`FlowInv`: at each place of the goroutine, what is in flight, granted and completed since the last control add up (`Place`,
`Grants`). `APlannedClearFindsItsFault`, from `LedgerInv`: the job's table of fault ids is the world's, whose numbering counts
planned injections (`Injections`) and those by hand in the order they reached it. `JobTypeCorrect` joins the parts.

*ControlPort_proofs.* `AnsweredIsPublished`, from `ShownInv`: a call that was replied to carries a version not above the published.

*Run_proofs*, in two parts. *The run:* `NobodySleepsThrough`, from `WakingInv` (a channel a waiter has seen and nobody has
closed is the present one, and then the watermark is below his goal) beside `PassInv` (the advance under way stays ahead of
the clock). `CompleteMeansWhole`, from `EndInv`: status, closing record and artifact only ever lose completeness.
`TheLogExplainsTheRun`, from `ExplainInv`: while the run counts as reproducible, its layer and the layer of the replayed log
are `Twins`, that is they have the same applications in the same order whatever the run's own holds back. `Replay` is a
recursive function; that a longer log replays to one more step (`ReplayOfAppend`) is an induction over its length, done with
the least counterexample (`LeastNumber`).

`TheLedgerIsWhole` joins `CompleteMeansWhole` with `AccountsAreWhereabouts`, that no delivery number is in two places or in
none. It rests on `AccountInv`: for *each* number, the times it stands in the ledger, among the records of the pass, in what the
applications hold and in what is discarded but not yet flushed (`Accounts`) add up to one if the layer has given it out and to
nothing if it has not. A count, and not the sets of the places, is what a step preserves: a transform moves a record from one
place to another (`AccountsStay`) or opens an account for each number it takes (`AccountsMove`). How often something stands in
a list is `Times`, and `Times*` and `Flatten*` say what becomes of it when lists are appended to, cut or put end to end. What
`Mapped` and `Pushed` do to any number of records is the induction `Carries`: each record goes on or is held, and the copies
have numbers of their own (`TreatedCarries`, `PoppedMoves`). `Applied`, `Cleared`, `Transformed` and `Emptied` then have a
lemma each (`AppliedHolds`, ...). Inductions over the length of a list are done by `Upwards` and `Recursion`, which speak of
a set of numbers and of a function where the library's theorems take an operator.

*The world it drives*, which takes the lemmas about lists from the run: `ChannelsKeepGoing`, for calls of any date, from
`QueueInv`, whose part `DueInv` counts the emissions of an entity in the queue: a live one has one and no other entity gets
one. A pop takes the foremost item (`RestDue`), an emission and a birth put one in (`OneJoins`), and nothing else that a
command schedules is an emission (`NothingJoins`). `ThePastIsSettled`, also for calls of any date: no step changes what the
watched state was before the clock. What a command schedules starts at the clock at the earliest, and a fallback that is
withdrawn has not acted yet (`StartedKept`); an onset and a clear are not before the clock (`InjectedActing`,
`ClearedActing`); `HistoryKept` joins them. `WhatWasTakenStands` adds that the world has taken each step and sample once and
as it would take them now, in whatever order reads pull linked entities along: `Stands` says it of one entity's list against
its history, `StandsGrows` of a list that is taken further, `StandsKept` of a history that grows, and `Taken` names what a
command does to the lists. Calls may be dated as far ahead as the caller likes: `LookedStands` shows that a look past the clock
leaves the entity it is about as it was, and what it leaves to an entity linked to it is in `ahead` as far as it lies past the
clock; those steps are the property's only exception (section 6). `Closed` says until when the KPIs of who has retired were
sampled, which a retirement behind the clock does not take back.

*Device_proofs.* `OneEffectPerCommand`, from `OnceInv`: a content that had its effect expects a boot that is over, or is
remembered; a reboot takes a number above every boot before, because it takes the count of accepted commands. `WhatIsOffIsOff`,
from `Off`: an unconfirmed stop leaves the output reported as driven. `EvidenceStands`, from `VerdictInv`: a boot remembers one
entry per key (`Memory`), memory only grows within a boot (`Advances`), and the last report of a content is the one
remembered (`Answers`).

*Director_proofs.* `TypeInv`, then `OverInv` (a world is marked as ended, and deleted, over a finished run only) gives
`DirectorStaysBlind`; `StartInv` (a start under way holds `startMu`, and past its refusals no job is active) gives
`DirectorRunsOneJob`; `TruthInv` with `Told` gives `DirectorJobIsTruthful`: of a job that
reports `completed` or `stopped`, the artifact has the same termination and is complete exactly if nobody abandoned the run,
which only a destroy that did not find the job does (section 6).

*Bridge_proofs.* `AtMostOneChild` from `SlotInv`. `DirectoriesFollow` from `DirectoryInv`: each directory is its session's while
that has the slot, or in the hands of the request that made it or of one that has taken the remover (`Owned`), and only of a
session that is over, or by the closing bridge, is a remover taken (`RemoversAreRight`); so it holds although the deletion comes
after the mutex and perhaps after the slot has gone on. `CloseLeavesNothingElse` from `StopIsInHand`: each child that a closing
bridge found is stopped, or in the hands of a request that stops it.

*RelayControl_proofs.* A handler's writes may lose the gateway or the host in the middle of its step; `Degrades` says what
that takes away and is proved once, so that each handler is argued over what it asked for. `Sane` (types, what is owed, and
the authority the relay tells) carries `TheHostIsOwedWhatWaits` and `NothingPassesAHold`; `BootInv` (what the relay remembers of
a device is what its present session announced) carries `StopsAreRight`, for any rebirths: what is remembered of a device that a
rebirth left out is the boot it had then (`strays`), the only boot of a session before that a stop may name (section 6). An order
that the write finds reaching nobody counts as ordered, as in the reply of the code.

Out of reach here: liveness and `ENABLED`; what the folds of the community modules and a recursive search compute for every
input (`SetAsideOnlyUnwritten`, and `Relay`, whose `Apply` and `SearchFirst` are folds).
Not proved: `LeaseHolds` of `World`, which `LeasesHold` checks (sums over a chain of renewals), `MetBarrierIsRead` and `LossesHeal` of `Wire`.

## 6. Where documents and code disagree

Each configuration of this section checks sentences of a document and finds them violated (`tlc -config X.cfg MC...`, with
`-continue` where it names two). They belong to no run of `PROJECT.json`; a configuration goes when code and document agree.

| Configuration (module) | Property | The document says | The code does |
| --- | --- | --- | --- |
| `NodeSession_queued` (`MCNodeSession`) | `QueuedAtMostOnce` | `contracts/plant-wire/SPEC.md:179`: a command receives at most one `queued` | a command approved before its start time gets `queued` twice |
| `NodeSession_keys` (`MCNodeSession`) | `KeysAreKept` | `SPEC.md:199`: a node keeps, per key, the content digest, the terminal receipt and the result | a queued command refused when it falls due loses its key |
| `Job_pause` (`MCJob`) | `PauseReturnsAtStandstill` | `documentation/reference/mcp.md:60`: a pause returns once the simulated clock stands still; pausing a paused job is harmless | a second pause returns while the chunk in flight still moves the clock |
| `Relay_order` (`MCRelay`) | `WrittenInOrder`, `NoGhosts` | records are written in the order they are numbered; the host gets a `DDEATH link_down` for each device of a lost gateway | a rebirth that cannot be written loses the gateway in the middle of a step, and the deaths overtake a record numbered before; a gateway lost between its birth and its devices' leaves them alive at the host |
| `Run_dropped` (`MCRun`) | `DroppedIsNotSent` | `internal/perturb/internal/domain/perturb_test.go:139`: what a perturbation discards is not delivered | `internal/run/internal/app/delivery.go:39` writes a malformed record before it asks whether the record was dropped |
| `Bridge_close` (`MCBridge`) | `ClosedLeavesNoSession` | `docs/design/PHYSICAL_DEVICES.md:399`, `:474`: the bridge stops a living session when it closes | a session claimed after the close has looked, or in a launch, outlives it |
| `Device_replay` (`MCDevice`) | `OnlyTheWorldEnergizes` | `internal/deviceworld/doc.go:4-6`: an output is energized because the world applied an effect | after a reboot the world answers a known command id from its cache; the device reports the output as driven without an effect |
| `Device_lease` (`MCDevice`) | `LeaseIsCarriedOut` | `documentation/reference/cli.md:308-309`: lease expiry invokes the safe-stop path | the device has one lease: a command for another output takes it over, and the first output stays driven |
| `Wire_evidence` (`MCWire`) | `EvidenceIsNewer` | `SPEC.md:174`: only a good sample newer than the successful result counts | the birth of a rebirth repeats the cached value as good, with a new time, and counts (`PW/app/devices.go:94`, `births.go:59`, `PW/host/commands.go:81`) |
| | `GapsEndInARebirth` | `SPEC.md:132-133`, `:139-140`: after a gap the host sends a rebirth request, and the node answers with births | the host asks once (`host/receive.go` `asked`) and, when the birth that answers is itself struck, never again: it waits for a rebirth that nobody will send |
| `Director_ends` (`MCDirector`) | `UnblindedIsNotScored` | `MCP_SURFACE.md:181`, `TECHNICAL_DESIGN.md:555`: unblinding excludes a run from every scorecard | a score that has read the mark before goes on |
| | `NoPanic` | nothing recovers a panic | `openJob` uses `RunOf`'s nil run when the world is destroyed between publication and look-up |
| | `CompletedIsWhole` | `MCP_SURFACE.md:129`: what is not whole is marked incomplete, never silently | a destroy that looked before the job was registered abandons the run under it, and the job reports `completed` over an incomplete artifact |
| `Interrupts_stops` (`MCInterrupts`) | `StopsNameThisSession` | `PHYSICAL_DEVICES.md:1064-1065`: an entry goes with the device's death, or when the gateway is lost or readmitted | `clearGateway` forgets the boots of the present inventory only; a device left out of a rebirth keeps its old boot, and a later stop names that |
| | `StoppedWasOrdered` | `PHYSICAL_DEVICES.md:1048-1049`: what could not be ordered is never in `stopped` | the write to the gateway fails in the step whose reply lists the device |
| | `WrittenIsKept` | `PHYSICAL_DEVICES.md:1110-1112`: replay accepts a purge of a command id that passed or was forwarded, on the device it was sent to, when a restriction that covers the device came after | an id used again for another device makes the purge of the first break the evidence of the second (`interrupts_replay.go:90`), and a log that was written in full is set aside |
| `World_dates` (`MCRun`) | `EveryLeaseHolds` | `DOMAIN_SPEC_V0_2.md:375-377`: an acknowledged call holds its effect for the seconds of its argument | calls of a scenario file dated out of order withdraw each other's fallback |
| | `EveryStepStands` | `DOMAIN_SPEC_V0_2.md:343-345`: a look-ahead never commits integration past the clock | with linked inputs it does: `lookAhead` copies the entity only |

Seen while modelling and not given a configuration: `safeStopOf` finds only the first safe stop of a kind, so a second one waits
for approval (SPEC section 9 says a declared safe stop is never queued); a repeat of a waiting command is answered `queued` again,
where `documentation/reference/cli.md` says `duplicate`; effector calls dated behind the clock are not refused, though faults are
(`SCENARIO_FILE.md:59`); a responder may clear a fault that has not begun (`governance/DEFERRED.md:548`); records held at the
end of a run get no ledger row (`TECHNICAL_DESIGN.md:274`).

Where a property of a run would be false in these cases it names them and demands the rest in full: `JobTellsTheTruth` (a run
abandoned by a destroy that did not find the job), `LossesHeal` (a birth that was struck; a garbled record, which keeps its
number), `StopsGoWhereTheySay` (a device a rebirth left out, an order that reaches nobody), `SetAsideOnlyUnwritten` (an id used
for two devices), `LeasesHold` (calls dated out of order), `PastStands` (steps left to linked entities), `CloseStopsWhatItFinds`.
The configurations above check the same without the exception.

## 7. What is left out

* Node session: `DQUERY`, `STATE` and `NCMD` within a session, a refused control (none changes its state), the text of receipts.
* Control port: parsing of a line. The server's limit of eight connections is below the backlog of sixteen, so over the real
  socket the lists never fill; the model keeps both as constants and reaches both limits.
* Wire: the largest sequence number, the flood limit of 4096, the quarantine cap, chunking of evidence. A refusal is a choice.
* Interrupt log: the text of records and the digest over them.
* Relay: notes and the field trace (also the disconnect when a trace cannot be written), bindings, statistics, elapsed time. A
  host that accepts a connection and never answers leaves the relay waiting, as in the code.
* Relay local control: the answers to the relay's own stops and the table of 4096 they are known by; both clocks; a gateway's
  unread records, covered by ends that come later; epochs never fall within one session of a host.
* Job: the rate and the pacer's anchor. A tool that reaches the world beside the job can make a command of the plan fail, which
  it may do here at any time. Director: catalog, operator views, Explore, what happens inside a world.
* Device: loading of capabilities, malformed lines, the server's own stop; refusals are not told apart; a lease is looked at when
  a line or a connection arrives, as in the code.
* Run: an adapter that omits an event is folded into a delivery; digests and payloads are data. A storm
  gives each record one more, the code `multiplier - 1`; the records it adds differ in nothing. `acceptObservedOrder` cannot
  fail, because `serializeObservedTime` has made observed times strictly increasing.
* World: calls dated behind the clock, which the code does not refuse and which would reach behind what was taken in; the physics of a step and of a gradual effect, severity, noise and observation faults (freeze, stuck), shadow kicks and
  confirmation channels, links with reach, retention of history, and the idempotency cache, which changes nothing.
* Bridge: following the files of a session (`follow.go`) and the calls it forwards to a director.
* Scoring, truth solving, component library, adapters, sinks, journal, reports and surfaces: batch computations or pure input
  and output without interleaving; their tests are the right tool. `PROJECT.json` lists each with its reason.

## 8. Plan

Done: every module of section 2, and the theorems of section 5.

Next: `Wire` (`MetBarrierIsRead`: the host has read past every number a met barrier covers, an invariant over `up` and the
host's next number) and `LeaseHolds` of `World` (what the kicks of one chain of renewals add up to) as theorems; the calls
the bridge forwards and the files it follows; the rest of the world core (gradual effects, shadow kicks, links with reach);
the relay's recording; the live view as a reducer over a session's traffic.

## 9. How to run

```
tlc -workers 2 -config NodeSession_ledger.cfg MCNodeSession
tlc -workers 2 -config Relay_gateway.cfg MCRelay
tlapm NodeSession_proofs.tla
```

The runs, their modules and configurations are in `PROJECT.json`, with the map from definitions to source lines and the list
of hazards the properties are aimed at.
