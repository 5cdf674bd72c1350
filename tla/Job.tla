--------------------------------- MODULE Job ---------------------------------
(***************************************************************************)
(* The director's job: one planned run in a goroutine of its own, and the   *)
(* operators who pause, step, resume, stop or destroy it, or inject a fault *)
(* or call an effector by hand, each from a goroutine of his own            *)
(* (internal/director/internal/app/job*.go, runner/runner.go and the        *)
(* scenario loop of internal/run/internal/app/scenario_hooks.go).           *)
(*                                                                          *)
(* What holds j.mu is one step; what the job's goroutine does between two   *)
(* of those steps interleaves with the operators.  The run's own commandMu  *)
(* is held while pc is "running".  Wall time is left out: a wait for the    *)
(* pace ends by its timer at any moment, or when its context is cancelled,  *)
(* so the rate and the pacer's anchor do not appear.                        *)
(***************************************************************************)
EXTENDS Naturals, Sequences, FiniteSets

CONSTANTS
    Plan,        \* the commands of the planned scenario
    Caller,      \* operators that may call at the same time
    MaxCalls     \* calls in all (bound)

(* fault: the planned fault an injection or a clear is of, by its place in  *)
(* the order of injection.                                                  *)
PlanCommand == [op: {"advance", "inject", "clear", "other"}, fault: Nat]

(* The injections among the first n commands of the plan.                   *)
Injections(n) == {i \in 1..n : Plan[i].op = "inject"}

(* A fault is numbered as it is injected, and is cleared after that: a plan *)
(* puts what begins at an instant before what ends at it.                   *)
ASSUME PlanAssumption ==
    /\ Plan \in Seq(PlanCommand) /\ MaxCalls \in Nat
    /\ \A i \in 1..Len(Plan) :
          /\ Plan[i].op = "inject" => Plan[i].fault = Cardinality(Injections(i))
          /\ Plan[i].op = "clear" => \E j \in Injections(i) : Plan[j].fault = Plan[i].fault

VARIABLES
    pc,          \* where the job's goroutine is
    done,        \* commands of the plan that were executed
    outcome,     \* how the scenario ended: "completed", "stopped" or "failed"
    state,       \* JobStatus.State
    advances,    \* job.advances
    paused, stepping,   \* gate.paused, gate.stepping
    stopping,    \* job.stopRequested, and waitCtx cancelled
    woken,       \* the wake channel the goroutine waits on is closed
    cut,         \* the pace context it waits with was cancelled by a pause
    shutdown,    \* job.ctx is cancelled by the director's shutdown
    closed,      \* immediateGate.closed
    caller,      \* per operator, what his call is doing
    calls,       \* how much of the bound MaxCalls is used
    faults,      \* the run's faults by id: the planned fault, 0 by hand
    injected,    \* faultLedger.injected
    given,       \* faultLedger.given: the id a planned fault was moved to
    target,      \* the fault id in the arguments of the clear to come
    cleared,     \* the planned clears executed, with the id they cleared
    allowance    \* advances that may still complete before the next control

gate == <<paused, stepping, stopping, woken, cut>>
ledger == <<faults, injected, given, target, cleared>>
vars == <<pc, done, outcome, state, advances, paused, stepping, stopping, woken, cut, shutdown,
          closed, caller, calls, faults, injected, given, target, cleared, allowance>>

PlannedFault == {Plan[i].fault : i \in Injections(Len(Plan))}

(* While the job runs freely any number of advances may complete: more than *)
(* the plan has, and more than any control grants.                          *)
Unlimited == Len(Plan) + 3

FlowType ==
    /\ pc \in {"boundary", "gate", "held", "ask", "pace", "pacing", "settle", "execute", "running",
               "note", "close", "end", "over"}
    /\ done \in 0..Len(Plan)
    /\ outcome \in {"none", "completed", "stopped", "failed"}
    /\ state \in {"running", "paused", "stopping", "completed", "stopped", "failed"}
    /\ advances \in 0..Len(Plan)
    /\ paused \in BOOLEAN /\ stepping \in BOOLEAN /\ stopping \in BOOLEAN
    /\ woken \in BOOLEAN /\ cut \in BOOLEAN /\ shutdown \in BOOLEAN /\ closed \in BOOLEAN
    /\ allowance \in Nat

CallerType ==
    /\ caller \in [Caller -> {"idle", "waiting", "answered", "now", "destroying"}]
    /\ calls \in 0..MaxCalls

LedgerType ==
    /\ faults \in Seq({0} \cup PlannedFault)
    /\ injected \in Nat /\ given \in [PlannedFault -> Nat] /\ target \in Nat
    /\ cleared \subseteq PlannedFault \X Nat

TypeOK == FlowType /\ CallerType /\ LedgerType

Init ==
    /\ pc = "boundary" /\ done = 0 /\ outcome = "none"
    /\ state = "running" /\ advances = 0
    /\ paused = FALSE /\ stepping = FALSE /\ stopping = FALSE
    /\ woken = FALSE /\ cut = FALSE /\ shutdown = FALSE /\ closed = FALSE
    /\ caller = [c \in Caller |-> "idle"] /\ calls = 0
    /\ faults = <<>> /\ injected = 0 /\ target = 0
    /\ given = [f \in PlannedFault |-> 0]
    /\ cleared = {}
    /\ allowance = Unlimited

Active == state \in {"running", "paused", "stopping"}

TakesCommands == state \in {"running", "paused"}

MustStop == stopping /\ advances > 0

Command == Plan[done + 1]

(* Variant: a planned clear names the id the plan foresaw.                  *)
Retarget_Planned(f) == f

(* A planned fault is foreseen under its place in the order of injection;   *)
(* one injected by hand before it moves it to a later id.                   *)
Retarget(f) == IF given[f] = 0 THEN f ELSE given[f]

-----------------------------------------------------------------------------
(* The job's goroutine                                                      *)

Boundary ==
    /\ pc = "boundary"
    /\ IF done = Len(Plan)
       THEN pc' = "close" /\ outcome' = "completed" /\ UNCHANGED target
       ELSE IF shutdown
       THEN pc' = "close" /\ outcome' = "failed" /\ UNCHANGED target
       ELSE /\ pc' = "gate"
            /\ target' = IF Command.op = "clear" THEN Retarget(Command.fault) ELSE target
            /\ UNCHANGED outcome
    /\ UNCHANGED <<done, state, advances, gate, shutdown, closed, caller, calls, faults, injected,
                   given, cleared, allowance>>

(* holdState: a goroutine that is held tells the calls that wait for it.    *)
Gate ==
    /\ pc = "gate"
    /\ IF paused /\ ~stepping /\ ~stopping
       THEN /\ pc' = "held" /\ woken' = FALSE
            /\ caller' = [c \in Caller |-> IF caller[c] = "waiting" THEN "answered" ELSE caller[c]]
       ELSE pc' = "ask" /\ UNCHANGED <<woken, caller>>
    /\ UNCHANGED <<done, outcome, state, advances, paused, stepping, stopping, cut, shutdown, closed,
                   calls, ledger, allowance>>

Wake ==
    /\ pc = "held"
    /\ \/ woken /\ pc' = "gate"
       \/ shutdown /\ pc' = "ask"
    /\ UNCHANGED <<done, outcome, state, advances, gate, shutdown, closed, caller, calls, ledger,
                   allowance>>

(* Before a command: stop, execute it, or wait for the pace first.          *)
Ask ==
    /\ pc = "ask"
    /\ IF MustStop
       THEN pc' = "close" /\ outcome' = "stopped"
       ELSE /\ pc' = IF Command.op = "advance" THEN "pace" ELSE "execute"
            /\ UNCHANGED outcome
    /\ UNCHANGED <<done, state, advances, gate, shutdown, closed, caller, calls, ledger, allowance>>

(* paceContext: a step is not paced.                                        *)
Pace ==
    /\ pc = "pace"
    /\ pc' = IF stepping THEN "settle" ELSE "pacing"
    /\ cut' = FALSE
    /\ UNCHANGED <<done, outcome, state, advances, paused, stepping, stopping, woken, shutdown,
                   closed, caller, calls, ledger, allowance>>

Elapse ==
    /\ pc = "pacing" /\ pc' = "settle"
    /\ UNCHANGED <<done, outcome, state, advances, gate, shutdown, closed, caller, calls, ledger,
                   allowance>>

(* The context of the wait is done: a pause sends the goroutine back to the *)
(* gate, a stop on to the next question, a shutdown fails the job.          *)
Interrupted ==
    /\ pc = "pacing" /\ (cut \/ stopping \/ shutdown)
    /\ pc' = IF cut THEN "gate" ELSE IF stopping THEN "settle" ELSE "close"
    /\ outcome' = IF cut \/ stopping THEN outcome ELSE "failed"
    /\ UNCHANGED <<done, state, advances, gate, shutdown, closed, caller, calls, ledger, allowance>>

Settle ==
    /\ pc = "settle"
    /\ IF MustStop THEN pc' = "close" /\ outcome' = "stopped"
                   ELSE pc' = "execute" /\ UNCHANGED outcome
    /\ UNCHANGED <<done, state, advances, gate, shutdown, closed, caller, calls, ledger, allowance>>

Execute ==
    /\ pc = "execute"
    /\ IF shutdown THEN pc' = "close" /\ outcome' = "failed"
                   ELSE pc' = "running" /\ UNCHANGED outcome
    /\ UNCHANGED <<done, state, advances, gate, shutdown, closed, caller, calls, ledger, allowance>>

(* The run executes the command, or fails it, which fails the job.          *)
Running ==
    /\ pc = "running"
    /\ \/ /\ pc' = "note"
          /\ faults' = IF Command.op = "inject" THEN Append(faults, Command.fault) ELSE faults
          /\ cleared' = IF Command.op = "clear" THEN cleared \cup {<<Command.fault, target>>} ELSE cleared
          /\ UNCHANGED outcome
       \/ pc' = "close" /\ outcome' = "failed" /\ UNCHANGED <<faults, cleared>>
    /\ UNCHANGED <<done, state, advances, gate, shutdown, closed, caller, calls, injected, given,
                   target, allowance>>

(* Variant: the step goes on until it is told to pause.                     *)
AfterAdvance_StillStepping ==
    /\ advances' = advances + 1
    /\ allowance' = IF allowance = Unlimited THEN Unlimited ELSE allowance - 1
    /\ UNCHANGED <<stepping, injected, given>>

(* noteAdvance; any advance ends the step in flight.                        *)
AfterAdvance ==
    /\ advances' = advances + 1
    /\ stepping' = FALSE
    /\ allowance' = IF allowance = Unlimited THEN Unlimited ELSE allowance - 1
    /\ UNCHANGED <<injected, given>>

(* The id the run gave to the injection that just executed: nothing but     *)
(* injections by hand can have followed it.                                 *)
IdOf(f) == CHOOSE id \in 1..Len(faults) : faults[id] = f

(* faultLedger.record.                                                      *)
AfterInjection ==
    LET f == Command.fault
    IN  /\ injected' = injected + 1
        /\ given' = IF IdOf(f) # injected + 1 THEN [given EXCEPT ![f] = IdOf(f)] ELSE given
        /\ UNCHANGED <<advances, stepping, allowance>>

After ==
    /\ pc = "note" /\ pc' = "boundary" /\ done' = done + 1
    /\ CASE Command.op = "advance" -> AfterAdvance
         [] Command.op = "inject" -> AfterInjection
         [] OTHER -> UNCHANGED <<advances, stepping, allowance, injected, given>>
    /\ UNCHANGED <<outcome, state, paused, stopping, woken, cut, shutdown, closed, caller, calls,
                   faults, target, cleared>>

(* Variant: the gate is closed without its lock.                            *)
CloseImmediate_AtOnce ==
    /\ pc = "close" /\ pc' = "end" /\ closed' = TRUE
    /\ UNCHANGED <<done, outcome, state, advances, gate, shutdown, caller, calls, ledger, allowance>>

CloseImmediate ==
    /\ pc = "close" /\ pc' = "end" /\ closed' = TRUE
    /\ \A c \in Caller : caller[c] # "now"
    /\ UNCHANGED <<done, outcome, state, advances, gate, shutdown, caller, calls, ledger, allowance>>

(* The run is ended and its artefact written, which may fail; then the      *)
(* state is final and the job's channels are closed.                        *)
EndJob ==
    /\ pc = "end" /\ pc' = "over"
    /\ state' \in {outcome, "failed"}
    /\ UNCHANGED <<done, outcome, advances, gate, shutdown, closed, caller, calls, ledger, allowance>>

-----------------------------------------------------------------------------
(* The operators.  A call that is refused, or changes nothing, is left out. *)

Calls(c, next) ==
    /\ caller[c] = "idle" /\ calls < MaxCalls
    /\ calls' = calls + 1
    /\ caller' = [caller EXCEPT ![c] = next]
    /\ UNCHANGED <<pc, done, outcome, advances, shutdown, closed>>

(* Whether a chunk may still be on its way through the gate.                *)
InFlight == pc \in {"ask", "pace", "pacing", "settle", "execute", "running", "note"}

(* A job that is paused already is waited for only while it takes a step.   *)
PauseAgain(c) ==
    /\ state = "paused"
    /\ Calls(c, IF stepping THEN "waiting" ELSE "answered")
    /\ UNCHANGED <<state, gate, ledger, allowance>>

Pause(c) ==
    /\ state = "running" /\ state' = "paused"
    /\ Calls(c, "waiting")
    /\ paused' = TRUE
    /\ cut' = (cut \/ ~shutdown)
    /\ allowance' = IF InFlight THEN 1 ELSE 0
    /\ UNCHANGED <<stepping, stopping, woken, ledger>>

Resume(c) ==
    /\ state = "paused" /\ state' = "running"
    /\ Calls(c, "idle")
    /\ paused' = FALSE /\ stepping' = FALSE /\ woken' = TRUE
    /\ allowance' = Unlimited
    /\ UNCHANGED <<stopping, cut, ledger>>

Step(c) ==
    /\ state = "paused" /\ ~stepping
    /\ Calls(c, "waiting")
    /\ stepping' = TRUE /\ woken' = TRUE
    /\ allowance' = allowance + 1
    /\ UNCHANGED <<state, paused, stopping, cut, ledger>>

(* requestStop: the chunk in flight, or the first one, may still complete.  *)
RequestStop ==
    /\ state' = "stopping" /\ stopping' = TRUE
    /\ paused' = FALSE /\ stepping' = FALSE /\ woken' = TRUE
    /\ allowance' = 1
    /\ UNCHANGED <<cut, ledger>>

Stop(c) == TakesCommands /\ Calls(c, "idle") /\ RequestStop

(* DestroyWorld stops the job and waits for its end.                        *)
Destroy(c) ==
    /\ Calls(c, "destroying")
    /\ IF TakesCommands THEN RequestStop ELSE UNCHANGED <<state, gate, ledger, allowance>>

(* admitImmediate, under immediate.mu, which is held until it is applied.   *)
Admit(c) ==
    /\ TakesCommands /\ ~closed
    /\ \A d \in Caller : caller[d] # "now"
    /\ Calls(c, "now")
    /\ UNCHANGED <<state, gate, ledger, allowance>>

(* The run executes it between two commands of the plan: a fault gets the   *)
(* next id, an effector call none.                                          *)
ApplyNow(c) ==
    /\ caller[c] = "now" /\ pc # "running"
    /\ caller' = [caller EXCEPT ![c] = "idle"]
    /\ faults' \in {faults, Append(faults, 0)}
    /\ UNCHANGED <<pc, done, outcome, state, advances, gate, shutdown, closed, calls, injected,
                   given, target, cleared, allowance>>

(* Variant: only the parked job answers a call.                             *)
Return_Parked(c) ==
    /\ \/ caller[c] = "answered"
       \/ caller[c] = "destroying" /\ pc = "over"
    /\ caller' = [caller EXCEPT ![c] = "idle"]
    /\ UNCHANGED <<pc, done, outcome, state, advances, gate, shutdown, closed, calls, ledger, allowance>>

(* awaitParked: the job is parked, has ended, or is being shut down.        *)
Return(c) ==
    /\ \/ caller[c] = "answered"
       \/ caller[c] = "waiting" /\ (pc = "over" \/ shutdown)
       \/ caller[c] = "destroying" /\ pc = "over"
    /\ caller' = [caller EXCEPT ![c] = "idle"]
    /\ UNCHANGED <<pc, done, outcome, state, advances, gate, shutdown, closed, calls, ledger, allowance>>

Shutdown ==
    /\ ~shutdown /\ shutdown' = TRUE
    /\ UNCHANGED <<pc, done, outcome, state, advances, gate, closed, caller, calls, ledger, allowance>>

-----------------------------------------------------------------------------
JobStep ==
    \/ Boundary \/ Gate \/ Wake \/ Ask \/ Pace \/ Elapse \/ Interrupted \/ Settle
    \/ Execute \/ Running \/ After \/ CloseImmediate \/ EndJob

Operator(c) ==
    \/ Pause(c) \/ PauseAgain(c) \/ Resume(c) \/ Step(c) \/ Stop(c) \/ Destroy(c) \/ Admit(c)

Terminated == pc = "over" /\ (\A c \in Caller : caller[c] = "idle") /\ UNCHANGED vars

Next ==
    \/ JobStep \/ Shutdown \/ Terminated
    \/ \E c \in Caller : Operator(c) \/ ApplyNow(c) \/ Return(c)

(* The goroutine is scheduled, a wait for the pace is finite, and a call    *)
(* that can go on does; nobody has to call anything.                        *)
Fairness ==
    /\ WF_vars(JobStep)
    /\ \A c \in Caller : WF_vars(ApplyNow(c)) /\ WF_vars(Return(c))

Spec == Init /\ [][Next]_vars /\ Fairness

-----------------------------------------------------------------------------
(* Properties                                                               *)

(* Between a control and the next no more chunks complete than it grants: a *)
(* pause and a stop let the one in flight (a stop also the first) complete, *)
(* a step one more, and a job that is parked has used up what it was        *)
(* granted but for one chunk: a step that is asked for while the chunk of a *)
(* pause is in flight is over with that chunk (job_hooks.go noteAdvance).   *)
StepIsOneChunk ==
    [][/\ advances' # advances => allowance > 0
       /\ pc # "held" /\ pc' = "held" => allowance <= 1]_vars

(* A clear of the plan clears the fault the plan injected, however many     *)
(* faults were injected by hand before, between and after, and so took the  *)
(* ids the plan foresaw.                                                    *)
ClearsItsOwnFault ==
    \A c \in cleared : c[2] \in 1..Len(faults) /\ faults[c[2]] = c[1]

(* An immediate command that was admitted is applied and recorded before    *)
(* the run is ended: none reaches a run whose artefact is being written.    *)
ImmediateBeforeTheEnd == \A c \in Caller : caller[c] = "now" => pc \notin {"end", "over"}

(* A pause, a step and a destroy return, whether the job parks, is resumed  *)
(* by another operator first, ends or is shut down meanwhile.               *)
EveryCallReturns == \A c \in Caller : caller[c] \in {"waiting", "destroying"} ~> caller[c] = "idle"

(* A job that was told to stop ends, also when it is held, stepping, pacing *)
(* or has not advanced yet; so does one whose director shuts down.          *)
StopEndsTheJob == stopping \/ shutdown ~> ~Active

(* Both: whoever controls a job gets there, the caller that waits for it and *)
(* the operator that wants it over (job_control.go:140, job.go:54).         *)
ControlsSettle == EveryCallReturns /\ StopEndsTheJob

-----------------------------------------------------------------------------
(* documentation/reference/mcp.md:60: a pause "returns once the job's       *)
(* simulated clock stands still (state paused); pausing a paused job is     *)
(* harmless".                                                               *)
PauseReturnsAtStandstill ==
    [][\A c \in Caller : caller[c] = "answered" /\ caller'[c] = "idle" /\ state = "paused"
          => pc # "running" \/ Command.op # "advance"]_vars
=============================================================================
