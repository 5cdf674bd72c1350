------------------------------ MODULE Director ------------------------------
(***************************************************************************)
(* The director: its worlds and their runs, the sealed truth and the jobs  *)
(* (internal/director/internal/app, internal/truth).  Every tool call is a *)
(* goroutine.  The director's mutex, the store's, the run's and the job's  *)
(* are each held for single steps, so that calls interleave between any    *)
(* two of them; only startMu is held over many.  A job drives its run on a *)
(* goroutine of its own (the module Job looks inside; here it executes,    *)
(* then concludes).                                                        *)
(*                                                                         *)
(* A world and its run share a number.  What a run does before it ends,    *)
(* what a label says and how a run is scored are data.  An Explore run is  *)
(* public from its creation and left out.                                  *)
(***************************************************************************)
EXTENDS Naturals

CONSTANTS Caller,      \* the goroutines of tool calls
          MaxWorlds,   \* bound: worlds whose number is taken
          MaxCalls     \* bound: calls of all callers

Nobody == "nobody"     \* the value of startMu while it is free

ASSUME DirectorAssumption ==
  MaxWorlds \in Nat \ {0} /\ MaxCalls \in Nat /\ Nobody \notin Caller

World == 1 .. MaxWorlds

VARIABLES seq,         \* Director.seq
          listed,      \* Director.Worlds: "no", "yes" or "gone" (byRun keeps it)
          started,     \* WorldRecord.Started
          ended,       \* WorldRecord.RunEnded
          run,         \* the run of each world
          sealed,      \* Store.sealed, and the runs with a label
          unblinded,   \* Store.unblinded
          job,         \* jobRegistry.byWorld, and where the goroutine of each is
          startMu,     \* who starts a job
          at,          \* where each call is
          calls,       \* how many there were
          alive        \* no goroutine of the process has panicked

vars == <<seq, listed, started, ended, run, sealed, unblinded, job, startMu, at, calls, alive>>
truth == <<sealed, unblinded>>

NoArtifact == [out |-> FALSE, complete |-> FALSE, termination |-> "none"]

NewRun == [finished |-> FALSE, abandoned |-> FALSE, stamped |-> FALSE,
           termination |-> "none", artifact |-> NoArtifact]

NoJob == [state |-> "none", stop |-> FALSE, pc |-> "none", result |-> "none"]

NewJob == [state |-> "running", stop |-> FALSE, pc |-> "executes", result |-> "none"]

Idle == [call |-> "none", do |-> "idle", world |-> 0, failed |-> FALSE]

Init ==
  /\ seq = 0
  /\ listed = [w \in World |-> "no"]
  /\ started = {} /\ ended = {}
  /\ run = [w \in World |-> NewRun]
  /\ sealed = {} /\ unblinded = {}
  /\ job = [w \in World |-> NoJob]
  /\ startMu = Nobody
  /\ at = [c \in Caller |-> Idle]
  /\ calls = 0
  /\ alive = TRUE

-----------------------------------------------------------------------------
(***************************************************************************)
(* What a call does next.                                                  *)
(***************************************************************************)
\* Which goroutine takes a new call is of no account.
Free(c) == c = CHOOSE b \in Caller : at[b].do = "idle"

Calls(c, call, do, w) ==
  /\ at[c].do = "idle" /\ Free(c)
  /\ calls < MaxCalls
  /\ calls' = calls + 1
  /\ at' = [at EXCEPT ![c] = [call |-> call, do |-> do, world |-> w, failed |-> FALSE]]

Does(c, do) == at[c].do = do

Goes(c, do) == at' = [at EXCEPT ![c].do = do]

\* Variant: a start that is refused or fails does not unlock.
Unlocked_Added(c) == IF startMu = c /\ Does(c, "adds") THEN Nobody ELSE startMu

\* The deferred unlock of startMu.
Unlocked(c) == IF startMu = c THEN Nobody ELSE startMu

Returns(c) ==
  /\ at' = [at EXCEPT ![c] = Idle]
  /\ startMu' = Unlocked(c)

\* The tools that look up their world first; an unknown one is refused.
FirstStep == [seal |-> "checks", begin |-> "opens", end |-> "closes", destroy |-> "stops", score |-> "looks"]

Find(c, call, w) ==
  /\ listed[w] = "yes"
  /\ Calls(c, call, FirstStep[call], w)
  /\ UNCHANGED <<seq, listed, started, ended, run, truth, job, startMu, alive>>

-----------------------------------------------------------------------------
(***************************************************************************)
(* Worlds.                                                                 *)
(***************************************************************************)

\* reserveWorldIdentity: a number is taken whether or not a world comes of it.
Reserve(c, call, w) ==
  /\ seq < MaxWorlds
  /\ seq' = seq + 1
  /\ w = seq + 1

CreateWorld(c) ==
  /\ \E w \in World : Reserve(c, "create", w) /\ Calls(c, "create", "builds", w)
  /\ UNCHANGED <<listed, started, ended, run, truth, job, startMu, alive>>

\* run.New fails, or the world is registered.
PublishWorld(c) ==
  /\ Does(c, "builds")
  /\ \/ Returns(c) /\ UNCHANGED listed
     \/ /\ listed' = [listed EXCEPT ![at[c].world] = "yes"]
        /\ IF at[c].call = "start"
           THEN Goes(c, "plans") /\ UNCHANGED startMu
           ELSE Returns(c)
  /\ UNCHANGED <<seq, started, ended, run, truth, job, calls, alive>>

\* stopJobAndWait, which finds no job when there is none yet.
Asked(j) == IF j.state = "running" THEN [j EXCEPT !.state = "stopping", !.stop = TRUE] ELSE j

StopsJob(c) ==
  /\ Does(c, "stops")
  /\ job' = [job EXCEPT ![at[c].world] = Asked(@)]
  /\ Goes(c, IF job[at[c].world].state = "none" THEN "judges" ELSE "waits")
  /\ UNCHANGED <<seq, listed, started, ended, run, truth, startMu, calls, alive>>

AwaitsJob(c) ==
  /\ Does(c, "waits")
  /\ job[at[c].world].pc = "done"
  /\ Goes(c, "judges")
  /\ UNCHANGED <<seq, listed, started, ended, run, truth, job, startMu, calls, alive>>

\* finishDestroyedWorld: a run that has not ended is abandoned first.
JudgesRun(c) ==
  /\ Does(c, "judges")
  /\ Goes(c, IF at[c].world \in ended THEN "deletes" ELSE "abandons")
  /\ UNCHANGED <<seq, listed, started, ended, run, truth, job, startMu, calls, alive>>

Abandoned(r) == IF r.finished THEN r ELSE [r EXCEPT !.abandoned = TRUE]

AbandonsRun(c) ==
  /\ Does(c, "abandons")
  /\ run' = [run EXCEPT ![at[c].world] = Abandoned(@)]
  /\ Goes(c, "closes")
  /\ UNCHANGED <<seq, listed, started, ended, truth, job, startMu, calls, alive>>

DeletesWorld(c) ==
  /\ Does(c, "deletes")
  /\ listed' = [listed EXCEPT ![at[c].world] = "gone"]
  /\ Returns(c)
  /\ UNCHANGED <<seq, started, ended, run, truth, job, calls, alive>>

-----------------------------------------------------------------------------
(***************************************************************************)
(* Run.End, by a call and by a job.                                        *)
(***************************************************************************)

Artifact(r, whole) ==
  [out |-> TRUE, complete |-> whole /\ ~r.abandoned, termination |-> r.termination]

\* A run ends once.  Its trace or its files may fail before the artifact is
\* written, and an artifact may be that of a run that has failed.
Ends(r) ==
  IF r.finished
  THEN {[run |-> r, ok |-> FALSE]}
  ELSE {[run |-> [r EXCEPT !.finished = TRUE, !.artifact = Artifact(r, TRUE)], ok |-> TRUE],
        [run |-> [r EXCEPT !.finished = TRUE, !.artifact = Artifact(r, FALSE)], ok |-> FALSE],
        [run |-> [r EXCEPT !.finished = TRUE], ok |-> FALSE]}

ClosesRun(c) ==
  /\ Does(c, "closes")
  /\ \E e \in Ends(run[at[c].world]) :
       /\ run' = [run EXCEPT ![at[c].world] = e.run]
       /\ at' = [at EXCEPT ![c].do = "marks", ![c].failed = ~e.ok]
  /\ UNCHANGED <<seq, listed, started, ended, truth, job, startMu, calls, alive>>

\* markRunEnded comes before the error of Run.End is looked at.
Marked(w) == IF run[w].finished THEN ended \cup {w} ELSE ended

MarksRun(c) ==
  /\ Does(c, "marks")
  /\ ended' = Marked(at[c].world)
  /\ IF at[c].call # "end" /\ ~at[c].failed
     THEN Goes(c, "deletes") /\ UNCHANGED startMu
     ELSE Returns(c)
  /\ UNCHANGED <<seq, listed, started, run, truth, job, calls, alive>>

-----------------------------------------------------------------------------
(***************************************************************************)
(* Truth.                                                                  *)
(***************************************************************************)

\* SealTruth looks at the run's life before it asks the store.
ChecksLife(c) ==
  /\ Does(c, "checks")
  /\ IF at[c].world \in started \cup ended
     THEN Returns(c)
     ELSE Goes(c, "seals") /\ UNCHANGED startMu
  /\ UNCHANGED <<seq, listed, started, ended, run, truth, job, calls, alive>>

SealsTruth(c) ==
  /\ Does(c, "seals")
  /\ sealed' = sealed \cup {at[c].world}
  /\ Returns(c)
  /\ UNCHANGED <<seq, listed, started, ended, run, unblinded, job, calls, alive>>

\* openRun: requireSealedRun, and then the flag under the director's mutex.
RequiresSeal(c) ==
  /\ Does(c, "opens")
  /\ IF at[c].world \in sealed \ unblinded
     THEN Goes(c, "starts") /\ UNCHANGED startMu
     ELSE Returns(c)
  /\ UNCHANGED <<seq, listed, started, ended, run, truth, job, calls, alive>>

BeginsRun(c) ==
  /\ Does(c, "starts")
  /\ started' = started \cup {at[c].world}
  /\ Returns(c)
  /\ UNCHANGED <<seq, listed, ended, run, truth, job, calls, alive>>

\* Variant: a run that was never begun is not open.
RunIsOpen_Begun(w) == w \in started /\ listed[w] = "yes" /\ w \notin ended

\* A run the director does not know counts as open, one of a world that was
\* destroyed as closed.
RunIsOpen(w) == listed[w] = "no" \/ (listed[w] = "yes" /\ w \notin ended)

MayRead(w) == w \in sealed /\ (RunIsOpen(w) => w \in unblinded)

RevealTruth(c, w) ==
  /\ Calls(c, "reveal", "idle", w)
  /\ MayRead(w)
  /\ UNCHANGED <<seq, listed, started, ended, run, truth, job, startMu, alive>>

\* The store is unblinded first, the run stamped after it, if its world is still there.
UnblindsTruth(c, w) ==
  /\ w \in sealed
  /\ Calls(c, "unblind", "finds", w)
  /\ unblinded' = unblinded \cup {w}
  /\ UNCHANGED <<seq, listed, started, ended, run, sealed, job, startMu, alive>>

FindsRun(c) ==
  /\ Does(c, "finds")
  /\ IF listed[at[c].world] = "yes"
     THEN Goes(c, "stamps") /\ UNCHANGED startMu
     ELSE Returns(c)
  /\ UNCHANGED <<seq, listed, started, ended, run, truth, job, calls, alive>>

StampsRun(c) ==
  /\ Does(c, "stamps")
  /\ run' = [run EXCEPT ![at[c].world].stamped = TRUE]
  /\ Returns(c)
  /\ UNCHANGED <<seq, listed, started, ended, truth, job, calls, alive>>

LooksAtStamp(c) ==
  /\ Does(c, "looks")
  /\ IF run[at[c].world].stamped THEN Returns(c) ELSE Goes(c, "reveals") /\ UNCHANGED startMu
  /\ UNCHANGED <<seq, listed, started, ended, run, truth, job, calls, alive>>

RevealsForScore(c) ==
  /\ Does(c, "reveals")
  /\ IF MayRead(at[c].world)
     THEN Goes(c, "scores") /\ UNCHANGED startMu
     ELSE Returns(c)
  /\ UNCHANGED <<seq, listed, started, ended, run, truth, job, calls, alive>>

\* scoringEvidence copies the stamp of the run into the card.
Scores(c) ==
  /\ Does(c, "scores")
  /\ Returns(c)
  /\ UNCHANGED <<seq, listed, started, ended, run, truth, job, calls, alive>>

-----------------------------------------------------------------------------
(***************************************************************************)
(* Jobs.                                                                   *)
(***************************************************************************)
Active(w) == job[w].state \in {"running", "stopping"}

StartJob(c) ==
  /\ Calls(c, "start", "locks", 0)
  /\ UNCHANGED <<seq, listed, started, ended, run, truth, job, startMu, alive>>

\* Variant: two starts are not kept apart.
StartFree_Always(c) == TRUE

StartFree(c) == startMu = Nobody

LocksStart(c) ==
  /\ Does(c, "locks") /\ StartFree(c)
  /\ startMu' = c
  /\ Goes(c, "refuses")
  /\ UNCHANGED <<seq, listed, started, ended, run, truth, job, calls, alive>>

\* A plan the world refuses returns too.
RefusesWhenActive(c) ==
  /\ Does(c, "refuses")
  /\ \/ Returns(c) /\ UNCHANGED seq
     \/ /\ \A w \in World : ~Active(w)
        /\ \E w \in World :
             /\ Reserve(c, "start", w)
             /\ at' = [at EXCEPT ![c].do = "builds", ![c].world = w]
        /\ UNCHANGED startMu
  /\ UNCHANGED <<listed, started, ended, run, truth, job, calls, alive>>

\* RunOf has no run for a world that was destroyed in the meantime, and the
\* next line uses it.
FindsOwnRun(c) ==
  /\ Does(c, "plans")
  /\ IF listed[at[c].world] = "yes"
     THEN Goes(c, "intends") /\ UNCHANGED alive
     ELSE alive' = FALSE /\ UNCHANGED at
  /\ UNCHANGED <<seq, listed, started, ended, run, truth, job, startMu, calls>>

\* SetPlan fails on a run that is over: the world is destroyed again.
SetsPlan(c) ==
  /\ Does(c, "intends")
  /\ IF ~run[at[c].world].finished
     THEN Goes(c, "adds")
     ELSE Goes(c, "withdraws")
  /\ UNCHANGED <<seq, listed, started, ended, run, truth, job, startMu, calls, alive>>

\* The DestroyWorld of a start that failed, whose error is dropped.
GivesUp(c) ==
  /\ Does(c, "withdraws")
  /\ IF listed[at[c].world] = "yes" THEN Goes(c, "stops") /\ UNCHANGED startMu ELSE Returns(c)
  /\ UNCHANGED <<seq, listed, started, ended, run, truth, job, calls, alive>>

\* jobs.add, the goroutine and the answer.
AddsJob(c) ==
  /\ Does(c, "adds")
  /\ job' = [job EXCEPT ![at[c].world] = NewJob]
  /\ Returns(c)
  /\ UNCHANGED <<seq, listed, started, ended, run, truth, calls, alive>>

StopJob(c, w) ==
  /\ job[w].state # "none"
  /\ Calls(c, "stop", "idle", w)
  /\ job' = [job EXCEPT ![w] = Asked(@)]
  /\ UNCHANGED <<seq, listed, started, ended, run, truth, startMu, alive>>

JobGoes(w, pc, result) == job' = [job EXCEPT ![w].pc = pc, ![w].result = result]

\* ExecuteScenarioWith: to its end, to the stop that was asked, or to an error.
Executes(w) ==
  /\ job[w].pc = "executes"
  /\ \/ JobGoes(w, "concludes", "completed")
     \/ job[w].stop /\ JobGoes(w, "concludes", "stopped")
     \/ JobGoes(w, "fails", "failed")
  /\ UNCHANGED <<seq, listed, started, ended, run, truth, startMu, at, calls, alive>>

\* SetTermination is refused by a run that is over.
Concludes(w) ==
  /\ job[w].pc = "concludes"
  /\ IF run[w].finished
     THEN JobGoes(w, "fails", "failed") /\ UNCHANGED run
     ELSE /\ run' = [run EXCEPT ![w].termination = job[w].result]
          /\ JobGoes(w, "ends", job[w].result)
  /\ UNCHANGED <<seq, listed, started, ended, truth, startMu, at, calls, alive>>

Fails(w) ==
  /\ job[w].pc = "fails"
  /\ run' = [run EXCEPT ![w] = Abandoned(@)]
  /\ JobGoes(w, "ends", "failed")
  /\ UNCHANGED <<seq, listed, started, ended, truth, startMu, at, calls, alive>>

\* EndRun of a job, whose world may be gone.
FindsWorld(w) ==
  /\ job[w].pc = "ends"
  /\ IF listed[w] = "yes" THEN JobGoes(w, "closes", job[w].result) ELSE JobGoes(w, "finishes", "failed")
  /\ UNCHANGED <<seq, listed, started, ended, run, truth, startMu, at, calls, alive>>

\* Variant: a job does not look at the error of ending its run.
Result_Kept(w, ok) == job[w].result

Result(w, ok) == IF ok THEN job[w].result ELSE "failed"

ClosesJobRun(w) ==
  /\ job[w].pc = "closes"
  /\ \E e \in Ends(run[w]) :
       /\ run' = [run EXCEPT ![w] = e.run]
       /\ JobGoes(w, "marks", Result(w, e.ok))
  /\ UNCHANGED <<seq, listed, started, ended, truth, startMu, at, calls, alive>>

MarksJobRun(w) ==
  /\ job[w].pc = "marks"
  /\ ended' = Marked(w)
  /\ JobGoes(w, "finishes", job[w].result)
  /\ UNCHANGED <<seq, listed, started, run, truth, startMu, at, calls, alive>>

Finishes(w) ==
  /\ job[w].pc = "finishes"
  /\ job' = [job EXCEPT ![w].state = job[w].result, ![w].pc = "done"]
  /\ UNCHANGED <<seq, listed, started, ended, run, truth, startMu, at, calls, alive>>

-----------------------------------------------------------------------------
CallGoesOn(c) ==
  \/ PublishWorld(c) \/ StopsJob(c) \/ AwaitsJob(c) \/ JudgesRun(c) \/ AbandonsRun(c) \/ DeletesWorld(c)
  \/ ClosesRun(c) \/ MarksRun(c)
  \/ ChecksLife(c) \/ SealsTruth(c) \/ RequiresSeal(c) \/ BeginsRun(c)
  \/ FindsRun(c) \/ StampsRun(c) \/ LooksAtStamp(c) \/ RevealsForScore(c) \/ Scores(c)
  \/ LocksStart(c) \/ RefusesWhenActive(c) \/ FindsOwnRun(c) \/ SetsPlan(c) \/ GivesUp(c) \/ AddsJob(c)

NewCall(c) ==
  \/ CreateWorld(c)
  \/ StartJob(c)
  \/ \E w \in World, call \in DOMAIN FirstStep : Find(c, call, w)
  \/ \E w \in World : RevealTruth(c, w) \/ UnblindsTruth(c, w) \/ StopJob(c, w)

JobGoesOn(w) ==
  Executes(w) \/ Concludes(w) \/ Fails(w) \/ FindsWorld(w) \/ ClosesJobRun(w) \/ MarksJobRun(w) \/ Finishes(w)

\* Nothing is left to do, or the process is gone.
Terminated ==
  /\ ~alive \/ (calls = MaxCalls /\ \A c \in Caller : Does(c, "idle"))
  /\ alive => \A w \in World : job[w].pc \in {"none", "done"}
  /\ UNCHANGED vars

Next ==
  \/ /\ alive
     /\ \/ \E c \in Caller : NewCall(c) \/ CallGoesOn(c)
        \/ \E w \in World : JobGoesOn(w)
  \/ Terminated

(* A call that can go on does.  A job that was asked to stop comes to the  *)
(* end of its scenario (StopEndsTheJob of the module Job), and one that    *)
(* has come to it concludes.                                               *)
Fairness ==
  /\ \A c \in Caller : WF_vars(alive /\ CallGoesOn(c))
  /\ \A w \in World : WF_vars(alive /\ (job[w].stop \/ job[w].pc # "executes") /\ JobGoesOn(w))

Spec == Init /\ [][Next]_vars /\ Fairness

(* --- Properties ----------------------------------------------------------*)
TypeOK ==
  /\ seq \in 0 .. MaxWorlds
  /\ listed \in [World -> {"no", "yes", "gone"}]
  /\ {started, ended, sealed, unblinded} \subseteq SUBSET World
  /\ \A w \in World :
       /\ {run[w].finished, run[w].abandoned, run[w].stamped, run[w].artifact.out} \subseteq BOOLEAN
       /\ job[w].state \in {"none", "running", "stopping", "completed", "stopped", "failed"}
  /\ startMu \in Caller \cup {Nobody}
  /\ \A c \in Caller : at[c].world \in 0 .. MaxWorlds
  /\ calls \in 0 .. MaxCalls

(* Nobody is given the label of a run that still goes on, unless the run   *)
(* has been unblinded: not while its world is being destroyed, not between *)
(* the end of a run and the note of it, and not by way of a score          *)
(* (store.go:69, director.go:117, run.go:173).                             *)
BlindUntilOver == \A w \in World : MayRead(w) => run[w].finished \/ w \in unblinded

(* One job drives a run at a time, however starts, stops, ends and the     *)
(* destruction of worlds meet (job_registry.go:45, job_use_cases.go:15).   *)
OneActiveJob == \A w, v \in World : Active(w) /\ Active(v) => w = v

(* What a job says of its end is what the run it drove has published: no   *)
(* job is completed or stopped over a run that somebody else ended or      *)
(* whose artifact failed or says otherwise (job_run.go:23, :44).  The      *)
(* artifact under such a job is whole exactly if nobody abandoned the run, *)
(* which a destroy call may that looked for a job before it was registered *)
(* (CompletedIsWhole), and nobody abandons a run that has published.       *)
JobTellsTheTruth ==
  \A w \in World : job[w].state \in {"completed", "stopped"} =>
    /\ run[w].artifact.out /\ run[w].artifact.termination = job[w].state
    /\ run[w].artifact.complete = ~run[w].abandoned

(* Every call returns, the ones that wait for a job or for another start   *)
(* among them, unless the process is gone.                                 *)
EveryCallReturns == \A c \in Caller : ~Does(c, "idle") ~> (Does(c, "idle") \/ ~alive)

(* What a reader of a job's state takes it to say (MCP_SURFACE.md:129      *)
(* marks what is not whole as incomplete, never silently): the artifact    *)
(* under a completed job is whole.                                         *)
CompletedIsWhole == \A w \in World : job[w].state = "completed" => run[w].artifact.complete

(* What the documents say of unblinding (MCP_SURFACE.md:181,               *)
(* TECHNICAL_DESIGN.md:555): it excludes the run from every scorecard.     *)
UnblindedIsNotScored ==
  [][\A c \in Caller : Does(c, "scores") /\ Does(c, "idle")' => at[c].world \notin unblinded]_vars

(* A start does not take the process down (job_use_cases.go:60).           *)
NoPanic == alive
=============================================================================
