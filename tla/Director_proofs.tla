--------------------------- MODULE Director_proofs ---------------------------
(* Two rules of the director, for any number of callers, calls and worlds:  *)
(* a label stays blind until its run is over, and one job drives a run at a *)
(* time.                                                                    *)
EXTENDS Director, TLAPS

Outcome == {"none", "completed", "stopped", "failed"}

ArtifactType == [out : BOOLEAN, complete : BOOLEAN, termination : Outcome]

RunType ==
  [finished : BOOLEAN, abandoned : BOOLEAN, stamped : BOOLEAN,
   termination : Outcome, artifact : ArtifactType]

JobPlace ==
  {"none", "executes", "concludes", "fails", "ends", "closes", "marks", "finishes", "done"}

JobType ==
  [state : Outcome \cup {"running", "stopping"}, stop : BOOLEAN, pc : JobPlace, result : Outcome]

CallName ==
  {"none", "create", "seal", "begin", "end", "destroy", "score", "reveal", "unblind", "start", "stop"}

\* Where a call has no world yet, and where it has one.
NoWorldPlace == {"idle", "locks", "refuses"}

WorldPlace ==
  {"builds", "stops", "waits", "judges", "abandons", "deletes", "closes", "marks", "checks", "seals",
   "opens", "starts", "finds", "stamps", "looks", "reveals", "scores", "plans", "intends", "adds",
   "withdraws"}

WorldOrNone == 0 .. MaxWorlds

CallType ==
  [call : CallName, do : NoWorldPlace, world : WorldOrNone, failed : BOOLEAN] \cup
  [call : CallName, do : WorldPlace, world : World, failed : BOOLEAN]

AtInv == at \in [Caller -> CallType]
RunInv == run \in [World -> RunType]
JobInv == job \in [World -> JobType]
ListedInv == seq \in Nat /\ listed \in [World -> {"no", "yes", "gone"}]

TypeInv == AtInv /\ RunInv /\ JobInv /\ ListedInv

(* What is noted as ended, destroyed or about to be either is finished.     *)
OverInv ==
  /\ \A w \in ended : w \in World => run[w].finished
  /\ \A w \in World : listed[w] = "gone" => run[w].finished
  /\ \A c \in Caller : at[c].do \in {"marks", "deletes"} => run[at[c].world].finished

(* A start is under way from the moment it holds startMu.                   *)
StartUnderWay(a) == a.call = "start" /\ a.do \notin {"idle", "locks"}

NoActiveJob == \A w \in World : ~Active(w)

StartInv ==
  /\ \A c \in Caller : at[c].do \in {"locks", "refuses", "plans", "intends", "adds"} => at[c].call = "start"
  /\ \A c \in Caller : StartUnderWay(at[c]) => startMu = c
  /\ \A c \in Caller : StartUnderWay(at[c]) /\ at[c].do # "refuses" => NoActiveJob
  /\ OneActiveJob

-----------------------------------------------------------------------------
(* The shapes of a call's step: it goes to another place, or returns.       *)
OthersStay(c) == \A b \in Caller \ {c} : at'[b] = at[b]

Begins(c) ==
  /\ at[c].do = "idle" /\ OthersStay(c)
  /\ at'[c].do \in {"idle", "builds", "locks", "checks", "opens", "closes", "stops", "looks", "finds"}
  /\ at'[c].do \in {"idle", "locks"} \/ at'[c].call # "start"
  /\ at'[c].do = "locks" => at'[c].call = "start"

Moves(c) ==
  /\ at[c].do \in WorldPlace /\ at'[c].do \in WorldPlace
  /\ at'[c].call = at[c].call /\ at'[c].world = at[c].world
  /\ UNCHANGED startMu

LEMMA CallTypeFields ==
  ASSUME NEW a \in CallType
  PROVE  /\ a.call \in CallName
         /\ a.do \in NoWorldPlace \cup WorldPlace
         /\ a.world \in WorldOrNone
         /\ a.failed \in BOOLEAN
         /\ a.do \in WorldPlace => a.world \in World
<1>0. World \subseteq WorldOrNone
  BY DirectorAssumption DEF World, WorldOrNone
<1>1. CASE a \in [call : CallName, do : NoWorldPlace, world : WorldOrNone, failed : BOOLEAN]
  <2>1. a.do \in NoWorldPlace /\ a.do \notin WorldPlace
    BY <1>1 DEF NoWorldPlace, WorldPlace
  <2> QED
    BY <1>1, <2>1
<1>2. CASE a \in [call : CallName, do : WorldPlace, world : World, failed : BOOLEAN]
  BY <1>0, <1>2
<1> QED
  BY <1>1, <1>2 DEF CallType

LEMMA GoesThere ==
  ASSUME AtInv, NEW c \in Caller, NEW do, Goes(c, do)
  PROVE  at'[c].do = do /\ at'[c].call = at[c].call /\ at'[c].world = at[c].world
BY DEF AtInv, Goes, CallType

LEMMA ReturnsToIdle ==
  ASSUME AtInv, NEW c \in Caller, Returns(c)
  PROVE  at'[c].do = "idle" /\ at'[c].call = "none"
BY DEF AtInv, Returns, Idle

LEMMA GoesIsTyped ==
  ASSUME AtInv, NEW c \in Caller, at[c].do \in WorldPlace, NEW do \in WorldPlace, Goes(c, do)
  PROVE  /\ AtInv'
         /\ at'[c].do = do /\ at'[c].call = at[c].call /\ at'[c].world = at[c].world
         /\ OthersStay(c)
<1> DEFINE a == [at[c] EXCEPT !.do = do]
<1>1. at[c] \in [call : CallName, do : WorldPlace, world : World, failed : BOOLEAN]
  BY DEF AtInv, CallType, NoWorldPlace, WorldPlace
<1>2. a \in [call : CallName, do : WorldPlace, world : World, failed : BOOLEAN]
  BY <1>1
<1>3. a \in CallType /\ a.do = do /\ a.call = at[c].call /\ a.world = at[c].world
  BY <1>1, <1>2 DEF CallType
<1>4. at' = [at EXCEPT ![c] = a]
  BY DEF Goes
<1> HIDE DEF a
<1> QED
  BY <1>3, <1>4 DEF AtInv, OthersStay

LEMMA ReturnsIsTyped ==
  ASSUME AtInv, NEW c \in Caller, Returns(c)
  PROVE  /\ AtInv'
         /\ at'[c] = Idle
         /\ OthersStay(c)
         /\ \A b \in Caller \ {c} : startMu = b => startMu' = b
<1>1. 0 \in WorldOrNone
  BY DirectorAssumption DEF WorldOrNone
<1>2. Idle \in CallType
  BY <1>1 DEF Idle, CallType, CallName, NoWorldPlace
<1>3. at' = [at EXCEPT ![c] = Idle]
  BY DEF Returns
<1> QED
  BY <1>2, <1>3 DEF AtInv, OthersStay, Returns, Unlocked

LEMMA CallsIsTyped ==
  ASSUME AtInv, NEW c \in Caller, NEW call \in CallName, NEW do, NEW w,
         (do \in NoWorldPlace /\ w \in WorldOrNone) \/ (do \in WorldPlace /\ w \in World),
         Calls(c, call, do, w)
  PROVE  /\ AtInv'
         /\ at[c].do = "idle"
         /\ at'[c].call = call /\ at'[c].do = do /\ at'[c].world = w
         /\ OthersStay(c)
<1> DEFINE a == [call |-> call, do |-> do, world |-> w, failed |-> FALSE]
<1>1. a \in CallType
  BY DEF CallType
<1>2. at' = [at EXCEPT ![c] = a]
  BY DEF Calls
<1>3. a.call = call /\ a.do = do /\ a.world = w
  OBVIOUS
<1> HIDE DEF a
<1> QED
  BY <1>1, <1>2, <1>3 DEF AtInv, OthersStay, Calls

LEMMA FirstStepIsTyped ==
  \A call \in DOMAIN FirstStep :
    /\ call \in CallName /\ call # "start"
    /\ FirstStep[call] \in {"checks", "opens", "closes", "stops", "looks"}
<1>1. DOMAIN FirstStep = {"seal", "begin", "end", "destroy", "score"}
  BY DEF FirstStep
<1>2. /\ FirstStep["seal"] = "checks" /\ FirstStep["begin"] = "opens" /\ FirstStep["end"] = "closes"
      /\ FirstStep["destroy"] = "stops" /\ FirstStep["score"] = "looks"
  BY DEF FirstStep
<1>3. \A call \in {"seal", "begin", "end", "destroy", "score"} : call \in CallName /\ call # "start"
  BY DEF CallName
<1> QED
  BY <1>1, <1>2, <1>3

-----------------------------------------------------------------------------
(* What the steps do to a run and to a job.                                 *)
LEMMA AskedIsTyped ==
  ASSUME NEW j \in JobType
  PROVE  Asked(j) \in JobType /\ (Asked(j).state \in {"running", "stopping"} <=> j.state \in {"running", "stopping"})
BY DEF Asked, JobType, Outcome

LEMMA ArtifactIsTyped ==
  ASSUME NEW r \in RunType, NEW whole \in BOOLEAN
  PROVE  Artifact(r, whole) \in ArtifactType
BY DEF Artifact, RunType, ArtifactType

LEMMA EndsIsTyped ==
  ASSUME NEW r \in RunType, NEW e \in Ends(r)
  PROVE  e.run \in RunType /\ e.run.finished /\ e.ok \in BOOLEAN
<1>1. CASE r.finished
  <2>1. e = [run |-> r, ok |-> FALSE]
    BY <1>1 DEF Ends
  <2> QED
    BY <1>1, <2>1
<1>2. CASE ~r.finished
  <2>1. Artifact(r, TRUE) \in ArtifactType /\ Artifact(r, FALSE) \in ArtifactType
    BY ArtifactIsTyped
  <2> DEFINE s == [r EXCEPT !.finished = TRUE, !.artifact = Artifact(r, TRUE)]
             t == [r EXCEPT !.finished = TRUE, !.artifact = Artifact(r, FALSE)]
             u == [r EXCEPT !.finished = TRUE]
  <2>2. s \in RunType /\ s.finished
    BY <2>1 DEF RunType
  <2>3. t \in RunType /\ t.finished
    BY <2>1 DEF RunType
  <2>4. u \in RunType /\ u.finished
    BY DEF RunType
  <2>5. Ends(r) = {[run |-> s, ok |-> TRUE], [run |-> t, ok |-> FALSE], [run |-> u, ok |-> FALSE]}
    BY <1>2 DEF Ends
  <2> HIDE DEF s, t, u
  <2>6. /\ [run |-> s, ok |-> TRUE].run = s /\ [run |-> s, ok |-> TRUE].ok = TRUE
        /\ [run |-> t, ok |-> FALSE].run = t /\ [run |-> t, ok |-> FALSE].ok = FALSE
        /\ [run |-> u, ok |-> FALSE].run = u /\ [run |-> u, ok |-> FALSE].ok = FALSE
    OBVIOUS
  <2> QED
    BY <2>2, <2>3, <2>4, <2>5, <2>6, Zenon
<1> QED
  BY <1>1, <1>2

LEMMA AbandonedIsTyped ==
  ASSUME NEW r \in RunType
  PROVE  Abandoned(r) \in RunType /\ Abandoned(r).finished = r.finished
BY DEF Abandoned, RunType

-----------------------------------------------------------------------------
(* Types.                                                                   *)
LEMMA NewCallIsTyped ==
  ASSUME TypeInv, NEW c \in Caller, NewCall(c)
  PROVE  TypeInv' /\ Begins(c) /\ UNCHANGED <<run, listed, ended, startMu>>
<1> USE DEF TypeInv
<1>0. 0 \in WorldOrNone /\ World \subseteq WorldOrNone
  BY DirectorAssumption DEF World, WorldOrNone
<1>1. CASE CreateWorld(c)
  <2>1. PICK w \in World : Reserve(c, "create", w) /\ Calls(c, "create", "builds", w)
    BY <1>1 DEF CreateWorld
  <2>2. AtInv' /\ Begins(c)
    <3>1. /\ AtInv' /\ at[c].do = "idle" /\ OthersStay(c)
          /\ at'[c].call = "create" /\ at'[c].do = "builds"
      BY <2>1, CallsIsTyped DEF CallName, WorldPlace
    <3> QED
      BY <3>1 DEF Begins
  <2> QED
    BY <1>1, <2>1, <2>2 DEF CreateWorld, Reserve, RunInv, JobInv, ListedInv
<1>2. CASE StartJob(c)
  <2>1. AtInv' /\ Begins(c)
    <3> DEFINE a == [call |-> "start", do |-> "locks", world |-> 0, failed |-> FALSE]
    <3>1. a \in CallType
      BY <1>0 DEF CallType, CallName, NoWorldPlace
    <3>2. at[c].do = "idle" /\ at' = [at EXCEPT ![c] = a]
      BY <1>2 DEF StartJob, Calls
    <3>3. a.call = "start" /\ a.do = "locks"
      OBVIOUS
    <3> HIDE DEF a
    <3> QED
      BY <3>1, <3>2, <3>3 DEF AtInv, OthersStay, Begins
  <2> QED
    BY <1>2, <2>1 DEF StartJob, RunInv, JobInv, ListedInv
<1>3. ASSUME NEW w \in World, NEW call \in DOMAIN FirstStep, Find(c, call, w)
      PROVE  TypeInv' /\ Begins(c) /\ UNCHANGED <<run, listed, ended, startMu>>
  <2>1. /\ call \in CallName /\ call # "start" /\ FirstStep[call] \in WorldPlace
        /\ FirstStep[call] \in {"checks", "opens", "closes", "stops", "looks"}
    BY FirstStepIsTyped DEF WorldPlace
  <2>2. AtInv' /\ Begins(c)
    BY <1>3, <2>1, CallsIsTyped DEF Find, Begins
  <2> QED
    BY <1>3, <2>2 DEF Find, RunInv, JobInv, ListedInv
<1>4. ASSUME NEW w \in World, RevealTruth(c, w)
      PROVE  TypeInv' /\ Begins(c) /\ UNCHANGED <<run, listed, ended, startMu>>
  <2>1. AtInv' /\ Begins(c)
    BY <1>0, <1>4, CallsIsTyped DEF RevealTruth, CallName, NoWorldPlace, Begins
  <2> QED
    BY <1>4, <2>1 DEF RevealTruth, RunInv, JobInv, ListedInv
<1>5. ASSUME NEW w \in World, UnblindsTruth(c, w)
      PROVE  TypeInv' /\ Begins(c) /\ UNCHANGED <<run, listed, ended, startMu>>
  <2>1. AtInv' /\ Begins(c)
    <3>1. /\ AtInv' /\ at[c].do = "idle" /\ OthersStay(c)
          /\ at'[c].call = "unblind" /\ at'[c].do = "finds"
      BY <1>0, <1>5, CallsIsTyped DEF UnblindsTruth, CallName, WorldPlace
    <3> QED
      BY <3>1 DEF Begins
  <2> QED
    BY <1>5, <2>1 DEF UnblindsTruth, RunInv, JobInv, ListedInv
<1>6. ASSUME NEW w \in World, StopJob(c, w)
      PROVE  TypeInv' /\ Begins(c) /\ UNCHANGED <<run, listed, ended, startMu>>
  <2>1. AtInv' /\ Begins(c)
    BY <1>0, <1>6, CallsIsTyped DEF StopJob, CallName, NoWorldPlace, Begins
  <2>2. JobInv'
    BY <1>6, AskedIsTyped DEF StopJob, JobInv
  <2> QED
    BY <1>6, <2>1, <2>2 DEF StopJob, RunInv, ListedInv
<1> QED
  BY <1>1, <1>2, <1>3, <1>4, <1>5, <1>6 DEF NewCall

LEMMA CallGoesOnIsTyped ==
  ASSUME TypeInv, NEW c \in Caller, CallGoesOn(c)
  PROVE  TypeInv' /\ OthersStay(c)
<1> USE DEF TypeInv
<1>0. at[c] \in CallType
  BY DEF AtInv
<1>1. CASE PublishWorld(c)
  <2>1. AtInv' /\ OthersStay(c)
    BY <1>1, GoesIsTyped, ReturnsIsTyped DEF PublishWorld, Does, WorldPlace
  <2> QED
    BY <1>1, <2>1 DEF PublishWorld, truth, RunInv, JobInv, ListedInv
<1>2. CASE StopsJob(c)
  <2> DEFINE do == IF job[at[c].world].state = "none" THEN "judges" ELSE "waits"
  <2>1. AtInv' /\ OthersStay(c)
    <3>1. Goes(c, do) /\ do \in WorldPlace /\ at[c].do \in WorldPlace
      BY <1>2 DEF StopsJob, Does, WorldPlace
    <3> HIDE DEF do
    <3> QED
      BY <3>1, GoesIsTyped
  <2>2. JobInv'
    BY <1>2, <1>0, CallTypeFields, AskedIsTyped DEF StopsJob, Does, WorldPlace, JobInv
  <2> QED
    BY <1>2, <2>1, <2>2 DEF StopsJob, truth, RunInv, ListedInv
<1>3. CASE AwaitsJob(c)
  <2>1. AtInv' /\ OthersStay(c)
    BY <1>3, GoesIsTyped DEF AwaitsJob, Does, WorldPlace
  <2> QED
    BY <1>3, <2>1 DEF AwaitsJob, truth, RunInv, JobInv, ListedInv
<1>4. CASE JudgesRun(c)
  <2> DEFINE do == IF at[c].world \in ended THEN "deletes" ELSE "abandons"
  <2>1. AtInv' /\ OthersStay(c)
    <3>1. Goes(c, do) /\ do \in WorldPlace /\ at[c].do \in WorldPlace
      BY <1>4 DEF JudgesRun, Does, WorldPlace
    <3> HIDE DEF do
    <3> QED
      BY <3>1, GoesIsTyped
  <2> QED
    BY <1>4, <2>1 DEF JudgesRun, truth, RunInv, JobInv, ListedInv
<1>5. CASE AbandonsRun(c)
  <2>1. AtInv' /\ OthersStay(c)
    BY <1>5, GoesIsTyped DEF AbandonsRun, Does, WorldPlace
  <2>2. RunInv'
    BY <1>5, <1>0, CallTypeFields, AbandonedIsTyped DEF AbandonsRun, Does, WorldPlace, RunInv
  <2> QED
    BY <1>5, <2>1, <2>2 DEF AbandonsRun, truth, JobInv, ListedInv
<1>6. CASE DeletesWorld(c)
  <2>1. AtInv' /\ OthersStay(c)
    BY <1>6, ReturnsIsTyped DEF DeletesWorld, Does, WorldPlace
  <2> QED
    BY <1>6, <2>1 DEF DeletesWorld, truth, RunInv, JobInv, ListedInv
<1>7. CASE ClosesRun(c)
  <2>1. AtInv' /\ OthersStay(c)
    <3>1. PICK e \in Ends(run[at[c].world]) : at' = [at EXCEPT ![c].do = "marks", ![c].failed = ~e.ok]
      BY <1>7 DEF ClosesRun
    <3> DEFINE a == [at[c] EXCEPT !.do = "marks", !.failed = ~e.ok]
    <3>2. at[c].world \in World
      BY <1>0, <1>7, CallTypeFields DEF ClosesRun, Does, WorldPlace
    <3>3. a \in CallType
      BY <1>0, <3>2 DEF CallType, WorldPlace
    <3>4. at' = [at EXCEPT ![c] = a]
      BY <3>1
    <3> HIDE DEF a
    <3> QED
      BY <3>3, <3>4 DEF AtInv, OthersStay
  <2>0. at[c].world \in World
    BY <1>0, <1>7, CallTypeFields DEF ClosesRun, Does, WorldPlace
  <2>2. RunInv'
    <3>1. PICK e \in Ends(run[at[c].world]) : run' = [run EXCEPT ![at[c].world] = e.run]
      BY <1>7 DEF ClosesRun
    <3>2. e.run \in RunType
      BY <2>0, EndsIsTyped DEF RunInv
    <3> QED
      BY <3>1, <3>2 DEF RunInv
  <2> QED
    BY <1>7, <2>1, <2>2 DEF ClosesRun, truth, JobInv, ListedInv
<1>8. CASE MarksRun(c)
  <2>1. AtInv' /\ OthersStay(c)
    BY <1>8, GoesIsTyped, ReturnsIsTyped DEF MarksRun, Does, WorldPlace
  <2> QED
    BY <1>8, <2>1 DEF MarksRun, truth, RunInv, JobInv, ListedInv
<1>9. CASE ChecksLife(c)
  <2>1. AtInv' /\ OthersStay(c)
    BY <1>9, GoesIsTyped, ReturnsIsTyped DEF ChecksLife, Does, WorldPlace
  <2> QED
    BY <1>9, <2>1 DEF ChecksLife, truth, RunInv, JobInv, ListedInv
<1>10. CASE SealsTruth(c)
  <2>1. AtInv' /\ OthersStay(c)
    BY <1>10, ReturnsIsTyped DEF SealsTruth, Does, WorldPlace
  <2> QED
    BY <1>10, <2>1 DEF SealsTruth, truth, RunInv, JobInv, ListedInv
<1>11. CASE RequiresSeal(c)
  <2>1. AtInv' /\ OthersStay(c)
    BY <1>11, GoesIsTyped, ReturnsIsTyped DEF RequiresSeal, Does, WorldPlace
  <2> QED
    BY <1>11, <2>1 DEF RequiresSeal, truth, RunInv, JobInv, ListedInv
<1>12. CASE BeginsRun(c)
  <2>1. AtInv' /\ OthersStay(c)
    BY <1>12, ReturnsIsTyped DEF BeginsRun, Does, WorldPlace
  <2> QED
    BY <1>12, <2>1 DEF BeginsRun, truth, RunInv, JobInv, ListedInv
<1>13. CASE FindsRun(c)
  <2>1. AtInv' /\ OthersStay(c)
    BY <1>13, GoesIsTyped, ReturnsIsTyped DEF FindsRun, Does, WorldPlace
  <2> QED
    BY <1>13, <2>1 DEF FindsRun, truth, RunInv, JobInv, ListedInv
<1>14. CASE StampsRun(c)
  <2>1. AtInv' /\ OthersStay(c)
    BY <1>14, ReturnsIsTyped DEF StampsRun, Does, WorldPlace
  <2>0. at[c].world \in World
    BY <1>0, <1>14, CallTypeFields DEF StampsRun, Does, WorldPlace
  <2>2. RunInv'
    <3>1. [run[at[c].world] EXCEPT !.stamped = TRUE] \in RunType
      BY <2>0 DEF RunInv, RunType
    <3> QED
      BY <1>14, <3>1 DEF StampsRun, RunInv
  <2> QED
    BY <1>14, <2>1, <2>2 DEF StampsRun, truth, JobInv, ListedInv
<1>15. CASE LooksAtStamp(c)
  <2>1. AtInv' /\ OthersStay(c)
    BY <1>15, GoesIsTyped, ReturnsIsTyped DEF LooksAtStamp, Does, WorldPlace
  <2> QED
    BY <1>15, <2>1 DEF LooksAtStamp, truth, RunInv, JobInv, ListedInv
<1>16. CASE RevealsForScore(c)
  <2>1. AtInv' /\ OthersStay(c)
    BY <1>16, GoesIsTyped, ReturnsIsTyped DEF RevealsForScore, Does, WorldPlace
  <2> QED
    BY <1>16, <2>1 DEF RevealsForScore, truth, RunInv, JobInv, ListedInv
<1>17. CASE Scores(c)
  <2>1. AtInv' /\ OthersStay(c)
    BY <1>17, ReturnsIsTyped DEF Scores, Does, WorldPlace
  <2> QED
    BY <1>17, <2>1 DEF Scores, truth, RunInv, JobInv, ListedInv
<1>18. CASE LocksStart(c)
  <2>1. AtInv' /\ OthersStay(c)
    <3> DEFINE a == [at[c] EXCEPT !.do = "refuses"]
    <3>1. a \in CallType
      BY <1>0, <1>18 DEF LocksStart, Does, CallType, NoWorldPlace, WorldPlace
    <3>2. at' = [at EXCEPT ![c] = a]
      BY <1>18 DEF LocksStart, Goes
    <3> HIDE DEF a
    <3> QED
      BY <3>1, <3>2 DEF AtInv, OthersStay
  <2> QED
    BY <1>18, <2>1 DEF LocksStart, truth, RunInv, JobInv, ListedInv
<1>19. CASE RefusesWhenActive(c)
  <2>1. AtInv' /\ OthersStay(c)
    <3>1. CASE Returns(c)
      BY <3>1, ReturnsIsTyped
    <3>2. ASSUME NEW w \in World, at' = [at EXCEPT ![c].do = "builds", ![c].world = w]
          PROVE  AtInv' /\ OthersStay(c)
      <4> DEFINE a == [at[c] EXCEPT !.do = "builds", !.world = w]
      <4>1. a \in CallType
        BY <1>0 DEF CallType, WorldPlace
      <4>2. at' = [at EXCEPT ![c] = a]
        BY <3>2
      <4> HIDE DEF a
      <4> QED
        BY <4>1, <4>2 DEF AtInv, OthersStay
    <3> QED
      BY <1>19, <3>1, <3>2 DEF RefusesWhenActive
  <2> QED
    BY <1>19, <2>1 DEF RefusesWhenActive, truth, RunInv, JobInv, ListedInv, Reserve
<1>20. CASE FindsOwnRun(c)
  <2>1. AtInv' /\ OthersStay(c)
    BY <1>20, GoesIsTyped DEF FindsOwnRun, Does, WorldPlace, AtInv, OthersStay
  <2> QED
    BY <1>20, <2>1 DEF FindsOwnRun, truth, RunInv, JobInv, ListedInv
<1>21. CASE SetsPlan(c)
  <2>1. AtInv' /\ OthersStay(c)
    BY <1>21, GoesIsTyped DEF SetsPlan, Does, WorldPlace
  <2> QED
    BY <1>21, <2>1 DEF SetsPlan, truth, RunInv, JobInv, ListedInv
<1>22. CASE GivesUp(c)
  <2>1. AtInv' /\ OthersStay(c)
    BY <1>22, GoesIsTyped, ReturnsIsTyped DEF GivesUp, Does, WorldPlace
  <2> QED
    BY <1>22, <2>1 DEF GivesUp, truth, RunInv, JobInv, ListedInv
<1>23. CASE AddsJob(c)
  <2>1. AtInv' /\ OthersStay(c)
    BY <1>23, ReturnsIsTyped DEF AddsJob, Does, WorldPlace
  <2>2. JobInv'
    BY <1>23, <1>0, CallTypeFields DEF AddsJob, Does, WorldPlace, JobInv, NewJob, JobType, JobPlace, Outcome
  <2> QED
    BY <1>23, <2>1, <2>2 DEF AddsJob, truth, RunInv, ListedInv
<1> QED
  BY <1>1, <1>2, <1>3, <1>4, <1>5, <1>6, <1>7, <1>8, <1>9, <1>10, <1>11, <1>12, <1>13, <1>14, <1>15, <1>16, <1>17, <1>18, <1>19, <1>20, <1>21, <1>22, <1>23 DEF CallGoesOn

LEMMA JobGoesIsTyped ==
  ASSUME JobInv, NEW w \in World, NEW pc \in JobPlace, NEW result \in Outcome, JobGoes(w, pc, result)
  PROVE  JobInv' /\ \A v \in World : job'[v].state = job[v].state
BY DEF JobInv, JobGoes, JobType

(* A job's step leaves the calls alone and makes no job active.             *)
LEMMA JobGoesOnIsTyped ==
  ASSUME TypeInv, NEW w \in World, JobGoesOn(w)
  PROVE  TypeInv' /\ (\A v \in World : Active(v)' => Active(v)) /\ UNCHANGED <<at, startMu, listed>>
<1> USE DEF TypeInv, Active
<1>0. job[w].result \in Outcome /\ run[w] \in RunType
  BY DEF JobInv, RunInv, JobType
<1>1. CASE Executes(w)
  <2>1. JobInv' /\ \A v \in World : Active(v)' => Active(v)
    BY <1>1, <1>0, JobGoesIsTyped DEF Executes, JobPlace, Outcome
  <2> QED
    BY <1>1, <2>1 DEF Executes, truth, RunInv, ListedInv, AtInv
<1>2. CASE Concludes(w)
  <2>1. JobInv' /\ \A v \in World : Active(v)' => Active(v)
    BY <1>2, <1>0, JobGoesIsTyped DEF Concludes, JobPlace, Outcome
  <2>2. RunInv'
    BY <1>0, <1>2 DEF Concludes, RunInv, RunType
  <2> QED
    BY <1>2, <2>1, <2>2 DEF Concludes, truth, ListedInv, AtInv
<1>3. CASE Fails(w)
  <2>1. JobInv' /\ \A v \in World : Active(v)' => Active(v)
    BY <1>3, <1>0, JobGoesIsTyped DEF Fails, JobPlace, Outcome
  <2>2. RunInv'
    BY <1>0, <1>3, AbandonedIsTyped DEF Fails, RunInv
  <2> QED
    BY <1>3, <2>1, <2>2 DEF Fails, truth, ListedInv, AtInv
<1>4. CASE FindsWorld(w)
  <2>1. JobInv' /\ \A v \in World : Active(v)' => Active(v)
    BY <1>4, <1>0, JobGoesIsTyped DEF FindsWorld, JobPlace, Outcome
  <2> QED
    BY <1>4, <2>1 DEF FindsWorld, truth, RunInv, ListedInv, AtInv
<1>5. CASE ClosesJobRun(w)
  <2>0. PICK e \in Ends(run[w]) : run' = [run EXCEPT ![w] = e.run] /\ JobGoes(w, "marks", Result(w, e.ok))
    BY <1>5 DEF ClosesJobRun
  <2>1. JobInv' /\ \A v \in World : Active(v)' => Active(v)
    <3>1. Result(w, e.ok) \in Outcome
      BY <1>0 DEF Result, Outcome
    <3> QED
      BY <2>0, <3>1, JobGoesIsTyped DEF JobPlace
  <2>2. RunInv'
    BY <1>0, <2>0, EndsIsTyped DEF RunInv
  <2> QED
    BY <1>5, <2>1, <2>2 DEF ClosesJobRun, truth, ListedInv, AtInv
<1>6. CASE MarksJobRun(w)
  <2>1. JobInv' /\ \A v \in World : Active(v)' => Active(v)
    BY <1>6, <1>0, JobGoesIsTyped DEF MarksJobRun, JobPlace, Outcome
  <2> QED
    BY <1>6, <2>1 DEF MarksJobRun, truth, RunInv, ListedInv, AtInv
<1>7. CASE Finishes(w)
  <2>1. JobInv' /\ \A v \in World : Active(v)' => Active(v)
    BY <1>7, <1>0 DEF Finishes, JobInv, JobType, JobPlace, Outcome
  <2> QED
    BY <1>7, <2>1 DEF Finishes, truth, RunInv, ListedInv, AtInv
<1> QED
  BY <1>1, <1>2, <1>3, <1>4, <1>5, <1>6, <1>7 DEF JobGoesOn

-----------------------------------------------------------------------------
(* A run that is over stays so.                                             *)
FinishedStays == \A w \in World : run[w].finished => run'[w].finished

LEMMA OverStays ==
  ASSUME TypeInv, OverInv, FinishedStays, UNCHANGED <<ended, listed>>,
         NEW c \in Caller, OthersStay(c), at'[c].do \notin {"marks", "deletes"}
  PROVE  OverInv'
<1>1. \A b \in Caller : at[b].do \in {"marks", "deletes"} => at[b].world \in World
  BY CallTypeFields DEF TypeInv, AtInv, WorldPlace
<1> QED
  BY <1>1 DEF OverInv, FinishedStays, OthersStay

LEMMA NewCallKeepsOver ==
  ASSUME TypeInv, OverInv, NEW c \in Caller, NewCall(c)
  PROVE  OverInv'
<1>1. Begins(c) /\ UNCHANGED <<run, ended, listed>>
  BY NewCallIsTyped
<1>2. FinishedStays
  BY <1>1 DEF FinishedStays
<1> QED
  BY <1>1, <1>2, OverStays DEF Begins

LEMMA CallGoesOnKeepsOver ==
  ASSUME TypeInv, OverInv, NEW c \in Caller, CallGoesOn(c)
  PROVE  OverInv'
<1>a. at[c] \in CallType /\ AtInv
  BY DEF TypeInv, AtInv
<1>b. TypeInv' /\ OthersStay(c)
  BY CallGoesOnIsTyped
<1>c. \A b \in Caller : at[b].do \in {"marks", "deletes"} => at[b].world \in World
  BY CallTypeFields DEF TypeInv, AtInv, WorldPlace
<1>1. CASE PublishWorld(c)
  <2>1. at'[c].do \notin {"marks", "deletes"} /\ UNCHANGED <<run, ended>>
    BY <1>a, <1>1, GoesThere, ReturnsToIdle DEF PublishWorld
  <2>2. \A w \in World : listed'[w] = "gone" => listed[w] = "gone"
    BY <1>1 DEF PublishWorld, TypeInv, ListedInv
  <2> QED
    BY <1>b, <2>1, <2>2 DEF OverInv, OthersStay
<1>2. CASE StopsJob(c)
  <2> DEFINE do == IF job[at[c].world].state = "none" THEN "judges" ELSE "waits"
  <2>0. Goes(c, do) /\ do \in {"judges", "waits"} /\ at[c].do \in WorldPlace
    BY <1>2 DEF StopsJob, Does, WorldPlace
  <2> HIDE DEF do
  <2>1. at'[c].do \notin {"marks", "deletes"} /\ UNCHANGED <<run, ended, listed>>
    BY <1>a, <1>2, <2>0, GoesIsTyped DEF StopsJob, WorldPlace
  <2> QED
    BY <1>b, <2>1, OverStays DEF FinishedStays
<1>3. CASE AwaitsJob(c)
  <2>1. at'[c].do \notin {"marks", "deletes"} /\ UNCHANGED <<run, ended, listed>>
    BY <1>a, <1>3, GoesThere DEF AwaitsJob
  <2> QED
    BY <1>b, <2>1, OverStays DEF FinishedStays
<1>4. CASE JudgesRun(c)
  <2> DEFINE do == IF at[c].world \in ended THEN "deletes" ELSE "abandons"
  <2>1. at'[c].do = do /\ at'[c].world = at[c].world /\ at[c].do \in WorldPlace
    <3>1. Goes(c, do) /\ do \in WorldPlace /\ at[c].do \in WorldPlace
      BY <1>4 DEF JudgesRun, Does, WorldPlace
    <3> HIDE DEF do
    <3> QED
      BY <1>a, <3>1, GoesIsTyped
  <2>2. at[c].world \in World
    BY <1>a, <2>1, CallTypeFields
  <2>3. at'[c].do \in {"marks", "deletes"} => run[at[c].world].finished
    BY <2>1, <2>2 DEF OverInv
  <2> HIDE DEF do
  <2>4. UNCHANGED <<run, listed, ended>>
    BY <1>4 DEF JudgesRun
  <2> QED
    BY <1>b, <2>1, <2>3, <2>4 DEF OverInv, OthersStay
<1>5. CASE AbandonsRun(c)
  <2>1. at'[c].do \notin {"marks", "deletes"} /\ UNCHANGED <<ended, listed>>
    BY <1>a, <1>5, GoesIsTyped DEF AbandonsRun, Does, WorldPlace
  <2>2. FinishedStays
    BY <1>5, AbandonedIsTyped DEF AbandonsRun, FinishedStays, TypeInv, RunInv
  <2> QED
    BY <1>b, <2>1, <2>2, OverStays
<1>6. CASE DeletesWorld(c)
  <2>1. at'[c].do \notin {"marks", "deletes"}
    BY <1>a, <1>6, ReturnsIsTyped DEF DeletesWorld, Idle
  <2>2. run[at[c].world].finished
    BY <1>6 DEF DeletesWorld, Does, OverInv
  <2>3. listed' = [listed EXCEPT ![at[c].world] = "gone"] /\ UNCHANGED <<run, ended>>
    BY <1>6 DEF DeletesWorld
  <2>4. \A w \in World : listed'[w] = "gone" => listed[w] = "gone" \/ w = at[c].world
    BY <2>3 DEF TypeInv, ListedInv
  <2> QED
    BY <1>b, <2>1, <2>2, <2>3, <2>4 DEF OverInv, OthersStay
<1>7. CASE ClosesRun(c)
  <2>1. PICK e \in Ends(run[at[c].world]) :
           /\ run' = [run EXCEPT ![at[c].world] = e.run]
           /\ at' = [at EXCEPT ![c].do = "marks", ![c].failed = ~e.ok]
    BY <1>7 DEF ClosesRun
  <2>2. at[c].do = "closes" /\ at[c].world \in World
    BY <1>a, <1>7, CallTypeFields DEF ClosesRun, Does, WorldPlace
  <2>3. e.run.finished
    BY <2>2, EndsIsTyped DEF TypeInv, RunInv
  <2>4. FinishedStays /\ run'[at[c].world].finished
    BY <2>1, <2>2, <2>3 DEF FinishedStays, TypeInv, RunInv
  <2>5. at'[c].world = at[c].world
    BY <1>a, <2>1 DEF AtInv, CallType
  <2>6. UNCHANGED <<ended, listed>>
    BY <1>7 DEF ClosesRun
  <2> QED
    BY <1>b, <1>c, <2>4, <2>5, <2>6 DEF OverInv, OthersStay, FinishedStays
<1>8. CASE MarksRun(c)
  <2>1. at[c].do = "marks" /\ run[at[c].world].finished
    BY <1>8 DEF MarksRun, Does, OverInv
  <2>2. ended' = ended \cup {at[c].world} /\ UNCHANGED <<run, listed>>
    BY <1>8, <2>1 DEF MarksRun, Marked
  <2>3. at'[c].world = at[c].world \/ at'[c].do = "idle"
    BY <1>a, <1>8, GoesThere, ReturnsToIdle DEF MarksRun
  <2> QED
    BY <1>b, <2>1, <2>2, <2>3 DEF OverInv, OthersStay
<1>9. CASE ChecksLife(c)
  <2>1. at'[c].do \notin {"marks", "deletes"} /\ UNCHANGED <<run, ended, listed>>
    BY <1>a, <1>9, GoesThere, ReturnsToIdle DEF ChecksLife
  <2> QED
    BY <1>b, <2>1, OverStays DEF FinishedStays
<1>10. CASE SealsTruth(c)
  <2>1. at'[c].do \notin {"marks", "deletes"} /\ UNCHANGED <<run, ended, listed>>
    BY <1>a, <1>10, ReturnsToIdle DEF SealsTruth
  <2> QED
    BY <1>b, <2>1, OverStays DEF FinishedStays
<1>11. CASE RequiresSeal(c)
  <2>1. at'[c].do \notin {"marks", "deletes"} /\ UNCHANGED <<run, ended, listed>>
    BY <1>a, <1>11, GoesThere, ReturnsToIdle DEF RequiresSeal
  <2> QED
    BY <1>b, <2>1, OverStays DEF FinishedStays
<1>12. CASE BeginsRun(c)
  <2>1. at'[c].do \notin {"marks", "deletes"} /\ UNCHANGED <<run, ended, listed>>
    BY <1>a, <1>12, ReturnsToIdle DEF BeginsRun
  <2> QED
    BY <1>b, <2>1, OverStays DEF FinishedStays
<1>13. CASE FindsRun(c)
  <2>1. at'[c].do \notin {"marks", "deletes"} /\ UNCHANGED <<run, ended, listed>>
    BY <1>a, <1>13, GoesThere, ReturnsToIdle DEF FindsRun
  <2> QED
    BY <1>b, <2>1, OverStays DEF FinishedStays
<1>14. CASE StampsRun(c)
  <2>1. at'[c].do \notin {"marks", "deletes"} /\ UNCHANGED <<ended, listed>>
    BY <1>a, <1>14, ReturnsIsTyped DEF StampsRun, Idle
  <2>2. FinishedStays
    BY <1>14 DEF StampsRun, FinishedStays, TypeInv, RunInv, RunType
  <2> QED
    BY <1>b, <2>1, <2>2, OverStays
<1>15. CASE LooksAtStamp(c)
  <2>1. at'[c].do \notin {"marks", "deletes"} /\ UNCHANGED <<run, ended, listed>>
    BY <1>a, <1>15, GoesThere, ReturnsToIdle DEF LooksAtStamp
  <2> QED
    BY <1>b, <2>1, OverStays DEF FinishedStays
<1>16. CASE RevealsForScore(c)
  <2>1. at'[c].do \notin {"marks", "deletes"} /\ UNCHANGED <<run, ended, listed>>
    BY <1>a, <1>16, GoesThere, ReturnsToIdle DEF RevealsForScore
  <2> QED
    BY <1>b, <2>1, OverStays DEF FinishedStays
<1>17. CASE Scores(c)
  <2>1. at'[c].do \notin {"marks", "deletes"} /\ UNCHANGED <<run, ended, listed>>
    BY <1>a, <1>17, ReturnsToIdle DEF Scores
  <2> QED
    BY <1>b, <2>1, OverStays DEF FinishedStays
<1>18. CASE LocksStart(c)
  <2>1. at'[c].do \notin {"marks", "deletes"} /\ UNCHANGED <<run, ended, listed>>
    BY <1>a, <1>18, ReturnsIsTyped DEF LocksStart, Goes, Does, Idle, AtInv, CallType
  <2> QED
    BY <1>b, <2>1, OverStays DEF FinishedStays
<1>19. CASE RefusesWhenActive(c)
  <2>1. at'[c].do \notin {"marks", "deletes"} /\ UNCHANGED <<run, ended, listed>>
    BY <1>a, <1>19, ReturnsIsTyped DEF RefusesWhenActive, Goes, Does, Idle, AtInv, CallType
  <2> QED
    BY <1>b, <2>1, OverStays DEF FinishedStays
<1>20. CASE FindsOwnRun(c)
  <2>1. at'[c].do \notin {"marks", "deletes"} /\ UNCHANGED <<run, ended, listed>>
    BY <1>a, <1>20, GoesThere DEF FindsOwnRun, Does
  <2> QED
    BY <1>b, <2>1, OverStays DEF FinishedStays
<1>21. CASE SetsPlan(c)
  <2>1. at'[c].do \notin {"marks", "deletes"} /\ UNCHANGED <<run, ended, listed>>
    BY <1>a, <1>21, GoesThere DEF SetsPlan
  <2> QED
    BY <1>b, <2>1, OverStays DEF FinishedStays
<1>22. CASE GivesUp(c)
  <2>1. at'[c].do \notin {"marks", "deletes"} /\ UNCHANGED <<run, ended, listed>>
    BY <1>a, <1>22, GoesThere, ReturnsToIdle DEF GivesUp
  <2> QED
    BY <1>b, <2>1, OverStays DEF FinishedStays
<1>23. CASE AddsJob(c)
  <2>1. at'[c].do \notin {"marks", "deletes"} /\ UNCHANGED <<run, ended, listed>>
    BY <1>a, <1>23, ReturnsToIdle DEF AddsJob
  <2> QED
    BY <1>b, <2>1, OverStays DEF FinishedStays
<1> QED
  BY <1>1, <1>2, <1>3, <1>4, <1>5, <1>6, <1>7, <1>8, <1>9, <1>10, <1>11, <1>12, <1>13, <1>14, <1>15, <1>16, <1>17, <1>18, <1>19, <1>20, <1>21, <1>22, <1>23 DEF CallGoesOn

LEMMA JobGoesOnKeepsOver ==
  ASSUME TypeInv, OverInv, NEW w \in World, JobGoesOn(w)
  PROVE  OverInv'
<1>0. UNCHANGED <<at, listed>> /\ run[w] \in RunType /\ RunInv
  BY JobGoesOnIsTyped DEF TypeInv, RunInv
<1>1. \A c \in Caller : at[c].do \in {"marks", "deletes"} => at[c].world \in World
  BY CallTypeFields DEF TypeInv, AtInv, WorldPlace
<1>2. FinishedStays
  <2>1. CASE Executes(w) \/ FindsWorld(w) \/ MarksJobRun(w) \/ Finishes(w)
    BY <2>1 DEF Executes, FindsWorld, MarksJobRun, Finishes, FinishedStays
  <2>2. CASE Concludes(w)
    BY <1>0, <2>2 DEF Concludes, FinishedStays, RunInv, RunType
  <2>3. CASE Fails(w)
    BY <1>0, <2>3, AbandonedIsTyped DEF Fails, FinishedStays, RunInv
  <2>4. CASE ClosesJobRun(w)
    <3>1. PICK e \in Ends(run[w]) : run' = [run EXCEPT ![w] = e.run]
      BY <2>4 DEF ClosesJobRun
    <3> QED
      BY <1>0, <3>1, EndsIsTyped DEF FinishedStays, RunInv
  <2> QED
    BY <2>1, <2>2, <2>3, <2>4 DEF JobGoesOn
<1>3. UNCHANGED ended \/ (ended' = Marked(w) /\ UNCHANGED run)
  <2>1. CASE MarksJobRun(w)
    BY <2>1 DEF MarksJobRun
  <2>2. CASE ~MarksJobRun(w)
    <3>1. UNCHANGED ended
      BY <2>2 DEF JobGoesOn, Executes, Concludes, Fails, FindsWorld, ClosesJobRun, Finishes
    <3> QED
      BY <3>1
  <2> QED
    BY <2>1, <2>2
<1>4. \A v \in ended' : v \in World => run'[v].finished
  BY <1>2, <1>3 DEF OverInv, FinishedStays, Marked
<1> QED
  BY <1>0, <1>1, <1>2, <1>4 DEF OverInv, FinishedStays

-----------------------------------------------------------------------------
(* A step that makes no job active and does not begin a start leaves one    *)
(* active job at most.                                                      *)
NoneBecomesActive == \A v \in World : Active(v)' => Active(v)

LEMMA StartStays ==
  ASSUME StartInv, NoneBecomesActive, NEW c \in Caller, OthersStay(c),
         \A b \in Caller \ {c} : startMu = b => startMu' = b,
         at'[c].do \in {"locks", "refuses", "plans", "intends", "adds"} => at'[c].call = "start",
         StartUnderWay(at'[c]) => startMu' = c,
         StartUnderWay(at'[c]) /\ at'[c].do # "refuses" => NoActiveJob
  PROVE  StartInv'
BY DEF StartInv, NoneBecomesActive, NoActiveJob, OneActiveJob, OthersStay, StartUnderWay

LEMMA NewCallKeepsStart ==
  ASSUME TypeInv, StartInv, NEW c \in Caller, NewCall(c)
  PROVE  StartInv'
<1>1. Begins(c) /\ UNCHANGED startMu
  BY NewCallIsTyped
<1>2. NoneBecomesActive
  <2>1. CASE \E w \in World : StopJob(c, w)
    <3>1. PICK w \in World : job' = [job EXCEPT ![w] = Asked(@)]
      BY <2>1 DEF StopJob
    <3> QED
      BY <3>1, AskedIsTyped DEF NoneBecomesActive, Active, TypeInv, JobInv
  <2>2. CASE UNCHANGED job
    BY <2>2 DEF NoneBecomesActive, Active
  <2> QED
    BY <2>1, <2>2 DEF NewCall, CreateWorld, StartJob, Find, RevealTruth, UnblindsTruth
<1>3. /\ ~StartUnderWay(at'[c])
      /\ at'[c].do \in {"locks", "refuses", "plans", "intends", "adds"} => at'[c].call = "start"
  BY <1>1 DEF Begins, StartUnderWay
<1> QED
  BY <1>1, <1>2, <1>3, StartStays DEF Begins

LEMMA MovesKeepsStart ==
  ASSUME StartInv, NoneBecomesActive, NEW c \in Caller, OthersStay(c), Moves(c),
         at[c].do \notin {"refuses"},
         at'[c].do \in {"plans", "intends", "adds"} => at[c].call = "start"
  PROVE  StartInv'
<1>1. StartUnderWay(at'[c]) => StartUnderWay(at[c]) /\ at[c].do # "refuses"
  BY DEF Moves, StartUnderWay, WorldPlace
<1>2. StartUnderWay(at[c]) => startMu = c
  BY DEF StartInv
<1>3. StartUnderWay(at[c]) /\ at[c].do # "refuses" => NoActiveJob
  BY DEF StartInv
<1>4. at'[c].do \in {"locks", "refuses", "plans", "intends", "adds"} => at'[c].call = "start"
  BY DEF Moves, WorldPlace
<1>5. startMu' = startMu
  BY DEF Moves
<1> QED
  BY <1>1, <1>2, <1>3, <1>4, <1>5, StartStays

LEMMA ReturnKeepsStart ==
  ASSUME TypeInv, StartInv, NoneBecomesActive, NEW c \in Caller, Returns(c)
  PROVE  StartInv'
<1>1. OthersStay(c) /\ at'[c] = Idle /\ \A b \in Caller \ {c} : startMu = b => startMu' = b
  BY ReturnsIsTyped DEF TypeInv
<1>2. /\ ~StartUnderWay(at'[c])
      /\ at'[c].do \notin {"locks", "refuses", "plans", "intends", "adds"}
  BY <1>1 DEF Idle, StartUnderWay
<1> QED
  BY <1>1, <1>2, StartStays

LEMMA CallGoesOnKeepsStart ==
  ASSUME TypeInv, StartInv, NEW c \in Caller, CallGoesOn(c)
  PROVE  StartInv'
<1>a. AtInv /\ JobInv /\ OthersStay(c)
  BY CallGoesOnIsTyped DEF TypeInv
<1>1. CASE PublishWorld(c)
  <2>1. NoneBecomesActive
    BY <1>1 DEF PublishWorld, NoneBecomesActive, Active
  <2>2. CASE Returns(c)
    BY <2>1, <2>2, ReturnKeepsStart
  <2>3. CASE ~Returns(c)
    <3>1. Moves(c) /\ at[c].do # "refuses" /\ (at'[c].do \in {"plans", "intends", "adds"} => at[c].call = "start")
      BY <1>a, <1>1, <2>3, GoesThere DEF PublishWorld, Does, Moves, WorldPlace
    <3> QED
      BY <1>a, <2>1, <3>1, MovesKeepsStart
  <2> QED
    BY <2>2, <2>3
<1>2. CASE StopsJob(c)
  <2>1. NoneBecomesActive
    BY <1>a, <1>2, AskedIsTyped DEF StopsJob, NoneBecomesActive, Active, JobInv
  <2>2. Moves(c) /\ at[c].do # "refuses" /\ (at'[c].do \in {"plans", "intends", "adds"} => at[c].call = "start")
    BY <1>a, <1>2, GoesThere DEF StopsJob, Does, Moves, WorldPlace
  <2> QED
    BY <1>a, <2>1, <2>2, MovesKeepsStart
<1>3. CASE AwaitsJob(c)
  <2>1. NoneBecomesActive
    BY <1>3 DEF AwaitsJob, NoneBecomesActive, Active
  <2>2. Moves(c) /\ at[c].do # "refuses" /\ (at'[c].do \in {"plans", "intends", "adds"} => at[c].call = "start")
    BY <1>a, <1>3, GoesThere DEF AwaitsJob, Does, Moves, WorldPlace
  <2> QED
    BY <1>a, <2>1, <2>2, MovesKeepsStart
<1>4. CASE JudgesRun(c)
  <2>1. NoneBecomesActive
    BY <1>4 DEF JudgesRun, NoneBecomesActive, Active
  <2>2. Moves(c) /\ at[c].do # "refuses" /\ (at'[c].do \in {"plans", "intends", "adds"} => at[c].call = "start")
    BY <1>a, <1>4, GoesThere DEF JudgesRun, Does, Moves, WorldPlace
  <2> QED
    BY <1>a, <2>1, <2>2, MovesKeepsStart
<1>5. CASE AbandonsRun(c)
  <2>1. NoneBecomesActive
    BY <1>5 DEF AbandonsRun, NoneBecomesActive, Active
  <2>2. Moves(c) /\ at[c].do # "refuses" /\ (at'[c].do \in {"plans", "intends", "adds"} => at[c].call = "start")
    BY <1>a, <1>5, GoesThere DEF AbandonsRun, Does, Moves, WorldPlace
  <2> QED
    BY <1>a, <2>1, <2>2, MovesKeepsStart
<1>6. CASE DeletesWorld(c)
  <2>1. NoneBecomesActive
    BY <1>6 DEF DeletesWorld, NoneBecomesActive, Active
  <2> QED
    BY <1>6, <2>1, ReturnKeepsStart DEF DeletesWorld
<1>7. CASE ClosesRun(c)
  <2>1. NoneBecomesActive
    BY <1>7 DEF ClosesRun, NoneBecomesActive, Active
  <2>2. Moves(c) /\ at[c].do # "refuses" /\ (at'[c].do \in {"plans", "intends", "adds"} => at[c].call = "start")
    BY <1>a, <1>7 DEF ClosesRun, Does, Moves, WorldPlace, AtInv, CallType
  <2> QED
    BY <1>a, <2>1, <2>2, MovesKeepsStart
<1>8. CASE MarksRun(c)
  <2>1. NoneBecomesActive
    BY <1>8 DEF MarksRun, NoneBecomesActive, Active
  <2>2. CASE Returns(c)
    BY <2>1, <2>2, ReturnKeepsStart
  <2>3. CASE ~Returns(c)
    <3>1. Moves(c) /\ at[c].do # "refuses" /\ (at'[c].do \in {"plans", "intends", "adds"} => at[c].call = "start")
      BY <1>a, <1>8, <2>3, GoesThere DEF MarksRun, Does, Moves, WorldPlace
    <3> QED
      BY <1>a, <2>1, <3>1, MovesKeepsStart
  <2> QED
    BY <2>2, <2>3
<1>9. CASE ChecksLife(c)
  <2>1. NoneBecomesActive
    BY <1>9 DEF ChecksLife, NoneBecomesActive, Active
  <2>2. CASE Returns(c)
    BY <2>1, <2>2, ReturnKeepsStart
  <2>3. CASE ~Returns(c)
    <3>1. Moves(c) /\ at[c].do # "refuses" /\ (at'[c].do \in {"plans", "intends", "adds"} => at[c].call = "start")
      BY <1>a, <1>9, <2>3, GoesThere DEF ChecksLife, Does, Moves, WorldPlace
    <3> QED
      BY <1>a, <2>1, <3>1, MovesKeepsStart
  <2> QED
    BY <2>2, <2>3
<1>10. CASE SealsTruth(c)
  <2>1. NoneBecomesActive
    BY <1>10 DEF SealsTruth, NoneBecomesActive, Active
  <2> QED
    BY <1>10, <2>1, ReturnKeepsStart DEF SealsTruth
<1>11. CASE RequiresSeal(c)
  <2>1. NoneBecomesActive
    BY <1>11 DEF RequiresSeal, NoneBecomesActive, Active
  <2>2. CASE Returns(c)
    BY <2>1, <2>2, ReturnKeepsStart
  <2>3. CASE ~Returns(c)
    <3>1. Moves(c) /\ at[c].do # "refuses" /\ (at'[c].do \in {"plans", "intends", "adds"} => at[c].call = "start")
      BY <1>a, <1>11, <2>3, GoesThere DEF RequiresSeal, Does, Moves, WorldPlace
    <3> QED
      BY <1>a, <2>1, <3>1, MovesKeepsStart
  <2> QED
    BY <2>2, <2>3
<1>12. CASE BeginsRun(c)
  <2>1. NoneBecomesActive
    BY <1>12 DEF BeginsRun, NoneBecomesActive, Active
  <2> QED
    BY <1>12, <2>1, ReturnKeepsStart DEF BeginsRun
<1>13. CASE FindsRun(c)
  <2>1. NoneBecomesActive
    BY <1>13 DEF FindsRun, NoneBecomesActive, Active
  <2>2. CASE Returns(c)
    BY <2>1, <2>2, ReturnKeepsStart
  <2>3. CASE ~Returns(c)
    <3>1. Moves(c) /\ at[c].do # "refuses" /\ (at'[c].do \in {"plans", "intends", "adds"} => at[c].call = "start")
      BY <1>a, <1>13, <2>3, GoesThere DEF FindsRun, Does, Moves, WorldPlace
    <3> QED
      BY <1>a, <2>1, <3>1, MovesKeepsStart
  <2> QED
    BY <2>2, <2>3
<1>14. CASE StampsRun(c)
  <2>1. NoneBecomesActive
    BY <1>14 DEF StampsRun, NoneBecomesActive, Active
  <2> QED
    BY <1>14, <2>1, ReturnKeepsStart DEF StampsRun
<1>15. CASE LooksAtStamp(c)
  <2>1. NoneBecomesActive
    BY <1>15 DEF LooksAtStamp, NoneBecomesActive, Active
  <2>2. CASE Returns(c)
    BY <2>1, <2>2, ReturnKeepsStart
  <2>3. CASE ~Returns(c)
    <3>1. Moves(c) /\ at[c].do # "refuses" /\ (at'[c].do \in {"plans", "intends", "adds"} => at[c].call = "start")
      BY <1>a, <1>15, <2>3, GoesThere DEF LooksAtStamp, Does, Moves, WorldPlace
    <3> QED
      BY <1>a, <2>1, <3>1, MovesKeepsStart
  <2> QED
    BY <2>2, <2>3
<1>16. CASE RevealsForScore(c)
  <2>1. NoneBecomesActive
    BY <1>16 DEF RevealsForScore, NoneBecomesActive, Active
  <2>2. CASE Returns(c)
    BY <2>1, <2>2, ReturnKeepsStart
  <2>3. CASE ~Returns(c)
    <3>1. Moves(c) /\ at[c].do # "refuses" /\ (at'[c].do \in {"plans", "intends", "adds"} => at[c].call = "start")
      BY <1>a, <1>16, <2>3, GoesThere DEF RevealsForScore, Does, Moves, WorldPlace
    <3> QED
      BY <1>a, <2>1, <3>1, MovesKeepsStart
  <2> QED
    BY <2>2, <2>3
<1>17. CASE Scores(c)
  <2>1. NoneBecomesActive
    BY <1>17 DEF Scores, NoneBecomesActive, Active
  <2> QED
    BY <1>17, <2>1, ReturnKeepsStart DEF Scores
<1>18. CASE LocksStart(c)
  <2>1. NoneBecomesActive
    BY <1>18 DEF LocksStart, NoneBecomesActive, Active
  <2>2. at[c].do = "locks" /\ at'[c].do = "refuses" /\ at'[c].call = at[c].call
    BY <1>a, <1>18, GoesThere DEF LocksStart, Does
  <2>3. startMu' = c /\ startMu = Nobody /\ startMu \notin Caller
    BY <1>18, DirectorAssumption DEF LocksStart, StartFree
  <2> QED
    BY <1>a, <2>1, <2>2, <2>3, StartStays DEF StartInv
<1>19. CASE RefusesWhenActive(c)
  <2>1. NoneBecomesActive
    BY <1>19 DEF RefusesWhenActive, NoneBecomesActive, Active
  <2>2. CASE Returns(c)
    BY <2>1, <2>2, ReturnKeepsStart
  <2>3. CASE ~Returns(c)
    <3>1. NoActiveJob /\ at[c].do = "refuses" /\ startMu' = startMu
      BY <1>19, <2>3 DEF RefusesWhenActive, Does, NoActiveJob
    <3>2. PICK w \in World : at' = [at EXCEPT ![c].do = "builds", ![c].world = w]
      BY <1>19, <2>3 DEF RefusesWhenActive
    <3>3. at'[c].do = "builds"
      BY <1>a, <3>2 DEF AtInv, CallType
    <3>4. StartUnderWay(at[c]) /\ startMu = c
      BY <3>1 DEF StartInv, StartUnderWay
    <3> QED
      BY <1>a, <2>1, <3>1, <3>3, <3>4, StartStays
  <2> QED
    BY <2>2, <2>3
<1>20. CASE FindsOwnRun(c)
  <2>1. NoneBecomesActive
    BY <1>20 DEF FindsOwnRun, NoneBecomesActive, Active
  <2>2. CASE UNCHANGED at
    BY <1>a, <1>20, <2>1, <2>2, StartStays DEF FindsOwnRun, OthersStay, StartInv
  <2>3. CASE Goes(c, "intends")
    <3>1. Moves(c) /\ at[c].do = "plans"
      BY <1>a, <1>20, <2>3, GoesThere DEF FindsOwnRun, Does, Moves, WorldPlace
    <3> QED
      BY <1>a, <2>1, <3>1, MovesKeepsStart DEF StartInv
  <2> QED
    BY <1>20, <2>2, <2>3 DEF FindsOwnRun
<1>21. CASE SetsPlan(c)
  <2>1. NoneBecomesActive
    BY <1>21 DEF SetsPlan, NoneBecomesActive, Active
  <2>2. Moves(c) /\ at[c].do # "refuses" /\ (at'[c].do \in {"plans", "intends", "adds"} => at[c].call = "start")
    BY <1>a, <1>21, GoesThere DEF SetsPlan, Does, Moves, WorldPlace, StartInv
  <2> QED
    BY <1>a, <2>1, <2>2, MovesKeepsStart
<1>22. CASE GivesUp(c)
  <2>1. NoneBecomesActive
    BY <1>22 DEF GivesUp, NoneBecomesActive, Active
  <2>2. CASE Returns(c)
    BY <2>1, <2>2, ReturnKeepsStart
  <2>3. CASE ~Returns(c)
    <3>1. Moves(c) /\ at[c].do # "refuses" /\ (at'[c].do \in {"plans", "intends", "adds"} => at[c].call = "start")
      BY <1>a, <1>22, <2>3, GoesThere DEF GivesUp, Does, Moves, WorldPlace
    <3> QED
      BY <1>a, <2>1, <3>1, MovesKeepsStart
  <2> QED
    BY <2>2, <2>3
<1>23. CASE AddsJob(c)
  <2>1. at[c].do = "adds" /\ Returns(c) /\ job' = [job EXCEPT ![at[c].world] = NewJob]
    BY <1>23 DEF AddsJob, Does
  <2>2. StartUnderWay(at[c]) /\ startMu = c /\ NoActiveJob
    BY <2>1 DEF StartInv, StartUnderWay
  <2>3. \A b \in Caller \ {c} : ~StartUnderWay(at[b])
    BY <2>2 DEF StartInv
  <2>4. \A b \in Caller \ {c} : ~StartUnderWay(at'[b]) /\ at'[b] = at[b]
    BY <1>a, <2>3 DEF OthersStay
  <2>5. at'[c] = Idle
    BY <1>a, <2>1, ReturnsIsTyped
  <2>6. ~StartUnderWay(at'[c]) /\ at'[c].do \notin {"locks", "refuses", "plans", "intends", "adds"}
    BY <2>5 DEF Idle, StartUnderWay
  <2>7. \A w \in World : Active(w)' => w = at[c].world
    BY <1>a, <2>1, <2>2 DEF NoActiveJob, Active, JobInv
  <2>8. OneActiveJob'
    BY <2>7 DEF OneActiveJob
  <2>9. /\ \A b \in Caller : at'[b].do \in {"locks", "refuses", "plans", "intends", "adds"} => at'[b].call = "start"
        /\ \A b \in Caller : ~StartUnderWay(at'[b])
    BY <2>4, <2>6 DEF StartInv
  <2> QED
    BY <2>8, <2>9 DEF StartInv
<1> QED
  BY <1>1, <1>2, <1>3, <1>4, <1>5, <1>6, <1>7, <1>8, <1>9, <1>10, <1>11, <1>12, <1>13, <1>14, <1>15, <1>16, <1>17, <1>18, <1>19, <1>20, <1>21, <1>22, <1>23 DEF CallGoesOn

LEMMA JobGoesOnKeepsStart ==
  ASSUME TypeInv, StartInv, NEW w \in World, JobGoesOn(w)
  PROVE  StartInv'
<1>1. (\A v \in World : Active(v)' => Active(v)) /\ UNCHANGED <<at, startMu>>
  BY JobGoesOnIsTyped
<1> QED
  BY <1>1 DEF StartInv, NoActiveJob, OneActiveJob

-----------------------------------------------------------------------------
(* What a job says follows the run it drives.                               *)
Told(j, r) ==
  /\ j.pc \in {"ends", "closes"} /\ j.result # "failed" => r.termination = j.result
  /\ j.pc \in {"marks", "finishes", "done"} /\ j.result # "failed" =>
       /\ r.finished /\ r.artifact.out /\ r.artifact.termination = j.result
       /\ r.artifact.complete = ~r.abandoned
  /\ j.pc = "concludes" => j.result # "failed"
  /\ j.pc # "executes" /\ j.pc # "none" => j.result # "none"
  /\ j.state \in {"completed", "stopped"} => j.pc = "done" /\ j.result = j.state

TruthInv == \A w \in World : Told(job[w], run[w])

(* What others do to a run leaves its termination, and once it is finished  *)
(* its artifact; what they do to a job is to add it or to ask it to stop.   *)
RunKept(r, s) ==
  /\ s.termination = r.termination
  /\ r.finished => s.finished /\ s.artifact = r.artifact /\ s.abandoned = r.abandoned

JobKept(j, k) ==
  \/ k = NewJob
  \/ k.pc = j.pc /\ k.result = j.result /\ k.state \in {j.state, "stopping"}

LEMMA KeptIsTold ==
  ASSUME NEW r, NEW s, NEW j, NEW k, Told(j, r), RunKept(r, s), JobKept(j, k)
  PROVE  Told(k, s)
<1>1. CASE k = NewJob
  BY <1>1 DEF Told, NewJob
<1>2. CASE k.pc = j.pc /\ k.result = j.result /\ k.state \in {j.state, "stopping"}
  BY <1>2 DEF Told, RunKept
<1> QED
  BY <1>1, <1>2 DEF JobKept

LEMMA EndsKeeps ==
  ASSUME NEW r \in RunType, NEW e \in Ends(r)
  PROVE  /\ RunKept(r, e.run)
         /\ e.ok => /\ e.run.artifact.out /\ e.run.artifact.termination = r.termination
                    /\ e.run.artifact.complete = ~e.run.abandoned
<1>1. CASE r.finished
  <2>1. e = [run |-> r, ok |-> FALSE]
    BY <1>1 DEF Ends
  <2> QED
    BY <2>1 DEF RunKept
<1>2. CASE ~r.finished
  <2> DEFINE s == [r EXCEPT !.finished = TRUE, !.artifact = Artifact(r, TRUE)]
             t == [r EXCEPT !.finished = TRUE, !.artifact = Artifact(r, FALSE)]
             u == [r EXCEPT !.finished = TRUE]
  <2>1. /\ s.termination = r.termination /\ t.termination = r.termination /\ u.termination = r.termination
        /\ s.artifact = Artifact(r, TRUE) /\ s.abandoned = r.abandoned
    BY DEF RunType
  <2>2. /\ Artifact(r, TRUE).out /\ Artifact(r, TRUE).termination = r.termination
        /\ Artifact(r, TRUE).complete = ~r.abandoned
    BY DEF Artifact
  <2>3. Ends(r) = {[run |-> s, ok |-> TRUE], [run |-> t, ok |-> FALSE], [run |-> u, ok |-> FALSE]}
    BY <1>2 DEF Ends
  <2> HIDE DEF s, t, u
  <2>4. /\ [run |-> s, ok |-> TRUE].run = s /\ [run |-> s, ok |-> TRUE].ok = TRUE
        /\ [run |-> t, ok |-> FALSE].run = t /\ [run |-> t, ok |-> FALSE].ok = FALSE
        /\ [run |-> u, ok |-> FALSE].run = u /\ [run |-> u, ok |-> FALSE].ok = FALSE
    OBVIOUS
  <2>5. CASE e = [run |-> s, ok |-> TRUE]
    BY <1>2, <2>1, <2>2, <2>4, <2>5 DEF RunKept
  <2>6. CASE e = [run |-> t, ok |-> FALSE]
    BY <1>2, <2>1, <2>4, <2>6 DEF RunKept
  <2>7. CASE e = [run |-> u, ok |-> FALSE]
    BY <1>2, <2>1, <2>4, <2>7 DEF RunKept
  <2> QED
    BY <2>3, <2>5, <2>6, <2>7
<1> QED
  BY <1>1, <1>2

LEMMA AskedKeeps ==
  ASSUME NEW j \in JobType
  PROVE  JobKept(j, Asked(j))
BY DEF JobKept, Asked, JobType

LEMMA CallKeeps ==
  ASSUME TypeInv, NEW c \in Caller, NewCall(c) \/ CallGoesOn(c), NEW w \in World
  PROVE  RunKept(run[w], run'[w]) /\ JobKept(job[w], job'[w])
<1>a. run[w] \in RunType /\ job[w] \in JobType /\ RunInv /\ JobInv
  BY DEF TypeInv, RunInv, JobInv
<1>b. RunKept(run[w], run[w]) /\ JobKept(job[w], job[w])
  BY DEF RunKept, JobKept
<1>1. CASE UNCHANGED <<run, job>>
  BY <1>b, <1>1
<1>2. CASE AbandonsRun(c)
  <2>1. run'[w] = run[w] \/ run'[w] = Abandoned(run[w])
    BY <1>a, <1>2 DEF AbandonsRun, RunInv
  <2>2. RunKept(run[w], Abandoned(run[w]))
    BY <1>a DEF RunKept, Abandoned, RunType
  <2> QED
    BY <1>b, <1>2, <2>1, <2>2 DEF AbandonsRun
<1>3. CASE ClosesRun(c)
  <2>1. PICK e \in Ends(run[at[c].world]) : run' = [run EXCEPT ![at[c].world] = e.run]
    BY <1>3 DEF ClosesRun
  <2>2. run'[w] = run[w] \/ (w = at[c].world /\ run'[w] = e.run)
    BY <1>a, <2>1 DEF RunInv
  <2>3. w = at[c].world => RunKept(run[w], e.run)
    BY <1>a, EndsKeeps
  <2> QED
    BY <1>b, <1>3, <2>2, <2>3 DEF ClosesRun
<1>4. CASE StampsRun(c)
  <2>1. run'[w] = run[w] \/ run'[w] = [run[w] EXCEPT !.stamped = TRUE]
    BY <1>a, <1>4 DEF StampsRun, RunInv
  <2>2. RunKept(run[w], [run[w] EXCEPT !.stamped = TRUE])
    BY <1>a DEF RunKept, RunType
  <2> QED
    BY <1>b, <1>4, <2>1, <2>2 DEF StampsRun
<1>5. CASE StopsJob(c) \/ \E v \in World : StopJob(c, v)
  <2>1. job'[w] = job[w] \/ job'[w] = Asked(job[w])
    BY <1>a, <1>5 DEF StopsJob, StopJob, JobInv
  <2>2. UNCHANGED run
    BY <1>5 DEF StopsJob, StopJob
  <2> QED
    BY <1>a, <1>b, <2>1, <2>2, AskedKeeps
<1>6. CASE AddsJob(c)
  <2>1. job'[w] = job[w] \/ job'[w] = NewJob
    BY <1>a, <1>6 DEF AddsJob, JobInv
  <2>2. UNCHANGED run
    BY <1>6 DEF AddsJob
  <2> QED
    BY <1>b, <2>1, <2>2 DEF JobKept
<1>7. NewCall(c) => UNCHANGED <<run, job>> \/ \E v \in World : StopJob(c, v)
  BY DEF NewCall, CreateWorld, StartJob, Find, RevealTruth, UnblindsTruth
<1>8. CallGoesOn(c) =>
        UNCHANGED <<run, job>> \/ AbandonsRun(c) \/ ClosesRun(c) \/ StampsRun(c) \/ StopsJob(c) \/ AddsJob(c)
  BY DEF CallGoesOn, PublishWorld, AwaitsJob, JudgesRun, DeletesWorld, MarksRun, ChecksLife, SealsTruth,
         RequiresSeal, BeginsRun, FindsRun, LooksAtStamp, RevealsForScore, Scores, LocksStart,
         RefusesWhenActive, FindsOwnRun, SetsPlan, GivesUp
<1> QED
  BY <1>1, <1>2, <1>3, <1>4, <1>5, <1>6, <1>7, <1>8

LEMMA CallKeepsTruth ==
  ASSUME TypeInv, TruthInv, NEW c \in Caller, NewCall(c) \/ CallGoesOn(c)
  PROVE  TruthInv'
BY CallKeeps, KeptIsTold DEF TruthInv

LEMMA JobKeepsTruth ==
  ASSUME TypeInv, TruthInv, NEW w \in World, JobGoesOn(w)
  PROVE  TruthInv'
<1>a. RunInv /\ JobInv /\ run[w] \in RunType /\ job[w] \in JobType /\ Told(job[w], run[w])
  BY DEF TypeInv, RunInv, JobInv, TruthInv
<1>b. \A v \in World \ {w} : run'[v] = run[v] /\ job'[v] = job[v]
  BY <1>a DEF JobGoesOn, Executes, Concludes, Fails, FindsWorld, ClosesJobRun, MarksJobRun, Finishes,
              JobGoes, RunInv, JobInv
<1>c. \A pc, result : JobGoes(w, pc, result) =>
        job'[w].pc = pc /\ job'[w].result = result /\ job'[w].state = job[w].state
  BY <1>a DEF JobGoes, JobInv, JobType
<1>d. Told(job'[w], run'[w])
  <2>1. CASE Executes(w)
    BY <1>a, <1>c, <2>1 DEF Executes, Told
  <2>2. CASE Concludes(w)
    <3>1. CASE run[w].finished
      BY <1>a, <1>c, <2>2, <3>1 DEF Concludes, Told
    <3>2. CASE ~run[w].finished
      <4>1. run'[w].termination = job[w].result
        BY <1>a, <2>2, <3>2 DEF Concludes, RunInv, RunType
      <4> QED
        BY <1>a, <1>c, <2>2, <3>2, <4>1 DEF Concludes, Told
    <3> QED
      BY <3>1, <3>2
  <2>3. CASE Fails(w)
    BY <1>a, <1>c, <2>3 DEF Fails, Told
  <2>4. CASE FindsWorld(w)
    BY <1>a, <1>c, <2>4 DEF FindsWorld, Told
  <2>5. CASE ClosesJobRun(w)
    <3>1. PICK e \in Ends(run[w]) : run' = [run EXCEPT ![w] = e.run] /\ JobGoes(w, "marks", Result(w, e.ok))
      BY <2>5 DEF ClosesJobRun
    <3>2. run'[w] = e.run /\ e.run.finished /\ e.ok \in BOOLEAN
      BY <1>a, <3>1, EndsIsTyped DEF RunInv
    <3>3. e.ok => /\ e.run.artifact.out /\ e.run.artifact.termination = run[w].termination
                  /\ e.run.artifact.complete = ~e.run.abandoned
      BY <1>a, EndsKeeps
    <3>4. job'[w].pc = "marks" /\ job'[w].result = Result(w, e.ok) /\ job'[w].state = job[w].state
      BY <1>c, <3>1
    <3>5. job[w].pc = "closes"
      BY <2>5 DEF ClosesJobRun
    <3> QED
      BY <1>a, <3>2, <3>3, <3>4, <3>5 DEF Told, Result
  <2>6. CASE MarksJobRun(w)
    BY <1>a, <1>c, <2>6 DEF MarksJobRun, Told
  <2>7. CASE Finishes(w)
    <3>1. job'[w].state = job[w].result /\ job'[w].pc = "done" /\ job'[w].result = job[w].result
      BY <1>a, <2>7 DEF Finishes, JobInv, JobType
    <3> QED
      BY <1>a, <2>7, <3>1 DEF Finishes, Told
  <2> QED
    BY <2>1, <2>2, <2>3, <2>4, <2>5, <2>6, <2>7 DEF JobGoesOn
<1> QED
  BY <1>b, <1>d DEF TruthInv

-----------------------------------------------------------------------------
LEMMA InitHolds == Init => TypeInv /\ OverInv /\ StartInv /\ TruthInv
<1> SUFFICES ASSUME Init PROVE TypeInv /\ OverInv /\ StartInv /\ TruthInv
  OBVIOUS
<1>1. NewRun \in RunType /\ NoJob \in JobType
  BY DEF NewRun, NoArtifact, NoJob, RunType, ArtifactType, JobType, JobPlace, Outcome
<1>2. Idle \in CallType
  BY DirectorAssumption DEF Idle, CallType, CallName, NoWorldPlace, WorldOrNone
<1>3. TypeInv
  BY <1>1, <1>2 DEF Init, TypeInv, AtInv, RunInv, JobInv, ListedInv
<1>4. OverInv
  BY DEF Init, OverInv, Idle
<1>5. NoActiveJob
  BY DEF Init, NoActiveJob, Active, NoJob
<1>6. StartInv
  BY <1>5 DEF Init, StartInv, StartUnderWay, OneActiveJob, NoActiveJob, Idle
<1>7. TruthInv
  BY DEF Init, TruthInv, Told, NoJob
<1> QED
  BY <1>3, <1>4, <1>6, <1>7

LEMMA NextHolds ==
  TypeInv /\ OverInv /\ StartInv /\ TruthInv /\ [Next]_vars => (TypeInv /\ OverInv /\ StartInv /\ TruthInv)'
<1> SUFFICES ASSUME TypeInv, OverInv, StartInv, TruthInv, [Next]_vars
             PROVE  (TypeInv /\ OverInv /\ StartInv /\ TruthInv)'
  OBVIOUS
<1>1. CASE \E c \in Caller : NewCall(c)
  BY <1>1, NewCallIsTyped, NewCallKeepsOver, NewCallKeepsStart, CallKeepsTruth
<1>2. CASE \E c \in Caller : CallGoesOn(c)
  BY <1>2, CallGoesOnIsTyped, CallGoesOnKeepsOver, CallGoesOnKeepsStart, CallKeepsTruth
<1>3. CASE \E w \in World : JobGoesOn(w)
  BY <1>3, JobGoesOnIsTyped, JobGoesOnKeepsOver, JobGoesOnKeepsStart, JobKeepsTruth
<1>4. CASE UNCHANGED vars
  <2>1. TypeInv'
    BY <1>4 DEF vars, TypeInv, AtInv, RunInv, JobInv, ListedInv
  <2>2. OverInv'
    BY <1>4 DEF vars, OverInv
  <2>3. StartInv'
    BY <1>4 DEF vars, StartInv, NoActiveJob, OneActiveJob, Active
  <2>4. TruthInv'
    BY <1>4 DEF vars, TruthInv
  <2> QED
    BY <2>1, <2>2, <2>3, <2>4
<1> QED
  BY <1>1, <1>2, <1>3, <1>4 DEF Next, Terminated

LEMMA AlwaysHolds == Spec => [](TypeInv /\ OverInv /\ StartInv /\ TruthInv)
<1> QED
  BY InitHolds, NextHolds, PTL DEF Spec

(* However calls and jobs meet, one job drives a run at a time: a start     *)
(* that has found none active holds startMu until its job is in the         *)
(* registry, and nothing else makes a job active (job_use_cases.go:15).     *)
THEOREM DirectorRunsOneJob == Spec => []OneActiveJob
<1>1. StartInv => OneActiveJob
  BY DEF StartInv
<1> QED
  BY <1>1, AlwaysHolds, PTL

(* No label is readable before its run is over, unless it was unblinded: a  *)
(* world is only marked as ended, and only deleted, when its run has        *)
(* finished, and a finished run stays so (store.go:69, director.go:117).    *)
THEOREM DirectorStaysBlind == Spec => []BlindUntilOver
<1>1. TypeInv /\ OverInv => BlindUntilOver
  <2> SUFFICES ASSUME TypeInv, OverInv, NEW w \in World, MayRead(w), w \notin unblinded
               PROVE  run[w].finished
    BY DEF BlindUntilOver
  <2>1. listed[w] \in {"no", "yes", "gone"}
    BY DEF TypeInv, ListedInv
  <2>2. listed[w] = "gone" \/ w \in ended
    BY <2>1 DEF MayRead, RunIsOpen
  <2> QED
    BY <2>2 DEF OverInv
<1> QED
  BY <1>1, AlwaysHolds, PTL

(* A job that says completed or stopped has ended its run itself, with an   *)
(* artifact that says the same and is whole exactly if nobody abandoned the *)
(* run: only the job sets the termination, an artifact is written once, and *)
(* a run that has ended is not abandoned (job_run.go:23, finalize.go:20).   *)
THEOREM DirectorJobIsTruthful == Spec => []JobTellsTheTruth
<1>1. TruthInv => JobTellsTheTruth
  BY DEF TruthInv, Told, JobTellsTheTruth
<1> QED
  BY <1>1, AlwaysHolds, PTL
=============================================================================
