------------------------------ MODULE Job_proofs ------------------------------
(***************************************************************************)
(* For every plan and any number of operators: an immediate command never   *)
(* meets the end of the run it is for, a planned clear finds the fault the  *)
(* plan injected, and a control grants the chunks it says and no more.      *)
(***************************************************************************)
EXTENDS Job, FiniteSetTheorems, TLAPS

-----------------------------------------------------------------------------
(* Types, and where in the plan the goroutine is.                           *)

OnTheWay == {"gate", "held", "ask", "pace", "pacing", "settle", "execute", "running", "note"}

Place ==
    /\ FlowType
    /\ pc \in OnTheWay => done < Len(Plan)
    /\ pc \in {"close", "end", "over"} => outcome # "none"
    /\ advances <= done

LEMMA PlanFacts ==
    /\ Plan \in Seq(PlanCommand) /\ Len(Plan) \in Nat
    /\ \A i \in 1..Len(Plan) : Plan[i] \in PlanCommand
    /\ MaxCalls \in Nat
BY PlanAssumption

LEMMA PlannedFaults ==
    /\ \A i \in 1..Len(Plan) : Plan[i].op \in {"inject", "clear"} => Plan[i].fault \in PlannedFault
    /\ PlannedFault \subseteq Nat
<1>1. Injections(Len(Plan)) = {i \in 1..Len(Plan) : Plan[i].op = "inject"}
  BY DEF Injections
<1>2. \A i \in Injections(Len(Plan)) : Plan[i].fault \in PlannedFault
  BY DEF PlannedFault
<1>3. ASSUME NEW i \in 1..Len(Plan), Plan[i].op = "clear"
      PROVE  Plan[i].fault \in PlannedFault
  <2>1. PICK j \in Injections(i) : Plan[j].fault = Plan[i].fault
    BY <1>3, PlanAssumption
  <2>2. j \in Injections(Len(Plan))
    BY PlanFacts DEF Injections
  <2> QED
    BY <2>1, <2>2, <1>2
<1>4. \A i \in Injections(Len(Plan)) : Plan[i].fault \in Nat
  BY <1>1, PlanFacts DEF PlanCommand
<1> QED
  BY <1>1, <1>2, <1>3, <1>4 DEF PlannedFault

-----------------------------------------------------------------------------
(* The goroutine's way through the plan, and what the controls grant it.    *)

(* The state the operators see is the one of the gate and the stop request; *)
(* a parked job has been granted at most the chunk that was in flight and   *)
(* the step it takes, and only a stop that came before the first chunk lets *)
(* the goroutine pass the gate once more.                                   *)
Grants ==
    /\ pc # "over" => Active /\ (state = "paused" <=> paused) /\ (state = "stopping" <=> stopping)
    /\ state = "running" => allowance = Unlimited /\ ~stepping
    /\ state = "paused" /\ stepping => allowance \in {1, 2}
    /\ state = "paused" /\ ~stepping => allowance \in {0, 1}
    /\ state = "paused" /\ InFlight /\ ~shutdown => allowance >= 1
    /\ state = "stopping" => allowance \in {0, 1}
    /\ state = "stopping" /\ allowance = 0 =>
          advances > 0 /\ pc \notin {"execute", "running", "note"}
    /\ pc \in {"running", "note"} => allowance >= 1

FlowInv == Place /\ Grants

LEMMA FreeJob == Unlimited \in Nat /\ Unlimited > 2
BY PlanFacts DEF Unlimited

LEMMA FlowInvInit == Init => FlowInv
<1> SUFFICES ASSUME Init
             PROVE  FlowInv
  OBVIOUS
<1>1. Unlimited \in Nat /\ 0 \in 0..Len(Plan)
  BY PlanFacts DEF Unlimited
<1> QED
  <2>1. FlowType
    BY <1>1 DEF Init, FlowType
  <2> QED
    BY <1>1, <2>1 DEF Init, FlowInv, Place, OnTheWay, Grants, Active, InFlight

LEMMA JobStepKeepsPlace == FlowInv /\ JobStep => Place'
<1> SUFFICES ASSUME FlowInv, JobStep
             PROVE  Place'
  OBVIOUS
<1> USE PlanFacts DEF FlowInv, Place, FlowType, OnTheWay, gate
<1>1. CASE Boundary
  BY <1>1 DEF Boundary
<1>2. CASE Gate
  <2>1. woken' \in BOOLEAN
    BY <1>2 DEF Gate
  <2> QED
    BY <1>2, <2>1 DEF Gate
<1>3. CASE Wake \/ Ask
  BY <1>3 DEF Wake, Ask
<1>4. CASE Pace \/ Elapse
  <2>1. cut' \in BOOLEAN
    BY <1>4 DEF Pace, Elapse
  <2> QED
    BY <1>4, <2>1 DEF Pace, Elapse
<1>5. CASE Interrupted \/ Settle \/ Execute
  BY <1>5 DEF Interrupted, Settle, Execute
<1>6. CASE Running
  BY <1>6 DEF Running
<1>7. CASE After
  <2>1. CASE Command.op = "advance"
    <3>1. advances' = advances + 1 /\ stepping' = FALSE
      BY <1>7, <2>1 DEF After, AfterAdvance
    <3>2. allowance' \in Nat
      BY <1>7, <2>1 DEF After, AfterAdvance, Grants
    <3>3. done' = done + 1 /\ pc' = "boundary" /\ done < Len(Plan)
      BY <1>7 DEF After
    <3>4. stepping' \in BOOLEAN
      BY <3>1
    <3> QED
      BY <1>7, <3>1, <3>2, <3>3, <3>4 DEF After
  <2>2. CASE Command.op # "advance"
    <3>1. UNCHANGED <<advances, stepping, allowance>>
      BY <1>7, <2>2 DEF After, AfterInjection
    <3> QED
      BY <1>7, <3>1 DEF After
  <2> QED
    BY <2>1, <2>2
<1>8. CASE CloseImmediate
  BY <1>8 DEF CloseImmediate
<1>9. CASE EndJob
  BY <1>9 DEF EndJob
<1> QED
  BY <1>1, <1>2, <1>3, <1>4, <1>5, <1>6, <1>7, <1>8, <1>9 DEF JobStep

LEMMA JobStepKeepsGrants == FlowInv /\ JobStep => Grants'
<1> SUFFICES ASSUME FlowInv, JobStep
             PROVE  Grants'
  OBVIOUS
<1> USE DEF FlowInv, Place, FlowType, Grants, Active, InFlight, gate
<1>1. CASE Boundary
  BY <1>1 DEF Boundary
<1>2. CASE Gate
  BY <1>2 DEF Gate
<1>3. CASE Wake
  BY <1>3 DEF Wake
<1>4. CASE Ask \/ Settle
  BY <1>4 DEF Ask, Settle, MustStop
<1>5. CASE Pace \/ Elapse
  BY <1>5 DEF Pace, Elapse
<1>6. CASE Interrupted
  BY <1>6 DEF Interrupted
<1>7. CASE Execute
  <2>1. UNCHANGED <<state, advances, paused, stepping, stopping, shutdown, allowance>>
    BY <1>7 DEF Execute
  <2>2. pc = "execute" /\ pc' \in {"close", "running"} /\ (pc' = "running" => ~shutdown)
    BY <1>7 DEF Execute
  <2> QED
    BY <2>1, <2>2, FreeJob
<1>8. CASE Running
  BY <1>8 DEF Running
<1>9. CASE After
  <2>1. CASE Command.op = "advance"
    <3>1. advances' = advances + 1 /\ stepping' = FALSE
      BY <1>9, <2>1 DEF After, AfterAdvance
    <3>2. allowance' = IF allowance = Unlimited THEN Unlimited ELSE allowance - 1
      BY <1>9, <2>1 DEF After, AfterAdvance
    <3>3. pc = "note" /\ pc' = "boundary" /\ UNCHANGED <<state, paused, stopping, shutdown>>
      BY <1>9 DEF After
    <3> QED
      BY <3>1, <3>2, <3>3, FreeJob
  <2>2. CASE Command.op # "advance"
    <3>1. UNCHANGED <<advances, stepping, allowance>>
      BY <1>9, <2>2 DEF After, AfterInjection
    <3> QED
      BY <1>9, <3>1 DEF After
  <2> QED
    BY <2>1, <2>2
<1>10. CASE CloseImmediate
  BY <1>10 DEF CloseImmediate
<1>11. CASE EndJob
  BY <1>11 DEF EndJob
<1> QED
  BY <1>1, <1>2, <1>3, <1>4, <1>5, <1>6, <1>7, <1>8, <1>9, <1>10, <1>11 DEF JobStep

LEMMA CallsKeepFlow ==
    ASSUME NEW c \in Caller, FlowInv, Operator(c) \/ ApplyNow(c) \/ Return(c)
    PROVE  FlowInv'
<1> USE DEF FlowInv, Place, FlowType, Grants, Active, InFlight, gate
<1>1. CASE Pause(c)
  BY <1>1 DEF Pause, Calls
<1>2. CASE PauseAgain(c)
  BY <1>2 DEF PauseAgain, Calls
<1>3. CASE Resume(c)
  <2>1. paused' \in BOOLEAN /\ stepping' \in BOOLEAN /\ woken' \in BOOLEAN
    BY <1>3 DEF Resume
  <2>2. Place'
    BY FreeJob, <1>3, <2>1 DEF Resume, Calls
  <2>3. Grants'
    BY FreeJob, <1>3 DEF Resume, Calls
  <2> QED
    BY <2>2, <2>3
<1>4. CASE Step(c)
  BY <1>4 DEF Step, Calls
<1>5. ASSUME TakesCommands, RequestStop, UNCHANGED <<pc, done, outcome, advances, shutdown, closed>>
      PROVE  FlowInv'
  <2>1. paused' \in BOOLEAN /\ stepping' \in BOOLEAN /\ woken' \in BOOLEAN /\ stopping' \in BOOLEAN
    BY <1>5 DEF RequestStop
  <2>2. Place'
    BY <1>5, <2>1 DEF RequestStop
  <2>3. Grants'
    BY <1>5 DEF RequestStop, TakesCommands
  <2> QED
    BY <2>2, <2>3
<1>6. CASE Stop(c) \/ Destroy(c)
  <2>1. UNCHANGED <<pc, done, outcome, advances, shutdown, closed>>
    BY <1>6 DEF Stop, Destroy, Calls
  <2>2. CASE UNCHANGED <<state, gate, ledger, allowance>>
    BY <2>1, <2>2
  <2> QED
    BY <1>5, <1>6, <2>1, <2>2 DEF Stop, Destroy
<1>7. CASE Admit(c)
  BY <1>7 DEF Admit, Calls
<1>8. CASE ApplyNow(c) \/ Return(c)
  BY <1>8 DEF ApplyNow, Return
<1> QED
  BY <1>1, <1>2, <1>3, <1>4, <1>6, <1>7, <1>8 DEF Operator

LEMMA FlowInvNext == FlowInv /\ [Next]_vars => FlowInv'
<1> SUFFICES ASSUME FlowInv, [Next]_vars
             PROVE  FlowInv'
  OBVIOUS
<1>1. CASE Shutdown
  BY <1>1 DEF Shutdown, gate, FlowInv, Place, FlowType, Grants, Active, InFlight
<1>2. CASE Terminated \/ UNCHANGED vars
  BY <1>2 DEF Terminated, vars, gate, FlowInv, Place, FlowType, Grants, Active, InFlight
<1>3. CASE JobStep
  BY <1>3, JobStepKeepsPlace, JobStepKeepsGrants DEF FlowInv
<1> QED
  BY <1>1, <1>2, <1>3, CallsKeepFlow DEF Next

(* Between a control and the next the job completes no more chunks than the *)
(* control granted, and parks with every step used up.                      *)
THEOREM AStepIsOneChunk == Spec => StepIsOneChunk
<1>1. ASSUME FlowInv, Next, advances' # advances
      PROVE  allowance > 0
  <2>1. pc = "note"
    <3>1. CASE JobStep
      BY <1>1, <3>1 DEF JobStep, Boundary, Gate, Wake, Ask, Pace, Elapse, Interrupted, Settle, Execute,
                        Running, After, CloseImmediate, EndJob
    <3>2. CASE Shutdown \/ Terminated
      BY <1>1, <3>2 DEF Shutdown, Terminated, vars
    <3>3. ASSUME NEW c \in Caller, Operator(c) \/ ApplyNow(c) \/ Return(c)
          PROVE  UNCHANGED advances
      BY <3>3 DEF Operator, Pause, PauseAgain, Resume, Step, Stop, Destroy, Admit, ApplyNow, Return, Calls
    <3> QED
      BY <1>1, <3>1, <3>2, <3>3 DEF Next
  <2> QED
    BY <1>1, <2>1 DEF FlowInv, Grants, Place, FlowType
<1>2. ASSUME FlowInv, Next, pc # "held", pc' = "held"
      PROVE  allowance <= 1
  <2>1. Gate
    <3>1. CASE JobStep
      BY <1>2, <3>1 DEF JobStep, Boundary, Wake, Ask, Pace, Elapse, Interrupted, Settle, Execute,
                        Running, After, CloseImmediate, EndJob
    <3>2. CASE Shutdown \/ Terminated
      BY <1>2, <3>2 DEF Shutdown, Terminated, vars
    <3>3. ASSUME NEW c \in Caller, Operator(c) \/ ApplyNow(c) \/ Return(c)
          PROVE  UNCHANGED pc
      BY <3>3 DEF Operator, Pause, PauseAgain, Resume, Step, Stop, Destroy, Admit, ApplyNow, Return, Calls
    <3> QED
      BY <1>2, <3>1, <3>2, <3>3 DEF Next
  <2> QED
    BY <1>2, <2>1 DEF Gate, FlowInv, Grants, Place, FlowType
<1>3. FlowInv /\ [Next]_vars => [/\ advances' # advances => allowance > 0
                                 /\ pc # "held" /\ pc' = "held" => allowance <= 1]_vars
  BY <1>1, <1>2
<1> QED
  BY <1>3, FlowInvInit, FlowInvNext, PTL DEF Spec, StepIsOneChunk

-----------------------------------------------------------------------------
(* The types of the calls and of the ledger of the faults.                  *)

LEMMA CallerTypeNext == CallerType /\ [Next]_vars => CallerType'
<1> SUFFICES ASSUME CallerType, [Next]_vars
             PROVE  CallerType'
  OBVIOUS
<1> USE PlanFacts DEF CallerType
<1>1. CASE UNCHANGED <<caller, calls>>
  BY <1>1
<1>2. CASE Gate
  <2>1. calls' = calls
    BY <1>2 DEF Gate
  <2>2. caller' \in [Caller -> {"idle", "waiting", "answered", "now", "destroying"}]
    BY <1>2, Zenon DEF Gate
  <2> QED
    BY <2>1, <2>2
<1>3. CASE Boundary \/ Wake \/ Ask \/ Pace \/ Elapse \/ Interrupted \/ Settle \/ Execute \/ Running
           \/ After \/ CloseImmediate \/ EndJob \/ Shutdown \/ Terminated \/ UNCHANGED vars
  BY <1>1, <1>3 DEF Boundary, Wake, Ask, Pace, Elapse, Interrupted, Settle, Execute, Running, After,
                   CloseImmediate, EndJob, Shutdown, Terminated, vars
<1>4. ASSUME NEW c \in Caller, Operator(c)
      PROVE  CallerType'
  <2>1. PICK next \in {"idle", "waiting", "answered", "now", "destroying"} : Calls(c, next)
    BY <1>4 DEF Operator, Pause, PauseAgain, Resume, Step, Stop, Destroy, Admit
  <2> QED
    BY <2>1 DEF Calls
<1>5. ASSUME NEW c \in Caller, ApplyNow(c) \/ Return(c)
      PROVE  CallerType'
  BY <1>5 DEF ApplyNow, Return
<1> QED
  BY <1>2, <1>3, <1>4, <1>5 DEF Next, JobStep

(* The command at hand, and the planned fault it is of.                     *)
LEMMA CommandFacts ==
    ASSUME FlowInv, done < Len(Plan)
    PROVE  /\ Command \in PlanCommand
           /\ Command.op \in {"inject", "clear"} => Command.fault \in PlannedFault
BY PlanFacts, PlannedFaults DEF FlowInv, Place, FlowType, Command

-----------------------------------------------------------------------------
(* The numbers of the planned faults.                                       *)

LEMMA InjectionsGrow ==
    ASSUME NEW n \in Nat, n < Len(Plan)
    PROVE  /\ Cardinality(Injections(n)) \in Nat
           /\ Plan[n + 1].op = "inject" =>
                /\ Cardinality(Injections(n + 1)) = Cardinality(Injections(n)) + 1
                /\ Plan[n + 1].fault = Cardinality(Injections(n)) + 1
           /\ Plan[n + 1].op # "inject" => Injections(n + 1) = Injections(n)
<1>1. IsFiniteSet(Injections(n)) /\ n + 1 \notin Injections(n)
  <2>1. IsFiniteSet(1..n)
    BY FS_Interval
  <2> QED
    BY <2>1, FS_Subset DEF Injections
<1>2. Cardinality(Injections(n)) \in Nat
  BY <1>1, FS_CardinalityType
<1>3. ASSUME Plan[n + 1].op = "inject"
      PROVE  Cardinality(Injections(n + 1)) = Cardinality(Injections(n)) + 1
  <2>1. Injections(n + 1) = Injections(n) \cup {n + 1}
    BY <1>3 DEF Injections
  <2> QED
    BY <1>1, <2>1, FS_AddElement
<1>4. Plan[n + 1].op # "inject" => Injections(n + 1) = Injections(n)
  BY DEF Injections
<1>5. n + 1 \in 1..Len(Plan)
  BY PlanFacts
<1> QED
  BY <1>2, <1>3, <1>4, <1>5, PlanAssumption

LEMMA ClearedWasInjected ==
    ASSUME NEW n \in Nat, n < Len(Plan), Plan[n + 1].op = "clear"
    PROVE  Plan[n + 1].fault \in 1..Cardinality(Injections(n))
<1>1. n + 1 \in 1..Len(Plan)
  BY PlanFacts
<1>2. PICK j \in Injections(n + 1) : Plan[j].fault = Plan[n + 1].fault
  BY <1>1, PlanAssumption
<1>3. j \in 1..n /\ Plan[j].op = "inject"
  BY <1>2 DEF Injections
<1>4. Plan[j].fault = Cardinality(Injections(j))
  BY <1>3, PlanAssumption, PlanFacts
<1>5. IsFiniteSet(Injections(n))
  <2>1. IsFiniteSet(1..n)
    BY FS_Interval
  <2> QED
    BY <2>1, FS_Subset DEF Injections
<1>6. Injections(j) \subseteq Injections(n) /\ j \in Injections(j)
  BY <1>3 DEF Injections
<1>7. IsFiniteSet(Injections(j)) /\ Cardinality(Injections(j)) <= Cardinality(Injections(n))
  BY <1>5, <1>6, FS_Subset
<1>8. Cardinality(Injections(j)) \in Nat /\ Cardinality(Injections(j)) # 0
  BY <1>6, <1>7, FS_CardinalityType, FS_EmptySet
<1>9. Cardinality(Injections(n)) \in Nat
  BY <1>5, FS_CardinalityType
<1> QED
  BY <1>2, <1>4, <1>7, <1>8, <1>9

(* The faults the run has been given: those the job has recorded, and the   *)
(* one it has yet to record.                                                *)
Known == IF pc = "note" /\ Command.op = "inject" THEN injected + 1 ELSE injected

(* The first k planned faults stand among the run's faults, each once, and  *)
(* beside them only faults injected by hand.                                *)
Numbered(fs, k) ==
    /\ \A f \in 1..k : \E id \in 1..Len(fs) : fs[id] = f
    /\ \A id \in 1..Len(fs) : fs[id] \in 0..k
    /\ \A a, b \in 1..Len(fs) : fs[a] = fs[b] /\ fs[a] # 0 => a = b

LEMMA NumberedGrows ==
    ASSUME NEW S, NEW fs \in Seq(S), NEW k \in Nat, NEW f \in S, f \in {0, k + 1}, Numbered(fs, k)
    PROVE  Numbered(Append(fs, f), IF f = 0 THEN k ELSE k + 1)
<1> DEFINE gs == Append(fs, f)
           m == IF f = 0 THEN k ELSE k + 1
<1>1. Len(gs) = Len(fs) + 1 /\ Len(fs) \in Nat /\ gs[Len(fs) + 1] = f
  OBVIOUS
<1>2. \A id \in 1..Len(fs) : gs[id] = fs[id]
  OBVIOUS
<1>3. ASSUME NEW g \in 1..m
      PROVE  \E id \in 1..Len(gs) : gs[id] = g
  <2>1. CASE g = f
    BY <1>1, <2>1
  <2>2. CASE g # f
    <3>1. PICK id \in 1..Len(fs) : fs[id] = g
      BY <2>2 DEF Numbered
    <3> QED
      BY <1>1, <1>2, <3>1
  <2> QED
    BY <2>1, <2>2
<1>4. ASSUME NEW id \in 1..Len(gs)
      PROVE  gs[id] \in 0..m
  <2>1. CASE id = Len(fs) + 1
    BY <1>1, <2>1
  <2>2. CASE id \in 1..Len(fs)
    <3>1. gs[id] \in 0..k
      BY <1>2, <2>2 DEF Numbered
    <3> QED
      BY <3>1
  <2> QED
    BY <1>1, <2>1, <2>2
<1>5. ASSUME NEW a \in 1..Len(gs), NEW b \in 1..Len(gs), gs[a] = gs[b], gs[a] # 0
      PROVE  a = b
  <2>1. \A c \in 1..Len(fs) : gs[c] # k + 1
    BY <1>2 DEF Numbered
  <2>2. CASE a \in 1..Len(fs) /\ b \in 1..Len(fs)
    BY <1>2, <1>5, <2>2 DEF Numbered
  <2>3. CASE a = Len(fs) + 1 \/ b = Len(fs) + 1
    BY <1>1, <1>5, <2>1, <2>3
  <2> QED
    BY <1>1, <2>2, <2>3
<1> HIDE DEF gs, m
<1>6. Numbered(gs, m)
  BY <1>3, <1>4, <1>5 DEF Numbered
<1> QED
  BY <1>6 DEF gs, m

(* The ledger follows the run's own numbering: every planned fault stands   *)
(* there once, under the id the ledger would name it by, and the clear at   *)
(* hand already names that id.                                              *)
LedgerInv ==
    /\ LedgerType
    /\ injected = Cardinality(Injections(done))
    /\ Numbered(faults, Known)
    /\ \A f \in 1..injected : Retarget(f) \in 1..Len(faults) /\ faults[Retarget(f)] = f
    /\ \A f \in PlannedFault : f > injected => given[f] = 0
    /\ pc \in OnTheWay \ {"note"} /\ Command.op = "clear" =>
          target \in 1..Len(faults) /\ faults[target] = Command.fault
    /\ ClearsItsOwnFault

LEMMA LedgerInvInit == Init => LedgerInv
<1> SUFFICES ASSUME Init
             PROVE  LedgerInv
  OBVIOUS
<1>1. LedgerType
  BY DEF Init, LedgerType
<1>2. Injections(0) = {}
  BY DEF Injections
<1>3. Cardinality(Injections(0)) = 0
  BY <1>2, FS_EmptySet
<1>4. injected = 0 /\ faults = <<>> /\ Known = 0 /\ cleared = {} /\ pc = "boundary" /\ done = 0
  BY DEF Init, Known
<1> QED
  BY <1>1, <1>3, <1>4 DEF Init, LedgerInv, Numbered, OnTheWay, ClearsItsOwnFault

(* A step that leaves the ledger, the plan and the run alone.               *)
LEMMA LedgerInvSame ==
    ASSUME LedgerInv, UNCHANGED <<ledger, done>>,
           pc' = pc \/ (pc' # "note" /\ pc # "note"),
           pc' \in OnTheWay \ {"note"} => pc \in OnTheWay \ {"note"}
    PROVE  LedgerInv'
<1>1. Command' = Command /\ Known' = Known /\ LedgerType'
  BY DEF Command, Known, ledger, LedgerInv, LedgerType
<1>2. \A f : Retarget(f)' = Retarget(f)
  BY DEF Retarget, ledger
<1> QED
  BY <1>1, <1>2 DEF LedgerInv, ledger, ClearsItsOwnFault, Retarget

(* The plan is asked what comes next, and a clear is moved to its fault.    *)
LEMMA BoundaryKeepsLedger == FlowInv /\ LedgerInv /\ Boundary => LedgerInv'
<1> SUFFICES ASSUME FlowInv, LedgerInv, Boundary
             PROVE  LedgerInv'
  OBVIOUS
<1>1. UNCHANGED <<faults, injected, given, cleared, done>> /\ pc = "boundary"
  BY DEF Boundary
<1>2. Known' = injected /\ Known = injected /\ Command' = Command
  BY <1>1 DEF Boundary, Known, Command
<1>3. ASSUME pc' \in OnTheWay \ {"note"}, Command.op = "clear"
      PROVE  target' \in 1..Len(faults) /\ faults[target'] = Command.fault
  <2>1. done \in Nat /\ done < Len(Plan) /\ target' = Retarget(Command.fault)
    BY <1>3, PlanFacts DEF Boundary, OnTheWay, FlowInv, Place, FlowType
  <2>2. Command.fault \in 1..injected
    BY <1>3, <2>1, ClearedWasInjected DEF Command, LedgerInv
  <2> QED
    BY <2>1, <2>2 DEF LedgerInv
<1>4. target' \in Nat
  <2>1. CASE target' = target
    BY <2>1 DEF LedgerInv, LedgerType
  <2>2. CASE pc' = "gate" /\ Command.op = "clear"
    BY <1>3, <2>2 DEF OnTheWay
  <2> QED
    BY <2>1, <2>2 DEF Boundary
<1>5. LedgerType'
  BY <1>1, <1>4 DEF LedgerInv, LedgerType
<1>6. \A f : Retarget(f)' = Retarget(f)
  BY <1>1 DEF Retarget
<1> QED
  BY <1>1, <1>2, <1>3, <1>5, <1>6 DEF LedgerInv, ClearsItsOwnFault, Retarget

(* The run gives an injection the next id, and carries a clear out.         *)
LEMMA RunningKeepsLedger == FlowInv /\ LedgerInv /\ Running => LedgerInv'
<1> SUFFICES ASSUME FlowInv, LedgerInv, Running
             PROVE  LedgerInv'
  OBVIOUS
<1>1. UNCHANGED <<injected, given, target, done>> /\ pc = "running"
  BY DEF Running
<1>2. Command' = Command /\ done \in Nat /\ done < Len(Plan) /\ injected \in Nat
  BY <1>1 DEF Command, FlowInv, Place, FlowType, OnTheWay, LedgerInv, LedgerType
<1>3. \A f : Retarget(f)' = Retarget(f)
  BY <1>1 DEF Retarget
<1>4. Known = injected
  BY <1>1 DEF Known
<1>5. CASE pc' = "close"
  <2>1. Known' = injected /\ UNCHANGED ledger
    BY <1>1, <1>5 DEF Known, Running, ledger
  <2> QED
    BY <1>1, <1>5, <2>1, LedgerInvSame DEF OnTheWay
<1>6. CASE pc' = "note" /\ Command.op = "inject"
  <2>1. faults' = Append(faults, Command.fault) /\ cleared' = cleared
    BY <1>6 DEF Running
  <2>2. Command.fault = injected + 1 /\ Command.fault \in PlannedFault
    BY <1>2, <1>6, InjectionsGrow, CommandFacts DEF Command, LedgerInv
  <2>3. Known' = injected + 1
    BY <1>1, <1>2, <1>6 DEF Known
  <2>4. LedgerType' /\ Len(faults') = Len(faults) + 1 /\ Len(faults) \in Nat
    BY <1>1, <2>1, <2>2 DEF LedgerInv, LedgerType
  <2>5. faults'[Len(faults) + 1] = injected + 1
        /\ \A id \in 1..Len(faults) : faults'[id] = faults[id]
    BY <2>1, <2>2 DEF LedgerInv, LedgerType
  <2>6. Numbered(faults', Known')
    <3>1. faults \in Seq({0} \cup PlannedFault) /\ Command.fault # 0
      BY <1>2, <2>2 DEF LedgerInv, LedgerType
    <3>2. Numbered(faults, injected)
      BY <1>4 DEF LedgerInv
    <3> QED
      BY <1>2, <2>1, <2>2, <2>3, <3>1, <3>2, NumberedGrows
  <2>7. \A f \in 1..injected : Retarget(f) \in 1..Len(faults') /\ faults'[Retarget(f)] = f
    BY <2>4, <2>5 DEF LedgerInv
  <2>8. (injected = Cardinality(Injections(done)))' /\ (\A f \in PlannedFault : f > injected => given[f] = 0)'
    BY <1>1 DEF LedgerInv
  <2>9. ClearsItsOwnFault'
    BY <2>1, <2>4, <2>5 DEF LedgerInv, ClearsItsOwnFault
  <2> QED
    BY <1>1, <1>3, <1>6, <2>4, <2>6, <2>7, <2>8, <2>9 DEF LedgerInv
<1>7. CASE pc' = "note" /\ Command.op # "inject"
  <2>1. faults' = faults /\ Known' = injected
    BY <1>1, <1>2, <1>7 DEF Running, Known
  <2>2. ClearsItsOwnFault' /\ cleared' \subseteq PlannedFault \X Nat
    <3>1. CASE Command.op = "clear"
      <4>1. cleared' = cleared \cup {<<Command.fault, target>>}
        BY <1>7, <3>1 DEF Running
      <4>2. target \in 1..Len(faults) /\ faults[target] = Command.fault
        BY <1>1, <3>1 DEF LedgerInv, OnTheWay
      <4>3. Command.fault \in PlannedFault /\ target \in Nat
        BY <1>2, <3>1, CommandFacts DEF LedgerInv, LedgerType
      <4> QED
        BY <2>1, <4>1, <4>2, <4>3 DEF LedgerInv, LedgerType, ClearsItsOwnFault
    <3>2. CASE Command.op # "clear"
      BY <1>7, <2>1, <3>2 DEF Running, LedgerInv, LedgerType, ClearsItsOwnFault
    <3> QED
      BY <3>1, <3>2
  <2>3. LedgerType'
    BY <1>1, <2>1, <2>2 DEF LedgerInv, LedgerType
  <2> QED
    BY <1>1, <1>2, <1>3, <1>4, <1>7, <2>1, <2>2, <2>3 DEF LedgerInv, OnTheWay, Retarget
<1> QED
  BY <1>5, <1>6, <1>7 DEF Running

(* The job records the id of the injection that just executed.              *)
LEMMA AfterKeepsLedger == FlowInv /\ LedgerInv /\ After => LedgerInv'
<1> SUFFICES ASSUME FlowInv, LedgerInv, After
             PROVE  LedgerInv'
  OBVIOUS
<1>1. UNCHANGED <<faults, target, cleared>> /\ pc = "note" /\ pc' = "boundary" /\ done' = done + 1
  BY DEF After
<1>2. done \in Nat /\ done < Len(Plan) /\ injected \in Nat
  BY <1>1 DEF FlowInv, Place, FlowType, OnTheWay, LedgerInv, LedgerType
<1>3. Known' = injected'
  BY <1>1 DEF Known
<1>4. CASE Command.op = "inject"
  <2> DEFINE f == Command.fault
             id == IdOf(f)
  <2>1. f = injected + 1 /\ f \in PlannedFault /\ Cardinality(Injections(done + 1)) = injected + 1
    BY <1>2, <1>4, InjectionsGrow, CommandFacts DEF Command, LedgerInv
  <2>2. injected' = injected + 1 /\ Known = injected + 1
    BY <1>1, <1>4 DEF After, AfterInjection, Known
  <2>3. given' = IF id # injected + 1 THEN [given EXCEPT ![f] = id] ELSE given
    BY <1>4 DEF After, AfterInjection
  <2>4. id \in 1..Len(faults) /\ faults[id] = f
    <3>1. \E a \in 1..Len(faults) : faults[a] = f
      BY <1>2, <2>1, <2>2 DEF LedgerInv, Numbered
    <3> QED
      BY <3>1 DEF IdOf
  <2>5. Len(faults) \in Nat /\ given \in [PlannedFault -> Nat]
    BY DEF LedgerInv, LedgerType
  <2>6. given' \in [PlannedFault -> Nat] /\ \A g \in PlannedFault : g # f => given'[g] = given[g]
    BY <2>1, <2>3, <2>4, <2>5
  <2>7. given[f] = 0
    BY <1>2, <2>1 DEF LedgerInv
  <2>8. IF given'[f] = 0 THEN f = id ELSE given'[f] = id
    BY <2>1, <2>3, <2>4, <2>5, <2>7
  <2>9. \A g \in 1..injected + 1 : Retarget(g)' \in 1..Len(faults) /\ faults[Retarget(g)'] = g
    <3>1. ASSUME NEW g \in 1..injected
          PROVE  Retarget(g)' = Retarget(g)
      <4>1. g # f
        BY <1>2, <2>1
      <4>2. CASE g \in PlannedFault
        BY <2>6, <4>1, <4>2 DEF Retarget
      <4>3. CASE g \notin PlannedFault
        BY <2>1, <2>3, <2>5, <4>1, <4>3 DEF Retarget
      <4> QED
        BY <4>2, <4>3
    <3>2. (IF given'[f] = 0 THEN f ELSE given'[f]) = id
      BY <2>8
    <3>3. \A g \in 1..injected : Retarget(g) \in 1..Len(faults) /\ faults[Retarget(g)] = g
      BY DEF LedgerInv
    <3>4. ASSUME NEW g \in 1..injected + 1
          PROVE  Retarget(g)' \in 1..Len(faults) /\ faults[Retarget(g)'] = g
      <4>1. CASE g \in 1..injected
        BY <3>1, <3>3, <4>1
      <4>2. CASE g = f
        BY <2>4, <3>2, <4>2 DEF Retarget
      <4> QED
        BY <1>2, <2>1, <4>1, <4>2
    <3> QED
      BY <3>4
  <2>10. \A g \in PlannedFault : g > injected + 1 => given'[g] = 0
    <3>1. \A g \in PlannedFault : g > injected => given[g] = 0
      BY DEF LedgerInv
    <3> HIDE DEF f, id
    <3> QED
      BY <1>2, <2>1, <2>6, <3>1, PlannedFaults
  <2>11. LedgerType'
    BY <1>1, <1>2, <2>2, <2>6 DEF LedgerInv, LedgerType
  <2> QED
    BY <1>1, <1>3, <2>1, <2>2, <2>9, <2>10, <2>11 DEF LedgerInv, OnTheWay, ClearsItsOwnFault
<1>5. CASE Command.op # "inject"
  <2>1. UNCHANGED <<injected, given>> /\ Known = injected
    BY <1>5 DEF After, AfterAdvance, Known
  <2>2. Injections(done + 1) = Injections(done)
    BY <1>2, <1>5, InjectionsGrow DEF Command
  <2>3. \A f : Retarget(f)' = Retarget(f)
    BY <2>1 DEF Retarget
  <2>4. LedgerType'
    BY <1>1, <2>1 DEF LedgerInv, LedgerType
  <2> QED
    BY <1>1, <1>3, <2>1, <2>2, <2>3, <2>4 DEF LedgerInv, OnTheWay, ClearsItsOwnFault, Retarget
<1> QED
  BY <1>4, <1>5

(* A fault injected by hand takes an id no planned fault has.               *)
LEMMA ApplyKeepsLedger ==
    ASSUME NEW c \in Caller, LedgerInv, ApplyNow(c)
    PROVE  LedgerInv'
<1>1. UNCHANGED <<injected, given, target, cleared, done, pc>> /\ Command' = Command
  BY DEF ApplyNow, Command
<1>2. CASE faults' = faults
  BY <1>1, <1>2, LedgerInvSame DEF ledger
<1>3. CASE faults' = Append(faults, 0)
  <2>1. LedgerType' /\ Len(faults') = Len(faults) + 1 /\ Len(faults) \in Nat
    BY <1>1, <1>3 DEF LedgerInv, LedgerType
  <2>2. faults'[Len(faults) + 1] = 0 /\ \A id \in 1..Len(faults) : faults'[id] = faults[id]
    BY <1>3 DEF LedgerInv, LedgerType
  <2>3. Known' = Known /\ Known \in Nat /\ \A f : Retarget(f)' = Retarget(f)
    BY <1>1 DEF Known, Retarget, LedgerInv, LedgerType
  <2>4. Numbered(faults', Known')
    <3>1. faults \in Seq({0} \cup PlannedFault)
      BY DEF LedgerInv, LedgerType
    <3> QED
      BY <1>3, <2>3, <3>1, NumberedGrows DEF LedgerInv
  <2>7. ClearsItsOwnFault'
    BY <1>1, <2>1, <2>2 DEF LedgerInv, ClearsItsOwnFault
  <2>8. \A f \in 1..injected : Retarget(f) \in 1..Len(faults') /\ faults'[Retarget(f)] = f
    BY <2>1, <2>2 DEF LedgerInv
  <2>9. pc \in OnTheWay \ {"note"} /\ Command.op = "clear" =>
          target \in 1..Len(faults') /\ faults'[target] = Command.fault
    BY <2>1, <2>2 DEF LedgerInv
  <2> QED
    BY <1>1, <2>1, <2>3, <2>4, <2>7, <2>8, <2>9 DEF LedgerInv
<1> QED
  BY <1>2, <1>3 DEF ApplyNow

LEMMA LedgerInvNext == FlowInv /\ LedgerInv /\ [Next]_vars => LedgerInv'
<1> SUFFICES ASSUME FlowInv, LedgerInv, [Next]_vars
             PROVE  LedgerInv'
  OBVIOUS
<1>1. CASE Gate \/ Wake \/ Ask \/ Pace \/ Elapse \/ Interrupted \/ Settle \/ Execute
           \/ CloseImmediate \/ EndJob
  <2>1. UNCHANGED <<ledger, done>>
    BY <1>1 DEF Gate, Wake, Ask, Pace, Elapse, Interrupted, Settle, Execute, CloseImmediate, EndJob
  <2>2. pc # "note" /\ pc' # "note" /\ (pc' \in OnTheWay \ {"note"} => pc \in OnTheWay \ {"note"})
    BY <1>1 DEF Gate, Wake, Ask, Pace, Elapse, Interrupted, Settle, Execute, CloseImmediate, EndJob, OnTheWay
  <2> QED
    BY <2>1, <2>2, LedgerInvSame
<1>2. ASSUME NEW c \in Caller, Operator(c) \/ Return(c)
      PROVE  UNCHANGED <<ledger, done, pc>>
  BY <1>2 DEF Operator, Pause, PauseAgain, Resume, Step, Stop, Destroy, Admit, RequestStop, Return, Calls
<1>3. CASE Shutdown \/ Terminated \/ UNCHANGED vars
  BY <1>3, LedgerInvSame DEF Shutdown, Terminated, vars, ledger
<1> QED
  BY <1>1, <1>2, <1>3, LedgerInvSame, BoundaryKeepsLedger, RunningKeepsLedger, AfterKeepsLedger,
     ApplyKeepsLedger DEF Next, JobStep

(* Every variable keeps its type, and the plan is never read past its end.  *)
THEOREM JobTypeCorrect == Spec => []TypeOK
<1>1. Init => CallerType
  BY PlanFacts DEF Init, CallerType
<1>2. FlowInv /\ CallerType /\ LedgerInv => TypeOK
  BY DEF FlowInv, Place, LedgerInv, TypeOK
<1> QED
  BY <1>1, <1>2, FlowInvInit, FlowInvNext, CallerTypeNext, LedgerInvInit, LedgerInvNext, PTL DEF Spec

(* A planned clear finds the fault the plan injected, however many were     *)
(* injected by hand in between.                                             *)
THEOREM APlannedClearFindsItsFault == Spec => []ClearsItsOwnFault
<1>1. LedgerInv => ClearsItsOwnFault
  BY DEF LedgerInv
<1> QED
  BY <1>1, FlowInvInit, FlowInvNext, LedgerInvInit, LedgerInvNext, PTL DEF Spec

-----------------------------------------------------------------------------
(* The door of the immediate commands.                                      *)

Ending == pc \in {"end", "over"}

(* The flag closed alone is no invariant to build on: it is what closes the *)
(* door behind the last command the goroutine waited for.                   *)
DoorShut == Ending => closed /\ \A c \in Caller : caller[c] # "now"

DoorInv == caller \in [Caller -> {"idle", "waiting", "answered", "now", "destroying"}] /\ DoorShut

LEMMA DoorInvInit == Init => DoorInv
BY DEF Init, DoorInv, DoorShut, Ending

(* A step of the goroutine closes the door only when nobody is inside.      *)
LEMMA JobStepKeepsDoor == DoorInv /\ JobStep => DoorInv'
<1> SUFFICES ASSUME DoorInv, JobStep
             PROVE  DoorInv'
  OBVIOUS
<1>1. CASE Gate
  BY <1>1, Zenon DEF Gate, DoorInv, DoorShut, Ending
<1>2. CASE CloseImmediate
  BY <1>2 DEF CloseImmediate, DoorInv, DoorShut, Ending
<1>3. CASE EndJob
  BY <1>3 DEF EndJob, DoorInv, DoorShut, Ending
<1>4. CASE Boundary \/ Wake \/ Ask \/ Pace \/ Elapse \/ Interrupted \/ Settle \/ Execute \/ Running
  <2>1. UNCHANGED caller /\ ~Ending'
    BY <1>4 DEF Boundary, Wake, Ask, Pace, Elapse, Interrupted, Settle, Execute, Running, Ending
  <2> QED
    BY <2>1 DEF DoorInv, DoorShut
<1>5. CASE After
  BY <1>5 DEF After, DoorInv, DoorShut, Ending
<1> QED
  BY <1>1, <1>2, <1>3, <1>4, <1>5 DEF JobStep

(* An operator enters only through a door that is open.                     *)
LEMMA CallsKeepDoor ==
    ASSUME NEW c \in Caller, DoorInv, Operator(c) \/ ApplyNow(c) \/ Return(c)
    PROVE  DoorInv'
<1>1. CASE Admit(c)
  BY <1>1 DEF Admit, Calls, DoorInv, DoorShut, Ending
<1>2. CASE ApplyNow(c) \/ Return(c)
  BY <1>2 DEF ApplyNow, Return, DoorInv, DoorShut, Ending
<1>3. CASE Pause(c) \/ PauseAgain(c) \/ Resume(c) \/ Step(c) \/ Stop(c) \/ Destroy(c)
  <2>1. PICK next \in {"idle", "waiting", "answered", "destroying"} : Calls(c, next)
    BY <1>3 DEF Pause, PauseAgain, Resume, Step, Stop, Destroy
  <2> QED
    BY <2>1 DEF Calls, DoorInv, DoorShut, Ending
<1> QED
  BY <1>1, <1>2, <1>3 DEF Operator

LEMMA DoorInvNext == DoorInv /\ [Next]_vars => DoorInv'
<1> SUFFICES ASSUME DoorInv, [Next]_vars
             PROVE  DoorInv'
  OBVIOUS
<1>1. CASE Shutdown \/ Terminated \/ UNCHANGED vars
  BY <1>1 DEF Shutdown, Terminated, vars, DoorInv, DoorShut, Ending
<1> QED
  BY <1>1, JobStepKeepsDoor, CallsKeepDoor DEF Next

(* Whatever the operators and the goroutine do between two of their locks,  *)
(* an immediate command that was admitted finds the run not yet ended.      *)
THEOREM ImmediateOnlyBeforeTheEnd == Spec => []ImmediateBeforeTheEnd
<1>1. DoorInv => ImmediateBeforeTheEnd
  BY DEF DoorInv, DoorShut, Ending, ImmediateBeforeTheEnd
<1> QED
  BY <1>1, DoorInvInit, DoorInvNext, PTL DEF Spec
=============================================================================
