-------------------------- MODULE NodeSession_proofs --------------------------
(***************************************************************************)
(* What holds of a node session for every set of devices, commands, ids and *)
(* keys and for every bound.  Four parts, each with its own invariant:      *)
(*   - type correctness, with the payloads of what waits for the operator;  *)
(*   - one intent, one effect: queue and ledger, two records of the same    *)
(*     commands changed one after the other by six actions, never disagree, *)
(*     and the session implements KeyLedger;                                *)
(*   - local control: what waits may be run at once, so no order of the     *)
(*     operator is passed by, and an emergency stop stands;                 *)
(*   - accounts: every transmission is answered once or waits somewhere.    *)
(***************************************************************************)
EXTENDS NodeSession, FiniteSetTheorems, TLAPS

-----------------------------------------------------------------------------
(* The machine's operators keep its type.                                   *)

LEMMA CommandFields ==
    ASSUME NEW c \in Command
    PROVE  /\ c \in CommandType
           /\ c.id \in Id /\ c.key \in Key /\ c.content \in Content
           /\ c.content.device \in Device
           /\ c.notBefore \in Nat /\ c.deadline \in Nat /\ c.epoch \in Nat
BY CommandAssumption DEF CommandType, Content

LEMMA NewInterruptsType == NewInterrupts \in Machine
BY DEF NewInterrupts, Machine, HoldState

LEMMA DropType ==
    ASSUME NEW m \in Machine, NEW gone
    PROVE  Drop(m, gone) \in Machine
BY DEF Drop, Machine

LEMMA EnqueueType ==
    ASSUME NEW m \in Machine, NEW c \in Command
    PROVE  Enqueue(m, c) \in Machine
<1>1. PendingOf(c) \in Pending
  BY CommandFields DEF PendingOf, Pending
<1> QED
  BY <1>1 DEF Enqueue, Machine

LEMMA JoinType ==
    ASSUME NEW m \in Machine, NEW c \in Command
    PROVE  Join(m, c) \in Machine
<1>1. ASSUME NEW p \in Pending
      PROVE  [p EXCEPT !.waiting = Append(@, c.id)] \in Pending
  <2>1. c.id \in Id
    BY CommandFields
  <2> QED
    BY <2>1 DEF Pending
<1> QED
  BY <1>1 DEF Join, Machine

LEMMA SetHoldType ==
    ASSUME NEW m \in Machine, NEW s \in Scope, NEW latch \in BOOLEAN
    PROVE  SetHold(m, s, latch) \in Machine
BY DropType DEF SetHold, Machine, HoldState

LEMMA ClearHoldType ==
    ASSUME NEW m \in Machine, NEW s \in Scope
    PROVE  ClearHold(m, s) \in Machine
BY DEF ClearHold, Machine, HoldState

LEMMA SetApproveType ==
    ASSUME NEW m \in Machine, NEW s \in Scope, NEW on \in BOOLEAN
    PROVE  SetApprove(m, s, on) \in Machine
BY DEF SetApprove, Machine

LEMMA SetInventoryType ==
    ASSUME NEW m \in Machine, NEW devices \in SUBSET Device
    PROVE  SetInventory(m, devices) \in Machine
BY DEF SetInventory, Machine

-----------------------------------------------------------------------------
(* The tallies and the ledger.                                              *)

LEMMA CountType ==
    ASSUME NEW t \in Tally, NEW mark \in Mark, NEW id \in Id
    PROVE  Count(t, mark, id) \in Tally
BY DEF Count, Tally

LEMMA OccurrencesType ==
    ASSUME NEW ids \in Seq(Id), NEW id
    PROVE  Occurrences(id, ids) \in Nat
<1> DEFINE S == {i \in 1..Len(ids) : ids[i] = id}
<1>1. Len(ids) \in Nat
  OBVIOUS
<1>2. IsFiniteSet(1..Len(ids))
  BY <1>1, FS_Interval
<1>3. IsFiniteSet(S)
  BY <1>2, FS_Subset
<1> QED
  BY <1>3, FS_CardinalityType DEF Occurrences

LEMMA CloseAllType ==
    ASSUME NEW t \in Tally, NEW ids \in Seq(Id)
    PROVE  CloseAll(t, ids) \in Tally
<1>1. \A id \in Id : Occurrences(id, ids) \in Nat
  BY OccurrencesType
<1> QED
  BY <1>1 DEF CloseAll, Tally, Mark

LEMMA CloseHoldersType ==
    ASSUME NEW t \in Tally, NEW gone
    PROVE  CloseHolders(t, gone) \in Tally
BY DEF CloseHolders, Tally, Mark

Dispatched == /\ ledger \in [Key -> Entry]
              /\ queued \in Seq(Command)
              /\ runs \in [Key -> Nat]
              /\ ran \in Command \cup {NoCommand}
              /\ lastAct \in [Device -> {"none", "order", "stop"}]
              /\ tally \in Tally

LEMMA ExecuteType ==
    ASSUME TypeOK, NEW c \in Command, NEW waiting \in Seq(Id), NEW t \in Tally,
           Execute(c, waiting, t)
    PROVE  /\ ledger' \in [Key -> Entry]
           /\ runs' \in [Key -> Nat]
           /\ ran' \in Command
           /\ lastAct' \in [Device -> {"none", "order", "stop"}]
           /\ tally' \in Tally
<1>1. ledger' \in [Key -> Entry]
  <2>1. PICK answer \in Answer :
          ledger' = [ledger EXCEPT ![c.key] = [state |-> "settled", content |-> c.content,
                                               answer |-> answer, waiting |-> <<>>]]
    BY DEF Execute, Answer
  <2> QED
    BY <2>1, CommandFields DEF TypeOK, Entry, EntryState
<1>2. runs' \in [Key -> Nat]
  BY CommandFields DEF Execute, TypeOK
<1>3. lastAct' \in [Device -> {"none", "order", "stop"}]
  BY CommandFields DEF Execute, Acted, TypeOK
<1>4. tally' \in Tally
  BY CloseAllType DEF Execute
<1> QED
  BY <1>1, <1>2, <1>3, <1>4 DEF Execute

LEMMA ReleaseType ==
    ASSUME TypeOK, NEW c \in Command, ReleaseCommand(c)
    PROVE  /\ ledger' \in [Key -> Entry]
           /\ tally' \in Tally
           /\ UNCHANGED <<runs, ran, lastAct>>
<1>1. FreeEntry \in Entry
  BY DEF FreeEntry, Entry, EntryState
<1>2. ledger[c.key].waiting \in Seq(Id)
  BY CommandFields DEF TypeOK, Entry
<1>3. tally \in Tally
  BY DEF TypeOK
<1>4. tally' \in Tally
  BY <1>2, <1>3, CloseAllType DEF ReleaseCommand
<1> QED
  BY <1>1, <1>4, CommandFields DEF ReleaseCommand, TypeOK

LEMMA RepeatType ==
    ASSUME NEW e \in Entry, NEW id \in Id
    PROVE  [e EXCEPT !.waiting = Append(@, id)] \in Entry
BY DEF Entry

LEMMA DispatchType ==
    ASSUME TypeOK, NEW c \in Command, NEW t \in Tally, Dispatch(c, t)
    PROVE  Dispatched'
<1> USE CommandFields
<1>0. Dispatched
  BY DEF Dispatched, TypeOK
<1>1. CASE ExecuteSafeStop(c, t)
  <2>1. tally' \in Tally
    BY <1>1, CountType DEF ExecuteSafeStop, Mark
  <2>2. lastAct' \in [Device -> {"none", "order", "stop"}] /\ ran' \in Command \cup {NoCommand}
    BY <1>1 DEF ExecuteSafeStop, Acted, TypeOK
  <2> QED
    BY <1>0, <1>1, <2>1, <2>2 DEF ExecuteSafeStop, Dispatched
<1>2. CASE Refuse(c, t)
  <2>1. tally' \in Tally
    BY <1>2, CountType DEF Refuse, Mark
  <2> QED
    BY <1>0, <1>2, <2>1 DEF Refuse, Dispatched
<1>3. CASE Repeat(c, t)
  <2>1. tally' \in Tally
    BY <1>3, CountType DEF Repeat, Mark
  <2>2. ledger' \in [Key -> Entry]
    <3>1. ledger[c.key] \in Entry
      BY DEF TypeOK
    <3>2. [ledger[c.key] EXCEPT !.waiting = Append(@, c.id)] \in Entry
      BY <3>1, RepeatType
    <3> QED
      BY <1>3, <3>2 DEF Repeat, TypeOK
  <2> QED
    BY <1>0, <1>3, <2>1, <2>2 DEF Repeat, Dispatched
<1>4. CASE HoldCommand(c, t)
  <2>1. tally' \in Tally
    BY <1>4, CountType DEF HoldCommand, Mark
  <2>2. ledger' \in [Key -> Entry]
    BY <1>4 DEF HoldCommand, TypeOK, Entry, EntryState
  <2>3. queued' \in Seq(Command)
    BY <1>4 DEF HoldCommand, TypeOK
  <2> QED
    BY <1>0, <1>4, <2>1, <2>2, <2>3 DEF HoldCommand, Dispatched
<1>5. CASE Perform(c, t)
  <2>1. <<c.id>> \in Seq(Id)
    OBVIOUS
  <2> QED
    BY <1>0, <1>5, <2>1, ExecuteType DEF Perform, Dispatched
<1> QED
  BY <1>1, <1>2, <1>3, <1>4, <1>5 DEF Dispatch

-----------------------------------------------------------------------------
(* Type correctness: one lemma per group of actions.                        *)

LEMMA InitType ==
    ASSUME Init
    PROVE  TypeOK
<1>1. ints \in Machine
  BY NewInterruptsType DEF Init
<1>2. FreeEntry \in Entry
  BY DEF FreeEntry, Entry, EntryState
<1>3. tally \in Tally
  BY DEF Init, Tally
<1>4. All \in Scope
  BY DEF Scope
<1>5. life \in [Device -> {"unborn", "live", "retired"}]
  BY DEF Init
<1>6. /\ batch \in Seq(HostRecord)
      /\ queued \in Seq(Command) /\ todo \in Seq(Command) /\ forward \in Seq(Command)
  BY DEF Init
<1> QED
  BY <1>1, <1>2, <1>3, <1>4, <1>5, <1>6 DEF Init, TypeOK, Phase

(* The variables a slice, its barrier and its end may change.               *)
LEMMA SliceType ==
    ASSUME TypeOK, Advance \/ Close \/ WallTick \/ Barrier \/ SendFails
                   \/ EndControl \/ EndRecords \/ EndQueue
    PROVE  TypeOK'
<1> USE DEF historyVars
<1>1. CASE Advance
  <2>1. life' \in [Device -> {"unborn", "live", "retired"}]
    BY <1>1 DEF Advance, TypeOK
  <2> QED
    BY <1>1, <2>1 DEF Advance, TypeOK, Phase
<1>2. CASE Close
  <2>1. ints' \in Machine
    BY <1>2, DropType DEF Close, TypeOK
  <2>2. payloads' \in [Id -> Command \cup {NoCommand}]
    BY <1>2 DEF Close, TypeOK
  <2> QED
    BY <1>2, <2>1, <2>2 DEF Close, TypeOK, Phase
<1>3. CASE WallTick
  BY <1>3 DEF WallTick, TypeOK
<1>4. CASE Barrier
  <2>1. ints' \in Machine
    BY <1>4, SetInventoryType DEF Barrier, TypeOK
  <2> QED
    BY <1>4, <2>1 DEF Barrier, TypeOK, Phase
<1>5. CASE SendFails
  BY <1>5 DEF SendFails, TypeOK, Phase
<1>6. CASE EndControl
  BY <1>6 DEF EndControl, TypeOK, Phase
<1>7. CASE EndRecords
  <2>1. queued' \in Seq(Command) /\ todo' \in Seq(Command) /\ phase' \in Phase
    <3>1. CASE finished
      BY <1>7, <3>1 DEF EndRecords, TypeOK, Phase
    <3>2. CASE ~finished
      BY <1>7, <3>2 DEF EndRecords, TypeOK, Phase
    <3> QED
      BY <3>1, <3>2
  <2> QED
    BY <1>7, <2>1 DEF EndRecords, TypeOK
<1>8. CASE EndQueue
  BY <1>8 DEF EndQueue, TypeOK, Phase
<1> QED
  BY <1>1, <1>2, <1>3, <1>4, <1>5, <1>6, <1>7, <1>8

LEMMA HeadOf ==
    ASSUME NEW S, NEW q \in Seq(S), q # <<>>
    PROVE  /\ Head(q) \in S /\ Tail(q) \in Seq(S)
           /\ Head(q) = q[1] /\ Len(q) \in Nat \ {0} /\ Len(Tail(q)) = Len(q) - 1
           /\ \A i \in 1..Len(Tail(q)) : Tail(q)[i] = q[i + 1]
OBVIOUS

(* What the host does: it sends, or it is lost.                             *)
LEMMA HostType ==
    ASSUME TypeOK, Host \/ HostLost
    PROVE  TypeOK'
<1> USE DEF historyVars
<1>1. CASE Host
  <2>1. PICK r \in HostRecord : HostSends(r)
    BY <1>1 DEF Host
  <2> QED
    BY <2>1 DEF HostSends, TypeOK
<1>2. CASE HostLost
  <2> DEFINE heard == {i \in States(batch) : Accepted(i)}
             epochs == {batch[i].epoch : i \in heard}
  <2>1. \A i \in States(batch) : batch[i].epoch \in Nat
    <3> SUFFICES ASSUME NEW i \in States(batch)
                 PROVE  batch[i].epoch \in Nat
      OBVIOUS
    <3>1. batch[i] \in HostRecord /\ batch[i].type = "STATE"
      BY DEF States, TypeOK
    <3> QED
      BY <3>1, BoundsAssumption DEF HostRecord
  <2>2. epoch' \in Nat
    BY <1>2, <2>1 DEF HostLost, TypeOK
  <2>3. phase' \in Phase /\ finished' \in BOOLEAN /\ batch' = <<>>
    BY <1>2 DEF HostLost, Phase
  <2> QED
    BY <1>2, <2>2, <2>3 DEF HostLost, TypeOK
<1> QED
  BY <1>1, <1>2

LEMMA RefusePendingType ==
    ASSUME TypeOK, NEW gone, RefusePending(gone)
    PROVE  /\ payloads' \in [Id -> Command \cup {NoCommand}]
           /\ tally' \in Tally
<1>1. payloads' \in [Id -> Command \cup {NoCommand}]
  BY DEF RefusePending, TypeOK
<1>2. tally' \in Tally
  BY CloseHoldersType DEF RefusePending, TypeOK
<1> QED
  BY <1>1, <1>2

LEMMA StartPurgeType ==
    ASSUME TypeOK, NEW s \in Scope, StartPurge(s)
    PROVE  /\ phase' \in Phase /\ scope' \in Scope
           /\ todo' \in Seq(Command) /\ queued' \in Seq(Command)
BY DEF StartPurge, TypeOK, Phase

LEMMA PayloadsType ==
    ASSUME TypeOK, PayloadsMatchPending, NEW p \in ints.pending
    PROVE  /\ Payloads(p) \in Seq(Command)
           /\ {payloads[id] : id \in Holders(p)} \subseteq Command
<1>1. p.waiting \in Seq(Id) /\ p.id \in Id
  BY DEF TypeOK, Machine, Pending
<1>2. \A id \in Holders(p) : payloads[id] \in Command
  <2>1. \A id \in Holders(p) : id \in Id /\ IdWaiting(ints, id)
    BY <1>1 DEF Holders, IdWaiting
  <2> QED
    BY <2>1 DEF PayloadsMatchPending, TypeOK
<1>3. \A i \in 1..(Len(p.waiting) + 1) :
        (IF i = 1 THEN p.id ELSE p.waiting[i - 1]) \in Holders(p)
  <2> SUFFICES ASSUME NEW i \in 1..(Len(p.waiting) + 1), i # 1
               PROVE  p.waiting[i - 1] \in Holders(p)
    BY DEF Holders
  <2>1. i - 1 \in 1..Len(p.waiting)
    BY <1>1
  <2> QED
    BY <2>1 DEF Holders
<1>4. Payloads(p) \in [1..(Len(p.waiting) + 1) -> Command]
  BY <1>2, <1>3 DEF Payloads
<1>5. Len(p.waiting) + 1 \in Nat
  BY <1>1
<1>6. Payloads(p) \in Seq(Command)
  BY <1>4, <1>5
<1> QED
  BY <1>2, <1>6

(* What the operator does.                                                  *)
LEMMA ControlType ==
    ASSUME TypeOK, PayloadsMatchPending, Control
    PROVE  TypeOK'
<1> USE DEF historyVars, TakeControl
<1>1. ASSUME NEW s \in Scope, NEW latch \in BOOLEAN, Hold(s, latch)
      PROVE  TypeOK'
  <2>1. ints' \in Machine
    BY <1>1, SetHoldType DEF Hold, TypeOK
  <2>2. payloads' \in [Id -> Command \cup {NoCommand}] /\ tally' \in Tally
    BY <1>1, RefusePendingType DEF Hold
  <2>3. lastAct' \in [Device -> {"none", "order", "stop"}]
    BY <1>1 DEF Hold, TypeOK
  <2>4. /\ phase' \in Phase /\ scope' \in Scope
        /\ todo' \in Seq(Command) /\ queued' \in Seq(Command)
    BY <1>1, StartPurgeType DEF Hold
  <2> QED
    BY <1>1, <2>1, <2>2, <2>3, <2>4 DEF Hold, TypeOK
<1>2. ASSUME NEW s \in Scope, Release(s)
      PROVE  TypeOK'
  <2>1. ints' \in Machine
    BY <1>2, ClearHoldType DEF Release, TypeOK
  <2> QED
    BY <1>2, <2>1 DEF Release, TypeOK
<1>3. ASSUME NEW s \in Scope, ApproveMode(s)
      PROVE  TypeOK'
  <2>1. ints' \in Machine
    BY <1>3, SetApproveType DEF ApproveMode, TypeOK
  <2>2. /\ phase' \in Phase /\ scope' \in Scope
        /\ todo' \in Seq(Command) /\ queued' \in Seq(Command)
    BY <1>3, StartPurgeType DEF ApproveMode
  <2> QED
    <3>1. /\ UNCHANGED <<now, wall, life, epoch, finished, batch, sends>>
          /\ UNCHANGED <<payloads, ledger, forward, runs, ran, lastAct, approved, tally>>
          /\ calls' = calls + 1
      BY <1>3, Zenon DEF ApproveMode
    <3> QED
      BY <2>1, <2>2, <3>1 DEF TypeOK
<1>4. ASSUME NEW s \in Scope, ApproveModeOff(s)
      PROVE  TypeOK'
  <2>1. ints' \in Machine
    BY <1>4, SetApproveType DEF ApproveModeOff, TypeOK
  <2> QED
    <3>1. /\ UNCHANGED <<now, wall, life, epoch, finished, batch, sends>>
          /\ UNCHANGED <<phase, payloads, ledger, queued, todo, scope, forward>>
          /\ UNCHANGED <<runs, ran, lastAct, approved, tally>>
          /\ calls' = calls + 1
      BY <1>4, Zenon DEF ApproveModeOff
    <3> QED
      BY <2>1, <3>1 DEF TypeOK
<1>5. ASSUME NEW p \in ints.pending, Approve(p)
      PROVE  TypeOK'
  <2>1. ints' \in Machine
    BY <1>5, DropType DEF Approve, TypeOK
  <2>2. CASE HoldCovers(ints, p.content.device)
    <3>1. payloads' \in [Id -> Command \cup {NoCommand}] /\ tally' \in Tally
      BY <1>5, <2>2, RefusePendingType DEF Approve
    <3> QED
      BY <1>5, <2>1, <2>2, <3>1 DEF Approve, TypeOK
  <2>3. CASE ~HoldCovers(ints, p.content.device)
    <3>1. payloads' \in [Id -> Command \cup {NoCommand}]
      BY <1>5, <2>3 DEF Approve, TypeOK
    <3>2. forward' \in Seq(Command) /\ approved' \subseteq Command
      BY <1>5, <2>3, PayloadsType DEF Approve, TypeOK
    <3> QED
      BY <1>5, <2>1, <2>3, <3>1, <3>2 DEF Approve, TypeOK, Phase
  <2> QED
    BY <2>2, <2>3
<1>6. ASSUME NEW p \in ints.pending, Deny(p)
      PROVE  TypeOK'
  <2>1. ints' \in Machine
    BY <1>6, DropType DEF Deny, TypeOK
  <2>2. payloads' \in [Id -> Command \cup {NoCommand}] /\ tally' \in Tally
    BY <1>6, RefusePendingType DEF Deny
  <2> QED
    BY <1>6, <2>1, <2>2 DEF Deny, TypeOK
<1> QED
  BY <1>1, <1>2, <1>3, <1>4, <1>5, <1>6 DEF Control

(* What the node does with the queue, the records and what was approved.    *)
LEMMA StepType ==
    ASSUME TypeOK, \/ Purge \/ ForwardApproved \/ EndControls
                   \/ HostState \/ HostCommand \/ KeepQueued \/ ExecuteQueued
    PROVE  TypeOK'
<1> USE DEF historyVars
<1>0. Dispatched
  BY DEF TypeOK, Dispatched
<1>1. CASE Purge
  <2>1. Head(todo) \in Command /\ todo' \in Seq(Command)
    BY <1>1, HeadOf DEF Purge, TypeOK
  <2>2. CASE Withdraws(ints, scope, Head(todo))
    <3>1. ledger' \in [Key -> Entry] /\ tally' \in Tally /\ UNCHANGED <<runs, ran, lastAct>>
      BY <1>1, <2>1, <2>2, ReleaseType DEF Purge
    <3> QED
      BY <1>1, <2>1, <2>2, <3>1 DEF Purge, TypeOK
  <2>3. CASE ~Withdraws(ints, scope, Head(todo))
    <3>1. /\ queued' = Append(queued, Head(todo))
          /\ UNCHANGED <<ledger, tally, runs, ran, lastAct>>
      BY <1>1, <2>3, Zenon DEF Purge
    <3>2. queued' \in Seq(Command)
      BY <2>1, <3>1 DEF TypeOK
    <3> QED
      BY <1>1, <2>1, <3>1, <3>2 DEF Purge, TypeOK
  <2> QED
    BY <2>2, <2>3
<1>2. CASE ForwardApproved
  <2>1. Head(forward) \in Command /\ forward' \in Seq(Command)
    BY <1>2, HeadOf DEF ForwardApproved, TypeOK
  <2>2. Dispatched'
    BY <1>2, <2>1, DispatchType DEF ForwardApproved, TypeOK
  <2> QED
    BY <1>2, <2>1, <2>2 DEF ForwardApproved, TypeOK, Dispatched
<1>3. CASE EndControls
  <2>1. ints' \in Machine
    BY <1>3, DropType DEF EndControls, TypeOK
  <2>2. payloads' \in [Id -> Command \cup {NoCommand}] /\ tally' \in Tally
    BY <1>3, RefusePendingType DEF EndControls
  <2> QED
    BY <1>3, <2>1, <2>2 DEF EndControls, TypeOK, Phase
<1>4. CASE HostState
  <2>1. Head(batch) \in HostRecord /\ batch' \in Seq(HostRecord)
    BY <1>4, HeadOf DEF HostState, NextRecord, TypeOK
  <2>2. Head(batch).epoch \in Nat
    BY <1>4, <2>1, BoundsAssumption DEF HostState, HostRecord
  <2>3. epoch' \in Nat /\ finished' \in BOOLEAN
    BY <1>4, <2>2 DEF HostState, TypeOK
  <2> QED
    BY <1>4, <2>1, <2>3 DEF HostState, NextRecord, TypeOK
<1>5. CASE HostCommand
  <2>1. Head(batch) \in HostRecord /\ batch' \in Seq(HostRecord)
    BY <1>5, HeadOf DEF HostCommand, NextRecord, TypeOK
  <2> DEFINE c == Head(batch).cmd
  <2>2. c \in Command
    BY <1>5, <2>1 DEF HostCommand, HostRecord
  <2> HIDE DEF c
  <2>3. /\ UNCHANGED <<phase, now, wall, life, todo, scope, forward, sends, calls, approved>>
        /\ UNCHANGED <<epoch, finished>>
        /\ Pass(c) \/ TurnAway(c) \/ Wait(c)
    BY <1>5 DEF HostCommand, NextRecord, c
  <2>4. Count(tally, "heard", c.id) \in Tally
    BY <2>2, CountType, CommandFields DEF TypeOK, Mark
  <2>5. Dispatched' /\ ints' \in Machine /\ payloads' \in [Id -> Command \cup {NoCommand}]
    <3>1. CASE Pass(c)
      BY <2>2, <2>4, <3>1, DispatchType DEF Pass, TypeOK
    <3>2. CASE TurnAway(c)
      <4>1. tally' \in Tally
        BY <2>2, <2>4, <3>2, CountType, CommandFields DEF TurnAway, Mark
      <4> QED
        BY <1>0, <3>2, <4>1 DEF TurnAway, TypeOK, Dispatched
    <3>3. CASE Wait(c)
      <4>1. ints' \in Machine
        BY <2>2, <3>3, EnqueueType, JoinType DEF Wait, TypeOK
      <4>2. payloads' \in [Id -> Command \cup {NoCommand}]
        BY <2>2, <3>3 DEF Wait, StorePayload, TypeOK
      <4>3. tally' \in Tally
        BY <2>2, <2>4, <3>3, CountType, CommandFields DEF Wait, Mark
      <4> QED
        BY <1>0, <3>3, <4>1, <4>2, <4>3 DEF Wait, Dispatched
    <3> QED
      BY <2>3, <3>1, <3>2, <3>3
  <2> QED
    BY <2>1, <2>3, <2>5 DEF TypeOK, Dispatched
<1>6. CASE KeepQueued
  <2>1. Head(todo) \in Command /\ todo' \in Seq(Command)
    BY <1>6, HeadOf DEF KeepQueued, NextQueued, TypeOK
  <2>2. queued' \in Seq(Command)
    BY <1>6, <2>1 DEF KeepQueued, TypeOK
  <2> QED
    BY <1>6, <2>1, <2>2 DEF KeepQueued, NextQueued, TypeOK
<1>7. CASE ExecuteQueued
  <2>1. Head(todo) \in Command /\ todo' \in Seq(Command)
    BY <1>7, HeadOf DEF ExecuteQueued, NextQueued, TypeOK
  <2>2. Dispatched'
    <3>1. CASE Admissible(Head(todo))
      <4>1. ledger[Head(todo).key].waiting \in Seq(Id)
        BY <2>1, CommandFields DEF TypeOK, Entry
      <4> QED
        BY <1>0, <1>7, <2>1, <3>1, <4>1, ExecuteType DEF ExecuteQueued, TypeOK, Dispatched
    <3>2. CASE ~Admissible(Head(todo))
      BY <1>0, <1>7, <2>1, <3>2, ReleaseType DEF ExecuteQueued, Dispatched
    <3> QED
      BY <3>1, <3>2
  <2> QED
    BY <1>7, <2>1, <2>2 DEF ExecuteQueued, NextQueued, TypeOK, Dispatched
<1> QED
  BY <1>1, <1>2, <1>3, <1>4, <1>5, <1>6, <1>7

-----------------------------------------------------------------------------
(* The gate keeps the payload of every id that waits.  That holds because   *)
(* two commands that wait share no id and no key.                           *)

PendingApart ==
    \A p, q \in ints.pending : p # q => p.key # q.key /\ Holders(p) \cap Holders(q) = {}

PendingInv == PendingApart /\ PayloadsMatchPending

LEMMA PendingSame ==
    ASSUME PendingInv, ints'.pending = ints.pending, payloads' = payloads
    PROVE  PendingInv'
BY DEF PendingInv, PendingApart, PayloadsMatchPending, IdWaiting

(* Some are resolved, and their payloads go.                                *)
LEMMA PendingDropped ==
    ASSUME TypeOK, PendingInv, NEW gone \in SUBSET ints.pending,
           ints'.pending = ints.pending \ gone,
           payloads' = [id \in Id |-> IF id \in HoldersOf(gone) THEN NoCommand ELSE payloads[id]]
    PROVE  PendingInv'
<1>1. PendingApart'
  BY DEF PendingInv, PendingApart
<1>2. ASSUME NEW id \in Id, NEW p \in ints.pending \ gone, id \in Holders(p)
      PROVE  id \notin HoldersOf(gone)
  BY <1>2 DEF PendingInv, PendingApart, HoldersOf
<1>3. ASSUME NEW id \in Id
      PROVE  payloads'[id] # NoCommand <=> IdWaiting(ints', id)
  <2>1. CASE id \in HoldersOf(gone)
    BY <1>2, <2>1 DEF IdWaiting
  <2>2. CASE id \notin HoldersOf(gone)
    <3>1. IdWaiting(ints', id) <=> IdWaiting(ints, id)
      BY <2>2 DEF IdWaiting, HoldersOf
    <3> QED
      BY <2>2, <3>1 DEF PendingInv, PayloadsMatchPending
  <2> QED
    BY <2>1, <2>2
<1>4. ASSUME NEW id \in Id, NEW p \in ints'.pending, id \in Holders(p)
      PROVE  payloads'[id].id = id /\ SameIntent(p, payloads'[id])
  BY <1>2, <1>4 DEF PendingInv, PayloadsMatchPending
<1> QED
  BY <1>1, <1>3, <1>4 DEF PendingInv, PayloadsMatchPending

LEMMA HoldersJoin ==
    ASSUME NEW p \in Pending, NEW id \in Id
    PROVE  LET q == [p EXCEPT !.waiting = Append(@, id)]
           IN  q.key = p.key /\ q.content = p.content /\ Holders(q) = Holders(p) \cup {id}
<1> DEFINE q == [p EXCEPT !.waiting = Append(@, id)]
<1>1. q.id = p.id /\ q.key = p.key /\ q.content = p.content /\ q.waiting = Append(p.waiting, id)
  BY DEF Pending
<1>2. p.waiting \in Seq(Id)
  BY DEF Pending
<1>3. {q.waiting[i] : i \in 1..Len(q.waiting)} = {p.waiting[i] : i \in 1..Len(p.waiting)} \cup {id}
  BY <1>1, <1>2
<1> QED
  BY <1>1, <1>3 DEF Holders

(* A command joins those that wait, or one that waits already.              *)
LEMMA PendingWaits ==
    ASSUME TypeOK, PendingInv, NEW c \in Command, Wait(c)
    PROVE  PendingInv'
<1> USE CommandFields
<1>1. CASE Verdict(ints, c, now) = "queue"
  <2>1. ~IdWaiting(ints, c.id) /\ ~KeyWaiting(ints, c.key)
    BY <1>1 DEF Verdict, QueueVerdict
  <2>2. ints'.pending = ints.pending \cup {PendingOf(c)}
    BY <1>1 DEF Wait, Enqueue, TypeOK, Machine
  <2>3. /\ Holders(PendingOf(c)) = {c.id} /\ PendingOf(c).key = c.key
        /\ PendingOf(c).content = c.content
    BY DEF PendingOf, Holders
  <2>4. payloads' = [payloads EXCEPT ![c.id] = c]
    BY <2>1 DEF Wait, StorePayload, PendingInv, PayloadsMatchPending, TypeOK
  <2>5. PendingApart'
    BY <2>1, <2>2, <2>3 DEF PendingInv, PendingApart, IdWaiting, KeyWaiting
  <2>6. PayloadsMatchPending'
    <3>1. ASSUME NEW id \in Id
          PROVE  payloads'[id] # NoCommand <=> IdWaiting(ints', id)
      BY <2>2, <2>3, <2>4, CommandAssumption
         DEF PendingInv, PayloadsMatchPending, IdWaiting, TypeOK
    <3>2. ASSUME NEW id \in Id, NEW p \in ints'.pending, id \in Holders(p)
          PROVE  payloads'[id].id = id /\ SameIntent(p, payloads'[id])
      BY <2>1, <2>2, <2>3, <2>4, <3>2
         DEF PendingInv, PayloadsMatchPending, IdWaiting, SameIntent, TypeOK
    <3> QED
      BY <3>1, <3>2 DEF PayloadsMatchPending
  <2> QED
    BY <2>5, <2>6 DEF PendingInv
<1>2. CASE Verdict(ints, c, now) = "join"
  <2> DEFINE J(p) == IF p.key = c.key THEN [p EXCEPT !.waiting = Append(@, c.id)] ELSE p
  <2>1. ~IdWaiting(ints, c.id) /\ \E p \in ints.pending : SameIntent(p, c)
    BY <1>2 DEF Verdict, QueueVerdict
  <2>2. ints'.pending = {J(p) : p \in ints.pending}
    BY <1>2 DEF Wait, Join, TypeOK, Machine
  <2>3. ASSUME NEW p \in ints.pending
        PROVE  /\ J(p).key = p.key /\ J(p).content = p.content
               /\ Holders(J(p)) = IF p.key = c.key THEN Holders(p) \cup {c.id} ELSE Holders(p)
    BY HoldersJoin DEF TypeOK, Machine
  <2>4. payloads' = [payloads EXCEPT ![c.id] = c]
    BY <2>1 DEF Wait, StorePayload, PendingInv, PayloadsMatchPending, TypeOK
  <2> HIDE DEF J
  <2>5. \A p \in ints.pending : c.id \notin Holders(p)
    BY <2>1 DEF IdWaiting
  <2>6. PendingApart'
    BY <2>2, <2>3, <2>5 DEF PendingInv, PendingApart
  <2>7. \A p \in ints.pending : p.key = c.key => p.content = c.content
    BY <2>1 DEF SameIntent, PendingInv, PendingApart
  <2>8. PayloadsMatchPending'
    <3>1. ASSUME NEW id \in Id, id # c.id
          PROVE  IdWaiting(ints', id) <=> IdWaiting(ints, id)
      BY <2>2, <2>3, <3>1 DEF IdWaiting
    <3>2. IdWaiting(ints', c.id)
      BY <2>1, <2>2, <2>3 DEF IdWaiting, SameIntent
    <3>3. ASSUME NEW id \in Id
          PROVE  payloads'[id] # NoCommand <=> IdWaiting(ints', id)
      BY <2>4, <3>1, <3>2, CommandAssumption DEF PendingInv, PayloadsMatchPending, TypeOK
    <3>4. ASSUME NEW id \in Id, NEW p \in ints.pending, id \in Holders(J(p))
          PROVE  payloads'[id].id = id /\ SameIntent(J(p), payloads'[id])
      <4>1. CASE id = c.id
        BY <2>3, <2>4, <2>5, <2>7, <3>4, <4>1 DEF SameIntent, TypeOK
      <4>2. CASE id # c.id
        <5>1. id \in Holders(p)
          BY <2>3, <3>4, <4>2
        <5>2. payloads'[id] = payloads[id]
          BY <2>4, <4>2 DEF TypeOK
        <5>3. payloads[id].id = id /\ SameIntent(p, payloads[id])
          BY <5>1 DEF PendingInv, PayloadsMatchPending
        <5> QED
          BY <2>3, <5>2, <5>3 DEF SameIntent
      <4> QED
        BY <4>1, <4>2
    <3> QED
      BY <2>2, <3>3, <3>4 DEF PayloadsMatchPending
  <2> QED
    BY <2>6, <2>8 DEF PendingInv
<1>3. CASE Verdict(ints, c, now) = "retry"
  <2>1. ints'.pending = ints.pending
    BY <1>3 DEF Wait
  <2>2. payloads[c.id] # NoCommand
    BY <1>3 DEF Verdict, QueueVerdict, PendingInv, PayloadsMatchPending
  <2>3. payloads' = payloads
    BY <2>2 DEF Wait, StorePayload, TypeOK
  <2> QED
    BY <2>1, <2>3, PendingSame
<1> QED
  BY <1>1, <1>2, <1>3 DEF Wait

LEMMA PendingControl ==
    ASSUME TypeOK, PendingInv, Control
    PROVE  PendingInv'
<1>0. ints \in Machine
  BY DEF TypeOK
<1>1. ASSUME NEW s \in Scope, NEW latch \in BOOLEAN, Hold(s, latch)
      PROVE  PendingInv'
  <2>1. CoveredBy(ints, s) \in SUBSET ints.pending
    BY DEF CoveredBy
  <2>2. ints'.pending = ints.pending \ CoveredBy(ints, s)
    BY <1>0, <1>1 DEF Hold, SetHold, Drop, Machine
  <2>3. payloads' = [id \in Id |->
                       IF id \in HoldersOf(CoveredBy(ints, s)) THEN NoCommand ELSE payloads[id]]
    BY <1>1 DEF Hold, RefusePending
  <2> QED
    BY <2>1, <2>2, <2>3, PendingDropped
<1>2. ASSUME NEW s \in Scope, Release(s) \/ ApproveMode(s) \/ ApproveModeOff(s)
      PROVE  PendingInv'
  <2>1. CASE Release(s)
    <3>1. ints' = ClearHold(ints, s) /\ payloads' = payloads
      BY <2>1 DEF Release
    <3>2. ints'.pending = ints.pending
      BY <1>0, <3>1 DEF ClearHold, Machine
    <3> QED
      BY <3>1, <3>2, PendingSame
  <2>2. CASE ApproveMode(s) \/ ApproveModeOff(s)
    <3>1. /\ \/ ints' = SetApprove(ints, s, TRUE)
             \/ ints' = SetApprove(ints, s, FALSE)
          /\ payloads' = payloads
      BY <2>2, Zenon DEF ApproveMode, ApproveModeOff
    <3>2. ints'.pending = ints.pending
      BY <1>0, <3>1 DEF SetApprove, Machine
    <3> QED
      BY <3>1, <3>2, PendingSame
  <2> QED
    BY <1>2, <2>1, <2>2
<1>3. ASSUME NEW p \in ints.pending, Approve(p) \/ Deny(p)
      PROVE  PendingInv'
  <2>1. HoldersOf({p}) = Holders(p) /\ {p} \in SUBSET ints.pending
    BY DEF HoldersOf
  <2>2. ints'.pending = ints.pending \ {p}
    BY <1>0, <1>3 DEF Approve, Deny, Drop, Machine
  <2>3. payloads' = [id \in Id |-> IF id \in HoldersOf({p}) THEN NoCommand ELSE payloads[id]]
    <3>1. CASE Approve(p)
      <4>1. CASE HoldCovers(ints, p.content.device)
        BY <3>1, <4>1 DEF Approve, RefusePending
      <4>2. CASE ~HoldCovers(ints, p.content.device)
        BY <2>1, <3>1, <4>2 DEF Approve
      <4> QED
        BY <4>1, <4>2
    <3>2. CASE Deny(p)
      BY <3>2 DEF Deny, RefusePending
    <3> QED
      BY <1>3, <3>1, <3>2
  <2> QED
    BY <2>1, <2>2, <2>3, PendingDropped
<1> QED
  BY <1>1, <1>2, <1>3 DEF Control

LEMMA PendingNext ==
    ASSUME TypeOK, PendingInv, Next
    PROVE  PendingInv'
<1>0. ints \in Machine
  BY DEF TypeOK
<1>1. CASE Control
  BY <1>1, PendingControl
<1>2. CASE HostCommand
  <2> DEFINE c == Head(batch).cmd
  <2>1. Head(batch) \in HostRecord
    BY <1>2, HeadOf DEF HostCommand, NextRecord, TypeOK
  <2>2. c \in Command
    BY <1>2, <2>1 DEF HostCommand, HostRecord
  <2>3. CASE Wait(c)
    BY <2>2, <2>3, PendingWaits
  <2>4. CASE Pass(c) \/ TurnAway(c)
    BY <2>4, PendingSame DEF Pass, TurnAway
  <2> QED
    BY <1>2, <2>3, <2>4 DEF HostCommand
<1>3. CASE EndControls
  <2>1. Overdue(ints, now) \in SUBSET ints.pending
    BY DEF Overdue
  <2>2. ints'.pending = ints.pending \ Overdue(ints, now)
    BY <1>0, <1>3 DEF EndControls, Drop, Machine
  <2>3. payloads' = [id \in Id |->
                       IF id \in HoldersOf(Overdue(ints, now)) THEN NoCommand ELSE payloads[id]]
    BY <1>3 DEF EndControls, RefusePending
  <2> QED
    BY <2>1, <2>2, <2>3, PendingDropped
<1>4. CASE Close
  <2>1. ints'.pending = ints.pending \ ints.pending
    BY <1>0, <1>4 DEF Close, Drop, Machine
  <2>2. \A id : IdWaiting(ints, id) <=> id \in HoldersOf(ints.pending)
    BY DEF IdWaiting, HoldersOf
  <2>3. payloads' = [id \in Id |->
                       IF id \in HoldersOf(ints.pending) THEN NoCommand ELSE payloads[id]]
    BY <1>4, <2>2 DEF Close
  <2> QED
    BY <2>1, <2>3, PendingDropped
<1>5. CASE Barrier
  <2>1. ints' = SetInventory(ints, {d \in Device : life[d] = "live"}) /\ payloads' = payloads
    BY <1>5 DEF Barrier
  <2>2. ints'.pending = ints.pending
    BY <1>0, <2>1 DEF SetInventory, Machine
  <2> QED
    BY <2>1, <2>2, PendingSame
<1>6. CASE \/ Advance \/ Purge \/ ForwardApproved \/ EndControl
           \/ HostState \/ EndRecords
           \/ KeepQueued \/ ExecuteQueued \/ EndQueue
           \/ Host \/ WallTick \/ HostLost \/ SendFails \/ Terminated
  <2>1. ints' = ints /\ payloads' = payloads
    BY <1>6, Zenon
       DEF Advance, Purge, ForwardApproved, EndControl, HostState, EndRecords, NextQueued,
           KeepQueued, ExecuteQueued, EndQueue, Host, HostSends, WallTick, HostLost, SendFails,
           Terminated, vars
  <2> QED
    BY <2>1, PendingSame
<1> QED
  BY <1>1, <1>2, <1>3, <1>4, <1>5, <1>6 DEF Next, Node

-----------------------------------------------------------------------------
(* The type invariant and the gate's payloads, which need each other: an    *)
(* approval forwards the payloads of the ids that wait.                     *)

TypeInv == TypeOK /\ PendingInv

LEMMA TypeInvInit == Init => TypeInv
<1> SUFFICES ASSUME Init
             PROVE  TypeInv
  OBVIOUS
<1>1. ints.pending = {}
  BY DEF Init, NewInterrupts
<1>2. PendingInv
  BY <1>1 DEF PendingInv, PendingApart, PayloadsMatchPending, IdWaiting, Init
<1> QED
  BY <1>2, InitType DEF TypeInv

LEMMA TypeInvNext == TypeInv /\ [Next]_vars => TypeInv'
<1> SUFFICES ASSUME TypeOK, PendingInv, [Next]_vars
             PROVE  TypeOK' /\ PendingInv'
  BY DEF TypeInv
<1>1. CASE Next
  <2>1. TypeOK'
    <3>1. PayloadsMatchPending
      BY DEF PendingInv
    <3>2. CASE Terminated
      BY <3>2 DEF Terminated, vars, TypeOK
    <3> QED
      BY <1>1, <3>1, <3>2, SliceType, HostType, ControlType, StepType DEF Next, Node
  <2> QED
    BY <1>1, <2>1, PendingNext
<1>2. CASE UNCHANGED vars
  <2>1. TypeOK'
    BY <1>2 DEF vars, TypeOK
  <2> QED
    BY <1>2, <2>1, PendingSame DEF vars
<1> QED
  BY <1>1, <1>2

LEMMA TypeInvAlways == Spec => []TypeInv
BY TypeInvInit, TypeInvNext, PTL DEF Spec

(* Every variable of the session keeps to its type, whatever the host, the  *)
(* operator and the world do.                                               *)
THEOREM TypeCorrect == Spec => []TypeOK
<1>1. TypeInv => TypeOK
  BY DEF TypeInv
<1> QED
  BY <1>1, TypeInvAlways, PTL

(* InterruptGate.payloads holds exactly the ids that wait for the operator, *)
(* each with a command of the intent the operator was shown.                *)
THEOREM PayloadsKept == Spec => []PayloadsMatchPending
<1>1. TypeInv => PayloadsMatchPending
  BY DEF TypeInv, PendingInv
<1> QED
  BY <1>1, TypeInvAlways, PTL

-----------------------------------------------------------------------------
(* One intent, one effect.  A queue q and a ledger l that agree.            *)

Agree(q, l) ==
    /\ \A i \in 1..Len(q) : l[q[i].key].state = "pending" /\ l[q[i].key].content = q[i].content
    /\ \A i, j \in 1..Len(q) : q[i].key = q[j].key => i = j
    /\ \A k \in Key : l[k].state = "pending" => \E i \in 1..Len(q) : q[i].key = k

(* Two ledgers that differ at most in answers and in ids that wait.         *)
SameKeys(l, m) == \A k \in Key : l[k].state = m[k].state /\ l[k].content = m[k].content

LEMMA AgreeSame ==
    ASSUME NEW q \in Seq(Command), NEW l, NEW m, Agree(q, l), SameKeys(l, m)
    PROVE  Agree(q, m)
<1>1. \A i \in 1..Len(q) : q[i].key \in Key
  BY CommandFields
<1> QED
  BY <1>1 DEF Agree, SameKeys

(* A key that is not queued settles.                                        *)
LEMMA AgreeSettles ==
    ASSUME NEW q \in Seq(Command), NEW l, NEW m, NEW k \in Key, Agree(q, l),
           l[k].state # "pending", m[k].state # "pending", \A j \in Key \ {k} : m[j] = l[j]
    PROVE  Agree(q, m)
<1>1. \A i \in 1..Len(q) : q[i].key \in Key \ {k}
  BY CommandFields DEF Agree
<1> QED
  BY <1>1 DEF Agree

(* The head leaves the queue and its entry is no longer pending.            *)
LEMMA AgreeTail ==
    ASSUME NEW q \in Seq(Command), NEW l, NEW m, q # <<>>, Agree(q, l),
           m[Head(q).key].state # "pending", \A j \in Key \ {Head(q).key} : m[j] = l[j]
    PROVE  Agree(Tail(q), m)
<1>1. /\ Len(q) \in Nat \ {0} /\ Len(Tail(q)) = Len(q) - 1 /\ Head(q) = q[1]
      /\ \A i \in 1..Len(Tail(q)) : Tail(q)[i] = q[i + 1] /\ i + 1 \in 1..Len(q)
  BY HeadOf
<1>2. \A i \in 1..Len(q) : q[i].key \in Key
  BY CommandFields
<1>3. \A i \in 1..Len(Tail(q)) : Tail(q)[i].key \in Key \ {Head(q).key}
  BY <1>1, <1>2 DEF Agree
<1>4. \A i \in 1..Len(Tail(q)) : /\ m[Tail(q)[i].key].state = "pending"
                                  /\ m[Tail(q)[i].key].content = Tail(q)[i].content
  BY <1>1, <1>3 DEF Agree
<1>5. \A i, j \in 1..Len(Tail(q)) : Tail(q)[i].key = Tail(q)[j].key => i = j
  BY <1>1 DEF Agree
<1>6. ASSUME NEW k \in Key, m[k].state = "pending"
      PROVE  \E i \in 1..Len(Tail(q)) : Tail(q)[i].key = k
  <2>1. PICK i \in 1..Len(q) : q[i].key = k
    BY <1>6 DEF Agree
  <2>2. i # 1
    BY <1>1, <1>6, <2>1
  <2>3. i - 1 \in 1..Len(Tail(q)) /\ Tail(q)[i - 1] = q[i]
    BY <1>1, <2>2
  <2> QED
    BY <2>1, <2>3
<1> QED
  BY <1>4, <1>5, <1>6 DEF Agree

(* A command is queued under a key that was free.                           *)
LEMMA AgreeAppend ==
    ASSUME NEW q \in Seq(Command), NEW l, NEW m, NEW c \in Command, Agree(q, l),
           l[c.key].state # "pending",
           m[c.key].state = "pending", m[c.key].content = c.content,
           \A j \in Key \ {c.key} : m[j] = l[j],
           NEW r, r = Append(q, c)
    PROVE  Agree(r, m)
<1>1. /\ Len(q) \in Nat /\ Len(r) = Len(q) + 1 /\ r[Len(q) + 1] = c
      /\ \A i \in 1..Len(q) : r[i] = q[i] /\ i \in 1..Len(r)
      /\ \A i \in 1..Len(r) : i \in 1..Len(q) \/ i = Len(q) + 1
  OBVIOUS
<1>2. \A i \in 1..Len(q) : q[i].key \in Key \ {c.key}
  BY CommandFields DEF Agree
<1>3. \A i \in 1..Len(r) : m[r[i].key].state = "pending" /\ m[r[i].key].content = r[i].content
  BY <1>1, <1>2 DEF Agree
<1>4. \A i, j \in 1..Len(r) : r[i].key = r[j].key => i = j
  BY <1>1, <1>2 DEF Agree
<1>5. ASSUME NEW k \in Key, m[k].state = "pending"
      PROVE  \E i \in 1..Len(r) : r[i].key = k
  <2>1. CASE k = c.key
    BY <1>1, <2>1
  <2>2. CASE k # c.key
    <3>1. PICK i \in 1..Len(q) : q[i].key = k
      BY <1>5, <2>2 DEF Agree
    <3> QED
      BY <1>1, <3>1
  <2> QED
    BY <2>1, <2>2
<1> QED
  BY <1>3, <1>4, <1>5 DEF Agree

(* The head goes to the end of the queue.                                   *)
LEMMA AgreeRotate ==
    ASSUME NEW q \in Seq(Command), NEW l, q # <<>>, Agree(q, l)
    PROVE  Agree(Append(Tail(q), Head(q)), l)
<1> DEFINE r == Append(Tail(q), Head(q))
           n == Len(q)
<1>1. /\ n \in Nat \ {0} /\ Len(r) = n /\ r[n] = q[1]
      /\ \A i \in 1..(n - 1) : r[i] = q[i + 1]
  BY HeadOf
<1> HIDE DEF r, n
<1>2. \A i \in 1..n : IF i = n THEN r[i] = q[1] ELSE r[i] = q[i + 1]
  BY <1>1
<1>3. /\ \A i \in 1..n : l[q[i].key].state = "pending" /\ l[q[i].key].content = q[i].content
      /\ \A i, j \in 1..n : q[i].key = q[j].key => i = j
      /\ \A k \in Key : l[k].state = "pending" => \E i \in 1..n : q[i].key = k
  BY DEF Agree, n
<1>4. \A i \in 1..n : l[r[i].key].state = "pending" /\ l[r[i].key].content = r[i].content
  BY <1>1, <1>2, <1>3
<1>5. \A i, j \in 1..n : r[i].key = r[j].key => i = j
  BY <1>1, <1>2, <1>3
<1>6. ASSUME NEW k \in Key, l[k].state = "pending"
      PROVE  \E i \in 1..n : r[i].key = k
  <2>1. PICK i \in 1..n : q[i].key = k
    BY <1>3, <1>6
  <2>2. CASE i = 1
    BY <1>1, <2>1, <2>2
  <2>3. CASE i # 1
    <3>1. i - 1 \in 1..n /\ r[i - 1] = q[i]
      BY <1>1, <2>3
    <3> QED
      BY <2>1, <3>1
  <2> QED
    BY <2>2, <2>3
<1>7. Agree(r, l)
  BY <1>1, <1>4, <1>5, <1>6 DEF Agree
<1> QED
  BY <1>7 DEF r

(* The queue in the middle of a loop.                                       *)
LEMMA Concatenation ==
    ASSUME NEW S, NEW t \in Seq(S), NEW q \in Seq(S)
    PROVE  /\ t \o q \in Seq(S)
           /\ t \o <<>> = t /\ <<>> \o q = q
           /\ \A x \in S : t \o Append(q, x) = Append(t \o q, x)
OBVIOUS

LEMMA ConcatenationHead ==
    ASSUME NEW S, NEW t \in Seq(S), NEW q \in Seq(S), t # <<>>
    PROVE  /\ t \o q # <<>> /\ Head(t \o q) = Head(t)
           /\ Tail(t) \o q = Tail(t \o q)
           /\ Tail(t) \o Append(q, Head(t)) = Append(Tail(t \o q), Head(t \o q))
<1>1. /\ t \o q # <<>> /\ Head(t \o q) = Head(t)
      /\ Tail(t) \in Seq(S) /\ Head(t) \in S
      /\ Tail(t) \o q = Tail(t \o q)
  BY HeadOf
<1>2. Tail(t) \o Append(q, Head(t)) = Append(Tail(t) \o q, Head(t))
  BY <1>1
<1> QED
  BY <1>1, <1>2

-----------------------------------------------------------------------------
(* The invariant: queue and ledger agree, a key was settled by its one      *)
(* effect, and nothing is left to visit outside the loops over the queue.   *)

Looping == {"purge", "queue", "lost"}

LedgerInv == /\ QueueMatchesLedger
             /\ AtMostOnce
             /\ phase \notin Looping => todo = <<>>

LEMMA QueueAgrees == QueueMatchesLedger <=> Agree(Queue, ledger)
BY DEF QueueMatchesLedger, Agree

LEMMA QueueType ==
    ASSUME TypeOK
    PROVE  Queue \in Seq(Command)
BY Concatenation DEF TypeOK, Queue

(* What a step may do to ledger, queue and effects.                         *)
Keeps == /\ SameKeys(ledger, ledger')
         /\ Queue' = Queue
         /\ runs' = runs

Rotates == /\ Queue # <<>> /\ Queue' = Append(Tail(Queue), Head(Queue))
           /\ ledger' = ledger /\ runs' = runs

Queues(c) == /\ c \in Command /\ ledger[c.key].state = "free"
             /\ Queue' = Append(Queue, c)
             /\ \E e \in Entry : /\ e.state = "pending" /\ e.content = c.content
                                 /\ ledger' = [ledger EXCEPT ![c.key] = e]
             /\ runs' = runs

Forgets == /\ Queue # <<>> /\ Queue' = Tail(Queue)
           /\ ledger' = [ledger EXCEPT ![Head(Queue).key] = FreeEntry]
           /\ runs' = runs

Settles(c) == /\ c \in Command
              /\ \/ ledger[c.key].state = "free" /\ Queue' = Queue
                 \/ Queue # <<>> /\ c = Head(Queue) /\ Queue' = Tail(Queue)
              /\ \E e \in Entry : /\ e.state = "settled"
                                  /\ ledger' = [ledger EXCEPT ![c.key] = e]
              /\ runs' = [runs EXCEPT ![c.key] = @ + 1]

LedgerStep == Keeps \/ Rotates \/ Forgets \/ \E c \in Command : Queues(c) \/ Settles(c)

(* Such a step keeps the agreement and is a step of the abstract ledger.    *)
LEMMA LedgerStepKeeps ==
    ASSUME TypeOK, LedgerInv, LedgerStep
    PROVE  QueueMatchesLedger' /\ AtMostOnce' /\ [Keys!Next]_<<KeyState, runs>>
<1>0. /\ Queue \in Seq(Command) /\ Agree(Queue, ledger) /\ AtMostOnce
      /\ ledger \in [Key -> Entry] /\ runs \in [Key -> Nat]
  BY QueueType, QueueAgrees DEF LedgerInv, TypeOK
<1>1. QueueMatchesLedger' <=> Agree(Queue', ledger')
  BY DEF QueueMatchesLedger, Agree, Queue
<1>2. CASE Keeps
  <2>1. Agree(Queue', ledger')
    BY <1>0, <1>2, AgreeSame DEF Keeps
  <2>2. AtMostOnce'
    BY <1>0, <1>2 DEF AtMostOnce, Keeps, SameKeys
  <2>3. UNCHANGED <<KeyState, runs>>
    BY <1>2 DEF Keeps, SameKeys, KeyState
  <2> QED
    BY <1>1, <2>1, <2>2, <2>3
<1>3. CASE Rotates
  <2>1. Agree(Queue', ledger')
    BY <1>0, <1>3, AgreeRotate DEF Rotates
  <2>2. AtMostOnce'
    BY <1>0, <1>3 DEF AtMostOnce, Rotates
  <2>3. UNCHANGED <<KeyState, runs>>
    BY <1>3 DEF Rotates, KeyState
  <2> QED
    BY <1>1, <2>1, <2>2, <2>3
<1>4. CASE Forgets
  <2> DEFINE k == Head(Queue).key
  <2>1. /\ k \in Key /\ ledger[k].state = "pending" /\ Queue # <<>> /\ Queue' = Tail(Queue)
        /\ ledger' = [ledger EXCEPT ![k] = FreeEntry] /\ runs' = runs
    <3>1. Head(Queue) = Queue[1] /\ 1 \in 1..Len(Queue) /\ Head(Queue) \in Command
      BY <1>0, <1>4, HeadOf DEF Forgets
    <3> QED
      BY <1>0, <1>4, <3>1, CommandFields DEF Forgets, Agree
  <2>2. ledger'[k].state = "free" /\ \A j \in Key \ {k} : ledger'[j] = ledger[j]
    BY <1>0, <2>1 DEF FreeEntry
  <2>3. Agree(Queue', ledger')
    BY <1>0, <2>1, <2>2, AgreeTail
  <2>4. AtMostOnce'
    BY <1>0, <2>1, <2>2 DEF AtMostOnce
  <2>5. Keys!Forget(k)
    BY <1>0, <2>1, <2>2 DEF Keys!Forget, KeyState
  <2> QED
    BY <1>1, <2>1, <2>3, <2>4, <2>5 DEF Keys!Next
<1>5. ASSUME NEW c \in Command, Queues(c)
      PROVE  QueueMatchesLedger' /\ AtMostOnce' /\ [Keys!Next]_<<KeyState, runs>>
  <2>1. /\ c.key \in Key /\ ledger[c.key].state = "free" /\ ledger[c.key].state # "pending"
        /\ Queue' = Append(Queue, c)
        /\ ledger'[c.key].state = "pending" /\ ledger'[c.key].content = c.content
        /\ \A j \in Key \ {c.key} : ledger'[j] = ledger[j]
        /\ runs' = runs
    BY <1>0, <1>5, CommandFields DEF Queues
  <2>2. Agree(Queue', ledger')
    BY <1>0, <2>1, AgreeAppend
  <2>3. AtMostOnce'
    BY <1>0, <2>1 DEF AtMostOnce
  <2>4. Keys!Hold(c.key)
    BY <1>0, <2>1 DEF Keys!Hold, KeyState
  <2> QED
    BY <1>1, <2>1, <2>2, <2>3, <2>4 DEF Keys!Next
<1>6. ASSUME NEW c \in Command, Settles(c)
      PROVE  QueueMatchesLedger' /\ AtMostOnce' /\ [Keys!Next]_<<KeyState, runs>>
  <2>1. /\ c.key \in Key
        /\ ledger'[c.key].state = "settled"
        /\ \A j \in Key \ {c.key} : ledger'[j] = ledger[j]
        /\ runs' = [runs EXCEPT ![c.key] = @ + 1]
    BY <1>0, <1>6, CommandFields DEF Settles
  <2>2. Agree(Queue', ledger') /\ ledger[c.key].state # "settled"
    <3>1. CASE ledger[c.key].state = "free" /\ Queue' = Queue
      BY <1>0, <2>1, <3>1, AgreeSettles
    <3>2. CASE Queue # <<>> /\ c = Head(Queue) /\ Queue' = Tail(Queue)
      <4>1. Head(Queue) = Queue[1] /\ 1 \in 1..Len(Queue)
        BY <1>0, <3>2, HeadOf
      <4>2. ledger[c.key].state = "pending"
        BY <1>0, <3>2, <4>1 DEF Agree
      <4>3. Agree(Tail(Queue), ledger')
        BY <1>0, <2>1, <3>2, AgreeTail
      <4> QED
        BY <3>2, <4>2, <4>3
    <3> QED
      BY <1>6, <3>1, <3>2 DEF Settles
  <2>3. runs[c.key] = 0
    BY <1>0, <2>1, <2>2 DEF AtMostOnce
  <2>4. AtMostOnce'
    BY <1>0, <2>1, <2>3 DEF AtMostOnce
  <2>5. Keys!Settle(c.key)
    BY <1>0, <2>1, <2>2 DEF Keys!Settle, KeyState
  <2> QED
    BY <1>1, <2>1, <2>2, <2>4, <2>5 DEF Keys!Next
<1> QED
  BY <1>2, <1>3, <1>4, <1>5, <1>6 DEF LedgerStep

-----------------------------------------------------------------------------
(* The steps of the session.                                                *)

LEMMA SameKeysIfSame ==
    ASSUME ledger' = ledger
    PROVE  SameKeys(ledger, ledger')
BY DEF SameKeys

LEMMA ExecuteSettles ==
    ASSUME TypeOK, NEW c \in Command, NEW waiting, NEW t, Execute(c, waiting, t),
           \/ ledger[c.key].state = "free" /\ Queue' = Queue
           \/ Queue # <<>> /\ c = Head(Queue) /\ Queue' = Tail(Queue)
    PROVE  Settles(c)
<1>1. PICK answer \in Answer :
        ledger' = [ledger EXCEPT ![c.key] = [state |-> "settled", content |-> c.content,
                                             answer |-> answer, waiting |-> <<>>]]
  BY DEF Execute, Answer
<1> DEFINE e == [state |-> "settled", content |-> c.content, answer |-> answer, waiting |-> <<>>]
<1>2. e \in Entry /\ e.state = "settled"
  BY CommandFields DEF Entry, EntryState
<1> QED
  BY <1>1, <1>2 DEF Execute, Settles

(* A command that is dispatched joins an entry, is queued under a free key, *)
(* or settles one.                                                          *)
LEMMA DispatchLedger ==
    ASSUME TypeOK, NEW c \in Command, NEW t, Dispatch(c, t), todo' = todo
    PROVE  LedgerStep
<1>0. /\ ledger \in [Key -> Entry] /\ queued \in Seq(Command) /\ todo \in Seq(Command)
      /\ c.key \in Key /\ c.id \in Id /\ c.content \in Content
  BY CommandFields DEF TypeOK
<1>1. CASE ExecuteSafeStop(c, t) \/ Refuse(c, t)
  <2>1. UNCHANGED <<ledger, queued, runs>>
    BY <1>1, Zenon DEF ExecuteSafeStop, Refuse
  <2> QED
    BY <2>1, SameKeysIfSame DEF LedgerStep, Keeps, Queue
<1>2. CASE Repeat(c, t)
  <2>1. /\ UNCHANGED <<queued, runs>>
        /\ ledger' = ledger \/ ledger' = [ledger EXCEPT ![c.key].waiting = Append(@, c.id)]
    BY <1>2 DEF Repeat
  <2>2. SameKeys(ledger, ledger')
    <3>1. CASE ledger' = [ledger EXCEPT ![c.key].waiting = Append(@, c.id)]
      <4>1. ASSUME NEW k \in Key
            PROVE  ledger'[k].state = ledger[k].state /\ ledger'[k].content = ledger[k].content
        <5>1. ledger[k] \in Entry
          BY <1>0
        <5>2. ledger'[k] = ledger[k] \/ ledger'[k] = [ledger[k] EXCEPT !.waiting = Append(@, c.id)]
          BY <1>0, <3>1
        <5> QED
          BY <5>1, <5>2 DEF Entry
      <4> QED
        BY <4>1 DEF SameKeys
    <3> QED
      BY <2>1, <3>1, SameKeysIfSame
  <2> QED
    BY <2>1, <2>2 DEF LedgerStep, Keeps, Queue
<1>3. CASE HoldCommand(c, t)
  <2> DEFINE e == [state |-> "pending", content |-> c.content, answer |-> NoCommand,
                   waiting |-> <<c.id>>]
  <2>1. /\ ledger' = [ledger EXCEPT ![c.key] = e]
        /\ queued' = Append(queued, c) /\ runs' = runs
        /\ ledger[c.key].state = "free"
    BY <1>3 DEF HoldCommand, Recorded
  <2>2. e \in Entry /\ e.state = "pending" /\ e.content = c.content
    BY <1>0 DEF Entry, EntryState
  <2> HIDE DEF e
  <2>3. Queue' = Append(Queue, c)
    BY <1>0, <2>1, Concatenation DEF Queue
  <2>4. Queues(c)
    BY <2>1, <2>2, <2>3 DEF Queues
  <2> QED
    BY <2>4 DEF LedgerStep
<1>4. CASE Perform(c, t)
  <2>1. Execute(c, <<c.id>>, t) /\ queued' = queued /\ ledger[c.key].state = "free"
    BY <1>4, Zenon DEF Perform, Recorded
  <2>2. Queue' = Queue
    BY <2>1 DEF Queue
  <2> QED
    BY <2>1, <2>2, ExecuteSettles DEF LedgerStep
<1> QED
  BY <1>1, <1>2, <1>3, <1>4 DEF Dispatch

(* One command of a loop over the queue: it is kept, or its entry goes.     *)
LEMMA LoopLedger ==
    ASSUME TypeOK, Purge \/ KeepQueued \/ ExecuteQueued
    PROVE  LedgerStep
<1>0. /\ queued \in Seq(Command) /\ todo \in Seq(Command)
      /\ todo # <<>> /\ todo' = Tail(todo) /\ Head(todo) \in Command
  BY HeadOf DEF TypeOK, Purge, KeepQueued, ExecuteQueued, NextQueued
<1>1. /\ Queue # <<>> /\ Head(Queue) = Head(todo)
      /\ Tail(todo) \o queued = Tail(Queue)
      /\ Tail(todo) \o Append(queued, Head(todo)) = Append(Tail(Queue), Head(Queue))
  BY <1>0, ConcatenationHead, Zenon DEF Queue
<1>2. CASE ReleaseCommand(Head(todo)) /\ queued' = queued
  <2>1. Forgets
    BY <1>0, <1>1, <1>2 DEF ReleaseCommand, Forgets, Queue
  <2> QED
    BY <2>1 DEF LedgerStep
<1>3. CASE queued' = Append(queued, Head(todo)) /\ UNCHANGED <<ledger, runs>>
  <2>1. Rotates
    BY <1>0, <1>1, <1>3 DEF Rotates, Queue
  <2> QED
    BY <2>1 DEF LedgerStep
<1>4. CASE Execute(Head(todo), ledger[Head(todo).key].waiting, tally) /\ queued' = queued
  <2>1. Queue' = Tail(Queue)
    BY <1>0, <1>1, <1>4 DEF Queue
  <2> QED
    BY <1>0, <1>1, <1>4, <2>1, ExecuteSettles DEF LedgerStep
<1> QED
  BY <1>2, <1>3, <1>4, Zenon DEF Purge, KeepQueued, ExecuteQueued

LEMMA LedgerNext ==
    ASSUME TypeOK, LedgerInv, Next
    PROVE  LedgerStep /\ (phase' \notin Looping => todo' = <<>>)
<1> USE DEF Looping, LedgerInv
<1>0. queued \in Seq(Command) /\ todo \in Seq(Command)
  BY DEF TypeOK
<1>1. CASE Purge \/ KeepQueued \/ ExecuteQueued
  <2>1. phase' \in Looping
    BY <1>1, Zenon DEF Purge, KeepQueued, ExecuteQueued, NextQueued
  <2> QED
    BY <1>1, <2>1, LoopLedger
<1>2. CASE ForwardApproved
  <2>1. /\ Head(forward) \in Command /\ Dispatch(Head(forward), tally)
        /\ todo' = todo /\ phase' = phase
    BY <1>2, HeadOf DEF ForwardApproved, TypeOK
  <2> QED
    BY <2>1, DispatchLedger
<1>3. CASE HostCommand
  <2> DEFINE c == Head(batch).cmd
  <2>1. Head(batch) \in HostRecord
    BY <1>3, HeadOf DEF HostCommand, NextRecord, TypeOK
  <2>2. c \in Command /\ todo' = todo /\ phase' = phase
    BY <1>3, <2>1 DEF HostCommand, NextRecord, HostRecord
  <2>3. CASE Pass(c)
    BY <2>2, <2>3, DispatchLedger DEF Pass
  <2>4. CASE TurnAway(c) \/ Wait(c)
    <3>1. UNCHANGED <<ledger, queued, runs>>
      BY <2>4, Zenon DEF TurnAway, Wait
    <3> QED
      BY <2>2, <3>1, SameKeysIfSame DEF LedgerStep, Keeps, Queue
  <2> QED
    BY <1>3, <2>3, <2>4 DEF HostCommand
<1>4. CASE Control
  <2>1. UNCHANGED <<ledger, runs>>
    BY <1>4, Zenon DEF Control, Hold, Release, ApproveMode, ApproveModeOff, Approve, Deny, historyVars
  <2>2. phase = "control"
    BY <1>4, Zenon DEF Control, Hold, Release, ApproveMode, ApproveModeOff, Approve, Deny, TakeControl
  <2>3. todo = <<>>
    BY <2>2
  <2>4. \/ UNCHANGED <<queued, todo>>
        \/ phase' = "purge" /\ todo' = queued /\ queued' = <<>>
    BY <1>4, Zenon
       DEF Control, Hold, Release, ApproveMode, ApproveModeOff, Approve, Deny, StartPurge
  <2>5. Queue' = Queue
    BY <1>0, <2>3, <2>4, Concatenation DEF Queue
  <2> QED
    BY <2>1, <2>3, <2>4, <2>5, SameKeysIfSame DEF LedgerStep, Keeps
<1>5. CASE EndRecords
  <2>1. UNCHANGED <<ledger, runs>> /\ todo = <<>>
    BY <1>5 DEF EndRecords, historyVars
  <2>2. \/ UNCHANGED <<queued, todo>>
        \/ phase' = "queue" /\ todo' = queued /\ queued' = <<>>
    BY <1>5, Zenon DEF EndRecords
  <2>3. Queue' = Queue
    BY <1>0, <2>1, <2>2, Concatenation DEF Queue
  <2> QED
    BY <2>1, <2>2, <2>3, SameKeysIfSame DEF LedgerStep, Keeps
<1>6. CASE \/ Advance \/ Barrier \/ EndControl \/ EndControls \/ HostState \/ EndQueue
           \/ Host \/ WallTick \/ Close \/ HostLost \/ SendFails \/ Terminated
  <2>1. UNCHANGED <<ledger, queued, todo, runs>>
    BY <1>6, Zenon
       DEF Advance, Barrier, EndControl, EndControls, HostState, NextRecord, EndQueue, Host,
           HostSends, WallTick, Close, HostLost, SendFails, Terminated, historyVars, vars
  <2>2. todo = <<>> \/ phase' \in Looping
    BY <1>6
       DEF Advance, Barrier, EndControl, EndControls, HostState, NextRecord, EndQueue, Host,
           HostSends, WallTick, Close, HostLost, SendFails, Terminated, vars
  <2> QED
    BY <2>1, <2>2, SameKeysIfSame DEF LedgerStep, Keeps, Queue
<1> QED
  BY <1>1, <1>2, <1>3, <1>4, <1>5, <1>6 DEF Next, Node

-----------------------------------------------------------------------------
SessionInv == TypeInv /\ LedgerInv

LEMMA SessionInvInit == Init => SessionInv /\ Keys!Init
<1> SUFFICES ASSUME Init
             PROVE  SessionInv /\ Keys!Init
  OBVIOUS
<1>1. Queue = <<>>
  BY DEF Init, Queue
<1>2. \A k \in Key : ledger[k].state = "free" /\ runs[k] = 0
  BY DEF Init, FreeEntry
<1>3. QueueMatchesLedger
  BY <1>1, <1>2 DEF QueueMatchesLedger
<1>4. LedgerInv
  BY <1>2, <1>3 DEF LedgerInv, AtMostOnce, Init
<1>5. Keys!Init
  BY <1>2 DEF Keys!Init, KeyState, Init
<1> QED
  BY <1>4, <1>5, TypeInvInit DEF SessionInv

LEMMA SessionInvNext ==
    SessionInv /\ [Next]_vars => SessionInv' /\ [Keys!Next]_<<KeyState, runs>>
<1> SUFFICES ASSUME SessionInv, [Next]_vars
             PROVE  SessionInv' /\ [Keys!Next]_<<KeyState, runs>>
  OBVIOUS
<1>1. TypeOK /\ LedgerInv /\ TypeInv'
  BY TypeInvNext DEF SessionInv, TypeInv
<1>2. CASE Next
  BY <1>1, <1>2, LedgerNext, LedgerStepKeeps DEF SessionInv, LedgerInv
<1>3. CASE UNCHANGED vars
  <2>1. UNCHANGED <<ledger, queued, todo, runs, phase>>
    BY <1>3 DEF vars
  <2> QED
    BY <1>1, <2>1
       DEF SessionInv, LedgerInv, QueueMatchesLedger, Queue, AtMostOnce, KeyState
<1> QED
  BY <1>2, <1>3

LEMMA SessionInvAlways == Spec => []SessionInv
BY SessionInvInit, SessionInvNext, PTL DEF Spec

(* Ledger.Release and Ledger.Settle are only ever called with a key the     *)
(* ledger holds for exactly the queued command, whatever is queued, purged, *)
(* run, repeated or approved.                                               *)
THEOREM QueueAndLedgerAgree == Spec => []QueueMatchesLedger
<1>1. SessionInv => QueueMatchesLedger
  BY DEF SessionInv, LedgerInv
<1> QED
  BY <1>1, SessionInvAlways, PTL

(* The world is invoked at most once under a key, and exactly for the keys  *)
(* whose entry is settled.                                                  *)
THEOREM RunsAtMostOnce == Spec => []AtMostOnce
<1>1. SessionInv => AtMostOnce
  BY DEF SessionInv, LedgerInv
<1> QED
  BY <1>1, SessionInvAlways, PTL

(* The session implements the abstract ledger: each of its steps holds a    *)
(* key, forgets it, settles it by one effect, or leaves it alone.           *)
THEOREM ImplementsKeyLedger == Spec => KeepsOneEffect
<1>1. Init => Keys!Init
  BY SessionInvInit
<1>2. SessionInv /\ [Next]_vars => [Keys!Next]_<<KeyState, runs>>
  BY SessionInvNext
<1> QED
  BY <1>1, <1>2, SessionInvAlways, PTL DEF Spec, KeepsOneEffect, Keys!Spec

-----------------------------------------------------------------------------
(* Local control.  A command is judged when it arrives, when the operator   *)
(* approves it and when its start time comes; between those it waits in the *)
(* queue or among the approved ones.  What is proved is that whatever waits *)
(* there may be run at once: a control that would forbid it has purged it,  *)
(* and no change of the inventory brings it under a control it escaped.     *)

TargetOf(c) == c.content.device

(* From the barrier to the end of the queue's loop the node's inventory is  *)
(* that of the world.                                                       *)
Acting == {"control", "purge", "forward", "process", "queue"}

InventoryIsCurrent == phase \in Acting => ints.inventory = {d \in Device : life[d] = "live"}

Free(c) ==
    c.content.kind # "stop" => /\ ~HoldCovers(ints, TargetOf(c))
                               /\ ApproveCovers(ints, TargetOf(c)) => c \in approved

(* A command is queued only once its device was born, so a device the node  *)
(* announces for the first time brings no queued command under a board.     *)
Placed(c) == /\ life[TargetOf(c)] # "unborn"
             /\ life[TargetOf(c)] = "live" => TargetOf(c) \in ints.inventory

Withdrawn(c) == phase = "purge" /\ Withdraws(ints, scope, c)

QueueIsFree ==
    /\ \A i \in 1..Len(queued) : Placed(queued[i]) /\ Free(queued[i])
    /\ \A i \in 1..Len(todo) : Placed(todo[i]) /\ (Withdrawn(todo[i]) \/ Free(todo[i]))

ForwardIsFree ==
    phase = "forward" =>
        \A i \in 1..Len(forward) : /\ forward[i] \in approved
                                   /\ ~HoldCovers(ints, TargetOf(forward[i]))

NoOrderBeforeBirth == \A d \in Device : life[d] = "unborn" => lastAct[d] # "order"

ControlInv == /\ InventoryIsCurrent /\ QueueIsFree /\ ForwardIsFree
              /\ NoOrderBeforeBirth /\ LatchedStaysStopped

(* What OperatorIsObeyed asks of a step.                                    *)
Obeyed ==
    ran' # ran /\ ran'.content.kind # "stop" =>
        /\ life'[TargetOf(ran')] = "live" => ~Stands(ints', {"held", "latched"}, TargetOf(ran'))
        /\ ApproveCovers(ints', TargetOf(ran')) => ran' \in approved

LEMMA ScopesOfDevice ==
    ASSUME NEW d \in Device
    PROVE  {All, BoardOf[d], d} \subseteq Scope
BY ScopesDisjoint DEF Scope

(* Where the device is announced, what the node reads off its inventory is  *)
(* what the plant's geography says.                                         *)
LEMMA StandsIsCovers ==
    ASSUME NEW m \in Machine, NEW d \in Device, d \in m.inventory
    PROVE  Stands(m, {"held", "latched"}, d) <=> HoldCovers(m, d)
<1>1. \A s \in Scope : m.holds[s] \in {"off", "held", "latched"}
  BY DEF Machine, HoldState
<1>2. \A s \in Scope : Covers(m, s, d) <=> s \in {All, BoardOf[d], d}
  BY DEF Covers
<1> QED
  BY <1>1, <1>2, ScopesOfDevice DEF Stands, HoldCovers

(* The world acts on a command that was free.                               *)
LEMMA RunsFree ==
    ASSUME TypeOK, ControlInv, NEW c \in Command,
           phase \in Acting, life' = life, ints' = ints, approved' = approved,
           ran' = c, lastAct' = Acted(c),
           life[TargetOf(c)] # "unborn", Free(c)
    PROVE  Obeyed /\ NoOrderBeforeBirth' /\ LatchedStaysStopped'
<1> DEFINE d == TargetOf(c)
<1>0. d \in Device /\ ints \in Machine /\ lastAct \in [Device -> {"none", "order", "stop"}]
  BY CommandFields DEF TargetOf, TypeOK
<1>1. c.content.kind # "stop" /\ life[d] = "live" => ~Stands(ints, {"held", "latched"}, d)
  <2> SUFFICES ASSUME c.content.kind # "stop", life[d] = "live"
               PROVE  ~Stands(ints, {"held", "latched"}, d)
    OBVIOUS
  <2>1. d \in ints.inventory
    BY <1>0 DEF ControlInv, InventoryIsCurrent
  <2> QED
    BY <1>0, <2>1, StandsIsCovers DEF Free
<1>2. Obeyed
  BY <1>1 DEF Obeyed, Free
<1>3. lastAct' = [lastAct EXCEPT ![d] = IF c.content.kind = "order" THEN "order" ELSE "stop"]
  BY DEF Acted, TargetOf
<1>4. NoOrderBeforeBirth'
  BY <1>0, <1>3 DEF NoOrderBeforeBirth, ControlInv
<1>5. Stands(ints, {"latched"}, d) => Stands(ints, {"held", "latched"}, d)
  BY DEF Stands
<1>6. LatchedStaysStopped'
  <2> SUFFICES ASSUME NEW e \in SafeStopping, life[e] = "live", Stands(ints, {"latched"}, e)
               PROVE  lastAct'[e] # "order"
    BY DEF LatchedStaysStopped, Stands
  <2>1. e \in Device /\ lastAct[e] # "order"
    BY ScopesDisjoint DEF ControlInv, LatchedStaysStopped
  <2>2. e = d => c.content.kind # "order"
    BY <1>1, <1>5
  <2> QED
    BY <1>0, <1>3, <2>1, <2>2
<1> QED
  BY <1>2, <1>4, <1>6

(* A command that is dispatched is run freely, queued free, or nothing      *)
(* comes of it.                                                             *)
LEMMA DispatchObeys ==
    ASSUME TypeOK, ControlInv, NEW c \in Command, NEW t, Dispatch(c, t),
           phase \in Acting, life' = life, ints' = ints, approved' = approved, Free(c)
    PROVE  /\ Obeyed /\ NoOrderBeforeBirth' /\ LatchedStaysStopped'
           /\ queued' = queued \/ (queued' = Append(queued, c) /\ Placed(c))
<1>0. TargetOf(c) \in Device /\ TargetOf(c) = c.content.device
  BY CommandFields DEF TargetOf
<1>1. CASE UNCHANGED <<ran, lastAct>>
  <2>1. Obeyed /\ NoOrderBeforeBirth' /\ LatchedStaysStopped'
    BY <1>1 DEF Obeyed, NoOrderBeforeBirth, LatchedStaysStopped, Stands, ControlInv
  <2>2. queued' = queued \/ (queued' = Append(queued, c) /\ ~Refuses(c))
    <3>1. CASE HoldCommand(c, t)
      BY <3>1, Zenon DEF HoldCommand
    <3>2. CASE ExecuteSafeStop(c, t) \/ Refuse(c, t) \/ Repeat(c, t) \/ Perform(c, t)
      BY <3>2, Zenon DEF ExecuteSafeStop, Refuse, Repeat, Perform
    <3> QED
      BY <3>1, <3>2, Zenon DEF Dispatch
  <2>3. ~Refuses(c) => Placed(c)
    BY <1>0 DEF Refuses, Admissible, Placed, ControlInv, InventoryIsCurrent
  <2> QED
    BY <2>1, <2>2, <2>3
<1>2. CASE ExecuteSafeStop(c, t) /\ c.content.flaw = "none"
  <2>1. ran' = c /\ lastAct' = Acted(c) /\ queued' = queued /\ life[TargetOf(c)] # "unborn"
    BY <1>0, <1>2, Zenon DEF ExecuteSafeStop, IsSafeStop
  <2> QED
    BY <2>1, RunsFree
<1>3. CASE Perform(c, t)
  <2>1. ran' = c /\ lastAct' = Acted(c) /\ queued' = queued /\ ~Refuses(c)
    BY <1>3, Zenon DEF Perform, Execute
  <2>2. life[TargetOf(c)] # "unborn"
    BY <1>0, <2>1 DEF Refuses, Admissible
  <2> QED
    BY <2>1, <2>2, RunsFree
<1> QED
  BY <1>1, <1>2, <1>3, Zenon DEF Dispatch, ExecuteSafeStop, Refuse, Repeat, HoldCommand

-----------------------------------------------------------------------------
(* Steps that leave the controls and the world's devices alone.             *)

SameRules == /\ ints'.holds = ints.holds /\ ints'.approves = ints.approves
             /\ ints'.inventory = ints.inventory
             /\ life' = life

Clear(c) == Placed(c) /\ Free(c)

(* What waits after the step was clear before it, or awaits the purge.      *)
WaitsClear ==
    /\ \A i \in 1..Len(queued') : Clear(queued'[i])
    /\ \A i \in 1..Len(todo') :
          \/ Clear(todo'[i])
          \/ /\ phase' = "purge" /\ scope' = scope /\ Placed(todo'[i])
             /\ Withdraws(ints, scope, todo'[i])

ForwardsClear ==
    phase' = "forward" =>
        \A i \in 1..Len(forward') : /\ forward'[i] \in approved'
                                    /\ ~HoldCovers(ints, TargetOf(forward'[i]))

LEMMA SameRulesCover ==
    ASSUME SameRules, NEW d
    PROVE  /\ HoldCovers(ints', d) <=> HoldCovers(ints, d)
           /\ ApproveCovers(ints', d) <=> ApproveCovers(ints, d)
           /\ \A s : Covers(ints', s, d) <=> Covers(ints, s, d)
BY DEF SameRules, HoldCovers, ApproveCovers, Covers

LEMMA RulesCarried ==
    ASSUME ControlInv, SameRules, approved \subseteq approved', WaitsClear, ForwardsClear,
           phase' \in Acting => phase \in Acting
    PROVE  InventoryIsCurrent' /\ QueueIsFree' /\ ForwardIsFree'
<1>1. ASSUME NEW c, Clear(c)
      PROVE  Placed(c)' /\ Free(c)'
  BY <1>1, SameRulesCover DEF Clear, Placed, Free, SameRules, TargetOf
<1>2. ASSUME NEW c, Placed(c), Withdraws(ints, scope, c), phase' = "purge", scope' = scope
      PROVE  Placed(c)' /\ Withdrawn(c)'
  BY <1>2, SameRulesCover DEF Placed, Withdrawn, Withdraws, DeclaredStop, SameRules, TargetOf
<1>3. QueueIsFree'
  BY <1>1, <1>2 DEF QueueIsFree, WaitsClear
<1>4. ForwardIsFree'
  BY SameRulesCover DEF ForwardIsFree, ForwardsClear
<1>5. InventoryIsCurrent'
  BY DEF InventoryIsCurrent, ControlInv, SameRules
<1> QED
  BY <1>3, <1>4, <1>5

LEMMA NothingAsked ==
    ASSUME ControlInv, SameRules, ran' = ran, lastAct' = lastAct
    PROVE  Obeyed /\ NoOrderBeforeBirth' /\ LatchedStaysStopped'
BY DEF ControlInv, SameRules, Obeyed, NoOrderBeforeBirth, LatchedStaysStopped, Stands

(* Outside a purge everything that waits is clear.                          *)
LEMMA WaitingIsClear ==
    ASSUME ControlInv, phase # "purge" \/ todo = <<>>
    PROVE  /\ \A i \in 1..Len(queued) : Clear(queued[i])
           /\ \A i \in 1..Len(todo) : Clear(todo[i])
BY DEF ControlInv, QueueIsFree, Withdrawn, Clear

LEMMA QuietObeys ==
    ASSUME TypeOK, ControlInv,
           \/ EndControl \/ EndControls \/ EndQueue \/ HostState \/ Host \/ WallTick
           \/ Close \/ HostLost \/ SendFails \/ Terminated
    PROVE  ControlInv' /\ Obeyed
<1>1. /\ UNCHANGED <<life, queued, todo, forward, scope, approved, ran, lastAct>>
      /\ \/ ints' = ints
         \/ ints' = Drop(ints, ints.pending) \/ ints' = Drop(ints, Overdue(ints, now))
  BY Zenon DEF EndControl, EndControls, EndQueue, HostState, NextRecord, Host, HostSends, WallTick,
               Close, HostLost, SendFails, Terminated, vars, historyVars
<1>2. /\ phase' \in Acting => phase \in Acting
      /\ phase' = "forward" => phase = "forward"
      /\ phase = "purge" => phase' = "purge" \/ todo = <<>>
  BY DEF EndControl, EndControls, EndQueue, HostState, NextRecord, Host, HostSends, WallTick,
         Close, HostLost, SendFails, Terminated, vars, Acting
<1>3. SameRules
  BY <1>1 DEF SameRules, Drop, TypeOK, Machine
<1>4. WaitsClear
  BY <1>1, <1>2 DEF ControlInv, QueueIsFree, Withdrawn, Clear, WaitsClear
<1>5. ForwardsClear
  BY <1>1, <1>2 DEF ControlInv, ForwardIsFree, ForwardsClear
<1> QED
  BY <1>1, <1>2, <1>3, <1>4, <1>5, RulesCarried, NothingAsked DEF ControlInv

(* The loops over the queue and what was approved.                          *)
LEMMA LoopObeys ==
    ASSUME TypeOK, ControlInv, Purge \/ KeepQueued \/ ExecuteQueued \/ EndRecords
    PROVE  ControlInv' /\ Obeyed
<1>0. queued \in Seq(Command) /\ todo \in Seq(Command)
  BY DEF TypeOK
<1>1. CASE Purge
  <2>1. /\ todo # <<>> /\ todo' = Tail(todo) /\ phase = "purge" /\ phase' = phase
        /\ UNCHANGED <<life, ints, scope, approved, ran, lastAct>>
    BY <1>1, Zenon DEF Purge, ReleaseCommand
  <2> DEFINE c == Head(todo)
  <2>2. c = todo[1] /\ \A i \in 1..Len(todo') : todo'[i] = todo[i + 1] /\ i + 1 \in 1..Len(todo)
    BY <1>0, <2>1, HeadOf
  <2>3. \A i \in 1..Len(todo') : /\ Placed(todo'[i])
                                 /\ (Withdraws(ints, scope, todo'[i]) \/ Free(todo'[i]))
    BY <2>2 DEF ControlInv, QueueIsFree, Withdrawn
  <2>4. \A i \in 1..Len(queued') : Clear(queued'[i])
    <3>1. CASE Withdraws(ints, scope, c)
      BY <1>1, <3>1 DEF Purge, ControlInv, QueueIsFree, Clear
    <3>2. CASE ~Withdraws(ints, scope, c)
      <4>1. queued' = Append(queued, c)
        BY <1>1, <3>2, Zenon DEF Purge
      <4>2. 1 \in 1..Len(todo)
        BY <1>0, <2>1
      <4>3. Clear(c)
        BY <2>2, <3>2, <4>2 DEF ControlInv, QueueIsFree, Withdrawn, Clear
      <4>4. \A i \in 1..Len(queued) : Clear(queued[i])
        BY DEF ControlInv, QueueIsFree, Clear
      <4> QED
        BY <1>0, <4>1, <4>3, <4>4
    <3> QED
      BY <3>1, <3>2
  <2>5. SameRules /\ WaitsClear /\ ForwardsClear
    <3>1. \A i \in 1..Len(todo') :
             \/ Clear(todo'[i])
             \/ Placed(todo'[i]) /\ Withdraws(ints, scope, todo'[i])
      BY <2>3 DEF Clear
    <3> QED
      BY <2>1, <2>4, <3>1 DEF SameRules, WaitsClear, ForwardsClear
  <2> QED
    BY <2>1, <2>5, RulesCarried, NothingAsked DEF ControlInv, Acting
<1>2. CASE KeepQueued \/ ExecuteQueued
  <2>1. /\ todo # <<>> /\ todo' = Tail(todo) /\ phase = "queue" /\ phase' = phase
        /\ UNCHANGED <<life, ints, scope, approved>>
    BY <1>2, Zenon DEF KeepQueued, ExecuteQueued, NextQueued
  <2> DEFINE c == Head(todo)
  <2>2. /\ c = todo[1] /\ c \in Command /\ 1 \in 1..Len(todo)
        /\ \A i \in 1..Len(todo') : todo'[i] = todo[i + 1] /\ i + 1 \in 1..Len(todo)
    BY <1>0, <2>1, HeadOf
  <2>3. /\ Clear(c) /\ \A i \in 1..Len(todo') : Clear(todo'[i])
        /\ \A i \in 1..Len(queued) : Clear(queued[i])
    BY <2>1, <2>2, WaitingIsClear
  <2> HIDE DEF c
  <2>4. queued' = queued \/ queued' = Append(queued, c)
    BY <1>2, Zenon DEF KeepQueued, ExecuteQueued, c
  <2>5. \A i \in 1..Len(queued') : Clear(queued'[i])
    BY <1>0, <2>3, <2>4, <2>2
  <2>6. SameRules /\ WaitsClear /\ ForwardsClear
    BY <2>1, <2>3, <2>5 DEF SameRules, WaitsClear, ForwardsClear
  <2>7. Obeyed /\ NoOrderBeforeBirth' /\ LatchedStaysStopped'
    <3>1. CASE UNCHANGED <<ran, lastAct>>
      BY <2>6, <3>1, NothingAsked
    <3>2. CASE Execute(c, ledger[c.key].waiting, tally) /\ Admissible(c)
      <4>1. ran' = c /\ lastAct' = Acted(c) /\ life[TargetOf(c)] # "unborn"
        BY <3>2, Zenon DEF Execute, Admissible, TargetOf
      <4> QED
        BY <2>1, <2>2, <2>3, <4>1, RunsFree DEF Acting, Clear
    <3> QED
      BY <1>2, <3>1, <3>2, Zenon DEF KeepQueued, ExecuteQueued, ReleaseCommand, c
  <2> QED
    BY <2>1, <2>6, <2>7, RulesCarried DEF ControlInv
<1>3. CASE EndRecords
  <2>1. /\ phase = "process" /\ phase' \in {"advance", "queue"}
        /\ UNCHANGED <<life, ints, scope, forward, approved, ran, lastAct>>
        /\ UNCHANGED <<todo, queued>> \/ (todo' = queued /\ queued' = <<>>)
    BY <1>3 DEF EndRecords, historyVars
  <2>2. SameRules /\ WaitsClear /\ ForwardsClear
    BY <2>1, WaitingIsClear DEF SameRules, WaitsClear, ForwardsClear
  <2> QED
    BY <2>1, <2>2, RulesCarried, NothingAsked DEF ControlInv, Acting
<1> QED
  BY <1>1, <1>2, <1>3

(* The host's records and the approved commands.                            *)
LEMMA DispatchedStays ==
    ASSUME TypeOK, ControlInv, NEW c \in Command, NEW t, Dispatch(c, t),
           phase \in Acting \ {"purge"}, phase' = phase, todo' = todo,
           life' = life, ints' = ints, approved' = approved, Free(c), ForwardsClear
    PROVE  ControlInv' /\ Obeyed
<1>1. /\ Obeyed /\ NoOrderBeforeBirth' /\ LatchedStaysStopped'
      /\ queued' = queued \/ (queued' = Append(queued, c) /\ Placed(c))
  BY DispatchObeys
<1>2. /\ \A i \in 1..Len(queued) : Clear(queued[i])
      /\ \A i \in 1..Len(todo) : Clear(todo[i])
  BY WaitingIsClear
<1>3. \A i \in 1..Len(queued') : Clear(queued'[i])
  <2>1. CASE queued' = Append(queued, c) /\ Placed(c)
    <3>1. Clear(c) /\ queued \in Seq(Command)
      BY <2>1 DEF Clear, TypeOK
    <3> QED
      BY <1>2, <2>1, <3>1
  <2> QED
    BY <1>1, <1>2, <2>1
<1>4. SameRules /\ WaitsClear
  BY <1>2, <1>3 DEF SameRules, WaitsClear
<1> QED
  BY <1>1, <1>4, RulesCarried DEF ControlInv

LEMMA RecordObeys ==
    ASSUME TypeOK, ControlInv, HostCommand
    PROVE  ControlInv' /\ Obeyed
<1> DEFINE c == Head(batch).cmd
<1>1. Head(batch) \in HostRecord /\ Head(batch).type = "DCMD"
  BY HeadOf DEF HostCommand, NextRecord, TypeOK
<1>2. c \in Command
  BY <1>1 DEF HostRecord
<1>3. /\ phase = "process" /\ phase' = phase /\ UNCHANGED <<life, todo, scope, forward, approved>>
      /\ Pass(c) \/ TurnAway(c) \/ Wait(c)
  BY DEF HostCommand, NextRecord
<1> HIDE DEF c
<1>4. CASE Pass(c)
  <2>1. ints' = ints /\ Dispatch(c, Count(tally, "heard", c.id)) /\ Verdict(ints, c, now) = "pass"
    BY <1>4 DEF Pass
  <2>2. Free(c)
    <3>1. CASE DeclaredStop(ints, c)
      BY <3>1 DEF DeclaredStop, Free
    <3>2. CASE ~DeclaredStop(ints, c)
      BY <2>1, <3>2 DEF Verdict, QueueVerdict, Free, TargetOf
    <3> QED
      BY <3>1, <3>2
  <2>3. ForwardsClear
    BY <1>3 DEF ForwardsClear
  <2> QED
    BY <1>2, <1>3, <2>1, <2>2, <2>3, DispatchedStays DEF Acting
<1>5. CASE TurnAway(c) \/ Wait(c)
  <2>1. /\ UNCHANGED <<queued, ran, lastAct>>
        /\ ints' = ints \/ ints' = Enqueue(ints, c) \/ ints' = Join(ints, c)
    BY <1>5, Zenon DEF TurnAway, Wait
  <2>2. SameRules
    BY <1>3, <2>1 DEF SameRules, Enqueue, Join, TypeOK, Machine
  <2>3. WaitsClear /\ ForwardsClear
    BY <1>3, <2>1, WaitingIsClear DEF WaitsClear, ForwardsClear
  <2> QED
    BY <1>3, <2>1, <2>2, <2>3, RulesCarried, NothingAsked DEF ControlInv, Acting
<1> QED
  BY <1>3, <1>4, <1>5

LEMMA ForwardObeys ==
    ASSUME TypeOK, ControlInv, ForwardApproved
    PROVE  ControlInv' /\ Obeyed
<1> DEFINE c == Head(forward)
<1>1. /\ phase = "forward" /\ phase' = phase /\ forward # <<>> /\ forward' = Tail(forward)
      /\ UNCHANGED <<life, ints, todo, approved>> /\ Dispatch(c, tally)
  BY DEF ForwardApproved
<1>2. /\ c \in Command /\ c = forward[1] /\ 1 \in 1..Len(forward)
      /\ \A i \in 1..Len(forward') : forward'[i] = forward[i + 1] /\ i + 1 \in 1..Len(forward)
  BY <1>1, HeadOf DEF TypeOK
<1> HIDE DEF c
<1>3. Free(c) /\ ForwardsClear
  BY <1>1, <1>2 DEF ControlInv, ForwardIsFree, Free, ForwardsClear
<1> QED
  BY <1>1, <1>2, <1>3, DispatchedStays DEF Acting

-----------------------------------------------------------------------------
(* The operator's controls.                                                 *)

LEMMA SetHoldRules ==
    ASSUME NEW m \in Machine, NEW s \in Scope, NEW latch \in BOOLEAN
    PROVE  LET n == SetHold(m, s, latch)
           IN  /\ n.inventory = m.inventory /\ n.approves = m.approves
               /\ \A x \in Scope \ {s} : n.holds[x] = m.holds[x]
               /\ n.holds[s] = IF latch \/ m.holds[s] = "latched" THEN "latched" ELSE "held"
BY DEF SetHold, Drop, Machine

LEMMA HoldObeys ==
    ASSUME TypeOK, ControlInv, NEW s \in Scope, NEW latch \in BOOLEAN, Hold(s, latch)
    PROVE  ControlInv' /\ Obeyed
<1>0. ints \in Machine /\ lastAct \in [Device -> {"none", "order", "stop"}]
  BY DEF TypeOK
<1>1. /\ phase = "control" /\ phase' = "purge" /\ scope' = s
      /\ todo' = queued /\ queued' = <<>>
      /\ UNCHANGED <<life, approved, ran>>
      /\ ints' = SetHold(ints, s, latch)
      /\ lastAct' = [d \in Device |->
                       IF latch /\ d \in StopOrders(ints, s) THEN "stop" ELSE lastAct[d]]
  BY DEF Hold, TakeControl, StartPurge
<1>2. /\ ints'.inventory = ints.inventory /\ ints'.approves = ints.approves
      /\ \A x \in Scope \ {s} : ints'.holds[x] = ints.holds[x]
      /\ ints'.holds[s] = IF latch \/ ints.holds[s] = "latched" THEN "latched" ELSE "held"
  BY <1>0, <1>1, SetHoldRules
<1>3. \A d : /\ HoldCovers(ints', d) => HoldCovers(ints, d) \/ Covers(ints, s, d)
             /\ ApproveCovers(ints', d) <=> ApproveCovers(ints, d)
             /\ \A x : Covers(ints', x, d) <=> Covers(ints, x, d)
  BY <1>2 DEF HoldCovers, ApproveCovers, Covers
<1>4. QueueIsFree'
  <2>1. ASSUME NEW c, Placed(c), Free(c)
        PROVE  Placed(c)' /\ (Withdrawn(c)' \/ Free(c)')
    <3>1. Placed(c)'
      BY <1>1, <1>2, <2>1 DEF Placed, TargetOf
    <3>2. ASSUME c.content.kind # "stop", ~Free(c)'
          PROVE  Withdrawn(c)'
      <4>1. Covers(ints', s, TargetOf(c))
        <5>1. HoldCovers(ints', TargetOf(c)) \/ (ApproveCovers(ints', TargetOf(c)) /\ c \notin approved)
          BY <1>1, <3>2 DEF Free, TargetOf
        <5>2. ~HoldCovers(ints, TargetOf(c)) /\ (ApproveCovers(ints, TargetOf(c)) => c \in approved)
          BY <2>1, <3>2 DEF Free
        <5> QED
          BY <1>3, <5>1, <5>2
      <4>2. ~DeclaredStop(ints', c)
        BY <3>2 DEF DeclaredStop
      <4> QED
        BY <1>1, <4>1, <4>2 DEF Withdrawn, Withdraws, TargetOf
    <3> QED
      BY <3>1, <3>2 DEF Free
  <2>2. \A i \in 1..Len(queued) : Placed(queued[i]) /\ Free(queued[i])
    BY DEF ControlInv, QueueIsFree
  <2> QED
    BY <1>1, <2>1, <2>2 DEF QueueIsFree
<1>5. InventoryIsCurrent' /\ ForwardIsFree' /\ Obeyed
  BY <1>1, <1>2 DEF ControlInv, InventoryIsCurrent, Acting, ForwardIsFree, Obeyed
<1>6. NoOrderBeforeBirth'
  BY <1>0, <1>1 DEF ControlInv, NoOrderBeforeBirth
<1>7. LatchedStaysStopped'
  <2> SUFFICES ASSUME NEW d \in SafeStopping, life[d] = "live", Stands(ints', {"latched"}, d)
               PROVE  lastAct'[d] # "order"
    BY <1>1 DEF LatchedStaysStopped
  <2>1. d \in Device
    BY ScopesDisjoint
  <2>2. CASE Stands(ints, {"latched"}, d)
    BY <1>0, <1>1, <2>1, <2>2 DEF ControlInv, LatchedStaysStopped
  <2>3. CASE ~Stands(ints, {"latched"}, d)
    <3>1. latch /\ s \in {All, BoardOf[d], d}
      BY <1>2, <2>1, <2>3, ScopesOfDevice DEF Stands
    <3>2. d \in StopOrders(ints, s)
      BY <1>1, <2>1, <3>1 DEF StopOrders, Covers, ControlInv, InventoryIsCurrent, Acting
    <3> QED
      BY <1>1, <2>1, <3>1, <3>2
  <2> QED
    BY <2>2, <2>3
<1> QED
  BY <1>4, <1>5, <1>6, <1>7 DEF ControlInv

(* A scope comes under approve-each-command: what it covers is withdrawn.   *)
LEMMA ApproveModeObeys ==
    ASSUME TypeOK, ControlInv, NEW s \in Scope, ApproveMode(s)
    PROVE  ControlInv' /\ Obeyed
<1>0. ints \in Machine
  BY DEF TypeOK
<1>1. /\ phase = "control" /\ phase' = "purge" /\ scope' = s
      /\ todo' = queued /\ queued' = <<>>
      /\ UNCHANGED <<life, approved, ran, lastAct>>
      /\ ints' = SetApprove(ints, s, TRUE)
  BY DEF ApproveMode, TakeControl, StartPurge, historyVars
<1>2. /\ ints'.inventory = ints.inventory /\ ints'.holds = ints.holds
      /\ ints'.approves = ints.approves \cup {s}
  BY <1>0, <1>1 DEF SetApprove, Machine
<1>3. \A d : /\ HoldCovers(ints', d) <=> HoldCovers(ints, d)
             /\ ApproveCovers(ints', d) => ApproveCovers(ints, d) \/ Covers(ints, s, d)
             /\ \A x : Covers(ints', x, d) <=> Covers(ints, x, d)
  <2>1. \A d, x : Covers(ints', x, d) <=> Covers(ints, x, d)
    BY <1>2 DEF Covers
  <2>2. \A d : HoldCovers(ints', d) <=> HoldCovers(ints, d)
    BY <1>2, <2>1 DEF HoldCovers
  <2>3. \A d : ApproveCovers(ints', d) => ApproveCovers(ints, d) \/ Covers(ints, s, d)
    BY <1>2, <2>1 DEF ApproveCovers
  <2> QED
    BY <2>1, <2>2, <2>3
<1>4. QueueIsFree'
  <2>1. ASSUME NEW c, Placed(c), Free(c)
        PROVE  Placed(c)' /\ (Withdrawn(c)' \/ Free(c)')
    <3>1. Placed(c)'
      BY <1>1, <1>2, <2>1 DEF Placed, TargetOf
    <3>2. ASSUME c.content.kind # "stop", ~Free(c)'
          PROVE  Withdrawn(c)'
      <4>1. Covers(ints', s, TargetOf(c))
        <5>1. HoldCovers(ints', TargetOf(c)) \/ (ApproveCovers(ints', TargetOf(c)) /\ c \notin approved)
          BY <1>1, <3>2 DEF Free, TargetOf
        <5>2. ~HoldCovers(ints, TargetOf(c)) /\ (ApproveCovers(ints, TargetOf(c)) => c \in approved)
          BY <2>1, <3>2 DEF Free
        <5> QED
          BY <1>3, <5>1, <5>2
      <4>2. ~DeclaredStop(ints', c)
        BY <3>2 DEF DeclaredStop
      <4> QED
        BY <1>1, <4>1, <4>2 DEF Withdrawn, Withdraws, TargetOf
    <3> QED
      BY <3>1, <3>2 DEF Free
  <2>2. \A i \in 1..Len(queued) : Placed(queued[i]) /\ Free(queued[i])
    BY DEF ControlInv, QueueIsFree
  <2> QED
    BY <1>1, <2>1, <2>2 DEF QueueIsFree
<1>5. InventoryIsCurrent' /\ ForwardIsFree' /\ Obeyed
  BY <1>1, <1>2 DEF ControlInv, InventoryIsCurrent, Acting, ForwardIsFree, Obeyed
<1>6. NoOrderBeforeBirth' /\ LatchedStaysStopped'
  BY <1>1, <1>2 DEF ControlInv, NoOrderBeforeBirth, LatchedStaysStopped, Stands
<1> QED
  BY <1>4, <1>5, <1>6 DEF ControlInv

(* A hold or a mode is lifted: less is forbidden than before.               *)
LEMMA LiftObeys ==
    ASSUME TypeOK, ControlInv, NEW s \in Scope, Release(s) \/ ApproveModeOff(s)
    PROVE  ControlInv' /\ Obeyed
<1>0. ints \in Machine
  BY DEF TypeOK
<1>1. /\ phase = "control" /\ phase' = phase
      /\ UNCHANGED <<life, queued, todo, scope, forward, approved, ran, lastAct>>
      /\ ints' = ClearHold(ints, s) \/ ints' = SetApprove(ints, s, FALSE)
  BY DEF Release, ApproveModeOff, TakeControl, historyVars
<1>2. /\ ints'.inventory = ints.inventory
      /\ ints'.approves \subseteq ints.approves
      /\ \A x \in Scope : ints'.holds[x] # ints.holds[x] => ints'.holds[x] = "off"
  BY <1>0, <1>1 DEF ClearHold, SetApprove, Machine
<1>3. \A d, x : Covers(ints', x, d) <=> Covers(ints, x, d)
  BY <1>2 DEF Covers
<1>4. \A d : HoldCovers(ints', d) => HoldCovers(ints, d)
  BY <1>2, <1>3 DEF HoldCovers
<1>5. \A d : ApproveCovers(ints', d) => ApproveCovers(ints, d)
  BY <1>2, <1>3 DEF ApproveCovers
<1>6. ASSUME NEW c, Clear(c)
      PROVE  Placed(c)' /\ Free(c)'
  BY <1>1, <1>2, <1>4, <1>5, <1>6 DEF Clear, Placed, Free, TargetOf
<1>7. QueueIsFree'
  BY <1>1, <1>6, WaitingIsClear DEF QueueIsFree
<1>8. InventoryIsCurrent' /\ ForwardIsFree' /\ NoOrderBeforeBirth' /\ Obeyed
  BY <1>1, <1>2 DEF ControlInv, InventoryIsCurrent, ForwardIsFree, NoOrderBeforeBirth, Obeyed
<1>9. LatchedStaysStopped'
  <2>1. ASSUME NEW d \in Device, Stands(ints', {"latched"}, d)
        PROVE  Stands(ints, {"latched"}, d)
    BY <1>2, <2>1, ScopesOfDevice DEF Stands
  <2> QED
    BY <1>1, <2>1, ScopesDisjoint DEF ControlInv, LatchedStaysStopped
<1> QED
  BY <1>7, <1>8, <1>9 DEF ControlInv

(* What is approved is forwarded with the payloads the operator saw, unless *)
(* a hold covers their device.                                              *)
LEMMA ResolveObeys ==
    ASSUME TypeOK, PendingInv, ControlInv, NEW p \in ints.pending, Approve(p) \/ Deny(p)
    PROVE  ControlInv' /\ Obeyed
<1>0. ints \in Machine
  BY DEF TypeOK
<1>1. /\ phase = "control" /\ ints' = Drop(ints, {p})
      /\ UNCHANGED <<life, queued, todo, scope, ran, lastAct>>
  BY DEF Approve, Deny, TakeControl
<1>2. \/ phase' = phase /\ approved' = approved /\ forward' = forward
      \/ /\ phase' = "forward" /\ ~HoldCovers(ints, p.content.device)
         /\ forward' = Payloads(p)
         /\ approved' = approved \cup {payloads[id] : id \in Holders(p)}
  BY DEF Approve, Deny
<1>3. SameRules
  BY <1>0, <1>1 DEF SameRules, Drop, Machine
<1>4. WaitsClear
  BY <1>1, WaitingIsClear DEF WaitsClear
<1>5. ForwardsClear
  <2> SUFFICES ASSUME ~HoldCovers(ints, p.content.device), forward' = Payloads(p),
                      approved' = approved \cup {payloads[id] : id \in Holders(p)},
                      NEW i \in 1..Len(forward')
               PROVE  /\ forward'[i] \in approved'
                      /\ ~HoldCovers(ints, TargetOf(forward'[i]))
    BY <1>1, <1>2 DEF ForwardsClear
  <2> DEFINE id == IF i = 1 THEN p.id ELSE p.waiting[i - 1]
  <2>1. p.waiting \in Seq(Id) /\ p.id \in Id
    BY <1>0 DEF Machine, Pending
  <2>2. Len(forward') = Len(p.waiting) + 1 /\ forward'[i] = payloads[id]
    BY <2>1 DEF Payloads
  <2>3. id \in Holders(p) /\ id \in Id
    <3>1. i # 1 => i - 1 \in 1..Len(p.waiting)
      BY <2>1, <2>2
    <3> QED
      BY <2>1, <3>1 DEF Holders
  <2> HIDE DEF id
  <2>4. SameIntent(p, payloads[id])
    BY <2>3 DEF PendingInv, PayloadsMatchPending
  <2>5. TargetOf(payloads[id]) = p.content.device
    BY <2>4 DEF SameIntent, TargetOf
  <2> QED
    BY <2>2, <2>3, <2>5
<1>6. approved \subseteq approved'
  BY <1>2
<1> QED
  BY <1>1, <1>3, <1>4, <1>5, <1>6, RulesCarried, NothingAsked DEF ControlInv, Acting

(* The world runs a slice: a device may be born or retire.                  *)
LEMMA AdvanceObeys ==
    ASSUME TypeOK, ControlInv, Advance
    PROVE  ControlInv' /\ Obeyed
<1>0. life \in [Device -> {"unborn", "live", "retired"}]
  BY DEF TypeOK
<1>1. /\ phase = "advance" /\ phase' = "await"
      /\ UNCHANGED <<ints, queued, todo, scope, forward, approved, ran, lastAct>>
      /\ \A d \in Device : \/ life'[d] = life[d]
                           \/ life[d] = "unborn" /\ life'[d] = "live"
                           \/ life[d] = "live" /\ life'[d] = "retired"
  BY <1>0 DEF Advance, historyVars
<1>2. /\ \A i \in 1..Len(queued) : queued[i] \in Command
      /\ \A i \in 1..Len(todo) : todo[i] \in Command
  BY DEF TypeOK
<1>3. ASSUME NEW c \in Command, Clear(c)
      PROVE  Placed(c)' /\ Free(c)'
  <2>1. TargetOf(c) \in Device
    BY CommandFields DEF TargetOf
  <2>2. Placed(c) /\ Free(c) /\ TargetOf(c) = c.content.device
    BY <1>3 DEF Clear, TargetOf
  <2>3. Free(c)'
    BY <1>1, <2>2 DEF Free, TargetOf
  <2>4. /\ life'[TargetOf(c)] # "unborn"
        /\ life'[TargetOf(c)] = "live" => TargetOf(c) \in ints'.inventory
    BY <1>1, <2>1, <2>2 DEF Placed
  <2> QED
    BY <2>3, <2>4 DEF Placed, TargetOf
<1>4. QueueIsFree'
  BY <1>1, <1>2, <1>3, WaitingIsClear DEF QueueIsFree
<1>5. InventoryIsCurrent' /\ ForwardIsFree' /\ Obeyed
  BY <1>1 DEF InventoryIsCurrent, Acting, ForwardIsFree, Obeyed
<1>6. NoOrderBeforeBirth'
  BY <1>1 DEF ControlInv, NoOrderBeforeBirth
<1>7. LatchedStaysStopped'
  <2> SUFFICES ASSUME NEW d \in SafeStopping, life'[d] = "live", Stands(ints, {"latched"}, d)
               PROVE  lastAct[d] # "order"
    BY <1>1 DEF LatchedStaysStopped
  <2>1. d \in Device
    BY ScopesDisjoint
  <2>2. life[d] \in {"unborn", "live"}
    BY <1>1, <2>1
  <2> QED
    BY <2>1, <2>2 DEF ControlInv, NoOrderBeforeBirth, LatchedStaysStopped
<1> QED
  BY <1>4, <1>5, <1>6, <1>7 DEF ControlInv

(* The node takes the world's devices as its inventory.                     *)
LEMMA BarrierObeys ==
    ASSUME TypeOK, ControlInv, Barrier
    PROVE  ControlInv' /\ Obeyed
<1>0. ints \in Machine
  BY DEF TypeOK
<1>1. /\ phase = "await" /\ phase' = "control"
      /\ UNCHANGED <<life, queued, todo, scope, forward, approved, ran, lastAct>>
      /\ ints' = SetInventory(ints, {d \in Device : life[d] = "live"})
  BY DEF Barrier, historyVars
<1>2. /\ ints'.holds = ints.holds /\ ints'.approves = ints.approves
      /\ ints'.inventory = {d \in Device : life[d] = "live"}
  BY <1>0, <1>1 DEF SetInventory, Machine
<1>3. ASSUME NEW c \in Command, Clear(c)
      PROVE  Placed(c)' /\ Free(c)'
  <2>1. Placed(c) /\ Free(c)
    BY <1>3 DEF Clear
  <2>2. TargetOf(c) \in ints'.inventory => TargetOf(c) \in ints.inventory
    BY <1>2, <2>1 DEF Placed
  <2>3. \A x : Covers(ints', x, TargetOf(c)) => Covers(ints, x, TargetOf(c))
    BY <2>2 DEF Covers
  <2>4. /\ HoldCovers(ints', TargetOf(c)) => HoldCovers(ints, TargetOf(c))
        /\ ApproveCovers(ints', TargetOf(c)) => ApproveCovers(ints, TargetOf(c))
    BY <1>2, <2>3 DEF HoldCovers, ApproveCovers
  <2>5. Free(c)'
    BY <1>1, <2>1, <2>4 DEF Free, TargetOf
  <2>6. Placed(c)'
    BY <1>1, <1>2, <2>1, CommandFields DEF Placed, TargetOf
  <2> QED
    BY <2>5, <2>6
<1>4. QueueIsFree'
  <2>1. /\ \A i \in 1..Len(queued) : queued[i] \in Command
        /\ \A i \in 1..Len(todo) : todo[i] \in Command
    BY DEF TypeOK
  <2> QED
    BY <1>1, <1>3, <2>1, WaitingIsClear DEF QueueIsFree
<1>5. InventoryIsCurrent' /\ ForwardIsFree' /\ Obeyed
  BY <1>1, <1>2 DEF InventoryIsCurrent, ForwardIsFree, Obeyed
<1>6. NoOrderBeforeBirth' /\ LatchedStaysStopped'
  BY <1>1, <1>2 DEF ControlInv, NoOrderBeforeBirth, LatchedStaysStopped, Stands
<1> QED
  BY <1>4, <1>5, <1>6 DEF ControlInv

LEMMA ControlInvInit == Init => ControlInv
<1>1. Init => InventoryIsCurrent /\ ForwardIsFree /\ QueueIsFree
  BY DEF Init, InventoryIsCurrent, Acting, ForwardIsFree, QueueIsFree
<1>2. Init => NoOrderBeforeBirth /\ LatchedStaysStopped
  BY ScopesDisjoint DEF Init, NoOrderBeforeBirth, LatchedStaysStopped
<1> QED
  BY <1>1, <1>2 DEF ControlInv

LEMMA ControlInvNext == TypeInv /\ ControlInv /\ [Next]_vars => ControlInv' /\ Obeyed
<1> SUFFICES ASSUME TypeOK, PendingInv, ControlInv, [Next]_vars
             PROVE  ControlInv' /\ Obeyed
  BY DEF TypeInv
<1>1. CASE Control
  BY <1>1, HoldObeys, ApproveModeObeys, LiftObeys, ResolveObeys DEF Control
<1>2. CASE Node
  BY <1>2, AdvanceObeys, BarrierObeys, LoopObeys, ForwardObeys, RecordObeys, QuietObeys DEF Node
<1>3. CASE Host \/ WallTick \/ Close \/ HostLost \/ SendFails \/ Terminated
  BY <1>3, QuietObeys
<1>4. CASE UNCHANGED vars
  <2>1. Terminated \/ ~Ended
    BY <1>4 DEF Terminated
  <2> QED
    BY <1>4 DEF vars, ControlInv, InventoryIsCurrent, QueueIsFree, ForwardIsFree, Placed, Free,
                Withdrawn, NoOrderBeforeBirth, LatchedStaysStopped, Stands, Obeyed
<1> QED
  BY <1>1, <1>2, <1>3, <1>4 DEF Next

(* Whatever an order of the operator forbids is never carried out: judged   *)
(* on arrival, purged from the queue or refused at approval.                *)
THEOREM TheOperatorIsObeyed == Spec => OperatorIsObeyed
<1>1. TypeInv /\ ControlInv /\ [Next]_vars
        => [ran' # ran /\ ran'.content.kind # "stop" =>
              LET d == ran'.content.device
              IN /\ life'[d] = "live" => ~Stands(ints', {"held", "latched"}, d)
                 /\ ApproveCovers(ints', d) => ran' \in approved]_vars
  BY ControlInvNext DEF Obeyed, TargetOf
<1> QED
  BY <1>1, TypeInvAlways, ControlInvInit, ControlInvNext, PTL DEF Spec, OperatorIsObeyed

(* No control but the release of exactly its scope takes a latch away.      *)
LEMMA OnlyReleaseUnlatches ==
    ASSUME TypeOK, Next, NEW s \in Scope, ints.holds[s] = "latched", ints'.holds[s] # "latched"
    PROVE  Release(s)
<1>0. ints \in Machine
  BY DEF TypeOK
<1>1. CASE Control
  <2>1. PICK x \in Scope : \/ \E latch \in BOOLEAN : Hold(x, latch)
                           \/ Release(x) \/ ApproveMode(x) \/ ApproveModeOff(x)
                           \/ \E p \in ints.pending : Approve(p) \/ Deny(p)
    BY <1>1 DEF Control
  <2>2. ASSUME NEW latch \in BOOLEAN, Hold(x, latch)
        PROVE  FALSE
    BY <1>0, <2>2, SetHoldRules DEF Hold
  <2>3. CASE Release(x)
    <3>1. ints' = ClearHold(ints, x)
      BY <2>3 DEF Release
    <3>2. x = s
      BY <1>0, <3>1 DEF ClearHold, Machine
    <3> QED
      BY <2>3, <3>2
  <2>4. CASE ApproveMode(x) \/ ApproveModeOff(x) \/ \E p \in ints.pending : Approve(p) \/ Deny(p)
    BY <1>0, <2>4
       DEF ApproveMode, ApproveModeOff, Approve, Deny, SetApprove, Drop, Machine
  <2> QED
    BY <2>1, <2>2, <2>3, <2>4
<1>2. CASE HostCommand \/ EndControls \/ Close \/ Barrier
  BY <1>0, <1>2
     DEF HostCommand, Pass, TurnAway, Wait, Enqueue, Join, EndControls, Close, Barrier,
         SetInventory, Drop, Machine
<1>3. CASE \/ Advance \/ Purge \/ ForwardApproved \/ EndControl
           \/ HostState \/ EndRecords
           \/ KeepQueued \/ ExecuteQueued \/ EndQueue
           \/ Host \/ WallTick \/ HostLost \/ SendFails \/ Terminated
  BY <1>3, Zenon
     DEF Advance, Purge, ForwardApproved, EndControl, HostState, EndRecords, NextQueued,
         KeepQueued, ExecuteQueued, EndQueue, Host, HostSends, WallTick, HostLost, SendFails,
         Terminated, vars
<1> QED
  BY <1>1, <1>2, <1>3 DEF Next, Node

(* An emergency stop stands: nothing but stops is asked of a device under a *)
(* latch, and the latch goes only when the operator releases its scope.     *)
THEOREM AnEmergencyStopStands == Spec => EmergencyStopStands
<1>1. TypeInv /\ [Next]_vars
        => [\A s \in Scope : ints.holds[s] = "latched" /\ ints'.holds[s] # "latched"
              => Release(s)]_vars
  BY OnlyReleaseUnlatches DEF TypeInv
<1>2. ControlInv => LatchedStaysStopped
  BY DEF ControlInv
<1> QED
  BY <1>1, <1>2, TypeInvAlways, ControlInvInit, ControlInvNext, PTL
     DEF Spec, EmergencyStopStands, LatchGoesByRelease

-----------------------------------------------------------------------------
(* Every command is accounted for.  First how large the sets are that an id *)
(* waits in, and what opening or closing a place does to them.              *)

LEMMA SameSize ==
    ASSUME NEW S, NEW T, NEW f \in [S -> T], IsFiniteSet(S),
           \A x, y \in S : f[x] = f[y] => x = y,
           \A z \in T : \E x \in S : f[x] = z
    PROVE  IsFiniteSet(T) /\ Cardinality(T) = Cardinality(S)
<1>1. f \in Bijection(S, T)
  BY DEF Bijection, Injection, Surjection, IsInjective
<1> QED
  BY <1>1, FS_Bijection DEF ExistsBijection

LEMMA PositionsFinite ==
    ASSUME NEW ids \in Seq(Id), NEW id
    PROVE  /\ IsFiniteSet(Positions(id, ids))
           /\ Occurrences(id, ids) = Cardinality(Positions(id, ids))
           /\ Occurrences(id, ids) \in Nat
<1>1. IsFiniteSet(1..Len(ids))
  BY FS_Interval
<1>2. IsFiniteSet(Positions(id, ids))
  BY <1>1, FS_Subset DEF Positions
<1> QED
  BY <1>2, FS_CardinalityType DEF Positions, Occurrences

LEMMA OccurrencesOne ==
    ASSUME NEW id, NEW x \in Id
    PROVE  Occurrences(id, <<x>>) = IF id = x THEN 1 ELSE 0
<1>1. Positions(id, <<x>>) = IF id = x THEN {1} ELSE {}
  BY DEF Positions
<1> QED
  BY <1>1, FS_Singleton, FS_EmptySet DEF Positions, Occurrences

LEMMA UnderKeysMember ==
    ASSUME NEW id, NEW l, NEW w
    PROVE  w \in UnderKeys(id, l) <=>
             \E k \in Key : /\ l[k].state = "pending"
                            /\ \E i \in Positions(id, l[k].waiting) : w = <<k, i>>
<1> DEFINE waits(k) == {<<k, i>> : i \in Positions(id, l[k].waiting)}
<1>1. w \in UnderKeys(id, l) <=> \E k \in Key : l[k].state = "pending" /\ w \in waits(k)
  BY DEF UnderKeys
<1>2. \A k \in Key : w \in waits(k) <=> \E i \in Positions(id, l[k].waiting) : w = <<k, i>>
  OBVIOUS
<1> QED
  BY <1>1, <1>2, Zenon

(* Nothing changes in the entries that wait.                                *)
LEMMA UnderKeysSame ==
    ASSUME NEW id, NEW l, NEW m,
           \A k \in Key : /\ l[k].state = "pending" <=> m[k].state = "pending"
                          /\ l[k].state = "pending" => m[k].waiting = l[k].waiting
    PROVE  UnderKeys(id, m) = UnderKeys(id, l)
<1>1. \A w : w \in UnderKeys(id, m) <=> w \in UnderKeys(id, l)
  <2> SUFFICES ASSUME NEW w
               PROVE  w \in UnderKeys(id, m) <=> w \in UnderKeys(id, l)
    OBVIOUS
  <2>1. /\ w \in UnderKeys(id, m) <=>
             \E k \in Key : /\ m[k].state = "pending"
                            /\ \E i \in Positions(id, m[k].waiting) : w = <<k, i>>
        /\ w \in UnderKeys(id, l) <=>
             \E k \in Key : /\ l[k].state = "pending"
                            /\ \E i \in Positions(id, l[k].waiting) : w = <<k, i>>
    BY UnderKeysMember
  <2> QED
    BY <2>1
<1> QED
  BY <1>1

(* Ledger m is ledger l after x has come to wait under k.                   *)
Opens(l, m, k, x) ==
    /\ m[k].state = "pending"
    /\ m[k].waiting = Append(IF l[k].state = "pending" THEN l[k].waiting ELSE <<>>, x)
    /\ \A j \in Key \ {k} : m[j] = l[j]

LEMMA UnderKeysOpened ==
    ASSUME NEW id, NEW l, NEW m, NEW k \in Key, NEW x \in Id, l[k].waiting \in Seq(Id),
           IsFiniteSet(UnderKeys(id, l)), Opens(l, m, k, x)
    PROVE  /\ IsFiniteSet(UnderKeys(id, m))
           /\ Cardinality(UnderKeys(id, m)) =
                Cardinality(UnderKeys(id, l)) + (IF id = x THEN 1 ELSE 0)
<1> DEFINE old == IF l[k].state = "pending" THEN l[k].waiting ELSE <<>>
<1>0. /\ old \in Seq(Id)
      /\ l[k].state = "pending" => l[k].waiting = old
      /\ l[k].state # "pending" => old = <<>>
      /\ m[k].state = "pending" /\ m[k].waiting = Append(old, x)
      /\ \A j \in Key \ {k} : m[j] = l[j]
  BY DEF Opens
<1> HIDE DEF old
<1> DEFINE n == Len(old) + 1
<1>1. n \notin Positions(id, old)
  BY <1>0 DEF Positions
<1>2. Positions(id, m[k].waiting) = Positions(id, old) \cup (IF id = x THEN {n} ELSE {})
  <2>1. /\ Len(Append(old, x)) = n /\ n \in Nat /\ Append(old, x)[n] = x
        /\ \A i \in 1..Len(old) : Append(old, x)[i] = old[i]
        /\ \A i : i \in 1..n <=> i \in 1..Len(old) \/ i = n
    BY <1>0
  <2> HIDE DEF n
  <2> QED
    BY <1>0, <2>1 DEF Positions
<1>3. l[k].state # "pending" => Positions(id, old) = {}
  BY <1>0 DEF Positions
<1>4. <<k, n>> \notin UnderKeys(id, l)
  <2> HIDE DEF n
  <2> SUFFICES ASSUME <<k, n>> \in UnderKeys(id, l)
               PROVE  FALSE
    OBVIOUS
  <2>1. PICK j \in Key : /\ l[j].state = "pending"
                         /\ \E i \in Positions(id, l[j].waiting) : <<k, n>> = <<j, i>>
    BY UnderKeysMember
  <2>2. j = k /\ n \in Positions(id, l[j].waiting)
    BY <2>1
  <2> QED
    BY <1>0, <1>1, <2>1, <2>2
<1> HIDE DEF n
<1>5. UnderKeys(id, m) = UnderKeys(id, l) \cup (IF id = x THEN {<<k, n>>} ELSE {})
  <2> SUFFICES ASSUME NEW w
               PROVE  w \in UnderKeys(id, m) <=>
                        w \in UnderKeys(id, l) \/ (id = x /\ w = <<k, n>>)
    OBVIOUS
  <2>1. /\ w \in UnderKeys(id, m) <=>
             \E j \in Key : /\ m[j].state = "pending"
                            /\ \E i \in Positions(id, m[j].waiting) : w = <<j, i>>
        /\ w \in UnderKeys(id, l) <=>
             \E j \in Key : /\ l[j].state = "pending"
                            /\ \E i \in Positions(id, l[j].waiting) : w = <<j, i>>
    BY UnderKeysMember
  <2>2. ASSUME NEW j \in Key, m[j].state = "pending",
               NEW i \in Positions(id, m[j].waiting), w = <<j, i>>
        PROVE  w \in UnderKeys(id, l) \/ (id = x /\ w = <<k, n>>)
    BY <1>0, <1>2, <1>3, <2>1, <2>2
  <2>3. ASSUME NEW j \in Key, l[j].state = "pending",
               NEW i \in Positions(id, l[j].waiting), w = <<j, i>>
        PROVE  w \in UnderKeys(id, m)
    BY <1>0, <1>2, <2>1, <2>3
  <2>4. id = x /\ w = <<k, n>> => w \in UnderKeys(id, m)
    BY <1>0, <1>2, <2>1
  <2> QED
    BY <2>1, <2>2, <2>3, <2>4
<1>6. CASE id = x
  <2>1. UnderKeys(id, m) = UnderKeys(id, l) \cup {<<k, n>>}
    BY <1>5, <1>6
  <2>2. /\ IsFiniteSet(UnderKeys(id, l) \cup {<<k, n>>})
        /\ Cardinality(UnderKeys(id, l) \cup {<<k, n>>}) = Cardinality(UnderKeys(id, l)) + 1
    BY <1>4, FS_AddElement, Zenon
  <2> QED
    BY <1>6, <2>1, <2>2
<1>7. CASE id # x
  <2>1. UnderKeys(id, m) = UnderKeys(id, l)
    BY <1>5, <1>7
  <2> QED
    BY <1>7, <2>1, FS_CardinalityType
<1> QED
  BY <1>6, <1>7

(* An entry is closed: every id that waited in it leaves.                   *)
LEMMA UnderKeysClosed ==
    ASSUME NEW id, NEW l, NEW m, NEW k \in Key, IsFiniteSet(UnderKeys(id, l)),
           l[k].state = "pending", l[k].waiting \in Seq(Id), m[k].state # "pending",
           \A j \in Key \ {k} : m[j] = l[j]
    PROVE  /\ IsFiniteSet(UnderKeys(id, m))
           /\ Cardinality(UnderKeys(id, l)) =
                Cardinality(UnderKeys(id, m)) + Occurrences(id, l[k].waiting)
<1> DEFINE P == Positions(id, l[k].waiting)
           G == {<<k, i>> : i \in P}
<1>1. IsFiniteSet(P) /\ Occurrences(id, l[k].waiting) = Cardinality(P) /\ Cardinality(P) \in Nat
  BY PositionsFinite
<1>2. IsFiniteSet(G) /\ Cardinality(G) = Cardinality(P)
  <2> DEFINE f == [i \in P |-> <<k, i>>]
  <2>1. f \in [P -> G]
    OBVIOUS
  <2>2. \A i, j \in P : f[i] = f[j] => i = j
    OBVIOUS
  <2>3. \A g \in G : \E i \in P : f[i] = g
    OBVIOUS
  <2> HIDE DEF f, G, P
  <2> QED
    BY <1>1, <2>1, <2>2, <2>3, SameSize
<1>3. ASSUME NEW w
      PROVE  /\ w \in G => w \in UnderKeys(id, l)
             /\ w \in UnderKeys(id, m) <=> w \in UnderKeys(id, l) /\ w \notin G
  <2>1. /\ w \in UnderKeys(id, m) <=>
             \E j \in Key : /\ m[j].state = "pending"
                            /\ \E i \in Positions(id, m[j].waiting) : w = <<j, i>>
        /\ w \in UnderKeys(id, l) <=>
             \E j \in Key : /\ l[j].state = "pending"
                            /\ \E i \in Positions(id, l[j].waiting) : w = <<j, i>>
    BY UnderKeysMember
  <2>2. w \in G => w \in UnderKeys(id, l)
    BY <2>1
  <2>3. ASSUME NEW j \in Key, m[j].state = "pending",
               NEW i \in Positions(id, m[j].waiting), w = <<j, i>>
        PROVE  w \in UnderKeys(id, l) /\ w \notin G
    <3>1. j # k /\ m[j] = l[j]
      BY <2>3
    <3> QED
      BY <2>1, <2>3, <3>1
  <2>4. ASSUME NEW j \in Key, l[j].state = "pending",
               NEW i \in Positions(id, l[j].waiting), w = <<j, i>>, w \notin G
        PROVE  w \in UnderKeys(id, m)
    <3>1. j # k
      BY <2>4
    <3> QED
      BY <2>1, <2>4, <3>1
  <2> QED
    BY <2>1, <2>2, <2>3, <2>4
<1> HIDE DEF P, G
<1>4. /\ UnderKeys(id, m) = UnderKeys(id, l) \ G
      /\ UnderKeys(id, l) \cap G = G
  BY <1>3
<1>5. /\ IsFiniteSet(UnderKeys(id, m))
      /\ Cardinality(UnderKeys(id, m)) = Cardinality(UnderKeys(id, l)) - Cardinality(G)
  <2>1. /\ IsFiniteSet(UnderKeys(id, l) \ G)
        /\ Cardinality(UnderKeys(id, l) \ G) =
             Cardinality(UnderKeys(id, l)) - Cardinality(UnderKeys(id, l) \cap G)
    BY FS_Difference, Zenon
  <2> QED
    BY <1>4, <2>1
<1>6. Cardinality(UnderKeys(id, l)) \in Nat
  BY FS_CardinalityType
<1> QED
  BY <1>1, <1>2, <1>5, <1>6

(* What waits for the operator: an id is in one pending command at most.    *)
LEMMA ForOperatorSize ==
    ASSUME NEW id, NEW m,
           \A p, q \in m.pending : p # q => Holders(p) \cap Holders(q) = {}
    PROVE  Cardinality(ForOperator(id, m)) = IF IdWaiting(m, id) THEN 1 ELSE 0
<1>1. CASE IdWaiting(m, id)
  <2>1. PICK p \in m.pending : id \in Holders(p)
    BY <1>1 DEF IdWaiting
  <2>2. ForOperator(id, m) = {p}
    BY <2>1 DEF ForOperator
  <2> QED
    BY <1>1, <2>2, FS_Singleton
<1>2. CASE ~IdWaiting(m, id)
  <2>1. ForOperator(id, m) = {}
    BY <1>2 DEF ForOperator, IdWaiting
  <2> QED
    BY <1>2, <2>1, FS_EmptySet
<1> QED
  BY <1>1, <1>2

LEMMA ApprovalsFinite ==
    ASSUME NEW q \in Seq(Command), NEW id
    PROVE  /\ IsFiniteSet(Approvals(id, q))
           /\ Cardinality(Approvals(id, q)) \in Nat
<1>1. IsFiniteSet(1..Len(q))
  BY FS_Interval
<1>2. IsFiniteSet(Approvals(id, q))
  BY <1>1, FS_Subset DEF Approvals
<1> QED
  BY <1>2, FS_CardinalityType

(* One of the approved commands is dispatched.                              *)
LEMMA ApprovalsTail ==
    ASSUME NEW q \in Seq(Command), q # <<>>, NEW id
    PROVE  Cardinality(Approvals(id, q)) =
             Cardinality(Approvals(id, Tail(q))) + (IF Head(q).id = id THEN 1 ELSE 0)
<1> DEFINE A == Approvals(id, q)
           B == Approvals(id, Tail(q))
           f == [i \in B |-> i + 1]
<1>1. /\ Tail(q) \in Seq(Command) /\ Head(q) = q[1]
      /\ Len(q) \in Nat \ {0} /\ Len(Tail(q)) = Len(q) - 1
      /\ \A i \in 1..Len(Tail(q)) : Tail(q)[i] = q[i + 1]
  BY HeadOf
<1>2. IsFiniteSet(A) /\ IsFiniteSet(B) /\ Cardinality(A) \in Nat
  BY <1>1, ApprovalsFinite
<1>3. \A i \in B : i \in Nat /\ i + 1 \in A \ {1}
  BY <1>1 DEF Approvals
<1>4. ASSUME NEW j \in A \ {1}
      PROVE  j - 1 \in B /\ (j - 1) + 1 = j
  <2>1. j \in 1..Len(q) /\ j # 1 /\ q[j].id = id
    BY DEF Approvals
  <2>2. j - 1 \in 1..Len(Tail(q)) /\ (j - 1) + 1 = j
    BY <1>1, <2>1
  <2>3. Tail(q)[j - 1] = q[j]
    BY <1>1, <2>2
  <2> QED
    BY <2>1, <2>2, <2>3 DEF Approvals
<1> HIDE DEF A, B
<1>5. Cardinality(A \ {1}) = Cardinality(B)
  <2>1. f \in [B -> A \ {1}]
    BY <1>3
  <2>2. \A i, j \in B : f[i] = f[j] => i = j
    BY <1>3
  <2>3. \A j \in A \ {1} : \E i \in B : f[i] = j
    BY <1>4
  <2> HIDE DEF f
  <2> QED
    BY <1>2, <2>1, <2>2, <2>3, SameSize
<1>6. Cardinality(A \ {1}) = IF 1 \in A THEN Cardinality(A) - 1 ELSE Cardinality(A)
  BY <1>2, FS_RemoveElement, Zenon
<1>7. 1 \in A <=> Head(q).id = id
  BY <1>1 DEF A, Approvals
<1> QED
  BY <1>2, <1>5, <1>6, <1>7 DEF A, B

HoldersDistinct ==
    \A p \in ints.pending : \A i, j \in 1..Len(p.waiting) :
        /\ p.waiting[i] # p.id
        /\ p.waiting[i] = p.waiting[j] => i = j

(* An approved command is forwarded once for every id it holds.             *)
LEMMA ApprovalsOfPayloads ==
    ASSUME TypeOK, PendingInv, HoldersDistinct, NEW p \in ints.pending, NEW id \in Id
    PROVE  Cardinality(Approvals(id, Payloads(p))) = IF id \in Holders(p) THEN 1 ELSE 0
<1> DEFINE at(i) == IF i = 1 THEN p.id ELSE p.waiting[i - 1]
           n == Len(p.waiting) + 1
<1>1. p.waiting \in Seq(Id) /\ p.id \in Id /\ n \in Nat
  BY DEF TypeOK, Machine, Pending
<1>2. Len(Payloads(p)) = n /\ \A i \in 1..n : Payloads(p)[i] = payloads[at(i)]
  BY <1>1 DEF Payloads
<1>3. ASSUME NEW i \in 1..n
      PROVE  at(i) \in Holders(p) /\ at(i) \in Id
  <2>1. i # 1 => i - 1 \in 1..Len(p.waiting)
    BY <1>1
  <2> QED
    BY <1>1, <2>1 DEF Holders
<1>4. ASSUME NEW i \in 1..n, NEW j \in 1..n, at(i) = at(j)
      PROVE  i = j
  <2>1. /\ i # 1 => i - 1 \in 1..Len(p.waiting)
        /\ j # 1 => j - 1 \in 1..Len(p.waiting)
    BY <1>1
  <2>2. CASE i = 1 \/ j = 1
    BY <1>4, <2>1, <2>2 DEF HoldersDistinct
  <2>3. CASE i # 1 /\ j # 1
    <3>1. i - 1 = j - 1
      BY <1>4, <2>1, <2>3 DEF HoldersDistinct
    <3> QED
      BY <1>1, <3>1
  <2> QED
    BY <2>2, <2>3
<1>5. ASSUME id \in Holders(p)
      PROVE  \E i \in 1..n : at(i) = id
  <2>1. CASE id = p.id
    BY <1>1, <2>1
  <2>2. CASE id # p.id
    <3>1. PICK i \in 1..Len(p.waiting) : p.waiting[i] = id
      BY <1>5, <2>2 DEF Holders
    <3>2. i + 1 \in 1..n /\ i + 1 # 1 /\ (i + 1) - 1 = i
      BY <1>1
    <3> QED
      BY <3>1, <3>2
  <2> QED
    BY <2>1, <2>2
<1> HIDE DEF at, n
<1>6. \A i \in 1..n : Payloads(p)[i].id = at(i)
  BY <1>2, <1>3 DEF PendingInv, PayloadsMatchPending
<1>7. Approvals(id, Payloads(p)) = {i \in 1..n : at(i) = id}
  BY <1>2, <1>6 DEF Approvals
<1>8. CASE id \in Holders(p)
  <2>1. PICK i \in 1..n : at(i) = id
    BY <1>5, <1>8
  <2>2. Approvals(id, Payloads(p)) = {i}
    BY <1>4, <1>7, <2>1
  <2> QED
    BY <1>8, <2>2, FS_Singleton
<1>9. CASE id \notin Holders(p)
  <2>1. Approvals(id, Payloads(p)) = {}
    BY <1>3, <1>7, <1>9
  <2> QED
    BY <1>9, <2>1, FS_EmptySet
<1> QED
  BY <1>8, <1>9

LEMMA TallyAt ==
    ASSUME NEW t \in Tally, NEW id \in Id, NEW m \in Mark
    PROVE  /\ t[id][m] \in Nat
           /\ \A x \in Id, mark \in Mark :
                Count(t, mark, x)[id][m] = t[id][m] + (IF x = id /\ m = mark THEN 1 ELSE 0)
           /\ \A ids \in Seq(Id) : CloseAll(t, ids)[id][m] =
                                     t[id][m] + (IF m = "closed" THEN Occurrences(id, ids) ELSE 0)
           /\ \A gone : CloseHolders(t, gone)[id][m] =
                          t[id][m] + (IF m = "closed" /\ id \in HoldersOf(gone) THEN 1 ELSE 0)
<1>1. t[id][m] \in Nat
  BY DEF Tally
<1>2. ASSUME NEW x \in Id, NEW mark \in Mark
      PROVE  Count(t, mark, x)[id][m] = t[id][m] + (IF x = id /\ m = mark THEN 1 ELSE 0)
  BY <1>1 DEF Count, Tally
<1>3. ASSUME NEW ids \in Seq(Id)
      PROVE  CloseAll(t, ids)[id][m] =
               t[id][m] + (IF m = "closed" THEN Occurrences(id, ids) ELSE 0)
  BY <1>1 DEF CloseAll, Tally, Mark
<1>4. ASSUME NEW gone
      PROVE  CloseHolders(t, gone)[id][m] =
               t[id][m] + (IF m = "closed" /\ id \in HoldersOf(gone) THEN 1 ELSE 0)
  BY <1>1 DEF CloseHolders, Tally, Mark
<1> QED
  BY <1>1, <1>2, <1>3, <1>4

(* A step that starts from tally t takes n transmissions of id in charge:   *)
(* it closes them, or has them wait in the ledger.                          *)
Takes(t, id, n) ==
    /\ IsFiniteSet(UnderKeys(id, ledger'))
    /\ tally'[id]["heard"] = t[id]["heard"] /\ tally'[id]["merged"] = t[id]["merged"]
    /\ tally'[id]["closed"] + Cardinality(UnderKeys(id, ledger')) =
         t[id]["closed"] + Cardinality(UnderKeys(id, ledger)) + n

LEMMA DispatchTakes ==
    ASSUME TypeOK, NEW c \in Command, NEW t \in Tally, Dispatch(c, t),
           NEW id \in Id, IsFiniteSet(UnderKeys(id, ledger))
    PROVE  Takes(t, id, IF id = c.id THEN 1 ELSE 0)
<1> DEFINE one == IF id = c.id THEN 1 ELSE 0
<1>0. /\ ledger \in [Key -> Entry] /\ c.key \in Key /\ c.id \in Id
      /\ \A m \in {"heard", "closed", "merged"} : t[id][m] \in Nat
      /\ Cardinality(UnderKeys(id, ledger)) \in Nat
  BY CommandFields, FS_CardinalityType DEF TypeOK, Tally, Mark
<1>1. \A mark \in {"closed", "queued"} :
        /\ Count(t, mark, c.id)[id]["heard"] = t[id]["heard"]
        /\ Count(t, mark, c.id)[id]["merged"] = t[id]["merged"]
        /\ Count(t, mark, c.id)[id]["closed"] =
             t[id]["closed"] + (IF mark = "closed" THEN one ELSE 0)
  BY <1>0, TallyAt DEF Mark
<1>2. CASE tally' = Count(t, "closed", c.id) /\ ledger' = ledger
  BY <1>0, <1>1, <1>2 DEF Takes
<1>3. CASE /\ tally' = Count(t, "queued", c.id) /\ ledger[c.key].state = "pending"
           /\ ledger' = [ledger EXCEPT ![c.key].waiting = Append(@, c.id)]
  <2>1. /\ ledger[c.key] \in Entry /\ ledger[c.key].waiting \in Seq(Id)
        /\ ledger'[c.key] = [ledger[c.key] EXCEPT !.waiting = Append(@, c.id)]
        /\ \A j \in Key \ {c.key} : ledger'[j] = ledger[j]
    BY <1>0, <1>3 DEF Entry
  <2>2. /\ ledger'[c.key].state = "pending"
        /\ ledger'[c.key].waiting = Append(ledger[c.key].waiting, c.id)
    BY <1>3, <2>1 DEF Entry
  <2>3. /\ IsFiniteSet(UnderKeys(id, ledger'))
        /\ Cardinality(UnderKeys(id, ledger')) = Cardinality(UnderKeys(id, ledger)) + one
    <3>1. Opens(ledger, ledger', c.key, c.id)
      BY <1>3, <2>1, <2>2 DEF Opens
    <3> QED
      BY <1>0, <2>1, <3>1, UnderKeysOpened
  <2> QED
    BY <1>0, <1>1, <1>3, <2>3 DEF Takes
<1>4. CASE HoldCommand(c, t)
  <2> DEFINE e == [state |-> "pending", content |-> c.content, answer |-> NoCommand,
                   waiting |-> <<c.id>>]
  <2>1. /\ ledger' = [ledger EXCEPT ![c.key] = e] /\ ledger[c.key].state = "free"
        /\ tally' = Count(t, "queued", c.id)
    BY <1>4 DEF HoldCommand, Recorded
  <2>2. /\ ledger'[c.key].state = "pending" /\ ledger'[c.key].waiting = Append(<<>>, c.id)
        /\ \A j \in Key \ {c.key} : ledger'[j] = ledger[j]
    BY <1>0, <2>1
  <2>3. Opens(ledger, ledger', c.key, c.id) /\ ledger[c.key].waiting \in Seq(Id)
    BY <1>0, <2>1, <2>2 DEF Opens, Entry
  <2>4. /\ IsFiniteSet(UnderKeys(id, ledger'))
        /\ Cardinality(UnderKeys(id, ledger')) = Cardinality(UnderKeys(id, ledger)) + one
    BY <1>0, <2>3, UnderKeysOpened
  <2> QED
    BY <1>0, <1>1, <2>1, <2>4 DEF Takes
<1>5. CASE Perform(c, t)
  <2>1. PICK answer \in Answer :
          ledger' = [ledger EXCEPT ![c.key] = [state |-> "settled", content |-> c.content,
                                               answer |-> answer, waiting |-> <<>>]]
    BY <1>5 DEF Perform, Execute, Answer
  <2> DEFINE w == <<c.id>>
  <2>2. ledger[c.key].state = "free" /\ tally' = CloseAll(t, w)
    BY <1>5 DEF Perform, Execute, Recorded
  <2>3. \A k \in Key : /\ ledger[k].state = "pending" <=> ledger'[k].state = "pending"
                       /\ ledger[k].state = "pending" => ledger'[k].waiting = ledger[k].waiting
    BY <1>0, <2>1, <2>2
  <2>4. UnderKeys(id, ledger') = UnderKeys(id, ledger)
    BY <2>3, UnderKeysSame
  <2>5. w \in Seq(Id) /\ Occurrences(id, w) = one
    BY <1>0, OccurrencesOne
  <2> HIDE DEF w
  <2>6. \A m \in Mark : tally'[id][m] = t[id][m] + (IF m = "closed" THEN one ELSE 0)
    BY <2>2, <2>5, TallyAt
  <2> QED
    BY <1>0, <2>4, <2>6 DEF Takes, Mark
<1>6. CASE ExecuteSafeStop(c, t) \/ Refuse(c, t)
  <2>1. tally' = Count(t, "closed", c.id) /\ ledger' = ledger
    BY <1>6, Zenon DEF ExecuteSafeStop, Refuse
  <2> QED
    BY <1>2, <2>1
<1>7. CASE Repeat(c, t)
  BY <1>2, <1>3, <1>7, Zenon DEF Repeat
<1> QED
  BY <1>4, <1>5, <1>6, <1>7 DEF Dispatch

(* A pending entry is settled or released: all who wait in it are told.     *)
LEMMA CloseTakes ==
    ASSUME TypeOK, NEW c \in Command, ledger[c.key].state = "pending",
           Execute(c, ledger[c.key].waiting, tally) \/ ReleaseCommand(c),
           NEW id \in Id, IsFiniteSet(UnderKeys(id, ledger))
    PROVE  Takes(tally, id, 0)
<1> DEFINE w == ledger[c.key].waiting
<1>0. /\ ledger \in [Key -> Entry] /\ c.key \in Key /\ w \in Seq(Id) /\ tally \in Tally
      /\ tally[id]["closed"] \in Nat
  BY CommandFields DEF TypeOK, Entry, Tally, Mark
<1>1. /\ ledger'[c.key].state # "pending" /\ \A j \in Key \ {c.key} : ledger'[j] = ledger[j]
  <2>1. CASE ReleaseCommand(c)
    BY <1>0, <2>1 DEF ReleaseCommand, FreeEntry
  <2>2. CASE Execute(c, w, tally)
    <3>1. PICK answer \in Answer :
            ledger' = [ledger EXCEPT ![c.key] = [state |-> "settled", content |-> c.content,
                                                 answer |-> answer, waiting |-> <<>>]]
      BY <2>2 DEF Execute, Answer
    <3> QED
      BY <1>0, <3>1
  <2> QED
    BY <2>1, <2>2
<1>2. tally' = CloseAll(tally, w)
  BY DEF Execute, ReleaseCommand
<1>3. /\ IsFiniteSet(UnderKeys(id, ledger'))
      /\ Cardinality(UnderKeys(id, ledger)) =
           Cardinality(UnderKeys(id, ledger')) + Occurrences(id, w)
  BY <1>0, <1>1, UnderKeysClosed
<1>4. Occurrences(id, w) \in Nat /\ Cardinality(UnderKeys(id, ledger')) \in Nat
  BY <1>0, <1>3, PositionsFinite, FS_CardinalityType
<1>5. /\ tally'[id]["heard"] = tally[id]["heard"] /\ tally'[id]["merged"] = tally[id]["merged"]
      /\ tally'[id]["closed"] = tally[id]["closed"] + Occurrences(id, w)
  BY <1>0, <1>2, TallyAt DEF Mark, Tally
<1> QED
  BY <1>0, <1>3, <1>4, <1>5 DEF Takes

ForwardOver == phase \notin {"forward", "lost"} => forward = <<>>

Balanced(id) ==
    /\ IsFiniteSet(UnderKeys(id, ledger))
    /\ tally[id]["heard"] = tally[id]["closed"] + tally[id]["merged"] + Open(id)

AccountInv == /\ HoldersDistinct /\ ForwardOver
              /\ phase # "closed" => \A id \in Id : Balanced(id)

(* The numbers the books are kept in.                                       *)
LEMMA Numbers ==
    ASSUME TypeOK, PendingApart, NEW id \in Id
    PROVE  /\ \A m \in Mark : tally[id][m] \in Nat
           /\ IsFiniteSet(UnderKeys(id, ledger)) => Cardinality(UnderKeys(id, ledger)) \in Nat
           /\ Cardinality(ForOperator(id, ints)) = IF IdWaiting(ints, id) THEN 1 ELSE 0
           /\ Cardinality(Approvals(id, forward)) \in Nat
<1>1. \A m \in Mark : tally[id][m] \in Nat
  BY TallyAt DEF TypeOK
<1>2. Cardinality(ForOperator(id, ints)) = IF IdWaiting(ints, id) THEN 1 ELSE 0
  BY ForOperatorSize DEF PendingApart
<1>3. Cardinality(Approvals(id, forward)) \in Nat
  BY ApprovalsFinite DEF TypeOK
<1> QED
  BY <1>1, <1>2, <1>3, FS_CardinalityType

(* No account is touched.                                                   *)
LEMMA QuietAccounts ==
    ASSUME AccountInv, UNCHANGED <<ledger, tally, forward>>, ints'.pending = ints.pending,
           phase = "closed" => phase' = "closed",
           phase' \notin {"forward", "lost"} => forward = <<>>
    PROVE  AccountInv'
<1>1. HoldersDistinct' /\ ForwardOver'
  BY DEF AccountInv, HoldersDistinct, ForwardOver
<1>2. \A id \in Id : Balanced(id) => Balanced(id)'
  BY DEF Balanced, Open, ForOperator
<1> QED
  BY <1>1, <1>2 DEF AccountInv

(* What waited for the operator is refused, and everybody is told.          *)
LEMMA RefusalAccounts ==
    ASSUME TypeOK, TypeOK', PendingInv, PendingInv', AccountInv,
           NEW gone \in SUBSET ints.pending, ints'.pending = ints.pending \ gone,
           tally' = CloseHolders(tally, gone), UNCHANGED <<ledger, forward>>,
           phase = "control", phase' \in {"control", "purge", "process"}
    PROVE  AccountInv'
<1>1. HoldersDistinct' /\ ForwardOver'
  BY DEF AccountInv, HoldersDistinct, ForwardOver
<1>2. ASSUME NEW id \in Id
      PROVE  Balanced(id)'
  <2>1. /\ IdWaiting(ints', id) <=> IdWaiting(ints, id) /\ id \notin HoldersOf(gone)
        /\ id \in HoldersOf(gone) => IdWaiting(ints, id)
    <3>1. \A p \in ints.pending \ gone : id \in Holders(p) => id \notin HoldersOf(gone)
      BY DEF PendingInv, PendingApart, HoldersOf
    <3> QED
      BY <3>1 DEF IdWaiting, HoldersOf
  <2>2. tally \in Tally
    BY DEF TypeOK
  <2>3. \A m \in Mark : tally'[id][m] =
                          tally[id][m] + (IF m = "closed" /\ id \in HoldersOf(gone) THEN 1 ELSE 0)
    BY <2>2, TallyAt
  <2>4. Cardinality(ForOperator(id, ints)) =
          Cardinality(ForOperator(id, ints')) + (IF id \in HoldersOf(gone) THEN 1 ELSE 0)
    <3>1. Cardinality(ForOperator(id, ints)) = IF IdWaiting(ints, id) THEN 1 ELSE 0
      BY Numbers DEF PendingInv
    <3>2. Cardinality(ForOperator(id, ints')) = IF IdWaiting(ints', id) THEN 1 ELSE 0
      BY ForOperatorSize DEF PendingInv, PendingApart
    <3> QED
      BY <2>1, <3>1, <3>2
  <2>5. Cardinality(ForOperator(id, ints')) \in Nat
    BY ForOperatorSize DEF PendingInv, PendingApart
  <2>6. Balanced(id)
    BY DEF AccountInv
  <2> QED
    BY <2>3, <2>4, <2>5, <2>6, Numbers DEF Balanced, Open, Mark, PendingInv
<1> QED
  BY <1>1, <1>2 DEF AccountInv

(* What the operator approved is forwarded, once for every id.              *)
LEMMA ApproveAccounts ==
    ASSUME TypeOK, PendingInv, PendingInv', AccountInv, NEW p \in ints.pending, Approve(p),
           ~HoldCovers(ints, p.content.device)
    PROVE  AccountInv'
<1>0. ints \in Machine
  BY DEF TypeOK
<1>1. /\ phase = "control" /\ phase' = "forward" /\ forward' = Payloads(p)
      /\ UNCHANGED <<ledger, tally>> /\ ints'.pending = ints.pending \ {p}
  BY <1>0 DEF Approve, TakeControl, Drop, Machine
<1>2. HoldersDistinct' /\ ForwardOver'
  BY <1>1 DEF AccountInv, HoldersDistinct, ForwardOver
<1>3. ASSUME NEW id \in Id
      PROVE  Balanced(id)'
  <2>1. /\ IdWaiting(ints', id) <=> IdWaiting(ints, id) /\ id \notin Holders(p)
        /\ id \in Holders(p) => IdWaiting(ints, id)
    BY <1>1 DEF IdWaiting, PendingInv, PendingApart
  <2>2. Cardinality(ForOperator(id, ints)) = IF IdWaiting(ints, id) THEN 1 ELSE 0
    BY Numbers DEF PendingInv
  <2>3. Cardinality(ForOperator(id, ints')) = IF IdWaiting(ints', id) THEN 1 ELSE 0
    BY ForOperatorSize DEF PendingInv, PendingApart
  <2>4. Cardinality(Approvals(id, forward)) = 0
    <3>1. forward = <<>>
      BY <1>1 DEF AccountInv, ForwardOver
    <3>2. Approvals(id, forward) = {}
      BY <3>1 DEF Approvals
    <3> QED
      BY <3>2, FS_EmptySet
  <2>5. Cardinality(Approvals(id, forward')) = IF id \in Holders(p) THEN 1 ELSE 0
    BY <1>1, ApprovalsOfPayloads DEF AccountInv
  <2>6. Balanced(id)
    BY <1>1 DEF AccountInv
  <2> QED
    BY <1>1, <2>1, <2>2, <2>3, <2>4, <2>5, <2>6, Numbers DEF Balanced, Open, Mark, PendingInv
<1> QED
  BY <1>2, <1>3 DEF AccountInv

(* One command of a loop over the queue.                                    *)
LEMMA LoopAccounts ==
    ASSUME TypeOK, PendingInv, QueueMatchesLedger, AccountInv,
           Purge \/ KeepQueued \/ ExecuteQueued
    PROVE  AccountInv'
<1>1. /\ phase' = phase /\ phase \in {"purge", "queue"} /\ forward' = forward /\ ints' = ints
  BY Zenon DEF Purge, KeepQueued, ExecuteQueued, NextQueued
<1>2. CASE UNCHANGED <<ledger, tally>>
  BY <1>1, <1>2, QuietAccounts DEF AccountInv, ForwardOver
<1>3. CASE \/ Execute(Head(todo), ledger[Head(todo).key].waiting, tally)
           \/ ReleaseCommand(Head(todo))
  <2>1. /\ todo \in Seq(Command) /\ queued \in Seq(Command) /\ todo # <<>>
        /\ Head(todo) \in Command
    BY HeadOf DEF TypeOK, Purge, KeepQueued, ExecuteQueued, NextQueued
  <2>2. Queue # <<>> /\ Head(Queue) = Head(todo) /\ Queue \in Seq(Command)
    BY <2>1, ConcatenationHead, QueueType DEF Queue
  <2>3. Head(Queue) = Queue[1] /\ 1 \in 1..Len(Queue)
    BY <2>2, HeadOf
  <2>4. ledger[Head(todo).key].state = "pending"
    BY <2>2, <2>3 DEF QueueMatchesLedger
  <2>5. ASSUME NEW id \in Id
        PROVE  Balanced(id)'
    <3>1. Balanced(id)
      BY <1>1 DEF AccountInv
    <3>2. Takes(tally, id, 0)
      BY <1>3, <2>1, <2>4, <3>1, CloseTakes DEF Balanced
    <3>3. Cardinality(UnderKeys(id, ledger')) \in Nat
      BY <3>2, FS_CardinalityType DEF Takes
    <3>4. tally'[id]["closed"] \in Nat
      <4>1. CloseAll(tally, ledger[Head(todo).key].waiting) \in Tally
        BY <2>1, CloseAllType, CommandFields DEF TypeOK, Entry
      <4>2. tally' \in Tally
        BY <1>3, <4>1 DEF Execute, ReleaseCommand
      <4> QED
        BY <4>2 DEF Tally, Mark
    <3>5. /\ tally[id]["heard"] \in Nat /\ tally[id]["closed"] \in Nat /\ tally[id]["merged"] \in Nat
          /\ Cardinality(UnderKeys(id, ledger)) \in Nat
          /\ Cardinality(ForOperator(id, ints)) \in Nat
          /\ Cardinality(Approvals(id, forward)) \in Nat
      BY <3>1, Numbers DEF Balanced, Mark, PendingInv
    <3> QED
      BY <1>1, <3>1, <3>2, <3>3, <3>4, <3>5 DEF Balanced, Open, Takes
  <2>6. HoldersDistinct' /\ ForwardOver'
    BY <1>1 DEF AccountInv, HoldersDistinct, ForwardOver
  <2> QED
    BY <2>5, <2>6 DEF AccountInv
<1> QED
  BY <1>2, <1>3, Zenon DEF Purge, KeepQueued, ExecuteQueued

LEMMA ForwardAccounts ==
    ASSUME TypeOK, TypeOK', PendingInv, AccountInv, ForwardApproved
    PROVE  AccountInv'
<1> DEFINE c == Head(forward)
<1>1. /\ phase = "forward" /\ phase' = phase /\ ints' = ints
      /\ forward # <<>> /\ forward \in Seq(Command) /\ forward' = Tail(forward)
      /\ c \in Command /\ Dispatch(c, tally) /\ tally \in Tally /\ tally' \in Tally
  BY HeadOf DEF ForwardApproved, TypeOK
<1> HIDE DEF c
<1>2. ASSUME NEW id \in Id
      PROVE  Balanced(id)'
  <2>1. Balanced(id)
    BY <1>1 DEF AccountInv
  <2>2. Takes(tally, id, IF id = c.id THEN 1 ELSE 0)
    BY <1>1, <2>1, DispatchTakes DEF Balanced
  <2>3. Cardinality(Approvals(id, forward)) =
          Cardinality(Approvals(id, forward')) + (IF id = c.id THEN 1 ELSE 0)
    BY <1>1, ApprovalsTail DEF c
  <2>4. Cardinality(Approvals(id, forward')) \in Nat
    BY ApprovalsFinite DEF TypeOK
  <2>5. Cardinality(UnderKeys(id, ledger')) \in Nat
    BY <2>2, FS_CardinalityType DEF Takes
  <2>6. tally'[id]["closed"] \in Nat
    BY <1>1 DEF Tally, Mark
  <2>7. /\ tally[id]["heard"] \in Nat /\ tally[id]["closed"] \in Nat /\ tally[id]["merged"] \in Nat
        /\ Cardinality(UnderKeys(id, ledger)) \in Nat
        /\ Cardinality(ForOperator(id, ints)) \in Nat
    BY <2>1, Numbers DEF Balanced, Mark, PendingInv
  <2>8. tally'[id]["heard"] = tally'[id]["closed"] + tally'[id]["merged"]
                                + (Cardinality(UnderKeys(id, ledger'))
                                     + Cardinality(ForOperator(id, ints))
                                     + Cardinality(Approvals(id, forward')))
    BY <2>1, <2>2, <2>3, <2>4, <2>5, <2>6, <2>7 DEF Balanced, Open, Takes
  <2> QED
    BY <1>1, <2>2, <2>8, Zenon DEF Balanced, Open, Takes
<1>3. HoldersDistinct' /\ ForwardOver'
  BY <1>1 DEF AccountInv, HoldersDistinct, ForwardOver
<1> QED
  BY <1>2, <1>3 DEF AccountInv

(* A command that waits with the operator: nobody's place is taken twice.   *)
LEMMA WaitJoins ==
    ASSUME TypeOK, PendingInv, HoldersDistinct, NEW c \in Command, Wait(c),
           Verdict(ints, c, now) \in {"queue", "join"}
    PROVE  /\ \A id \in Id : IdWaiting(ints', id) <=> IdWaiting(ints, id) \/ id = c.id
           /\ HoldersDistinct'
<1>0. ints \in Machine /\ c.id \in Id
  BY CommandFields DEF TypeOK
<1>1. CASE Verdict(ints, c, now) = "queue"
  <2>1. ints'.pending = ints.pending \cup {PendingOf(c)}
    BY <1>0, <1>1 DEF Wait, Enqueue, Machine
  <2>2. PendingOf(c).waiting = <<>> /\ Holders(PendingOf(c)) = {c.id}
    BY DEF PendingOf, Holders
  <2> QED
    BY <2>1, <2>2 DEF IdWaiting, HoldersDistinct
<1>2. CASE Verdict(ints, c, now) = "join"
  <2> DEFINE J(p) == IF p.key = c.key THEN [p EXCEPT !.waiting = Append(@, c.id)] ELSE p
  <2>1. ~IdWaiting(ints, c.id) /\ \E p \in ints.pending : p.key = c.key
    BY <1>2 DEF Verdict, QueueVerdict, SameIntent
  <2>2. ints'.pending = {J(p) : p \in ints.pending}
    BY <1>0, <1>2 DEF Wait, Join, Machine
  <2>3. ASSUME NEW p \in ints.pending
        PROVE  Holders(J(p)) = IF p.key = c.key THEN Holders(p) \cup {c.id} ELSE Holders(p)
    BY <1>0, HoldersJoin DEF Machine
  <2>4. ASSUME NEW p \in ints.pending, NEW i \in 1..Len(J(p).waiting),
               NEW j \in 1..Len(J(p).waiting)
        PROVE  /\ J(p).waiting[i] # J(p).id
               /\ J(p).waiting[i] = J(p).waiting[j] => i = j
    <3>1. p \in Pending /\ p.waiting \in Seq(Id)
      BY <1>0 DEF Machine, Pending
    <3>2. CASE p.key = c.key
      <4>1. J(p).id = p.id /\ J(p).waiting = Append(p.waiting, c.id)
        BY <3>1, <3>2 DEF Pending
      <4>2. p.id # c.id /\ \A n \in 1..Len(p.waiting) : p.waiting[n] # c.id
        BY <2>1 DEF IdWaiting, Holders
      <4>3. \A n \in 1..Len(J(p).waiting) :
              \/ n \in 1..Len(p.waiting) /\ J(p).waiting[n] = p.waiting[n]
              \/ n = Len(p.waiting) + 1 /\ J(p).waiting[n] = c.id
        BY <1>0, <3>1, <4>1
      <4> QED
        BY <4>1, <4>2, <4>3 DEF HoldersDistinct
    <3>3. CASE p.key # c.key
      BY <3>3 DEF HoldersDistinct
    <3> QED
      BY <3>2, <3>3
  <2> HIDE DEF J
  <2> QED
    BY <2>1, <2>2, <2>3, <2>4 DEF IdWaiting, HoldersDistinct
<1> QED
  BY <1>1, <1>2

(* What a record does to the books of one id: the transmission heard is     *)
(* closed, merged, or has the id wait, in the ledger or for the operator.   *)
LEMMA RecordAccounts ==
    ASSUME TypeOK, TypeOK', PendingInv, PendingInv', AccountInv, HostCommand
    PROVE  AccountInv'
<1> DEFINE c == Head(batch).cmd
           one(id) == IF id = c.id THEN 1 ELSE 0
<1>0. Head(batch) \in HostRecord /\ Head(batch).type = "DCMD"
  BY HeadOf DEF HostCommand, NextRecord, TypeOK
<1>1. c \in Command /\ c.id \in Id
  BY <1>0, CommandFields DEF HostRecord
<1>2. /\ phase = "process" /\ phase' = phase /\ forward' = forward
      /\ Pass(c) \/ TurnAway(c) \/ Wait(c)
  BY DEF HostCommand, NextRecord
<1> HIDE DEF c
<1>3. ForwardOver'
  BY <1>2 DEF AccountInv, ForwardOver
<1>4. /\ tally \in Tally /\ Count(tally, "heard", c.id) \in Tally
      /\ Count(Count(tally, "heard", c.id), "queued", c.id) \in Tally
  BY <1>1, CountType DEF TypeOK, Mark
<1>5. ASSUME NEW id \in Id
      PROVE  \A mark \in Mark, m \in Mark :
               Count(Count(tally, "heard", c.id), mark, c.id)[id][m] =
                 tally[id][m] + (IF m = "heard" THEN one(id) ELSE 0)
                              + (IF m = mark THEN one(id) ELSE 0)
  <2>1. \A m \in Mark : Count(tally, "heard", c.id)[id][m] =
                          tally[id][m] + (IF c.id = id /\ m = "heard" THEN 1 ELSE 0)
    BY <1>1, <1>4, TallyAt DEF Mark
  <2>2. \A mark \in Mark, m \in Mark :
          Count(Count(tally, "heard", c.id), mark, c.id)[id][m] =
            Count(tally, "heard", c.id)[id][m] + (IF c.id = id /\ m = mark THEN 1 ELSE 0)
    BY <1>1, <1>4, TallyAt
  <2> QED
    BY <2>1, <2>2
<1>6. ASSUME NEW id \in Id
      PROVE  /\ Balanced(id)
             /\ tally[id]["heard"] \in Nat /\ tally[id]["closed"] \in Nat
             /\ tally[id]["merged"] \in Nat
             /\ IsFiniteSet(UnderKeys(id, ledger)) /\ Cardinality(UnderKeys(id, ledger)) \in Nat
             /\ Cardinality(ForOperator(id, ints)) \in Nat
             /\ Cardinality(Approvals(id, forward)) \in Nat
             /\ Cardinality(ForOperator(id, ints)) = IF IdWaiting(ints, id) THEN 1 ELSE 0
             /\ Cardinality(ForOperator(id, ints')) = IF IdWaiting(ints', id) THEN 1 ELSE 0
  <2>1. Balanced(id)
    BY <1>2 DEF AccountInv
  <2>2. Cardinality(ForOperator(id, ints')) = IF IdWaiting(ints', id) THEN 1 ELSE 0
    BY ForOperatorSize DEF PendingInv, PendingApart
  <2> QED
    BY <2>1, <2>2, Numbers DEF Balanced, Mark, PendingInv
<1>7. CASE Pass(c)
  <2> DEFINE t == Count(tally, "heard", c.id)
  <2>1. ints' = ints /\ Dispatch(c, t)
    BY <1>7 DEF Pass
  <2>2. ASSUME NEW id \in Id
        PROVE  Balanced(id)'
    <3>1. /\ t[id]["heard"] = tally[id]["heard"] + one(id)
          /\ t[id]["closed"] = tally[id]["closed"] /\ t[id]["merged"] = tally[id]["merged"]
      BY <1>1, <1>4, <1>6, TallyAt DEF Mark
    <3> HIDE DEF t
    <3>2. Takes(t, id, one(id))
      BY <1>1, <1>4, <1>6, <2>1, DispatchTakes DEF t
    <3>3. Cardinality(UnderKeys(id, ledger')) \in Nat /\ tally'[id]["closed"] \in Nat
      BY <3>2, FS_CardinalityType DEF Takes, TypeOK, Tally, Mark
    <3>4. tally'[id]["heard"] = tally'[id]["closed"] + tally'[id]["merged"]
                                  + (Cardinality(UnderKeys(id, ledger'))
                                       + Cardinality(ForOperator(id, ints))
                                       + Cardinality(Approvals(id, forward)))
      BY <1>6, <3>1, <3>2, <3>3 DEF Balanced, Open, Takes
    <3> QED
      BY <1>2, <2>1, <3>2, <3>4, Zenon DEF Balanced, Open, Takes
  <2>3. HoldersDistinct'
    BY <2>1 DEF AccountInv, HoldersDistinct
  <2> QED
    BY <1>3, <2>2, <2>3 DEF AccountInv
<1>8. CASE TurnAway(c)
  <2>1. /\ ints' = ints /\ ledger' = ledger
        /\ tally' = Count(Count(tally, "heard", c.id), "closed", c.id)
    BY <1>8 DEF TurnAway
  <2>2. ASSUME NEW id \in Id
        PROVE  Balanced(id)'
    <3>1. /\ tally'[id]["heard"] = tally[id]["heard"] + one(id)
          /\ tally'[id]["closed"] = tally[id]["closed"] + one(id)
          /\ tally'[id]["merged"] = tally[id]["merged"]
      BY <1>5, <1>6, <2>1 DEF Mark
    <3> QED
      BY <1>2, <1>6, <2>1, <3>1 DEF Balanced, Open
  <2>3. HoldersDistinct'
    BY <2>1 DEF AccountInv, HoldersDistinct
  <2> QED
    BY <1>3, <2>2, <2>3 DEF AccountInv
<1>9. CASE Wait(c)
  <2> DEFINE v == Verdict(ints, c, now)
             t == Count(Count(tally, "heard", c.id), "queued", c.id)
  <2>1. ledger' = ledger
    BY <1>9 DEF Wait
  <2>2. CASE v = "retry"
    <3>1. ints' = ints /\ tally' = Count(t, "merged", c.id)
      BY <1>9, <2>2 DEF Wait
    <3>2. ASSUME NEW id \in Id
          PROVE  Balanced(id)'
      <4>1. \A m \in Mark : tally'[id][m] = t[id][m] + (IF c.id = id /\ m = "merged" THEN 1 ELSE 0)
        BY <1>1, <1>4, <3>1, TallyAt DEF Mark
      <4>2. /\ t[id]["heard"] = tally[id]["heard"] + one(id)
            /\ t[id]["closed"] = tally[id]["closed"] /\ t[id]["merged"] = tally[id]["merged"]
        BY <1>5, <1>6 DEF Mark
      <4> HIDE DEF t
      <4>3. /\ tally'[id]["heard"] = tally[id]["heard"] + one(id)
            /\ tally'[id]["closed"] = tally[id]["closed"]
            /\ tally'[id]["merged"] = tally[id]["merged"] + one(id)
        BY <1>6, <4>1, <4>2 DEF Mark
      <4> QED
        BY <1>2, <1>6, <2>1, <3>1, <4>3 DEF Balanced, Open
    <3>3. HoldersDistinct'
      BY <3>1 DEF AccountInv, HoldersDistinct
    <3> QED
      BY <1>3, <3>2, <3>3 DEF AccountInv
  <2>3. CASE v \in {"queue", "join"}
    <3>1. tally' = t /\ ~IdWaiting(ints, c.id)
      BY <1>9, <2>3 DEF Wait, Verdict, QueueVerdict
    <3>2. /\ \A id \in Id : IdWaiting(ints', id) <=> IdWaiting(ints, id) \/ id = c.id
          /\ HoldersDistinct'
      BY <1>1, <1>9, <2>3, WaitJoins DEF AccountInv
    <3>3. ASSUME NEW id \in Id
          PROVE  Balanced(id)'
      <4>1. /\ tally'[id]["heard"] = tally[id]["heard"] + one(id)
            /\ tally'[id]["closed"] = tally[id]["closed"]
            /\ tally'[id]["merged"] = tally[id]["merged"]
        BY <1>5, <1>6, <3>1 DEF Mark
      <4>2. Cardinality(ForOperator(id, ints')) = Cardinality(ForOperator(id, ints)) + one(id)
        BY <1>6, <3>1, <3>2
      <4> QED
        BY <1>2, <1>6, <2>1, <4>1, <4>2 DEF Balanced, Open
    <3> QED
      BY <1>3, <3>2, <3>3 DEF AccountInv
  <2> QED
    BY <1>9, <2>2, <2>3 DEF Wait
<1> QED
  BY <1>2, <1>7, <1>8, <1>9

LEMMA ControlAccounts ==
    ASSUME TypeOK, TypeOK', PendingInv, PendingInv', AccountInv, Control
    PROVE  AccountInv'
<1>0. ints \in Machine
  BY DEF TypeOK
<1>1. ASSUME NEW s \in Scope, NEW latch \in BOOLEAN, Hold(s, latch)
      PROVE  AccountInv'
  <2>1. /\ CoveredBy(ints, s) \in SUBSET ints.pending
        /\ ints'.pending = ints.pending \ CoveredBy(ints, s)
    BY <1>0, <1>1 DEF Hold, SetHold, Drop, Machine, CoveredBy
  <2>2. /\ tally' = CloseHolders(tally, CoveredBy(ints, s)) /\ UNCHANGED <<ledger, forward>>
        /\ phase = "control" /\ phase' = "purge"
    BY <1>1 DEF Hold, TakeControl, RefusePending, StartPurge
  <2> QED
    BY <2>1, <2>2, RefusalAccounts
<1>2. ASSUME NEW s \in Scope, Release(s) \/ ApproveMode(s) \/ ApproveModeOff(s)
      PROVE  AccountInv'
  <2>1. /\ UNCHANGED <<ledger, tally, forward>> /\ phase = "control"
        /\ phase' \in {"control", "purge"}
        /\ \/ ints' = ClearHold(ints, s) \/ ints' = SetApprove(ints, s, TRUE)
           \/ ints' = SetApprove(ints, s, FALSE)
    BY <1>2 DEF Release, ApproveMode, ApproveModeOff, TakeControl, StartPurge, historyVars
  <2>2. ints'.pending = ints.pending
    BY <1>0, <2>1 DEF ClearHold, SetApprove, Machine
  <2>3. phase' \notin {"forward", "lost"} => forward = <<>>
    BY <2>1 DEF AccountInv, ForwardOver
  <2> QED
    BY <2>1, <2>2, <2>3, QuietAccounts
<1>3. ASSUME NEW p \in ints.pending, Approve(p) \/ Deny(p)
      PROVE  AccountInv'
  <2>1. {p} \in SUBSET ints.pending /\ ints'.pending = ints.pending \ {p}
    BY <1>0, <1>3 DEF Approve, Deny, Drop, Machine
  <2>2. CASE Approve(p) /\ ~HoldCovers(ints, p.content.device)
    BY <2>2, ApproveAccounts
  <2>3. CASE Deny(p) \/ HoldCovers(ints, p.content.device)
    <3>1. /\ tally' = CloseHolders(tally, {p}) /\ UNCHANGED <<ledger, forward>>
          /\ phase = "control" /\ phase' = "control"
      BY <1>3, <2>3 DEF Approve, Deny, TakeControl, RefusePending
    <3> QED
      BY <2>1, <3>1, RefusalAccounts
  <2> QED
    BY <1>3, <2>2, <2>3
<1> QED
  BY <1>1, <1>2, <1>3 DEF Control

LEMMA AccountInvInit == Init => AccountInv
<1> SUFFICES ASSUME Init
             PROVE  AccountInv
  OBVIOUS
<1>1. HoldersDistinct /\ ForwardOver
  BY DEF Init, NewInterrupts, HoldersDistinct, ForwardOver
<1>2. ASSUME NEW id \in Id
      PROVE  Balanced(id)
  <2>1. UnderKeys(id, ledger) = {}
    <3>1. \A k \in Key : ledger[k].state # "pending"
      BY DEF Init, FreeEntry
    <3> QED
      BY <3>1 DEF UnderKeys
  <2>2. ForOperator(id, ints) = {} /\ Approvals(id, forward) = {}
    BY DEF Init, NewInterrupts, ForOperator, Approvals
  <2>3. \A m \in Mark : tally[id][m] = 0
    BY DEF Init
  <2> QED
    BY <2>1, <2>2, <2>3, FS_EmptySet DEF Balanced, Open, Mark
<1> QED
  BY <1>1, <1>2 DEF AccountInv

LEMMA AccountInvNext == SessionInv /\ SessionInv' /\ AccountInv /\ [Next]_vars => AccountInv'
<1> SUFFICES ASSUME TypeOK, TypeOK', PendingInv, PendingInv', QueueMatchesLedger,
                    AccountInv, [Next]_vars
             PROVE  AccountInv'
  BY DEF SessionInv, TypeInv, LedgerInv
<1>0. ints \in Machine
  BY DEF TypeOK
<1>1. CASE Control
  BY <1>1, ControlAccounts
<1>2. CASE HostCommand
  BY <1>2, RecordAccounts
<1>3. CASE ForwardApproved
  BY <1>3, ForwardAccounts
<1>4. CASE Purge \/ KeepQueued \/ ExecuteQueued
  BY <1>4, LoopAccounts
<1>5. CASE EndControls
  <2>1. /\ Overdue(ints, now) \in SUBSET ints.pending
        /\ ints'.pending = ints.pending \ Overdue(ints, now)
    BY <1>0, <1>5 DEF EndControls, Overdue, Drop, Machine
  <2>2. /\ tally' = CloseHolders(tally, Overdue(ints, now)) /\ UNCHANGED <<ledger, forward>>
        /\ phase = "control" /\ phase' = "process"
    BY <1>5 DEF EndControls, RefusePending
  <2> QED
    BY <2>1, <2>2, RefusalAccounts
<1>6. CASE Close
  <2>1. phase' = "closed" /\ forward' = forward /\ ints'.pending = {} /\ phase = "advance"
    BY <1>0, <1>6 DEF Close, Drop, Machine
  <2> QED
    BY <2>1 DEF AccountInv, HoldersDistinct, ForwardOver
<1>7. CASE Barrier
  <2>1. /\ ints'.pending = ints.pending /\ UNCHANGED <<ledger, tally, forward>>
        /\ phase = "await" /\ phase' = "control"
    BY <1>0, <1>7 DEF Barrier, SetInventory, Machine, historyVars
  <2> QED
    BY <2>1, QuietAccounts DEF AccountInv, ForwardOver
<1>8. CASE \/ Advance \/ EndControl \/ HostState \/ EndRecords \/ EndQueue
           \/ Host \/ WallTick \/ HostLost \/ SendFails \/ Terminated \/ UNCHANGED vars
  <2>1. /\ UNCHANGED <<ledger, tally, forward, ints>>
        /\ phase = "closed" => phase' = "closed"
    BY <1>8 DEF Advance, EndControl, HostState, NextRecord, EndRecords, EndQueue, Host, HostSends,
                WallTick, HostLost, SendFails, Terminated, vars, historyVars
  <2>2. phase' \notin {"forward", "lost"} => forward = <<>>
    BY <1>8 DEF Advance, EndControl, HostState, NextRecord, EndRecords, EndQueue, Host, HostSends,
                WallTick, HostLost, SendFails, Terminated, vars, historyVars, AccountInv, ForwardOver
  <2> QED
    BY <2>1, <2>2, QuietAccounts
<1> QED
  BY <1>1, <1>2, <1>3, <1>4, <1>5, <1>6, <1>7, <1>8 DEF Next, Node

(* Every transmission of a command is answered once for all, or waits where *)
(* it can be found: in the ledger, for the operator, or among the approved. *)
THEOREM NothingLostNorAnsweredTwice == Spec => []EveryCommandAccounted
<1>1. AccountInv => EveryCommandAccounted
  BY DEF AccountInv, Balanced, EveryCommandAccounted
<1> QED
  BY <1>1, SessionInvAlways, AccountInvInit, AccountInvNext, PTL DEF Spec
=============================================================================
