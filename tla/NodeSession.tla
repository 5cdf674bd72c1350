----------------------------- MODULE NodeSession -----------------------------
(***************************************************************************)
(* One plant wire session of a simulated node                               *)
(* (internal/plantwire/internal/app: session.go, slices.go,                 *)
(* host_records.go, commands.go, execution.go, interrupt_side.go).  The     *)
(* session is one goroutine.  It advances the world by a slice, waits for   *)
(* the host at the barrier, takes the operator's controls, processes the    *)
(* host's records in order, runs the queue of commands that fell due, and   *)
(* starts over.  Here a step is one control, one record, or one command of  *)
(* a loop; the host sends while the node waits at the barrier, the operator *)
(* chooses any control, and the connection may break.                       *)
(*                                                                          *)
(* The sequence numbers of the wire are the subject of Wire, the            *)
(* order in which controls reach the session that of ControlPort.           *)
(***************************************************************************)
EXTENDS InterruptRules

CONSTANTS
    Command,      \* the DCMD records the host may send
    NoCommand,    \* no payload is kept, nothing has run
    Churning,     \* the devices that may be born or retire while it runs
    Paced,        \* whether the session is paced by the wall clock
    Ahead,        \* MaxDeadlineAheadNS, in slices
    MaxLedger, MaxQueued, MaxWaiting,
    Until,        \* slices of the session (UntilNS)
    MaxEpoch,     \* highest authority epoch a host announces (bound)
    MaxSends,     \* records a host sends over the session (bound)
    MaxCalls      \* controls applied over the session (bound)

CommandType == [id: Id, key: Key, content: Content, notBefore: Nat,
                deadline: Nat, epoch: Nat, allowed: BOOLEAN]

ASSUME CommandAssumption == Command \subseteq CommandType /\ NoCommand \notin Command

ASSUME BoundsAssumption ==
    /\ Paced \in BOOLEAN /\ Churning \subseteq Device
    /\ \A n \in {Ahead, MaxLedger, MaxQueued, MaxWaiting, Until, MaxEpoch, MaxSends, MaxCalls} : n \in Nat

VARIABLES
    phase,     \* where the session's goroutine is
    now,       \* world clock: slices completed
    wall,      \* wall clock of a paced session, in slices
    life,      \* per device: unborn, live or retired
    epoch,     \* Session.epoch, the floor of accepted authority epochs
    finished,  \* Session.finished: the host said goodbye
    batch,     \* host records of this barrier still to process
    ints,      \* the interrupt machine
    payloads,  \* InterruptGate.payloads: the command an id waits with
    ledger,    \* Session.ledger
    queued,    \* Session.queued
    todo,      \* what a loop over the queue has still to visit
    scope,     \* the scope of the control whose purge is under way
    forward,   \* approved commands still to dispatch
    sends, calls,  \* how much of the bounds MaxSends and MaxCalls is used
    runs,      \* per key: how often the world was invoked for it
    ran,       \* the last command handed to the world
    lastAct,   \* per device: the last thing the node asked of it
    approved,  \* the commands the operator approved
    tally      \* per id: transmissions heard and what became of them

nodeVars == <<phase, now, wall, life, epoch, finished, batch, ints, payloads,
              ledger, queued, todo, scope, forward, sends, calls>>
historyVars == <<runs, ran, lastAct, approved, tally>>
vars == <<phase, now, wall, life, epoch, finished, batch, ints, payloads, ledger, queued,
          todo, scope, forward, sends, calls, runs, ran, lastAct, approved, tally>>

Phase == {"advance", "await", "control", "purge", "forward", "process", "queue", "closed", "lost"}

Answer == {"accepted", "silent", "refused"}

EntryState == {"free", "pending", "settled"}

(* A key with no entry in the ledger is "free".  The ids that wait for the  *)
(* terminal answer of a pending entry are in "waiting".                     *)
Entry == [state: EntryState, content: Content \cup {NoCommand},
          answer: Answer \cup {NoCommand}, waiting: Seq(Id)]

FreeEntry == [state |-> "free", content |-> NoCommand, answer |-> NoCommand, waiting |-> <<>>]

Mark == {"heard", "queued", "closed", "merged"}

Tally == [Id -> [Mark -> Nat]]

HostRecord == [type: {"DCMD"}, cmd: Command]
                \cup [type: {"STATE"}, epoch: 0..MaxEpoch, online: BOOLEAN]

TypeOK ==
    /\ phase \in Phase
    /\ now \in Nat /\ wall \in Nat
    /\ life \in [Device -> {"unborn", "live", "retired"}]
    /\ epoch \in Nat
    /\ finished \in BOOLEAN
    /\ batch \in Seq(HostRecord)
    /\ ints \in Machine
    /\ payloads \in [Id -> Command \cup {NoCommand}]
    /\ ledger \in [Key -> Entry]
    /\ queued \in Seq(Command) /\ todo \in Seq(Command) /\ forward \in Seq(Command)
    /\ scope \in Scope
    /\ sends \in Nat /\ calls \in Nat
    /\ runs \in [Key -> Nat]
    /\ ran \in Command \cup {NoCommand}
    /\ lastAct \in [Device -> {"none", "order", "stop"}]
    /\ approved \subseteq Command
    /\ tally \in Tally

Init ==
    /\ phase = "advance" /\ now = 0 /\ wall = 0
    /\ life \in {f \in [Device -> {"unborn", "live"}] : \A d \in Device \ Churning : f[d] = "live"}
    /\ epoch = 1 /\ finished = FALSE
    /\ batch = <<>>
    /\ ints = NewInterrupts
    /\ payloads = [id \in Id |-> NoCommand]
    /\ ledger = [k \in Key |-> FreeEntry]
    /\ queued = <<>> /\ todo = <<>> /\ forward = <<>>
    /\ scope = All
    /\ sends = 0 /\ calls = 0
    /\ runs = [k \in Key |-> 0]
    /\ ran = NoCommand
    /\ lastAct = [d \in Device |-> "none"]
    /\ approved = {}
    /\ tally = [id \in Id |-> [m \in Mark |-> 0]]

-----------------------------------------------------------------------------
(* Answers to the host, as tallies per command id                           *)

Occurrences(id, ids) == Cardinality({i \in 1..Len(ids) : ids[i] = id})

Count(t, mark, id) == [t EXCEPT ![id][mark] = @ + 1]

(* answerAll: a terminal answer to every id that waits.                     *)
CloseAll(t, ids) == [id \in Id |-> [t[id] EXCEPT !["closed"] = @ + Occurrences(id, ids)]]

(* The gate's refusals: one to each id a resolved pending command holds.    *)
CloseHolders(t, gone) ==
    [id \in Id |-> [t[id] EXCEPT !["closed"] = IF id \in HoldersOf(gone) THEN @ + 1 ELSE @]]

-----------------------------------------------------------------------------
(* The checks on a command                                                  *)

PacedNow == IF Paced /\ wall > now THEN wall ELSE now

Fresh(c) == /\ c.notBefore <= now + Ahead
            /\ PacedNow <= c.deadline
            /\ c.deadline <= PacedNow + Ahead

(* identify, fresh, onBoot and authorize all give no reason to refuse.      *)
Admissible(c) == /\ life[c.content.device] # "unborn"
                 /\ c.content.flaw = "none"
                 /\ Fresh(c)
                 /\ c.epoch = epoch
                 /\ c.allowed

IsSafeStop(c) == /\ life[c.content.device] # "unborn"
                 /\ c.content.kind # "order"

(* Variant: only a settled command is remembered.                           *)
Recorded_Settled(c) == ledger[c.key].state = "settled"

Recorded(c) == ledger[c.key].state # "free"

Conflicts(c) == Recorded(c) /\ ledger[c.key].content # c.content

Repeats(c) == Recorded(c) /\ ledger[c.key].content = c.content

Due(c) == c.notBefore <= now

LedgerFull == Cardinality({k \in Key : ledger[k].state # "free"}) >= MaxLedger

(* Everything that refuses an ordinary command without recording it.        *)
Refuses(c) ==
    \/ ~Admissible(c)
    \/ Conflicts(c)
    \/ Repeats(c) /\ ledger[c.key].state = "pending" /\ Len(ledger[c.key].waiting) >= MaxWaiting
    \/ ~Recorded(c) /\ (LedgerFull \/ (~Due(c) /\ Len(queued) >= MaxQueued))

-----------------------------------------------------------------------------
(* Dispatch: what the session does with a command that local control let    *)
(* pass.  t is the tally with what the caller already counted.              *)

Acted(c) == [lastAct EXCEPT ![c.content.device] = IF c.content.kind = "order" THEN "order" ELSE "stop"]

(* Settle: the one execution answers every id that waits under the key.  The *)
(* world refuses what names an entity that has retired.                     *)
Execute(c, waiting, t) ==
    /\ \E answer \in IF life[c.content.device] = "retired" THEN {"refused"} ELSE Answer :
         ledger' = [ledger EXCEPT ![c.key] = [state |-> "settled", content |-> c.content,
                                              answer |-> answer, waiting |-> <<>>]]
    /\ runs' = [runs EXCEPT ![c.key] = @ + 1]
    /\ ran' = c
    /\ lastAct' = Acted(c)
    /\ tally' = CloseAll(t, waiting)

ExecuteSafeStop(c, t) ==
    /\ IsSafeStop(c)
    /\ IF c.content.flaw = "none"
       THEN ran' = c /\ lastAct' = Acted(c)
       ELSE UNCHANGED <<ran, lastAct>>
    /\ tally' = Count(t, "closed", c.id)
    /\ UNCHANGED <<ledger, queued, runs>>

Refuse(c, t) ==
    /\ Refuses(c)
    /\ tally' = Count(t, "closed", c.id)
    /\ UNCHANGED <<ledger, queued, runs, ran, lastAct>>

(* A repeat of a settled command replays its answer; of a queued one, waits.*)
Repeat(c, t) ==
    /\ ~Refuses(c) /\ Repeats(c)
    /\ IF ledger[c.key].state = "pending"
       THEN /\ ledger' = [ledger EXCEPT ![c.key].waiting = Append(@, c.id)]
            /\ tally' = Count(t, "queued", c.id)
       ELSE tally' = Count(t, "closed", c.id) /\ UNCHANGED ledger
    /\ UNCHANGED <<queued, runs, ran, lastAct>>

HoldCommand(c, t) ==
    /\ ~Refuses(c) /\ ~Recorded(c) /\ ~Due(c)
    /\ ledger' = [ledger EXCEPT ![c.key] = [state |-> "pending", content |-> c.content,
                                            answer |-> NoCommand, waiting |-> <<c.id>>]]
    /\ queued' = Append(queued, c)
    /\ tally' = Count(t, "queued", c.id)
    /\ UNCHANGED <<runs, ran, lastAct>>

Perform(c, t) ==
    /\ ~Refuses(c) /\ ~Recorded(c) /\ Due(c)
    /\ Execute(c, <<c.id>>, t)
    /\ UNCHANGED queued

Dispatch(c, t) ==
    \/ ExecuteSafeStop(c, t)
    \/ ~IsSafeStop(c) /\ (Refuse(c, t) \/ Repeat(c, t) \/ HoldCommand(c, t) \/ Perform(c, t))

(* Variant: the ids are answered but the key is kept.                       *)
ReleaseCommand_Kept(c) ==
    /\ tally' = CloseAll(tally, ledger[c.key].waiting)
    /\ UNCHANGED <<ledger, runs, ran, lastAct>>

(* Release: the key is forgotten and every id that waits under it refused.  *)
ReleaseCommand(c) ==
    /\ ledger' = [ledger EXCEPT ![c.key] = FreeEntry]
    /\ tally' = CloseAll(tally, ledger[c.key].waiting)
    /\ UNCHANGED <<runs, ran, lastAct>>

-----------------------------------------------------------------------------
(* The slice and its barrier                                                *)

(* The world runs to the end of the slice; a device may be born or retire.  *)
Advance ==
    /\ phase = "advance" /\ ~finished /\ now < Until
    /\ now' = now + 1
    /\ \/ UNCHANGED life
       \/ \E d \in Churning : \/ life[d] = "unborn" /\ life' = [life EXCEPT ![d] = "live"]
                              \/ life[d] = "live" /\ life' = [life EXCEPT ![d] = "retired"]
    /\ phase' = "await"
    /\ UNCHANGED <<wall, epoch, finished, batch, ints, payloads, ledger, queued, todo, scope,
                   forward, sends, calls, historyVars>>

(* close: what waits for approval is refused in the log, never answered.    *)
Close ==
    /\ phase = "advance" /\ (finished \/ now >= Until)
    /\ phase' = "closed"
    /\ ints' = Drop(ints, ints.pending)
    /\ payloads' = [id \in Id |-> IF IdWaiting(ints, id) THEN NoCommand ELSE payloads[id]]
    /\ UNCHANGED <<now, wall, life, epoch, finished, batch, ledger, queued, todo, scope,
                   forward, sends, calls, historyVars>>

HostSends(r) ==
    /\ phase = "await" /\ sends < MaxSends
    /\ batch' = Append(batch, r)
    /\ sends' = sends + 1
    /\ UNCHANGED <<phase, now, wall, life, epoch, finished, ints, payloads, ledger, queued, todo,
                   scope, forward, calls, historyVars>>

WallTick ==
    /\ Paced /\ wall < Until
    /\ wall' = wall + 1
    /\ UNCHANGED <<phase, now, life, epoch, finished, batch, ints, payloads, ledger, queued, todo,
                   scope, forward, sends, calls, historyVars>>

(* The HSYNC arrived or the barrier's cap passed: controls come first.      *)
Barrier ==
    /\ phase = "await"
    /\ phase' = "control"
    /\ ints' = SetInventory(ints, {d \in Device : life[d] = "live"})
    /\ UNCHANGED <<now, wall, life, epoch, finished, batch, payloads, ledger, queued, todo, scope,
                   forward, sends, calls, historyVars>>

States(records) == {i \in 1..Len(records) : records[i].type = "STATE"}

(* The records a STATE raises the epoch floor over, itself included.        *)
Accepted(i) == /\ batch[i].epoch >= epoch
               /\ \A j \in States(batch) : j < i => batch[j].epoch <= batch[i].epoch

(* hostLost: of the records that did arrive only STATE counts; a goodbye    *)
(* among them ends the session cleanly, anything else as a lost host.       *)
HostLost ==
    /\ phase = "await"
    /\ LET heard == {i \in States(batch) : Accepted(i)}
       IN  /\ \E e \in {epoch} \cup {batch[i].epoch : i \in heard} :
                 (\A i \in heard : batch[i].epoch <= e) /\ epoch' = e
           /\ finished' = (\E i \in heard : ~batch[i].online)
           /\ phase' = IF \E i \in heard : ~batch[i].online THEN "advance" ELSE "lost"
    /\ batch' = <<>>
    /\ UNCHANGED <<now, wall, life, ints, payloads, ledger, queued, todo, scope, forward, sends,
                   calls, historyVars>>

(* A write to the host fails: the session ends with the error, a purge not  *)
(* before it has visited the whole queue.                                   *)
SendFails ==
    /\ phase \notin {"await", "closed", "lost"}
    /\ phase = "purge" => todo = <<>>
    /\ phase' = "lost"
    /\ UNCHANGED <<now, wall, life, epoch, finished, batch, ints, payloads, ledger, queued, todo,
                   scope, forward, sends, calls, historyVars>>

-----------------------------------------------------------------------------
(* The operator's controls, taken at the barrier before the host's records. *)
(* A control that is refused changes nothing and is left out.               *)

TakeControl ==
    /\ phase = "control" /\ calls < MaxCalls
    /\ calls' = calls + 1
    /\ UNCHANGED <<now, wall, life, epoch, finished, batch, sends>>

StartPurge(s) ==
    /\ phase' = "purge" /\ scope' = s
    /\ todo' = queued /\ queued' = <<>>

(* What waits for approval is refused: its payloads go, its ids are told.   *)
RefusePending(gone) ==
    /\ payloads' = [id \in Id |-> IF id \in HoldersOf(gone) THEN NoCommand ELSE payloads[id]]
    /\ tally' = CloseHolders(tally, gone)

(* hold and estop: the stops are performed before anybody is answered.      *)
Hold(s, latch) ==
    /\ TakeControl
    /\ Accepts(ints, IF latch THEN "estop" ELSE "hold", s)
    /\ ints' = SetHold(ints, s, latch)
    /\ RefusePending(CoveredBy(ints, s))
    /\ lastAct' = [d \in Device |-> IF latch /\ d \in StopOrders(ints, s) THEN "stop" ELSE lastAct[d]]
    /\ StartPurge(s)
    /\ UNCHANGED <<ledger, forward, runs, ran, approved>>

Release(s) ==
    /\ TakeControl
    /\ ints' = ClearHold(ints, s)
    /\ UNCHANGED <<phase, payloads, ledger, queued, todo, scope, forward, historyVars>>

(* Variant: what was queued before the mode was set is not asked about.     *)
ApproveMode_Queue(s) ==
    /\ TakeControl
    /\ Accepts(ints, "approve_mode", s)
    /\ ints' = SetApprove(ints, s, TRUE)
    /\ UNCHANGED <<phase, payloads, ledger, queued, todo, scope, forward, historyVars>>

ApproveMode(s) ==
    /\ TakeControl
    /\ Accepts(ints, "approve_mode", s)
    /\ ints' = SetApprove(ints, s, TRUE)
    /\ StartPurge(s)
    /\ UNCHANGED <<payloads, ledger, forward, historyVars>>

ApproveModeOff(s) ==
    /\ TakeControl
    /\ ints' = SetApprove(ints, s, FALSE)
    /\ UNCHANGED <<phase, payloads, ledger, queued, todo, scope, forward, historyVars>>

(* The payloads of a resolved command, its own first, then its repeats'.    *)
Payloads(p) == [i \in 1..(Len(p.waiting) + 1) |->
                  payloads[IF i = 1 THEN p.id ELSE p.waiting[i - 1]]]

(* approve: a hold set since then still refuses it.                         *)
Approve(p) ==
    /\ TakeControl
    /\ p \in ints.pending
    /\ ints' = Drop(ints, {p})
    /\ IF HoldCovers(ints, p.content.device)
       THEN RefusePending({p}) /\ UNCHANGED <<phase, forward, approved>>
       ELSE /\ payloads' = [id \in Id |-> IF id \in Holders(p) THEN NoCommand ELSE payloads[id]]
            /\ forward' = Payloads(p)
            /\ approved' = approved \cup {payloads[id] : id \in Holders(p)}
            /\ phase' = "forward"
            /\ UNCHANGED tally
    /\ UNCHANGED <<ledger, queued, todo, scope, runs, ran, lastAct>>

Deny(p) ==
    /\ TakeControl
    /\ p \in ints.pending
    /\ ints' = Drop(ints, {p})
    /\ RefusePending({p})
    /\ UNCHANGED <<phase, ledger, queued, todo, scope, forward, runs, ran, lastAct, approved>>

(* purgeQueued: one queued command is withdrawn or kept.                    *)
Purge ==
    /\ phase = "purge" /\ todo # <<>>
    /\ todo' = Tail(todo)
    /\ IF Withdraws(ints, scope, Head(todo))
       THEN ReleaseCommand(Head(todo)) /\ UNCHANGED queued
       ELSE queued' = Append(queued, Head(todo)) /\ UNCHANGED <<ledger, tally, runs, ran, lastAct>>
    /\ UNCHANGED <<phase, now, wall, life, epoch, finished, batch, ints, payloads, scope, forward,
                   sends, calls, approved>>

ForwardApproved ==
    /\ phase = "forward" /\ forward # <<>>
    /\ forward' = Tail(forward)
    /\ Dispatch(Head(forward), tally)
    /\ UNCHANGED <<phase, now, wall, life, epoch, finished, batch, ints, payloads, todo, scope,
                   sends, calls, approved>>

EndControl ==
    /\ \/ phase = "purge" /\ todo = <<>>
       \/ phase = "forward" /\ forward = <<>>
    /\ phase' = "control"
    /\ UNCHANGED <<now, wall, life, epoch, finished, batch, ints, payloads, ledger, queued, todo,
                   scope, forward, sends, calls, historyVars>>

(* No control is left: what waits past its deadline expires.                *)
EndControls ==
    /\ phase = "control"
    /\ phase' = "process"
    /\ ints' = Drop(ints, Overdue(ints, now))
    /\ RefusePending(Overdue(ints, now))
    /\ UNCHANGED <<now, wall, life, epoch, finished, batch, ledger, queued, todo, scope, forward,
                   sends, calls, runs, ran, lastAct, approved>>

-----------------------------------------------------------------------------
(* The host's records, in order                                             *)

NextRecord ==
    /\ phase = "process" /\ batch # <<>>
    /\ batch' = Tail(batch)
    /\ UNCHANGED <<phase, now, wall, life, todo, scope, forward, sends, calls, approved>>

HostState ==
    /\ NextRecord
    /\ LET m == Head(batch)
       IN  /\ m.type = "STATE"
           /\ epoch' = IF m.epoch < epoch THEN epoch ELSE m.epoch
           /\ finished' = (finished \/ (m.epoch >= epoch /\ ~m.online))
    /\ UNCHANGED <<ints, payloads, ledger, queued, runs, ran, lastAct, tally>>

(* A DCMD that local control lets pass, dispatched in the same step.        *)
Pass(c) ==
    /\ c.content.flaw # "malformed" /\ Verdict(ints, c, now) = "pass"
    /\ Dispatch(c, Count(tally, "heard", c.id))
    /\ UNCHANGED <<ints, payloads>>

(* Malformed, or refused by local control: never seen by the world.         *)
TurnAway(c) ==
    /\ c.content.flaw = "malformed" \/ Verdict(ints, c, now) = "refuse"
    /\ tally' = Count(Count(tally, "heard", c.id), "closed", c.id)
    /\ UNCHANGED <<ints, payloads, ledger, queued, runs, ran, lastAct>>

StorePayload(c) == [payloads EXCEPT ![c.id] = IF @ = NoCommand THEN c ELSE @]

(* A command that waits for the operator, alone or as a repeat.             *)
Wait(c) ==
    /\ c.content.flaw # "malformed" /\ Verdict(ints, c, now) \in {"queue", "join", "retry"}
    /\ ints' = IF Verdict(ints, c, now) = "queue" THEN Enqueue(ints, c)
               ELSE IF Verdict(ints, c, now) = "join" THEN Join(ints, c) ELSE ints
    /\ payloads' = StorePayload(c)
    /\ LET heard == Count(Count(tally, "heard", c.id), "queued", c.id)
       IN  tally' = IF Verdict(ints, c, now) = "retry" THEN Count(heard, "merged", c.id) ELSE heard
    /\ UNCHANGED <<ledger, queued, runs, ran, lastAct>>

HostCommand ==
    /\ NextRecord
    /\ Head(batch).type = "DCMD"
    /\ \/ Pass(Head(batch).cmd)
       \/ TurnAway(Head(batch).cmd)
       \/ Wait(Head(batch).cmd)
    /\ UNCHANGED <<epoch, finished>>

(* settleBarrier: the queue runs unless the host has said goodbye.          *)
EndRecords ==
    /\ phase = "process" /\ batch = <<>>
    /\ IF finished
       THEN phase' = "advance" /\ UNCHANGED <<todo, queued>>
       ELSE phase' = "queue" /\ todo' = queued /\ queued' = <<>>
    /\ UNCHANGED <<now, wall, life, epoch, finished, batch, ints, payloads, ledger, scope, forward,
                   sends, calls, historyVars>>

-----------------------------------------------------------------------------
(* runQueue                                                                 *)

NextQueued ==
    /\ phase = "queue" /\ todo # <<>>
    /\ todo' = Tail(todo)
    /\ UNCHANGED <<phase, now, wall, life, epoch, finished, batch, ints, payloads, scope, forward,
                   sends, calls, approved>>

(* Variant: the loop appends to the list it ranges over.                    *)
KeepQueued_InPlace ==
    /\ phase = "queue" /\ todo # <<>>
    /\ ~Due(Head(todo))
    /\ todo' = Append(Tail(todo), Head(todo))
    /\ UNCHANGED <<phase, now, wall, life, epoch, finished, batch, ints, payloads, queued, scope,
                   forward, sends, calls, approved, ledger, runs, ran, lastAct, tally>>

KeepQueued ==
    /\ NextQueued
    /\ ~Due(Head(todo))
    /\ queued' = Append(queued, Head(todo))
    /\ UNCHANGED <<ledger, runs, ran, lastAct, tally>>

(* A command that fell due is checked again, then run or refused.           *)
ExecuteQueued ==
    /\ NextQueued
    /\ Due(Head(todo))
    /\ IF Admissible(Head(todo))
       THEN Execute(Head(todo), ledger[Head(todo).key].waiting, tally)
       ELSE ReleaseCommand(Head(todo))
    /\ UNCHANGED queued

EndQueue ==
    /\ phase = "queue" /\ todo = <<>>
    /\ phase' = "advance"
    /\ UNCHANGED <<now, wall, life, epoch, finished, batch, ints, payloads, ledger, queued, todo,
                   scope, forward, sends, calls, historyVars>>

-----------------------------------------------------------------------------
Ended == phase \in {"closed", "lost"}

Control ==
    \/ \E s \in Scope : \/ \E latch \in BOOLEAN : Hold(s, latch)
                        \/ Release(s) \/ ApproveMode(s) \/ ApproveModeOff(s)
    \/ \E p \in ints.pending : Approve(p) \/ Deny(p)

Host == \E r \in HostRecord : HostSends(r)

Node ==
    \/ Advance \/ Barrier
    \/ Purge \/ ForwardApproved \/ EndControl \/ EndControls
    \/ HostState \/ HostCommand \/ EndRecords
    \/ KeepQueued \/ ExecuteQueued \/ EndQueue

(* The session is over: nothing more happens.                               *)
Terminated == Ended /\ UNCHANGED vars

Next == Node \/ Control \/ Host \/ WallTick \/ Close \/ HostLost \/ SendFails \/ Terminated

(* The session's goroutine never blocks for ever: the barrier's wait has a  *)
(* wall clock cap, and each of its loops is over a finite list.             *)
Spec == Init /\ [][Next]_vars /\ WF_vars(Node \/ Close)

-----------------------------------------------------------------------------
(* Properties                                                               *)

InSeq(c, list) == \E i \in 1..Len(list) : list[i] = c

(* The commands that wait for their start time, in the middle of a loop too. *)
Queue == todo \o queued

(* Release and Settle look a queued command's key up in the ledger without  *)
(* asking whether it is there (Release would dereference nil): every queued *)
(* command has its own pending entry with its content, and every pending    *)
(* entry has its queued command, so no id waits for an execution that never *)
(* comes.                                                                   *)
QueueMatchesLedger ==
    /\ \A i \in 1..Len(Queue) : /\ ledger[Queue[i].key].state = "pending"
                                 /\ ledger[Queue[i].key].content = Queue[i].content
    /\ \A i, j \in 1..Len(Queue) : Queue[i].key = Queue[j].key => i = j
    /\ \A k \in Key : ledger[k].state = "pending" => \E i \in 1..Len(Queue) : Queue[i].key = k

(* One intent, one effect: whatever is repeated, queued, approved, purged or *)
(* retried, the world is invoked at most once under an idempotency key, and *)
(* a key the world was invoked under stays settled (Ledger, runQueue,       *)
(* forwardApproved).                                                        *)
AtMostOnce == \A k \in Key : /\ runs[k] <= 1
                             /\ runs[k] = 1 <=> ledger[k].state = "settled"

(* A hold on everything, on the board the device sits on, or on the device, *)
(* by the plant's own geography: whatever inventory the node has on record. *)
Stands(m, state, d) == \E s \in {All, BoardOf[d], d} : m.holds[s] \in state

(* The operator's word holds at the world: a step that has it act on an    *)
(* ordinary command, or on a safe stop with arguments, finds the device     *)
(* under no hold and, under approve-each-command, the command among those   *)
(* the operator approved; judged on arrival, purged from the queue, or      *)
(* refused at approval, also when the device was born after the hold was    *)
(* set, or the command sent or queued before the mode was (judged, purge,   *)
(* forwardApproved).                                                        *)
OperatorIsObeyed ==
    [][ran' # ran /\ ran'.content.kind # "stop" =>
          LET d == ran'.content.device
          IN /\ life'[d] = "live" => ~Stands(ints', {"held", "latched"}, d)
             /\ ApproveCovers(ints', d) => ran' \in approved]_vars

(* An emergency stop stands until the operator releases exactly its scope:  *)
(* no later hold takes the latch away, and while it stands nothing but      *)
(* stops is asked of the device, so no queued, waiting or approved command  *)
(* slips in behind the stop.                                                *)
LatchedStaysStopped ==
    \A d \in SafeStopping :
        life[d] = "live" /\ Stands(ints, {"latched"}, d) => lastAct[d] # "order"

LatchGoesByRelease ==
    [][\A s \in Scope : ints.holds[s] = "latched" /\ ints'.holds[s] # "latched"
          => Release(s)]_vars

EmergencyStopStands == []LatchedStaysStopped /\ LatchGoesByRelease

Positions(id, ids) == {i \in 1..Len(ids) : ids[i] = id}

(* Where an id waits: under the keys of queued commands (l is a ledger),    *)
(* for the operator, and between approval and dispatch (q is forward).      *)
UnderKeys(id, l) ==
    UNION {{<<k, i>> : i \in Positions(id, l[k].waiting)} : k \in {k \in Key : l[k].state = "pending"}}

ForOperator(id, m) == {p \in m.pending : id \in Holders(p)}

Approvals(id, q) == {i \in 1..Len(q) : q[i].id = id}

Open(id) == Cardinality(UnderKeys(id, ledger)) + Cardinality(ForOperator(id, ints))
              + Cardinality(Approvals(id, forward))

(* Every transmission of a DCMD that was processed is answered once for all *)
(* (a terminal receipt, or the silence of a lost acknowledgement), or an id *)
(* still waits for it: in the ledger, for the operator, or between approval *)
(* and dispatch.  Nothing is lost and nothing answered twice.               *)
EveryCommandAccounted ==
    phase # "closed" =>
        \A id \in Id : tally[id]["heard"] = tally[id]["closed"] + tally[id]["merged"] + Open(id)

(* The gate keeps exactly the payloads of the ids that wait, each for the   *)
(* intent it waits under: an approval forwards what the operator saw.       *)
PayloadsMatchPending ==
    \A id \in Id :
        /\ payloads[id] # NoCommand <=> IdWaiting(ints, id)
        /\ \A p \in ints.pending : id \in Holders(p) =>
              payloads[id].id = id /\ SameIntent(p, payloads[id])

(* A session ends, whatever the host and the operator do: no loop over the  *)
(* queue, the records or the controls goes on for ever.                     *)
SessionEnds == <>Ended

(* The session keeps what the wire contract promises of an idempotency key. *)
KeyState == [k \in Key |-> ledger[k].state]

Keys == INSTANCE KeyLedger WITH state <- KeyState, effects <- runs

KeepsOneEffect == Keys!Spec

-----------------------------------------------------------------------------
(* What the repository's documents say of the session and the code does not *)
(* do.                                                                      *)

(* contracts/plant-wire/SPEC.md:179: a DCMD receives at most one "queued".  *)
QueuedAtMostOnce == \A id \in Id : tally[id]["queued"] <= tally[id]["heard"]

(* contracts/plant-wire/SPEC.md:199: a node keeps, per key, the content     *)
(* digest, the terminal receipt and the result.                             *)
KeysAreKept == [][\A k \in Key : ledger[k].state # "free" => ledger'[k].state # "free"]_vars
=============================================================================
