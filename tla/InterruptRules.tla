---------------------------- MODULE InterruptRules ----------------------------
(***************************************************************************)
(* The rules of local control at a plant wire node                          *)
(* (internal/plantwire/internal/domain/interrupts*.go): which commands a    *)
(* hold, an approval mode or an emergency stop covers, the verdict on a     *)
(* command that arrives, and how a control changes the machine.  The source *)
(* keeps them as one pure state machine that two callers step: the session  *)
(* of a simulated node and the relay of a hardware one.  Here, likewise,    *)
(* the module has no variable: its operators take the machine m and return  *)
(* a verdict or the next machine.                                           *)
(*                                                                          *)
(*   m.inventory  the devices the node announces now (set at each barrier)  *)
(*   m.holds      per scope "off", "held" or "latched" (by an e-stop)       *)
(*   m.approves   the scopes under approve-each-command                     *)
(*   m.pending    the commands that wait for the operator                   *)
(***************************************************************************)
EXTENDS Naturals, Sequences, FiniteSets

CONSTANTS
    Device,          \* wire names of devices
    Board,           \* names of boards
    BoardOf,         \* the board a device sits on
    SafeStopping,    \* the devices whose kind declares a safe stop
    All,             \* the scope that covers every device
    Id, Key,         \* command ids and idempotency keys the host uses
    Args,            \* argument values a content digest tells apart
    MaxScopes,       \* maxInterruptScopes
    MaxPending,      \* maxPendingApprovals
    MaxRepeats       \* maxWaitingRepeats

ASSUME ScopesDisjoint ==
    /\ BoardOf \in [Device -> Board]
    /\ SafeStopping \subseteq Device
    /\ All \notin Board \cup Device
    /\ Board \cap Device = {}
    /\ IsFiniteSet(Device) /\ IsFiniteSet(Board)

ASSUME LimitsAreNaturals == MaxScopes \in Nat /\ MaxPending \in Nat /\ MaxRepeats \in Nat

(***************************************************************************)
(* "order" is an ordinary command; "stop" the first command its kind flags  *)
(* safe_stop, sent without arguments, and "stop_args" the same with         *)
(* arguments; "other_stop" a further command the kind flags safe_stop,      *)
(* without arguments (a kind may flag several).                             *)
(***************************************************************************)
Kind == {"order", "stop", "stop_args", "other_stop"}

(* What is wrong with a command whatever the node's state: the checks of    *)
(* identify and onBoot.  A simulated board keeps its first boot for ever.   *)
Flaw == {"none", "malformed", "unknown_command", "out_of_range", "wrong_boot"}

(* The digest of device, command, arguments and expected boot.  A command   *)
(* the kind does not know is no safe stop.                                  *)
Content == {c \in [device: Device, kind: Kind, flaw: Flaw, args: Args] :
              c.kind = "order" \/ (c.device \in SafeStopping /\ c.flaw # "unknown_command")}

Scope == {All} \cup Board \cup Device

HoldState == {"off", "held", "latched"}

Pending == [id: Id, key: Key, content: Content, deadline: Nat, waiting: Seq(Id)]

Machine == [inventory: SUBSET Device, holds: [Scope -> HoldState],
            approves: SUBSET Scope, pending: SUBSET Pending]

NewInterrupts == [inventory |-> {}, holds |-> [s \in Scope |-> "off"],
                  approves |-> {}, pending |-> {}]

-----------------------------------------------------------------------------
(* Scopes                                                                   *)

(* A device the node does not announce has no board: only a scope that      *)
(* names it, or all, covers it.                                             *)
Covers(m, s, d) == \/ s = All
                   \/ s = d
                   \/ d \in m.inventory /\ s = BoardOf[d]

HoldCovers(m, d) == \E s \in Scope : m.holds[s] # "off" /\ Covers(m, s, d)

LatchCovers(m, d) == \E s \in Scope : m.holds[s] = "latched" /\ Covers(m, s, d)

ApproveCovers(m, d) == \E s \in m.approves : Covers(m, s, d)

Known(m, s) == \/ s = All
               \/ s \in m.inventory
               \/ \E d \in m.inventory : s = BoardOf[d]

(* A latch does not count, so an emergency stop is never one scope too many. *)
OrdinaryScopes(m) == Cardinality(m.approves) + Cardinality({s \in Scope : m.holds[s] = "held"})

AddsScope(m, op, s) == IF op = "approve_mode" THEN s \notin m.approves ELSE m.holds[s] = "off"

(* Whether a control that restricts is applied; clearing one always is.     *)
Accepts(m, op, s) ==
    /\ Known(m, s)
    /\ op # "estop" /\ AddsScope(m, op, s) => OrdinaryScopes(m) < MaxScopes

DeclaredStop(m, c) == /\ c.content.device \in m.inventory \cap SafeStopping
                      /\ c.content.kind = "stop"

-----------------------------------------------------------------------------
(* Commands that wait for the operator                                      *)

Holders(p) == {p.id} \cup {p.waiting[i] : i \in 1..Len(p.waiting)}

IdWaiting(m, id) == \E p \in m.pending : id \in Holders(p)

KeyWaiting(m, key) == \E p \in m.pending : p.key = key

SameIntent(p, c) == p.key = c.key /\ p.content = c.content

(* What becomes of a command that an approval mode covers.                  *)
QueueVerdict(m, c, now) ==
    IF KeyWaiting(m, c.key)
    THEN IF \E p \in m.pending : SameIntent(p, c) /\ Len(p.waiting) < MaxRepeats
         THEN "join" ELSE "refuse"
    ELSE IF c.deadline < now \/ Cardinality(m.pending) >= MaxPending THEN "refuse" ELSE "queue"

(* The verdict on a command, first match: a declared stop always passes, an *)
(* id that already waits is never judged twice, a hold outranks approval.   *)
Verdict(m, c, now) ==
    IF DeclaredStop(m, c) THEN "pass"
    ELSE IF IdWaiting(m, c.id)
         THEN IF \E p \in m.pending : c.id \in Holders(p) /\ SameIntent(p, c)
              THEN "retry" ELSE "refuse"
    ELSE IF HoldCovers(m, c.content.device) THEN "refuse"
    ELSE IF ApproveCovers(m, c.content.device) THEN QueueVerdict(m, c, now)
    ELSE "pass"

PendingOf(c) == [id |-> c.id, key |-> c.key, content |-> c.content,
                 deadline |-> c.deadline, waiting |-> <<>>]

Enqueue(m, c) == [m EXCEPT !.pending = @ \cup {PendingOf(c)}]

Join(m, c) ==
    [m EXCEPT !.pending =
        {IF p.key = c.key THEN [p EXCEPT !.waiting = Append(@, c.id)] ELSE p : p \in @}]

Drop(m, gone) == [m EXCEPT !.pending = @ \ gone]

(* Variant: the repeats are forgotten.                                      *)
HoldersOf_First(gone) == {p.id : p \in gone}

HoldersOf(gone) == UNION {Holders(p) : p \in gone}

CoveredBy(m, s) == {p \in m.pending : Covers(m, s, p.content.device)}

Overdue(m, now) == {p \in m.pending : p.deadline < now}

-----------------------------------------------------------------------------
(* Controls                                                                 *)

(* Variant: a later hold loosens the latch.                                 *)
SetHold_Loosens(m, s, latch) ==
    [Drop(m, CoveredBy(m, s)) EXCEPT !.holds[s] = IF latch THEN "latched" ELSE "held"]

(* A hold keeps a latch that is there; an emergency stop sets one.          *)
SetHold(m, s, latch) ==
    [Drop(m, CoveredBy(m, s)) EXCEPT
        !.holds[s] = IF latch \/ @ = "latched" THEN "latched" ELSE "held"]

ClearHold(m, s) == [m EXCEPT !.holds[s] = "off"]

SetApprove(m, s, on) == [m EXCEPT !.approves = IF on THEN @ \cup {s} ELSE @ \ {s}]

(* The devices an emergency stop on s orders to stop.                       *)
StopOrders(m, s) == {d \in m.inventory \cap SafeStopping : Covers(m, s, d)}

(* Whether a control on s withdraws a command that passed and waits for its *)
(* start time (InterruptGate.Covers).                                       *)
Withdraws(m, s, c) == Covers(m, s, c.content.device) /\ ~DeclaredStop(m, c)

SetInventory(m, devices) == [m EXCEPT !.inventory = devices]
=============================================================================
