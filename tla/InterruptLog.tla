---------------------------- MODULE InterruptLog ----------------------------
(***************************************************************************)
(* The interrupt log of a node session (app/interrupt_log.go) and what      *)
(* makes it evidence (domain/interrupts_replay.go).  The session writes one *)
(* record per input of the rules, one per decision, and its own effects:    *)
(* stops it carried out and queued commands it purged.  When it ends, the   *)
(* log is checked: every stop and purge must follow from records before it; *)
(* a log that does not is set aside and the session fails.                  *)
(*                                                                          *)
(* The rules are InterruptRules, which the replay steps again with the same *)
(* inputs; what can disagree is the ledger of evidence, which knows only    *)
(* what the records say, and the session's queue, which knows the commands. *)
(* The session's own judgement of a command (NodeSession) is a choice here: *)
(* one that passed the gate runs, is refused, or waits for its start time.  *)
(***************************************************************************)
EXTENDS InterruptRules

LOCAL INSTANCE SequencesExt

CONSTANTS
    HostCommands,    \* what the host may send: records of id, key, content and deadline
    ControlScope,    \* the scopes the operator uses
    MaxInputs        \* bound: inputs of a session

LogBounds ==
    /\ HostCommands \subseteq [id: Id, key: Key, content: Content, deadline: Nat]
    /\ ControlScope \subseteq Scope /\ MaxInputs \in Nat

VARIABLES
    m,               \* InterruptGate.machine
    queued,          \* Session.queued with the ids that wait on each command's entry
    ledger,          \* what checkEvidence holds after the records written so far
    file,            \* interruptFile: "open", "failed", "kept" or "rejected"
    inputs,          \* inputs taken, for the bound
    named,           \* the device the host named last under each id
    misnamed         \* a command was purged under an id that named another device since

vars == <<m, queued, ledger, file, inputs, named, misnamed>>

(* at: records noted; sentTo, passed: per command id; boards: the devices   *)
(* whose board an inventory named; restrictions: what a hold, a stop or an  *)
(* approval mode covered, with its place.                                   *)
NewLedger == [at |-> 0, sentTo |-> [i \in Id |-> "none"], passed |-> [i \in Id |-> 0],
              stopped |-> {}, boards |-> {}, restrictions |-> {},
              request |-> [op |-> "none", scope |-> All, on |-> FALSE], fault |-> FALSE]

Init == /\ m = NewInterrupts /\ queued = {} /\ ledger = NewLedger /\ file = "open" /\ inputs = 0
        /\ named = [i \in Id |-> "none"] /\ misnamed = FALSE

-----------------------------------------------------------------------------
(* Records                                                                  *)

Entry(event) == [event |-> event, ids |-> {}, device |-> "none", devices |-> {},
                 op |-> "none", scope |-> All, on |-> FALSE]

InventoryEntry(devices) == [Entry("inventory") EXCEPT !.devices = devices]

CommandEntry(c) == [Entry("command") EXCEPT !.ids = {c.id}, !.device = c.content.device]

ControlEntry(op, scope, on) == [Entry("control") EXCEPT !.op = op, !.scope = scope, !.on = on]

PassEntry(ids) == [Entry("pass") EXCEPT !.ids = ids]

AppliedEntry == Entry("applied")

StopEntry(d) == [Entry("stop") EXCEPT !.device = d]

EffectEntry(d) == [Entry("effect") EXCEPT !.device = d]

PurgeEntry(id, d) == [Entry("purge") EXCEPT !.ids = {id}, !.device = d]

Restricts(request) == \/ request.op \in {"hold", "estop"}
                      \/ request.op = "approve_mode" /\ request.on

-----------------------------------------------------------------------------
(* The ledger of evidence                                                   *)

(* What the ledger takes from a record (trackInputs, trackDecisions).       *)
Track(l, e) ==
    CASE e.event = "inventory" -> [l EXCEPT !.boards = @ \cup e.devices]
      [] e.event = "command" -> [l EXCEPT !.sentTo = [i \in Id |-> IF i \in e.ids THEN e.device ELSE @[i]]]
      [] e.event = "control" -> [l EXCEPT !.request = [op |-> e.op, scope |-> e.scope, on |-> e.on]]
      [] e.event = "stop" -> [l EXCEPT !.stopped = @ \cup {e.device}]
      [] e.event = "pass" -> [l EXCEPT !.passed = [i \in Id |-> IF i \in e.ids THEN l.at ELSE @[i]]]
      [] e.event = "applied" /\ Restricts(l.request) ->
            [l EXCEPT !.restrictions = @ \cup {[scope |-> l.request.scope, at |-> l.at]}]
      [] OTHER -> l

Reaches(l, s, d) == \/ s = All
                    \/ s = d
                    \/ d \in l.boards /\ s = BoardOf[d]

CoveredSince(l, d, after) == \E r \in l.restrictions : r.at > after /\ Reaches(l, r.scope, d)

PurgeFault(l, id, d) == \/ l.passed[id] = 0
                        \/ l.sentTo[id] # d
                        \/ ~CoveredSince(l, d, l.passed[id])

Fault(l, e) ==
    \/ e.event = "effect" /\ e.device \notin l.stopped
    \/ e.event = "purge" /\ \E id \in e.ids : PurgeFault(l, id, e.device)

Note(l, e) ==
    LET noted == Track([l EXCEPT !.at = @ + 1], e)
    IN [noted EXCEPT !.fault = @ \/ Fault(noted, e)]

(* A file that has failed takes no more records.                            *)
Add(records) == ledger' = IF file = "open" THEN FoldLeft(Note, ledger, records) ELSE ledger

-----------------------------------------------------------------------------
(* The session                                                              *)

Takes == /\ file \in {"open", "failed"} /\ inputs < MaxInputs
         /\ inputs' = inputs + 1 /\ UNCHANGED file

(* A command that passed goes on: it runs or is refused, or is held for its *)
(* start time, or waits on the held one of its key.                         *)
Held(key, content, ids) ==
    IF \E e \in queued : e.key = key
    THEN {IF e.key = key /\ e.content = content THEN [e EXCEPT !.ids = @ \cup ids] ELSE e : e \in queued}
    ELSE queued \cup {[key |-> key, content |-> content, ids |-> ids]}

Dispatch(key, content, ids) ==
    queued' \in IF content.kind = "order" THEN {queued, Held(key, content, ids)} ELSE {queued}

Announce(devices) ==
    /\ Takes /\ devices # m.inventory
    /\ m' = SetInventory(m, devices)
    /\ Add(<<InventoryEntry(devices)>>)
    /\ UNCHANGED <<queued, named, misnamed>>

Judge(c) ==
    /\ Takes
    /\ LET verdict == Verdict(m, c, 0)
       IN /\ m' = CASE verdict = "queue" -> Enqueue(m, c)
                    [] verdict = "join" -> Join(m, c)
                    [] OTHER -> m
          /\ IF verdict = "pass"
             THEN /\ Add(<<CommandEntry(c), PassEntry({c.id})>>)
                  /\ Dispatch(c.key, c.content, {c.id})
             ELSE Add(<<CommandEntry(c)>>) /\ UNCHANGED queued
    /\ named' = [named EXCEPT ![c.id] = c.content.device]
    /\ UNCHANGED misnamed

(* Variant: every applied control withdraws what it covers.                 *)
Purged_Any(op, scope, on) == {e \in queued : Withdraws(m, scope, e)}

(* purgeQueued: what a restriction covers leaves the queue with every id    *)
(* that waits on it.                                                        *)
Purged(op, scope, on) == {e \in queued : /\ Restricts([op |-> op, on |-> on])
                                         /\ Withdraws(m, scope, e)}

PurgeEntries(gone) ==
    LET pairs == {<<id, e>> \in Id \X gone : id \in e.ids}
    IN [i \in 1..Len(SetToSeq(pairs)) |-> PurgeEntry(SetToSeq(pairs)[i][1], SetToSeq(pairs)[i][2].content.device)]

StopEntries(op, scope) ==
    LET stops == IF op = "estop" THEN SetToSeq(StopOrders(m, scope)) ELSE <<>>
    IN [i \in 1..Len(stops) |-> StopEntry(stops[i])]

EffectEntries(op, scope) ==
    LET stops == StopEntries(op, scope) IN [i \in 1..Len(stops) |-> EffectEntry(stops[i].device)]

Applied(op, scope, on) ==
    CASE op = "hold" -> SetHold(m, scope, FALSE)
      [] op = "estop" -> SetHold(m, scope, TRUE)
      [] op = "release" -> ClearHold(m, scope)
      [] OTHER -> SetApprove(m, scope, on)

(* A control: its record, what it decides, its reply; then what the session *)
(* does about it.                                                           *)
Control(op, scope, on) ==
    LET clears == op = "release" \/ (op = "approve_mode" /\ ~on)
        request == <<ControlEntry(op, scope, on)>>
        gone == Purged(op, scope, on)
    IN /\ Takes
       /\ IF clears \/ Accepts(m, op, scope)
          THEN /\ m' = Applied(op, scope, on)
               /\ queued' = queued \ gone
               /\ misnamed' = (misnamed \/ \E e \in gone, i \in Id : i \in e.ids /\ named[i] # e.content.device)
               /\ Add(request \o StopEntries(op, scope) \o <<AppliedEntry>>
                      \o EffectEntries(op, scope) \o PurgeEntries(gone))
          ELSE Add(request) /\ UNCHANGED <<m, queued, misnamed>>
       /\ UNCHANGED named

(* decide: an approved command and its repeats go on like one that passed,  *)
(* unless a hold covers it.                                                 *)
Decide(p, approve) ==
    LET forward == approve /\ ~HoldCovers(m, p.content.device)
        request == ControlEntry(IF approve THEN "approve" ELSE "deny", All, FALSE)
    IN /\ Takes
       /\ m' = Drop(m, {p})
       /\ IF forward
          THEN Add(<<request, PassEntry(Holders(p)), AppliedEntry>>) /\ Dispatch(p.key, p.content, Holders(p))
          ELSE Add(<<request, AppliedEntry>>) /\ UNCHANGED queued
       /\ UNCHANGED <<named, misnamed>>

(* runQueue: a command whose time has come runs, or is refused.             *)
RunQueued ==
    /\ file \in {"open", "failed"}
    /\ \E e \in queued : queued' = queued \ {e}
    /\ UNCHANGED <<m, ledger, file, inputs, named, misnamed>>

(* A record that cannot be written: nothing is written after it.            *)
WriteFails ==
    /\ file = "open" /\ file' = "failed"
    /\ UNCHANGED <<m, queued, ledger, inputs, named, misnamed>>

(* finish: the log is kept when it was written in full and verifies.        *)
Finish ==
    /\ file \in {"open", "failed"}
    /\ file' = IF file = "open" /\ ~ledger.fault THEN "kept" ELSE "rejected"
    /\ UNCHANGED <<m, queued, ledger, inputs, named, misnamed>>

Next ==
    \/ \E devices \in SUBSET Device : Announce(devices)
    \/ \E c \in HostCommands : Judge(c)
    \/ \E op \in {"hold", "estop", "release"}, scope \in ControlScope : Control(op, scope, FALSE)
    \/ \E scope \in ControlScope, on \in BOOLEAN : Control("approve_mode", scope, on)
    \/ \E p \in m.pending, approve \in BOOLEAN : Decide(p, approve)
    \/ RunQueued \/ WriteFails \/ Finish

Spec == Init /\ [][Next]_vars

-----------------------------------------------------------------------------
TypeOK ==
    /\ m \in Machine /\ inputs \in 0..MaxInputs
    /\ queued \subseteq [key: Key, content: Content, ids: SUBSET Id]
    /\ ledger.at \in Nat /\ ledger.passed \in [Id -> Nat] /\ ledger.boards \subseteq Device
    /\ file \in {"open", "failed", "kept", "rejected"}

(* A log that was written in full is evidence, whatever was repeated,       *)
(* approved, held or queued: every purge in it names a command that had     *)
(* passed and that a restriction applied since covers, and every effect a   *)
(* stop that was ordered.  With one exception: nothing refuses a host that  *)
(* uses an id again for another device, and the ledger knows an id by its   *)
(* last device only; a purge of the earlier command then sets aside a log   *)
(* the session wrote in full                                                *)
(* (domain/interrupts_replay.go checkEvidence, app/interrupt_log.go finish).*)
SetAsideOnlyUnwritten ==
    [][file' # file /\ file' \in {"kept", "rejected"} =>
          (file' = "rejected" <=> file = "failed" \/ misnamed)]_vars

(* Without the exception: the log of a session is set aside only when it    *)
(* could not be written.                                                    *)
WrittenIsKept == [][file' = "rejected" => file = "failed"]_vars

=============================================================================
