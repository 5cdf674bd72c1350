------------------------------ MODULE ControlPort ------------------------------
(***************************************************************************)
(* How the operator's controls reach a session                              *)
(* (internal/plantwire/internal/app/interrupt_port.go and uds/control.go).  *)
(* Every connection of the control socket is served by a goroutine of its   *)
(* own, one line at a time: it puts a call into the port and waits for the  *)
(* reply or for its ten seconds to pass.  The session takes calls at its    *)
(* barrier, one after the other, and each is judged, its effect published,  *)
(* and answered through a channel of capacity one.  Every method of the     *)
(* port holds its lock, so each is one step here; what happens between two  *)
(* of them interleaves.                                                     *)
(*                                                                          *)
(* What a control does to the interrupt machine is NodeSession's.           *)
(***************************************************************************)
EXTENDS Naturals, Sequences, FiniteSets

CONSTANTS
    Client,       \* the peers that connect to the control socket
    Backlog,      \* controlBacklog
    MaxConns,     \* maxControlConns
    MaxCalls,     \* controls the clients send in all (bound)
    MaxChanges    \* changes of the interrupt state from elsewhere (bound)

ASSUME PortAssumption ==
    /\ Backlog \in Nat \ {0} /\ MaxConns \in Nat
    /\ MaxCalls \in Nat /\ MaxChanges \in Nat

VARIABLES
    conn,       \* per client: "away", "reading" a line, or "waiting" for an answer
    calls,      \* the calls so far, in order of arrival
    urgent,     \* ControlPort.urgent, as places in calls
    queue,      \* ControlPort.queue, as places in calls
    session,    \* where the session is
    serving,    \* the call it serves, 0 if none
    state,      \* version of the interrupt state (it counts the changes)
    view,       \* ControlPort.view: the version last published
    stopped,    \* the context of the server is cancelled
    changes     \* how much of the bound MaxChanges is used

vars == <<conn, calls, urgent, queue, session, serving, state, view, stopped, changes>>

(* live: the context of the call is not done.  reply: the version in the    *)
(* channel, 0 if it is empty.  taken is history.                            *)
Call == [by: Client, estop: BOOLEAN, live: BOOLEAN, reply: Nat,
         told: {"nothing", "reply", "busy"}, taken: BOOLEAN]

TypeOK ==
    /\ conn \in [Client -> {"away", "reading", "waiting"}]
    /\ calls \in Seq(Call)
    /\ \A list \in {urgent, queue} : list \in Seq(1..Len(calls)) /\ Len(list) <= Backlog
    /\ session \in {"slice", "changed", "barrier", "taken", "judged", "published", "ended"}
    /\ serving \in 0..Len(calls)
    /\ state \in Nat /\ view \in Nat
    /\ stopped \in BOOLEAN /\ changes \in Nat

Init ==
    /\ conn = [c \in Client |-> "away"]
    /\ calls = <<>> /\ urgent = <<>> /\ queue = <<>>
    /\ session = "slice" /\ serving = 0
    /\ state = 0 /\ view = 0
    /\ stopped = FALSE /\ changes = 0

(* dropAbandoned, on one list.                                              *)
Live(list) == SelectSeq(list, LAMBDA n : calls[n].live)

Full(estop) == Len(Live(IF estop THEN urgent ELSE queue)) >= Backlog

FirstOf(u, q) == IF u # <<>> THEN Head(u) ELSE Head(q)

Arrival(c, estop, told) ==
    [by |-> c, estop |-> estop, live |-> told = "nothing" /\ ~stopped, reply |-> 0,
     told |-> told, taken |-> FALSE]

-----------------------------------------------------------------------------
(* The connections                                                          *)

Accept(c) ==
    /\ conn[c] = "away" /\ ~stopped
    /\ Cardinality({d \in Client : conn[d] # "away"}) < MaxConns
    /\ conn' = [conn EXCEPT ![c] = "reading"]
    /\ UNCHANGED <<calls, urgent, queue, session, serving, state, view, stopped, changes>>

(* The peer hangs up, stays idle too long, or the server stops.             *)
HangUp(c) ==
    /\ conn[c] = "reading"
    /\ conn' = [conn EXCEPT ![c] = "away"]
    /\ UNCHANGED <<calls, urgent, queue, session, serving, state, view, stopped, changes>>

(* A call is refused at once or waits.  state, and a line that is no        *)
(* control, are answered from the published view and change nothing.        *)
Submit(c, estop) ==
    /\ conn[c] = "reading" /\ Len(calls) < MaxCalls
    /\ LET told == IF Full(estop) THEN "busy" ELSE "nothing"
           added(lane) == IF told = "nothing" /\ lane = estop THEN <<Len(calls) + 1>> ELSE <<>>
       IN  /\ calls' = Append(calls, Arrival(c, estop, told))
           /\ urgent' = Live(urgent) \o added(TRUE)
           /\ queue' = Live(queue) \o added(FALSE)
           /\ conn' = [conn EXCEPT ![c] = IF told = "busy" THEN @ ELSE "waiting"]
    /\ UNCHANGED <<session, serving, state, view, stopped, changes>>

(* The ten seconds of a call are over.                                      *)
Expire(n) ==
    /\ calls[n].live
    /\ calls' = [calls EXCEPT ![n].live = FALSE]
    /\ UNCHANGED <<conn, urgent, queue, session, serving, state, view, stopped, changes>>

(* The answer is written; a write that fails ends the connection.           *)
Tell(n, told) ==
    /\ calls[n].told = "nothing"
    /\ calls' = [calls EXCEPT ![n].told = told, ![n].live = FALSE]
    /\ \E next \in {"reading", "away"} : conn' = [conn EXCEPT ![calls[n].by] = next]
    /\ UNCHANGED <<urgent, queue, session, serving, state, view, stopped, changes>>

TellReply(n) == calls[n].reply # 0 /\ Tell(n, "reply")

(* The select may find both ready and choose this one.                      *)
TellBusy(n) == ~calls[n].live /\ Tell(n, "busy")

Stop ==
    /\ ~stopped /\ stopped' = TRUE
    /\ calls' = [n \in 1..Len(calls) |-> [calls[n] EXCEPT !.live = FALSE]]
    /\ UNCHANGED <<conn, urgent, queue, session, serving, state, view, changes>>

-----------------------------------------------------------------------------
(* The session                                                              *)

Barrier ==
    /\ session = "slice" /\ session' = "barrier"
    /\ UNCHANGED <<conn, calls, urgent, queue, serving, state, view, stopped, changes>>

(* A new inventory, a command that waits or one that expired.               *)
Change ==
    /\ session = "slice" /\ changes < MaxChanges
    /\ session' = "changed"
    /\ state' = state + 1 /\ changes' = changes + 1
    /\ UNCHANGED <<conn, calls, urgent, queue, serving, view, stopped>>

Take ==
    LET u == Live(urgent)
        q == Live(queue)
        first == FirstOf(u, q)
    IN  /\ session = "barrier" /\ u \o q # <<>>
        /\ serving' = first /\ session' = "taken"
        /\ calls' = [calls EXCEPT ![first].taken = TRUE]
        /\ urgent' = SelectSeq(u, LAMBDA n : n # first)
        /\ queue' = SelectSeq(q, LAMBDA n : n # first)
        /\ UNCHANGED <<conn, state, view, stopped, changes>>

Judge ==
    /\ session = "taken" /\ session' = "judged"
    /\ state' = state + 1
    /\ UNCHANGED <<conn, calls, urgent, queue, serving, view, stopped, changes>>

(* Variant: only changes from elsewhere are published.                      *)
Publish_Changes ==
    /\ \/ session = "judged" /\ session' = "published" /\ UNCHANGED view
       \/ session = "changed" /\ session' = "slice" /\ view' = state
    /\ UNCHANGED <<conn, calls, urgent, queue, serving, state, stopped, changes>>

Publish ==
    /\ \/ session = "judged" /\ session' = "published"
       \/ session = "changed" /\ session' = "slice"
    /\ view' = state
    /\ UNCHANGED <<conn, calls, urgent, queue, serving, state, stopped, changes>>

(* Variant: the channel of a call has no room.                              *)
Reply_Unbuffered ==
    /\ session = "published" /\ calls[serving].told = "nothing"
    /\ calls' = [calls EXCEPT ![serving].reply = state]
    /\ serving' = 0
    /\ session' \in {"barrier", "ended"}
    /\ UNCHANGED <<conn, urgent, queue, state, view, stopped, changes>>

(* The reply goes into the channel, whoever waits for it; then the next     *)
(* call, or the end of the session when its link has failed.                *)
Reply ==
    /\ session = "published"
    /\ calls' = [calls EXCEPT ![serving].reply = state]
    /\ serving' = 0
    /\ session' \in {"barrier", "ended"}
    /\ UNCHANGED <<conn, urgent, queue, state, view, stopped, changes>>

Leave ==
    /\ session = "barrier" /\ Live(urgent) \o Live(queue) = <<>>
    /\ session' = "slice"
    /\ urgent' = <<>> /\ queue' = <<>>
    /\ UNCHANGED <<conn, calls, serving, state, view, stopped, changes>>

End ==
    /\ session = "slice" /\ session' = "ended"
    /\ UNCHANGED <<conn, calls, urgent, queue, serving, state, view, stopped, changes>>

-----------------------------------------------------------------------------
Connection ==
    \/ \E c \in Client : \/ Accept(c) \/ HangUp(c)
                         \/ \E estop \in BOOLEAN : Submit(c, estop)
    \/ \E n \in 1..Len(calls) : Expire(n) \/ TellReply(n) \/ TellBusy(n)
    \/ Stop

Serve == Take \/ Judge \/ Publish \/ Reply \/ Leave

Session == Barrier \/ Change \/ Serve \/ End

Over == stopped /\ session = "ended" /\ \A c \in Client : conn[c] = "away"

Terminated == Over /\ UNCHANGED vars

Next == Connection \/ Session \/ Terminated

(* A timer fires, a goroutine whose select is ready goes on, and so does a  *)
(* session that serves controls: it waits for nobody there.                 *)
Fairness ==
    /\ \A n \in 1..MaxCalls :
          WF_vars(n <= Len(calls) /\ (Expire(n) \/ TellReply(n) \/ TellBusy(n)))
    /\ WF_vars(Serve)

Spec == Init /\ [][Next]_vars /\ Fairness

-----------------------------------------------------------------------------
(* Properties                                                               *)

(* Who was answered, and asks for the state, is shown his control or what   *)
(* came after it, never the state before: an effect is published before its *)
(* caller is answered, and the published state never goes back.             *)
RepliesAreVisible == \A n \in 1..Len(calls) : calls[n].reply <= view

(* Neither side waits for the other for ever: every control line is         *)
(* answered, also when the session is stuck at a host's barrier or over,    *)
(* also when the call was dropped or taken; and the session is never stuck  *)
(* on a caller that has gone.                                               *)
NobodyWaitsForEver ==
    /\ \A c \in Client : conn[c] = "waiting" ~> conn[c] # "waiting"
    /\ serving # 0 ~> serving = 0
=============================================================================
