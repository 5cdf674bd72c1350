------------------------------- MODULE Bridge -------------------------------
(***************************************************************************)
(* The connected sessions of the canvas bridge                             *)
(* (internal/canvasbridge/internal/app/sessions.go, session_state.go).     *)
(* The bridge keeps one session slot; a session is a child process of its  *)
(* own process group.  Every HTTP request is a goroutine that takes the    *)
(* session's own mutex for single steps only and launches, signals, waits  *)
(* and deletes outside of it; stateMu is held for single steps too, but    *)
(* for the claim of the slot, which deletes a directory under it.  The     *)
(* goroutine that closes the bridge takes the same steps beside them.      *)
(***************************************************************************)
EXTENDS Naturals

CONSTANTS Handler,      \* the goroutines of requests (bound: one request each)
          MaxSessions   \* bound: sessions claimed in one life of the bridge

Closer == "closer"  \* the goroutine that closes the bridge

ASSUME BridgeAssumption == MaxSessions \in Nat \ {0} /\ Closer \notin Handler

Actor == Handler \cup {Closer}
Session == 1 .. MaxSessions

VARIABLES slot,      \* b.session: the newest session, 0 for none
          session,   \* the liveSession records
          child,     \* the process of each session
          directory, \* the sessions whose control directory exists
          at,        \* where each goroutine is
          on,        \* the session it has in its hands, 0 for none
          leaving    \* the context of the process has ended

vars == <<slot, session, child, directory, at, on, leaving>>

LiveSession == [attached : BOOLEAN, stopping : BOOLEAN, failed : BOOLEAN, remove : BOOLEAN]

Fresh == [attached |-> FALSE, stopping |-> FALSE, failed |-> FALSE, remove |-> FALSE]

Init ==
  /\ slot = 0
  /\ session = [s \in Session |-> Fresh]
  /\ child = [s \in Session |-> "none"]
  /\ directory = {}
  /\ at = [a \in Actor |-> "idle"]
  /\ on = [a \in Actor |-> 0]
  /\ leaving = FALSE

Alive(s) == child[s] \in {"running", "interrupted"}

\* Variant: a session is not counted as living before its child is attached.
Live_Attached(s) == session[s].attached /\ child[s] # "exited"

\* A session whose child is not attached yet counts as living.
Live(s) == ~session[s].failed /\ (session[s].attached => child[s] # "exited")

Goes(a, place) == at' = [at EXCEPT ![a] = place]

\* A claim holds stateMu from its look at the old session to the new one.
Holding(a) == at[a] \in {"vacate", "claim"}
Unheld == \A h \in Handler : ~Holding(h)

Serving(h) == at[Closer] # "closed" /\ h \in Handler

-----------------------------------------------------------------------------
(***************************************************************************)
(* session.start.                                                          *)
(***************************************************************************)

\* The precheck is a command run outside of every lock.
Start(h) ==
  /\ Serving(h) /\ at[h] = "idle" /\ ~leaving
  /\ Goes(h, "precheck")
  /\ UNCHANGED <<slot, session, child, directory, on, leaving>>

PrecheckFails(h) ==
  /\ Serving(h) /\ at[h] = "precheck"
  /\ Goes(h, "answered")
  /\ UNCHANGED <<slot, session, child, directory, on, leaving>>

\* releaseControl: one goroutine takes the remover of a session, and calls it
\* when it has let the session's mutex go.
ReleaseControl(a, s, removes, done) ==
  /\ session' = [session EXCEPT ![s].remove = FALSE]
  /\ Goes(a, IF session[s].remove THEN removes ELSE done)

\* vacated: the old session gives its directory back before a new one takes the slot.
Vacate(h) ==
  /\ Serving(h) /\ at[h] = "precheck" /\ Unheld
  /\ \/ slot = 0 /\ Goes(h, "claim") /\ UNCHANGED session
     \/ slot # 0 /\ Live(slot) /\ Goes(h, "answered") /\ UNCHANGED session
     \/ slot # 0 /\ ~Live(slot) /\ ReleaseControl(h, slot, "vacate", "claim")
  /\ on' = [on EXCEPT ![h] = slot]
  /\ UNCHANGED <<slot, child, directory, leaving>>

\* A claim that finds no folder for its run leaves the slot to the session that is over.
ClaimSession(h) ==
  /\ Serving(h) /\ at[h] = "claim"
  /\ \/ Goes(h, "answered") /\ UNCHANGED <<slot, on>>
     \/ /\ slot < MaxSessions
        /\ slot' = slot + 1
        /\ on' = [on EXCEPT ![h] = slot + 1]
        /\ Goes(h, "control")
  /\ UNCHANGED <<session, child, directory, leaving>>

\* A bridge that cannot make the directory starts the session without controls.
ControlFlags(h) ==
  /\ Serving(h) /\ at[h] = "control"
  /\ \/ directory' = directory \cup {on[h]} /\ Goes(h, "offer")
     \/ UNCHANGED directory /\ Goes(h, "launch")
  /\ UNCHANGED <<slot, session, child, on, leaving>>

OfferControl(h) ==
  /\ Serving(h) /\ at[h] = "offer"
  /\ session' = [session EXCEPT ![on[h]].remove = TRUE]
  /\ Goes(h, "launch")
  /\ UNCHANGED <<slot, child, directory, on, leaving>>

StartLasting(h) ==
  /\ Serving(h) /\ at[h] = "launch"
  /\ \/ /\ child' = [child EXCEPT ![on[h]] = "running"]
        /\ Goes(h, "attach")
        /\ UNCHANGED session
     \/ /\ session' = [session EXCEPT ![on[h]].failed = TRUE]
        /\ Goes(h, "answered")
        /\ UNCHANGED child
  /\ UNCHANGED <<slot, directory, on, leaving>>

\* Variant: a stop asked during the launch is not looked at.
AfterAttach_Opens(s) == "open"

\* A stop that was asked during the launch is carried out now.
AfterAttach(s) == IF session[s].stopping THEN "signal" ELSE "open"

Attach(h) ==
  /\ Serving(h) /\ at[h] = "attach"
  /\ session' = [session EXCEPT ![on[h]].attached = TRUE]
  /\ Goes(h, AfterAttach(on[h]))
  /\ UNCHANGED <<slot, child, directory, on, leaving>>

\* The journal is open, the child is gone, the attempts are used up or the request is.
AwaitOpen(h) ==
  /\ Serving(h) /\ at[h] = "open"
  /\ Goes(h, "status")
  /\ UNCHANGED <<slot, session, child, directory, on, leaving>>

-----------------------------------------------------------------------------
(***************************************************************************)
(* session.status, session.stop, and the stop of a bridge that closes.     *)
(***************************************************************************)

\* Variant: a session that is being stopped has given its controls up.
Controlling_Running(s) == Live(s) /\ ~session[s].stopping

Controlling(s) == Live(s)

\* The status is judged under the session's mutex, the directory released after it.
StatusOf(h) ==
  /\ Serving(h) /\ at[h] = "status"
  /\ IF on[h] = 0 \/ Controlling(on[h])
     THEN Goes(h, "answered") /\ UNCHANGED session
     ELSE ReleaseControl(h, on[h], "remove", "answered")
  /\ UNCHANGED <<slot, child, directory, on, leaving>>

\* Where a goroutine goes when the directory of a session is deleted.
AfterRemove(a) == IF at[a] = "vacate" THEN "claim" ELSE IF a = Closer THEN "director" ELSE "answered"

\* The remover runs under no mutex of the session.
RemoveControl(a) ==
  /\ at[Closer] # "closed" /\ at[a] \in {"vacate", "remove"}
  /\ directory' = directory \ {on[a]}
  /\ Goes(a, AfterRemove(a))
  /\ UNCHANGED <<slot, session, child, on, leaving>>

\* The slot is read under stateMu; what follows uses the session that was read.
CurrentSession(a, next) ==
  /\ at[Closer] # "closed" /\ Unheld
  /\ on' = [on EXCEPT ![a] = slot]
  /\ Goes(a, IF slot = 0 THEN (IF a = Closer THEN "director" ELSE "answered") ELSE next)
  /\ UNCHANGED <<slot, session, child, directory, leaving>>

Status(h) == h \in Handler /\ at[h] = "idle" /\ ~leaving /\ CurrentSession(h, "status")
StopSession(h) == h \in Handler /\ at[h] = "idle" /\ ~leaving /\ CurrentSession(h, "stop")

\* Where a goroutine goes when there is nothing (more) to wait for.
AfterStop(a) == IF a = Closer THEN "release" ELSE "status"

\* The first stop takes the child, if there is one yet; a later one takes nothing.
RequestStop(a) ==
  /\ at[Closer] # "closed" /\ at[a] = "stop"
  /\ LET s == on[a] IN
       IF session[s].stopping \/ session[s].failed
       THEN Goes(a, AfterStop(a)) /\ UNCHANGED session
       ELSE /\ session' = [session EXCEPT ![s].stopping = TRUE]
            /\ Goes(a, IF session[s].attached THEN "signal" ELSE AfterStop(a))
  /\ UNCHANGED <<slot, child, directory, on, leaving>>

Signal(a) ==
  /\ at[Closer] # "closed" /\ at[a] = "signal"
  /\ child' = [child EXCEPT ![on[a]] = IF @ = "running" THEN "interrupted" ELSE @]
  /\ Goes(a, "exit")
  /\ UNCHANGED <<slot, session, directory, on, leaving>>

\* The goroutine that launched the session goes on to look for its journal.
AfterExit(a) == IF a = Closer THEN "release" ELSE "status"

AwaitExit(a) ==
  /\ at[Closer] # "closed" /\ at[a] = "exit"
  /\ child[on[a]] = "exited"
  /\ Goes(a, AfterExit(a))
  /\ UNCHANGED <<slot, session, child, directory, on, leaving>>

\* The child did not end within the time: its process group is killed.
Kill(a) ==
  /\ at[Closer] # "closed" /\ at[a] = "exit"
  /\ Alive(on[a])
  /\ child' = [child EXCEPT ![on[a]] = "exited"]
  /\ UNCHANGED <<slot, session, directory, at, on, leaving>>

-----------------------------------------------------------------------------
(***************************************************************************)
(* The child, and the end of the bridge.                                   *)
(***************************************************************************)

\* A child ends for reasons of its own, interrupted or not; nothing else makes it.
ChildExits(s) ==
  /\ Alive(s)
  /\ child' = [child EXCEPT ![s] = "exited"]
  /\ UNCHANGED <<slot, session, directory, at, on, leaving>>

\* SIGINT or SIGTERM: no request is accepted any more, those under way go on.
Interrupted ==
  /\ ~leaving
  /\ leaving' = TRUE
  /\ UNCHANGED <<slot, session, child, directory, at, on>>

StopLiving == leaving /\ at[Closer] = "idle" /\ CurrentSession(Closer, "stop")

CloseControl ==
  /\ at[Closer] = "release"
  /\ ReleaseControl(Closer, on[Closer], "remove", "director")
  /\ UNCHANGED <<slot, child, directory, on, leaving>>

\* The director's child is closed and the process ends: no goroutine moves again.
Exit ==
  /\ at[Closer] = "director"
  /\ Goes(Closer, "closed")
  /\ UNCHANGED <<slot, session, child, directory, on, leaving>>

Closed == at[Closer] = "closed"

Terminated ==
  /\ \/ Closed
     \/ \A h \in Handler : at[h] = "answered"
  /\ UNCHANGED vars

Moves(h) ==
  \/ PrecheckFails(h) \/ Vacate(h) \/ ClaimSession(h) \/ ControlFlags(h) \/ OfferControl(h) \/ StartLasting(h)
  \/ Attach(h) \/ AwaitOpen(h) \/ StatusOf(h) \/ RequestStop(h) \/ Signal(h) \/ AwaitExit(h) \/ Kill(h)
  \/ RemoveControl(h)

Closes ==
  \/ StopLiving \/ RequestStop(Closer) \/ Signal(Closer) \/ AwaitExit(Closer) \/ Kill(Closer)
  \/ CloseControl \/ RemoveControl(Closer) \/ Exit

Next ==
  \/ \E h \in Handler : Start(h) \/ Status(h) \/ StopSession(h) \/ Moves(h)
  \/ \E s \in Session : ChildExits(s)
  \/ Interrupted
  \/ Closes
  \/ Terminated

\* Every goroutine that can go on does, and the timer of a stop fires.  No request has to be made, and no child ends by itself.
Fairness == (\A h \in Handler : WF_vars(Moves(h))) /\ WF_vars(Closes)

Spec == Init /\ [][Next]_vars /\ Fairness

-----------------------------------------------------------------------------
(***************************************************************************)
(* Properties.                                                             *)
(***************************************************************************)

Places == {"idle", "precheck", "vacate", "claim", "control", "offer", "launch", "attach", "open", "status",
           "stop", "signal", "exit", "remove", "answered", "release", "director", "closed"}

TypeOK ==
  /\ slot \in 0 .. MaxSessions
  /\ session \in [Session -> LiveSession]
  /\ child \in [Session -> {"none", "running", "interrupted", "exited"}]
  /\ directory \subseteq Session
  /\ at \in [Actor -> Places]
  /\ on \in [Actor -> 0 .. MaxSessions]
  /\ leaving \in BOOLEAN

\* Whatever starts, stops and failed launches meet, there is never more than one session child: the slot is
\* given away only when the child of the session that holds it can no longer appear or has gone (vacated, live).
OneChild == \A s \in Session : Alive(s) => s = slot

Removing(a, s) == on[a] = s /\ at[a] \in {"vacate", "remove"}

\* Who is to delete a directory: its session while that has the slot, the
\* request that has just made it, or one that has taken the remover.
Owned(s) ==
  \/ s = slot /\ session[s].remove
  \/ \E h \in Handler : on[h] = s /\ at[h] = "offer"
  \/ \E a \in Actor : Removing(a, s)

\* A control directory is never left behind: beside that of the session in the slot there are only directories
\* somebody is just deleting, perhaps after the slot has gone on.  And it is not taken from a living session, whose
\* child may still serve controls, but by the bridge that closes (releaseControl, vacated, statusOf).
DirectoryFollowsSession ==
  [][/\ \A s \in directory' : Owned(s)'
     /\ \A s \in directory \ directory' : Live(s) => Removing(Closer, s)]_vars

\* A child that outlives the bridge was in the hands of a request, in its launch or in its stop, or its session was
\* claimed after the bridge had looked at the slot; Close stops every other one (stopLiving).
CloseStopsWhatItFinds ==
  Closed => \A s \in Session : Alive(s) =>
              \/ on[Closer] # s
              \/ \E h \in Handler : on[h] = s /\ at[h] \in {"attach", "signal", "exit"}

\* A stop is carried out: the child ends, whether the stop came during the launch, beside another stop or after the
\* child had gone; or the launch fails, or the whole bridge ends (attach, requestStop).
StopIsCarriedOut ==
  \A s \in Session : session[s].stopping ~> (child[s] = "exited" \/ session[s].failed \/ Closed)

\* What the design document says of a bridge that closes: no session is left.
ClosedLeavesNoSession == Closed => \A s \in Session : ~Alive(s)
=============================================================================
