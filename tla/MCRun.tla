-------------------------------- MODULE MCRun --------------------------------
(***************************************************************************)
(* The two layers of a run, each under its own callers: the run (Run) with *)
(* two callers, a duplicator, a spoiler, a reorder window, an outage with  *)
(* an end and one without; and the core of the world it drives (World).    *)
(* They share no state here: Run takes of the world only when it emits.    *)
(***************************************************************************)
EXTENDS Run, World

CONSTANTS d1, d2, k1, k2, e1, e2

VARIABLE under  \* which of the two moves

-----------------------------------------------------------------------------
(* The run.                                                                *)
Window(kind, from, until) == [kind |-> kind, from |-> from, until |-> until, width |-> 1]

MCOffers == {Window("duplicate_burst", 1, 0), Window("reorder", 1, 0), Window("producer_flap", 1, 2), Window("malformed", 2, 0)}
MalformedOutage == {Window("malformed", 1, 0), Window("producer_flap", 1, 0)}

Symmetric == Permutations(Driver) \cup Permutations(Consumer)

-----------------------------------------------------------------------------
(* The world: a fan whose speed is leased, one that is boosted, a crew     *)
(* that clears a sag, and a starter behind an interlock on what its entity *)
(* has taken in; the second entity reads the first.                        *)
Declared(on, s, form, dead, fallback) ==
  [on |-> on, state |-> s, form |-> form, dead |-> dead, fallback |-> fallback, safe |-> 1,
   match |-> 2, miss |-> 4, guard |-> "none", level |-> 0, acts |-> s, action |-> 0]

Effectors ==
  "hold" :> Declared({e1}, "x", "assign", 0, "safe_off")
    @@ "boost" :> Declared({e1}, "v", "add", 1, "revert")
    @@ "crew" :> Declared({e1}, "w", "responder", 1, "none")
    @@ "start" :> [Declared({e2}, "w", "add", 0, "none") EXCEPT !.guard = "interlock", !.level = 1, !.acts = "x", !.action = 2]

Sent(value, lease) == [value |-> value, lease |-> lease, cause |-> ""]

Sendable ==
  "hold" :> {Sent(2, 1), Sent(4, 2)}
    @@ "boost" :> {Sent(2, 1), Sent(4, -1)}
    @@ "crew" :> {[Sent(0, -1) EXCEPT !.cause = "sag"]}
    @@ "start" :> {Sent(2, -1)}

Faulty ==
  "sag" :> [state |-> "x", delta |-> 3, lasts |-> 1, drops |-> FALSE]
    @@ "mute" :> [state |-> "u", delta |-> 1, lasts |-> 0, drops |-> TRUE]

Links == [e \in {e1, e2} |-> IF e = e2 THEN {e1} ELSE {}]

-----------------------------------------------------------------------------
MCInit == Init /\ WorldInit /\ under \in {"run", "world"}

MCNext ==
  /\ UNCHANGED under
  /\ \/ under = "run" /\ Next /\ UNCHANGED worldVars
     \/ under = "world" /\ WorldNext /\ UNCHANGED vars

MCSpec == MCInit /\ [][MCNext]_<<under, worldVars, vars>>

(* An acknowledged call holds its effect where the calls of an effector are *)
(* dated in the order they come in (see World), looked at where the world   *)
(* moves: beside a run it has had no call.                                  *)
LeasesHold == under = "world" => LeaseHolds
=============================================================================
