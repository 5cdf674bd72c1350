------------------------------ MODULE KeyLedger ------------------------------
(***************************************************************************)
(* What a node promises of an idempotency key (contracts/plant-wire/SPEC.md *)
(* section 9, Idempotency and Repeats; internal/plantwire/internal/domain   *)
(* Ledger): a key may be held for a later start, it may be forgotten while  *)
(* it is held, and it is settled by its one effect, for good.               *)
(***************************************************************************)
EXTENDS Naturals

CONSTANT Key

VARIABLES
    state,     \* per key: "free", "pending" or "settled"
    effects    \* per key: how often the world was invoked under it

Init == /\ state = [k \in Key |-> "free"]
        /\ effects = [k \in Key |-> 0]

Hold(k) == /\ state[k] = "free"
           /\ state' = [state EXCEPT ![k] = "pending"]
           /\ UNCHANGED effects

Forget(k) == /\ state[k] = "pending"
             /\ state' = [state EXCEPT ![k] = "free"]
             /\ UNCHANGED effects

Settle(k) == /\ state[k] # "settled"
             /\ state' = [state EXCEPT ![k] = "settled"]
             /\ effects' = [effects EXCEPT ![k] = @ + 1]

Next == \E k \in Key : Hold(k) \/ Forget(k) \/ Settle(k)

Spec == Init /\ [][Next]_<<state, effects>>
=============================================================================
