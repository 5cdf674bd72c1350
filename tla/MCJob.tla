-------------------------------- MODULE MCJob --------------------------------
(* Two operators and a plan of two chunks, with two faults the plan injects *)
(* and clears.                                                              *)
EXTENDS Job

CONSTANTS o1, o2

Advance == [op |-> "advance", fault |-> 0]
Inject(f) == [op |-> "inject", fault |-> f]
Clear(f) == [op |-> "clear", fault |-> f]

MCPlan == <<Inject(1), Advance, Inject(2), Clear(1), Advance, Clear(2)>>
=============================================================================
