---------------------------- MODULE MCInterrupts ----------------------------
(***************************************************************************)
(* The two that step the rules of local control through an InterruptGate:   *)
(* the relay (RelayControl), over a gateway and a world or over a gateway   *)
(* alone, and a node session with the log it writes (InterruptLog).  They   *)
(* share no state: one relay or one session runs.                           *)
(***************************************************************************)
EXTENDS RelayControl

CONSTANTS d1, d2, w1, b1, b2, bw, a, b, c, k1, k2, low, MaxHardwareInputs, MaxLogInputs

VARIABLES caller, m, queued, ledger, file, inputs, named, misnamed

Sent(id, key, device, kind, deadline) ==
    [id |-> id, key |-> key, deadline |-> deadline,
     content |-> [device |-> device, kind |-> kind, flaw |-> "none", args |-> low]]

-----------------------------------------------------------------------------
(* The mixed relay: a gateway with d1 or without it, a world with w1.        *)

MCSimBoard == [d \in {w1} |-> bw]

MCNoBoard == <<>>

MCAnnouncements == {[d \in {d1} |-> b2], [d \in {} |-> b2]}

(* A birth without d1.                                                      *)
MCWithout == {[d \in {d1, d2} |-> b1], [d \in {d2} |-> b1]}

MCHostCommands == {Sent(a, k1, d1, "order", 0), Sent(b, k1, d1, "order", 0),
                   Sent(b, k2, w1, "order", 0)}

(* The relay of a gateway alone: d1 on one board, on another, or left out.   *)
(* What the properties say of the world's devices is said of none.           *)
Hardware == INSTANCE RelayControl WITH
               Device <- {d1}, SimDevice <- {}, SimBoard <- MCNoBoard, Stoppable <- {d1},
               Announcements <- MCAnnouncements \cup {[d \in {d1} |-> b1]},
               HostCommands <- {x \in HostCommands : x.content.device = d1},
               ControlScope <- {All, b2}, MaxInputs <- MaxHardwareInputs

-----------------------------------------------------------------------------
(* The session: two devices on one board.  An order, its repeat under       *)
(* another id, and under that id a stop and an order of the other device.   *)

LogDevice == {d1, d2}

LogCommands == {Sent(a, k1, d1, "order", 1), Sent(b, k1, d1, "order", 1),
                Sent(b, k2, d2, "order", 1), Sent(b, k2, d2, "stop", 1)}

Log == INSTANCE InterruptLog WITH
          Device <- LogDevice, Board <- {b1}, BoardOf <- [d \in LogDevice |-> b1],
          SafeStopping <- {d2}, HostCommands <- LogCommands, ControlScope <- {All, b1, d1},
          MaxInputs <- MaxLogInputs

ASSUME Log!LogBounds

-----------------------------------------------------------------------------
logVars == <<m, queued, ledger, file, inputs, named, misnamed>>

MCInit == /\ Log!Init
          /\ \/ caller = "mixed" /\ Init
             \/ caller = "hardware" /\ Hardware!Init
             \/ caller = "session" /\ Init

MCNext ==
    /\ UNCHANGED caller
    /\ \/ caller = "mixed" /\ Next /\ UNCHANGED logVars
       \/ caller = "hardware" /\ Hardware!Next /\ UNCHANGED logVars
       \/ caller = "session" /\ Log!Next /\ UNCHANGED vars

MCSpec == MCInit /\ [][MCNext]_<<caller, logVars, vars>>

(* See InterruptLog.                                                        *)
SetAsideOnlyUnwritten == Log!SetAsideOnlyUnwritten

WrittenIsKept == Log!WrittenIsKept
=============================================================================
