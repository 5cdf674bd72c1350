---------------------------- MODULE MCNodeSession ----------------------------
(***************************************************************************)
(* A node with two devices on one board, two command ids and two            *)
(* idempotency keys.  The three sets of commands aim at different parts:    *)
(* the ledger and its queue, local control, and the devices that come and   *)
(* go.                                                                      *)
(***************************************************************************)
EXTENDS NodeSession

CONSTANTS d1, d2, b1, a, b, k1, k2, low, high, noCommand

MCBoardOf == [d \in {d1, d2} |-> b1]

Order(d, x) == [device |-> d, kind |-> "order", flaw |-> "none", args |-> x]

Cmd(id, key, content, from, deadline, e) ==
    [id |-> id, key |-> key, content |-> content, notBefore |-> from,
     deadline |-> deadline, epoch |-> e, allowed |-> TRUE]

(* At once, later, a repeat under another id, other content under the key,  *)
(* another authority, another key, one that cannot be read.                 *)
LedgerCommands ==
    {Cmd(a, k1, Order(d1, low), 0, 2, 1),
     Cmd(b, k1, Order(d1, low), 2, 2, 1),
     Cmd(a, k1, Order(d1, high), 2, 3, 2),
     Cmd(b, k2, Order(d2, low), 2, 3, 1),
     Cmd(b, k2, [Order(d2, low) EXCEPT !.flaw = "malformed"], 2, 3, 1)}

(* A command for later, its repeat for now, one for the other device, a     *)
(* safe stop, one with arguments and one that is out of range.              *)
ControlCommands ==
    LET For(kind, flaw) == [device |-> d1, kind |-> kind, flaw |-> flaw, args |-> low]
    IN {Cmd(a, k1, Order(d1, low), 3, 3, 1),
        Cmd(b, k1, Order(d1, low), 0, 1, 1),
        Cmd(b, k2, Order(d2, low), 0, 3, 1),
        Cmd(b, k2, For("stop_args", "none"), 0, 3, 1),
        Cmd(a, k2, For("stop", "none"), 0, 3, 1),
        Cmd(a, k2, For("stop", "out_of_range"), 0, 3, 1)}
=============================================================================
