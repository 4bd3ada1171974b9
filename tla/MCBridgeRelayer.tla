--------------------------- MODULE MCBridgeRelayer ---------------------------
(* A deposit is logged, and requests may bring it, another deposit of the    *)
(* same amount for the same recipient, and an event the relayer makes no     *)
(* command of.                                                               *)
EXTENDS BridgeRelayer

CONSTANTS e1, e2, p1, p2, c1, c2, usdc, ten, alice

MCPollers == {p1, p2}
MCCallers == {c1, c2}
Deposit(id) ==
    [action |-> "deposit", symbol |-> usdc, amount |-> ten, recipient |-> alice, id |-> id]
Other == [action |-> "approval", symbol |-> usdc, amount |-> ten, recipient |-> alice, id |-> e1]
MCEvents == {Deposit(e1), Deposit(e2), Other}
MCLogs == {Deposit(e1)}
=============================================================================
