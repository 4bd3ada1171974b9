-------------------------------- MODULE MCToken --------------------------------
(* Two users, one of whom is given allowances, and a minter. *)
EXTENDS Token

CONSTANTS u1, u2, m1

MCUsers == {u1, u2}
MCSpenders == {u2}
MCMinters == {m1}
\* Amounts of either sign.
MCAmounts == {-1, 1, 2}
\* Half of what is moved.
MCFees == {[enabled |-> TRUE, fee_bps |-> 5000, treasury |-> u1]}
=============================================================================
