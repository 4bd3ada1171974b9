----------------------------- MODULE MCStreaming -----------------------------
(* Small instance of Streaming for TLC. *)
EXTENDS Streaming, TLC

CONSTANTS u1, u2, t1, t2

MCUsers == {u1, u2}
MCTokens == {t1, t2}
\* 3 over 2 ledgers leaves a remainder, over 1 it does not, 1 over 2 is refused.
MCAmounts == {1, 3}
MCRanges == {<<0, 2>>, <<1, 2>>}
MCFees == {0, 10001}
Symmetry == Permutations(MCUsers) \cup Permutations(MCTokens)
=============================================================================
