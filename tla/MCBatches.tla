----------------------------- MODULE MCBatches -----------------------------
(* Batches with one or two message batches, each able to take half the budget. *)
EXTENDS Batches, TLC

CONSTANTS b1, b2

OneBatch   == {b1}
TwoBatches == {b1, b2}
MCSettings == {[enabled |-> TRUE, limit |-> 2, background |-> 2]}
Symmetry   == Permutations(TwoBatches)
=============================================================================
