----------------------------- MODULE ConsumptionMC -----------------------------
(* Contents of one and two blocks, one a prefix of the other. *)
EXTENDS Consumption, TLC

CONSTANTS left, right

TwoBlocks == {left, right}
ThreeContents == {<<left>>, <<left, right>>, <<right, left>>}
TwoContents == {<<left>>, <<left, right>>}

Interchangeable == Permutations(Threads)
================================================================================
