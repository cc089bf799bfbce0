------------------------------ MODULE ResolutionMC ------------------------------
(* Instances of Resolution for TLC. *)
EXTENDS Resolution, TLC

CONSTANTS family1

OneFamily == [id \in Resources |-> family1]

Interchangeable == Permutations(Resources)
================================================================================
