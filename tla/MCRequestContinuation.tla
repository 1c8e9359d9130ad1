------------------------- MODULE MCRequestContinuation -------------------------
(* RequestContinuation with interchangeable heads, producer runs and resume    *)
(* runs; a head is the first one only by the choice in Init.                   *)
EXTENDS RequestContinuation, TLC

Symmetry == Permutations(Heads) \cup Permutations(Producers) \cup Permutations(Resumes)
================================================================================
