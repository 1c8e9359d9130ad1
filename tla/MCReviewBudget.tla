--------------------------- MODULE MCReviewBudget ---------------------------
(* Two reviews of two requests each.                                         *)
EXTENDS ReviewBudget, TLC

Symmetry == Permutations(Requests)
=============================================================================
