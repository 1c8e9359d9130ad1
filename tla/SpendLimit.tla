------------------------------ MODULE SpendLimit ------------------------------
(***************************************************************************)
(* What the review admission promises, without ledgers, requests or        *)
(* retries: money is committed before it can be billed, a commitment is    *)
(* released only down to what was billed, and commitments never exceed the *)
(* limit.  ReviewBudget implements it.                                     *)
(***************************************************************************)
EXTENDS Naturals

CONSTANT Limit

VARIABLES committed, billed

Init == committed = 0 /\ billed = 0

Commit == committed' \in committed..Limit /\ UNCHANGED billed
\* A bill comes out of what was committed; the rest of the commitment may be
\* released, as long as it still covers everything billed.
Bill == billed' \in billed..committed /\ committed' \in billed'..committed

Next == Commit \/ Bill
Spec == Init /\ [][Next]_<<committed, billed>>
=============================================================================
