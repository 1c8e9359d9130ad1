----------------------------- MODULE MCAtomicPath -----------------------------
(* Finite parameters for AtomicPath. *)
EXTENDS AtomicPath

CONSTANTS old, new

\* A guarded replacement, a creation, and a no-op rerun of the replacement.
Replace == [desired |-> new, expected |-> old, allowAbsent |-> FALSE, check |-> FALSE]
Create == [desired |-> new, expected |-> NoSum, allowAbsent |-> TRUE, check |-> FALSE]
Rerun == [desired |-> new, expected |-> new, allowAbsent |-> TRUE, check |-> FALSE]
Preview == [Replace EXCEPT !.check = TRUE]
MCRequests == {Replace, Create, Rerun, Preview}
\* Two writers: a replacement or a creation racing a replacement or its rerun.
RaceRequests == {Replace, Create, Rerun}
================================================================================
