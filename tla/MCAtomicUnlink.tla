---------------------------- MODULE MCAtomicUnlink ----------------------------
(* Finite parameters for AtomicUnlink. *)
EXTENDS AtomicUnlink, TLC

CONSTANTS own, other

\* The caller's removal of its own file, with and without a previous run, and
\* the request forward_proxy makes for a file it does not expect to find.
Remove == [checksum |-> own, allowAbsent |-> FALSE, check |-> FALSE]
RemoveAgain == [Remove EXCEPT !.allowAbsent = TRUE]
RemoveNothing == [checksum |-> NoSum, allowAbsent |-> TRUE, check |-> FALSE]
Preview == [Remove EXCEPT !.check = TRUE]
MCRequests == {Remove, RemoveAgain, RemoveNothing, Preview}
RaceRequests == {Remove, RemoveAgain}
\* Removers differ in nothing but their name.
Symmetry == Permutations(Removers)
================================================================================
