------------------------------ MODULE ReviewJournal ------------------------------
(***************************************************************************)
(* The journal of the review protocols: the branch lit-review-operations,  *)
(* where every record has a path of its own and is written once, by        *)
(* compare-and-swap on the branch head.  A commit whose answer is lost may *)
(* have been applied, may be applied later, or never.                      *)
(***************************************************************************)
EXTENDS Naturals

CONSTANT NoRecord   \* an absent record

VARIABLES
    journal,   \* the branch: its head and the record at each path
    late       \* unanswered commits that may still be applied

Put(path, record) ==
    journal' = [head |-> journal.head + 1, rec |-> [journal.rec EXCEPT ![path] = record]]

\* Mutant: only the path is checked, against the newest head.
LandsUnordered(head, path) == journal.rec[path] = NoRecord

\* expectedHeadOid: the branch is still where the writer read it, and there the
\* path was free.
Lands(head, path) == journal.head = head /\ journal.rec[path] = NoRecord

\* Journal.create for a writer that read the branch at head.  The writer learns
\* that its commit was applied (then) or rejected (conflict), or nothing (unknown).
Create(head, path, record, then, conflict, unknown) ==
    \/ Lands(head, path) /\ Put(path, record) /\ UNCHANGED late /\ (then \/ unknown)
    \/ ~Lands(head, path) /\ conflict /\ UNCHANGED <<journal, late>>
    \/ unknown /\ UNCHANGED <<journal, late>>
    \/ /\ Lands(head, path) /\ unknown
       /\ late' = late \cup {[head |-> head, path |-> path, record |-> record]}
       /\ UNCHANGED journal

\* An unanswered commit is applied after all, or fails.
Resolve(c) ==
    /\ late' = late \ {c}
    /\ IF Lands(c.head, c.path) THEN Put(c.path, c.record) ELSE UNCHANGED journal

\* Another operation commits to the shared branch.
Advance == journal' = [journal EXCEPT !.head = @ + 1] /\ UNCHANGED late
================================================================================
