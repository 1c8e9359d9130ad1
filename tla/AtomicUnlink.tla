------------------------------ MODULE AtomicUnlink ------------------------------
(***************************************************************************)
(* plugins/modules/atomic_unlink.py: removal of one verified regular file  *)
(* through a private quarantine directory.                                 *)
(*                                                                         *)
(* A remover hard-links the inode it has verified into the quarantine      *)
(* ("verified"), renames whatever the path names by then into it           *)
(* ("target"), and only removes that entry when it is the verified inode   *)
(* with the expected content; else it links the entry back.  It takes no   *)
(* lock: several removers and other programs act on the path at once.      *)
(***************************************************************************)
EXTENDS FileEntries, FiniteSets

CONSTANTS
    Removers,    \* module invocations
    Requests,    \* the parameter sets they can be called with
    NoSum,       \* checksum is the empty string
    MaxForeign,  \* bound: steps of other programs
    MaxFaults    \* bound: system calls that fail

ASSUME RequestAssumption ==
    /\ NoSum \notin Contents /\ Torn # NoSum
    /\ Requests \subseteq [checksum : Contents \cup {NoSum}, allowAbsent : BOOLEAN,
                           check : BOOLEAN]
ASSUME BoundAssumption == MaxForeign \in Nat /\ MaxFaults \in Nat

VARIABLES
    file, target, bound,       \* inode table, the entry, path leads to the parent
    pc, req,                   \* next step and parameters of an invocation
    before,                    \* before (and the inode of file_fd)
    final,                     \* final_fd
    quarantine,                \* the quarantine directory exists
    verified, moved,           \* its entries "verified" and "target"
    result, report,            \* what was returned; "verified" or "none"
    theirs, foreign, faults    \* as in AtomicPath

disk == <<file, target, bound>>
private == <<quarantine, verified, moved>>
outcome == <<result, report>>
bounds == <<foreign, faults>>
vars == <<disk, pc, req, before, final, private, outcome, theirs, bounds>>

Steps == {"begin", "stat", "open", "sum", "last", "mkdir", "link", "rename",
          "inspect", "recheck", "restore", "remove", "forget", "rmdir",
          "done", "dead"}
Results == {"running", "unchanged", "would", "changed", "failed"}
Reports == {"none", "verified"}

Current == Stat(file, target)
----------------------------------------------------------------------------
Init ==
    /\ \E c \in Contents, ok \in BOOLEAN :
         \/ file = <<>> /\ target = NoFile /\ theirs = {}
         \/ file = <<FreshNode(c, ok)>> /\ target = 1 /\ theirs = {1}
    /\ bound = TRUE
    /\ req \in [Removers -> Requests]
    /\ pc = [p \in Removers |-> "begin"]
    /\ before = [p \in Removers |-> NoStat] /\ final = before
    /\ quarantine = [p \in Removers |-> FALSE]
    /\ verified = [p \in Removers |-> NoFile] /\ moved = verified
    /\ result = [p \in Removers |-> "running"]
    /\ report = [p \in Removers |-> "none"]
    /\ foreign = 0 /\ faults = 0

Go(p, step) == pc' = [pc EXCEPT ![p] = step]
Advance(p, step) == Go(p, step) /\ UNCHANGED outcome

\* exit_json or fail_json.
Return(p, res, path) ==
    /\ Go(p, "done")
    /\ result' = [result EXCEPT ![p] = res]
    /\ report' = [report EXCEPT ![p] = path]

Fault == faults < MaxFaults /\ faults' = faults + 1

\* The finally clause's rmdir, which succeeds on an empty quarantine.
Swept(p, entries) ==
    quarantine' = [quarantine EXCEPT ![p] = @ /\ entries # {NoFile}]

\* _open_parent.
Begin(p) ==
    /\ pc[p] = "begin"
    /\ IF bound THEN Advance(p, "stat") ELSE Return(p, "failed", "none")
    /\ UNCHANGED <<disk, req, before, final, private, theirs, bounds>>

StatEntry(p) ==
    /\ pc[p] = "stat"
    /\ before' = [before EXCEPT ![p] = Current]
    /\ IF req[p].checksum = NoSum /\ ~req[p].allowAbsent
       THEN Return(p, "failed", "none")
       ELSE IF target = NoFile
            THEN Return(p, IF req[p].allowAbsent THEN "unchanged" ELSE "failed", "none")
            ELSE IF file[target].ok THEN Advance(p, "open")
                 ELSE Return(p, "failed", "none")
    /\ UNCHANGED <<disk, req, final, private, theirs, bounds>>

Open(p) ==
    /\ pc[p] = "open"
    /\ IF SameSnapshot(Current, before[p])
       THEN Advance(p, "sum") ELSE Return(p, "failed", "none")
    /\ UNCHANGED <<disk, req, before, final, private, theirs, bounds>>

Sum(p) ==
    /\ pc[p] = "sum"
    /\ IF file[before[p].ino].content = req[p].checksum
       THEN Advance(p, "last") ELSE Return(p, "failed", "none")
    /\ UNCHANGED <<disk, req, before, final, private, theirs, bounds>>

\* final_fd against final_name: the descriptor and the path agree, but the
\* descriptor is not compared with its earlier fstat; then the metadata.
LastLook(p) ==
    /\ pc[p] = "last"
    /\ final' = [final EXCEPT ![p] = Stat(file, before[p].ino)]
    /\ IF ~(SameSnapshot(Stat(file, before[p].ino), Current) /\ file[before[p].ino].ok)
       THEN Return(p, "failed", "none")
       ELSE IF req[p].check THEN Return(p, "would", "none") ELSE Advance(p, "mkdir")
    /\ UNCHANGED <<disk, req, before, private, theirs, bounds>>

MakeQuarantine(p) ==
    /\ pc[p] = "mkdir"
    /\ quarantine' = [quarantine EXCEPT ![p] = TRUE]
    /\ Advance(p, "link")
    /\ UNCHANGED <<disk, req, before, final, verified, moved, theirs, bounds>>

\* The inode still has a name that the model knows of.
Named(i) == i = target \/ \E q \in Removers : i \in {verified[q], moved[q]}

\* _preserve_open_file: link the open inode, then stat the link.  An inode
\* without a name cannot be linked (another program may have given it one);
\* a link whose identity differs is removed again, and one that cannot be
\* inspected stays behind.
PreserveOpenFile(p) ==
    /\ pc[p] = "link"
    /\ \/ /\ file' = Relinked(file, {before[p].ino})
          /\ IF SameIdentity(Stat(file, before[p].ino), final[p])
             THEN /\ verified' = [verified EXCEPT ![p] = before[p].ino]
                  /\ Advance(p, "rename") /\ UNCHANGED quarantine
             ELSE /\ Swept(p, {moved[p]}) /\ UNCHANGED verified
                  /\ Return(p, "failed", "none")
          /\ UNCHANGED faults
       \/ /\ ~Named(before[p].ino)
          /\ Swept(p, {moved[p]}) /\ UNCHANGED <<file, verified, faults>>
          /\ Return(p, "failed", "none")
       \/ /\ file' = Relinked(file, {before[p].ino})
          /\ Fault
          /\ verified' = [verified EXCEPT ![p] = before[p].ino]
          /\ Return(p, "failed", "none") /\ UNCHANGED quarantine
    /\ UNCHANGED <<target, bound, req, before, final, moved, theirs, foreign>>

\* Mutant: a path that is already gone counts as removed.
RenameAwayOrGone(p) ==
    /\ pc[p] = "rename"
    /\ IF target = NoFile
       THEN Advance(p, "forget") /\ UNCHANGED <<moved, target, file>>
       ELSE /\ moved' = [moved EXCEPT ![p] = target] /\ target' = NoFile
            /\ file' = Relinked(file, {target}) /\ Advance(p, "inspect")
    /\ UNCHANGED <<bound, req, before, final, quarantine, verified, theirs, bounds>>

\* Mutant: the failed rename is reported with the name it did not create.
RenameAwayMisreported(p) ==
    /\ pc[p] = "rename"
    /\ IF target = NoFile
       THEN Return(p, "failed", "target") /\ UNCHANGED <<moved, target, file>>
       ELSE /\ moved' = [moved EXCEPT ![p] = target] /\ target' = NoFile
            /\ file' = Relinked(file, {target}) /\ Advance(p, "inspect")
    /\ UNCHANGED <<bound, req, before, final, quarantine, verified, theirs, bounds>>

\* os.rename of the path's entry, whatever it is by now, into the quarantine.
RenameAway(p) ==
    /\ pc[p] = "rename"
    /\ \/ /\ target # NoFile
          /\ moved' = [moved EXCEPT ![p] = target]
          /\ target' = NoFile
          /\ file' = Relinked(file, {target})
          /\ Advance(p, "inspect") /\ UNCHANGED faults
       \/ /\ \/ target = NoFile /\ UNCHANGED faults
             \/ Fault
          /\ Return(p, "failed", "verified")
          /\ UNCHANGED <<moved, target, file>>
    /\ UNCHANGED <<bound, req, before, final, quarantine, verified, theirs, foreign>>

Moved(p) == Stat(file, moved[p])

Inspect(p) ==
    /\ pc[p] = "inspect"
    /\ \/ /\ Advance(p, IF SameIdentity(final[p], Moved(p)) THEN "recheck" ELSE "restore")
          /\ UNCHANGED faults
       \/ Fault /\ Advance(p, "restore")
    /\ UNCHANGED <<disk, req, before, final, private, theirs, foreign>>

\* Mutant: the captured file is not read again.
RecheckIdentity(p) ==
    /\ pc[p] = "recheck"
    /\ Advance(p, IF SameIdentity(final[p], Moved(p)) THEN "remove" ELSE "restore")
    /\ UNCHANGED <<disk, req, before, final, private, theirs, bounds>>

Recheck(p) ==
    /\ pc[p] = "recheck"
    /\ \/ /\ Advance(p, IF /\ SameIdentity(final[p], Moved(p))
                           /\ file[moved[p]].ok
                           /\ file[before[p].ino].content = req[p].checksum
                        THEN "remove" ELSE "restore")
          /\ UNCHANGED faults
       \/ Fault /\ Advance(p, "restore")
    /\ UNCHANGED <<disk, req, before, final, private, theirs, foreign>>

\* Mutant: the captured entry stays in the quarantine.
RestoreNothing(p) ==
    /\ pc[p] = "restore" /\ Return(p, "failed", "verified")
    /\ UNCHANGED <<disk, req, before, final, private, theirs, bounds>>

\* Mutant: the recovery does not say where the entry is.
RestoreSilently(p) ==
    /\ pc[p] = "restore" /\ Return(p, "failed", "none")
    /\ IF target = NoFile
       THEN /\ target' = moved[p] /\ file' = Relinked(file, {moved[p]})
            /\ moved' = [moved EXCEPT ![p] = NoFile]
       ELSE UNCHANGED <<target, file, moved>>
    /\ UNCHANGED <<bound, req, before, final, quarantine, verified, theirs, bounds>>

\* Mutant: the captured entry is renamed back over whatever is there.
RestoreOver(p) ==
    /\ pc[p] = "restore" /\ Return(p, "failed", "verified")
    /\ target' = moved[p] /\ file' = Relinked(file, {moved[p]})
    /\ moved' = [moved EXCEPT ![p] = NoFile]
    /\ UNCHANGED <<bound, req, before, final, quarantine, verified, theirs, bounds>>

\* _recover_quarantine: link the entry back where nothing has taken its place,
\* then drop it from the quarantine.  "verified" is still there, so the rmdir
\* after it and the one in the finally clause fail.
Restore(p) ==
    /\ pc[p] = "restore"
    /\ \/ /\ target = NoFile
          /\ target' = moved[p]
          /\ file' = Relinked(file, {moved[p]})
          /\ \/ moved' = [moved EXCEPT ![p] = NoFile] /\ UNCHANGED faults
             \/ Fault /\ UNCHANGED moved
       \/ /\ \/ target # NoFile /\ UNCHANGED faults
             \/ Fault
          /\ UNCHANGED <<target, file, moved>>
    /\ Return(p, "failed", "verified")
    /\ UNCHANGED <<bound, req, before, final, quarantine, verified, theirs, foreign>>

RemoveMoved(p) ==
    /\ pc[p] = "remove"
    /\ \/ /\ moved' = [moved EXCEPT ![p] = NoFile]
          /\ Advance(p, "forget") /\ UNCHANGED faults
       \/ Fault /\ Advance(p, "restore") /\ UNCHANGED moved
    /\ UNCHANGED <<disk, req, before, final, quarantine, verified, theirs, foreign>>

\* The removal is done; failing to drop the recovery copy is a warning.
ForgetVerified(p) ==
    /\ pc[p] = "forget"
    /\ \/ /\ verified' = [verified EXCEPT ![p] = NoFile]
          /\ Advance(p, "rmdir") /\ UNCHANGED faults
       \/ Fault /\ Return(p, "changed", "verified") /\ UNCHANGED verified
    /\ UNCHANGED <<disk, req, before, final, quarantine, moved, theirs, foreign>>

\* Close and rmdir.  A failed rmdir is a warning.  After a failed close the
\* result is a failure, the finally clause closes the same descriptor again, and
\* that error ends the process before its rmdir.
RemoveQuarantine(p) ==
    /\ pc[p] = "rmdir"
    /\ \/ /\ \/ Swept(p, {moved[p], verified[p]}) /\ UNCHANGED faults
             \/ Fault /\ UNCHANGED quarantine
          /\ Return(p, "changed", "none")
       \/ /\ Fault /\ Go(p, "dead")
          /\ result' = [result EXCEPT ![p] = "failed"]
          /\ UNCHANGED <<report, quarantine>>
    /\ UNCHANGED <<disk, req, before, final, verified, moved, theirs, foreign>>

\* Any other system call fails: "atomic unlink failed", then the finally clause.
OtherFault(p) ==
    /\ pc[p] \in {"stat", "open", "sum", "last", "mkdir", "link"}
    /\ Fault
    /\ Return(p, "failed", "none")
    /\ Swept(p, {verified[p], moved[p]})
    /\ UNCHANGED <<disk, req, before, final, verified, moved, theirs, foreign>>

Step(p) ==
    \/ Begin(p) \/ StatEntry(p) \/ Open(p) \/ Sum(p) \/ LastLook(p)
    \/ MakeQuarantine(p) \/ PreserveOpenFile(p) \/ RenameAway(p) \/ Inspect(p)
    \/ Recheck(p) \/ Restore(p) \/ RemoveMoved(p) \/ ForgetVerified(p)
    \/ RemoveQuarantine(p) \/ OtherFault(p)
----------------------------------------------------------------------------
(* Other programs *)

Foreign == foreign < MaxForeign /\ foreign' = foreign + 1
elsewhere == <<pc, req, before, final, private, outcome, faults>>

ForeignReplace ==
    /\ Foreign
    /\ \E c \in Contents : file' = Append(file, FreshNode(c, TRUE))
    /\ target' = Len(file) + 1
    /\ theirs' = (theirs \ {target}) \cup {target'}
    /\ UNCHANGED <<bound, elsewhere>>

ForeignRewrite ==
    /\ Foreign /\ target # NoFile
    /\ \E c \in Contents, dv \in {0, 1} : file' = Rewritten(file, target, c, dv)
    /\ theirs' = theirs \cup {target}
    /\ UNCHANGED <<target, bound, elsewhere>>

ForeignDelete ==
    /\ Foreign /\ target # NoFile
    /\ target' = NoFile /\ theirs' = theirs \ {target}
    /\ UNCHANGED <<file, bound, elsewhere>>

MoveParent ==
    /\ Foreign
    /\ bound' = ~bound
    /\ UNCHANGED <<file, target, theirs, elsewhere>>

Kill(p) ==
    /\ pc[p] \notin {"begin", "done", "dead"}
    /\ Go(p, "dead")
    /\ UNCHANGED <<disk, req, before, final, private, outcome, theirs, bounds>>

Environment ==
    \/ ForeignReplace \/ ForeignRewrite \/ ForeignDelete \/ MoveParent
    \/ \E p \in Removers : Kill(p)

Terminated == (\A p \in Removers : pc[p] \in {"done", "dead"}) /\ UNCHANGED vars

Next == (\E p \in Removers : Step(p)) \/ Environment \/ Terminated

Spec == Init /\ [][Next]_vars
----------------------------------------------------------------------------
Ids == 0 .. Len(file)

\* Every variable keeps its type; an inode number is 0 or allocated.
TypeOK ==
    /\ file \in Seq(Node) /\ target \in Ids /\ bound \in BOOLEAN
    /\ pc \in [Removers -> Steps] /\ req \in [Removers -> Requests]
    /\ before \in [Removers -> StatResult] /\ final \in [Removers -> StatResult]
    /\ quarantine \in [Removers -> BOOLEAN]
    /\ verified \in [Removers -> Ids] /\ moved \in [Removers -> Ids]
    /\ result \in [Removers -> Results] /\ report \in [Removers -> Reports]
    /\ theirs \subseteq 1 .. Len(file) /\ foreign \in Nat /\ faults \in Nat

\* No file disappears because of a remover, unless that remover found in it
\* the checksum its caller gave: a file another program put or rewrote at the
\* path is still there or in a quarantine.
Removed(p, i) ==
    /\ before[p].ino = i /\ file[i].content = req[p].checksum
    /\ pc[p] \in {"forget", "rmdir", "dead"} \/ result[p] = "changed"
Held(i) ==
    \/ i = target
    \/ \E p \in Removers : quarantine[p] /\ i \in {verified[p], moved[p]}
    \/ \E p \in Removers : Removed(p, i)
NoSilentLoss == \A i \in theirs : Held(i)

\* A captured entry that is not removed goes back to the path, unless another
\* program has put something there (or a system call fails).
RestoresWhenFree ==
    [][\A p \in Removers : result[p] = "running" /\ result'[p] = "failed"
         /\ moved'[p] # NoFile /\ faults' = 0 => target' # NoFile]_vars

\* A remover that returns says where what it leaves behind is, as long as no
\* system call fails.
LeftoversReported ==
    \A p \in Removers : pc[p] = "done" /\ report[p] = "none" /\ faults = 0 =>
        ~quarantine[p] /\ verified[p] = NoFile /\ moved[p] = NoFile

\* A file is removed once: two removers never both report its removal.
RemovedOnce ==
    \A p, q \in Removers :
        p # q /\ result[p] = "changed" /\ result[q] = "changed" =>
            before[p].ino # before[q].ino

\* "recovery_path: descriptor-stable quarantine path" (RETURN): the reported
\* path leads to the quarantine when it is reported.  The code joins the
\* caller's dirname(path), which leads elsewhere once the parent was renamed.
DescriptorStableRecovery ==
    [][\A p \in Removers : report[p] = "none" /\ report'[p] = "verified" => bound]_vars
================================================================================
