------------------------------- MODULE AtomicPath -------------------------------
(***************************************************************************)
(* plugins/modules/atomic_path.py, state=file: one verified replacement or *)
(* creation of one directory entry.                                        *)
(*                                                                         *)
(* Several module invocations (Writers) act on the same entry of the same  *)
(* parent directory, together with other programs that replace, rewrite,   *)
(* link or delete the entry by name, rename the parent directory, kill a   *)
(* writer or cut the power.  A writer's private workspace is reached by    *)
(* nobody else (mode 0700; a hostile process with the same UID is outside  *)
(* the module's isolation boundary).                                       *)
(*                                                                         *)
(* One step of a writer is one system call, or a group of calls that no    *)
(* other process can get between with a visible effect.  Every `raise` of  *)
(* _write_file is Abort, which is its `except` clause.                     *)
(***************************************************************************)
EXTENDS FileEntries, FiniteSets

CONSTANTS
    Writers,     \* module invocations
    Requests,    \* the parameter sets they can be called with
    NoSum,       \* expected_checksum is omitted
    NoWriter,    \* nobody holds the flock
    DirSync,     \* the filesystem supports fsync on a directory
    MaxForeign,  \* bound: steps of other programs
    MaxFaults    \* bound: system calls that fail

ASSUME RequestAssumption ==
    /\ NoSum \notin Contents /\ Torn # NoSum /\ NoWriter \notin Writers
    /\ Requests \subseteq [desired : Contents, expected : Contents \cup {NoSum},
                           allowAbsent : BOOLEAN, check : BOOLEAN]
ASSUME BoundAssumption == MaxForeign \in Nat /\ MaxFaults \in Nat
ASSUME DirSyncAssumption == DirSync \in BOOLEAN

VARIABLES
    \* The directory and the disk
    file,       \* the inode table
    target,     \* the entry `name` of the parent directory
    durable,    \* the entries that `name` can have after a power loss
    bound,      \* the canonical parent path leads to the parent directory
    lock,       \* the holder of the flock on the parent directory
    \* One invocation of _write_file
    pc,         \* its next step
    req,        \* its parameters
    before,     \* before: the entry it verified, or None
    mine,       \* the staged payload's inode (descriptor), 0 before os.open
    staged,     \* staged_identity
    displaced,  \* displaced_identity
    final,      \* installed_details, then final: the installed entry
    observed,   \* the first stat of _revalidated_entry
    ws,         \* the private workspace exists
    payload,    \* the workspace entry "payload"
    failed,     \* the workspace entry "failed"
    installed,  \* installed
    failure,    \* failure is not None
    keep,       \* preserve_workspace with recovery_name
    result,     \* what the module returned
    report,     \* the recovery_path it returned
    \* Observation and bounds
    theirs,     \* the files other programs have put here and not removed
    foreign, faults

disk == <<file, target, durable, bound>>
private == <<ws, payload, failed>>
local == <<before, mine, staged, displaced, final, observed, installed>>
outcome == <<failure, keep, result, report>>
vars == <<disk, lock, pc, req, local, private, outcome, theirs, foreign, faults>>

\* The steps inside the try block, whose OSErrors reach the except clause.
Guarded == {"payload", "write", "flush", "install", "syncws", "vdisp", "stat",
            "vinst", "sync", "restat", "canon1", "canon2", "discard"}
\* The steps before the workspace exists: an OSError is reported by main().
Early == {"probe", "open", "sum", "confirm", "noop1", "noop2", "mkws"}
Late == {"rollback", "vcap", "close", "rmws", "post1", "post2"}
Steps == {"begin", "done", "dead"} \cup Early \cup Guarded \cup Late

Keeps == {"no", "root", "payload", "failed"}
\* "none" and "lost" are results without a recovery_path.
Reports == {"none", "lost", "root", "payload", "failed", "target"}
Results == {"running", "unchanged", "would", "changed", "failed"}

New == Len(file) + 1
Current(p) == Stat(file, target)
----------------------------------------------------------------------------
Init ==
    /\ \E c \in Contents, ok \in BOOLEAN :
         \/ file = <<>> /\ target = NoFile /\ theirs = {}
         \/ file = <<FreshNode(c, ok)>> /\ target = 1 /\ theirs = {1}
    /\ durable = {target} /\ bound = TRUE /\ lock = NoWriter
    /\ req \in [Writers -> Requests]
    /\ pc = [p \in Writers |-> "begin"]
    /\ before = [p \in Writers |-> NoStat] /\ staged = before
    /\ displaced = before /\ final = before /\ observed = before
    /\ mine = [p \in Writers |-> NoFile] /\ payload = mine /\ failed = mine
    /\ ws = [p \in Writers |-> FALSE] /\ installed = ws /\ failure = ws
    /\ keep = [p \in Writers |-> "no"]
    /\ result = [p \in Writers |-> "running"]
    /\ report = [p \in Writers |-> "none"]
    /\ foreign = 0 /\ faults = 0

Go(p, step) == pc' = [pc EXCEPT ![p] = step]
\* Mutant: a forked child keeps the locked descriptor open.
ReleaseLeaked(p) == UNCHANGED lock
Release(p) == lock' = IF lock = p THEN NoWriter ELSE lock

\* module.exit_json / module.fail_json, and the end of the process, which
\* closes the parent descriptor and with it releases the flock.
Return(p, res, path) ==
    /\ Go(p, "done") /\ Release(p)
    /\ result' = [result EXCEPT ![p] = res]
    /\ report' = [report EXCEPT ![p] = path]

Exit(p, res) ==
    /\ Return(p, res, "none")
    /\ UNCHANGED <<failure, keep>>

\* The step needs n failing system calls.
Spent(n) == faults + n <= MaxFaults /\ faults' = faults + n

\* A failure whose recovery_path is joined to _descriptor_path(parent).  When no
\* readlink gives the parent's path (counted as one failing call), its OSError
\* takes the place of the result and main() reports it without recovery_path.
FailNaming(p, path, n) ==
    \/ Spent(n) /\ Return(p, "failed", path)
    \/ Spent(n + 1) /\ Return(p, "failed", "lost")

\* A step that only moves on.
Advance(p, step) == Go(p, step) /\ UNCHANGED <<lock, outcome>>

\* The except clause of _write_file.
Abort(p) ==
    /\ failure' = [failure EXCEPT ![p] = TRUE]
    /\ Go(p, IF installed[p] /\ before[p] = NoStat THEN "rollback" ELSE "close")
    /\ keep' = [keep EXCEPT ![p] =
                  IF installed[p] /\ before[p] # NoStat THEN "payload" ELSE @]
    /\ UNCHANGED <<lock, result, report>>

\* Continue when the check holds, else raise.
Require(p, check, step) ==
    IF check THEN Advance(p, step) ELSE Abort(p)
----------------------------------------------------------------------------
(* Before the workspace exists: nothing is changed, every failure is final. *)

bounds == <<foreign, faults>>
observer == <<theirs, bounds>>
unread == <<disk, private, req, observer>>   \* what the early steps leave alone
locals == <<before, mine, staged, displaced, installed>>

\* Mutant: no flock.
BeginUnlocked(p) ==
    /\ pc[p] = "begin"
    /\ \/ bound /\ lock' = p /\ Go(p, "probe") /\ UNCHANGED outcome
       \/ ~bound /\ Exit(p, "failed")
    /\ UNCHANGED <<unread, local>>

\* _open_bound_directory and _require_exclusive_parent.
Begin(p) ==
    /\ pc[p] = "begin"
    /\ \/ bound /\ lock = NoWriter /\ lock' = p /\ Go(p, "probe")
          /\ UNCHANGED outcome
       \/ ~(bound /\ lock = NoWriter) /\ Exit(p, "failed")
    /\ UNCHANGED <<unread, local>>

\* Where an entry that may be replaced, or an absence that may be filled, leads.
Commit(p) == IF req[p].check THEN Exit(p, "would") ELSE Advance(p, "mkws")

Probe(p) ==
    /\ pc[p] = "probe"
    /\ before' = [before EXCEPT ![p] = Current(p)]
    /\ IF target = NoFile
       THEN IF req[p].allowAbsent THEN Commit(p) ELSE Exit(p, "failed")
       ELSE IF file[target].ok /\ req[p].expected # NoSum
            THEN Advance(p, "open") ELSE Exit(p, "failed")
    /\ UNCHANGED <<unread, mine, staged, displaced, final, observed, installed>>

\* os.open of the entry, fstat against the first stat.
Open(p) ==
    /\ pc[p] = "open"
    /\ IF SameSnapshot(Current(p), before[p])
       THEN Advance(p, "sum") ELSE Exit(p, "failed")
    /\ UNCHANGED <<unread, local>>

Sum(p) ==
    /\ pc[p] = "sum"
    /\ IF file[before[p].ino].content = req[p].expected
       THEN Advance(p, "confirm") ELSE Exit(p, "failed")
    /\ UNCHANGED <<unread, local>>

\* final_bound, then the no-op, check-mode and mutation paths.
Confirm(p) ==
    /\ pc[p] = "confirm"
    /\ IF ~SameSnapshot(Stat(file, before[p].ino), before[p])
       THEN Exit(p, "failed")
       ELSE IF req[p].expected = req[p].desired
            THEN Advance(p, "noop1") ELSE Commit(p)
    /\ UNCHANGED <<unread, local>>

\* _revalidated_entry reads the entry below two fresh opens of the canonical
\* parent path and compares the two reads.

FirstRead(p) == observed' = [observed EXCEPT ![p] = Current(p)]

\* Mutant: the second read is compared without its ctime.
SecondReadIdentity(p, expected) ==
    bound /\ target # NoFile /\ SameIdentity(Current(p), expected)

SecondReadIs(p, expected) ==
    /\ bound
    /\ SameSnapshot(observed[p], Current(p))
    /\ target # NoFile
    /\ SameSnapshot(Current(p), expected)

Noop1(p) ==
    /\ pc[p] = "noop1"
    /\ FirstRead(p)
    /\ IF bound THEN Advance(p, "noop2") ELSE Exit(p, "failed")
    /\ UNCHANGED <<unread, locals, final>>

Noop2(p) ==
    /\ pc[p] = "noop2"
    /\ Exit(p, IF SecondReadIs(p, before[p]) THEN "unchanged" ELSE "failed")
    /\ UNCHANGED <<unread, local>>

\* _private_workspace; a creation it can neither use nor remove is preserved.
MakeWorkspace(p) ==
    /\ pc[p] = "mkws"
    /\ ws' = [ws EXCEPT ![p] = TRUE]
    /\ \/ Advance(p, "payload") /\ UNCHANGED faults
       \/ FailNaming(p, "root", 1) /\ UNCHANGED <<failure, keep>>
    /\ UNCHANGED <<disk, payload, failed, req, local, theirs, foreign>>

\* Any system call before the try block fails.
EarlyFault(p) ==
    /\ pc[p] \in Early
    /\ faults < MaxFaults /\ faults' = faults + 1
    /\ Exit(p, "failed")
    /\ UNCHANGED <<disk, private, req, local, theirs, foreign>>
----------------------------------------------------------------------------
(* Inside the try block *)

GuardedFault(p) ==
    /\ pc[p] \in Guarded
    /\ faults < MaxFaults /\ faults' = faults + 1
    /\ Abort(p)
    /\ UNCHANGED <<disk, private, req, local, theirs, foreign>>

CreatePayload(p) ==
    /\ pc[p] = "payload"
    /\ file' = Append(file, [content |-> Torn, ver |-> 0, ctime |-> 0,
                             ok |-> FALSE, synced |-> FALSE])
    /\ mine' = [mine EXCEPT ![p] = New]
    /\ payload' = [payload EXCEPT ![p] = New]
    /\ Advance(p, "write")
    /\ UNCHANGED <<target, durable, bound, req, before, staged, displaced, final,
                   observed, installed, ws, failed, observer>>

\* The os.write loop.
WritePayload(p) ==
    /\ pc[p] = "write"
    /\ file' = Rewritten(file, mine[p], req[p].desired, 1)
    /\ Advance(p, "flush")
    /\ UNCHANGED <<target, durable, bound, req, local, private, observer>>

\* Mutant: the payload is not fsynced.
FlushPayloadUnsynced(p) ==
    /\ pc[p] = "flush"
    /\ file' = [file EXCEPT ![mine[p]].ok = TRUE,
                            ![mine[p]].ver = @ + 1, ![mine[p]].ctime = @ + 1]
    /\ staged' = [staged EXCEPT ![p] = Stat(file', mine[p])]
    /\ Advance(p, "install")
    /\ UNCHANGED <<target, durable, bound, req, before, mine, displaced, final,
                   observed, installed, private, observer>>

\* fsync, fchown, fchmod, fsync, fstat.
FlushPayload(p) ==
    /\ pc[p] = "flush"
    /\ file' = [file EXCEPT ![mine[p]].synced = TRUE, ![mine[p]].ok = TRUE,
                            ![mine[p]].ver = @ + 1, ![mine[p]].ctime = @ + 1]
    /\ staged' = [staged EXCEPT ![p] = Stat(file', mine[p])]
    /\ Advance(p, "install")
    /\ UNCHANGED <<target, durable, bound, req, before, mine, displaced, final,
                   observed, installed, private, observer>>

\* _renameat: noreplace onto an absent entry, exchange with an existing one.
Install(p) ==
    /\ pc[p] = "install"
    /\ IF (before[p] = NoStat) = (target = NoFile)
       THEN /\ target' = mine[p]
            /\ payload' = [payload EXCEPT ![p] = target]
            /\ file' = Relinked(file, {mine[p], target})
            /\ durable' = durable \cup {mine[p]}
            /\ installed' = [installed EXCEPT ![p] = TRUE]
            /\ Advance(p, IF before[p] = NoStat THEN "stat" ELSE "syncws")
       ELSE Abort(p) /\ UNCHANGED <<target, payload, file, durable, installed>>
    /\ UNCHANGED <<bound, req, before, mine, staged, displaced, final, observed,
                   ws, failed, observer>>

\* fsync of the workspace, stat of the displaced entry.
SyncWorkspace(p) ==
    /\ pc[p] = "syncws"
    /\ displaced' = [displaced EXCEPT ![p] = Stat(file, payload[p])]
    /\ Advance(p, "vdisp")
    /\ UNCHANGED <<unread, before, mine, staged, final, observed, installed>>

\* Mutant: the displaced entry is trusted without reading it.
VerifyDisplacedUnread(p) ==
    /\ pc[p] = "vdisp" /\ Advance(p, "stat")
    /\ UNCHANGED <<unread, local>>

VerifyDisplaced(p) ==
    /\ pc[p] = "vdisp"
    /\ Require(p, /\ SameIdentity(Stat(file, payload[p]), before[p])
                  /\ file[payload[p]].content = req[p].expected, "stat")
    /\ UNCHANGED <<unread, local>>

StatInstalled(p) ==
    /\ pc[p] = "stat"
    /\ final' = [final EXCEPT ![p] = Current(p)]
    /\ Require(p, SameIdentity(Current(p), staged[p]), "vinst")
    /\ UNCHANGED <<unread, locals, observed>>

\* _verified_descriptor on the staged descriptor.
VerifyInstalled(p) ==
    /\ pc[p] = "vinst"
    /\ Require(p, /\ SameSnapshot(Stat(file, mine[p]), final[p])
                  /\ file[mine[p]].content = req[p].desired, "sync")
    /\ UNCHANGED <<unread, local>>

\* Mutant: the parent directory is not fsynced.
SyncParentSkipped(p) ==
    /\ pc[p] = "sync" /\ Advance(p, "restat")
    /\ UNCHANGED <<unread, local>>

SyncParent(p) ==
    /\ pc[p] = "sync"
    /\ durable' = IF DirSync THEN {target} ELSE durable
    /\ Advance(p, "restat")
    /\ UNCHANGED <<file, target, bound, req, local, private, observer>>

Restat(p) ==
    /\ pc[p] = "restat"
    /\ Require(p, SameSnapshot(Current(p), final[p]), "canon1")
    /\ UNCHANGED <<unread, local>>

Canon1(p) ==
    /\ pc[p] = "canon1"
    /\ FirstRead(p)
    /\ Require(p, bound, "canon2")
    /\ UNCHANGED <<unread, locals, final>>

Canon2(p) ==
    /\ pc[p] = "canon2"
    /\ Require(p, SecondReadIs(p, final[p]), "discard")
    /\ UNCHANGED <<unread, local>>

\* _remove_private_if_same on the displaced entry.
Discard(p) ==
    /\ pc[p] = "discard"
    /\ payload' = [payload EXCEPT ![p] = NoFile]
    /\ Advance(p, "close")
    /\ UNCHANGED <<disk, ws, failed, req, local, observer>>
----------------------------------------------------------------------------
(* The except clause's rollback of a creation, and the finally clause *)

Preserve(p, what) == keep' = [keep EXCEPT ![p] = what]

\* Mutant: an entry that has disappeared is waited for.
RollbackWaiting(p) ==
    /\ pc[p] = "rollback" /\ target # NoFile
    /\ failed' = [failed EXCEPT ![p] = target]
    /\ target' = NoFile /\ file' = Relinked(file, {target})
    /\ durable' = durable \cup {NoFile}
    /\ Advance(p, "vcap")
    /\ UNCHANGED <<bound, ws, payload, req, local, observer>>

\* _capture_and_remove, first half: the entry, whatever it is by now, is moved
\* into the workspace.  A failed move leaves the state uncertain.
Rollback(p) ==
    /\ pc[p] = "rollback"
    /\ \/ /\ target # NoFile
          /\ failed' = [failed EXCEPT ![p] = target]
          /\ target' = NoFile
          /\ file' = Relinked(file, {target})
          /\ durable' = durable \cup {NoFile}
          /\ Advance(p, "vcap")
          /\ UNCHANGED faults
       \/ /\ \/ target = NoFile /\ UNCHANGED faults
             \/ faults < MaxFaults /\ faults' = faults + 1
          /\ Preserve(p, "root") /\ Go(p, "close")
          /\ UNCHANGED <<target, durable, file, failed, lock, failure, result, report>>
    /\ UNCHANGED <<bound, ws, payload, req, local, theirs, foreign>>

CapturedIsMine(p) ==
    /\ SameIdentity(Stat(file, failed[p]), staged[p])
    /\ file[failed[p]].content = req[p].desired

\* _capture_and_remove, second half: only the own payload is removed.
VerifyCaptured(p) ==
    /\ pc[p] = "vcap" /\ Go(p, "close")
    /\ \/ /\ CapturedIsMine(p)
          /\ failed' = [failed EXCEPT ![p] = NoFile]
          /\ installed' = [installed EXCEPT ![p] = FALSE]
          /\ UNCHANGED <<keep, faults>>
       \/ /\ ~CapturedIsMine(p)
          /\ Preserve(p, "failed")
          /\ UNCHANGED <<failed, installed, faults>>
       \/ /\ faults < MaxFaults /\ faults' = faults + 1
          /\ Preserve(p, "failed")
          /\ \/ UNCHANGED installed                     \* stat or read failed
             \/ /\ CapturedIsMine(p)                    \* unlink failed
                /\ installed' = [installed EXCEPT ![p] = FALSE]
          /\ UNCHANGED failed
    /\ UNCHANGED <<disk, lock, ws, payload, req, before, mine, staged, displaced,
                   final, observed, failure, result, report, theirs, foreign>>

\* Mutant: whatever the workspace holds as "payload" is removed.
AnyPayloadRemoved(p) ==
    mine[p] # NoFile /\ keep[p] # "failed" /\ payload[p] # NoFile

\* The payload that was never installed is removed by its own identity.
OwnPayloadRemoved(p) ==
    ~installed[p] /\ mine[p] # NoFile /\ keep[p] # "failed" /\ payload[p] = mine[p]

\* Close the descriptor, remove an uninstalled payload, close the workspace.
\* A failed close of the descriptor forgets which entry was to be named.
Close(p) ==
    /\ pc[p] = "close" /\ Go(p, "rmws")
    /\ \/ /\ payload' = IF OwnPayloadRemoved(p)
                        THEN [payload EXCEPT ![p] = NoFile] ELSE payload
          /\ \/ UNCHANGED <<keep, failure, faults>>
             \/ /\ faults < MaxFaults /\ faults' = faults + 1
                /\ \E forget \in {~installed[p], FALSE} :
                     keep' = [keep EXCEPT ![p] =
                                IF forget \/ @ = "no" THEN "root" ELSE @]
                /\ failure' = [failure EXCEPT ![p] = TRUE]
       \/ /\ ~installed[p] /\ mine[p] # NoFile      \* fstat or unlink fails
          /\ faults < MaxFaults /\ faults' = faults + 1
          /\ Preserve(p, "payload")
          /\ UNCHANGED <<payload, failure>>
    /\ UNCHANGED <<disk, lock, ws, failed, req, local, result, report, theirs, foreign>>

\* Mutant: every failure names a recovery path, preserved or not.
RemoveWorkspaceNaming(p) ==
    /\ pc[p] = "rmws"
    /\ IF failure[p] \/ keep[p] # "no"
       THEN Return(p, "failed", keep[p]) /\ UNCHANGED <<ws, faults>>
       ELSE /\ ws' = [ws EXCEPT ![p] = FALSE]
            /\ Go(p, "post1") /\ UNCHANGED <<lock, result, report, faults>>
    /\ UNCHANGED <<disk, payload, failed, req, local, failure, keep, theirs, foreign>>

WorkspaceEmpty(p) == payload[p] = NoFile /\ failed[p] = NoFile

\* rmdir of a workspace that need not be preserved; it must be empty.
RemoveWorkspace(p) ==
    /\ pc[p] = "rmws"
    /\ \/ keep[p] # "no" /\ FailNaming(p, keep[p], 0) /\ UNCHANGED ws
       \/ /\ keep[p] = "no" /\ WorkspaceEmpty(p)
          /\ ws' = [ws EXCEPT ![p] = FALSE]
          /\ IF failure[p] THEN Return(p, "failed", "none")
             ELSE Go(p, "post1") /\ UNCHANGED <<lock, result, report>>
          /\ UNCHANGED faults
       \/ /\ keep[p] = "no"
          /\ FailNaming(p, "root", IF WorkspaceEmpty(p) THEN 1 ELSE 0)
          /\ UNCHANGED ws
    /\ UNCHANGED <<disk, payload, failed, req, local, failure, keep, theirs, foreign>>

\* Mutant: the last check fails like a check before the commit.
Post1Unreported(p) ==
    /\ pc[p] = "post1"
    /\ FirstRead(p)
    /\ IF bound THEN Advance(p, "post2") ELSE Exit(p, "failed")
    /\ UNCHANGED <<unread, locals, final>>

\* After private cleanup: _revalidated_entry once more; a mismatch is reported
\* as a failure after commit, with the target as the recovery path.
Post1(p) ==
    /\ pc[p] = "post1"
    /\ FirstRead(p)
    /\ IF bound THEN Advance(p, "post2") /\ UNCHANGED faults
       ELSE FailNaming(p, "target", 0) /\ UNCHANGED <<failure, keep>>
    /\ UNCHANGED <<disk, private, req, locals, final, theirs, foreign>>

Post2(p) ==
    /\ pc[p] = "post2"
    /\ IF SecondReadIs(p, final[p])
       THEN /\ Return(p, "changed", "none") /\ UNCHANGED faults
            /\ theirs' = theirs \cup {mine[p]}
       ELSE FailNaming(p, "target", 0) /\ UNCHANGED theirs
    /\ UNCHANGED <<disk, private, req, local, failure, keep, foreign>>

PostFault(p) ==
    /\ pc[p] \in {"post1", "post2"}
    /\ FailNaming(p, "target", 1)
    /\ UNCHANGED <<disk, private, req, local, failure, keep, theirs, foreign>>

Step(p) ==
    \/ Begin(p) \/ Probe(p) \/ Open(p) \/ Sum(p) \/ Confirm(p)
    \/ Noop1(p) \/ Noop2(p) \/ MakeWorkspace(p) \/ EarlyFault(p)
    \/ GuardedFault(p) \/ CreatePayload(p) \/ WritePayload(p) \/ FlushPayload(p)
    \/ Install(p) \/ SyncWorkspace(p) \/ VerifyDisplaced(p)
    \/ StatInstalled(p) \/ VerifyInstalled(p) \/ SyncParent(p) \/ Restat(p)
    \/ Canon1(p) \/ Canon2(p) \/ Discard(p)
    \/ Rollback(p) \/ VerifyCaptured(p) \/ Close(p) \/ RemoveWorkspace(p)
    \/ Post1(p) \/ Post2(p) \/ PostFault(p)
----------------------------------------------------------------------------
(* Other programs, and the ends no program chooses *)

Foreign == foreign < MaxForeign /\ foreign' = foreign + 1
elsewhere == <<lock, pc, req, local, private, outcome, faults>>

\* Another program renames a complete file of its own over the entry.
ForeignReplace ==
    /\ Foreign
    /\ \E c \in Contents, ok \in BOOLEAN : file' = Append(file, FreshNode(c, ok))
    /\ target' = New /\ durable' = durable \cup {New}
    /\ theirs' = (theirs \ {target}) \cup {New}
    /\ UNCHANGED <<bound, elsewhere>>

\* It rewrites the entry's file in place, perhaps restoring its timestamps.
ForeignRewrite ==
    /\ Foreign /\ target # NoFile
    /\ \E c \in Contents, dv \in {0, 1} : file' = Rewritten(file, target, c, dv)
    /\ theirs' = theirs \cup {target}
    /\ UNCHANGED <<target, durable, bound, elsewhere>>

\* It links the entry elsewhere, or moves it away and back.
ForeignLink ==
    /\ Foreign /\ target # NoFile
    /\ file' = Relinked(file, {target})
    /\ UNCHANGED <<target, durable, bound, theirs, elsewhere>>

ForeignDelete ==
    /\ Foreign /\ target # NoFile
    /\ target' = NoFile /\ durable' = durable \cup {NoFile}
    /\ theirs' = theirs \ {target}
    /\ UNCHANGED <<file, bound, elsewhere>>

\* The parent directory is renamed, or put back.
MoveParent ==
    /\ Foreign
    /\ bound' = ~bound
    /\ UNCHANGED <<file, target, durable, theirs, elsewhere>>

\* A signal no handler sees; the kernel releases the flock.
Kill(p) ==
    /\ pc[p] \notin {"begin", "done", "dead"}
    /\ Go(p, "dead") /\ Release(p)
    /\ UNCHANGED <<disk, req, local, private, outcome, observer>>

\* Every process ends; unsynced data is torn and the entry is one of those the
\* directory has had since it was last synced.
PowerLoss ==
    /\ \E p \in Writers : pc[p] # "dead"
    /\ pc' = [p \in Writers |-> "dead"] /\ lock' = NoWriter
    /\ file' = [i \in DOMAIN file |->
                  IF file[i].synced THEN file[i] ELSE [file[i] EXCEPT !.content = Torn]]
    /\ \E entry \in durable : target' = entry /\ durable' = {entry}
    /\ theirs' = theirs \cap {target'}
    /\ UNCHANGED <<bound, req, local, private, outcome, bounds>>

Environment ==
    \/ ForeignReplace \/ ForeignRewrite \/ ForeignLink \/ ForeignDelete
    \/ MoveParent \/ PowerLoss \/ \E p \in Writers : Kill(p)

Terminated == (\A p \in Writers : pc[p] \in {"done", "dead"}) /\ UNCHANGED vars

Next == (\E p \in Writers : Step(p)) \/ Environment \/ Terminated

Spec == Init /\ [][Next]_vars

\* A scheduled process goes on until it returns or is killed.
FairSpec == Spec /\ \A p \in Writers : WF_vars(Step(p))
----------------------------------------------------------------------------
Ids == 0 .. Len(file)

\* Every variable keeps its type; an inode number is 0 or allocated.
TypeOK ==
    /\ file \in Seq(Node) /\ target \in Ids /\ durable \subseteq Ids
    /\ bound \in BOOLEAN /\ lock \in Writers \cup {NoWriter}
    /\ pc \in [Writers -> Steps] /\ req \in [Writers -> Requests]
    /\ before \in [Writers -> StatResult] /\ staged \in [Writers -> StatResult]
    /\ displaced \in [Writers -> StatResult] /\ final \in [Writers -> StatResult]
    /\ observed \in [Writers -> StatResult]
    /\ mine \in [Writers -> Ids] /\ payload \in [Writers -> Ids]
    /\ failed \in [Writers -> Ids]
    /\ ws \in [Writers -> BOOLEAN] /\ installed \in [Writers -> BOOLEAN]
    /\ failure \in [Writers -> BOOLEAN] /\ keep \in [Writers -> Keeps]
    /\ result \in [Writers -> Results] /\ report \in [Writers -> Reports]
    /\ theirs \subseteq 1 .. Len(file) /\ foreign \in Nat /\ faults \in Nat

\* "atomically replaces one regular file" (DOCUMENTATION): whoever opens the
\* path finds a complete file, at every step, after a kill and after a power
\* loss, whatever other programs do in between.
NoTornTarget == target # NoFile => file[target].content # Torn

\* No file another program put or rewrote at the path, and no file an earlier
\* writer reported as installed, disappears because of a writer: it is still
\* there, or in a workspace, or a writer has removed it after finding in it
\* exactly the content its caller expected to be replaced, or it is a writer's
\* own payload, rolled back with the writer's own content.
Held(i) ==
    \/ i = target
    \/ \E p \in Writers : ws[p] /\ i \in {payload[p], failed[p]}
    \/ \E p \in Writers :
         displaced[p].ino = i /\ file[i].content = req[p].expected
    \/ \E p \in Writers :
         ~installed[p] /\ mine[p] = i /\ file[i].content = req[p].desired
NoSilentLoss == \A i \in theirs : Held(i)

\* What a writer that has returned leaves behind: a workspace, an entry in it,
\* or, after a failure, its payload at the path.
Leaves(p) ==
    \/ ws[p] \/ payload[p] # NoFile \/ failed[p] # NoFile
    \/ result[p] = "failed" /\ mine[p] # NoFile /\ mine[p] = target

\* A writer that leaves something returns a recovery_path, unless it could not
\* read the path of the parent directory to compose one: no combination of
\* failing closes, unlinks, rmdirs, rollbacks and late checks forgets to ask
\* for it.
LeftoversReported ==
    \A p \in Writers : pc[p] = "done" /\ report[p] = "none" => ~Leaves(p)

\* changed=true is returned only when, at that moment, the canonical path leads
\* to the complete payload, the entry would survive a power loss, and the
\* workspace is gone.
ChangedIsCommitted ==
    [][\A p \in Writers : result[p] = "running" /\ result'[p] = "changed" =>
         /\ bound /\ target = mine[p]
         /\ file[target].content = req[p].desired
         /\ DirSync => durable = {target}
         /\ ~ws[p]]_vars

\* changed=false is returned only when the canonical path leads to a file with
\* the desired content and metadata.
UnchangedIsTruthful ==
    [][\A p \in Writers : result[p] = "running" /\ result'[p] = "unchanged" =>
         bound /\ target # NoFile /\ file[target].content = req[p].desired
               /\ file[target].ok]_vars

\* The flock keeps writers apart: when no other program touches the path and no
\* system call fails, no writer that got past its checks ever has to abort.
WritersApart == foreign = 0 /\ faults = 0 => \A p \in Writers : ~failure[p]

\* No step waits for another process (LOCK_NB), so each module run that has
\* started returns or is killed, and the flock is given back.
Finishes == \A p \in Writers : pc[p] = "probe" ~> pc[p] \in {"done", "dead"}
LockReturned == lock # NoWriter ~> lock = NoWriter
================================================================================
