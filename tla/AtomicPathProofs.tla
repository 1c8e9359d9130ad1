---------------------------- MODULE AtomicPathProofs ----------------------------
(***************************************************************************)
(* Theorems about AtomicPath for any writers, requests and contents:       *)
(* TypeCorrect, TargetNeverTorn, UnchangedTruthful, NoFileLost,            *)
(* LeftoversNamed, ChangedCommitted and WritersNeverAbort.                 *)
(*                                                                         *)
(* NoTornTarget is not inductive: an exchange makes the payload the target *)
(* and a power loss brings back any entry the directory has had.  The      *)
(* invariant proved, IInv, therefore says that every entry in `durable` is *)
(* complete and fsynced, that the payload is complete from its write on,   *)
(* and complete and fsynced when it is about to be installed.  It holds    *)
(* step by step because the file table only Evolves until the power fails, *)
(* and a power loss spares what was fsynced.                               *)
(*                                                                         *)
(* What happens to a file rests on OwnInv: which files a writer has at     *)
(* each step (Shape), that nobody else has them (Apart) and what it read   *)
(* in the one it displaced (Displaced).  changed=true rests on AllChecked, *)
(* what the ctime in `final` says of the payload; the last theorem on the  *)
(* flock (Locked) and on what a writer alone has seen (Calm).              *)
(***************************************************************************)
EXTENDS AtomicPath, TLAPS

----------------------------------------------------------------------------
(* The file table: what a new file, a rewrite and a relink leave of it.     *)
(* Evolves is what every step of a process guarantees the others: nothing   *)
(* disappears from the table, and a file whose ctime has not changed has    *)
(* not changed.                                                             *)

Inodes(table) == 1 .. Len(table)

Evolves(old, new) ==
    /\ new \in Seq(Node)
    /\ Len(old) <= Len(new)
    /\ \A i \in Inodes(old) :
         /\ old[i].ctime <= new[i].ctime
         /\ new[i].ctime = old[i].ctime => new[i] = old[i]
         /\ old[i].synced => new[i].synced
         /\ old[i].content # Torn => new[i].content # Torn

\* A power loss can tear neither the file nor leave it empty.
Whole(table, i) == i # NoFile => table[i].content # Torn /\ table[i].synced

\* A table that keeps its length and has nodes everywhere is a table.
LEMMA TableFromFunction ==
    ASSUME NEW n \in Nat, NEW f \in [1 .. n -> Node]
    PROVE  f \in Seq(Node) /\ Len(f) = n
    OBVIOUS

\* The fields of a node, and the nodes of a table.
LEMMA NodeType ==
    ASSUME NEW node \in Node
    PROVE  /\ node.content \in Contents \cup {Torn}
           /\ node.ver \in Nat /\ node.ctime \in Nat
           /\ node.ok \in BOOLEAN /\ node.synced \in BOOLEAN
    BY DEF Node

LEMMA TableType ==
    ASSUME NEW table \in Seq(Node)
    PROVE  /\ Len(table) \in Nat /\ DOMAIN table = Inodes(table)
           /\ \A i \in Inodes(table) : table[i] \in Node /\ table[i].ctime \in Nat
    BY NodeType DEF Inodes

LEMMA NodeTouched ==
    ASSUME NEW node \in Node
    PROVE  LET new == [node EXCEPT !.ctime = @ + 1]
           IN  /\ new \in Node /\ new.ctime = node.ctime + 1
               /\ new.content = node.content /\ new.synced = node.synced /\ new.ver = node.ver
    BY DEF Node

LEMMA NodeTorn ==
    ASSUME NEW node \in Node
    PROVE  [node EXCEPT !.content = Torn] \in Node
    BY DEF Node

\* A step that leaves the table alone.
LEMMA EvolvesByNothing ==
    ASSUME NEW table \in Seq(Node)
    PROVE  Evolves(table, table)
    BY TableType DEF Evolves

\* CreatePayload and ForeignReplace: a new file takes the next inode number.
LEMMA EvolvesByAppend ==
    ASSUME NEW table \in Seq(Node), NEW node \in Node
    PROVE  /\ Evolves(table, Append(table, node))
           /\ Len(Append(table, node)) = Len(table) + 1
           /\ Append(table, node)[Len(table) + 1] = node
<1>1. /\ Append(table, node) \in Seq(Node)
      /\ Len(Append(table, node)) = Len(table) + 1
      /\ Append(table, node)[Len(table) + 1] = node
    OBVIOUS
<1>2. \A i \in Inodes(table) : Append(table, node)[i] = table[i]
    BY DEF Inodes
<1> QED
    BY <1>1, <1>2, TableType DEF Evolves

\* The os.write loop and foreign rewrites: content, version and ctime of one file.
LEMMA EvolvesByRewrite ==
    ASSUME NEW table \in Seq(Node), NEW i \in Inodes(table), NEW c \in Contents,
           NEW dv \in Nat
    PROVE  /\ Evolves(table, Rewritten(table, i, c, dv))
           /\ Len(Rewritten(table, i, c, dv)) = Len(table)
           /\ Rewritten(table, i, c, dv)[i].content = c
<1> DEFINE node == [table[i] EXCEPT !.content = c, !.ver = @ + dv, !.ctime = @ + 1]
           new == [table EXCEPT ![i] = node]
<1>1. table[i] \in Node /\ node \in Node
  <2>1. table[i] \in Node
    BY TableType
  <2>2. /\ table[i].ver + dv \in Nat /\ table[i].ctime + 1 \in Nat
        /\ c \in Contents \cup {Torn}
    BY <2>1, NodeType
  <2> QED
    BY <2>1, <2>2 DEF Node
<1>2. new \in Seq(Node) /\ Len(new) = Len(table)
    BY <1>1 DEF Inodes
<1>3. Rewritten(table, i, c, dv) = new
    BY <1>1 DEF Rewritten, Inodes, Node
<1>4. \A j \in Inodes(table) : new[j] = IF j = i THEN node ELSE table[j]
    BY DEF Inodes
<1>5. node.content = c /\ node.ctime = table[i].ctime + 1 /\ node.synced = table[i].synced
    BY <1>1 DEF Node
<1>6. \A j \in Inodes(table) : table[j] \in Node
    BY DEF Inodes
<1> QED
    BY <1>1, <1>2, <1>3, <1>4, <1>5, <1>6, TornAssumption DEF Evolves, Node

\* rename(2) and link(2).
LEMMA EvolvesByRelink ==
    ASSUME NEW table \in Seq(Node), NEW moved
    PROVE  /\ Evolves(table, Relinked(table, moved))
           /\ Len(Relinked(table, moved)) = Len(table)
<1> DEFINE new == Relinked(table, moved)
<1>1. DOMAIN table = Inodes(table) /\ \A j \in Inodes(table) : table[j] \in Node
    BY DEF Inodes
<1>2. new \in [1 .. Len(table) -> Node]
    BY <1>1, NodeTouched DEF Relinked, Inodes
<1>3. new \in Seq(Node) /\ Len(new) = Len(table)
    BY <1>2, TableFromFunction
<1>4. \A j \in Inodes(table) :
         new[j] = IF j \in moved THEN [table[j] EXCEPT !.ctime = @ + 1] ELSE table[j]
    BY <1>1 DEF Relinked
<1>5. \A j \in Inodes(table) :
         /\ table[j].ctime \in Nat
         /\ new[j] = table[j] \/ (/\ new[j].ctime = table[j].ctime + 1
                                 /\ new[j].content = table[j].content
                                 /\ new[j].synced = table[j].synced)
    BY <1>1, <1>4, NodeTouched, NodeType
<1> QED
    BY <1>1, <1>3, <1>5 DEF Evolves

\* What os.stat returns has its type.
LEMMA StatType ==
    ASSUME NEW table \in Seq(Node), NEW i \in 0 .. Len(table)
    PROVE  Stat(table, i) \in StatResult
<1>1. CASE i = NoFile
    BY <1>1 DEF Stat, StatResult, NoStat, NoFile
<1>2. CASE i \in Inodes(table)
  <2>1. table[i].ver \in Nat /\ table[i].ctime \in Nat
    BY <1>2, TableType, NodeType
  <2> QED
    BY <1>2, <2>1 DEF Stat, StatResult, NoFile, Inodes
<1> QED
    BY <1>1, <1>2 DEF NoFile, Inodes

\* A whole file stays whole.
LEMMA WholeStays ==
    ASSUME NEW old \in Seq(Node), NEW new, Evolves(old, new),
           NEW i \in 0 .. Len(old), Whole(old, i)
    PROVE  Whole(new, i)
    BY DEF Evolves, Whole, NoFile, Inodes

\* What rename and link keep, and the inode a stat names.
LEMMA StatIno == \A table, i : Stat(table, i).ino = i
    BY DEF Stat, NoStat, NoFile

LEMMA RelinkKeeps ==
    ASSUME NEW table \in Seq(Node), NEW S
    PROVE  /\ Relinked(table, S) \in Seq(Node) /\ Len(Relinked(table, S)) = Len(table)
           /\ \A i \in Inodes(table) :
                /\ Relinked(table, S)[i].content = table[i].content
                /\ Relinked(table, S)[i].ver = table[i].ver
<1>1. Relinked(table, S) \in Seq(Node) /\ Len(Relinked(table, S)) = Len(table)
      BY EvolvesByRelink DEF Evolves
<1>2. DOMAIN table = Inodes(table) /\ \A i \in Inodes(table) : table[i] \in Node
      BY DEF Inodes
<1>3. \A i \in Inodes(table) :
        Relinked(table, S)[i] = IF i \in S THEN [table[i] EXCEPT !.ctime = @ + 1] ELSE table[i]
      BY <1>2 DEF Relinked
<1> QED  BY <1>1, <1>2, <1>3, NodeTouched

\* A rewrite touches one file.
LEMMA RewriteKeeps ==
    ASSUME NEW table \in Seq(Node), NEW i, NEW c, NEW dv
    PROVE  \A j \in Inodes(table) : j # i => Rewritten(table, i, c, dv)[j] = table[j]
    BY TableType DEF Rewritten

----------------------------------------------------------------------------
(* The inductive invariant *)

\* The steps that use the payload's descriptor.
Holding == {"write", "flush", "install", "syncws", "vdisp", "stat", "vinst",
            "sync", "restat", "canon1", "canon2", "discard", "post1", "post2"}

HasPayload ==
    \A p \in Writers :
        pc[p] \in Holding \/ (pc[p] \in Late \ Holding /\ ~failure[p])
            => mine[p] # NoFile

WholeEntries ==
    /\ Whole(file, target) /\ \A i \in durable : Whole(file, i)
    /\ \A p \in Writers :
         /\ pc[p] = "flush" => file[mine[p]].content # Torn
         /\ pc[p] = "install" => Whole(file, mine[p])

IInv == TypeOK /\ HasPayload /\ WholeEntries

\* TypeOK by the variables that change together.
DiskType ==
    /\ file \in Seq(Node) /\ target \in Ids /\ durable \subseteq Ids
    /\ bound \in BOOLEAN /\ theirs \subseteq 1 .. Len(file)
ControlType ==
    /\ lock \in Writers \cup {NoWriter} /\ pc \in [Writers -> Steps]
    /\ failure \in [Writers -> BOOLEAN] /\ keep \in [Writers -> Keeps]
    /\ result \in [Writers -> Results] /\ report \in [Writers -> Reports]
EntryType ==
    /\ req \in [Writers -> Requests]
    /\ mine \in [Writers -> Ids] /\ payload \in [Writers -> Ids]
    /\ failed \in [Writers -> Ids]
    /\ ws \in [Writers -> BOOLEAN] /\ installed \in [Writers -> BOOLEAN]
SnapType ==
    /\ before \in [Writers -> StatResult] /\ staged \in [Writers -> StatResult]
    /\ displaced \in [Writers -> StatResult] /\ final \in [Writers -> StatResult]
    /\ observed \in [Writers -> StatResult]
CountType == foreign \in Nat /\ faults \in Nat

LEMMA TypeParts ==
    TypeOK <=> DiskType /\ ControlType /\ EntryType /\ SnapType /\ CountType
    BY DEF TypeOK, DiskType, ControlType, EntryType, SnapType, CountType
----------------------------------------------------------------------------
(* Control: each way a step can move on keeps its types. *)

LEMMA AdvanceType ==
    ASSUME ControlType, NEW p \in Writers, NEW step \in Steps, Advance(p, step)
    PROVE  ControlType'
    BY DEF ControlType, Advance, Go, outcome

LEMMA AbortType ==
    ASSUME ControlType, NEW p \in Writers, Abort(p)
    PROVE  ControlType'
    BY DEF ControlType, Abort, Go, Steps, Late, Keeps

LEMMA ReturnType ==
    ASSUME ControlType, NEW p \in Writers, NEW res \in Results, NEW path \in Reports,
           Return(p, res, path), UNCHANGED <<failure, keep>>
    PROVE  ControlType'
    BY DEF ControlType, Return, Release, Go, Steps

LEMMA ExitType ==
    ASSUME ControlType, NEW p \in Writers, NEW res \in Results, Exit(p, res)
    PROVE  ControlType'
    BY ReturnType DEF Exit, Reports

LEMMA FailNamingType ==
    ASSUME ControlType, NEW p \in Writers, NEW path \in Reports, NEW n,
           FailNaming(p, path, n), UNCHANGED <<failure, keep>>
    PROVE  ControlType'
<1>1. "lost" \in Reports /\ "failed" \in Results
    BY DEF Reports, Results
<1> QED
    BY <1>1, ReturnType DEF FailNaming

LEMMA RequireType ==
    ASSUME ControlType, NEW p \in Writers, NEW step \in Steps, NEW check,
           Require(p, check, step)
    PROVE  ControlType'
    BY AdvanceType, AbortType DEF Require

LEMMA StepNames ==
    /\ Early \subseteq Steps /\ Guarded \subseteq Steps /\ Late \subseteq Steps
    /\ {"begin", "done", "dead"} \subseteq Steps
    /\ {"unchanged", "would", "changed", "failed"} \subseteq Results
    /\ {"none", "lost", "root", "payload", "failed", "target"} \subseteq Reports
    /\ Keeps \ {"no"} \subseteq Reports /\ {"root", "payload", "failed"} \subseteq Keeps
    BY DEF Steps, Results, Reports, Keeps

LEMMA ControlStep ==
    ASSUME ControlType, NEW p \in Writers, Step(p)
    PROVE  ControlType'
<1>1. CASE Begin(p) \/ Probe(p) \/ Open(p) \/ Sum(p) \/ Confirm(p) \/ Noop1(p)
           \/ Noop2(p) \/ EarlyFault(p)
  <2> USE StepNames, AdvanceType, ExitType
  <2>1. CASE Begin(p)
    <3>1. CASE Exit(p, "failed")
        BY <3>1
    <3>2. CASE lock' = p /\ Go(p, "probe") /\ UNCHANGED outcome
        BY <3>2 DEF ControlType, Go, outcome, Steps, Early
    <3> QED
        BY <2>1, <3>1, <3>2 DEF Begin
  <2>2. CASE Commit(p)
    BY <2>2 DEF Commit, Guarded, Early
  <2>3. CASE Probe(p) \/ Confirm(p)
    BY <2>2, <2>3 DEF Probe, Confirm, Early
  <2>4. CASE Open(p) \/ Sum(p)
    BY <2>4 DEF Open, Sum, Early
  <2>5. CASE Noop1(p) \/ Noop2(p)
    BY <2>5 DEF Noop1, Noop2, Early
  <2>6. CASE EarlyFault(p)
    BY <2>6 DEF EarlyFault
  <2> QED
    BY <1>1, <2>1, <2>3, <2>4, <2>5, <2>6
<1>2. CASE MakeWorkspace(p)
    BY <1>2, StepNames, AdvanceType, FailNamingType DEF MakeWorkspace, Guarded
<1>3. CASE GuardedFault(p) \/ CreatePayload(p) \/ WritePayload(p) \/ FlushPayload(p)
           \/ Install(p) \/ SyncWorkspace(p)
    BY <1>3, StepNames, AdvanceType, AbortType
    DEF GuardedFault, CreatePayload, WritePayload, FlushPayload, Install,
        SyncWorkspace, Guarded
<1>4. CASE VerifyDisplaced(p) \/ StatInstalled(p) \/ VerifyInstalled(p)
           \/ Restat(p) \/ Canon1(p) \/ Canon2(p)
    BY <1>4, StepNames, RequireType
    DEF VerifyDisplaced, StatInstalled, VerifyInstalled, Restat, Canon1, Canon2, Guarded
<1>5. CASE SyncParent(p) \/ Discard(p)
    BY <1>5, StepNames, AdvanceType DEF SyncParent, Discard, Guarded, Late
<1>6. CASE Rollback(p)
    BY <1>6, StepNames, AdvanceType DEF Rollback, Preserve, Go, Late, ControlType
<1>7. CASE VerifyCaptured(p)
    BY <1>7, StepNames DEF VerifyCaptured, Preserve, Go, Late, ControlType
<1>8. CASE Close(p)
    BY <1>8, StepNames DEF Close, Preserve, Go, Late, ControlType
<1>9. CASE RemoveWorkspace(p)
  <2>1. keep[p] # "no" => keep[p] \in Reports
    BY StepNames DEF ControlType
  <2>2. CASE Return(p, "failed", "none")
    BY <1>9, <2>2, StepNames, ReturnType DEF RemoveWorkspace
  <2>3. CASE Go(p, "post1") /\ UNCHANGED <<lock, result, report>>
    BY <1>9, <2>3, StepNames DEF RemoveWorkspace, Go, ControlType, Late
  <2>4. CASE \E path \in Reports : \E n \in {0, 1} : FailNaming(p, path, n)
    BY <1>9, <2>4, FailNamingType DEF RemoveWorkspace
  <2> QED
    BY <1>9, <2>1, <2>2, <2>3, <2>4, StepNames DEF RemoveWorkspace
<1>10. CASE Post1(p) \/ PostFault(p)
    BY <1>10, StepNames, AdvanceType, FailNamingType DEF Post1, PostFault, Late
<1>11. CASE Post2(p)
    BY <1>11, StepNames, ReturnType, FailNamingType DEF Post2
<1> QED
    BY <1>1, <1>2, <1>3, <1>4, <1>5, <1>6, <1>7, <1>8, <1>9, <1>10,
       <1>11 DEF Step
----------------------------------------------------------------------------
(* The file table under a writer's step *)

\* fsync, fchown, fchmod of the payload.
LEMMA EvolvesByFlush ==
    ASSUME DiskType, NEW p \in Writers, mine[p] \in Inodes(file),
           file[mine[p]].content # Torn, FlushPayload(p)
    PROVE  /\ Evolves(file, file') /\ Len(file') = Len(file)
           /\ Whole(file', mine[p])
           /\ \A j \in Inodes(file) : file'[j].content = file[j].content
<1> DEFINE i == mine[p]
           node == [file[i] EXCEPT !.synced = TRUE, !.ok = TRUE,
                                   !.ver = @ + 1, !.ctime = @ + 1]
<1>1. file \in Seq(Node)
    BY DEF DiskType
<1>2. file[i] \in Node
    BY <1>1, TableType
<1>3. file[i].ver + 1 \in Nat /\ file[i].ctime + 1 \in Nat
    BY <1>2, NodeType
<1>4. node \in Node
    BY <1>2, <1>3 DEF Node
<1>5. file' = [file EXCEPT ![i] = node]
    BY <1>1, <1>2 DEF FlushPayload, Inodes, Node
<1>6. file' \in Seq(Node) /\ Len(file') = Len(file)
    BY <1>1, <1>4, <1>5 DEF Inodes
<1>7. \A j \in Inodes(file) : file'[j] = IF j = i THEN node ELSE file[j]
    BY <1>1, <1>5 DEF Inodes
<1>8. node.content = file[i].content /\ node.synced /\ node.ctime = file[i].ctime + 1
    BY <1>2 DEF Node
<1>9. Whole(file', i)
    BY <1>7, <1>8 DEF Whole
<1>10. Len(file) \in Nat /\ \A j \in Inodes(file) : file[j].ctime \in Nat
    BY <1>1, TableType
<1> HIDE DEF node
<1>11. \A j \in Inodes(file) :
         /\ file[j].ctime <= file'[j].ctime
         /\ file'[j].ctime = file[j].ctime => file'[j] = file[j]
         /\ file[j].synced => file'[j].synced
         /\ file[j].content # Torn => file'[j].content # Torn
    BY <1>7, <1>8, <1>10
<1> QED
    BY <1>6, <1>7, <1>8, <1>9, <1>10, <1>11 DEF Evolves

\* The steps that touch the table, the entry, its durability or theirs.
LEMMA DiskSteps ==
    ASSUME NEW p \in Writers, Step(p)
    PROVE  \/ UNCHANGED <<disk, theirs>>
           \/ UNCHANGED <<file, target, theirs, bound>> /\ SyncParent(p)
           \/ UNCHANGED disk /\ Post2(p)
           \/ /\ UNCHANGED <<bound, theirs>>
              /\ CreatePayload(p) \/ WritePayload(p) \/ FlushPayload(p)
                 \/ Install(p) \/ Rollback(p)
    BY DEF Step, Begin, Probe, Open, Sum, Confirm, Noop1, Noop2, MakeWorkspace,
           EarlyFault, GuardedFault, CreatePayload, WritePayload, FlushPayload,
           Install, SyncWorkspace, VerifyDisplaced, StatInstalled, VerifyInstalled,
           SyncParent, Restat, Canon1, Canon2, Discard, Rollback, VerifyCaptured,
           Close, RemoveWorkspace, Post1, Post2, PostFault, unread, observer,
           bounds, disk, private

LEMMA StepEvolves ==
    ASSUME IInv, NEW p \in Writers, Step(p)
    PROVE  Evolves(file, file')
<1>1. file \in Seq(Node) /\ DiskType
    BY DEF IInv, TypeOK, DiskType
<1>2. CASE UNCHANGED file
    BY <1>1, <1>2, EvolvesByNothing
<1>3. CASE CreatePayload(p)
  <2>1. [content |-> Torn, ver |-> 0, ctime |-> 0, ok |-> FALSE, synced |-> FALSE] \in Node
    BY DEF Node
  <2> QED
    BY <1>1, <1>3, <2>1, EvolvesByAppend DEF CreatePayload
<1>4. ASSUME WritePayload(p) \/ FlushPayload(p) PROVE mine[p] \in Inodes(file)
    BY <1>1, <1>4, TableType
    DEF WritePayload, FlushPayload, IInv, HasPayload, Holding, TypeOK, Ids, NoFile, Inodes
<1>5. CASE WritePayload(p)
  <2>1. req[p].desired \in Contents
    BY RequestAssumption DEF IInv, TypeOK
  <2> QED
    BY <1>1, <1>4, <1>5, <2>1, EvolvesByRewrite DEF WritePayload
<1>6. CASE FlushPayload(p)
  <2>1. file[mine[p]].content # Torn
    BY <1>6 DEF FlushPayload, IInv, WholeEntries
  <2> QED
    BY <1>1, <1>4, <1>6, <2>1, EvolvesByFlush
<1>7. CASE Install(p) \/ Rollback(p)
    BY <1>1, <1>2, <1>7, EvolvesByRelink DEF Install, Rollback
<1> QED
    BY <1>2, <1>3, <1>5, <1>6, <1>7, DiskSteps DEF disk
----------------------------------------------------------------------------
(* A writer's step keeps every part of the invariant. *)

\* Inode numbers stay inode numbers.
LEMMA IdsGrow ==
    ASSUME IInv, Evolves(file, file')
    PROVE  Ids \subseteq Ids' /\ Len(file) \in Nat /\ Len(file') \in Nat
    BY TableType DEF IInv, TypeOK, Evolves, Ids

LEMMA StepDiskType ==
    ASSUME IInv, NEW p \in Writers, Step(p)
    PROVE  DiskType'
<1>1. Evolves(file, file') /\ DiskType
    BY StepEvolves DEF IInv, TypeOK, DiskType
<1>2. Ids \subseteq Ids' /\ Len(file) \in Nat /\ Len(file') \in Nat /\ Len(file) <= Len(file')
    BY <1>1, IdsGrow DEF Evolves
<1>3. file' \in Seq(Node)
    BY <1>1 DEF Evolves
<1>4. mine[p] \in Ids /\ target \in Ids
    BY DEF IInv, TypeOK
<1>5. CASE UNCHANGED <<bound, theirs>>
  <2>1. theirs' \subseteq 1 .. Len(file')
    BY <1>1, <1>2, <1>5 DEF DiskType
  <2>2. CASE UNCHANGED <<target, durable>>
    BY <1>1, <1>2, <1>3, <1>5, <2>1, <2>2 DEF DiskType
  <2>3. CASE SyncParent(p)
    BY <1>1, <1>2, <1>3, <1>5, <2>1, <2>3 DEF DiskType, SyncParent
  <2>4. CASE Install(p)
    BY <1>1, <1>2, <1>3, <1>4, <1>5, <2>1, <2>4 DEF DiskType, Install
  <2>5. CASE Rollback(p)
    <3>1. NoFile \in Ids'
      BY <1>2 DEF Ids, NoFile
    <3> QED
      BY <1>1, <1>2, <1>3, <1>5, <2>1, <2>5, <3>1 DEF DiskType, Rollback
  <2> QED
    BY <1>5, <2>2, <2>3, <2>4, <2>5, DiskSteps
    DEF disk, CreatePayload, WritePayload, FlushPayload, Post2
<1>6. CASE UNCHANGED disk /\ Post2(p)
  <2>1. mine[p] \in 1 .. Len(file)
    BY <1>2, <1>4, <1>6 DEF Post2, IInv, HasPayload, Holding, Ids, NoFile
  <2> QED
    BY <1>1, <1>6, <2>1 DEF DiskType, Post2, disk, Ids
<1> QED
    BY <1>5, <1>6, DiskSteps DEF disk

LEMMA StepEntryType ==
    ASSUME IInv, NEW p \in Writers, Step(p)
    PROVE  EntryType'
<1>1. EntryType /\ target \in Ids /\ Ids \subseteq Ids'
    BY StepEvolves, IdsGrow DEF IInv, TypeOK, EntryType
<1>2. CASE CreatePayload(p)
  <2>1. New \in Ids'
    BY <1>2, EvolvesByAppend, TableType, NodeType, IdsGrow, StepEvolves
    DEF CreatePayload, New, Ids, IInv, TypeOK
  <2> QED
    BY <1>1, <1>2, <2>1 DEF EntryType, CreatePayload
<1>3. CASE MakeWorkspace(p) \/ RemoveWorkspace(p)
    BY <1>1, <1>3 DEF EntryType, MakeWorkspace, RemoveWorkspace, local
<1>4. CASE Install(p) \/ Discard(p) \/ Rollback(p) \/ VerifyCaptured(p) \/ Close(p)
  <2>1. NoFile \in Ids
    BY IdsGrow, StepEvolves DEF Ids, NoFile
  <2>2. CASE Install(p)
    BY <1>1, <2>2 DEF EntryType, Install
  <2>3. CASE Discard(p)
    BY <1>1, <2>1, <2>3 DEF EntryType, Discard, local
  <2>4. CASE Rollback(p)
    BY <1>1, <2>4 DEF EntryType, Rollback, local
  <2>5. CASE VerifyCaptured(p)
    BY <1>1, <2>1, <2>5 DEF EntryType, VerifyCaptured
  <2>6. CASE Close(p)
    BY <1>1, <2>1, <2>6 DEF EntryType, Close, local
  <2> QED
    BY <1>4, <2>2, <2>3, <2>4, <2>5, <2>6
<1>5. \/ UNCHANGED <<req, mine, private, installed>>
      \/ CreatePayload(p) \/ MakeWorkspace(p) \/ RemoveWorkspace(p)
      \/ Install(p) \/ Discard(p) \/ Rollback(p) \/ VerifyCaptured(p) \/ Close(p)
    BY DEF Step, Begin, Probe, Open, Sum, Confirm, Noop1, Noop2, EarlyFault,
           GuardedFault, WritePayload, FlushPayload, SyncWorkspace,
           VerifyDisplaced, StatInstalled, VerifyInstalled, SyncParent, Restat,
           Canon1, Canon2, Post1, Post2, PostFault, unread, local, locals, private
<1>6. CASE UNCHANGED <<req, mine, private, installed>>
    BY <1>1, <1>6 DEF EntryType, private
<1> QED
    BY <1>2, <1>3, <1>4, <1>5, <1>6

LEMMA StepSnapType ==
    ASSUME IInv, NEW p \in Writers, Step(p)
    PROVE  SnapType'
<1>1. SnapType /\ \A i \in Ids : Stat(file, i) \in StatResult
    BY StatType DEF IInv, TypeOK, SnapType, Ids
<1>2. target \in Ids /\ payload[p] \in Ids /\ mine[p] \in Ids
    BY DEF IInv, TypeOK
<1>3. Stat(file', mine[p]) \in StatResult
    BY <1>2, StepEvolves, IdsGrow, StatType DEF Evolves, Ids
<1>4. CASE FlushPayload(p)
    BY <1>1, <1>3, <1>4 DEF SnapType, FlushPayload
<1>5. CASE Probe(p) \/ SyncWorkspace(p) \/ StatInstalled(p) \/ Noop1(p) \/ Canon1(p)
           \/ Post1(p)
    BY <1>1, <1>2, <1>5
    DEF SnapType, Probe, SyncWorkspace, StatInstalled, Noop1, Canon1, Post1,
        FirstRead, Current, locals
<1>6. \/ UNCHANGED <<before, staged, displaced, final, observed>>
      \/ FlushPayload(p) \/ Probe(p) \/ SyncWorkspace(p) \/ StatInstalled(p)
      \/ Noop1(p) \/ Canon1(p) \/ Post1(p)
    BY DEF Step, Begin, Open, Sum, Confirm, Noop2, MakeWorkspace, EarlyFault,
           GuardedFault, CreatePayload, WritePayload, Install, VerifyDisplaced,
           VerifyInstalled, SyncParent, Restat, Canon2, Discard, Rollback,
           VerifyCaptured, Close, RemoveWorkspace, Post2, PostFault, local, locals
<1>7. CASE UNCHANGED <<before, staged, displaced, final, observed>>
    BY <1>1, <1>7 DEF SnapType
<1> QED
    BY <1>4, <1>5, <1>6, <1>7

\* The bounded counters only grow.
LEMMA StepCounts ==
    ASSUME CountType, NEW p \in Writers, Step(p)
    PROVE  foreign' = foreign /\ faults' \in {faults, faults + 1, faults + 2}
<1>0. faults \in Nat
    BY DEF CountType
<1>1. CASE \/ Begin(p) \/ Probe(p) \/ Open(p) \/ Sum(p) \/ Confirm(p) \/ Noop1(p)
           \/ Noop2(p) \/ MakeWorkspace(p) \/ EarlyFault(p) \/ GuardedFault(p)
    BY <1>0, <1>1
    DEF Begin, Probe, Open, Sum, Confirm, Noop1, Noop2, MakeWorkspace, FailNaming,
        Spent, EarlyFault, GuardedFault, unread, observer, bounds
<1>2. CASE \/ CreatePayload(p) \/ WritePayload(p) \/ FlushPayload(p) \/ Install(p)
           \/ SyncWorkspace(p) \/ VerifyDisplaced(p) \/ StatInstalled(p) \/ VerifyInstalled(p)
    BY <1>2
    DEF CreatePayload, WritePayload, FlushPayload, Install, SyncWorkspace,
        VerifyDisplaced, StatInstalled, VerifyInstalled, unread, observer, bounds
<1>3. CASE SyncParent(p) \/ Restat(p) \/ Canon1(p) \/ Canon2(p) \/ Discard(p)
    BY <1>3 DEF SyncParent, Restat, Canon1, Canon2, Discard, unread, observer, bounds
<1>4. CASE Rollback(p) \/ VerifyCaptured(p) \/ Close(p)
    BY <1>4 DEF Rollback, VerifyCaptured, Close
<1>5. CASE RemoveWorkspace(p) \/ Post1(p) \/ Post2(p) \/ PostFault(p)
    BY <1>0, <1>5 DEF RemoveWorkspace, Post1, Post2, PostFault, FailNaming, Spent
<1> QED
    BY <1>1, <1>2, <1>3, <1>4, <1>5 DEF Step

LEMMA StepTypeOK ==
    ASSUME IInv, NEW p \in Writers, Step(p)
    PROVE  TypeOK'
<1>1. DiskType' /\ EntryType' /\ SnapType'
    BY StepDiskType, StepEntryType, StepSnapType
<1>2. ControlType' /\ CountType'
    BY ControlStep, StepCounts, TypeParts DEF IInv, CountType
<1> QED
    BY <1>1, <1>2 DEF TypeOK, DiskType, ControlType, EntryType, SnapType, CountType

\* A step changes only its own writer's control and payload.
LEMMA OthersStay ==
    ASSUME IInv, NEW p \in Writers, NEW q \in Writers, q # p, Step(p)
    PROVE  pc'[q] = pc[q] /\ failure'[q] = failure[q] /\ mine'[q] = mine[q]
<1>1. ControlType /\ EntryType
    BY DEF IInv, TypeOK, ControlType, EntryType
<1>2. mine'[q] = mine[q]
    BY <1>1
    DEF EntryType, Step, Begin, Probe, Open, Sum, Confirm, Noop1, Noop2, MakeWorkspace,
        EarlyFault, GuardedFault, CreatePayload, WritePayload, FlushPayload,
        Install, SyncWorkspace, VerifyDisplaced, StatInstalled, VerifyInstalled,
        SyncParent, Restat, Canon1, Canon2, Discard, Rollback, VerifyCaptured,
        Close, RemoveWorkspace, Post1, Post2, PostFault, unread, local, locals
<1>3. pc'[q] = pc[q]
    BY <1>1
    DEF ControlType, Step, Begin, Probe, Open, Sum, Confirm, Noop1, Noop2, MakeWorkspace,
        EarlyFault, GuardedFault, CreatePayload, WritePayload, FlushPayload,
        Install, SyncWorkspace, VerifyDisplaced, StatInstalled, VerifyInstalled,
        SyncParent, Restat, Canon1, Canon2, Discard, Rollback, VerifyCaptured,
        Close, RemoveWorkspace, Post1, Post2, PostFault, Go, Return, FailNaming, Spent, Exit, Advance,
        Abort, Require, Commit
<1>4. failure'[q] = failure[q]
    BY <1>1
    DEF ControlType, Step, Begin, Probe, Open, Sum, Confirm, Noop1, Noop2, MakeWorkspace,
        EarlyFault, GuardedFault, CreatePayload, WritePayload, FlushPayload,
        Install, SyncWorkspace, VerifyDisplaced, StatInstalled, VerifyInstalled,
        SyncParent, Restat, Canon1, Canon2, Discard, Rollback, VerifyCaptured,
        Close, RemoveWorkspace, Post1, Post2, PostFault, Return, FailNaming, Spent, Exit, Advance,
        Abort, Require, Commit, outcome
<1> QED
    BY <1>2, <1>3, <1>4

LEMMA StepHasPayload ==
    ASSUME IInv, NEW p \in Writers, Step(p)
    PROVE  HasPayload'
<1> DEFINE Needs == pc[p] \in Holding \/ (pc[p] \in Late \ Holding /\ ~failure[p])
<1>1. ControlType /\ EntryType /\ DiskType
    BY DEF IInv, TypeOK, ControlType, EntryType, DiskType
<1>2. Needs => mine[p] # NoFile
    BY DEF IInv, HasPayload
<1>3. Needs' => mine'[p] # NoFile
  <2>1. CASE CreatePayload(p)
    <3>1. New # NoFile
      BY <1>1, TableType DEF New, NoFile, DiskType
    <3> QED
      BY <1>1, <2>1, <3>1 DEF EntryType, CreatePayload
  <2>2. CASE GuardedFault(p)
    BY <1>1, <2>2
    DEF ControlType, GuardedFault, Abort, Go, Holding, Late
  <2>3. CASE ~(pc[p] \in Late \cup Holding) /\ ~CreatePayload(p) /\ ~GuardedFault(p)
    BY <1>1, <2>3
    DEF ControlType, Step, Begin, Probe, Open, Sum, Confirm, Noop1, Noop2, MakeWorkspace,
        EarlyFault, WritePayload, FlushPayload, Install, SyncWorkspace,
        VerifyDisplaced, StatInstalled, VerifyInstalled, SyncParent, Restat,
        Canon1, Canon2, Discard, Rollback, VerifyCaptured, Close,
        RemoveWorkspace, Post1, Post2, PostFault, Go, Return, FailNaming, Spent, Exit, Advance,
        Commit, Holding, Late
  <2>4. CASE WritePayload(p) \/ FlushPayload(p) \/ Install(p) \/ SyncWorkspace(p)
             \/ VerifyDisplaced(p) \/ StatInstalled(p) \/ VerifyInstalled(p)
             \/ SyncParent(p) \/ Restat(p) \/ Canon1(p) \/ Canon2(p) \/ Discard(p)
    BY <1>1, <1>2, <2>4
    DEF WritePayload, FlushPayload, Install, SyncWorkspace, VerifyDisplaced,
        StatInstalled, VerifyInstalled, SyncParent, Restat, Canon1, Canon2,
        Discard, Holding, local, locals, unread
  <2>5. CASE Rollback(p) \/ VerifyCaptured(p) \/ Close(p) \/ RemoveWorkspace(p)
    BY <1>1, <1>2, <2>5
    DEF ControlType, Rollback, VerifyCaptured, Close, RemoveWorkspace, Preserve, Go,
        Return, FailNaming, Spent, Advance, Holding, Late, local, outcome
  <2>6. CASE Post1(p) \/ Post2(p) \/ PostFault(p)
    BY <1>1, <1>2, <2>6
    DEF Post1, Post2, PostFault, Holding, local, locals
  <2> QED
    BY <2>1, <2>2, <2>3, <2>4, <2>5, <2>6
    DEF Step, Begin, Probe, Open, Sum, Confirm, Noop1, Noop2, MakeWorkspace,
        EarlyFault, Early, Late, Holding
<1>4. ASSUME NEW q \in Writers, q # p
      PROVE  (pc[q] \in Holding \/ (pc[q] \in Late \ Holding /\ ~failure[q])
                => mine[q] # NoFile)'
    BY <1>4, OthersStay DEF IInv, HasPayload
<1> QED
    BY <1>3, <1>4 DEF HasPayload

\* Installation makes the payload, already whole, an entry; nothing else new
\* becomes one.
LEMMA StepWholeEntries ==
    ASSUME IInv, NEW p \in Writers, Step(p)
    PROVE  WholeEntries'
<1>1. /\ Evolves(file, file') /\ DiskType /\ ControlType /\ EntryType
      /\ file \in Seq(Node) /\ WholeEntries /\ HasPayload
    BY StepEvolves DEF IInv, TypeOK, DiskType, ControlType, EntryType
<1>2. \A i \in Ids : Whole(file, i) => Whole(file', i)
    BY <1>1, WholeStays DEF Ids
<1>3. \A i \in {target} \cup durable : Whole(file', i)
    BY <1>1, <1>2 DEF WholeEntries, DiskType
<1>4. mine[p] \in Ids /\ (Install(p) => Whole(file, mine[p]))
    BY <1>1 DEF EntryType, Install, WholeEntries
<1>5. \A i \in {target'} \cup durable' :
         i \in {target, NoFile} \cup durable \/ (Install(p) /\ i = mine[p])
  <2>1. CASE UNCHANGED <<target, durable>>
    BY <2>1
  <2>2. CASE SyncParent(p)
    BY <2>2 DEF SyncParent
  <2>3. CASE Install(p)
    BY <2>3 DEF Install
  <2>4. CASE Rollback(p)
    BY <2>4 DEF Rollback
  <2> QED
    BY <2>1, <2>2, <2>3, <2>4, DiskSteps DEF disk, CreatePayload, WritePayload, FlushPayload
<1>6. \A i \in {target'} \cup durable' : Whole(file', i)
    BY <1>2, <1>3, <1>4, <1>5 DEF Whole
<1>7. ASSUME NEW q \in Writers, q # p
      PROVE  /\ pc'[q] = "flush" => file'[mine'[q]].content # Torn
             /\ pc'[q] = "install" => Whole(file', mine'[q])
  <2>1. pc'[q] = pc[q] /\ mine'[q] = mine[q] /\ mine[q] \in Ids
    BY <1>1, <1>7, OthersStay DEF EntryType
  <2>2. pc[q] = "flush" => mine[q] \in Inodes(file) /\ file[mine[q]].content # Torn
    BY <1>1, <2>1, TableType DEF HasPayload, Holding, WholeEntries, Ids, NoFile, Inodes
  <2> QED
    BY <1>1, <1>2, <2>1, <2>2 DEF WholeEntries, Evolves
<1>8. pc'[p] = "flush" => file'[mine'[p]].content # Torn
  <2>1. pc'[p] = "flush" => WritePayload(p)
    BY <1>1
    DEF ControlType, Step, Begin, Probe, Open, Sum, Confirm, Noop1, Noop2, MakeWorkspace,
        EarlyFault, GuardedFault, CreatePayload, FlushPayload,
        Install, SyncWorkspace, VerifyDisplaced, StatInstalled, VerifyInstalled,
        SyncParent, Restat, Canon1, Canon2, Discard, Rollback, VerifyCaptured,
        Close, RemoveWorkspace, Post1, Post2, PostFault, Go, Return, FailNaming, Spent, Exit, Advance,
        Abort, Require, Commit
  <2>2. ASSUME WritePayload(p) PROVE mine[p] \in Inodes(file) /\ req[p].desired \in Contents
    BY <1>1, <1>4, <2>2, TableType, RequestAssumption
    DEF WritePayload, HasPayload, Holding, EntryType, Ids, NoFile, Inodes
  <2> QED
    BY <1>1, <2>1, <2>2, EvolvesByRewrite, TornAssumption DEF WritePayload, local
<1>9. pc'[p] = "install" => Whole(file', mine'[p])
  <2>1. pc'[p] = "install" => FlushPayload(p)
    BY <1>1
    DEF ControlType, Step, Begin, Probe, Open, Sum, Confirm, Noop1, Noop2, MakeWorkspace,
        EarlyFault, GuardedFault, CreatePayload, WritePayload,
        Install, SyncWorkspace, VerifyDisplaced, StatInstalled, VerifyInstalled,
        SyncParent, Restat, Canon1, Canon2, Discard, Rollback, VerifyCaptured,
        Close, RemoveWorkspace, Post1, Post2, PostFault, Go, Return, FailNaming, Spent, Exit, Advance,
        Abort, Require, Commit
  <2>2. ASSUME FlushPayload(p)
        PROVE  mine[p] \in Inodes(file) /\ file[mine[p]].content # Torn /\ mine' = mine
    BY <1>1, <1>4, <2>2, TableType
    DEF FlushPayload, HasPayload, Holding, WholeEntries, Ids, NoFile, Inodes
  <2> QED
    BY <1>1, <2>1, <2>2, EvolvesByFlush
<1> QED
    BY <1>6, <1>7, <1>8, <1>9 DEF WholeEntries
----------------------------------------------------------------------------
(* The steps no writer takes *)

\* Another program, or a kill, before the power fails.
LEMMA ForeignEvolves ==
    ASSUME IInv, ForeignReplace \/ ForeignRewrite \/ ForeignLink \/ ForeignDelete
                 \/ MoveParent \/ \E p \in Writers : Kill(p)
    PROVE  Evolves(file, file')
<1>1. file \in Seq(Node) /\ target \in Ids
    BY DEF IInv, TypeOK
<1>2. CASE ForeignReplace
  <2>1. \A c \in Contents, ok \in BOOLEAN : FreshNode(c, ok) \in Node
    BY DEF FreshNode, Node
  <2> QED
    BY <1>1, <1>2, <2>1, EvolvesByAppend DEF ForeignReplace
<1>3. CASE ForeignRewrite
  <2>1. target \in Inodes(file)
    BY <1>1, <1>3, TableType DEF ForeignRewrite, Ids, NoFile, Inodes
  <2> QED
    BY <1>1, <1>3, <2>1, EvolvesByRewrite DEF ForeignRewrite
<1>4. CASE ForeignLink
    BY <1>1, <1>4, EvolvesByRelink DEF ForeignLink
<1>5. CASE ForeignDelete \/ MoveParent \/ \E p \in Writers : Kill(p)
    BY <1>1, <1>5, EvolvesByNothing DEF ForeignDelete, MoveParent, Kill, disk
<1> QED
    BY <1>2, <1>3, <1>4, <1>5

\* What the writers hold stays whole when they do not move.
LEMMA WritersUntouched ==
    ASSUME IInv, Evolves(file, file'), UNCHANGED <<pc, mine>>,
           \A i \in {target'} \cup durable' : Whole(file', i)
    PROVE  WholeEntries'
<1>1. file \in Seq(Node) /\ mine \in [Writers -> Ids] /\ WholeEntries /\ HasPayload
    BY DEF IInv, TypeOK
<1>2. ASSUME NEW q \in Writers
      PROVE  /\ pc[q] = "flush" => file'[mine[q]].content # Torn
             /\ pc[q] = "install" => Whole(file', mine[q])
  <2>1. pc[q] = "flush" => mine[q] \in Inodes(file) /\ file[mine[q]].content # Torn
    BY <1>1, <1>2, TableType DEF HasPayload, Holding, WholeEntries, Ids, NoFile, Inodes
  <2>2. pc[q] = "install" => Whole(file', mine[q])
    BY <1>1, <1>2, WholeStays DEF WholeEntries, Ids
  <2> QED
    BY <2>1, <2>2 DEF Evolves
<1> QED
    BY <1>2 DEF WholeEntries

\* The file another program renames over the entry is whole.
LEMMA ForeignInv ==
    ASSUME IInv, ForeignReplace \/ ForeignRewrite \/ ForeignLink \/ ForeignDelete
                 \/ MoveParent
    PROVE  IInv'
<1>1. /\ Evolves(file, file') /\ file \in Seq(Node) /\ DiskType /\ EntryType
      /\ SnapType /\ ControlType /\ CountType /\ WholeEntries /\ HasPayload
    BY ForeignEvolves, TypeParts DEF IInv, DiskType
<1>2. Ids \subseteq Ids' /\ Len(file) \in Nat /\ Len(file') \in Nat /\ Len(file) <= Len(file')
    BY <1>1, IdsGrow DEF Evolves
<1>3. UNCHANGED elsewhere
    BY DEF ForeignReplace, ForeignRewrite, ForeignLink, ForeignDelete, MoveParent
<1>4. EntryType' /\ SnapType' /\ ControlType'
    BY <1>1, <1>2, <1>3
    DEF elsewhere, local, private, outcome, EntryType, SnapType, ControlType
<1>5. CountType'
    BY <1>1, <1>3
    DEF elsewhere, CountType, Foreign, ForeignReplace, ForeignRewrite, ForeignLink,
        ForeignDelete, MoveParent
<1>6. \A i \in {target, NoFile} \cup durable : Whole(file', i)
    BY <1>1, WholeStays DEF WholeEntries, DiskType, Ids, Whole
<1>7. ASSUME ForeignReplace
      PROVE  DiskType' /\ \A i \in {target'} \cup durable' : Whole(file', i)
  <2>1. PICK c \in Contents, ok \in BOOLEAN : file' = Append(file, FreshNode(c, ok))
    BY <1>7 DEF ForeignReplace
  <2>2. FreshNode(c, ok) \in Node /\ FreshNode(c, ok).content # Torn /\ FreshNode(c, ok).synced
    BY TornAssumption DEF FreshNode, Node
  <2>3. Len(file') = Len(file) + 1 /\ file'[New] = FreshNode(c, ok)
    BY <1>1, <2>1, <2>2, EvolvesByAppend DEF New
  <2>4. New \in Ids' /\ New \in 1 .. Len(file') /\ Whole(file', New)
    BY <1>2, <2>2, <2>3 DEF New, Ids, Whole
  <2>5. DiskType'
    BY <1>1, <1>2, <1>7, <2>4 DEF DiskType, ForeignReplace, Evolves
  <2>6. \A i \in {target'} \cup durable' : Whole(file', i)
    BY <1>7, <1>6, <2>4 DEF ForeignReplace
  <2> QED
    BY <2>5, <2>6
<1>8. ASSUME ForeignRewrite \/ ForeignLink \/ ForeignDelete \/ MoveParent
      PROVE  DiskType' /\ \A i \in {target'} \cup durable' : Whole(file', i)
  <2>1. file' \in Seq(Node) /\ theirs' \subseteq theirs \cup ({target} \ {NoFile})
    BY <1>1, <1>8 DEF Evolves, ForeignRewrite, ForeignLink, ForeignDelete, MoveParent
  <2>2. /\ target' \in {target, NoFile} /\ durable' \subseteq durable \cup {NoFile}
        /\ bound' \in BOOLEAN
    BY <1>1, <1>8
    DEF DiskType, ForeignRewrite, ForeignLink, ForeignDelete, MoveParent
  <2>3. NoFile \in Ids' /\ {target} \ {NoFile} \subseteq 1 .. Len(file')
    BY <1>1, <1>2 DEF DiskType, Ids, NoFile
  <2>4. 1 .. Len(file) \subseteq 1 .. Len(file')
    BY <1>2
  <2>5. DiskType'
    BY <1>1, <1>2, <2>1, <2>2, <2>3, <2>4 DEF DiskType
  <2>6. \A i \in {target'} \cup durable' : Whole(file', i)
    BY <1>6, <2>2 DEF Whole
  <2> QED
    BY <2>5, <2>6
<1>9. DiskType' /\ \A i \in {target'} \cup durable' : Whole(file', i)
    BY <1>7, <1>8
<1>10. WholeEntries'
    BY <1>1, <1>3, <1>9, WritersUntouched DEF elsewhere, local
<1>11. HasPayload'
    BY <1>1, <1>3 DEF elsewhere, local, outcome, HasPayload
<1> QED
    BY <1>4, <1>5, <1>9, <1>10, <1>11
    DEF IInv, TypeOK, DiskType, ControlType, EntryType, SnapType, CountType

LEMMA KillInv ==
    ASSUME IInv, NEW p \in Writers, Kill(p)
    PROVE  IInv'
<1>1. file \in Seq(Node) /\ ControlType
    BY DEF IInv, TypeOK, ControlType
<1>2. ControlType'
    BY <1>1 DEF ControlType, Kill, Go, Release, outcome, Steps
<1>3. TypeOK'
    BY <1>2
    DEF IInv, TypeOK, ControlType, Kill, disk, local, private, outcome, observer, bounds, Ids
<1>4. HasPayload' /\ WholeEntries'
    BY <1>1
    DEF IInv, ControlType, Kill, Go, disk, local, outcome, HasPayload, WholeEntries,
        Holding, Late
<1> QED
    BY <1>3, <1>4 DEF IInv

\* The table keeps what was fsynced, and every durable entry was.
LEMMA PowerLossInv ==
    ASSUME IInv, PowerLoss
    PROVE  IInv'
<1> DEFINE torn(i) == [file[i] EXCEPT !.content = Torn]
<1>1. /\ file \in Seq(Node) /\ DiskType /\ ControlType /\ EntryType /\ SnapType
      /\ CountType /\ WholeEntries
    BY TypeParts DEF IInv, DiskType
<1>2. file' \in [1 .. Len(file) -> Node]
  <2>1. \A i \in Inodes(file) : file[i] \in Node /\ torn(i) \in Node
    BY <1>1, TableType, NodeTorn
  <2> QED
    BY <1>1, <2>1, TableType DEF PowerLoss, Inodes
<1>3. file' \in Seq(Node) /\ Len(file') = Len(file) /\ Ids' = Ids
    BY <1>1, <1>2, TableType, TableFromFunction DEF Ids
<1>4. \A i \in Inodes(file) : file[i].synced => file'[i] = file[i]
    BY <1>1, TableType DEF PowerLoss
<1>5. \A i \in durable : Whole(file', i)
    BY <1>1, <1>4 DEF WholeEntries, Whole, DiskType, Ids, NoFile, Inodes
<1>6. PICK entry \in durable : target' = entry /\ durable' = {entry}
    BY DEF PowerLoss
<1>7. DiskType' /\ Whole(file', target') /\ \A i \in durable' : Whole(file', i)
    BY <1>1, <1>3, <1>5, <1>6 DEF DiskType, PowerLoss
<1>8. ControlType'
    BY <1>1 DEF ControlType, PowerLoss, outcome, Steps
<1>9. EntryType' /\ SnapType' /\ CountType'
    BY <1>1, <1>3
    DEF PowerLoss, EntryType, SnapType, CountType, local, private, bounds
<1>10. \A p \in Writers : pc'[p] = "dead"
    BY DEF PowerLoss
<1>11. HasPayload' /\ WholeEntries'
    BY <1>7, <1>10 DEF HasPayload, WholeEntries, Holding, Late
<1> QED
    BY <1>7, <1>8, <1>9, <1>11
    DEF IInv, TypeOK, DiskType, ControlType, EntryType, SnapType, CountType
----------------------------------------------------------------------------
LEMMA InitInv == Init => IInv
<1> SUFFICES ASSUME Init PROVE IInv
    OBVIOUS
<1>1. PICK c \in Contents, ok \in BOOLEAN :
         \/ file = <<>> /\ target = NoFile /\ theirs = {}
         \/ file = <<FreshNode(c, ok)>> /\ target = 1 /\ theirs = {1}
    BY DEF Init
<1>2. FreshNode(c, ok) \in Node /\ FreshNode(c, ok).content # Torn /\ FreshNode(c, ok).synced
    BY TornAssumption DEF FreshNode, Node
<1>3. DiskType /\ Whole(file, target) /\ NoFile \in Ids
  <2>1. durable = {target} /\ bound \in BOOLEAN
    BY DEF Init
  <2>2. CASE file = <<>> /\ target = NoFile /\ theirs = {}
    BY <2>1, <2>2 DEF DiskType, Ids, NoFile, Whole
  <2>3. CASE file = <<FreshNode(c, ok)>> /\ target = 1 /\ theirs = {1}
    <3>1. file \in Seq(Node) /\ Len(file) = 1 /\ file[1] = FreshNode(c, ok)
      BY <1>2, <2>3
    <3> QED
      BY <1>2, <2>1, <2>3, <3>1 DEF DiskType, Ids, NoFile, Whole
  <2> QED
    BY <1>1, <2>2, <2>3
<1>4. ControlType
    BY DEF Init, ControlType, Steps, Results, Reports, Keeps
<1>5. EntryType
    BY <1>3 DEF Init, EntryType
<1>6. NoStat \in StatResult
    BY DEF NoStat, StatResult, NoFile
<1>7. SnapType /\ CountType
    BY <1>6 DEF Init, SnapType, CountType
<1>8. HasPayload /\ WholeEntries
    BY <1>3 DEF Init, HasPayload, WholeEntries, Holding, Late
<1> QED
    BY <1>3, <1>4, <1>5, <1>7, <1>8, TypeParts DEF IInv

LEMMA NextInv == IInv /\ [Next]_vars => IInv'
<1> SUFFICES ASSUME IInv, [Next]_vars PROVE IInv'
    OBVIOUS
<1>1. ASSUME NEW p \in Writers, Step(p) PROVE IInv'
    BY <1>1, StepTypeOK, StepHasPayload, StepWholeEntries DEF IInv
<1>2. CASE Environment
    BY <1>2, ForeignInv, KillInv, PowerLossInv DEF Environment
<1>3. CASE UNCHANGED vars
    BY <1>3
    DEF vars, disk, local, private, outcome, IInv, TypeOK, HasPayload, WholeEntries, Ids
<1> QED
    BY <1>1, <1>2, <1>3 DEF Next, Terminated

LEMMA Invariance == Spec => []IInv
    BY InitInv, NextInv, PTL DEF Spec

\* Type correctness of _write_file: every inode a writer's descriptors and
\* snapshots name is one the directory has allocated, whoever else acts on it.
THEOREM TypeCorrect == Spec => []TypeOK
<1>1. IInv => TypeOK
    BY DEF IInv
<1> QED
    BY <1>1, Invariance, PTL

\* "atomically replaces one regular file": at no step, and after no kill or
\* power loss, does the path lead to a torn file, for any number of writers,
\* requests and foreign changes.
THEOREM TargetNeverTorn == Spec => []NoTornTarget
<1>1. IInv => NoTornTarget
    BY DEF IInv, WholeEntries, Whole, NoTornTarget
<1> QED
    BY <1>1, Invariance, PTL
----------------------------------------------------------------------------
(* changed=false: the entry is the one whose checksum was read. *)

Checking == {"open", "sum", "confirm", "noop1", "noop2"}

\* Between its first stat and its last, a writer has seen a file that is still
\* the same if its ctime is.
Verified(p) ==
    LET entry == file[before[p].ino]
    IN  /\ before[p].ino \in Inodes(file) /\ before[p].ctime <= entry.ctime
        /\ entry.ctime = before[p].ctime =>
             /\ entry.ok
             /\ pc[p] \in {"confirm", "noop1", "noop2"} => entry.content = req[p].expected
        /\ pc[p] \in {"noop1", "noop2"} => req[p].expected = req[p].desired

AllVerified == \A p \in Writers : pc[p] \in Checking => Verified(p)

\* Steps of the others and of the environment.
LEMMA VerifiedStays ==
    ASSUME IInv, Evolves(file, file'), NEW p \in Writers, Verified(p),
           pc'[p] = pc[p], before'[p] = before[p], req' = req
    PROVE  Verified(p)'
<1> DEFINE i == before[p].ino
<1>1. i \in Inodes(file) /\ i \in Inodes(file') /\ file \in Seq(Node)
    BY TableType DEF Verified, Evolves, Inodes, IInv, TypeOK
<1>2. file[i].ctime \in Nat /\ file'[i].ctime \in Nat /\ before[p].ctime \in Nat
    BY <1>1, TableType DEF Evolves, IInv, TypeOK, StatResult
<1>3. /\ before[p].ctime <= file'[i].ctime
      /\ file'[i].ctime = before[p].ctime
           => file'[i] = file[i] /\ file[i].ctime = before[p].ctime
    BY <1>1, <1>2 DEF Verified, Evolves
<1> QED
    BY <1>1, <1>3 DEF Verified

\* Only the checking steps lead to a checking step, and they only read.
LEMMA CheckingSteps ==
    ASSUME IInv, NEW p \in Writers, Step(p), pc'[p] \in Checking
    PROVE  /\ Probe(p) \/ Open(p) \/ Sum(p) \/ Confirm(p) \/ Noop1(p)
           /\ UNCHANGED <<file, target, req>>
<1>1. ControlType
    BY DEF IInv, TypeOK, ControlType
<1>2. Probe(p) \/ Open(p) \/ Sum(p) \/ Confirm(p) \/ Noop1(p)
    BY <1>1
    DEF ControlType, Step, Begin, Noop2, MakeWorkspace, EarlyFault, GuardedFault,
        CreatePayload, WritePayload, FlushPayload, Install, SyncWorkspace,
        VerifyDisplaced, StatInstalled, VerifyInstalled, SyncParent, Restat, Canon1,
        Canon2, Discard, Rollback, VerifyCaptured, Close, RemoveWorkspace, Post1,
        Post2, PostFault, Go, Return, FailNaming, Spent, Exit, Advance, Abort, Require, Checking
<1> QED
    BY <1>2 DEF Probe, Open, Sum, Confirm, Noop1, unread, disk

LEMMA StepVerified ==
    ASSUME IInv, AllVerified, NEW p \in Writers, Step(p), pc'[p] \in Checking
    PROVE  Verified(p)'
<1>1. ControlType /\ SnapType /\ file \in Seq(Node) /\ target \in Ids
    BY DEF IInv, TypeOK, ControlType, SnapType
<1>2. UNCHANGED <<file, target, req>>
    BY CheckingSteps
<1>3. CASE Probe(p)
  <2>1. /\ target # NoFile /\ file[target].ok /\ pc'[p] = "open"
        /\ before'[p] = Stat(file, target)
    BY <1>1, <1>3
    DEF Probe, Commit, Advance, Exit, Return, Go, Checking, Current, ControlType, SnapType
  <2>2. target \in Inodes(file) /\ file[target].ctime \in Nat
    BY <1>1, <2>1, TableType DEF Ids, NoFile, Inodes
  <2> QED
    BY <1>2, <2>1, <2>2 DEF Verified, Stat
<1>4. CASE Open(p) \/ Sum(p) \/ Confirm(p) \/ Noop1(p)
  <2>1. UNCHANGED before /\ Verified(p)
    BY <1>4 DEF Open, Sum, Confirm, Noop1, local, locals, AllVerified, Checking
  <2>2. CASE Open(p)
    BY <1>1, <1>2, <1>4, <2>1, <2>2
    DEF Open, Advance, Exit, Return, Go, ControlType, Verified, Checking
  <2>3. CASE Sum(p)
    BY <1>1, <1>2, <2>1, <2>3
    DEF Sum, Advance, Exit, Return, Go, ControlType, Verified, Checking
  <2>4. CASE Confirm(p)
    BY <1>1, <1>2, <2>1, <2>4
    DEF Confirm, Commit, Advance, Exit, Return, Go, ControlType, Verified, Checking
  <2>5. CASE Noop1(p)
    BY <1>1, <1>2, <2>1, <2>5
    DEF Noop1, Advance, Exit, Return, Go, ControlType, Verified, Checking
  <2> QED
    BY <1>4, <2>2, <2>3, <2>4, <2>5
<1> QED
    BY <1>3, <1>4, CheckingSteps

LEMMA NextVerified == IInv /\ AllVerified /\ [Next]_vars => AllVerified'
<1> SUFFICES ASSUME IInv, AllVerified, [Next]_vars PROVE AllVerified'
    OBVIOUS
<1>1. file \in Seq(Node) /\ ControlType /\ SnapType
    BY DEF IInv, TypeOK, ControlType, SnapType
<1>2. ASSUME NEW p \in Writers, Step(p) PROVE AllVerified'
  <2>1. ASSUME NEW q \in Writers, q # p, pc'[q] \in Checking PROVE Verified(q)'
    <3>1. pc'[q] = pc[q]
      BY <1>2, <2>1, OthersStay
    <3>2. before'[q] = before[q] /\ req' = req
      BY <1>1, <1>2, <2>1
      DEF SnapType, Step, Begin, Probe, Open, Sum, Confirm, Noop1, Noop2, MakeWorkspace,
          EarlyFault, GuardedFault, CreatePayload, WritePayload, FlushPayload,
          Install, SyncWorkspace, VerifyDisplaced, StatInstalled, VerifyInstalled,
          SyncParent, Restat, Canon1, Canon2, Discard, Rollback, VerifyCaptured,
          Close, RemoveWorkspace, Post1, Post2, PostFault, unread, local, locals
    <3> QED
      BY <1>2, <2>1, <3>1, <3>2, StepEvolves, VerifiedStays DEF AllVerified
  <2> QED
    BY <1>2, <2>1, StepVerified DEF AllVerified
<1>3. CASE ForeignReplace \/ ForeignRewrite \/ ForeignLink \/ ForeignDelete \/ MoveParent
  <2>1. UNCHANGED elsewhere
    BY <1>3 DEF ForeignReplace, ForeignRewrite, ForeignLink, ForeignDelete, MoveParent
  <2> QED
    BY <1>3, <2>1, ForeignEvolves, VerifiedStays DEF AllVerified, elsewhere, local
<1>4. ASSUME NEW p \in Writers, Kill(p) PROVE AllVerified'
  <2>1. Evolves(file, file')
    BY <1>4, ForeignEvolves
  <2>2. \A q \in Writers : pc'[q] = pc[q] \/ pc'[q] = "dead"
    BY <1>1, <1>4 DEF Kill, Go, ControlType
  <2>3. UNCHANGED <<before, req>>
    BY <1>4 DEF Kill, local
  <2> QED
    BY <2>1, <2>2, <2>3, VerifiedStays DEF AllVerified, Checking
<1>5. CASE PowerLoss
    BY <1>5 DEF PowerLoss, AllVerified, Checking
<1>6. CASE UNCHANGED vars
  <2>1. UNCHANGED <<file, pc, before, req>>
    BY <1>6 DEF vars, disk, local
  <2> QED
    BY <1>1, <2>1, EvolvesByNothing, VerifiedStays DEF AllVerified
<1> QED
    BY <1>2, <1>3, <1>4, <1>5, <1>6 DEF Next, Environment, Terminated

\* The only step that returns "unchanged" is the last check of the no-op path.
LEMMA UnchangedReturned ==
    ASSUME IInv, AllVerified, [Next]_vars, NEW p \in Writers,
           result[p] = "running", result'[p] = "unchanged"
    PROVE  /\ bound /\ target # NoFile
           /\ file[target].content = req[p].desired /\ file[target].ok
<1>1. ControlType
    BY DEF IInv, TypeOK, ControlType
<1>2. ~UNCHANGED result
    OBVIOUS
<1>3. PICK q \in Writers : Step(q)
    BY <1>2
    DEF Next, Environment, Terminated, vars, outcome, ForeignReplace, ForeignRewrite,
        ForeignLink, ForeignDelete, MoveParent, PowerLoss, Kill, elsewhere
<1>4. Noop2(q) /\ q = p
  <2>1. ASSUME ~Noop2(q) PROVE result'[p] = result[p] \/ result'[p] # "unchanged"
    BY <1>1, <1>3, <2>1
    DEF ControlType, Step, Begin, Probe, Open, Sum, Confirm, Noop1, MakeWorkspace,
        EarlyFault, GuardedFault, CreatePayload, WritePayload, FlushPayload,
        Install, SyncWorkspace, VerifyDisplaced, StatInstalled, VerifyInstalled,
        SyncParent, Restat, Canon1, Canon2, Discard, Rollback, VerifyCaptured,
        Close, RemoveWorkspace, Post1, Post2, PostFault, Return, FailNaming, Spent, Exit, Advance,
        Abort, Require, Commit, outcome
  <2>2. Noop2(q)
    BY <2>1
  <2> QED
    BY <1>1, <2>2 DEF Noop2, Exit, Return, ControlType
<1>5. SecondReadIs(p, before[p]) /\ Verified(p) /\ pc[p] = "noop2"
    BY <1>1, <1>4
    DEF Noop2, Exit, Return, ControlType, AllVerified, Checking
<1>6. target = before[p].ino /\ file[target].ctime = before[p].ctime
    BY <1>5 DEF SecondReadIs, SameSnapshot, SameIdentity, Current, Stat
<1> QED
    BY <1>5, <1>6 DEF Verified, SecondReadIs

\* changed=false means that the canonical path leads to a file with the wanted
\* content and metadata: no foreign replacement, rewrite or relink between the
\* checksum and the last stat goes unnoticed.
THEOREM UnchangedTruthful == Spec => UnchangedIsTruthful
<1>1. Init => AllVerified
    BY DEF Init, AllVerified, Checking
<1>2. Spec => [](IInv /\ AllVerified)
    BY <1>1, InitInv, NextInv, NextVerified, PTL DEF Spec
<1>3. IInv /\ AllVerified /\ [Next]_vars
        => [\A p \in Writers : result[p] = "running" /\ result'[p] = "unchanged" =>
              bound /\ target # NoFile /\ file[target].content = req[p].desired
                    /\ file[target].ok]_vars
    BY UnchangedReturned
<1> QED
    BY <1>2, <1>3, PTL DEF Spec, UnchangedIsTruthful
----------------------------------------------------------------------------
(***************************************************************************)
(* Which file is whose.                                                    *)
(*                                                                         *)
(* A writer's payload, its own or the entry it displaced, is nobody else's *)
(* (Apart), so what it verified in the displaced entry holds until it      *)
(* discards it (Displaced).  Shape says what a writer has at each step.    *)
(***************************************************************************)
Alive(p) == pc[p] # "dead"
Holds(p) == pc[p] \notin {"begin", "done", "dead"}
Idle == {"begin", "payload"} \cup Early
Staging == {"write", "flush", "install"}
Placed == {"syncws", "vdisp", "stat", "vinst", "sync", "restat", "canon1", "canon2", "discard"}
Rechecked == Placed \ {"syncws", "vdisp"}
Leaving(p) == pc[p] \in {"close", "rmws"} /\ ~failure[p]
Sealed(p) == pc[p] \in (Rechecked \ {"stat"}) \cup {"post1", "post2"} \/ Leaving(p)

\* What a writer has, and has done, at each step.
Shape(p) ==
    /\ payload[p] # NoFile \/ failed[p] # NoFile => ws[p]
    /\ pc[p] \in Idle =>
         mine[p] = NoFile /\ payload[p] = NoFile /\ displaced[p].ino = NoFile
    /\ pc[p] = "payload" => ws[p]
    /\ pc[p] \in Idle \ {"payload"} => ~ws[p]
    /\ pc[p] \in Idle \cup Staging =>
         ~installed[p] /\ ~failure[p] /\ keep[p] = "no" /\ failed[p] = NoFile
    /\ pc[p] \in Staging =>
         mine[p] # NoFile /\ payload[p] = mine[p] /\ displaced[p].ino = NoFile
    /\ pc[p] \in Placed =>
         /\ installed[p] /\ ~failure[p] /\ keep[p] = "no" /\ failed[p] = NoFile /\ ws[p]
         /\ (before[p] = NoStat => payload[p] = NoFile)
    /\ pc[p] \in {"install", "rollback", "vcap"} \cup Placed => staged[p].ino = mine[p]
    /\ pc[p] = "syncws" => displaced[p].ino = NoFile
    /\ pc[p] = "vdisp" \/ (pc[p] \in Rechecked /\ payload[p] # NoFile) => displaced[p].ino = payload[p]
    /\ Sealed(p) => final[p].ino = mine[p]
    /\ pc[p] \in {"rollback", "vcap"} =>
         installed[p] /\ failure[p] /\ keep[p] = "no" /\ payload[p] = NoFile /\ ws[p]
    /\ pc[p] = "rollback" => failed[p] = NoFile
    /\ pc[p] \in {"rollback", "vcap"} \cup Placed => mine[p] # NoFile
    /\ pc[p] \in {"close", "rmws"} /\ failure[p] /\ keep[p] = "no" => ~installed[p]
    /\ pc[p] \in {"post1", "post2"} => payload[p] = NoFile /\ failed[p] = NoFile /\ ~ws[p]
    /\ pc[p] = "done" /\ report[p] = "none" =>
         ~ws[p] /\ (result[p] = "failed" => ~installed[p])

\* A writer that has rolled its payload back does not have it at the path.
RolledBack(p) ==
    mine[p] # NoFile /\ (~installed[p] \/ failed[p] = mine[p]) => mine[p] # target

\* Nobody else has a writer's payload.
Apart ==
    /\ \A p, q \in Writers : p # q /\ mine[p] # NoFile => mine[p] # mine[q]
    /\ \A p \in Writers : Alive(p) /\ payload[p] # NoFile =>
         /\ payload[p] # target
         /\ \A q \in Writers : q # p /\ Alive(q) => payload[q] # payload[p]
         /\ payload[p] = mine[p] => mine[p] \notin theirs
    /\ \A p \in Writers : Alive(p) => RolledBack(p)

\* What was displaced is what the caller expected.
Displaced ==
    \A p \in Writers :
        pc[p] \in Rechecked /\ payload[p] # NoFile => file[payload[p]].content = req[p].expected

OwnInv == (\A p \in Writers : Shape(p)) /\ Apart /\ Displaced /\ NoSilentLoss
----------------------------------------------------------------------------
(* A step leaves the other writers as they are. *)

Frame(q) ==
    /\ pc'[q] = pc[q] /\ failure'[q] = failure[q] /\ keep'[q] = keep[q]
    /\ result'[q] = result[q] /\ report'[q] = report[q]
    /\ mine'[q] = mine[q] /\ payload'[q] = payload[q] /\ failed'[q] = failed[q]
    /\ ws'[q] = ws[q] /\ installed'[q] = installed[q]
    /\ before'[q] = before[q] /\ staged'[q] = staged[q] /\ displaced'[q] = displaced[q]
    /\ final'[q] = final[q] /\ observed'[q] = observed[q]

LEMMA StepFrames ==
    ASSUME IInv, NEW p \in Writers, NEW q \in Writers, q # p, Step(p)
    PROVE  Frame(q) /\ UNCHANGED <<req, foreign>>
<1>1. pc'[q] = pc[q] /\ failure'[q] = failure[q] /\ mine'[q] = mine[q]
    BY OthersStay
<1>2. keep'[q] = keep[q]
    BY
    DEF IInv, TypeOK, Step, Begin, Probe, Open, Sum, Confirm, Noop1, Noop2, MakeWorkspace,
        EarlyFault, GuardedFault, CreatePayload, WritePayload, FlushPayload,
        Install, SyncWorkspace, VerifyDisplaced, StatInstalled, VerifyInstalled,
        SyncParent, Restat, Canon1, Canon2, Discard, Rollback, VerifyCaptured,
        Close, RemoveWorkspace, Post1, Post2, PostFault, Return, FailNaming, Spent, Exit, Advance,
        Abort, Require, Commit, Preserve, outcome
<1>3. result'[q] = result[q] /\ report'[q] = report[q]
    BY
    DEF IInv, TypeOK, Step, Begin, Probe, Open, Sum, Confirm, Noop1, Noop2, MakeWorkspace,
        EarlyFault, GuardedFault, CreatePayload, WritePayload, FlushPayload,
        Install, SyncWorkspace, VerifyDisplaced, StatInstalled, VerifyInstalled,
        SyncParent, Restat, Canon1, Canon2, Discard, Rollback, VerifyCaptured,
        Close, RemoveWorkspace, Post1, Post2, PostFault, Return, FailNaming, Spent, Exit, Advance,
        Abort, Require, Commit, outcome
<1>4. payload'[q] = payload[q] /\ failed'[q] = failed[q]
    BY
    DEF IInv, TypeOK, Step, Begin, Probe, Open, Sum, Confirm, Noop1, Noop2, MakeWorkspace,
        EarlyFault, GuardedFault, CreatePayload, WritePayload, FlushPayload,
        Install, SyncWorkspace, VerifyDisplaced, StatInstalled, VerifyInstalled,
        SyncParent, Restat, Canon1, Canon2, Discard, Rollback, VerifyCaptured,
        Close, RemoveWorkspace, Post1, Post2, PostFault, unread, private
<1>5. ws'[q] = ws[q] /\ installed'[q] = installed[q]
    BY
    DEF IInv, TypeOK, Step, Begin, Probe, Open, Sum, Confirm, Noop1, Noop2, MakeWorkspace,
        EarlyFault, GuardedFault, CreatePayload, WritePayload, FlushPayload,
        Install, SyncWorkspace, VerifyDisplaced, StatInstalled, VerifyInstalled,
        SyncParent, Restat, Canon1, Canon2, Discard, Rollback, VerifyCaptured,
        Close, RemoveWorkspace, Post1, Post2, PostFault, unread, private, local, locals
<1>6. before'[q] = before[q] /\ staged'[q] = staged[q] /\ displaced'[q] = displaced[q]
    BY
    DEF IInv, TypeOK, Step, Begin, Probe, Open, Sum, Confirm, Noop1, Noop2, MakeWorkspace,
        EarlyFault, GuardedFault, CreatePayload, WritePayload, FlushPayload,
        Install, SyncWorkspace, VerifyDisplaced, StatInstalled, VerifyInstalled,
        SyncParent, Restat, Canon1, Canon2, Discard, Rollback, VerifyCaptured,
        Close, RemoveWorkspace, Post1, Post2, PostFault, local, locals
<1>7. final'[q] = final[q] /\ observed'[q] = observed[q]
    BY
    DEF IInv, TypeOK, Step, Begin, Probe, Open, Sum, Confirm, Noop1, Noop2, MakeWorkspace,
        EarlyFault, GuardedFault, CreatePayload, WritePayload, FlushPayload,
        Install, SyncWorkspace, VerifyDisplaced, StatInstalled, VerifyInstalled,
        SyncParent, Restat, Canon1, Canon2, Discard, Rollback, VerifyCaptured,
        Close, RemoveWorkspace, Post1, Post2, PostFault, FirstRead, local, locals
<1>8. UNCHANGED <<req, foreign>>
    BY
    DEF Step, Begin, Probe, Open, Sum, Confirm, Noop1, Noop2, MakeWorkspace,
        EarlyFault, GuardedFault, CreatePayload, WritePayload, FlushPayload,
        Install, SyncWorkspace, VerifyDisplaced, StatInstalled, VerifyInstalled,
        SyncParent, Restat, Canon1, Canon2, Discard, Rollback, VerifyCaptured,
        Close, RemoveWorkspace, Post1, Post2, PostFault, unread, observer, bounds
<1> QED
    BY <1>1, <1>2, <1>3, <1>4, <1>5, <1>6, <1>7, <1>8 DEF Frame
----------------------------------------------------------------------------
(* A writer's own step keeps its shape. *)

LEMMA BeginShape ==
    ASSUME IInv, NEW p \in Writers, Shape(p), Apart, Begin(p)
    PROVE  Shape(p)'
    BY
    DEF Shape, Sealed, Leaving, Idle, Staging, Placed, Rechecked, Early, IInv, TypeOK,
        Begin, Go, Return, Exit, disk, private, local, outcome, bounds,
        observer, unread

LEMMA ProbeShape ==
    ASSUME IInv, NEW p \in Writers, Shape(p), Apart, Probe(p)
    PROVE  Shape(p)'
    BY
    DEF Shape, Sealed, Leaving, Idle, Staging, Placed, Rechecked, Early, IInv, TypeOK,
        Probe, Go, Return, Exit, Advance, Commit, disk, private, outcome,
        bounds, observer, unread, Current

LEMMA OpenShape ==
    ASSUME IInv, NEW p \in Writers, Shape(p), Apart, Open(p)
    PROVE  Shape(p)'
    BY
    DEF Shape, Sealed, Leaving, Idle, Staging, Placed, Rechecked, Early, IInv, TypeOK,
        Open, Go, Return, Exit, Advance, disk, private, local, outcome, bounds,
        observer, unread, Current

LEMMA SumShape ==
    ASSUME IInv, NEW p \in Writers, Shape(p), Apart, Sum(p)
    PROVE  Shape(p)'
    BY
    DEF Shape, Sealed, Leaving, Idle, Staging, Placed, Rechecked, Early, IInv, TypeOK,
        Sum, Go, Return, Exit, Advance, disk, private, local, outcome, bounds,
        observer, unread

LEMMA ConfirmShape ==
    ASSUME IInv, NEW p \in Writers, Shape(p), Apart, Confirm(p)
    PROVE  Shape(p)'
    BY
    DEF Shape, Sealed, Leaving, Idle, Staging, Placed, Rechecked, Early, IInv, TypeOK,
        Confirm, Go, Return, Exit, Advance, Commit, disk, private, local,
        outcome, bounds, observer, unread

LEMMA Noop1Shape ==
    ASSUME IInv, NEW p \in Writers, Shape(p), Apart, Noop1(p)
    PROVE  Shape(p)'
    BY
    DEF Shape, Sealed, Leaving, Idle, Staging, Placed, Rechecked, Early, IInv, TypeOK,
        Noop1, Go, Return, Exit, Advance, FirstRead, disk, private, outcome,
        bounds, observer, unread, locals, Current

LEMMA Noop2Shape ==
    ASSUME IInv, NEW p \in Writers, Shape(p), Apart, Noop2(p)
    PROVE  Shape(p)'
    BY
    DEF Shape, Sealed, Leaving, Idle, Staging, Placed, Rechecked, Early, IInv, TypeOK,
        Noop2, Go, Return, Exit, disk, private, local, bounds, observer, unread

LEMMA MakeWorkspaceShape ==
    ASSUME IInv, NEW p \in Writers, Shape(p), Apart, MakeWorkspace(p)
    PROVE  Shape(p)'
    BY
    DEF Shape, Sealed, Leaving, Idle, Staging, Placed, Rechecked, Early, IInv, TypeOK,
        MakeWorkspace, Go, Return, FailNaming, Spent, Advance, disk, local, outcome

LEMMA EarlyFaultShape ==
    ASSUME IInv, NEW p \in Writers, Shape(p), Apart, EarlyFault(p)
    PROVE  Shape(p)'
    BY
    DEF Shape, Sealed, Leaving, Idle, Staging, Placed, Rechecked, Early, IInv, TypeOK,
        EarlyFault, Go, Return, Exit, disk, private, local

LEMMA GuardedFaultShape ==
    ASSUME IInv, NEW p \in Writers, Shape(p), Apart, GuardedFault(p)
    PROVE  Shape(p)'
    BY
    DEF Shape, Sealed, Leaving, Idle, Staging, Placed, Rechecked, Early, Guarded, IInv,
        TypeOK, GuardedFault, Go, Abort, disk, private, local

LEMMA CreatePayloadShape ==
    ASSUME IInv, NEW p \in Writers, Shape(p), Apart, CreatePayload(p)
    PROVE  Shape(p)'
<1>1. New # NoFile
    BY TableType DEF New, NoFile, IInv, TypeOK
<1> QED
    BY <1>1
    DEF Shape, Sealed, Leaving, Idle, Staging, Placed, Rechecked, Early, IInv, TypeOK,
        CreatePayload, Go, Advance, outcome, bounds, observer

LEMMA WritePayloadShape ==
    ASSUME IInv, NEW p \in Writers, Shape(p), Apart, WritePayload(p)
    PROVE  Shape(p)'
    BY
    DEF Shape, Sealed, Leaving, Idle, Staging, Placed, Rechecked, Early, IInv, TypeOK,
        WritePayload, Go, Advance, private, local, outcome, bounds, observer

LEMMA FlushPayloadShape ==
    ASSUME IInv, NEW p \in Writers, Shape(p), Apart, FlushPayload(p)
    PROVE  Shape(p)'
    BY StatIno
    DEF Shape, Sealed, Leaving, Idle, Staging, Placed, Rechecked, Early, IInv, TypeOK,
        FlushPayload, Go, Advance, private, outcome, bounds, observer

LEMMA InstallShape ==
    ASSUME IInv, NEW p \in Writers, Shape(p), Apart, Install(p)
    PROVE  Shape(p)'
    BY
    DEF Shape, Sealed, Leaving, Idle, Staging, Placed, Rechecked, Early, IInv, TypeOK,
        Install, Go, Advance, Abort, outcome, bounds, observer

LEMMA SyncWorkspaceShape ==
    ASSUME IInv, NEW p \in Writers, Shape(p), Apart, SyncWorkspace(p)
    PROVE  Shape(p)'
    BY StatIno
    DEF Shape, Sealed, Leaving, Idle, Staging, Placed, Rechecked, Early, IInv, TypeOK,
        SyncWorkspace, Go, Advance, disk, private, outcome, bounds, observer,
        unread

LEMMA VerifyDisplacedShape ==
    ASSUME IInv, NEW p \in Writers, Shape(p), Apart, VerifyDisplaced(p)
    PROVE  Shape(p)'
    BY
    DEF Shape, Sealed, Leaving, Idle, Staging, Placed, Rechecked, Early, IInv, TypeOK,
        VerifyDisplaced, Go, Advance, Abort, Require, disk, private, local,
        outcome, bounds, observer, unread

LEMMA StatInstalledShape ==
    ASSUME IInv, NEW p \in Writers, Shape(p), Apart, StatInstalled(p)
    PROVE  Shape(p)'
    BY StatIno
    DEF Shape, Sealed, Leaving, Idle, Staging, Placed, Rechecked, Early, IInv, TypeOK,
        StatInstalled, SameIdentity, Go, Advance, Abort, Require, disk, private, outcome,
        bounds, observer, unread, locals, Current

LEMMA VerifyInstalledShape ==
    ASSUME IInv, NEW p \in Writers, Shape(p), Apart, VerifyInstalled(p)
    PROVE  Shape(p)'
    BY
    DEF Shape, Sealed, Leaving, Idle, Staging, Placed, Rechecked, Early, IInv, TypeOK,
        VerifyInstalled, Go, Advance, Abort, Require, disk, private, local,
        outcome, bounds, observer, unread

LEMMA SyncParentShape ==
    ASSUME IInv, NEW p \in Writers, Shape(p), Apart, SyncParent(p)
    PROVE  Shape(p)'
    BY
    DEF Shape, Sealed, Leaving, Idle, Staging, Placed, Rechecked, Early, IInv, TypeOK,
        SyncParent, Go, Advance, private, local, outcome, bounds, observer

LEMMA RestatShape ==
    ASSUME IInv, NEW p \in Writers, Shape(p), Apart, Restat(p)
    PROVE  Shape(p)'
    BY
    DEF Shape, Sealed, Leaving, Idle, Staging, Placed, Rechecked, Early, IInv, TypeOK,
        Restat, Go, Advance, Abort, Require, disk, private, local, outcome,
        bounds, observer, unread, Current

LEMMA Canon1Shape ==
    ASSUME IInv, NEW p \in Writers, Shape(p), Apart, Canon1(p)
    PROVE  Shape(p)'
    BY
    DEF Shape, Sealed, Leaving, Idle, Staging, Placed, Rechecked, Early, IInv, TypeOK,
        Canon1, Go, Advance, Abort, Require, FirstRead, disk, private, outcome,
        bounds, observer, unread, locals, Current

LEMMA Canon2Shape ==
    ASSUME IInv, NEW p \in Writers, Shape(p), Apart, Canon2(p)
    PROVE  Shape(p)'
    BY
    DEF Shape, Sealed, Leaving, Idle, Staging, Placed, Rechecked, Early, IInv, TypeOK,
        Canon2, Go, Advance, Abort, Require, disk, private, local, outcome,
        bounds, observer, unread

LEMMA DiscardShape ==
    ASSUME IInv, NEW p \in Writers, Shape(p), Apart, Discard(p)
    PROVE  Shape(p)'
    BY
    DEF Shape, Sealed, Leaving, Idle, Staging, Placed, Rechecked, Early, IInv, TypeOK,
        Discard, Go, Advance, disk, local, outcome, bounds, observer

LEMMA RollbackShape ==
    ASSUME IInv, NEW p \in Writers, Shape(p), Apart, Rollback(p)
    PROVE  Shape(p)'
    BY
    DEF Shape, Sealed, Leaving, Idle, Staging, Placed, Rechecked, Early, IInv, TypeOK,
        Rollback, Go, Advance, Preserve, local, outcome

LEMMA VerifyCapturedShape ==
    ASSUME IInv, NEW p \in Writers, Shape(p), Apart, VerifyCaptured(p)
    PROVE  Shape(p)'
    BY
    DEF Shape, Sealed, Leaving, Idle, Staging, Placed, Rechecked, Early, IInv, TypeOK,
        VerifyCaptured, Go, Preserve, disk

LEMMA CloseShape ==
    ASSUME IInv, NEW p \in Writers, Shape(p), Apart, Close(p)
    PROVE  Shape(p)'
    BY
    DEF Shape, Sealed, Leaving, Idle, Staging, Placed, Rechecked, Early, IInv, TypeOK,
        Close, Go, Preserve, disk, local, OwnPayloadRemoved

LEMMA RemoveWorkspaceShape ==
    ASSUME IInv, NEW p \in Writers, Shape(p), Apart, RemoveWorkspace(p)
    PROVE  Shape(p)'
    BY
    DEF Shape, Sealed, Leaving, Idle, Staging, Placed, Rechecked, Early, IInv, TypeOK,
        RemoveWorkspace, WorkspaceEmpty, Keeps, Go, Return, FailNaming, Spent, disk, local

LEMMA Post1Shape ==
    ASSUME IInv, NEW p \in Writers, Shape(p), Apart, Post1(p)
    PROVE  Shape(p)'
    BY
    DEF Shape, Sealed, Leaving, Idle, Staging, Placed, Rechecked, Early, IInv, TypeOK,
        Post1, Go, Return, FailNaming, Spent, Advance, FirstRead, disk, private, outcome, bounds,
        observer, unread, locals, Current

LEMMA Post2Shape ==
    ASSUME IInv, NEW p \in Writers, Shape(p), Apart, Post2(p)
    PROVE  Shape(p)'
    BY
    DEF Shape, Sealed, Leaving, Idle, Staging, Placed, Rechecked, Early, IInv, TypeOK,
        Post2, Go, Return, FailNaming, Spent, disk, private, local, bounds

LEMMA PostFaultShape ==
    ASSUME IInv, NEW p \in Writers, Shape(p), Apart, PostFault(p)
    PROVE  Shape(p)'
    BY
    DEF Shape, Sealed, Leaving, Idle, Staging, Placed, Rechecked, Early, IInv, TypeOK,
        PostFault, Go, Return, FailNaming, Spent, disk, private, local

LEMMA StepShape ==
    ASSUME IInv, NEW p \in Writers, Shape(p), Apart, Step(p)
    PROVE  Shape(p)'
    BY BeginShape, ProbeShape, OpenShape, SumShape, ConfirmShape, Noop1Shape, Noop2Shape,
       MakeWorkspaceShape, EarlyFaultShape, GuardedFaultShape, CreatePayloadShape,
       WritePayloadShape, FlushPayloadShape, InstallShape, SyncWorkspaceShape,
       VerifyDisplacedShape, StatInstalledShape, VerifyInstalledShape, SyncParentShape,
       RestatShape, Canon1Shape, Canon2Shape, DiscardShape, RollbackShape,
       VerifyCapturedShape, CloseShape, RemoveWorkspaceShape, Post1Shape, Post2Shape,
       PostFaultShape
    DEF Step
----------------------------------------------------------------------------
(* How a step moves files between the path, the table and a workspace. *)

\* Only WritePayload changes contents, and only its own payload's.
LEMMA StepContents ==
    ASSUME IInv, NEW p \in Writers, Shape(p), Step(p), NEW i \in Inodes(file)
    PROVE  \/ file'[i].content = file[i].content
           \/ WritePayload(p) /\ i = mine[p]
<1>1. file \in Seq(Node) /\ \A j \in Inodes(file) : file[j] \in Node
    BY TableType DEF IInv, TypeOK
<1>2. CASE UNCHANGED file
    BY <1>2
<1>3. CASE CreatePayload(p)
  <2>1. ASSUME NEW node PROVE Append(file, node)[i] = file[i]
    BY <1>1 DEF Inodes
  <2> QED
    BY <1>3, <2>1 DEF CreatePayload
<1>4. CASE WritePayload(p) /\ i # mine[p]
    BY <1>1, <1>4, RewriteKeeps DEF WritePayload
<1>5. CASE FlushPayload(p)
  <2>1. mine[p] \in Inodes(file) /\ file[mine[p]].content # Torn /\ DiskType
    BY <1>5, TableType
    DEF FlushPayload, IInv, HasPayload, Holding, WholeEntries, TypeOK, DiskType, Ids, NoFile, Inodes
  <2> QED
    BY <1>5, <2>1, EvolvesByFlush
<1>6. CASE Install(p) \/ Rollback(p)
    BY <1>1, <1>2, <1>6, RelinkKeeps DEF Install, Rollback
<1> QED
    BY <1>2, <1>3, <1>4, <1>5, <1>6, DiskSteps DEF disk

Moves(p) ==
    \/ mine'[p] = mine[p] /\ payload'[p] \in {payload[p], NoFile} /\ target' \in {target, NoFile}
    \/ mine'[p] = New /\ payload'[p] = New /\ target' = target /\ theirs' = theirs
    \/ /\ mine'[p] = mine[p] /\ target' = mine[p] /\ mine[p] # NoFile
       /\ payload[p] = mine[p] /\ payload'[p] = target /\ theirs' = theirs

LEMMA StepMoves ==
    ASSUME IInv, NEW p \in Writers, Shape(p), Step(p)
    PROVE  Moves(p)
<1>1. mine \in [Writers -> Ids] /\ payload \in [Writers -> Ids]
    BY DEF IInv, TypeOK
<1>2. CASE CreatePayload(p)
    BY <1>1, <1>2 DEF CreatePayload, Moves, observer
<1>3. CASE Install(p)
    BY <1>1, <1>3 DEF Install, Moves, observer, Shape, Staging
<1>4. \/ CreatePayload(p) \/ Install(p)
      \/ /\ mine' = mine
         /\ payload' = payload \/ payload' = [payload EXCEPT ![p] = NoFile]
         /\ target' \in {target, NoFile}
    BY DEF Step, Begin, Probe, Open, Sum, Confirm, Noop1, Noop2, MakeWorkspace,
           EarlyFault, GuardedFault, WritePayload, FlushPayload, SyncWorkspace,
           VerifyDisplaced, StatInstalled, VerifyInstalled, SyncParent, Restat,
           Canon1, Canon2, Discard, Rollback, VerifyCaptured, Close, RemoveWorkspace,
           Post1, Post2, PostFault, unread, disk, private, local, locals
<1> QED
    BY <1>1, <1>2, <1>3, <1>4 DEF Moves

\* Post2 hands the payload over.
LEMMA StepTheirs ==
    ASSUME IInv, NEW p \in Writers, Shape(p), Step(p)
    PROVE  \/ theirs' = theirs
           \/ /\ theirs' = theirs \cup {mine[p]} /\ Post2(p)
              /\ target = mine[p] /\ target' = mine[p]
<1>1. CASE Post2(p) /\ SecondReadIs(p, final[p])
  <2>1. target = final[p].ino
    BY <1>1, StatIno DEF SecondReadIs, SameSnapshot, SameIdentity, Current
  <2> QED
    BY <1>1, <2>1 DEF Post2, Shape, Sealed, disk
<1>2. CASE ~(Post2(p) /\ SecondReadIs(p, final[p]))
    BY <1>2, DiskSteps DEF Post2
<1> QED
    BY <1>1, <1>2

LEMMA StepRolledBack ==
    ASSUME IInv, NEW p \in Writers, Shape(p), pc[p] # "dead" => RolledBack(p), Step(p)
    PROVE  RolledBack(p)'
<1>1. /\ mine \in [Writers -> Ids] /\ failed \in [Writers -> Ids] /\ target \in Ids
      /\ installed \in [Writers -> BOOLEAN] /\ Len(file) \in Nat /\ pc[p] # "dead"
    BY TableType
    DEF IInv, TypeOK, Step, Begin, Probe, Open, Sum, Confirm, Noop1, Noop2, MakeWorkspace,
        EarlyFault, GuardedFault, CreatePayload, WritePayload, FlushPayload,
        Install, SyncWorkspace, VerifyDisplaced, StatInstalled, VerifyInstalled,
        SyncParent, Restat, Canon1, Canon2, Discard, Rollback, VerifyCaptured,
        Close, RemoveWorkspace, Post1, Post2, PostFault, Early, Guarded
<1>2. RolledBack(p)
    BY <1>1
<1>3. CASE CreatePayload(p)
    BY <1>1, <1>3 DEF CreatePayload, RolledBack, New, Ids
<1>4. CASE Install(p)
    BY <1>1, <1>2, <1>4 DEF Install, RolledBack, Shape, Staging
<1>5. CASE Rollback(p)
    BY <1>1, <1>2, <1>5 DEF Rollback, RolledBack, local, NoFile
<1>6. CASE VerifyCaptured(p)
    BY <1>1, <1>2, <1>6, StatIno
    DEF VerifyCaptured, RolledBack, CapturedIsMine, SameIdentity, Shape, disk
<1>7. \/ CreatePayload(p) \/ Install(p) \/ Rollback(p) \/ VerifyCaptured(p)
      \/ UNCHANGED <<mine, installed, failed, target>>
    BY DEF Step, Begin, Probe, Open, Sum, Confirm, Noop1, Noop2, MakeWorkspace,
           EarlyFault, GuardedFault, WritePayload, FlushPayload, SyncWorkspace,
           VerifyDisplaced, StatInstalled, VerifyInstalled, SyncParent, Restat,
           Canon1, Canon2, Discard, Close, RemoveWorkspace,
           Post1, Post2, PostFault, unread, disk, private, local, locals
<1>8. CASE UNCHANGED <<mine, installed, failed, target>>
    BY <1>2, <1>8 DEF RolledBack
<1> QED
    BY <1>3, <1>4, <1>5, <1>6, <1>7, <1>8
----------------------------------------------------------------------------
(* A writer's step keeps the others' files apart from its own. *)

LEMMA OwnTypes ==
    ASSUME IInv
    PROVE  /\ target \in Ids /\ theirs \subseteq Ids \ {NoFile} /\ New \notin Ids
           /\ mine \in [Writers -> Ids] /\ payload \in [Writers -> Ids]
           /\ failed \in [Writers -> Ids]
           /\ \A i \in Ids : i # NoFile => i \in Inodes(file)
    BY TableType DEF IInv, TypeOK, Ids, New, NoFile, Inodes

LEMMA StepperAlive ==
    ASSUME NEW p \in Writers, Step(p)
    PROVE  pc[p] \notin {"done", "dead"}
    BY DEF Step, Begin, Probe, Open, Sum, Confirm, Noop1, Noop2, MakeWorkspace,
           EarlyFault, GuardedFault, CreatePayload, WritePayload, FlushPayload,
           Install, SyncWorkspace, VerifyDisplaced, StatInstalled, VerifyInstalled,
           SyncParent, Restat, Canon1, Canon2, Discard, Rollback, VerifyCaptured,
           Close, RemoveWorkspace, Post1, Post2, PostFault, Early, Guarded

LEMMA StepApart ==
    ASSUME IInv, NEW p \in Writers, Shape(p), Apart, Step(p)
    PROVE  Apart'
<1>1. /\ Moves(p) /\ pc[p] # "dead" /\ RolledBack(p)
      /\ \A q \in Writers : q # p => Frame(q)
    BY StepMoves, StepperAlive, StepFrames DEF Apart, Alive
<1>2. RolledBack(p)'
    BY StepRolledBack, <1>1
<1>3. \/ theirs' = theirs
      \/ theirs' = theirs \cup {mine[p]} /\ payload[p] = NoFile
    BY StepTheirs DEF Post2, Shape
<1>4. /\ target \in Ids /\ theirs \subseteq Ids \ {NoFile} /\ New \notin Ids
      /\ \A q \in Writers : mine[q] \in Ids /\ payload[q] \in Ids
      /\ NoFile \in Ids
    BY OwnTypes, TableType DEF IInv, TypeOK, Ids, NoFile
<1>5. ASSUME NEW q \in Writers, NEW r \in Writers, q # r, mine'[q] # NoFile
      PROVE  mine'[q] # mine'[r]
    BY <1>1, <1>4, <1>5 DEF Apart, Moves, Frame
<1>6. ASSUME NEW r \in Writers, r # p, Alive(r)', payload'[r] # NoFile
      PROVE  /\ payload'[r] # target'
             /\ \A q \in Writers : q # r /\ Alive(q)' => payload'[q] # payload'[r]
             /\ payload'[r] = mine'[r] => mine'[r] \notin theirs'
  <2>1. payload[r] # NoFile /\ Alive(r) /\ Alive(p) /\ payload'[r] = payload[r] /\ mine'[r] = mine[r]
    BY <1>1, <1>6 DEF Alive, Frame
  <2>2. payload[r] # target /\ payload[r] # payload[p]
    BY <1>6, <2>1 DEF Apart
  <2>3. payload[r] # target' /\ payload[r] # payload'[p]
    BY <1>1, <1>4, <2>1, <2>2 DEF Moves
  <2>4. \A q \in Writers : q # p /\ q # r /\ Alive(q)' => payload'[q] # payload[r]
    BY <1>1, <2>1 DEF Apart, Frame, Alive
  <2>5. payload[r] = mine[r] => mine[r] \notin theirs'
    BY <1>3, <1>6, <2>1 DEF Apart
  <2> QED
    BY <2>1, <2>3, <2>4, <2>5
<1>7. ASSUME payload'[p] # NoFile
      PROVE  /\ payload'[p] # target'
             /\ \A q \in Writers : q # p /\ Alive(q)' => payload'[q] # payload'[p]
             /\ payload'[p] = mine'[p] => mine'[p] \notin theirs'
  <2>1. \A q \in Writers : q # p /\ Alive(q)' =>
          /\ payload'[q] = payload[q]
          /\ payload[q] # NoFile => payload[q] # target /\ payload[q] # payload[p]
    BY <1>1 DEF Apart, Frame, Alive
  <2>2. payload[p] # NoFile =>
          payload[p] # target /\ (payload[p] = mine[p] => mine[p] \notin theirs)
    BY <1>1 DEF Apart, Alive
  <2> QED
    BY <1>1, <1>3, <1>4, <1>7, <2>1, <2>2 DEF Moves
<1>8. ASSUME NEW r \in Writers, r # p, Alive(r)'
      PROVE  RolledBack(r)'
  <2>1. RolledBack(r) /\ (mine[r] # NoFile => mine[r] # mine[p])
    BY <1>1, <1>8 DEF Apart, Alive, Frame
  <2> QED
    BY <1>1, <1>4, <1>8, <2>1 DEF Moves, RolledBack, Frame
<1> QED
    BY <1>2, <1>5, <1>6, <1>7, <1>8 DEF Apart

LEMMA StepDisplaced ==
    ASSUME IInv, NEW p \in Writers, Shape(p), Apart, Displaced, Step(p)
    PROVE  Displaced'
<1>1. /\ pc \in [Writers -> Steps] /\ pc[p] # "dead"
      /\ \A q \in Writers : q # p => Frame(q) /\ UNCHANGED req
      /\ \A q \in Writers : payload[q] # NoFile => payload[q] \in Inodes(file)
    BY StepFrames, StepperAlive, OwnTypes DEF IInv, TypeOK
<1>2. ASSUME NEW q \in Writers, q # p, pc'[q] \in Rechecked, payload'[q] # NoFile
      PROVE  file'[payload'[q]].content = req'[q].expected
  <2>1. payload'[q] = payload[q] /\ file[payload[q]].content = req[q].expected
    BY <1>1, <1>2 DEF Displaced, Frame
  <2>2. payload[q] # payload[p] /\ payload[q] \in Inodes(file)
    BY <1>1, <1>2, <2>1 DEF Apart, Alive, Frame, Rechecked, Placed
  <2> QED
    BY <1>1, <1>2, <2>1, <2>2, StepContents DEF WritePayload, Shape, Staging
<1>3. ASSUME pc'[p] \in Rechecked, payload'[p] # NoFile
      PROVE  file'[payload'[p]].content = req'[p].expected
  <2>1. CASE VerifyDisplaced(p)
    BY <1>1, <1>3, <2>1
    DEF VerifyDisplaced, Require, Advance, Abort, Go, unread, disk, private, local, Rechecked, Placed
  <2>2. CASE Install(p)
    BY <1>1, <1>3, <2>2, OwnTypes DEF Install, Advance, Abort, Go, Rechecked, Placed
  <2>3. CASE pc[p] \in Rechecked /\ UNCHANGED <<file, req>> /\ payload'[p] \in {payload[p], NoFile}
    BY <1>3, <2>3 DEF Displaced
  <2>4. \/ VerifyDisplaced(p) \/ Install(p)
        \/ pc[p] \in Rechecked /\ UNCHANGED <<file, req>> /\ payload'[p] \in {payload[p], NoFile}
    BY <1>1, <1>3, OwnTypes
    DEF Step, Begin, Probe, Open, Sum, Confirm, Noop1, Noop2, MakeWorkspace,
        EarlyFault, GuardedFault, CreatePayload, WritePayload, FlushPayload,
        SyncWorkspace, StatInstalled, VerifyInstalled, SyncParent, Restat, Canon1,
        Canon2, Discard, Rollback, VerifyCaptured, Close, RemoveWorkspace, Post1,
        Post2, PostFault, Go, Return, FailNaming, Spent, Exit, Advance, Abort, Require, Commit,
        Rechecked, Placed, unread, disk, private, local, locals
  <2> QED
    BY <2>1, <2>2, <2>3, <2>4
<1> QED
    BY <1>2, <1>3 DEF Displaced
----------------------------------------------------------------------------
(* A writer's step loses no file. *)

Keeps1(p, i) ==
    \/ ws[p] /\ i \in {payload[p], failed[p]}
    \/ displaced[p].ino = i /\ file[i].content = req[p].expected
    \/ ~installed[p] /\ mine[p] = i /\ file[i].content = req[p].desired

LEMMA HeldBy ==
    \A i : Held(i) <=> i = target \/ \E p \in Writers : Keeps1(p, i)
    BY DEF Held, Keeps1

\* The steps that change what a writer keeps.
LEMMA KeepSteps ==
    ASSUME NEW p \in Writers, Step(p)
    PROVE  \/ UNCHANGED <<file, target, ws, payload, failed, displaced, installed, mine, req>>
           \/ /\ UNCHANGED <<req, ws>>
              /\ CreatePayload(p) \/ WritePayload(p) \/ FlushPayload(p) \/ Install(p)
                 \/ SyncWorkspace(p) \/ Discard(p) \/ Rollback(p) \/ VerifyCaptured(p)
                 \/ Close(p)
           \/ MakeWorkspace(p) \/ RemoveWorkspace(p)
    BY DEF Step, Begin, Probe, Open, Sum, Confirm, Noop1, Noop2, EarlyFault,
           GuardedFault, CreatePayload, WritePayload, FlushPayload, Install,
           SyncWorkspace, VerifyDisplaced, StatInstalled, VerifyInstalled,
           SyncParent, Restat, Canon1, Canon2, Discard, Rollback, VerifyCaptured,
           Close, Post1, Post2, PostFault, unread, disk, private, local, locals

\* What the path or the writer holds goes between them, or stays.
LEMMA StepKeeps ==
    ASSUME IInv, NEW p \in Writers, Shape(p), Apart, Displaced, Step(p),
           NEW i \in theirs, i = target \/ Keeps1(p, i)
    PROVE  i = target' \/ Keeps1(p, i)'
<1>1. /\ i # NoFile /\ i \in Inodes(file)
      /\ ~WritePayload(p) => file'[i].content = file[i].content
      /\ payload[p] # NoFile /\ payload[p] = mine[p] => i # mine[p]
    BY OwnTypes, StepContents, StepperAlive DEF Apart, Alive
<1>2. /\ mine \in [Writers -> Ids] /\ payload \in [Writers -> Ids] /\ failed \in [Writers -> Ids]
      /\ ws \in [Writers -> BOOLEAN] /\ installed \in [Writers -> BOOLEAN]
      /\ displaced \in [Writers -> StatResult]
    BY DEF IInv, TypeOK
<1>3. CASE UNCHANGED <<file, target, ws, payload, failed, displaced, installed, mine, req>>
    BY <1>3 DEF Keeps1
<1>4. CASE MakeWorkspace(p)
    BY <1>1, <1>2, <1>4 DEF MakeWorkspace, Keeps1, disk, local
<1>5. CASE RemoveWorkspace(p)
    BY <1>1, <1>2, <1>5 DEF RemoveWorkspace, WorkspaceEmpty, Keeps1, Shape, disk, local
<1>6. CASE CreatePayload(p) /\ UNCHANGED <<req, ws>>
    BY <1>1, <1>2, <1>6 DEF CreatePayload, Keeps1, Shape, Idle, Staging
<1>7. CASE WritePayload(p) /\ UNCHANGED <<req, ws>>
    BY <1>1, <1>2, <1>7 DEF WritePayload, Keeps1, Shape, Staging, local, private
<1>8. CASE FlushPayload(p) /\ UNCHANGED <<req, ws>>
    BY <1>1, <1>2, <1>8 DEF FlushPayload, WritePayload, Keeps1, Shape, Staging, private
<1>9. CASE Install(p) /\ UNCHANGED <<req, ws>>
    BY <1>1, <1>2, <1>9 DEF Install, WritePayload, Keeps1, Shape, Staging
<1>10. CASE SyncWorkspace(p) /\ UNCHANGED <<req, ws>>
    BY <1>1, <1>2, <1>10 DEF SyncWorkspace, WritePayload, Keeps1, Shape, unread, disk, private
<1>11. CASE Discard(p) /\ UNCHANGED <<req, ws>>
  <2>1. i = payload[p] => displaced[p].ino = i /\ file[i].content = req[p].expected
    BY <1>1, <1>11 DEF Discard, Shape, Displaced, Rechecked, Placed
  <2> QED
    BY <1>1, <1>2, <1>11, <2>1 DEF Discard, WritePayload, Keeps1, disk, local
<1>12. CASE Rollback(p) /\ UNCHANGED <<req, ws>>
    BY <1>1, <1>2, <1>12 DEF Rollback, WritePayload, Keeps1, Shape, local
<1>13. CASE VerifyCaptured(p) /\ UNCHANGED <<req, ws>>
    BY <1>1, <1>2, <1>13, StatIno
    DEF VerifyCaptured, WritePayload, CapturedIsMine, SameIdentity, Keeps1, Shape, disk
<1>14. CASE Close(p) /\ UNCHANGED <<req, ws>>
    BY <1>1, <1>2, <1>14 DEF Close, WritePayload, OwnPayloadRemoved, Keeps1, disk, local
<1> QED
    BY <1>3, <1>4, <1>5, <1>6, <1>7, <1>8, <1>9, <1>10, <1>11, <1>12, <1>13, <1>14, KeepSteps

LEMMA StepLoss ==
    ASSUME IInv, NEW p \in Writers, Shape(p), Apart, Displaced, NoSilentLoss, Step(p)
    PROVE  NoSilentLoss'
<1>1. \A q \in Writers : q # p => Frame(q) /\ UNCHANGED req
    BY StepFrames
<1> SUFFICES ASSUME NEW i \in theirs' PROVE i = target' \/ \E q \in Writers : Keeps1(q, i)'
    BY DEF NoSilentLoss, Held, Keeps1
<1>2. CASE i \notin theirs
    BY <1>2, StepTheirs
<1>3. CASE i \in theirs
  <2>1. i \in Inodes(file) /\ (i = target \/ \E q \in Writers : Keeps1(q, i))
    BY <1>3, HeldBy, OwnTypes DEF NoSilentLoss
  <2>2. ASSUME NEW q \in Writers, q # p, Keeps1(q, i)
        PROVE  Keeps1(q, i)' \/ Keeps1(p, i)'
    <3>1. CASE WritePayload(p) /\ i = mine[p]
      <4>1. i \in theirs /\ i = payload[p] /\ payload[p] # NoFile /\ payload[p] = mine[p] /\ Alive(p)
        BY <1>3, <3>1, StepperAlive DEF WritePayload, Shape, Staging, Alive
      <4> QED
        BY <4>1 DEF Apart
    <3>2. CASE file'[i].content = file[i].content
      BY <1>1, <2>2, <3>2 DEF Keeps1, Frame
    <3> QED
      BY <2>1, <3>1, <3>2, StepContents
  <2> QED
    BY <1>3, <2>1, <2>2, StepKeeps
<1> QED
    BY <1>2, <1>3

LEMMA StepOwnInv ==
    ASSUME IInv, OwnInv, NEW p \in Writers, Step(p)
    PROVE  OwnInv'
<1>1. Apart' /\ Displaced' /\ NoSilentLoss'
    BY StepApart, StepDisplaced, StepLoss DEF OwnInv
<1>2. Shape(p)'
    BY StepShape DEF OwnInv
<1>3. ASSUME NEW q \in Writers, q # p PROVE Shape(q)'
  <2>1. Shape(q) /\ Frame(q)
    BY <1>3, StepFrames DEF OwnInv
  <2> QED
    BY <2>1 DEF Shape, Frame, Sealed, Leaving
<1> QED
    BY <1>1, <1>2, <1>3 DEF OwnInv
----------------------------------------------------------------------------
(* Other programs reach only the entry, which is no writer's payload. *)

LEMMA ForeignMoves ==
    ASSUME IInv, ForeignReplace \/ ForeignRewrite \/ ForeignLink \/ ForeignDelete \/ MoveParent
    PROVE  /\ UNCHANGED elsewhere
           /\ \A i \in Inodes(file) : i # target => file'[i].content = file[i].content
           /\ target' \in {target, NoFile, New}
           /\ \A i \in theirs' : i = target' \/ i \in theirs \ {target}
           /\ target' = target => durable' = durable
<1>1. file \in Seq(Node) /\ target \in Ids
    BY DEF IInv, TypeOK
<1>2. UNCHANGED elsewhere
    BY DEF ForeignReplace, ForeignRewrite, ForeignLink, ForeignDelete, MoveParent
<1>3. CASE ForeignReplace
  <2>1. ASSUME NEW node, NEW i \in Inodes(file) PROVE Append(file, node)[i] = file[i]
    BY <1>1 DEF Inodes
  <2>2. target # New
    BY OwnTypes
  <2> QED
    BY <1>2, <1>3, <2>1, <2>2 DEF ForeignReplace
<1>4. CASE ForeignRewrite
    BY <1>1, <1>2, <1>4, RewriteKeeps DEF ForeignRewrite
<1>5. CASE ForeignLink
    BY <1>1, <1>2, <1>5, RelinkKeeps DEF ForeignLink
<1>6. CASE ForeignDelete \/ MoveParent
    BY <1>1, <1>2, <1>6 DEF ForeignDelete, MoveParent
<1> QED
    BY <1>3, <1>4, <1>5, <1>6

LEMMA ForeignOwnInv ==
    ASSUME IInv, OwnInv,
           ForeignReplace \/ ForeignRewrite \/ ForeignLink \/ ForeignDelete \/ MoveParent
    PROVE  OwnInv'
<1>1. /\ \A i \in Inodes(file) : i # target => file'[i].content = file[i].content
      /\ target' \in {target, NoFile, New}
      /\ \A i \in theirs' : i = target' \/ i \in theirs \ {target}
      /\ UNCHANGED <<pc, req, local, private, outcome>>
    BY ForeignMoves DEF elsewhere
<1>2. /\ target \in Ids /\ New \notin Ids /\ theirs \subseteq Ids \ {NoFile}
      /\ \A i \in Ids : i # NoFile => i \in Inodes(file)
      /\ \A p \in Writers : mine[p] \in Ids /\ payload[p] \in Ids
    BY OwnTypes
<1>3. ASSUME NEW p \in Writers PROVE Shape(p)'
    BY <1>1 DEF OwnInv, Shape, Sealed, Leaving, local, private, outcome
<1>4. ASSUME NEW p \in Writers, Alive(p)' PROVE RolledBack(p)'
  <2>1. RolledBack(p) /\ UNCHANGED <<mine, installed, failed>>
    BY <1>1, <1>4 DEF OwnInv, Apart, Alive, local, private
  <2> QED
    BY <1>1, <1>2, <2>1 DEF RolledBack
<1>5. Apart'
  <2>1. UNCHANGED <<pc, mine, payload>>
    BY <1>1 DEF local, private
  <2>2. \A p, q \in Writers : p # q /\ mine'[p] # NoFile => mine'[p] # mine'[q]
    BY <2>1 DEF OwnInv, Apart
  <2>3. ASSUME NEW p \in Writers, Alive(p)', payload'[p] # NoFile
        PROVE  /\ payload'[p] # target'
               /\ \A q \in Writers : q # p /\ Alive(q)' => payload'[q] # payload'[p]
               /\ payload'[p] = mine'[p] => mine'[p] \notin theirs'
    BY <1>1, <1>2, <2>1, <2>3 DEF OwnInv, Apart, Alive
  <2> QED
    BY <1>4, <2>2, <2>3 DEF Apart
<1>6. Displaced'
  <2>1. ASSUME NEW p \in Writers, pc'[p] \in Rechecked, payload'[p] # NoFile
        PROVE  file'[payload'[p]].content = req'[p].expected
    <3>1. UNCHANGED <<pc, req, payload>>
      BY <1>1 DEF private
    <3>2. payload[p] # target /\ payload[p] \in Inodes(file)
      BY <1>2, <2>1, <3>1 DEF OwnInv, Apart, Alive, Rechecked, Placed
    <3> QED
      BY <1>1, <2>1, <3>1, <3>2 DEF OwnInv, Displaced
  <2> QED
    BY <2>1 DEF Displaced
<1>7. NoSilentLoss'
  <2> SUFFICES ASSUME NEW i \in theirs, i # target PROVE \E p \in Writers : Keeps1(p, i)'
    BY <1>1 DEF NoSilentLoss, Held, Keeps1
  <2>1. file'[i].content = file[i].content /\ \E p \in Writers : Keeps1(p, i)
    BY <1>1, <1>2, HeldBy DEF OwnInv, NoSilentLoss
  <2> QED
    BY <1>1, <2>1 DEF Keeps1, local, private
<1> QED
    BY <1>3, <1>5, <1>6, <1>7 DEF OwnInv

LEMMA KillOwnInv ==
    ASSUME IInv, OwnInv, NEW p \in Writers, Kill(p)
    PROVE  OwnInv'
<1>1. /\ pc \in [Writers -> Steps] /\ pc' = [pc EXCEPT ![p] = "dead"]
      /\ UNCHANGED <<file, target, theirs, req, local, private, outcome>>
    BY DEF Kill, Go, disk, observer, IInv, TypeOK
<1>2. pc'[p] = "dead" /\ \A q \in Writers : q # p => pc'[q] = pc[q]
    BY <1>1
<1>3. Shape(p)'
    BY <1>1, <1>2
    DEF OwnInv, Shape, Sealed, Leaving, Idle, Staging, Placed, Rechecked, Early, local,
        private, outcome
<1>4. ASSUME NEW q \in Writers, q # p PROVE Shape(q)'
    BY <1>1, <1>2, <1>4 DEF OwnInv, Shape, Sealed, Leaving, local, private, outcome
<1>5. Apart' /\ Displaced' /\ NoSilentLoss'
    BY <1>1, <1>2
    DEF OwnInv, Apart, RolledBack, Alive, Displaced, Rechecked, Placed, NoSilentLoss,
        Held, local, private
<1> QED
    BY <1>3, <1>4, <1>5 DEF OwnInv

LEMMA PowerLossOwnInv ==
    ASSUME IInv, OwnInv, PowerLoss
    PROVE  OwnInv'
<1>1. /\ \A p \in Writers : pc'[p] = "dead"
      /\ theirs' \subseteq {target'}
      /\ UNCHANGED <<local, private, outcome>>
    BY DEF PowerLoss
<1>2. ASSUME NEW p \in Writers PROVE Shape(p)'
    BY <1>1
    DEF OwnInv, Shape, Sealed, Leaving, Idle, Staging, Placed, Rechecked, Early, local,
        private, outcome
<1>3. Apart' /\ Displaced' /\ NoSilentLoss'
    BY <1>1 DEF OwnInv, Apart, Alive, Displaced, Rechecked, Placed, NoSilentLoss, Held, local
<1> QED
    BY <1>2, <1>3 DEF OwnInv

LEMMA InitOwnInv == Init => OwnInv
<1> SUFFICES ASSUME Init PROVE OwnInv
    OBVIOUS
<1>1. ASSUME NEW p \in Writers PROVE Shape(p)
    BY DEF Init, Shape, Sealed, Leaving, Idle, Staging, Placed, Rechecked, Early, NoStat
<1>2. Apart /\ Displaced
    BY DEF Init, Apart, RolledBack, Displaced, Rechecked, Placed
<1>3. NoSilentLoss
    BY DEF Init, NoSilentLoss, Held
<1> QED
    BY <1>1, <1>2, <1>3 DEF OwnInv

LEMMA NextOwnInv == IInv /\ OwnInv /\ [Next]_vars => OwnInv'
<1> SUFFICES ASSUME IInv, OwnInv, [Next]_vars PROVE OwnInv'
    OBVIOUS
<1>1. CASE UNCHANGED vars
    BY <1>1
    DEF vars, disk, local, private, outcome, OwnInv, Shape, Sealed, Leaving, Apart,
        RolledBack, Alive, Displaced, NoSilentLoss, Held
<1> QED
    BY <1>1, StepOwnInv, ForeignOwnInv, KillOwnInv, PowerLossOwnInv
    DEF Next, Environment, Terminated

LEMMA OwnInvariance == Spec => [](IInv /\ OwnInv)
    BY InitInv, NextInv, InitOwnInv, NextOwnInv, PTL DEF Spec

\* No file another program put or rewrote at the path, and none a writer has
\* reported as installed, disappears because of a writer.
THEOREM NoFileLost == Spec => []NoSilentLoss
<1>1. OwnInv => NoSilentLoss
    BY DEF OwnInv
<1> QED
    BY <1>1, OwnInvariance, PTL

\* RETURN's recovery_path: a writer that returns without one leaves no workspace,
\* and after a failure it has not left its payload at the path, unless the path of
\* the parent could not be read to name them (_descriptor_path, main's except).
THEOREM LeftoversNamed == Spec => []LeftoversReported
<1>1. ASSUME OwnInv PROVE LeftoversReported
    BY <1>1 DEF OwnInv, LeftoversReported, Leaves, Shape, Apart, Alive, RolledBack
<1> QED
    BY <1>1, OwnInvariance, PTL
----------------------------------------------------------------------------
(***************************************************************************)
(* changed=true.  From the stat of the installed entry on, `final` tells   *)
(* whether the payload has been touched; and from the fsync of the parent  *)
(* on, the payload is the only durable entry as long as the path leads to  *)
(* it, since a path that has left it never comes back.                     *)
(***************************************************************************)
\* A payload that has passed its check is the same while its ctime is.
Checked(p) ==
    /\ final[p].ctime <= file[mine[p]].ctime
    /\ pc[p] # "vinst" /\ file[mine[p]].ctime = final[p].ctime =>
         file[mine[p]].content = req[p].desired
    /\ DirSync /\ target = mine[p] /\ pc[p] \notin {"vinst", "sync"} => durable = {mine[p]}
AllChecked == \A p \in Writers : Sealed(p) => Checked(p)

\* The path comes to a payload only by its own writer's Install.
LEMMA TargetLeaves ==
    ASSUME IInv, OwnInv, NEW p \in Writers, mine[p] # NoFile,
           (\E q \in Writers : q # p /\ Step(q))
             \/ ForeignReplace \/ ForeignRewrite \/ ForeignLink \/ ForeignDelete \/ MoveParent,
           target' = mine[p]
    PROVE  target = mine[p] /\ (durable' = durable \/ durable' = {target})
<1>1. mine[p] \in Ids /\ New \notin Ids
    BY OwnTypes
<1>2. ASSUME NEW q \in Writers, q # p, Step(q)
      PROVE  target = mine[p] /\ (durable' = durable \/ durable' = {target})
  <2>1. mine[q] # mine[p]
    BY <1>2 DEF OwnInv, Apart
  <2>2. target' # mine[q]
    BY <2>1
  <2>3. ~Install(q) \/ UNCHANGED <<target, durable>>
    BY <2>2 DEF Install
  <2>4. ~Rollback(q) \/ UNCHANGED <<target, durable>>
    BY DEF Rollback
  <2>5. UNCHANGED <<target, durable>> \/ SyncParent(q)
    BY <1>2, <2>3, <2>4, DiskSteps
    DEF disk, CreatePayload, WritePayload, FlushPayload
  <2> QED
    BY <2>5 DEF SyncParent
<1>3. CASE ForeignReplace \/ ForeignRewrite \/ ForeignLink \/ ForeignDelete \/ MoveParent
    BY <1>1, <1>3, ForeignMoves
<1> QED
    BY <1>2, <1>3

LEMMA CheckedStays ==
    ASSUME IInv, OwnInv, NEW p \in Writers, mine[p] # NoFile, Checked(p), Evolves(file, file'),
           pc'[p] = pc[p], mine'[p] = mine[p], final'[p] = final[p], req' = req,
           target' = mine[p] => target = mine[p] /\ (durable' = durable \/ durable' = {target})
    PROVE  Checked(p)'
<1>1. mine[p] \in Inodes(file) /\ final[p].ctime \in Nat
    BY OwnTypes DEF IInv, TypeOK, StatResult
<1>2. file[mine[p]].ctime \in Nat /\ file'[mine[p]].ctime \in Nat
    BY <1>1, TableType DEF Evolves, IInv, TypeOK, Inodes
<1>3. /\ file[mine[p]].ctime <= file'[mine[p]].ctime
      /\ file'[mine[p]].ctime = file[mine[p]].ctime => file'[mine[p]] = file[mine[p]]
    BY <1>1 DEF Evolves
<1>4. /\ final[p].ctime <= file'[mine[p]].ctime
      /\ file'[mine[p]].ctime = final[p].ctime =>
           file'[mine[p]] = file[mine[p]] /\ file[mine[p]].ctime = final[p].ctime
    BY <1>1, <1>2, <1>3 DEF Checked
<1>5. DirSync /\ target' = mine[p] /\ pc[p] \notin {"vinst", "sync"} => durable' = {mine[p]}
    BY DEF Checked
<1> QED
    BY <1>4, <1>5 DEF Checked

\* The steps that lead to a sealed payload only read, but for the fsync.
LEMMA SealedSteps ==
    ASSUME IInv, OwnInv, NEW p \in Writers, Step(p), Sealed(p)'
    PROVE  /\ UNCHANGED <<file, target, mine, req>>
           /\ \/ StatInstalled(p) /\ pc'[p] = "vinst"
              \/ VerifyInstalled(p) /\ pc'[p] = "sync"
              \/ SyncParent(p) /\ pc'[p] = "restat"
              \/ /\ Sealed(p) /\ pc[p] \notin {"vinst", "sync"} /\ UNCHANGED <<durable, final>>
                 /\ pc'[p] \notin {"vinst", "sync"}
<1>1. ControlType /\ Shape(p)
    BY DEF IInv, TypeOK, ControlType, OwnInv
<1> QED
    BY <1>1
    DEF ControlType, Shape, Step, Begin, Probe, Open, Sum, Confirm, Noop1, Noop2,
        MakeWorkspace, EarlyFault, GuardedFault, CreatePayload, WritePayload, FlushPayload,
        Install, SyncWorkspace, VerifyDisplaced, StatInstalled, VerifyInstalled,
        SyncParent, Restat, Canon1, Canon2, Discard, Rollback, VerifyCaptured,
        Close, RemoveWorkspace, Post1, Post2, PostFault, Go, Return, FailNaming, Spent, Exit, Advance,
        Abort, Require, Commit, Sealed, Leaving, Rechecked, Placed, unread, disk, local, locals

LEMMA StepChecked ==
    ASSUME IInv, OwnInv, AllChecked, NEW p \in Writers, Step(p), Sealed(p)'
    PROVE  Checked(p)'
<1>1. /\ UNCHANGED <<file, target, mine, req>> /\ ControlType /\ Shape(p) /\ Shape(p)'
      /\ final \in [Writers -> StatResult]
    BY SealedSteps, StepShape DEF IInv, TypeOK, ControlType, OwnInv
<1>2. CASE StatInstalled(p) /\ pc'[p] = "vinst"
  <2>1. SameIdentity(Stat(file, target), staged[p]) /\ final'[p] = Stat(file, target)
    BY <1>1, <1>2 DEF StatInstalled, Require, Abort, Go, Current, ControlType
  <2>2. target = mine[p] /\ mine[p] # NoFile
    BY <1>2, <2>1, StatIno, <1>1 DEF SameIdentity, StatInstalled, Shape, Placed
  <2>3. final'[p].ctime = file[mine[p]].ctime /\ file[mine[p]].ctime \in Nat
    BY <2>1, <2>2, TableType, OwnTypes DEF Stat, IInv, TypeOK
  <2> QED
    BY <1>1, <1>2, <2>3 DEF Checked
<1>3. CASE VerifyInstalled(p) /\ pc'[p] = "sync"
  <2>1. /\ SameSnapshot(Stat(file, mine[p]), final[p]) /\ file[mine[p]].content = req[p].desired
        /\ UNCHANGED final /\ pc[p] = "vinst"
    BY <1>1, <1>3 DEF VerifyInstalled, Require, Abort, Go, ControlType, local
  <2>2. Checked(p)
    BY <2>1 DEF AllChecked, Sealed, Rechecked, Placed
  <2> QED
    BY <1>1, <1>3, <2>1, <2>2 DEF Checked
<1>4. CASE SyncParent(p) /\ pc'[p] = "restat"
  <2>1. Checked(p) /\ UNCHANGED final /\ (DirSync => durable' = {target}) /\ pc[p] = "sync"
    BY <1>4 DEF SyncParent, AllChecked, Sealed, Rechecked, Placed, local
  <2> QED
    BY <1>1, <1>4, <2>1 DEF Checked
<1>5. CASE /\ Sealed(p) /\ pc[p] \notin {"vinst", "sync"} /\ UNCHANGED <<durable, final>>
           /\ pc'[p] \notin {"vinst", "sync"}
  <2>1. Checked(p)
    BY <1>5 DEF AllChecked
  <2> QED
    BY <1>1, <1>5, <2>1 DEF Checked
<1> QED
    BY <1>2, <1>3, <1>4, <1>5, SealedSteps

LEMMA SealedHasPayload ==
    ASSUME IInv, OwnInv, NEW p \in Writers, Sealed(p)
    PROVE  mine[p] # NoFile
    BY DEF IInv, HasPayload, Sealed, Leaving, Rechecked, Placed, Holding, Late

LEMMA NextChecked == IInv /\ OwnInv /\ AllChecked /\ [Next]_vars => AllChecked'
<1> SUFFICES ASSUME IInv, OwnInv, AllChecked, [Next]_vars, NEW p \in Writers, Sealed(p)'
             PROVE  Checked(p)'
    BY DEF AllChecked
<1>1. ASSUME NEW q \in Writers, q # p, Step(q) PROVE Checked(p)'
  <2>1. Frame(p) /\ req' = req /\ Evolves(file, file')
    BY <1>1, StepFrames, StepEvolves
  <2>2. Sealed(p)
    BY <2>1 DEF Sealed, Leaving, Frame
  <2>3. Checked(p) /\ mine[p] # NoFile
    BY <2>2, SealedHasPayload DEF AllChecked
  <2> QED
    BY <1>1, <2>1, <2>3, TargetLeaves, CheckedStays DEF Frame
<1>2. CASE Step(p)
    BY <1>2, StepChecked
<1>3. CASE ForeignReplace \/ ForeignRewrite \/ ForeignLink \/ ForeignDelete \/ MoveParent
  <2>1. UNCHANGED <<pc, mine, final, req, failure>> /\ Evolves(file, file')
    BY <1>3, ForeignMoves, ForeignEvolves DEF elsewhere, local, outcome
  <2>2. Sealed(p)
    BY <2>1 DEF Sealed, Leaving
  <2>3. Checked(p) /\ mine[p] # NoFile
    BY <2>2, SealedHasPayload DEF AllChecked
  <2> QED
    BY <1>3, <2>1, <2>3, TargetLeaves, CheckedStays
<1>4. ASSUME NEW q \in Writers, Kill(q) PROVE Checked(p)'
  <2>1. /\ UNCHANGED <<file, target, durable, mine, final, req, failure>>
        /\ pc \in [Writers -> Steps] /\ pc' = [pc EXCEPT ![q] = "dead"]
    BY <1>4 DEF Kill, Go, disk, local, outcome, IInv, TypeOK
  <2>2. Sealed(p) /\ pc'[p] = pc[p]
    BY <2>1 DEF Sealed, Leaving, Rechecked, Placed
  <2> QED
    BY <2>1, <2>2 DEF AllChecked, Checked
<1>5. CASE PowerLoss
    BY <1>5 DEF PowerLoss, Sealed, Leaving, Rechecked, Placed
<1>6. CASE UNCHANGED vars
    BY <1>6 DEF vars, disk, local, outcome, AllChecked, Sealed, Leaving, Checked
<1> QED
    BY <1>1, <1>2, <1>3, <1>4, <1>5, <1>6 DEF Next, Environment, Terminated

\* The only step that returns "changed" is the last check.
LEMMA ChangedReturned ==
    ASSUME IInv, OwnInv, AllChecked, [Next]_vars, NEW p \in Writers,
           result[p] = "running", result'[p] = "changed"
    PROVE  /\ bound /\ target = mine[p] /\ file[target].content = req[p].desired
           /\ DirSync => durable = {target}
           /\ ~ws[p]
<1>1. ControlType /\ Shape(p)
    BY DEF IInv, TypeOK, ControlType, OwnInv
<1>2. PICK q \in Writers : Step(q)
    BY DEF Next, Environment, Terminated, vars, outcome, ForeignReplace, ForeignRewrite,
           ForeignLink, ForeignDelete, MoveParent, PowerLoss, Kill, elsewhere
<1>3. q = p
    BY <1>2, StepFrames DEF Frame
<1>4. Post2(p)
    BY <1>1, <1>2, <1>3
    DEF ControlType, Step, Begin, Probe, Open, Sum, Confirm, Noop1, Noop2, MakeWorkspace,
        EarlyFault, GuardedFault, CreatePayload, WritePayload, FlushPayload,
        Install, SyncWorkspace, VerifyDisplaced, StatInstalled, VerifyInstalled,
        SyncParent, Restat, Canon1, Canon2, Discard, Rollback, VerifyCaptured,
        Close, RemoveWorkspace, Post1, PostFault, Return, FailNaming, Spent, Exit, Advance,
        Abort, Require, Commit, outcome
<1>5. SecondReadIs(p, final[p]) /\ Checked(p) /\ pc[p] = "post2" /\ final[p].ino = mine[p]
    BY <1>1, <1>4 DEF Post2, Return, FailNaming, Spent, ControlType, AllChecked, Sealed, Shape
<1>6. target = mine[p] /\ bound /\ file[target].ctime = final[p].ctime
    BY <1>5, StatIno DEF SecondReadIs, SameSnapshot, SameIdentity, Current, Stat
<1> QED
    BY <1>1, <1>5, <1>6 DEF Checked, Shape

\* changed=true is returned only for a payload that is, at that moment, what the
\* canonical path leads to, complete, durable and without a workspace.
THEOREM ChangedCommitted == Spec => ChangedIsCommitted
<1>1. Init => AllChecked
    BY DEF Init, AllChecked, Sealed, Leaving, Rechecked, Placed
<1>2. Spec => [](IInv /\ OwnInv /\ AllChecked)
    BY <1>1, InitInv, NextInv, InitOwnInv, NextOwnInv, NextChecked, PTL DEF Spec
<1>3. IInv /\ OwnInv /\ AllChecked /\ [Next]_vars
        => [\A p \in Writers : result[p] = "running" /\ result'[p] = "changed" =>
              /\ bound /\ target = mine[p]
              /\ file[target].content = req[p].desired
              /\ DirSync => durable = {target}
              /\ ~ws[p]]_vars
    BY ChangedReturned
<1> QED
    BY <1>2, <1>3, PTL DEF Spec, ChangedIsCommitted
----------------------------------------------------------------------------
(***************************************************************************)
(* The flock.  Its holder is the only writer past its first step, so as    *)
(* long as no other program acts and no call fails, what the holder has    *)
(* seen is still so (Agree) and each of its checks succeeds.               *)
(***************************************************************************)
Locked == \A p \in Writers : Holds(p) => lock = p

\* What a writer has seen is still so.
Agree(p) ==
    /\ pc[p] \in {"open", "sum", "confirm", "mkws", "payload"} \cup Staging =>
         before[p].ino = target /\ (before[p] = NoStat \/ target # NoFile)
    /\ pc[p] \in {"open", "sum", "confirm", "mkws", "payload", "syncws", "vdisp"} \cup Staging
         /\ before[p] # NoStat => before[p].ver = file[before[p].ino].ver
    /\ pc[p] \in {"confirm", "mkws", "payload", "syncws", "vdisp"} \cup Staging
         /\ before[p] # NoStat => file[before[p].ino].content = req[p].expected
    /\ pc[p] \in {"syncws", "vdisp"} =>
         before[p] # NoStat /\ payload[p] # NoFile /\ payload[p] = before[p].ino
    /\ pc[p] \in {"flush", "install", "syncws", "vdisp", "stat", "vinst"} =>
         file[mine[p]].content = req[p].desired
    /\ pc[p] \in {"install", "syncws", "vdisp", "stat"} => staged[p].ver = file[mine[p]].ver
    /\ pc[p] \in Placed => target = mine[p]
    /\ pc[p] \in {"vinst", "sync", "restat", "canon1", "canon2"} => final[p] = Stat(file, mine[p])
    /\ pc[p] = "canon2" => observed[p] = Stat(file, mine[p])
Calm == foreign = 0 /\ faults = 0 => bound /\ \A p \in Writers : ~failure[p] /\ Agree(p)

LEMMA StepLocked ==
    ASSUME IInv, Locked, NEW p \in Writers, Step(p)
    PROVE  Locked'
<1>1. ControlType /\ NoWriter \notin Writers
    BY RequestAssumption DEF IInv, TypeOK, ControlType
<1>2. Holds(p)' => lock' = p
    BY <1>1
    DEF ControlType, Locked, Holds, Step, Begin, Probe, Open, Sum, Confirm, Noop1, Noop2,
        MakeWorkspace, EarlyFault, GuardedFault, CreatePayload, WritePayload, FlushPayload,
        Install, SyncWorkspace, VerifyDisplaced, StatInstalled, VerifyInstalled,
        SyncParent, Restat, Canon1, Canon2, Discard, Rollback, VerifyCaptured,
        Close, RemoveWorkspace, Post1, Post2, PostFault, Go, Return, FailNaming, Spent, Exit, Advance,
        Abort, Require, Commit, Early, Guarded
<1>3. ASSUME NEW q \in Writers, q # p, Holds(q)' PROVE lock' = q
  <2>1. Holds(q) /\ lock = q /\ ~Holds(p)
    BY <1>3, StepFrames DEF Frame, Holds, Locked
  <2>2. Begin(p)
    BY <2>1, StepperAlive
    DEF Holds, Step, Probe, Open, Sum, Confirm, Noop1, Noop2, MakeWorkspace,
        EarlyFault, GuardedFault, CreatePayload, WritePayload, FlushPayload,
        Install, SyncWorkspace, VerifyDisplaced, StatInstalled, VerifyInstalled,
        SyncParent, Restat, Canon1, Canon2, Discard, Rollback, VerifyCaptured,
        Close, RemoveWorkspace, Post1, Post2, PostFault, Early, Guarded
  <2> QED
    BY <1>1, <1>3, <2>1, <2>2 DEF Begin, Exit, Return, Release
<1> QED
    BY <1>2, <1>3 DEF Locked

LEMMA NextLocked == IInv /\ Locked /\ [Next]_vars => Locked'
<1> SUFFICES ASSUME IInv, Locked, [Next]_vars PROVE Locked'
    OBVIOUS
<1>1. CASE ForeignReplace \/ ForeignRewrite \/ ForeignLink \/ ForeignDelete \/ MoveParent
    BY <1>1, ForeignMoves DEF elsewhere, Locked, Holds
<1>2. ASSUME NEW p \in Writers, Kill(p) PROVE Locked'
  <2>1. pc \in [Writers -> Steps] /\ pc' = [pc EXCEPT ![p] = "dead"] /\ Release(p) /\ Holds(p)
    BY <1>2 DEF Kill, Go, Holds, IInv, TypeOK
  <2> QED
    BY <2>1 DEF Release, Locked, Holds
<1>3. CASE PowerLoss
    BY <1>3 DEF PowerLoss, Locked, Holds
<1>4. CASE UNCHANGED vars
    BY <1>4 DEF vars, Locked, Holds
<1> QED
    BY <1>1, <1>2, <1>3, <1>4, StepLocked DEF Next, Environment, Terminated

\* While a writer holds the lock, the others can only fail to take it.
LEMMA HolderAlone ==
    ASSUME IInv, Locked, NEW p \in Writers, Holds(p), NEW q \in Writers, q # p, Step(q)
    PROVE  UNCHANGED <<file, target, bound>>
<1>1. ~Holds(q)
    BY DEF Locked
<1>2. Begin(q)
    BY <1>1, StepperAlive
    DEF Holds, Step, Probe, Open, Sum, Confirm, Noop1, Noop2, MakeWorkspace,
        EarlyFault, GuardedFault, CreatePayload, WritePayload, FlushPayload,
        Install, SyncWorkspace, VerifyDisplaced, StatInstalled, VerifyInstalled,
        SyncParent, Restat, Canon1, Canon2, Discard, Rollback, VerifyCaptured,
        Close, RemoveWorkspace, Post1, Post2, PostFault, Early, Guarded
<1> QED
    BY <1>2 DEF Begin, unread, disk
----------------------------------------------------------------------------
(* A calm step: what its writer has seen stays so, and its checks succeed. *)

\* Types of what a writer remembers.
LEMMA SeenTypes ==
    ASSUME IInv, NEW p \in Writers
    PROVE  /\ pc \in [Writers -> Steps] /\ failure \in [Writers -> BOOLEAN]
           /\ before \in [Writers -> StatResult] /\ staged \in [Writers -> StatResult]
           /\ final \in [Writers -> StatResult] /\ observed \in [Writers -> StatResult]
           /\ target = NoFile \/ target \in Inodes(file)
           /\ mine[p] = NoFile \/ mine[p] \in Inodes(file)
           /\ payload[p] = NoFile \/ payload[p] \in Inodes(file)
           /\ file \in Seq(Node) /\ Len(file) \in Nat
    BY OwnTypes, TableType DEF IInv, TypeOK, Ids

\* The lookup: what it finds is at the path.
LEMMA ProbeAgree ==
    ASSUME IInv, NEW p \in Writers, Probe(p)
    PROVE  Agree(p)'
<1>1. /\ before'[p] = Stat(file, target) /\ UNCHANGED <<file, target>>
      /\ pc'[p] \in {"done", "mkws", "open"}
      /\ pc'[p] = "open" => target # NoFile
    BY SeenTypes DEF Probe, Commit, Advance, Exit, Return, Go, Current, unread, disk
<1>2. pc'[p] = "mkws" => target = NoFile
    BY SeenTypes DEF Probe, Commit, Advance, Exit, Return, Go
<1>3. Stat(file, target).ino = target
    BY StatIno
<1>4. target # NoFile => Stat(file, target).ver = file[target].ver
    BY DEF Stat
<1>5. target = NoFile => Stat(file, target) = NoStat
    BY DEF Stat
<1> HIDE DEF NoStat
<1> QED
    BY <1>1, <1>2, <1>3, <1>4, <1>5 DEF Agree, Staging, Placed

\* The other steps before the workspace exists only read.
LEMMA EarlyAgree ==
    ASSUME IInv, NEW p \in Writers, Agree(p), faults = 0, faults' = 0,
           \/ Begin(p) \/ Open(p) \/ Sum(p) \/ Confirm(p) \/ Noop1(p)
           \/ Noop2(p) \/ MakeWorkspace(p) \/ EarlyFault(p)
    PROVE  Agree(p)'
<1>1. /\ UNCHANGED <<file, target, req, before, mine, payload, staged, final>>
      /\ pc \in [Writers -> Steps]
    BY SeenTypes
    DEF Begin, Open, Sum, Confirm, Noop1, Noop2, MakeWorkspace, EarlyFault, unread, disk,
        private, local, locals
<1>2. \/ pc'[p] \in {"done", "probe", "noop1", "noop2"}
      \/ pc[p] = "open" /\ pc'[p] = "sum"
      \/ pc[p] = "sum" /\ pc'[p] = "confirm" /\ file[before[p].ino].content = req[p].expected
      \/ pc[p] \in {"confirm", "mkws"} /\ pc'[p] \in {"mkws", "payload"}
    BY <1>1
    DEF Begin, Open, Sum, Confirm, Noop1, Noop2, MakeWorkspace, EarlyFault, Commit,
        Advance, Exit, Return, FailNaming, Spent, Go
<1> QED
    BY <1>1, <1>2 DEF Agree, Staging, Placed

\* The payload is staged in the workspace: the entry at the path is another file.
LEMMA StagingAgree ==
    ASSUME IInv, OwnInv, NEW p \in Writers, Agree(p),
           CreatePayload(p) \/ WritePayload(p) \/ FlushPayload(p)
    PROVE  Agree(p)'
<1>1. /\ Shape(p) /\ UNCHANGED <<req, target, before>>
      /\ Alive(p) /\ pc'[p] \in {"write", "flush", "install"}
    BY SeenTypes DEF OwnInv, CreatePayload, WritePayload, FlushPayload, Alive, Advance, Go, local
<1>2. pc[p] \in {"payload"} \cup Staging
    BY DEF CreatePayload, WritePayload, FlushPayload, Staging
<1>3. /\ before[p].ino = target /\ (before[p] = NoStat \/ target # NoFile)
      /\ before[p] # NoStat => before[p].ver = file[target].ver /\ file[target].content = req[p].expected
    BY <1>2 DEF Agree
<1>4. target # NoFile =>
        file'[target].content = file[target].content /\ file'[target].ver = file[target].ver
  <2>1. CASE CreatePayload(p)
    <3>1. ASSUME NEW node, target \in Inodes(file) PROVE Append(file, node)[target] = file[target]
      BY <3>1, SeenTypes DEF Inodes
    <3> QED
      BY <2>1, <3>1, SeenTypes DEF CreatePayload
  <2>2. ASSUME WritePayload(p) \/ FlushPayload(p)
        PROVE  mine[p] # target /\ mine[p] # NoFile
    BY <1>1, <2>2 DEF WritePayload, FlushPayload, Shape, Staging, OwnInv, Apart
  <2>3. CASE WritePayload(p)
    BY <2>2, <2>3, SeenTypes, RewriteKeeps DEF WritePayload
  <2>4. CASE FlushPayload(p)
    <3>1. target \in Inodes(file) => file'[target] = file[target]
      BY <2>2, <2>4, SeenTypes DEF FlushPayload, Inodes
    <3> QED
      BY <3>1, SeenTypes
  <2> QED
    BY <2>1, <2>3, <2>4
<1>5. CASE CreatePayload(p)
  <2>1. pc'[p] = "write"
    BY <1>5, SeenTypes DEF CreatePayload, Advance, Go
  <2> QED
    BY <1>1, <1>3, <1>4, <2>1 DEF Agree, Staging, Placed
<1>6. CASE WritePayload(p)
  <2>1. pc'[p] = "flush" /\ mine' = mine
    BY <1>6, SeenTypes DEF WritePayload, Advance, Go, local
  <2>2. file'[mine[p]].content = req[p].desired
    <3>1. mine[p] \in Inodes(file) /\ file \in Seq(Node) /\ req[p].desired \in Contents
      BY <1>6, SeenTypes, RequestAssumption
      DEF WritePayload, IInv, HasPayload, Holding, TypeOK
    <3> QED
      BY <1>6, <3>1, EvolvesByRewrite DEF WritePayload
  <2> QED
    BY <1>1, <1>3, <1>4, <2>1, <2>2 DEF Agree, Staging, Placed
<1>7. CASE FlushPayload(p)
  <2>1. /\ pc'[p] = "install" /\ mine' = mine /\ pc[p] = "flush"
        /\ staged'[p] = Stat(file', mine[p]) /\ mine[p] # NoFile
    BY <1>1, <1>7, SeenTypes DEF FlushPayload, Advance, Go, Shape, Staging
  <2>2. mine[p] \in Inodes(file) /\ file[mine[p]].content # Torn /\ DiskType
    BY <2>1, SeenTypes DEF IInv, WholeEntries, TypeOK, DiskType
  <2>3. file'[mine[p]].content = req[p].desired
    BY <1>7, <2>1, <2>2, EvolvesByFlush DEF Agree
  <2>4. staged'[p].ver = file'[mine[p]].ver
    BY <2>1 DEF Stat
  <2> QED
    BY <1>1, <1>3, <1>4, <2>1, <2>3, <2>4 DEF Agree, Staging, Placed
<1> QED
    BY <1>5, <1>6, <1>7

\* The rename finds what the writer looked up, and moves both files unchanged.
LEMMA InstallAgree ==
    ASSUME IInv, OwnInv, NEW p \in Writers, Agree(p), ~failure[p], Install(p)
    PROVE  Agree(p)' /\ ~failure'[p]
<1>1. /\ Shape(p) /\ pc[p] = "install" /\ mine[p] # NoFile
      /\ mine[p] \in Inodes(file) /\ UNCHANGED <<req, before, mine, staged, final, observed>>
    BY SeenTypes DEF OwnInv, Install, Shape, Staging
<1>2. before[p].ino = target /\ (before[p] = NoStat \/ target # NoFile)
    BY <1>1 DEF Agree, Staging
<1>3. (before[p] = NoStat) = (target = NoFile)
    BY <1>2 DEF NoStat
<1>4. /\ target' = mine[p] /\ payload'[p] = target /\ file' = Relinked(file, {mine[p], target})
      /\ pc'[p] = IF before[p] = NoStat THEN "stat" ELSE "syncws"
      /\ failure' = failure
    BY <1>3, SeenTypes, OwnTypes DEF Install, Advance, Go, outcome
<1>5. \A i \in Inodes(file) : file'[i].content = file[i].content /\ file'[i].ver = file[i].ver
    BY <1>4, SeenTypes, RelinkKeeps
<1>6. before[p] # NoStat =>
        /\ target # NoFile /\ before[p].ver = file'[target].ver
        /\ file'[target].content = req[p].expected
    BY <1>1, <1>2, <1>5, SeenTypes DEF Agree, Staging
<1>7. file'[mine[p]].content = req[p].desired /\ staged[p].ver = file'[mine[p]].ver
    BY <1>1, <1>5 DEF Agree
<1> QED
    BY <1>1, <1>2, <1>4, <1>6, <1>7 DEF Agree, Staging, Placed

\* Each check after the rename succeeds.
LEMMA PlacedAgree ==
    ASSUME IInv, OwnInv, NEW p \in Writers, Agree(p), ~failure[p], bound,
           \/ SyncWorkspace(p) \/ VerifyDisplaced(p) \/ StatInstalled(p) \/ VerifyInstalled(p)
           \/ SyncParent(p) \/ Restat(p) \/ Canon1(p) \/ Canon2(p) \/ Discard(p)
    PROVE  Agree(p)' /\ ~failure'[p]
<1>1. /\ Shape(p) /\ pc[p] \in Placed /\ mine[p] # NoFile /\ target = mine[p]
      /\ UNCHANGED <<file, target, req, before, mine, staged>>
    BY DEF OwnInv, Shape, Agree, Placed, SyncWorkspace, VerifyDisplaced, StatInstalled,
           VerifyInstalled, SyncParent, Restat, Canon1, Canon2, Discard, unread, disk,
           local, locals
<1>2. Stat(file, target).ino = mine[p] /\ Stat(file, target).ver = file[mine[p]].ver
    BY <1>1 DEF Stat
<1> USE SeenTypes DEF Advance, Go, outcome
<1>3. CASE SyncWorkspace(p)
  <2>1. pc'[p] = "vdisp" /\ failure' = failure /\ pc[p] = "syncws" /\ payload' = payload
    BY <1>3 DEF SyncWorkspace, unread, private
  <2> QED
    BY <1>1, <2>1 DEF Agree, Staging, Placed
<1>4. CASE VerifyDisplaced(p)
  <2>1. /\ SameIdentity(Stat(file, payload[p]), before[p])
        /\ file[payload[p]].content = req[p].expected
    BY <1>4 DEF VerifyDisplaced, Agree, Stat, SameIdentity
  <2>2. pc'[p] = "stat" /\ failure' = failure /\ pc[p] = "vdisp"
    BY <1>4, <2>1 DEF VerifyDisplaced, Require
  <2> QED
    BY <1>1, <2>2 DEF Agree, Staging, Placed
<1>5. CASE StatInstalled(p)
  <2>1. SameIdentity(Current(p), staged[p])
    BY <1>1, <1>2, <1>5 DEF StatInstalled, Shape, Agree, Placed, SameIdentity, Current
  <2>2. pc'[p] = "vinst" /\ failure' = failure /\ pc[p] = "stat" /\ final'[p] = Stat(file, mine[p])
    BY <1>1, <1>5, <2>1 DEF StatInstalled, Require, Current
  <2> QED
    BY <1>1, <2>2 DEF Agree, Staging, Placed
<1>6. CASE VerifyInstalled(p)
  <2>1. /\ SameSnapshot(Stat(file, mine[p]), final[p])
        /\ file[mine[p]].content = req[p].desired
    BY <1>6 DEF VerifyInstalled, Agree, SameSnapshot, SameIdentity
  <2>2. pc'[p] = "sync" /\ failure' = failure /\ pc[p] = "vinst" /\ final' = final
    BY <1>6, <2>1 DEF VerifyInstalled, Require, local
  <2> QED
    BY <1>1, <2>2 DEF Agree, Staging, Placed
<1>7. CASE SyncParent(p)
  <2>1. pc'[p] = "restat" /\ failure' = failure /\ pc[p] = "sync" /\ final' = final
    BY <1>7 DEF SyncParent, local
  <2> QED
    BY <1>1, <2>1 DEF Agree, Staging, Placed
<1>8. CASE Restat(p)
  <2>1. SameSnapshot(Current(p), final[p])
    BY <1>1, <1>8 DEF Restat, Agree, SameSnapshot, SameIdentity, Current
  <2>2. pc'[p] = "canon1" /\ failure' = failure /\ pc[p] = "restat" /\ final' = final
    BY <1>8, <2>1 DEF Restat, Require, local
  <2> QED
    BY <1>1, <2>2 DEF Agree, Staging, Placed
<1>9. CASE Canon1(p)
  <2>1. /\ pc'[p] = "canon2" /\ failure' = failure /\ pc[p] = "canon1" /\ final' = final
        /\ observed'[p] = Stat(file, mine[p])
    BY <1>1, <1>9 DEF Canon1, FirstRead, Require, Current
  <2> QED
    BY <1>1, <2>1 DEF Agree, Staging, Placed
<1>10. CASE Canon2(p)
  <2>1. SecondReadIs(p, final[p])
    BY <1>1, <1>10 DEF Canon2, SecondReadIs, Agree, SameSnapshot, SameIdentity, Current
  <2>2. pc'[p] = "discard" /\ failure' = failure /\ final' = final
    BY <1>10, <2>1 DEF Canon2, Require, local
  <2> QED
    BY <1>1, <2>2, <1>10 DEF Canon2, Agree, Staging, Placed
<1>11. CASE Discard(p)
    BY <1>11 DEF Discard, Agree, Staging, Placed
<1> QED
    BY <1>3, <1>4, <1>5, <1>6, <1>7, <1>8, <1>9, <1>10, <1>11

\* The writer that takes a calm step.
LEMMA StepAgree ==
    ASSUME IInv, OwnInv, NEW p \in Writers, Agree(p), ~failure[p], bound, Step(p),
           faults = 0, faults' = 0
    PROVE  Agree(p)' /\ ~failure'[p] /\ bound'
<1>1. Shape(p) /\ pc \in [Writers -> Steps]
    BY SeenTypes DEF OwnInv
<1>2. bound'
    BY DiskSteps
    DEF disk, CreatePayload, WritePayload, FlushPayload, Install, Rollback
<1>3. CASE Probe(p)
  <2>1. ~failure'[p]
    BY <1>3 DEF Probe, Commit, Advance, Exit, outcome
  <2> QED
    BY <1>2, <1>3, <2>1, ProbeAgree
<1>4. CASE \/ Begin(p) \/ Open(p) \/ Sum(p) \/ Confirm(p) \/ Noop1(p)
           \/ Noop2(p) \/ MakeWorkspace(p) \/ EarlyFault(p)
  <2>1. ~failure'[p]
    BY <1>4
    DEF Begin, Open, Sum, Confirm, Noop1, Noop2, MakeWorkspace, EarlyFault, Commit,
        Advance, Exit, outcome
  <2> QED
    BY <1>2, <1>4, <2>1, EarlyAgree
<1>5. CASE CreatePayload(p) \/ WritePayload(p) \/ FlushPayload(p)
  <2>1. ~failure'[p]
    BY <1>5 DEF CreatePayload, WritePayload, FlushPayload, Advance, outcome
  <2> QED
    BY <1>2, <1>5, <2>1, StagingAgree
<1>6. CASE Install(p)
    BY <1>2, <1>6, InstallAgree
<1>7. CASE \/ SyncWorkspace(p) \/ VerifyDisplaced(p) \/ StatInstalled(p) \/ VerifyInstalled(p)
           \/ SyncParent(p) \/ Restat(p) \/ Canon1(p) \/ Canon2(p) \/ Discard(p)
    BY <1>2, <1>7, PlacedAgree
<1>8. CASE GuardedFault(p) \/ Rollback(p) \/ VerifyCaptured(p)
  <2>1. ~GuardedFault(p)
    BY DEF GuardedFault
  <2>2. pc[p] \notin {"rollback", "vcap"}
    BY <1>1 DEF Shape
  <2> QED
    BY <1>8, <2>1, <2>2 DEF Rollback, VerifyCaptured
<1>9. CASE Close(p) \/ RemoveWorkspace(p) \/ Post1(p) \/ Post2(p) \/ PostFault(p)
  <2>1. ~failure'[p] /\ pc'[p] \in {"rmws", "post1", "post2", "done"}
    BY <1>1, <1>9
    DEF Close, RemoveWorkspace, Post1, Post2, PostFault, Advance, Return, FailNaming, Spent, Go, outcome
  <2> QED
    BY <1>2, <2>1 DEF Agree, Staging, Placed
<1> QED
    BY <1>3, <1>4, <1>5, <1>6, <1>7, <1>8, <1>9 DEF Step

\* The others keep what they have seen: they hold no lock, or p does.
LEMMA OtherAgrees ==
    ASSUME IInv, Locked, NEW p \in Writers, Step(p), NEW q \in Writers, q # p, Agree(q)
    PROVE  Agree(q)'
<1>1. Frame(q) /\ req' = req
    BY StepFrames
<1>2. CASE Holds(q)
    BY <1>1, <1>2, HolderAlone DEF Agree, Frame
<1>3. CASE ~Holds(q)
    BY <1>1, <1>3 DEF Holds, Agree, Frame, Staging, Placed
<1> QED
    BY <1>2, <1>3

LEMMA NextCalm == IInv /\ OwnInv /\ Locked /\ Calm /\ [Next]_vars => Calm'
<1> SUFFICES ASSUME IInv, OwnInv, Locked, Calm, [Next]_vars, foreign' = 0, faults' = 0
             PROVE  bound' /\ \A q \in Writers : ~failure'[q] /\ Agree(q)'
    BY DEF Calm
<1>1. ASSUME NEW p \in Writers, Step(p)
      PROVE  bound' /\ \A q \in Writers : ~failure'[q] /\ Agree(q)'
  <2>1. foreign = 0 /\ faults = 0
    BY <1>1, StepCounts DEF IInv, TypeOK, CountType
  <2>2. bound /\ \A q \in Writers : ~failure[q] /\ Agree(q)
    BY <2>1 DEF Calm
  <2>3. \A q \in Writers : q # p => failure'[q] = failure[q] /\ Agree(q)'
    BY <1>1, <2>2, StepFrames, OtherAgrees DEF Frame
  <2> QED
    BY <1>1, <2>1, <2>2, <2>3, StepAgree
<1>2. CASE ForeignReplace \/ ForeignRewrite \/ ForeignLink \/ ForeignDelete \/ MoveParent
    BY <1>2 DEF ForeignReplace, ForeignRewrite, ForeignLink, ForeignDelete, MoveParent,
                Foreign, IInv, TypeOK
<1>3. ASSUME NEW p \in Writers, Kill(p)
      PROVE  bound' /\ \A q \in Writers : ~failure'[q] /\ Agree(q)'
  <2>1. /\ UNCHANGED <<disk, req, local, private, outcome, observer>>
        /\ pc \in [Writers -> Steps] /\ pc' = [pc EXCEPT ![p] = "dead"]
    BY <1>3, SeenTypes DEF Kill, Go
  <2>2. bound /\ \A q \in Writers : ~failure[q] /\ Agree(q)
    BY <2>1 DEF Calm, observer, bounds
  <2> QED
    BY <2>1, <2>2 DEF Agree, disk, local, private, outcome, Staging, Placed
<1>4. CASE PowerLoss
  <2>1. /\ UNCHANGED <<bound, failure, foreign, faults>>
        /\ \A q \in Writers : pc'[q] = "dead"
    BY <1>4 DEF PowerLoss, outcome, bounds
  <2> QED
    BY <2>1 DEF Calm, Agree, Staging, Placed
<1>5. CASE UNCHANGED vars
  <2>1. bound /\ \A q \in Writers : ~failure[q] /\ Agree(q)
    BY <1>5 DEF Calm, vars
  <2> QED
    BY <1>5, <2>1 DEF vars, disk, local, private, outcome, Agree
<1> QED
    BY <1>1, <1>2, <1>3, <1>4, <1>5 DEF Next, Environment, Terminated

LEMMA InitCalm == Init => Locked /\ Calm
    BY DEF Init, Locked, Holds, Calm, Agree, Staging, Placed

\* Two writers never get in each other's way: when no other program touches the
\* path and no call fails, no writer has to abort once it has staged its payload.
THEOREM WritersNeverAbort == Spec => []WritersApart
<1>1. Calm => WritersApart
    BY DEF Calm, WritersApart
<1>2. Spec => [](IInv /\ OwnInv /\ Locked /\ Calm)
    BY InitInv, NextInv, InitOwnInv, NextOwnInv, InitCalm, NextLocked, NextCalm, PTL DEF Spec
<1> QED
    BY <1>1, <1>2, PTL
================================================================================
