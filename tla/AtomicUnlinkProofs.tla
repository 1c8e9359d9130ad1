---------------------------- MODULE AtomicUnlinkProofs ----------------------------
(***************************************************************************)
(* Theorems about AtomicUnlink for any removers, requests and contents,    *)
(* any number of foreign steps and of failing system calls.                *)
(*                                                                         *)
(* A remover takes an inode away from the path for good by a rename.  From *)
(* then until it gives the inode back or returns, the inode is the one it  *)
(* has taken (Taken), and no two removers and never the path have the same *)
(* one (Apart): nobody else can restore it, so nobody can rewrite it after *)
(* the last check of its content (Verified).  Stage says what a remover    *)
(* has in its quarantine at each of its steps.                             *)
(***************************************************************************)
EXTENDS AtomicUnlink, TLAPS

-----------------------------------------------------------------------------
(* The file table *)

Inodes(table) == 1 .. Len(table)

\* The fields of a node, and the nodes of a table.
LEMMA NodeType ==
    ASSUME NEW node \in Node
    PROVE  /\ node.content \in Contents \cup {Torn}
           /\ node.ver \in Nat /\ node.ctime \in Nat
           /\ node.ok \in BOOLEAN /\ node.synced \in BOOLEAN
    BY DEF Node

LEMMA NodeTouched ==
    ASSUME NEW node \in Node
    PROVE  LET new == [node EXCEPT !.ctime = @ + 1]
           IN  /\ new \in Node /\ new.ctime = node.ctime + 1
               /\ new.content = node.content /\ new.synced = node.synced /\ new.ver = node.ver
    BY DEF Node

\* rename(2) and link(2) keep what a file is.
LEMMA RelinkKeeps ==
    ASSUME NEW table \in Seq(Node), NEW S
    PROVE  /\ Relinked(table, S) \in Seq(Node) /\ Len(Relinked(table, S)) = Len(table)
           /\ \A i \in Inodes(table) :
                /\ Relinked(table, S)[i].content = table[i].content
                /\ Relinked(table, S)[i].ver = table[i].ver
<1>1. DOMAIN table = Inodes(table) /\ \A i \in Inodes(table) : table[i] \in Node
    BY DEF Inodes
<1>2. \A i \in Inodes(table) :
        Relinked(table, S)[i] = IF i \in S THEN [table[i] EXCEPT !.ctime = @ + 1] ELSE table[i]
    BY <1>1 DEF Relinked
<1>3. Relinked(table, S) \in [1 .. Len(table) -> Node]
    BY <1>1, NodeTouched DEF Relinked, Inodes
<1>4. Relinked(table, S) \in Seq(Node) /\ Len(Relinked(table, S)) = Len(table)
  <2>1. Len(table) \in Nat
    OBVIOUS
  <2> HIDE DEF Relinked
  <2>2. \A n \in Nat : \A f \in [1 .. n -> Node] : f \in Seq(Node) /\ Len(f) = n
    OBVIOUS
  <2> QED
    BY <1>3, <2>1, <2>2
<1> QED
    BY <1>1, <1>2, <1>4, NodeTouched

\* Foreign rewrites: content, version and ctime of one file.
LEMMA RewriteKeeps ==
    ASSUME NEW table \in Seq(Node), NEW i \in Inodes(table), NEW c \in Contents, NEW dv \in Nat
    PROVE  /\ Rewritten(table, i, c, dv) \in Seq(Node)
           /\ Len(Rewritten(table, i, c, dv)) = Len(table)
           /\ Rewritten(table, i, c, dv)[i].content = c
           /\ \A j \in Inodes(table) : j # i => Rewritten(table, i, c, dv)[j] = table[j]
<1> DEFINE node == [table[i] EXCEPT !.content = c, !.ver = @ + dv, !.ctime = @ + 1]
           new == [table EXCEPT ![i] = node]
<1>1. table[i] \in Node
    BY DEF Inodes
<1>2. table[i].ver + dv \in Nat /\ table[i].ctime + 1 \in Nat /\ c \in Contents \cup {Torn}
    BY <1>1, NodeType
<1>3. node \in Node /\ node.content = c
  <2>1. table[i].ok \in BOOLEAN /\ table[i].synced \in BOOLEAN
    BY <1>1, NodeType
  <2> QED
    BY <1>1, <1>2, <2>1 DEF Node
<1>4. Rewritten(table, i, c, dv) = new
    BY <1>1 DEF Rewritten, Inodes, Node
<1> HIDE DEF node
<1>5. new \in Seq(Node) /\ Len(new) = Len(table)
    BY <1>3 DEF Inodes
<1>6. new[i] = node /\ \A j \in Inodes(table) : j # i => new[j] = table[j]
    BY DEF Inodes
<1> QED
  <2> HIDE DEF node, new
  <2> QED
    BY <1>3, <1>4, <1>5, <1>6

\* What os.stat returns has its type.
LEMMA StatType ==
    ASSUME NEW table \in Seq(Node), NEW i \in 0 .. Len(table)
    PROVE  Stat(table, i) \in StatResult
<1>1. CASE i = NoFile
    BY <1>1 DEF Stat, StatResult, NoStat, NoFile
<1>2. CASE i \in Inodes(table)
  <2>1. table[i].ver \in Nat /\ table[i].ctime \in Nat
    BY <1>2, NodeType DEF Inodes
  <2> QED
    BY <1>2, <2>1 DEF Stat, StatResult, NoFile, Inodes
<1> QED
    BY <1>1, <1>2 DEF NoFile, Inodes

LEMMA StatIno == \A table, i : Stat(table, i).ino = i
    BY DEF Stat, NoStat, NoFile

-----------------------------------------------------------------------------
(* What a remover has *)

At(p, steps) == pc[p] \in steps
Early == {"begin", "stat", "open", "sum", "last", "mkdir"}
Captured(p) == At(p, {"inspect", "recheck", "restore", "remove"})
Dropped(p) == At(p, {"forget", "rmdir"}) \/ result[p] = "changed"

Stage(p) ==
    /\ before[p].ino \in Ids
    /\ verified[p] # NoFile \/ moved[p] # NoFile => quarantine[p]
    /\ ~At(p, {"done", "dead"}) => result[p] = "running" /\ report[p] = "none"
    /\ At(p, Early) => ~quarantine[p]
    /\ At(p, {"link"}) => quarantine[p] /\ verified[p] = NoFile
    /\ At(p, {"link", "rename", "forget", "rmdir"}) => moved[p] = NoFile
    /\ At(p, {"rename", "forget"}) \/ Captured(p) => verified[p] = before[p].ino
    /\ At(p, {"rmdir"}) => verified[p] = NoFile
    /\ Captured(p) => moved[p] # NoFile
    /\ ~At(p, {"begin", "stat", "done", "dead"}) \/ Dropped(p) => before[p].ino # NoFile
    /\ At(p, {"mkdir", "link", "rename"}) \/ Captured(p) => final[p].ino = before[p].ino
    /\ At(p, {"done"}) /\ report[p] = "none" /\ faults = 0 => ~quarantine[p]
    /\ result[p] = "changed" => At(p, {"done"})

\* What a remover that passed its last check removes is what its caller named.
Verified(p) ==
    /\ At(p, {"remove"}) => moved[p] = before[p].ino
    /\ At(p, {"remove"}) \/ Dropped(p) => file[before[p].ino].content = req[p].checksum

\* The inode a remover has taken from the path, for now or for good.
Taken(p) ==
    IF Captured(p) THEN moved[p] ELSE IF Dropped(p) THEN before[p].ino ELSE NoFile
Apart ==
    \A p \in Removers :
        Taken(p) # NoFile =>
            /\ Taken(p) # target
            /\ \A q \in Removers \ {p} : Taken(q) # Taken(p)

Inv ==
    /\ TypeOK /\ Apart /\ NoSilentLoss
    /\ \A p \in Removers : Stage(p) /\ Verified(p)
----------------------------------------------------------------------------
(* The table. *)

LEMMA StepKeepsTable ==
    ASSUME TypeOK, NEW p \in Removers, Step(p)
    PROVE  /\ file' \in Seq(Node) /\ Len(file') = Len(file) /\ Len(file) \in Nat
           /\ \A i \in Inodes(file) : file'[i].content = file[i].content
           /\ UNCHANGED <<req, theirs, foreign>>
           /\ UNCHANGED faults \/ faults' = faults + 1
<1>1. file \in Seq(Node)  BY DEF TypeOK
<1>2. UNCHANGED file \/ \E S : file' = Relinked(file, S)
      BY DEF Step, Begin, StatEntry, Open, Sum, LastLook, MakeQuarantine, PreserveOpenFile, RenameAway,
             Inspect, Recheck, Restore, RemoveMoved, ForgetVerified, RemoveQuarantine, OtherFault, disk
<1>3. UNCHANGED <<req, theirs, foreign>> /\ (UNCHANGED faults \/ faults' = faults + 1)
      BY DEF Step, Begin, StatEntry, Open, Sum, LastLook, MakeQuarantine, PreserveOpenFile, RenameAway,
             Inspect, Recheck, Restore, RemoveMoved, ForgetVerified, RemoveQuarantine, OtherFault, disk,
             bounds, Fault
<1> QED  BY <1>1, <1>2, <1>3, RelinkKeeps

\* The state of the other removers.
Frame(q) ==
    /\ pc'[q] = pc[q] /\ before'[q] = before[q] /\ final'[q] = final[q]
    /\ quarantine'[q] = quarantine[q] /\ verified'[q] = verified[q] /\ moved'[q] = moved[q]
    /\ result'[q] = result[q] /\ report'[q] = report[q]

LEMMA StepFrames ==
    ASSUME TypeOK, NEW p \in Removers, Step(p), NEW q \in Removers, q # p
    PROVE  Frame(q)
<1> USE DEF TypeOK, Frame, Go, Advance, Return, Swept, private, outcome, Fault
<1>1. CASE Begin(p)  BY <1>1 DEF Begin
<1>2. CASE StatEntry(p)  BY <1>2 DEF StatEntry
<1>3. CASE Open(p)  BY <1>3 DEF Open
<1>4. CASE Sum(p)  BY <1>4 DEF Sum
<1>5. CASE LastLook(p)  BY <1>5 DEF LastLook
<1>6. CASE MakeQuarantine(p)  BY <1>6 DEF MakeQuarantine
<1>7. CASE PreserveOpenFile(p)  BY <1>7 DEF PreserveOpenFile
<1>8. CASE RenameAway(p)  BY <1>8 DEF RenameAway
<1>9. CASE Inspect(p)  BY <1>9 DEF Inspect
<1>10. CASE Recheck(p)  BY <1>10 DEF Recheck
<1>11. CASE Restore(p)  BY <1>11 DEF Restore
<1>12. CASE RemoveMoved(p)  BY <1>12 DEF RemoveMoved
<1>13. CASE ForgetVerified(p)  BY <1>13 DEF ForgetVerified
<1>14. CASE RemoveQuarantine(p)  BY <1>14 DEF RemoveQuarantine
<1>15. CASE OtherFault(p)  BY <1>15 DEF OtherFault
<1> QED
    BY <1>1, <1>2, <1>3, <1>4, <1>5, <1>6, <1>7, <1>8, <1>9, <1>10, <1>11, <1>12, <1>13, <1>14, <1>15
    DEF Step
----------------------------------------------------------------------------
(* What a step of a remover does to the remover itself. *)

\* It takes the path's entry, gives its own one back, or does neither.
Shift(p) ==
    \/ Taken(p)' \in {Taken(p), NoFile} /\ target' = target
    \/ target # NoFile /\ Taken(p)' = target /\ target' = NoFile
    \/ Taken(p) # NoFile /\ target' = Taken(p) /\ Taken(p)' = NoFile

\* What it holds it keeps, gives back, or has removed.
Keeps(p, i) == (quarantine[p] /\ i \in {verified[p], moved[p]}) \/ Removed(p, i)
KeepsAll(p) ==
    \A i \in Ids \ {NoFile} :
        i = target \/ Keeps(p, i) => i = target' \/ Keeps(p, i)'

Proper(p) == Stage(p) /\ Verified(p)
Good(p) == Proper(p)' /\ Shift(p) /\ KeepsAll(p)


LEMMA SweepsEmpty ==
    ASSUME quarantine \in [Removers -> BOOLEAN], NEW p \in Removers, NEW S, S = {NoFile}, Swept(p, S)
    PROVE  ~quarantine'[p]
<1>1. quarantine' = [quarantine EXCEPT ![p] = quarantine[p] /\ S # {NoFile}]  BY Zenon DEF Swept
<1> QED  BY <1>1, Zenon

LEMMA BeginGood ==
    ASSUME TypeOK, NEW p \in Removers, Proper(p), Step(p), Begin(p)
    PROVE  Good(p)
<1>1. Len(file') = Len(file) /\ \A i \in Inodes(file) : file'[i].content = file[i].content
      BY StepKeepsTable
<1> USE DEF TypeOK, Proper, At, Early, Captured, Dropped, Ids,
            Begin, Go, Advance, outcome, Return, disk, private, bounds
<1>2. Stage(p)'  BY <1>1 DEF Stage
<1>3. Verified(p)'  BY <1>1 DEF Stage, Verified
<1>4. Shift(p)  BY DEF Stage, Shift, Taken
<1>5. KeepsAll(p)  BY <1>1 DEF Stage, KeepsAll, Keeps, Removed
<1> QED  BY <1>2, <1>3, <1>4, <1>5 DEF Good

LEMMA StatEntryGood ==
    ASSUME TypeOK, NEW p \in Removers, Proper(p), Step(p), StatEntry(p)
    PROVE  Good(p)
<1>1. Len(file') = Len(file) /\ \A i \in Inodes(file) : file'[i].content = file[i].content
      BY StepKeepsTable
<1> USE DEF TypeOK, Proper, At, Early, Captured, Dropped, Ids,
            StatEntry, Go, Advance, outcome, Return, disk, private, bounds
<1>2. Stage(p)'  BY <1>1, StatIno DEF Stage, Current
<1>3. Verified(p)'  BY <1>1 DEF Stage, Verified
<1>4. Shift(p)  BY DEF Stage, Shift, Taken
<1>5. KeepsAll(p)  BY <1>1 DEF Stage, KeepsAll, Keeps, Removed
<1> QED  BY <1>2, <1>3, <1>4, <1>5 DEF Good

LEMMA OpenGood ==
    ASSUME TypeOK, NEW p \in Removers, Proper(p), Step(p), Open(p)
    PROVE  Good(p)
<1>1. Len(file') = Len(file) /\ \A i \in Inodes(file) : file'[i].content = file[i].content
      BY StepKeepsTable
<1> USE DEF TypeOK, Proper, At, Early, Captured, Dropped, Ids,
            Open, Go, Advance, outcome, Return, disk, private, bounds
<1>2. Stage(p)'  BY <1>1 DEF Stage
<1>3. Verified(p)'  BY <1>1 DEF Stage, Verified
<1>4. Shift(p)  BY DEF Stage, Shift, Taken
<1>5. KeepsAll(p)  BY <1>1 DEF Stage, KeepsAll, Keeps, Removed
<1> QED  BY <1>2, <1>3, <1>4, <1>5 DEF Good

LEMMA SumGood ==
    ASSUME TypeOK, NEW p \in Removers, Proper(p), Step(p), Sum(p)
    PROVE  Good(p)
<1>1. Len(file') = Len(file) /\ \A i \in Inodes(file) : file'[i].content = file[i].content
      BY StepKeepsTable
<1> USE DEF TypeOK, Proper, At, Early, Captured, Dropped, Ids,
            Sum, Go, Advance, outcome, Return, disk, private, bounds
<1>2. Stage(p)'  BY <1>1 DEF Stage
<1>3. Verified(p)'  BY <1>1 DEF Stage, Verified
<1>4. Shift(p)  BY DEF Stage, Shift, Taken
<1>5. KeepsAll(p)  BY <1>1 DEF Stage, KeepsAll, Keeps, Removed
<1> QED  BY <1>2, <1>3, <1>4, <1>5 DEF Good

LEMMA LastLookGood ==
    ASSUME TypeOK, NEW p \in Removers, Proper(p), Step(p), LastLook(p)
    PROVE  Good(p)
<1>1. Len(file') = Len(file) /\ \A i \in Inodes(file) : file'[i].content = file[i].content
      BY StepKeepsTable
<1> USE DEF TypeOK, Proper, At, Early, Captured, Dropped, Ids,
            LastLook, Go, Advance, outcome, Return, disk, private, bounds
<1>2. Stage(p)'  BY <1>1, StatIno DEF Stage
<1>3. Verified(p)'  BY <1>1 DEF Stage, Verified
<1>4. Shift(p)  BY DEF Stage, Shift, Taken
<1>5. KeepsAll(p)  BY <1>1 DEF Stage, KeepsAll, Keeps, Removed
<1> QED  BY <1>2, <1>3, <1>4, <1>5 DEF Good

LEMMA MakeQuarantineGood ==
    ASSUME TypeOK, NEW p \in Removers, Proper(p), Step(p), MakeQuarantine(p)
    PROVE  Good(p)
<1>1. Len(file') = Len(file) /\ \A i \in Inodes(file) : file'[i].content = file[i].content
      BY StepKeepsTable
<1> USE DEF TypeOK, Proper, At, Early, Captured, Dropped, Ids,
            MakeQuarantine, Go, Advance, outcome, disk, bounds
<1>2. Stage(p)'  BY <1>1 DEF Stage
<1>3. Verified(p)'  BY <1>1 DEF Stage, Verified
<1>4. Shift(p)  BY DEF Stage, Shift, Taken
<1>5. KeepsAll(p)  BY <1>1 DEF Stage, KeepsAll, Keeps, Removed
<1> QED  BY <1>2, <1>3, <1>4, <1>5 DEF Good

LEMMA PreserveOpenFileGood ==
    ASSUME TypeOK, NEW p \in Removers, Proper(p), Step(p), PreserveOpenFile(p)
    PROVE  Good(p)
<1>1. Len(file') = Len(file) /\ \A i \in Inodes(file) : file'[i].content = file[i].content
      BY StepKeepsTable
<1>0. \/ Advance(p, "rename") /\ verified' = [verified EXCEPT ![p] = before[p].ino] /\ UNCHANGED quarantine
      \/ Swept(p, {moved[p]}) /\ UNCHANGED verified /\ Return(p, "failed", "none")
      \/ Fault /\ Return(p, "failed", "none") /\ UNCHANGED quarantine
      BY DEF PreserveOpenFile
<1> USE DEF TypeOK, Proper, At, Early, Captured, Dropped, Ids,
            PreserveOpenFile, Go, Advance, outcome, Return, Fault, Swept
<1>2. Stage(p)'
  <2>1. CASE pc'[p] = "rename"  BY <1>0, <1>1, <2>1 DEF Stage
  <2>2. CASE Swept(p, {moved[p]}) /\ UNCHANGED verified /\ Return(p, "failed", "none")
    <3>1. {moved[p]} = {NoFile}  BY DEF Stage
    <3>2. quarantine \in [Removers -> BOOLEAN]  BY DEF TypeOK
    <3>3. ~quarantine'[p]  BY <2>2, <3>1, <3>2, SweepsEmpty
    <3> QED  BY <1>1, <2>2, <3>3 DEF Stage
  <2>3. CASE pc'[p] = "done" /\ faults' = faults + 1  BY <1>1, <2>3 DEF Stage
  <2> QED  BY <1>0, <2>1, <2>2, <2>3
<1>3. Verified(p)'  BY <1>1 DEF Stage, Verified
<1>4. Shift(p)  BY DEF Stage, Shift, Taken
<1>5. KeepsAll(p)  BY <1>1 DEF Stage, KeepsAll, Keeps, Removed
<1> QED  BY <1>2, <1>3, <1>4, <1>5 DEF Good

LEMMA RenameAwayGood ==
    ASSUME TypeOK, NEW p \in Removers, Proper(p), Step(p), RenameAway(p)
    PROVE  Good(p)
<1>1. Len(file') = Len(file) /\ \A i \in Inodes(file) : file'[i].content = file[i].content
      BY StepKeepsTable
<1> USE DEF TypeOK, Proper, At, Early, Captured, Dropped, Ids,
            RenameAway, Go, Advance, outcome, Return, Fault
<1>2. Stage(p)'  BY <1>1 DEF Stage
<1>3. Verified(p)'  BY <1>1 DEF Stage, Verified
<1>4. Shift(p)  BY DEF Stage, Shift, Taken
<1>5. KeepsAll(p)  BY <1>1 DEF Stage, KeepsAll, Keeps, Removed
<1> QED  BY <1>2, <1>3, <1>4, <1>5 DEF Good

LEMMA InspectGood ==
    ASSUME TypeOK, NEW p \in Removers, Proper(p), Step(p), Inspect(p)
    PROVE  Good(p)
<1>1. Len(file') = Len(file) /\ \A i \in Inodes(file) : file'[i].content = file[i].content
      BY StepKeepsTable
<1> USE DEF TypeOK, Proper, At, Early, Captured, Dropped, Ids,
            Inspect, Go, Advance, outcome, Fault, disk, private
<1>2. Stage(p)'  BY <1>1 DEF Stage
<1>3. Verified(p)'  BY <1>1 DEF Stage, Verified
<1>4. Shift(p)  BY DEF Stage, Shift, Taken
<1>5. KeepsAll(p)  BY <1>1 DEF Stage, KeepsAll, Keeps, Removed
<1> QED  BY <1>2, <1>3, <1>4, <1>5 DEF Good

LEMMA RecheckGood ==
    ASSUME TypeOK, NEW p \in Removers, Proper(p), Step(p), Recheck(p)
    PROVE  Good(p)
<1>1. Len(file') = Len(file) /\ \A i \in Inodes(file) : file'[i].content = file[i].content
      BY StepKeepsTable
<1> USE DEF TypeOK, Proper, At, Early, Captured, Dropped, Ids,
            Recheck, Go, Advance, outcome, Fault, disk, private
<1>2. Stage(p)'  BY <1>1 DEF Stage
<1>3. Verified(p)'  BY <1>1, StatIno DEF Stage, Verified, SameIdentity, Moved, Inodes, NoFile
<1>4. Shift(p)  BY DEF Stage, Shift, Taken
<1>5. KeepsAll(p)  BY <1>1 DEF Stage, KeepsAll, Keeps, Removed
<1> QED  BY <1>2, <1>3, <1>4, <1>5 DEF Good

LEMMA RestoreGood ==
    ASSUME TypeOK, NEW p \in Removers, Proper(p), Step(p), Restore(p)
    PROVE  Good(p)
<1>1. Len(file') = Len(file) /\ \A i \in Inodes(file) : file'[i].content = file[i].content
      BY StepKeepsTable
<1> USE DEF TypeOK, Proper, At, Early, Captured, Dropped, Ids,
            Restore, Go, Return, Fault
<1>2. Stage(p)'  BY <1>1 DEF Stage
<1>3. Verified(p)'  BY <1>1 DEF Stage, Verified
<1>4. Shift(p)  BY DEF Stage, Shift, Taken
<1>5. KeepsAll(p)  BY <1>1 DEF Stage, KeepsAll, Keeps, Removed
<1> QED  BY <1>2, <1>3, <1>4, <1>5 DEF Good

LEMMA RemoveMovedGood ==
    ASSUME TypeOK, NEW p \in Removers, Proper(p), Step(p), RemoveMoved(p)
    PROVE  Good(p)
<1>1. Len(file') = Len(file) /\ \A i \in Inodes(file) : file'[i].content = file[i].content
      BY StepKeepsTable
<1> USE DEF TypeOK, Proper, At, Early, Captured, Dropped, Ids,
            RemoveMoved, Go, Advance, outcome, Fault, disk
<1>2. Stage(p)'  BY <1>1 DEF Stage
<1>3. Verified(p)'  BY <1>1 DEF Stage, Verified
<1>4. Shift(p)  BY DEF Stage, Verified, Shift, Taken
<1>5. KeepsAll(p)  BY <1>1 DEF Stage, Verified, KeepsAll, Keeps, Removed, Inodes, NoFile
<1> QED  BY <1>2, <1>3, <1>4, <1>5 DEF Good

LEMMA ForgetVerifiedGood ==
    ASSUME TypeOK, NEW p \in Removers, Proper(p), Step(p), ForgetVerified(p)
    PROVE  Good(p)
<1>1. Len(file') = Len(file) /\ \A i \in Inodes(file) : file'[i].content = file[i].content
      BY StepKeepsTable
<1> USE DEF TypeOK, Proper, At, Early, Captured, Dropped, Ids,
            ForgetVerified, Go, Advance, outcome, Return, Fault, disk
<1>2. Stage(p)'  BY <1>1 DEF Stage
<1>3. Verified(p)'  BY <1>1 DEF Stage, Verified
<1>4. Shift(p)  BY DEF Stage, Verified, Shift, Taken
<1>5. KeepsAll(p)  BY <1>1 DEF Stage, Verified, KeepsAll, Keeps, Removed, Inodes, NoFile
<1> QED  BY <1>2, <1>3, <1>4, <1>5 DEF Good

LEMMA RemoveQuarantineGood ==
    ASSUME TypeOK, NEW p \in Removers, Proper(p), Step(p), RemoveQuarantine(p)
    PROVE  Good(p)
<1>1. Len(file') = Len(file) /\ \A i \in Inodes(file) : file'[i].content = file[i].content
      BY StepKeepsTable
<1>0. Swept(p, {moved[p], verified[p]}) \/ Fault  BY DEF RemoveQuarantine
<1> USE DEF TypeOK, Proper, At, Early, Captured, Dropped, Ids,
            RemoveQuarantine, Go, Return, Fault, Swept, disk
<1>2. Stage(p)'
  <2>1. CASE Swept(p, {moved[p], verified[p]})
    <3>1. {moved[p], verified[p]} = {NoFile}  BY DEF Stage
    <3>2. quarantine \in [Removers -> BOOLEAN]  BY DEF TypeOK
    <3>3. ~quarantine'[p]  BY <2>1, <3>1, <3>2, SweepsEmpty
    <3> QED  BY <1>1, <3>3 DEF Stage
  <2>2. CASE faults' = faults + 1  BY <1>1, <2>2 DEF Stage
  <2> QED  BY <1>0, <2>1, <2>2
<1>3. Verified(p)'  BY <1>1 DEF Stage, Verified
<1>4. Shift(p)  BY DEF Stage, Shift, Taken
<1>5. KeepsAll(p)  BY <1>1 DEF Stage, KeepsAll, Keeps, Removed
<1> QED  BY <1>2, <1>3, <1>4, <1>5 DEF Good

LEMMA OtherFaultGood ==
    ASSUME TypeOK, NEW p \in Removers, Proper(p), Step(p), OtherFault(p)
    PROVE  Good(p)
<1>1. Len(file') = Len(file) /\ \A i \in Inodes(file) : file'[i].content = file[i].content
      BY StepKeepsTable
<1> USE DEF TypeOK, Proper, At, Early, Captured, Dropped, Ids,
            OtherFault, Go, Return, Fault, Swept, disk
<1>2. Stage(p)'  BY <1>1 DEF Stage
<1>3. Verified(p)'  BY <1>1 DEF Stage, Verified
<1>4. Shift(p)  BY DEF Stage, Shift, Taken
<1>5. KeepsAll(p)  BY <1>1 DEF Stage, KeepsAll, Keeps, Removed
<1> QED  BY <1>2, <1>3, <1>4, <1>5 DEF Good
----------------------------------------------------------------------------
(* A step of a remover keeps the invariant. *)

LEMMA StepTypes ==
    ASSUME TypeOK, NEW p \in Removers, before[p].ino \in Ids, Step(p)
    PROVE  TypeOK'
<1>1. /\ file' \in Seq(Node) /\ Len(file') = Len(file) /\ UNCHANGED <<req, theirs, foreign>>
      /\ UNCHANGED faults \/ faults' = faults + 1
      BY StepKeepsTable
<1>2. Ids' = Ids /\ NoFile \in Ids  BY <1>1, StepKeepsTable DEF Ids, NoFile
<1>3. Current \in StatResult /\ Stat(file, before[p].ino) \in StatResult
      BY StatType DEF TypeOK, Current, Ids
<1>4. /\ target' \in Ids /\ bound' \in BOOLEAN /\ pc' \in [Removers -> Steps]
      /\ before' \in [Removers -> StatResult] /\ final' \in [Removers -> StatResult]
  <2> HIDE DEF Ids, Current
  <2> USE <1>2, <1>3 DEF TypeOK, Steps, Go, Advance, Return, Fault, disk
  <2>1. CASE Begin(p)  BY <2>1 DEF Begin
  <2>2. CASE StatEntry(p)  BY <2>2 DEF StatEntry
  <2>3. CASE Open(p)  BY <2>3 DEF Open
  <2>4. CASE Sum(p)  BY <2>4 DEF Sum
  <2>5. CASE LastLook(p)  BY <2>5 DEF LastLook
  <2>6. CASE MakeQuarantine(p)  BY <2>6 DEF MakeQuarantine
  <2>7. CASE PreserveOpenFile(p)  BY <2>7 DEF PreserveOpenFile
  <2>8. CASE RenameAway(p)  BY <2>8 DEF RenameAway
  <2>9. CASE Inspect(p)  BY <2>9 DEF Inspect
  <2>10. CASE Recheck(p)  BY <2>10 DEF Recheck
  <2>11. CASE Restore(p)  BY <2>11 DEF Restore
  <2>12. CASE RemoveMoved(p)  BY <2>12 DEF RemoveMoved
  <2>13. CASE ForgetVerified(p)  BY <2>13 DEF ForgetVerified
  <2>14. CASE RemoveQuarantine(p)  BY <2>14 DEF RemoveQuarantine
  <2>15. CASE OtherFault(p)  BY <2>15 DEF OtherFault
  <2> QED
      BY <2>1, <2>2, <2>3, <2>4, <2>5, <2>6, <2>7, <2>8, <2>9, <2>10, <2>11, <2>12, <2>13, <2>14, <2>15
      DEF Step
<1>5. /\ verified' \in [Removers -> Ids] /\ moved' \in [Removers -> Ids]
      /\ result' \in [Removers -> Results] /\ report' \in [Removers -> Reports]
  <2> HIDE DEF Ids
  <2> USE <1>2 DEF TypeOK, Results, Reports, Advance, Return, private, outcome
  <2>1. CASE Begin(p)  BY <2>1 DEF Begin
  <2>2. CASE StatEntry(p)  BY <2>2 DEF StatEntry
  <2>3. CASE Open(p)  BY <2>3 DEF Open
  <2>4. CASE Sum(p)  BY <2>4 DEF Sum
  <2>5. CASE LastLook(p)  BY <2>5 DEF LastLook
  <2>6. CASE MakeQuarantine(p)  BY <2>6 DEF MakeQuarantine
  <2>7. CASE PreserveOpenFile(p)  BY <2>7 DEF PreserveOpenFile
  <2>8. CASE RenameAway(p)  BY <2>8 DEF RenameAway
  <2>9. CASE Inspect(p)  BY <2>9 DEF Inspect
  <2>10. CASE Recheck(p)  BY <2>10 DEF Recheck
  <2>11. CASE Restore(p)  BY <2>11 DEF Restore
  <2>12. CASE RemoveMoved(p)  BY <2>12 DEF RemoveMoved
  <2>13. CASE ForgetVerified(p)  BY <2>13 DEF ForgetVerified
  <2>14. CASE RemoveQuarantine(p)  BY <2>14 DEF RemoveQuarantine
  <2>15. CASE OtherFault(p)  BY <2>15 DEF OtherFault
  <2> QED
      BY <2>1, <2>2, <2>3, <2>4, <2>5, <2>6, <2>7, <2>8, <2>9, <2>10, <2>11, <2>12, <2>13, <2>14, <2>15
      DEF Step
<1>6. quarantine' \in [Removers -> BOOLEAN]
  <2>1. \/ UNCHANGED quarantine \/ quarantine' = [quarantine EXCEPT ![p] = TRUE]
        \/ \E S : Swept(p, S)
        BY DEF Step, Begin, StatEntry, Open, Sum, LastLook, MakeQuarantine, PreserveOpenFile, RenameAway,
               Inspect, Recheck, Restore, RemoveMoved, ForgetVerified, RemoveQuarantine, OtherFault, private
  <2>2. quarantine \in [Removers -> BOOLEAN]  BY DEF TypeOK
  <2>3. ASSUME NEW S, Swept(p, S)
        PROVE  quarantine' \in [Removers -> BOOLEAN]
    <3>1. quarantine' = [quarantine EXCEPT ![p] = quarantine[p] /\ S # {NoFile}]
          BY <2>3, Zenon DEF Swept
    <3>2. (quarantine[p] /\ S # {NoFile}) \in BOOLEAN  OBVIOUS
    <3> QED  BY <2>2, <3>1, <3>2, Zenon
  <2> QED  BY <2>1, <2>2, <2>3
<1> QED  BY <1>1, <1>2, <1>4, <1>5, <1>6 DEF TypeOK

LEMMA StepGood ==
    ASSUME TypeOK, NEW p \in Removers, Proper(p), Step(p)
    PROVE  Good(p)
    BY BeginGood, StatEntryGood, OpenGood, SumGood, LastLookGood, MakeQuarantineGood,
       PreserveOpenFileGood, RenameAwayGood, InspectGood, RecheckGood, RestoreGood, RemoveMovedGood,
       ForgetVerifiedGood, RemoveQuarantineGood, OtherFaultGood
    DEF Step

LEMMA FrameProper ==
    ASSUME TypeOK, NEW p \in Removers, Step(p), NEW q \in Removers, Frame(q), Proper(q)
    PROVE  Proper(q)'
<1>1. /\ Len(file') = Len(file) /\ UNCHANGED req /\ faults' \in Nat /\ faults' >= faults
      /\ \A i \in Inodes(file) : file'[i].content = file[i].content
      BY StepKeepsTable DEF TypeOK
<1>2. faults' = 0 => faults = 0  BY <1>1 DEF TypeOK
<1>3. Stage(q)'  BY <1>1, <1>2 DEF Frame, Proper, Stage, At, Early, Captured, Dropped, Ids
<1>4. Verified(q)'
      BY <1>1 DEF Frame, Proper, Stage, Verified, At, Early, Captured, Dropped, Ids, Inodes, NoFile
<1> QED  BY <1>3, <1>4 DEF Proper

LEMMA FrameTaken ==
    ASSUME NEW q, Frame(q)
    PROVE  Taken(q)' = Taken(q)
    BY DEF Frame, Taken, Captured, Dropped, At

LEMMA ApartKept ==
    ASSUME NEW p \in Removers, Apart, Shift(p), \A q \in Removers \ {p} : Frame(q)
    PROVE  Apart'
<1>1. \A q \in Removers \ {p} : Taken(q)' = Taken(q)  BY FrameTaken
<1> QED  BY <1>1 DEF Apart, Shift

LEMMA LossKept ==
    ASSUME TypeOK, NEW p \in Removers, Step(p), KeepsAll(p), NoSilentLoss,
           \A q \in Removers : Proper(q), \A q \in Removers \ {p} : Frame(q)
    PROVE  NoSilentLoss'
<1>1. /\ UNCHANGED <<req, theirs>> /\ theirs \subseteq Inodes(file)
      /\ \A i \in Inodes(file) : file'[i].content = file[i].content
      BY StepKeepsTable DEF TypeOK, Inodes
<1> SUFFICES ASSUME NEW i \in theirs PROVE Held(i)'  BY <1>1 DEF NoSilentLoss
<1>2. Held(i) /\ i \in Inodes(file) /\ i \in Ids \ {NoFile}
      BY <1>1 DEF NoSilentLoss, Ids, Inodes, NoFile, TypeOK
<1>3. CASE i = target \/ Keeps(p, i)  BY <1>2, <1>3 DEF KeepsAll, Held, Keeps
<1>4. ASSUME NEW q \in Removers, q # p, Keeps(q, i) PROVE Keeps(q, i)'
      BY <1>1, <1>2, <1>4 DEF Keeps, Removed, Frame
<1> QED  BY <1>2, <1>3, <1>4 DEF Held, Keeps

LEMMA StepKeepsInv ==
    ASSUME Inv, NEW p \in Removers, Step(p)
    PROVE  Inv'
<1>1. TypeOK /\ Apart /\ NoSilentLoss /\ \A q \in Removers : Proper(q)  BY DEF Inv, Proper
<1>2. Good(p)  BY <1>1, StepGood
<1>3. \A q \in Removers \ {p} : Frame(q)  BY <1>1, StepFrames
<1>4. TypeOK'  BY <1>1, StepTypes DEF Proper, Stage
<1>5. \A q \in Removers : Proper(q)'  BY <1>1, <1>2, <1>3, FrameProper DEF Good
<1>6. Apart'  BY <1>1, <1>2, <1>3, ApartKept DEF Good
<1>7. NoSilentLoss'  BY <1>1, <1>2, <1>3, LossKept DEF Good
<1> QED  BY <1>4, <1>5, <1>6, <1>7 DEF Inv, Proper
----------------------------------------------------------------------------
(* A step of another program keeps it: no remover has taken the path's file. *)

LEMMA OutsideKeepsInv ==
    ASSUME Inv, UNCHANGED elsewhere,
           file' \in Seq(Node), Len(file) <= Len(file'),
           \A i \in Inodes(file) : i # target => file'[i].content = file[i].content,
           target' \in Ids', target' = target \/ target' = NoFile \/ target' \notin Ids,
           theirs' \subseteq Inodes(file'),
           \A i \in theirs' : i = target' \/ i \in theirs \ {target},
           bound' \in BOOLEAN, foreign' \in Nat
    PROVE  Inv'
<1> USE DEF elsewhere, private, outcome
<1>1. /\ TypeOK /\ Apart /\ NoSilentLoss /\ \A p \in Removers : Stage(p) /\ Verified(p)
      /\ Len(file) \in Nat /\ Len(file') \in Nat
      /\ \A p \in Removers : before[p].ino \in Ids /\ Taken(p) \in Ids
      BY DEF Inv, TypeOK, Stage, Taken, Ids, NoFile
<1>2. Ids \subseteq Ids'  BY <1>1 DEF Ids
<1>3. TypeOK'
  <2>1. verified \in [Removers -> Ids'] /\ moved \in [Removers -> Ids']  BY <1>1, <1>2 DEF TypeOK
  <2> QED  BY <1>1, <2>1 DEF TypeOK, Inodes
<1>4. \A p \in Removers : Stage(p)'
      BY <1>1, <1>2 DEF Stage, At, Early, Captured, Dropped
<1>5. ASSUME NEW p \in Removers PROVE Taken(p)' = Taken(p)
      BY DEF Taken, Captured, Dropped, At
<1>6. ASSUME NEW p \in Removers PROVE Verified(p)'
  <2>1. CASE At(p, {"remove"}) \/ Dropped(p)
    <3>1. Taken(p) = before[p].ino /\ before[p].ino # NoFile
          BY <1>1, <2>1 DEF Taken, Stage, Verified, Captured, Dropped, At
    <3>2. before[p].ino # target /\ before[p].ino \in Inodes(file)
          BY <1>1, <3>1 DEF Apart, Inodes, Ids, NoFile
    <3> QED  BY <1>1, <3>2 DEF Verified, At, Dropped
  <2>2. CASE ~(At(p, {"remove"}) \/ Dropped(p))  BY <2>2 DEF Verified, At, Dropped
  <2> QED  BY <2>1, <2>2
<1>7. Apart'  BY <1>1, <1>5 DEF Apart
<1>8. NoSilentLoss'
  <2> SUFFICES ASSUME NEW i \in theirs, i # target PROVE Held(i)'
      BY DEF NoSilentLoss, Held
  <2>1. i \in Inodes(file) /\ Held(i)  BY <1>1 DEF NoSilentLoss, TypeOK, Inodes
  <2>2. file'[i].content = file[i].content  BY <2>1
  <2> QED  BY <2>1, <2>2 DEF Held, Removed
<1> QED  BY <1>3, <1>4, <1>6, <1>7, <1>8 DEF Inv

LEMMA KillKeepsInv ==
    ASSUME Inv, NEW p \in Removers, Kill(p)
    PROVE  Inv'
<1>1. TypeOK /\ Apart /\ NoSilentLoss /\ \A q \in Removers : Stage(q) /\ Verified(q)  BY DEF Inv
<1>2. pc[p] \notin {"begin", "done", "dead"} /\ pc' = [pc EXCEPT ![p] = "dead"]
      /\ UNCHANGED <<file, target, bound, req, before, final, quarantine, verified, moved, result, report,
                     theirs, foreign, faults>>
      BY DEF Kill, Go, disk, private, outcome, bounds
<1>3. TypeOK'  BY <1>1, <1>2 DEF TypeOK, Steps, Ids
<1>4. pc'[p] = "dead" /\ \A q \in Removers \ {p} : pc'[q] = pc[q]  BY <1>1, <1>2 DEF TypeOK
<1>5. ASSUME NEW q \in Removers PROVE Stage(q)'
  <2>1. CASE q = p  BY <1>1, <1>2, <1>4, <2>1 DEF Stage, At, Early, Captured, Dropped, Ids
  <2>2. CASE q # p  BY <1>1, <1>2, <1>4, <2>2 DEF Stage, At, Early, Captured, Dropped, Ids
  <2> QED  BY <2>1, <2>2
<1>6. ASSUME NEW q \in Removers PROVE Verified(q)'
      BY <1>1, <1>2, <1>4 DEF Verified, At, Dropped
<1>7. Taken(p)' \in {Taken(p), NoFile} /\ \A q \in Removers \ {p} : Taken(q)' = Taken(q)
      BY <1>1, <1>2, <1>4 DEF Taken, Captured, Dropped, At, Stage
<1>8. Apart'  BY <1>1, <1>2, <1>7 DEF Apart
<1>9. NoSilentLoss'
      BY <1>1, <1>2, <1>4 DEF NoSilentLoss, Held, Removed
<1> QED  BY <1>3, <1>5, <1>6, <1>8, <1>9 DEF Inv

LEMMA EnvironmentKeepsInv ==
    ASSUME Inv, Environment
    PROVE  Inv'
<1>1. /\ file \in Seq(Node) /\ target \in Ids /\ theirs \subseteq Inodes(file) /\ Len(file) \in Nat
      /\ bound \in BOOLEAN /\ foreign \in Nat
      BY DEF Inv, TypeOK, Inodes
<1>2. CASE ForeignReplace
  <2>1. PICK c \in Contents : file' = Append(file, FreshNode(c, TRUE))  BY <1>2 DEF ForeignReplace
  <2>2. FreshNode(c, TRUE) \in Node  BY DEF FreshNode, Node
  <2>3. /\ file' \in Seq(Node) /\ Len(file') = Len(file) + 1
        /\ \A i \in Inodes(file) : file'[i] = file[i]
    <3>1. file' \in Seq(Node) /\ Len(file') = Len(file) + 1
      <4>1. \A node \in Node : Append(file, node) \in Seq(Node)
                               /\ Len(Append(file, node)) = Len(file) + 1
            BY <1>1
      <4> QED  BY <2>1, <2>2, <4>1
    <3>2. ASSUME NEW node, NEW i \in Inodes(file) PROVE Append(file, node)[i] = file[i]
          BY <1>1 DEF Inodes
    <3> QED  BY <2>1, <3>1, <3>2
  <2>4. /\ target' = Len(file) + 1 /\ theirs' = (theirs \ {target}) \cup {target'}
        /\ foreign' \in Nat /\ bound' = bound /\ UNCHANGED elsewhere
        BY <1>1, <1>2 DEF ForeignReplace, Foreign
  <2>5. target' \in Ids' /\ target' \notin Ids  BY <1>1, <2>3, <2>4 DEF Ids
  <2>6. theirs' \subseteq Inodes(file')
    <3>1. Inodes(file) \subseteq Inodes(file') /\ target' \in Inodes(file')
          BY <1>1, <2>3, <2>4 DEF Inodes
    <3> QED  BY <1>1, <2>4, <3>1
  <2> QED  BY <1>1, <2>3, <2>4, <2>5, <2>6, OutsideKeepsInv
<1>3. CASE ForeignRewrite
  <2>1. PICK c \in Contents, dv \in {0, 1} : file' = Rewritten(file, target, c, dv)
        BY <1>3 DEF ForeignRewrite
  <2>2. target \in Inodes(file)  BY <1>1, <1>3 DEF ForeignRewrite, Ids, Inodes, NoFile
  <2>3. file' \in Seq(Node) /\ Len(file') = Len(file)
        BY <1>1, <2>1, <2>2, RewriteKeeps
  <2>4. \A i \in Inodes(file) : i # target => file'[i] = file[i]
        BY <1>1, <2>1, <2>2, RewriteKeeps
  <2>5. /\ target' = target /\ theirs' = theirs \cup {target}
        /\ foreign' \in Nat /\ bound' = bound /\ UNCHANGED elsewhere
        BY <1>1, <1>3 DEF ForeignRewrite, Foreign
  <2>6. target' \in Ids' /\ theirs' \subseteq Inodes(file')
        BY <1>1, <2>2, <2>3, <2>5 DEF Ids, Inodes
  <2> QED  BY <1>1, <2>3, <2>4, <2>5, <2>6, OutsideKeepsInv
<1>4. CASE ForeignDelete
  <2>1. /\ target' = NoFile /\ theirs' = theirs \ {target} /\ UNCHANGED file
        /\ foreign' \in Nat /\ bound' = bound /\ UNCHANGED elsewhere
        BY <1>1, <1>4 DEF ForeignDelete, Foreign
  <2>2. target' \in Ids'  BY <1>1, <2>1 DEF Ids, NoFile
  <2> QED  BY <1>1, <2>1, <2>2, OutsideKeepsInv
<1>5. CASE MoveParent
  <2>1. /\ UNCHANGED <<file, target, theirs>> /\ bound' \in BOOLEAN
        /\ foreign' \in Nat /\ UNCHANGED elsewhere
        BY <1>1, <1>5 DEF MoveParent, Foreign
  <2>2. target' \in Ids'  BY <1>1, <2>1 DEF Ids
  <2>3. \A i \in theirs' : i = target' \/ i \in theirs \ {target}  BY <2>1
  <2> QED  BY <1>1, <2>1, <2>2, <2>3, OutsideKeepsInv
<1>6. CASE \E p \in Removers : Kill(p)  BY <1>6, KillKeepsInv
<1> QED  BY <1>2, <1>3, <1>4, <1>5, <1>6 DEF Environment
----------------------------------------------------------------------------
(* The theorems. *)

LEMMA InitInv ==
    ASSUME Init
    PROVE  Inv
<1>1. \/ file = <<>> /\ target = NoFile /\ theirs = {}
      \/ \E c \in Contents, ok \in BOOLEAN : file = <<FreshNode(c, ok)>> /\ target = 1 /\ theirs = {1}
      BY DEF Init
<1>2. /\ bound = TRUE /\ req \in [Removers -> Requests] /\ pc = [p \in Removers |-> "begin"]
      /\ before = [p \in Removers |-> NoStat] /\ final = [p \in Removers |-> NoStat]
      /\ quarantine = [p \in Removers |-> FALSE]
      /\ verified = [p \in Removers |-> NoFile] /\ moved = [p \in Removers |-> NoFile]
      /\ result = [p \in Removers |-> "running"] /\ report = [p \in Removers |-> "none"]
      /\ foreign = 0 /\ faults = 0
      BY DEF Init
<1> DEFINE Start == /\ file \in Seq(Node) /\ target \in Ids /\ theirs \subseteq 1 .. Len(file)
                    /\ NoFile \in Ids /\ \A i \in theirs : i = target
<1>3. Start
  <2>1. CASE file = <<>> /\ target = NoFile /\ theirs = {}  BY <2>1 DEF Ids, NoFile
  <2>2. ASSUME NEW c \in Contents, NEW ok \in BOOLEAN,
               file = <<FreshNode(c, ok)>> /\ target = 1 /\ theirs = {1}
        PROVE  Start
    <3>1. FreshNode(c, ok) \in Node  BY DEF FreshNode, Node
    <3>2. file \in Seq(Node) /\ Len(file) = 1  BY <2>2, <3>1
    <3> QED  BY <2>2, <3>2 DEF Ids, NoFile
  <2> QED  BY <1>1, <2>1, <2>2
<1>4. TypeOK
  <2>1. NoStat \in StatResult  BY DEF NoStat, StatResult, NoFile
  <2> QED  BY <1>2, <1>3, <2>1 DEF TypeOK, Steps, Results, Reports
<1>5. ASSUME NEW p \in Removers
      PROVE  Stage(p) /\ Verified(p) /\ Taken(p) = NoFile
      BY <1>2, <1>3 DEF Stage, Verified, Taken, At, Early, Captured, Dropped, NoStat
<1> QED  BY <1>3, <1>4, <1>5 DEF Inv, Apart, NoSilentLoss, Held

LEMMA NextKeepsInv ==
    ASSUME Inv, [Next]_vars
    PROVE  Inv'
<1>1. CASE \E p \in Removers : Step(p)  BY <1>1, StepKeepsInv
<1>2. CASE Environment  BY <1>2, EnvironmentKeepsInv
<1>3. CASE UNCHANGED vars
  <2>1. /\ UNCHANGED <<file, target, bound, pc, req, before, final, quarantine, verified, moved, result,
                       report, theirs, foreign, faults>>
        BY <1>3 DEF vars, disk, private, outcome, bounds
  <2>2. TypeOK' /\ Apart' /\ NoSilentLoss'
        BY <2>1 DEF Inv, TypeOK, Ids, Apart, Taken, Captured, Dropped, At, NoSilentLoss, Held, Removed
  <2>3. ASSUME NEW p \in Removers PROVE Stage(p)' /\ Verified(p)'
        BY <2>1 DEF Inv, Stage, Verified, At, Early, Captured, Dropped, Ids
  <2> QED  BY <2>2, <2>3 DEF Inv
<1> QED  BY <1>1, <1>2, <1>3 DEF Next, Terminated

\* Every reachable state of any removers has the invariant: what each has taken
\* from the path, and that nobody else has it.
THEOREM UnlinkInv == Spec => []Inv
<1>1. Init => Inv  BY InitInv
<1>2. Inv /\ [Next]_vars => Inv'  BY NextKeepsInv
<1> QED  BY <1>1, <1>2, PTL DEF Spec

\* The variables keep their types; every inode number a remover or the path
\* holds is one that has been allocated.
THEOREM UnlinkIsTyped == Spec => []TypeOK
<1>1. Inv => TypeOK  BY DEF Inv
<1> QED  BY <1>1, UnlinkInv, PTL

\* atomic_unlink loses no file another program put at the path: it is there, in
\* a quarantine, or it had the checksum the caller of the module named.
THEOREM NothingLost == Spec => []NoSilentLoss
<1>1. Inv => NoSilentLoss  BY DEF Inv
<1> QED  BY <1>1, UnlinkInv, PTL

\* The file a successful invocation removed still is, whatever others did since,
\* one with the content its caller named: the last check cannot go stale.
RemovedIsNamed ==
    \A p \in Removers : result[p] = "changed" => file[before[p].ino].content = req[p].checksum

THEOREM RemovesOnlyNamed == Spec => []RemovedIsNamed
<1>1. Inv => RemovedIsNamed  BY DEF Inv, Verified, Dropped, RemovedIsNamed
<1> QED  BY <1>1, UnlinkInv, PTL

\* fail_json and exit_json name the quarantine whenever one is left behind and
\* every system call succeeded.
THEOREM LeftoversNamed == Spec => []LeftoversReported
<1>1. Inv => LeftoversReported  BY DEF Inv, Stage, At, LeftoversReported
<1> QED  BY <1>1, UnlinkInv, PTL

\* Two invocations never both report the removal of the same file.
THEOREM RemovedByOne == Spec => []RemovedOnce
<1>1. ASSUME Inv PROVE RemovedOnce
  <2>1. ASSUME NEW p \in Removers, result[p] = "changed"
        PROVE  Taken(p) = before[p].ino /\ before[p].ino # NoFile
        BY <1>1, <2>1 DEF Inv, Stage, Taken, Captured, Dropped, At
  <2> QED  BY <1>1, <2>1 DEF Inv, Apart, RemovedOnce
<1> QED  BY <1>1, UnlinkInv, PTL

\* _recover_quarantine: what an invocation captured and does not remove is back
\* at the path when it fails, unless another program's file is there.
THEOREM CapturedComesBack == Spec => RestoresWhenFree
<1> DEFINE Back(p) == result[p] = "running" /\ result'[p] = "failed"
                        /\ moved'[p] # NoFile /\ faults' = 0 => target' # NoFile
<1>1. ASSUME TypeOK, NEW p \in Removers, Proper(p), Step(p) PROVE Back(p)
  <2>1. pc[p] \in Early \cup {"link", "rename"} => moved[p] = NoFile
        BY <1>1 DEF Proper, Stage, At, Early
  <2> USE <1>1 DEF TypeOK, Advance, Return, Go, Fault, private, outcome, Early, bounds
  <2>2. CASE Restore(p)  BY <2>2 DEF Restore, Proper, Stage, Captured, At
  <2>3. CASE RenameAway(p)  BY <2>1, <2>3 DEF RenameAway
  <2>4. CASE PreserveOpenFile(p)  BY <2>1, <2>4 DEF PreserveOpenFile
  <2>5. CASE \/ Begin(p) \/ StatEntry(p) \/ Open(p) \/ Sum(p) \/ LastLook(p) \/ MakeQuarantine(p)
             \/ OtherFault(p)
        BY <2>1, <2>5 DEF Begin, StatEntry, Open, Sum, LastLook, MakeQuarantine, OtherFault
  <2>6. CASE Inspect(p) \/ Recheck(p) \/ RemoveMoved(p)  BY <2>6 DEF Inspect, Recheck, RemoveMoved
  <2>7. CASE ForgetVerified(p) \/ RemoveQuarantine(p)
        BY <2>7 DEF ForgetVerified, RemoveQuarantine
  <2> QED  BY <2>2, <2>3, <2>4, <2>5, <2>6, <2>7 DEF Step
<1>2. ASSUME Inv, [Next]_vars, NEW p \in Removers PROVE Back(p)
  <2>1. CASE Step(p)  BY <1>1, <1>2, <2>1 DEF Inv, Proper
  <2>2. ASSUME NEW q \in Removers \ {p}, Step(q) PROVE result'[p] = result[p]
        BY <1>2, <2>2, StepFrames DEF Inv, Frame
  <2>3. CASE Environment
    <3>1. UNCHANGED result
          BY <2>3 DEF Environment, ForeignReplace, ForeignRewrite, ForeignDelete, MoveParent, Kill,
                      elsewhere, outcome
    <3> QED  BY <3>1
  <2>4. CASE UNCHANGED vars
    <3>1. UNCHANGED result  BY <2>4 DEF vars, outcome
    <3> QED  BY <3>1
  <2> QED  BY <1>2, <2>1, <2>2, <2>3, <2>4 DEF Next, Terminated
<1>3. Inv /\ [Next]_vars =>
        [\A p \in Removers : result[p] = "running" /\ result'[p] = "failed"
           /\ moved'[p] # NoFile /\ faults' = 0 => target' # NoFile]_vars
      BY <1>2
<1> QED  BY <1>3, UnlinkInv, PTL DEF Spec, RestoresWhenFree
================================================================================
