------------------------------ MODULE FileEntries ------------------------------
(***************************************************************************)
(* What atomic_path and atomic_unlink can see of a regular file: its inode *)
(* number and the fields os.stat returns.  The inode table is a sequence,  *)
(* so a new file is Append(table, node) and its inode number is the new    *)
(* length; 0 stands for "no such entry".                                   *)
(*                                                                         *)
(*   ver    st_size, st_mtime_ns, st_mode, st_uid, st_gid: changed by a    *)
(*          write and by a chmod or chown, kept by a rename or a link;     *)
(*   ctime  st_ctime_ns: changed by those and by every rename or link;     *)
(*   ok     the type, mode and owner are the ones the caller asked for;    *)
(*   synced the data has been fsynced, so a power loss cannot tear it.     *)
(***************************************************************************)
EXTENDS Naturals, Sequences

CONSTANTS Contents,  \* the contents a file can have, told apart by checksum
          Torn       \* a file that does not hold all the bytes of any content

ASSUME TornAssumption == Torn \notin Contents

NoFile == 0

Node == [content : Contents \cup {Torn}, ver : Nat, ctime : Nat,
         ok : BOOLEAN, synced : BOOLEAN]

\* os.stat / os.fstat of inode i; NoStat is Python's None.
NoStat == [ino |-> NoFile, ver |-> 0, ctime |-> 0]
StatResult == [ino : Nat, ver : Nat, ctime : Nat]
Stat(table, i) ==
    IF i = NoFile THEN NoStat
    ELSE [ino |-> i, ver |-> table[i].ver, ctime |-> table[i].ctime]

SameIdentity(left, right) == left.ino = right.ino /\ left.ver = right.ver
SameSnapshot(left, right) == SameIdentity(left, right) /\ left.ctime = right.ctime

\* A complete, fsynced file, as another program leaves one in the directory.
FreshNode(c, ok) ==
    [content |-> c, ver |-> 0, ctime |-> 0, ok |-> ok, synced |-> TRUE]

\* rename(2) and link(2) change nothing but the ctime of what they move.
Relinked(table, moved) ==
    [i \in DOMAIN table |->
        IF i \in moved THEN [table[i] EXCEPT !.ctime = @ + 1] ELSE table[i]]

\* A rewrite in place by another program; dv = 0 when it restores st_mtime_ns
\* (touch -r, rsync -t) and the size happens to be the same.
Rewritten(table, i, c, dv) ==
    [table EXCEPT ![i].content = c, ![i].ver = @ + dv, ![i].ctime = @ + 1]
================================================================================
