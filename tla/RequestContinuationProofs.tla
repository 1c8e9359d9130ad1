------------------------ MODULE RequestContinuationProofs ------------------------
(***************************************************************************)
(* Proofs about RequestContinuation, for any heads, runs and bounds:       *)
(* its types, with TriesLeft as the strengthening that makes them          *)
(* inductive, and that each head is asked about once, by the run whose     *)
(* claim the journal holds.  The second rests on ClaimHeld: a run between  *)
(* its confirmed claim and its POST is the author of the head's operation, *)
(* and nobody has asked about that head; and on RecordsStay: no step       *)
(* overwrites a record of the journal.                                     *)
(***************************************************************************)
EXTENDS RequestContinuation, TLAPS

Untried == {"none", "queued", "look", "pend", "defer", "record"}
\* A job that is about to send its intent has a try left.
TriesLeft ==
    \A r \in Producers :
        prod[r].pc \in Untried => prod[r].tries < Tries

TypeInv == TypeOK /\ TriesLeft

JournalType ==
    /\ journal \in [head : Nat, rec : [Paths -> Records \cup {NoRecord}]]
    /\ late \subseteq [head : Nat, path : Paths, record : Records]
SceneType ==
    /\ live \in [head : Heads, base : Nat]
    /\ reviews \in Seq([head : Heads, ok : BOOLEAN])
    /\ pending \in Heads \cup {NoRecord} /\ markers \subseteq Heads
    /\ posts \in Seq([by : Producers \cup Resumes, head : Heads])
ProducerRuns == [pc : ProducerPcs, head : Heads, base : Nat, snap : Nat,
                 tries : 0 .. Tries, defers : BOOLEAN]
ProducerType ==
    /\ prod \in [Producers -> ProducerRuns]
    /\ \A q, r \in Producers : prod[q].pc \in Working /\ prod[r].pc \in Working => q = r
    /\ TriesLeft
ResumeRuns == [pc : ResumePcs, head : Heads, owner : Producers \cup Resumes \cup {NoRecord},
               base : Nat, old : Nat, snap : Nat]
ResumeType == res \in [Resumes -> ResumeRuns]

LEMMA TypeParts == TypeInv <=> JournalType /\ SceneType /\ ProducerType /\ ResumeType
    BY DEF TypeInv, TypeOK, JournalType, SceneType, ProducerRuns, ProducerType,
           ResumeRuns, ResumeType

LEMMA PathFacts ==
    /\ \A h \in Heads : Operation(h) \in Paths /\ Deferred(h) \in Paths
    /\ \A r \in Producers : RerunClaim(r) \in Paths
    /\ \A g, h \in Heads : Operation(g) = Operation(h) => g = h
    /\ \A g, h \in Heads : Deferred(g) = Deferred(h) => g = h
    /\ \A g, h \in Heads : Operation(g) # Deferred(h)
    /\ \A h \in Heads, r \in Producers : Operation(h) # RerunClaim(r) /\ Deferred(h) # RerunClaim(r)
    BY DEF Operation, Deferred, RerunClaim, Paths

----------------------------------------------------------------------------
(* Journal: what a write of any kind does. *)

LEMMA PutType ==
    ASSUME JournalType, NEW path \in Paths, NEW record \in Records, Put(path, record), 
           late' \subseteq late
    PROVE  JournalType'
    BY DEF JournalType, Put

LEMMA ResolveType ==
    ASSUME JournalType, NEW c \in late, Resolve(c)
    PROVE  JournalType'
<1>1. c.path \in Paths /\ c.record \in Records  BY DEF JournalType
<1>2. CASE Lands(c.head, c.path)  BY <1>1, <1>2, PutType DEF Resolve
<1>3. CASE ~Lands(c.head, c.path)  BY <1>3 DEF Resolve, JournalType
<1> QED  BY <1>2, <1>3

\* What Create does to the journal, whatever its writer learns.
Writes(head, path, record) ==
    \/ Lands(head, path) /\ Put(path, record) /\ UNCHANGED late
    \/ UNCHANGED <<journal, late>>
    \/ /\ Lands(head, path) /\ UNCHANGED journal
       /\ late' = late \cup {[head |-> head, path |-> path, record |-> record]}

LEMMA WritesType ==
    ASSUME JournalType, NEW head \in Nat, NEW path \in Paths, NEW record \in Records,
           Writes(head, path, record)
    PROVE  JournalType'
<1>1. CASE Put(path, record) /\ UNCHANGED late  BY <1>1, PutType
<1>2. CASE UNCHANGED <<journal, late>>  BY <1>2 DEF JournalType
<1>3. CASE /\ UNCHANGED journal
           /\ late' = late \cup {[head |-> head, path |-> path, record |-> record]}
      BY <1>3 DEF JournalType
<1> QED  BY <1>1, <1>2, <1>3 DEF Writes

LEMMA RecordIntentWrites ==
    ASSUME NEW r \in Producers, RecordIntent(r)
    PROVE  /\ Writes(prod[r].snap, Deferred(prod[r].head), Intent(r))
           /\ \/ Goes(r, "fence") \/ Goes(r, "readback")
              \/ prod' = [prod EXCEPT ![r] = [@ EXCEPT !.pc = "again", !.tries = prod[r].tries + 1]]
    BY DEF RecordIntent, Create, Writes

LEMMA ClaimWrites ==
    ASSUME NEW r \in Producers, Claim(r)
    PROVE  /\ Writes(prod[r].snap, Operation(prod[r].head), Intent(r))
           /\ Goes(r, "assert") \/ Goes(r, "ok")
    BY DEF Claim, Create, Writes

LEMMA ClaimResumeWrites ==
    ASSUME NEW d \in Resumes, ClaimResume(d)
    PROVE  /\ Writes(res[d].snap, Operation(res[d].head), [by |-> d, base |-> res[d].base])
           /\ Moves(d, "recheck") \/ Moves(d, "idle")
    BY DEF ClaimResume, Create, Writes
----------------------------------------------------------------------------
(* Types of the runs. *)

LEMMA GoesType ==
    ASSUME ProducerType, NEW r \in Producers, NEW pc \in ProducerPcs, Goes(r, pc),
           pc \in Working => prod[r].pc \in Working,
           pc \in Untried => prod[r].pc \in Untried
    PROVE  ProducerType'
    BY DEF ProducerType, ProducerRuns, Goes, TriesLeft

LEMMA RunType ==
    ASSUME ProducerType, NEW r \in Producers, NEW run \in ProducerRuns,
           prod' = [prod EXCEPT ![r] = run],
           run.pc \in Working => prod[r].pc \in Working,
           run.pc \in Untried => run.tries < Tries
    PROVE  ProducerType'
    BY DEF ProducerType, TriesLeft

LEMMA SnapshotType ==
    ASSUME ProducerType, journal.head \in Nat, NEW r \in Producers, Snapshot(r),
           prod[r].pc \in Working, prod[r].tries < Tries
    PROVE  ProducerType'
<1> DEFINE run == [prod[r] EXCEPT !.pc = "record", !.snap = journal.head]
<1>1. run \in ProducerRuns /\ run.tries < Tries
      BY DEF ProducerType, ProducerRuns, ProducerPcs, Working
<1> QED  BY <1>1, RunType DEF Snapshot

LEMMA MovesType ==
    ASSUME ResumeType, NEW d \in Resumes, NEW pc \in ResumePcs, Moves(d, pc)
    PROVE  ResumeType'
    BY DEF ResumeType, ResumeRuns, Moves

LEMMA ProducerActionType ==
    ASSUME TypeInv, NEW r \in Producers,
           Queue(r) \/ Drop(r) \/ Produce(r) \/ Conclude(r) \/ StopProducer(r) \/ Rerun(r)
    PROVE  ProducerType'
<1> USE DEF Working, ProducerPcs, Untried
<1>0. ProducerType /\ journal.head \in Nat /\ live.head \in Heads /\ live.base \in Nat
      BY TypeParts DEF JournalType, SceneType
<1>1. CASE Queue(r)
  <2> DEFINE run == [prod[r] EXCEPT !.pc = "queued", !.head = live.head, !.base = live.base]
  <2>1. run \in ProducerRuns /\ run.pc = "queued" /\ run.tries < Tries
        BY <1>0, <1>1 DEF Queue, ProducerType, ProducerRuns, TriesLeft
  <2>2. prod' = [prod EXCEPT ![r] = run]  BY <1>1 DEF Queue
  <2> QED  BY <1>0, <2>1, <2>2, RunType
<1>2. CASE Drop(r)  BY <1>0, <1>2, GoesType DEF Drop
<1>3. CASE Start(r)
  <2>1. CASE Goes(r, "bad")  BY <1>0, <1>3, <2>1, GoesType
  <2>2. CASE Goes(r, "look")
        BY <1>0, <1>3, <2>2 DEF Start, Goes, ProducerType, ProducerRuns, TriesLeft
  <2> QED  BY <1>3, <2>1, <2>2 DEF Start
<1>4. CASE Look(r)  BY <1>0, <1>4, GoesType DEF Look
<1>5. CASE Pend(r)
  <2>1. CASE prod' = [prod EXCEPT ![r] = [@ EXCEPT !.pc = "defer", !.defers = TRUE]]
    <3> DEFINE run == [prod[r] EXCEPT !.pc = "defer", !.defers = TRUE]
    <3>1. run \in ProducerRuns /\ run.pc = "defer" /\ run.tries = prod[r].tries
          BY <1>0 DEF ProducerType, ProducerRuns
    <3>2. run.pc \in Untried => run.tries < Tries
          BY <1>0, <1>5, <3>1 DEF Pend, ProducerType, TriesLeft
    <3> QED  BY <1>0, <1>5, <2>1, <3>1, <3>2, RunType DEF Pend
  <2>2. CASE Goes(r, "bad") \/ Goes(r, "claim")  BY <1>0, <1>5, <2>2, GoesType DEF Pend
  <2> QED  BY <1>5, <2>1, <2>2 DEF Pend
<1>6. CASE Defer(r)
  <2>1. CASE Snapshot(r)  BY <1>0, <1>6, <2>1, SnapshotType DEF Defer, ProducerType, TriesLeft
  <2>2. CASE Goes(r, "bad") \/ Goes(r, "ok")  BY <1>0, <1>6, <2>2, GoesType DEF Defer
  <2> QED  BY <1>6, <2>1, <2>2 DEF Defer
<1>7. CASE RecordIntent(r)
  <2>1. prod[r].pc = "record"  BY <1>7 DEF RecordIntent
  <2>2. CASE prod' = [prod EXCEPT ![r] = [@ EXCEPT !.pc = "again", !.tries = prod[r].tries + 1]]
    <3>1. prod[r].tries \in Nat /\ prod[r].tries < Tries
          BY <1>0, <2>1 DEF ProducerType, ProducerRuns, TriesLeft, Tries
    <3>2. PICK t \in 0 .. Tries : t = prod[r].tries + 1  BY <3>1 DEF Tries
    <3> DEFINE run == [prod[r] EXCEPT !.pc = "again", !.tries = t]
    <3>3. run \in ProducerRuns /\ run.pc = "again"  BY <1>0 DEF ProducerType, ProducerRuns
    <3>4. prod' = [prod EXCEPT ![r] = run]
      <4>1. prod' = [prod EXCEPT ![r] = [prod[r] EXCEPT !.pc = "again", !.tries = prod[r].tries + 1]]
            BY <2>2
      <4> QED  BY <3>2, <4>1
    <3>5. prod[r].pc \in Working /\ run.pc \notin Untried  BY <2>1, <3>3
    <3> QED  BY <1>0, <3>3, <3>4, <3>5, RunType
  <2>3. CASE Goes(r, "fence") \/ Goes(r, "readback")  BY <1>0, <2>1, <2>3, GoesType
  <2> QED  BY <1>7, <2>2, <2>3, RecordIntentWrites
<1>8. CASE Again(r)
  <2>1. CASE Snapshot(r) /\ prod[r].tries < Tries
        BY <1>0, <1>8, <2>1, SnapshotType DEF Again
  <2>2. CASE Goes(r, "bad") \/ Goes(r, "fence")  BY <1>0, <1>8, <2>2, GoesType DEF Again
  <2> QED  BY <1>8, <2>1, <2>2 DEF Again
<1>9. CASE Readback(r)  BY <1>0, <1>9, GoesType DEF Readback
<1>10. CASE Fence(r)  BY <1>0, <1>10, GoesType DEF Fence
<1>11. CASE ReadForClaim(r)
  <2>1. CASE prod' = [prod EXCEPT ![r] = [@ EXCEPT !.pc = "commit", !.snap = journal.head]]
    <3> DEFINE run == [prod[r] EXCEPT !.pc = "commit", !.snap = journal.head]
    <3>1. run \in ProducerRuns /\ run.pc = "commit" /\ run.tries = prod[r].tries
          BY <1>0 DEF ProducerType, ProducerRuns
    <3>2. run.pc \in Untried => run.tries < Tries
          BY <1>0, <1>11, <3>1 DEF ReadForClaim, ProducerType, TriesLeft
    <3> QED  BY <1>0, <1>11, <2>1, <3>1, <3>2, RunType DEF ReadForClaim
  <2>2. CASE Goes(r, "bad") \/ Goes(r, "ok")  BY <1>0, <1>11, <2>2, GoesType DEF ReadForClaim
  <2> QED  BY <1>11, <2>1, <2>2 DEF ReadForClaim
<1>12. CASE Claim(r)
  <2>1. prod[r].pc = "commit"  BY <1>12 DEF Claim
  <2> QED  BY <1>0, <1>12, <2>1, ClaimWrites, GoesType
<1>13. CASE AssertHead(r)  BY <1>0, <1>13, GoesType DEF AssertHead
<1>14. CASE Post(r)  BY <1>0, <1>14, GoesType DEF Post
<1>15. CASE Mark(r)  BY <1>0, <1>15, GoesType DEF Mark
<1>16. CASE Conclude(r)  BY <1>0, <1>16, GoesType DEF Conclude
<1>17. CASE StopProducer(r)  BY <1>0, <1>17, GoesType DEF StopProducer
<1>18. CASE Rerun(r)  BY <1>0, <1>18, GoesType DEF Rerun, Goes
<1> QED
    BY <1>1, <1>2, <1>3, <1>4, <1>5, <1>6, <1>7, <1>8, <1>9, <1>10, <1>11, <1>12,
       <1>13, <1>14, <1>15, <1>16, <1>17, <1>18 DEF Produce

LEMMA ResumeActionType ==
    ASSUME TypeInv, NEW d \in Resumes, Resume(d) \/ StopResume(d)
    PROVE  ResumeType'
<1> USE DEF ResumePcs
<1>0. /\ ResumeType /\ journal \in [head : Nat, rec : [Paths -> Records \cup {NoRecord}]]
      /\ live.head \in Heads /\ live.base \in Nat /\ reviews \in Seq([head : Heads, ok : BOOLEAN])
      BY TypeParts DEF JournalType, SceneType
<1>1. CASE Dispatch(d)
  <2>1. Has(Deferred(live.head))  BY <1>1 DEF Dispatch, Continuable, ValidIntent
  <2>2. Record(Deferred(live.head)).by \in Producers \cup Resumes
        BY <1>0, <2>1, PathFacts DEF Has, Record, Records
  <2> QED  BY <1>0, <1>1, <2>2 DEF Dispatch, CleanOldReview, OldReviews, ResumeType, ResumeRuns
<1>2. CASE Begin(d)
  <2>1. CASE Moves(d, "idle")  BY <1>0, <2>1, MovesType
  <2>2. CASE res' = [res EXCEPT ![d] = [@ EXCEPT !.pc = "check", !.snap = journal.head]]
    <3> DEFINE run == [res[d] EXCEPT !.pc = "check", !.snap = journal.head]
    <3>1. journal.head \in Nat /\ res[d] \in ResumeRuns  BY <1>0 DEF ResumeType
    <3>2. run \in ResumeRuns  BY <3>1 DEF ResumeRuns
    <3> QED  BY <1>0, <2>2, <3>2 DEF ResumeType
  <2> QED  BY <1>2, <2>1, <2>2 DEF Begin
<1>3. CASE Check(d)  BY <1>0, <1>3, MovesType DEF Check
<1>4. CASE ClaimResume(d)  BY <1>0, <1>4, ClaimResumeWrites, MovesType
<1>5. CASE Recheck(d)  BY <1>0, <1>5, MovesType DEF Recheck
<1>6. CASE PostResume(d)  BY <1>0, <1>6, MovesType DEF PostResume
<1>7. CASE StopResume(d)  BY <1>0, <1>7, MovesType DEF StopResume
<1> QED  BY <1>1, <1>2, <1>3, <1>4, <1>5, <1>6, <1>7 DEF Resume
----------------------------------------------------------------------------
(* Who writes to the journal, and what a step leaves of it. *)

ClaimOf(d) == [by |-> d, base |-> res[d].base]

JournalStep ==
    \/ UNCHANGED <<journal, late>>
    \/ \E c \in late : Resolve(c)
    \/ Advance
    \/ \E r \in Producers :
         /\ prod[r].pc = "failed" /\ ~Has(RerunClaim(r))
         /\ Put(RerunClaim(r), Intent(r)) /\ UNCHANGED late
    \/ \E r \in Producers :
         /\ prod[r].pc = "record"
         /\ Writes(prod[r].snap, Deferred(prod[r].head), Intent(r))
    \/ \E r \in Producers :
         /\ prod[r].pc = "commit"
         /\ Writes(prod[r].snap, Operation(prod[r].head), Intent(r))
    \/ \E d \in Resumes :
         /\ res[d].pc = "claim"
         /\ Writes(res[d].snap, Operation(res[d].head), ClaimOf(d))

LEMMA StepOfJournal == ASSUME [Next]_vars PROVE JournalStep
<1>1. CASE LateCommit  BY <1>1 DEF LateCommit, JournalStep
<1>2. CASE OtherCommit  BY <1>2 DEF OtherCommit, JournalStep
<1>3. CASE Move \/ Ask \/ Review \/ ClearPending \/ UNCHANGED vars
      BY <1>3 DEF Move, Ask, Review, ClearPending, vars, JournalStep
<1>4. ASSUME NEW r \in Producers,
             ClaimRerun(r) \/ Rerun(r) \/ Queue(r) \/ Drop(r) \/ Produce(r)
               \/ Conclude(r) \/ StopProducer(r)
      PROVE  JournalStep
  <2>1. CASE ClaimRerun(r)  BY <2>1 DEF ClaimRerun, Intent, JournalStep
  <2>2. CASE RecordIntent(r)  BY <2>2, RecordIntentWrites DEF RecordIntent, JournalStep
  <2>3. CASE Claim(r)  BY <2>3, ClaimWrites DEF Claim, JournalStep
  <2>4. CASE \/ Rerun(r) \/ Queue(r) \/ Drop(r) \/ Conclude(r) \/ StopProducer(r) \/ Start(r)
             \/ Look(r) \/ Pend(r) \/ Defer(r) \/ Again(r) \/ Readback(r) \/ Fence(r)
             \/ ReadForClaim(r) \/ AssertHead(r) \/ Post(r) \/ Mark(r)
        BY <2>4 DEF Rerun, Queue, Drop, Conclude, StopProducer, Start, Look, Pend, Defer,
                    Again, Readback, Fence, ReadForClaim, AssertHead, Post, Mark, ReadOnly,
                    JournalStep
  <2> QED  BY <1>4, <2>1, <2>2, <2>3, <2>4 DEF Produce
<1>5. ASSUME NEW d \in Resumes, Resume(d) \/ StopResume(d)
      PROVE  JournalStep
  <2>1. CASE ClaimResume(d)  BY <2>1, ClaimResumeWrites DEF ClaimResume, ClaimOf, JournalStep
  <2>2. CASE Dispatch(d) \/ Begin(d) \/ Check(d) \/ Recheck(d) \/ PostResume(d) \/ StopResume(d)
        BY <2>2 DEF Dispatch, Begin, Check, Recheck, PostResume, StopResume, ResumeRead,
                    JournalStep
  <2> QED  BY <1>5, <2>1, <2>2 DEF Resume
<1> QED  BY <1>1, <1>2, <1>3, <1>4, <1>5 DEF Next, GitHub

LEMMA OwnRecords ==
    ASSUME TypeInv
    PROVE  /\ \A r \in Producers :
                /\ Intent(r) \in Records /\ prod[r].snap \in Nat /\ prod[r].head \in Heads
                /\ Deferred(prod[r].head) \in Paths /\ Operation(prod[r].head) \in Paths
           /\ \A d \in Resumes :
                /\ ClaimOf(d) \in Records /\ res[d].snap \in Nat /\ res[d].head \in Heads
                /\ Operation(res[d].head) \in Paths
<1>1. prod \in [Producers -> ProducerRuns] /\ res \in [Resumes -> ResumeRuns]
      BY TypeParts DEF ProducerType, ResumeType
<1>2. /\ \A r \in Producers : prod[r].base \in Nat /\ prod[r].snap \in Nat /\ prod[r].head \in Heads
      /\ \A d \in Resumes : res[d].base \in Nat /\ res[d].snap \in Nat /\ res[d].head \in Heads
      BY <1>1 DEF ProducerRuns, ResumeRuns
<1> QED  BY <1>2, PathFacts DEF Intent, ClaimOf, Records

LEMMA JournalStepType ==
    ASSUME TypeInv, [Next]_vars
    PROVE  JournalType'
<1>1. JournalType /\ JournalStep  BY TypeParts, StepOfJournal
<1>2. CASE UNCHANGED <<journal, late>>  BY <1>1, <1>2 DEF JournalType
<1>3. CASE \E c \in late : Resolve(c)  BY <1>1, <1>3, ResolveType
<1>4. CASE Advance  BY <1>1, <1>4 DEF Advance, JournalType
<1>5. CASE \E r \in Producers : Put(RerunClaim(r), Intent(r)) /\ UNCHANGED late
      BY <1>1, <1>5, PathFacts, OwnRecords, PutType
<1>6. CASE \E r \in Producers : Writes(prod[r].snap, Deferred(prod[r].head), Intent(r))
      BY <1>1, <1>6, OwnRecords, WritesType
<1>7. CASE \E r \in Producers : Writes(prod[r].snap, Operation(prod[r].head), Intent(r))
      BY <1>1, <1>7, OwnRecords, WritesType
<1>8. CASE \E d \in Resumes : Writes(res[d].snap, Operation(res[d].head), ClaimOf(d))
      BY <1>1, <1>8, OwnRecords, WritesType
<1> QED  BY <1>1, <1>2, <1>3, <1>4, <1>5, <1>6, <1>7, <1>8 DEF JournalStep

\* What a step leaves of every record: nothing is ever rewritten.
RecordsStay ==
    /\ journal'.head \in Nat /\ journal'.head >= journal.head
    /\ \A path \in Paths : Has(path) => journal'.rec[path] = journal.rec[path]
    /\ journal'.head = journal.head => journal'.rec = journal.rec
LEMMA PutStays ==
    ASSUME JournalType, NEW path \in Paths, NEW record, Put(path, record), ~Has(path)
    PROVE  RecordsStay
    BY DEF JournalType, Put, Has, RecordsStay

LEMMA WritesStay ==
    ASSUME JournalType, NEW head, NEW path \in Paths, NEW record,
           Writes(head, path, record)
    PROVE  RecordsStay
<1>1. CASE Lands(head, path) /\ Put(path, record)  BY <1>1, PutStays DEF Lands, Has
<1>2. CASE UNCHANGED journal  BY <1>2 DEF JournalType, RecordsStay
<1> QED  BY <1>1, <1>2 DEF Writes

LEMMA RecordsAreKept ==
    ASSUME TypeInv, [Next]_vars
    PROVE  RecordsStay
<1>1. JournalType /\ JournalStep  BY TypeParts, StepOfJournal
<1>2. CASE UNCHANGED journal  BY <1>1, <1>2 DEF JournalType, RecordsStay
<1>3. ASSUME NEW c \in late, Resolve(c)
      PROVE  RecordsStay
  <2>1. c.path \in Paths  BY <1>1 DEF JournalType
  <2>2. CASE Lands(c.head, c.path)
        BY <1>1, <1>3, <2>1, <2>2, PutStays DEF Resolve, Lands, Has
  <2>3. CASE ~Lands(c.head, c.path)  BY <1>2, <1>3, <2>3 DEF Resolve
  <2> QED  BY <2>2, <2>3
<1>4. CASE Advance  BY <1>1, <1>4 DEF Advance, JournalType, RecordsStay
<1>5. CASE \E r \in Producers : ~Has(RerunClaim(r)) /\ Put(RerunClaim(r), Intent(r))
      BY <1>1, <1>5, PathFacts, PutStays
<1>6. CASE \E r \in Producers : Writes(prod[r].snap, Deferred(prod[r].head), Intent(r))
      BY <1>1, <1>6, OwnRecords, WritesStay
<1>7. CASE \E r \in Producers : Writes(prod[r].snap, Operation(prod[r].head), Intent(r))
      BY <1>1, <1>7, OwnRecords, WritesStay
<1>8. CASE \E d \in Resumes : Writes(res[d].snap, Operation(res[d].head), ClaimOf(d))
      BY <1>1, <1>8, OwnRecords, WritesStay
<1> QED  BY <1>1, <1>2, <1>3, <1>4, <1>5, <1>6, <1>7, <1>8 DEF JournalStep
----------------------------------------------------------------------------
(* The type invariant. *)

ProducerActs(r) ==
    \/ ClaimRerun(r) \/ Rerun(r) \/ Queue(r) \/ Drop(r) \/ Produce(r)
    \/ Conclude(r) \/ StopProducer(r)

LEMMA ProducerScene ==
    ASSUME NEW r \in Producers, ProducerActs(r)
    PROVE  /\ UNCHANGED <<live, reviews, res>>
           /\ markers' \in {markers, markers \cup {prod[r].head}}
           /\ pending' \in {pending, live.head}
           /\ UNCHANGED posts \/ (Post(r) /\ Sends(r, prod[r].head))
<1> USE DEF ReadOnly, ProducerStep, scene
<1>1. CASE \/ ClaimRerun(r) \/ Rerun(r) \/ Queue(r) \/ Drop(r) \/ Conclude(r) \/ StopProducer(r)
           \/ Start(r) \/ Look(r) \/ Pend(r) \/ Defer(r)
      BY <1>1 DEF ClaimRerun, Rerun, Queue, Drop, Conclude, StopProducer, Start, Look, Pend,
                  Defer, Actors
<1>2. CASE \/ RecordIntent(r) \/ Again(r) \/ Readback(r) \/ Fence(r) \/ ReadForClaim(r)
           \/ Claim(r) \/ AssertHead(r)
      BY <1>2 DEF RecordIntent, Again, Readback, Fence, ReadForClaim, Claim, AssertHead
<1>3. CASE Post(r)  BY <1>3 DEF Post
<1>4. CASE Mark(r)  BY <1>4 DEF Mark
<1> QED  BY <1>1, <1>2, <1>3, <1>4 DEF ProducerActs, Produce

LEMMA ResumeScene ==
    ASSUME NEW d \in Resumes, Resume(d) \/ StopResume(d)
    PROVE  /\ UNCHANGED <<live, reviews, markers, prod>>
           /\ pending' \in {pending, live.head}
           /\ UNCHANGED posts \/ (PostResume(d) /\ Sends(d, res[d].head))
    BY DEF Resume, StopResume, Dispatch, Begin, Check, ClaimResume, Recheck, PostResume,
           ResumeRead, ResumeStep, scene

LEMMA SendsType ==
    ASSUME posts \in Seq([by : Producers \cup Resumes, head : Heads]),
           NEW a \in Producers \cup Resumes, NEW h \in Heads, Sends(a, h)
    PROVE  posts' \in Seq([by : Producers \cup Resumes, head : Heads])
    BY DEF Sends

LEMMA TypeStep ==
    ASSUME TypeInv, [Next]_vars
    PROVE  TypeInv'
<1>0. JournalType /\ SceneType /\ ProducerType /\ ResumeType  BY TypeParts
<1>1. JournalType'  BY JournalStepType
<1>2. SceneType' /\ ProducerType' /\ ResumeType'
  <2>1. CASE UNCHANGED vars
        BY <1>0, <2>1 DEF vars, SceneType, ProducerType, ResumeType, TriesLeft
  <2>2. CASE GitHub
    <3>1. ProducerType' /\ ResumeType'
          BY <1>0, <2>2 DEF GitHub, Move, Ask, Review, ClearPending, LateCommit, OtherCommit,
                            Actors, ProducerType, ResumeType, TriesLeft
    <3>2. UNCHANGED <<markers, posts>>
          BY <2>2 DEF GitHub, Move, Ask, Review, ClearPending, LateCommit, OtherCommit, Actors
    <3>3. live' \in [head : Heads, base : Nat]
      <4>1. live \in [head : Heads, base : Nat]  BY <1>0 DEF SceneType
      <4>2. CASE Move  BY <4>1, <4>2 DEF Move
      <4>3. CASE ~Move
            BY <2>2, <4>1, <4>3 DEF GitHub, Ask, Review, ClearPending, LateCommit, OtherCommit, scene
      <4> QED  BY <4>2, <4>3
    <3>4. reviews' \in Seq([head : Heads, ok : BOOLEAN])
      <4>1. reviews \in Seq([head : Heads, ok : BOOLEAN])  BY <1>0 DEF SceneType
      <4>2. CASE Review
        <5>1. PICK h \in {pending, live.head}, ok \in BOOLEAN :
                  reviews' = Append(reviews, [head |-> h, ok |-> ok])
              BY <4>2 DEF Review
        <5>2. h \in Heads  BY <1>0, <4>2 DEF Review, SceneType
        <5> QED  BY <4>1, <5>1, <5>2
      <4>3. CASE ~Review
            BY <2>2, <4>1, <4>3 DEF GitHub, Move, Ask, ClearPending, LateCommit, OtherCommit, scene
      <4> QED  BY <4>2, <4>3
    <3>5. pending' \in {pending, NoRecord, live.head}
          BY <2>2 DEF GitHub, Move, Ask, Review, ClearPending, LateCommit, OtherCommit
    <3>6. SceneType'  BY <1>0, <3>2, <3>3, <3>4, <3>5 DEF SceneType
    <3> QED  BY <3>1, <3>6
  <2>3. ASSUME NEW r \in Producers, ProducerActs(r)
        PROVE  SceneType' /\ ProducerType' /\ ResumeType'
    <3>1. prod[r].head \in Heads  BY OwnRecords
    <3>2. ResumeType'  BY <1>0, <2>3, ProducerScene DEF ResumeType
    <3>3. ProducerType'
      <4>1. CASE ClaimRerun(r)
            BY <1>0, <4>1 DEF ClaimRerun, Actors, ProducerType, TriesLeft
      <4> QED  BY <2>3, <4>1, ProducerActionType DEF ProducerActs
    <3>4. posts' \in Seq([by : Producers \cup Resumes, head : Heads])
          BY <1>0, <2>3, <3>1, ProducerScene, SendsType DEF SceneType
    <3>5. SceneType'  BY <1>0, <2>3, <3>1, <3>4, ProducerScene DEF SceneType
    <3> QED  BY <3>2, <3>3, <3>5
  <2>4. ASSUME NEW d \in Resumes, Resume(d) \/ StopResume(d)
        PROVE  SceneType' /\ ProducerType' /\ ResumeType'
    <3>1. res[d].head \in Heads  BY OwnRecords
    <3>2. ProducerType'  BY <1>0, <2>4, ResumeScene DEF ProducerType, TriesLeft
    <3>3. ResumeType'  BY <2>4, ResumeActionType
    <3>4. posts' \in Seq([by : Producers \cup Resumes, head : Heads])
          BY <1>0, <2>4, <3>1, ResumeScene, SendsType DEF SceneType
    <3>5. SceneType'  BY <1>0, <2>4, <3>4, ResumeScene DEF SceneType
    <3> QED  BY <3>2, <3>3, <3>5
  <2> QED  BY <2>1, <2>2, <2>3, <2>4 DEF Next, ProducerActs
<1>3. TypeInv' <=> JournalType' /\ SceneType' /\ ProducerType' /\ ResumeType'
      BY DEF TypeInv, TypeOK, JournalType, SceneType, ProducerRuns, ProducerType, ResumeRuns,
             ResumeType, TriesLeft
<1> QED  BY <1>1, <1>2, <1>3

LEMMA TypeInit == Init => TypeInv
<1> SUFFICES ASSUME Init PROVE TypeInv  OBVIOUS
<1>1. JournalType  BY DEF Init, JournalType
<1>2. SceneType  BY DEF Init, SceneType
<1>3. ProducerType
      BY DEF Init, ProducerType, ProducerRuns, ProducerPcs, Working, TriesLeft, Tries
<1>4. ResumeType  BY DEF Init, ResumeType, ResumeRuns, ResumePcs
<1> QED  BY <1>1, <1>2, <1>3, <1>4, TypeParts

(***************************************************************************)
(* Every run, request, review and journal record has its type, and one     *)
(* producer job runs at a time: the concurrency group of copilot-review.   *)
(***************************************************************************)
THEOREM RequestTypes == Spec => []TypeOK
<1>1. TypeInv /\ [Next]_vars => TypeInv'  BY TypeStep
<1>2. TypeInv => TypeOK  BY DEF TypeInv
<1> QED  BY TypeInit, <1>1, <1>2, PTL DEF Spec
----------------------------------------------------------------------------
(* One request for each head. *)

\* A run between its confirmed claim and its POST.
ProducerOwns(r) == prod[r].pc \in {"assert", "post"}
ResumeOwns(d) == res[d].pc \in {"recheck", "post"}

\* Its claim is in the journal, and no request for that head was sent.
Holds(a, h) ==
    /\ Has(Operation(h)) /\ Record(Operation(h)).by = a
    /\ \A i \in DOMAIN posts : posts[i].head # h

ClaimHeld ==
    /\ \A r \in Producers : ProducerOwns(r) => Holds(r, prod[r].head)
    /\ \A d \in Resumes : ResumeOwns(d) => Holds(d, res[d].head)

\* How a run gets to own a claim: it commits it.
Commits(a, h) ==
    /\ ~Has(Operation(h)) /\ UNCHANGED posts
    /\ \E record \in Records : record.by = a /\ Put(Operation(h), record)

LEMMA OtherProducersStay ==
    ASSUME TypeInv, NEW q \in Producers, ProducerActs(q)
    PROVE  \A r \in Producers \ {q} : prod'[r] = prod[r]
<1>0. prod \in [Producers -> ProducerRuns]  BY TypeParts DEF ProducerType
<1> USE DEF Goes, Snapshot, Actors
<1>1. CASE \/ ClaimRerun(q) \/ Rerun(q) \/ Queue(q) \/ Drop(q) \/ Conclude(q) \/ StopProducer(q)
      BY <1>0, <1>1 DEF ClaimRerun, Rerun, Queue, Drop, Conclude, StopProducer
<1>2. CASE Start(q) \/ Look(q) \/ Pend(q) \/ Defer(q) \/ Again(q) \/ Readback(q) \/ Fence(q)
      BY <1>0, <1>2 DEF Start, Look, Pend, Defer, Again, Readback, Fence
<1>3. CASE RecordIntent(q)  BY <1>0, <1>3, RecordIntentWrites
<1>4. CASE Claim(q)  BY <1>0, <1>4, ClaimWrites
<1>5. CASE ReadForClaim(q) \/ AssertHead(q) \/ Post(q) \/ Mark(q)
      BY <1>0, <1>5 DEF ReadForClaim, AssertHead, Post, Mark
<1> QED  BY <1>1, <1>2, <1>3, <1>4, <1>5 DEF ProducerActs, Produce

LEMMA ClaimCommits ==
    ASSUME TypeInv, NEW r \in Producers, Claim(r), ProducerOwns(r)'
    PROVE  prod'[r].head = prod[r].head /\ Commits(r, prod[r].head)
<1>0. prod \in [Producers -> ProducerRuns]  BY TypeParts DEF ProducerType
<1>1. ~Goes(r, "ok") /\ prod'[r].head = prod[r].head
  <2>1. ~Goes(r, "ok")  BY <1>0 DEF Goes, ProducerOwns, ProducerRuns
  <2>2. Goes(r, "assert")  BY <2>1, ClaimWrites
  <2> QED  BY <1>0, <2>1, <2>2 DEF Goes, ProducerRuns
<1>2. /\ Lands(prod[r].snap, Operation(prod[r].head)) /\ UNCHANGED posts
      /\ Put(Operation(prod[r].head), Intent(r))
      BY <1>1 DEF Claim, Create
<1>3. Intent(r) \in Records /\ Intent(r).by = r  BY OwnRecords DEF Intent
<1> QED  BY <1>1, <1>2, <1>3 DEF Commits, Lands, Has

LEMMA ProducerOwnership ==
    ASSUME TypeInv, [Next]_vars, NEW r \in Producers, ProducerOwns(r)'
    PROVE  /\ prod'[r].head = prod[r].head
           /\ ProducerOwns(r) \/ Commits(r, prod[r].head)
<1>0. prod \in [Producers -> ProducerRuns]  BY TypeParts DEF ProducerType
<1>1. CASE UNCHANGED vars \/ GitHub
      BY <1>1 DEF vars, GitHub, Move, Ask, Review, ClearPending, LateCommit, OtherCommit,
                  Actors, ProducerOwns
<1>2. CASE \E d \in Resumes : Resume(d) \/ StopResume(d)
      BY <1>2, ResumeScene DEF ProducerOwns
<1>3. CASE \E q \in Producers \ {r} : ProducerActs(q)
      BY <1>3, OtherProducersStay DEF ProducerOwns
<1>4. CASE ProducerActs(r)
  <2> USE DEF Goes, Snapshot, ProducerOwns, ProducerRuns
  <2>1. CASE ClaimRerun(r)  BY <2>1 DEF ClaimRerun, Actors
  <2>2. CASE Claim(r)  BY <2>2, ClaimCommits
  <2>3. CASE AssertHead(r)  BY <1>0, <2>3 DEF AssertHead
  <2>4. CASE \/ Rerun(r) \/ Queue(r) \/ Drop(r) \/ Conclude(r) \/ StopProducer(r)
        BY <1>0, <2>4 DEF Rerun, Queue, Drop, Conclude, StopProducer
  <2>5. CASE Start(r) \/ Look(r)  BY <1>0, <2>5 DEF Start, Look
  <2>6. CASE RecordIntent(r)  BY <1>0, <2>6, RecordIntentWrites
  <2>7. CASE Readback(r) \/ Fence(r) \/ Mark(r)  BY <1>0, <2>7 DEF Readback, Fence, Mark
  <2>8. CASE Post(r)  BY <1>0, <2>8 DEF Post
  <2>9. CASE Pend(r)  BY <1>0, <2>9 DEF Pend
  <2>10. CASE Defer(r)  BY <1>0, <2>10 DEF Defer
  <2>11. CASE Again(r)  BY <1>0, <2>11 DEF Again
  <2>12. CASE ReadForClaim(r)  BY <1>0, <2>12 DEF ReadForClaim
  <2> QED
      BY <1>4, <2>1, <2>2, <2>3, <2>4, <2>5, <2>6, <2>7, <2>8, <2>9, <2>10, <2>11, <2>12
         DEF ProducerActs, Produce
<1> QED  BY <1>1, <1>2, <1>3, <1>4 DEF Next, ProducerActs

LEMMA OtherResumesStay ==
    ASSUME TypeInv, NEW d \in Resumes, Resume(d) \/ StopResume(d)
    PROVE  \A e \in Resumes \ {d} : res'[e] = res[e]
<1>0. res \in [Resumes -> ResumeRuns]  BY TypeParts DEF ResumeType
<1>1. CASE ClaimResume(d)  BY <1>0, <1>1, ClaimResumeWrites DEF Moves
<1>2. CASE Dispatch(d)  BY <1>0, <1>2 DEF Dispatch
<1>3. CASE Begin(d) \/ Check(d) \/ Recheck(d) \/ PostResume(d) \/ StopResume(d)
      BY <1>0, <1>3 DEF Begin, Check, Recheck, PostResume, StopResume, Moves
<1> QED  BY <1>1, <1>2, <1>3 DEF Resume

LEMMA ResumeCommits ==
    ASSUME TypeInv, NEW d \in Resumes, ClaimResume(d), ResumeOwns(d)'
    PROVE  res'[d].head = res[d].head /\ Commits(d, res[d].head)
<1>0. res \in [Resumes -> ResumeRuns]  BY TypeParts DEF ResumeType
<1>1. ~Moves(d, "idle") /\ res'[d].head = res[d].head
  <2>1. ~Moves(d, "idle")  BY <1>0 DEF Moves, ResumeOwns, ResumeRuns
  <2>2. Moves(d, "recheck")  BY <2>1, ClaimResumeWrites
  <2> QED  BY <1>0, <2>1, <2>2 DEF Moves, ResumeRuns
<1>2. /\ Lands(res[d].snap, Operation(res[d].head)) /\ UNCHANGED posts
      /\ Put(Operation(res[d].head), ClaimOf(d))
      BY <1>1 DEF ClaimResume, Create, ClaimOf
<1>3. ClaimOf(d) \in Records /\ ClaimOf(d).by = d  BY OwnRecords DEF ClaimOf
<1> QED  BY <1>1, <1>2, <1>3 DEF Commits, Lands, Has

LEMMA ResumeOwnership ==
    ASSUME TypeInv, [Next]_vars, NEW d \in Resumes, ResumeOwns(d)'
    PROVE  /\ res'[d].head = res[d].head
           /\ ResumeOwns(d) \/ Commits(d, res[d].head)
<1>0. res \in [Resumes -> ResumeRuns]  BY TypeParts DEF ResumeType
<1>1. CASE UNCHANGED vars \/ GitHub
      BY <1>1 DEF vars, GitHub, Move, Ask, Review, ClearPending, LateCommit, OtherCommit,
                  Actors, ResumeOwns
<1>2. CASE \E r \in Producers : ProducerActs(r)  BY <1>2, ProducerScene DEF ResumeOwns
<1>3. CASE \E e \in Resumes \ {d} : Resume(e) \/ StopResume(e)
      BY <1>3, OtherResumesStay DEF ResumeOwns
<1>4. CASE Resume(d) \/ StopResume(d)
  <2> USE DEF Moves, ResumeOwns, ResumeRuns
  <2>1. CASE ClaimResume(d)  BY <2>1, ResumeCommits
  <2>2. CASE Recheck(d)  BY <1>0, <2>2 DEF Recheck
  <2>3. CASE Dispatch(d)  BY <1>0, <2>3 DEF Dispatch
  <2>4. CASE Begin(d)  BY <1>0, <2>4 DEF Begin
  <2>5. CASE Check(d) \/ PostResume(d) \/ StopResume(d)
        BY <1>0, <2>5 DEF Check, PostResume, StopResume
  <2> QED  BY <1>4, <2>1, <2>2, <2>3, <2>4, <2>5 DEF Resume
<1> QED  BY <1>1, <1>2, <1>3, <1>4 DEF Next, ProducerActs
\* A request is sent by a run that owns a claim, and ends its ownership.
Sent(a, h) == Holds(a, h) /\ Sends(a, h) /\ UNCHANGED journal

LEMMA ProducerSends ==
    ASSUME TypeInv, ClaimHeld, NEW r \in Producers, Post(r)
    PROVE  Sent(r, prod[r].head) /\ ~ProducerOwns(r)'
<1>0. prod \in [Producers -> ProducerRuns]  BY TypeParts DEF ProducerType
<1> QED  BY <1>0 DEF Post, Goes, Sent, ClaimHeld, ProducerOwns, ProducerRuns

LEMMA ResumeSends ==
    ASSUME TypeInv, ClaimHeld, NEW d \in Resumes, PostResume(d)
    PROVE  Sent(d, res[d].head) /\ ~ResumeOwns(d)'
<1>0. res \in [Resumes -> ResumeRuns]  BY TypeParts DEF ResumeType
<1> QED  BY <1>0 DEF PostResume, Moves, Sent, ClaimHeld, ResumeOwns, ResumeRuns

LEMMA StepSends ==
    ASSUME TypeInv, ClaimHeld, [Next]_vars
    PROVE  \/ UNCHANGED posts
           \/ \E r \in Producers : Sent(r, prod[r].head) /\ ~ProducerOwns(r)'
           \/ \E d \in Resumes : Sent(d, res[d].head) /\ ~ResumeOwns(d)'
<1>1. CASE UNCHANGED vars \/ GitHub
      BY <1>1 DEF vars, GitHub, Move, Ask, Review, ClearPending, LateCommit, OtherCommit, Actors
<1>2. CASE \E r \in Producers : ProducerActs(r)
      BY <1>2, ProducerScene, ProducerSends
<1>3. CASE \E d \in Resumes : Resume(d) \/ StopResume(d)
      BY <1>3, ResumeScene, ResumeSends
<1> QED  BY <1>1, <1>2, <1>3 DEF Next, ProducerActs

\* What the sender appends, in terms of the sequence of requests.
LEMMA Appended ==
    ASSUME TypeInv, NEW a \in Producers \cup Resumes, NEW h \in Heads, Sends(a, h)
    PROVE  /\ DOMAIN posts' = DOMAIN posts \cup {Len(posts) + 1}
           /\ Len(posts) + 1 \notin DOMAIN posts
           /\ \A i \in DOMAIN posts : posts'[i] = posts[i]
           /\ posts'[Len(posts) + 1] = [by |-> a, head |-> h]
<1>1. posts \in Seq([by : Producers \cup Resumes, head : Heads])
      BY TypeParts DEF SceneType
<1> QED  BY <1>1 DEF Sends

LEMMA HoldsStays ==
    ASSUME TypeInv, RecordsStay, NEW a, NEW h \in Heads, Holds(a, h),
           \/ UNCHANGED posts
           \/ \E b \in (Producers \cup Resumes) \ {a}, g \in Heads : Sent(b, g)
    PROVE  Holds(a, h)'
<1>1. Has(Operation(h))' /\ Record(Operation(h))' = Record(Operation(h))
      BY PathFacts DEF Holds, RecordsStay, Has, Record
<1>2. CASE UNCHANGED posts  BY <1>1, <1>2 DEF Holds
<1>3. ASSUME NEW b \in (Producers \cup Resumes) \ {a}, NEW g \in Heads, Sent(b, g)
      PROVE  Holds(a, h)'
  <2>1. g # h  BY <1>3 DEF Sent, Holds
  <2>2. /\ DOMAIN posts' = DOMAIN posts \cup {Len(posts) + 1}
        /\ \A i \in DOMAIN posts : posts'[i] = posts[i]
        /\ posts'[Len(posts) + 1] = [by |-> b, head |-> g]
        BY <1>3, Appended DEF Sent
  <2>3. \A i \in DOMAIN posts' : posts'[i].head # h
        BY <2>1, <2>2 DEF Holds
  <2> QED  BY <1>1, <2>3 DEF Holds
<1> QED  BY <1>2, <1>3

LEMMA CommitHolds ==
    ASSUME TypeInv, RequestHasClaim, NEW a, NEW h \in Heads, Commits(a, h)
    PROVE  Holds(a, h)'
<1>1. PICK record \in Records : record.by = a /\ Put(Operation(h), record)  BY DEF Commits
<1>2. journal'.rec[Operation(h)] = record
      BY <1>1, TypeParts, PathFacts DEF Put, JournalType
<1>3. record # NoRecord  BY RecordAssumption
<1>4. \A i \in DOMAIN posts : posts[i].head # h  BY DEF Commits, RequestHasClaim
<1> QED  BY <1>1, <1>2, <1>3, <1>4 DEF Commits, Holds, Has, Record

LEMMA ClaimHeldStep ==
    ASSUME TypeInv, ClaimHeld, RequestHasClaim, [Next]_vars
    PROVE  ClaimHeld'
<1>1. RecordsStay  BY RecordsAreKept
<1>2. ASSUME NEW r \in Producers, ProducerOwns(r)'
      PROVE  Holds(r, prod[r].head)' /\ prod'[r].head = prod[r].head
  <2>1. /\ prod'[r].head = prod[r].head /\ prod[r].head \in Heads
        /\ ProducerOwns(r) \/ Commits(r, prod[r].head)
        BY <1>2, ProducerOwnership, OwnRecords
  <2>2. CASE Commits(r, prod[r].head)  BY <2>1, <2>2, CommitHolds DEF Holds
  <2>3. CASE ProducerOwns(r)
    <3>1. Holds(r, prod[r].head)  BY <2>3 DEF ClaimHeld
    <3>2. \/ UNCHANGED posts
          \/ \E b \in (Producers \cup Resumes) \ {r}, g \in Heads : Sent(b, g)
          BY <1>2, StepSends, OwnRecords, ActorAssumption
    <3> QED  BY <1>1, <2>1, <3>1, <3>2, HoldsStays DEF Holds
  <2> QED  BY <2>1, <2>2, <2>3
<1>3. ASSUME NEW d \in Resumes, ResumeOwns(d)'
      PROVE  Holds(d, res[d].head)' /\ res'[d].head = res[d].head
  <2>1. /\ res'[d].head = res[d].head /\ res[d].head \in Heads
        /\ ResumeOwns(d) \/ Commits(d, res[d].head)
        BY <1>3, ResumeOwnership, OwnRecords
  <2>2. CASE Commits(d, res[d].head)  BY <2>1, <2>2, CommitHolds DEF Holds
  <2>3. CASE ResumeOwns(d)
    <3>1. Holds(d, res[d].head)  BY <2>3 DEF ClaimHeld
    <3>2. \/ UNCHANGED posts
          \/ \E b \in (Producers \cup Resumes) \ {d}, g \in Heads : Sent(b, g)
          BY <1>3, StepSends, OwnRecords, ActorAssumption
    <3> QED  BY <1>1, <2>1, <3>1, <3>2, HoldsStays DEF Holds
  <2> QED  BY <2>1, <2>2, <2>3
<1> QED  BY <1>2, <1>3 DEF ClaimHeld

\* A request names a head of the pull request.
LEMMA RequestedHeads ==
    ASSUME TypeInv, NEW i \in DOMAIN posts
    PROVE  posts[i].head \in Heads
<1> DEFINE Requests == [by : Producers \cup Resumes, head : Heads]
<1>1. posts \in Seq(Requests)  BY TypeParts DEF SceneType
<1>2. \A p \in Requests : p.head \in Heads  OBVIOUS
<1> HIDE DEF Requests
<1>3. posts[i] \in Requests  BY <1>1
<1> QED  BY <1>2, <1>3

LEMMA RequestHasClaimStep ==
    ASSUME TypeInv, ClaimHeld, RequestHasClaim, [Next]_vars
    PROVE  RequestHasClaim'
<1>1. RecordsStay  BY RecordsAreKept
<1>2. ASSUME NEW i \in DOMAIN posts
      PROVE  journal'.rec[Operation(posts[i].head)] = journal.rec[Operation(posts[i].head)]
  <2>1. Operation(posts[i].head) \in Paths  BY <1>2, RequestedHeads, PathFacts
  <2> QED  BY <1>1, <1>2, <2>1 DEF RequestHasClaim, RecordsStay, Has, Record
<1>3. CASE UNCHANGED posts  BY <1>2, <1>3 DEF RequestHasClaim, Has, Record
<1>4. ASSUME NEW a \in Producers \cup Resumes, NEW h \in Heads, Sent(a, h)
      PROVE  RequestHasClaim'
  <2>1. /\ DOMAIN posts' = DOMAIN posts \cup {Len(posts) + 1}
        /\ \A i \in DOMAIN posts : posts'[i] = posts[i]
        /\ posts'[Len(posts) + 1] = [by |-> a, head |-> h]
        BY <1>4, Appended DEF Sent
  <2>2. UNCHANGED journal /\ Holds(a, h)  BY <1>4 DEF Sent
  <2> QED  BY <2>1, <2>2 DEF RequestHasClaim, Holds, Has, Record
<1> QED  BY <1>3, <1>4, StepSends, OwnRecords

ClaimInv == TypeInv /\ ClaimHeld /\ RequestHasClaim

(***************************************************************************)
(* For each head of the pull request at most one review is requested, by   *)
(* the run whose claim the journal holds: resume (600-634) and the         *)
(* producer's claim_review_operation (98-222), whatever answers are lost,  *)
(* however many runs, pushes and bases there are.                          *)
(***************************************************************************)
THEOREM OneRequestForEachHead == Spec => []RequestHasClaim
<1>1. Init => ClaimInv
  <2> SUFFICES ASSUME Init PROVE ClaimInv  OBVIOUS
  <2>1. posts = <<>> /\ \A r \in Producers : prod[r].pc = "none"  BY DEF Init
  <2>2. \A d \in Resumes : res[d].pc = "idle"  BY DEF Init
  <2> QED  BY <2>1, <2>2, TypeInit DEF ClaimInv, ClaimHeld, RequestHasClaim, ProducerOwns,
                                       ResumeOwns
<1>2. ClaimInv /\ [Next]_vars => ClaimInv'
      BY TypeStep, ClaimHeldStep, RequestHasClaimStep DEF ClaimInv
<1>3. ClaimInv => RequestHasClaim  BY DEF ClaimInv
<1> QED  BY <1>1, <1>2, <1>3, PTL DEF Spec
----------------------------------------------------------------------------
(***************************************************************************)
(* What the journal says afterwards: a deferral that ended well is         *)
(* recorded; a request is continued only from a fenced intent of its head  *)
(* and base; and a run whose rerun is claimed gets no continued request.   *)
(*                                                                         *)
(* The invariants follow a record from its writer, through a commit that   *)
(* may be late, into the journal: what holds of the writer when it sends   *)
(* the record (Owned, Backed) still holds when the record lands.  A resume *)
(* run read the rerun claim absent at its snapshot, and its commit lands   *)
(* only there (ClearAtSnapshot).                                           *)
(***************************************************************************)

\* What a run holds before its deferral is decided.
Deferring == {"defer", "record", "again", "readback", "bad"}
DeferralsRecorded ==
    \A r \in Producers :
        /\ prod[r].pc = "none" => ~prod[r].defers
        /\ prod[r].defers /\ prod[r].pc \notin Deferring => Recorded(prod[r].head)

\* The intent names its writer's base.
Owned(record) ==
    /\ record.by \in Producers /\ prod[record.by].pc # "none"
    /\ prod[record.by].base = record.base
IntentsOwned ==
    \A h \in Heads :
        /\ Has(Deferred(h)) => Owned(Record(Deferred(h)))
        /\ \A c \in late : c.path = Deferred(h) => Owned(c.record)

\* A claim of a resume run rests on a valid intent of the same base.
Backed(h, record) ==
    record.by \in Resumes => ValidIntent(h) /\ record.base = Record(Deferred(h)).base
Resuming(d) == res[d].pc \in {"check", "claim"}
ClaimsBacked ==
    /\ \A h \in Heads :
         /\ Has(Operation(h)) => Backed(h, Record(Operation(h)))
         /\ \A c \in late : c.path = Operation(h) => Backed(h, c.record)
    /\ \A d \in Resumes : Resuming(d) => Backed(res[d].head, ClaimOf(d))

\* No rerun of the intent's owner is claimed.
Clear(h) == ~Has(RerunClaim(Record(Deferred(h)).by))
ClearAtSnapshot ==
    /\ \A d \in Resumes :
         Resuming(d) => /\ res[d].snap <= journal.head
                        /\ res[d].snap = journal.head => Clear(res[d].head)
    /\ \A h \in Heads, c \in late :
         c.path = Operation(h) /\ c.record.by \in Resumes =>
             /\ c.head <= journal.head
             /\ c.head = journal.head => Clear(h)
----------------------------------------------------------------------------
(* What reaches the journal. *)

\* The records a step may send.
Written(head, path, record) ==
    \/ \E r \in Producers :
         /\ prod[r].pc = "record" /\ head = prod[r].snap
         /\ path = Deferred(prod[r].head) /\ record = Intent(r)
    \/ \E r \in Producers :
         /\ prod[r].pc = "commit" /\ head = prod[r].snap
         /\ path = Operation(prod[r].head) /\ record = Intent(r)
    \/ \E d \in Resumes :
         /\ res[d].pc = "claim" /\ head = res[d].snap
         /\ path = Operation(res[d].head) /\ record = ClaimOf(d)

\* A record that appears was sent by this step or by an earlier one.
Appears(path) ==
    \/ journal'.rec[path] = journal.rec[path]
    \/ \E r \in Producers : path = RerunClaim(r)
    \/ \E c \in late : /\ c.path = path /\ c.head = journal.head
                       /\ journal'.rec[path] = c.record
    \/ Written(journal.head, path, journal'.rec[path])

Delayed == \A c \in late' \ late : Written(c.head, c.path, c.record) /\ c.head = journal.head

LEMMA WrittenAppears ==
    ASSUME JournalType, NEW head, NEW path \in Paths, NEW record \in Records,
           Written(head, path, record), Writes(head, path, record)
    PROVE  (\A p \in Paths : Appears(p)) /\ Delayed
<1>1. CASE Lands(head, path) /\ Put(path, record) /\ UNCHANGED late
  <2>1. journal'.rec[path] = record /\ \A p \in Paths \ {path} : journal'.rec[p] = journal.rec[p]
        BY <1>1 DEF Put, JournalType
  <2>2. head = journal.head  BY <1>1 DEF Lands
  <2> QED  BY <1>1, <2>1, <2>2 DEF Appears, Delayed
<1>2. CASE UNCHANGED <<journal, late>>  BY <1>2 DEF Appears, Delayed
<1>3. CASE /\ Lands(head, path) /\ UNCHANGED journal
           /\ late' = late \cup {[head |-> head, path |-> path, record |-> record]}
  <2>1. head = journal.head  BY <1>3 DEF Lands
  <2> QED  BY <1>3, <2>1 DEF Appears, Delayed
<1> QED  BY <1>1, <1>2, <1>3 DEF Writes

LEMMA StepWrites ==
    ASSUME TypeInv, [Next]_vars
    PROVE  (\A p \in Paths : Appears(p)) /\ Delayed
<1>1. JournalType /\ JournalStep  BY TypeParts, StepOfJournal
<1>2. CASE UNCHANGED <<journal, late>>  BY <1>2 DEF Appears, Delayed
<1>3. ASSUME NEW c \in late, Resolve(c)
      PROVE  (\A p \in Paths : Appears(p)) /\ Delayed
  <2>1. c.path \in Paths /\ late' \ late = {}  BY <1>1, <1>3 DEF JournalType, Resolve
  <2>2. CASE Lands(c.head, c.path)
    <3>1. /\ journal'.rec[c.path] = c.record
          /\ \A p \in Paths \ {c.path} : journal'.rec[p] = journal.rec[p]
          BY <1>1, <1>3, <2>1, <2>2 DEF Resolve, Put, JournalType
    <3>2. c.head = journal.head  BY <2>2 DEF Lands
    <3> QED  BY <2>1, <3>1, <3>2 DEF Appears, Delayed
  <2>3. CASE ~Lands(c.head, c.path)  BY <1>3, <2>1, <2>3 DEF Resolve, Appears, Delayed
  <2> QED  BY <2>2, <2>3
<1>4. CASE Advance  BY <1>1, <1>4 DEF Advance, JournalType, Appears, Delayed
<1>5. ASSUME NEW r \in Producers, Put(RerunClaim(r), Intent(r)), UNCHANGED late
      PROVE  (\A p \in Paths : Appears(p)) /\ Delayed
  <2>1. \A p \in Paths \ {RerunClaim(r)} : journal'.rec[p] = journal.rec[p]
        BY <1>1, <1>5 DEF Put, JournalType
  <2> QED  BY <1>5, <2>1 DEF Appears, Delayed
<1>6. ASSUME NEW r \in Producers, prod[r].pc = "record",
             Writes(prod[r].snap, Deferred(prod[r].head), Intent(r))
      PROVE  (\A p \in Paths : Appears(p)) /\ Delayed
  <2>1. Written(prod[r].snap, Deferred(prod[r].head), Intent(r))  BY <1>6 DEF Written
  <2> QED  BY <1>1, <1>6, <2>1, OwnRecords, WrittenAppears
<1>7. ASSUME NEW r \in Producers, prod[r].pc = "commit",
             Writes(prod[r].snap, Operation(prod[r].head), Intent(r))
      PROVE  (\A p \in Paths : Appears(p)) /\ Delayed
  <2>1. Written(prod[r].snap, Operation(prod[r].head), Intent(r))  BY <1>7 DEF Written
  <2> QED  BY <1>1, <1>7, <2>1, OwnRecords, WrittenAppears
<1>8. ASSUME NEW d \in Resumes, res[d].pc = "claim",
             Writes(res[d].snap, Operation(res[d].head), ClaimOf(d))
      PROVE  (\A p \in Paths : Appears(p)) /\ Delayed
  <2>1. Written(res[d].snap, Operation(res[d].head), ClaimOf(d))  BY <1>8 DEF Written
  <2> QED  BY <1>1, <1>8, <2>1, OwnRecords, WrittenAppears
<1> QED  BY <1>1, <1>2, <1>3, <1>4, <1>5, <1>6, <1>7, <1>8 DEF JournalStep

\* What the record of a path says of its writer.
LEMMA WrittenIntent ==
    ASSUME TypeInv, NEW h \in Heads, NEW head, NEW record, Written(head, Deferred(h), record)
    PROVE  \E r \in Producers : prod[r].pc = "record" /\ prod[r].head = h /\ record = Intent(r)
    BY OwnRecords, PathFacts DEF Written

LEMMA WrittenClaim ==
    ASSUME TypeInv, NEW h \in Heads, NEW head, NEW record, Written(head, Operation(h), record),
           record.by \in Resumes
    PROVE  \E d \in Resumes : /\ res[d].pc = "claim" /\ res[d].head = h
                              /\ res[d].snap = head /\ record = ClaimOf(d)
<1>1. \A r \in Producers : record # Intent(r)  BY ActorAssumption DEF Intent
<1> QED  BY <1>1, OwnRecords, PathFacts DEF Written
----------------------------------------------------------------------------
(* What a step leaves of the runs. *)

\* A run keeps its head and base once it has started, and a failed run stays so.
RunKept(r) ==
    /\ prod[r].pc # "none" =>
         prod'[r].pc # "none" /\ prod'[r].head = prod[r].head /\ prod'[r].base = prod[r].base
    /\ prod[r].pc \in {"failed", "rerun"} => prod'[r].pc \in {"failed", "rerun"}

LEMMA ActsKeep ==
    ASSUME TypeInv, NEW r \in Producers, ProducerActs(r)
    PROVE  RunKept(r)
<1>0. prod \in [Producers -> ProducerRuns]  BY TypeParts DEF ProducerType
<1> USE DEF Goes, Snapshot, RunKept, ProducerRuns
<1>1. CASE ClaimRerun(r)  BY <1>1 DEF ClaimRerun, Actors
<1>2. CASE Rerun(r) \/ Queue(r) \/ Drop(r) \/ Conclude(r)
      BY <1>0, <1>2 DEF Rerun, Queue, Drop, Conclude
<1>3. CASE StopProducer(r)  BY <1>0, <1>3 DEF StopProducer, Working
<1>4. CASE Start(r) \/ Look(r)  BY <1>0, <1>4 DEF Start, Look
<1>5. CASE Pend(r)
  <2>1. \/ \E pc \in {"bad", "claim"} : Goes(r, pc)
        \/ prod' = [prod EXCEPT ![r] = [@ EXCEPT !.pc = "defer", !.defers = TRUE]]
        BY <1>5 DEF Pend
  <2>2. prod[r].pc = "pend"  BY <1>5 DEF Pend
  <2> QED  BY <1>0, <2>1, <2>2
<1>6. CASE Defer(r)  BY <1>0, <1>6 DEF Defer
<1>7. CASE RecordIntent(r)
  <2>1. prod[r].pc = "record"  BY <1>7 DEF RecordIntent
  <2>2. CASE Goes(r, "fence") \/ Goes(r, "readback")  BY <1>0, <2>1, <2>2
  <2>3. CASE prod' = [prod EXCEPT ![r] = [@ EXCEPT !.pc = "again", !.tries = prod[r].tries + 1]]
        BY <1>0, <2>1, <2>3
  <2> QED  BY <1>7, <2>2, <2>3, RecordIntentWrites
<1>8. CASE Again(r)  BY <1>0, <1>8 DEF Again
<1>9. CASE Readback(r) \/ Fence(r)  BY <1>0, <1>9 DEF Readback, Fence
<1>10. CASE ReadForClaim(r)  BY <1>0, <1>10 DEF ReadForClaim
<1>11. CASE Claim(r)  BY <1>0, <1>11, ClaimWrites DEF Claim
<1>12. CASE AssertHead(r) \/ Post(r) \/ Mark(r)  BY <1>0, <1>12 DEF AssertHead, Post, Mark
<1> QED  BY <1>1, <1>2, <1>3, <1>4, <1>5, <1>6, <1>7, <1>8, <1>9, <1>10, <1>11, <1>12
            DEF ProducerActs, Produce

LEMMA RunsKept ==
    ASSUME TypeInv, [Next]_vars
    PROVE  \A r \in Producers : RunKept(r)
<1>1. CASE UNCHANGED vars \/ GitHub
      BY <1>1 DEF vars, GitHub, Move, Ask, Review, ClearPending, LateCommit, OtherCommit,
                  Actors, RunKept
<1>2. CASE \E d \in Resumes : Resume(d) \/ StopResume(d)  BY <1>2, ResumeScene DEF RunKept
<1>3. ASSUME NEW q \in Producers, ProducerActs(q)
      PROVE  \A r \in Producers : RunKept(r)
  <2>1. \A r \in Producers \ {q} : RunKept(r)  BY <1>3, OtherProducersStay DEF RunKept
  <2> QED  BY <1>3, <2>1, ActsKeep
<1> QED  BY <1>1, <1>2, <1>3 DEF Next, ProducerActs

\* A resume run that is about to claim was so before, or began with this step.
Began(d) ==
    LET h == res[d].head
        intent == Record(Deferred(h))
    IN  /\ ValidIntent(h) /\ intent.by = res[d].owner /\ intent.base = res[d].base
        /\ Unclaimed(h, intent.by) /\ UNCHANGED journal
        /\ res'[d].snap = journal.head
Kept(d) == res'[d].head = res[d].head /\ res'[d].base = res[d].base

LEMMA ResumesBegin ==
    ASSUME TypeInv, [Next]_vars, NEW d \in Resumes, Resuming(d)'
    PROVE  Kept(d) /\ ((Resuming(d) /\ res'[d].snap = res[d].snap) \/ Began(d))
<1>0. res \in [Resumes -> ResumeRuns]  BY TypeParts DEF ResumeType
<1>1. CASE UNCHANGED vars \/ GitHub
      BY <1>1 DEF vars, GitHub, Move, Ask, Review, ClearPending, LateCommit, OtherCommit,
                  Actors, Resuming, Kept
<1>2. CASE \E r \in Producers : ProducerActs(r)  BY <1>2, ProducerScene DEF Resuming, Kept
<1>3. CASE \E e \in Resumes \ {d} : Resume(e) \/ StopResume(e)
      BY <1>3, OtherResumesStay DEF Resuming, Kept
<1>4. CASE Resume(d) \/ StopResume(d)
  <2> USE DEF Moves, Resuming, Kept, ResumeRuns
  <2>1. CASE ClaimResume(d)  BY <1>0, <2>1, ClaimResumeWrites
  <2>2. CASE Recheck(d) \/ PostResume(d) \/ StopResume(d)
        BY <1>0, <2>2 DEF Recheck, PostResume, StopResume
  <2>3. CASE Dispatch(d)  BY <1>0, <2>3 DEF Dispatch
  <2>4. CASE Check(d)  BY <1>0, <2>4 DEF Check
  <2>5. CASE Begin(d)
    <3>1. ~Moves(d, "idle")  BY <1>0
    <3>2. res' = [res EXCEPT ![d] = [@ EXCEPT !.pc = "check", !.snap = journal.head]]
          BY <2>5, <3>1 DEF Begin
    <3>3. Began(d)  BY <1>0, <2>5, <3>1, <3>2 DEF Begin, Began, ResumeRead
    <3> QED  BY <1>0, <3>2, <3>3
  <2> QED  BY <1>4, <2>1, <2>2, <2>3, <2>4, <2>5 DEF Resume
<1> QED  BY <1>1, <1>2, <1>3, <1>4 DEF Next, ProducerActs
----------------------------------------------------------------------------
(* Intents name their writer's base. *)

LEMMA OwnedStays ==
    ASSUME TypeInv, [Next]_vars, NEW record, Owned(record)
    PROVE  Owned(record)'
<1>1. RunKept(record.by)  BY RunsKept DEF Owned
<1> QED  BY <1>1 DEF RunKept, Owned

LEMMA SentIntent ==
    ASSUME TypeInv, [Next]_vars, NEW h \in Heads, NEW head, NEW record,
           Written(head, Deferred(h), record)
    PROVE  Owned(record)'
<1>1. PICK r \in Producers : prod[r].pc = "record" /\ record = Intent(r)  BY WrittenIntent
<1>2. Owned(record)  BY <1>1 DEF Owned, Intent
<1> QED  BY <1>2, OwnedStays

LEMMA IntentsOwnedStep ==
    ASSUME TypeInv, IntentsOwned, [Next]_vars
    PROVE  IntentsOwned'
<1>1. SUFFICES ASSUME NEW h \in Heads
               PROVE  /\ Has(Deferred(h))' => Owned(Record(Deferred(h)))'
                      /\ \A c \in late' : c.path = Deferred(h) => Owned(c.record)'
      BY DEF IntentsOwned, Deferred
<1>2. ASSUME Has(Deferred(h))'
      PROVE  Owned(Record(Deferred(h)))'
  <2>0. PICK record : record = journal'.rec[Deferred(h)]  OBVIOUS
  <2>1. Appears(Deferred(h)) /\ RecordsStay /\ Deferred(h) \in Paths
        BY StepWrites, RecordsAreKept, PathFacts
  <2>2. CASE Has(Deferred(h))
    <3>1. record = Record(Deferred(h)) /\ Owned(Record(Deferred(h)))
          BY <2>0, <2>1, <2>2 DEF RecordsStay, IntentsOwned, Record
    <3>2. Owned(record)'  BY <3>1, OwnedStays
    <3> QED  BY <2>0, <3>2 DEF Record, Owned, Deferred
  <2>3. CASE ~Has(Deferred(h))
    <3>1. record # journal.rec[Deferred(h)]  BY <1>2, <2>0, <2>3 DEF Has, Deferred
    <3>2. Owned(record)'
      <4>1. CASE \E c \in late : c.path = Deferred(h) /\ record = c.record
            BY <4>1, OwnedStays DEF IntentsOwned
      <4>2. CASE Written(journal.head, Deferred(h), record)  BY <4>2, SentIntent
      <4> QED  BY <2>0, <2>1, <3>1, <4>1, <4>2, PathFacts DEF Appears
    <3> QED  BY <2>0, <3>2 DEF Record, Owned, Deferred
  <2> QED  BY <2>2, <2>3
<1>3. ASSUME NEW c \in late', c.path = Deferred(h)
      PROVE  Owned(c.record)'
  <2>1. CASE c \in late  BY <1>3, <2>1, OwnedStays DEF IntentsOwned
  <2>2. CASE c \notin late
        BY <1>3, <2>2, StepWrites, SentIntent DEF Delayed
  <2> QED  BY <2>1, <2>2
<1> QED  BY <1>2, <1>3
----------------------------------------------------------------------------
(* Claims of resume runs rest on valid intents. *)

\* The intent of a head, once it is valid, stays and stays valid.
LEMMA ValidStays ==
    ASSUME TypeInv, IntentsOwned, [Next]_vars, NEW h \in Heads, ValidIntent(h)
    PROVE  ValidIntent(h)' /\ journal'.rec[Deferred(h)] = Record(Deferred(h))
<1>1. RecordsStay /\ Deferred(h) \in Paths  BY RecordsAreKept, PathFacts
<1>2. journal'.rec[Deferred(h)] = Record(Deferred(h)) /\ journal'.rec[Deferred(h)] # NoRecord
      BY <1>1 DEF ValidIntent, RecordsStay, Has, Record
<1>3. RunKept(Record(Deferred(h)).by)
      BY RunsKept DEF ValidIntent, IntentsOwned, Owned
<1> QED  BY <1>2, <1>3 DEF RunKept, ValidIntent, Has, Record, Deferred

LEMMA BackedStays ==
    ASSUME TypeInv, IntentsOwned, [Next]_vars, NEW h \in Heads, NEW record, Backed(h, record)
    PROVE  Backed(h, record)'
<1>1. CASE record.by \notin Resumes  BY <1>1 DEF Backed
<1>2. CASE record.by \in Resumes
  <2>1. ValidIntent(h) /\ record.base = Record(Deferred(h)).base  BY <1>2 DEF Backed
  <2> QED  BY <2>1, ValidStays DEF Backed, Record, Deferred
<1> QED  BY <1>1, <1>2

LEMMA SentClaim ==
    ASSUME TypeInv, IntentsOwned, ClaimsBacked, [Next]_vars, NEW h \in Heads, NEW head,
           NEW record, Written(head, Operation(h), record)
    PROVE  Backed(h, record)'
<1>1. CASE record.by \notin Resumes  BY <1>1 DEF Backed
<1>2. CASE record.by \in Resumes
  <2>1. PICK d \in Resumes : res[d].pc = "claim" /\ res[d].head = h /\ record = ClaimOf(d)
        BY <1>2, WrittenClaim
  <2>2. Backed(h, record)  BY <2>1 DEF ClaimsBacked, Resuming
  <2> QED  BY <2>2, BackedStays
<1> QED  BY <1>1, <1>2

LEMMA ClaimsBackedStep ==
    ASSUME TypeInv, IntentsOwned, ClaimsBacked, [Next]_vars
    PROVE  ClaimsBacked'
<1>1. ASSUME NEW h \in Heads, Has(Operation(h))'
      PROVE  Backed(h, Record(Operation(h)))'
  <2>0. PICK record : record = journal'.rec[Operation(h)]  OBVIOUS
  <2>1. Appears(Operation(h)) /\ RecordsStay /\ Operation(h) \in Paths
        BY StepWrites, RecordsAreKept, PathFacts
  <2>2. CASE Has(Operation(h))
    <3>1. record = Record(Operation(h)) /\ Backed(h, Record(Operation(h)))
          BY <2>0, <2>1, <2>2 DEF RecordsStay, ClaimsBacked, Record
    <3>2. Backed(h, record)'  BY <3>1, BackedStays
    <3> QED  BY <2>0, <3>2 DEF Record, Backed, Operation
  <2>3. CASE ~Has(Operation(h))
    <3>1. record # journal.rec[Operation(h)]  BY <1>1, <2>0, <2>3 DEF Has, Operation
    <3>2. Backed(h, record)'
      <4>1. CASE \E c \in late : c.path = Operation(h) /\ record = c.record
            BY <4>1, BackedStays DEF ClaimsBacked
      <4>2. CASE Written(journal.head, Operation(h), record)  BY <4>2, SentClaim
      <4> QED  BY <2>0, <2>1, <3>1, <4>1, <4>2, PathFacts DEF Appears
    <3> QED  BY <2>0, <3>2 DEF Record, Backed, Operation
  <2> QED  BY <2>2, <2>3
<1>2. ASSUME NEW h \in Heads, NEW c \in late', c.path = Operation(h)
      PROVE  Backed(h, c.record)'
  <2>1. CASE c \in late  BY <1>2, <2>1, BackedStays DEF ClaimsBacked
  <2>2. CASE c \notin late  BY <1>2, <2>2, StepWrites, SentClaim DEF Delayed
  <2> QED  BY <2>1, <2>2
<1>3. ASSUME NEW d \in Resumes, Resuming(d)'
      PROVE  Backed(res[d].head, ClaimOf(d))'
  <2>1. Kept(d) /\ res[d].head \in Heads  BY <1>3, ResumesBegin, OwnRecords
  <2>2. Backed(res[d].head, ClaimOf(d))
    <3>1. CASE Resuming(d)  BY <3>1 DEF ClaimsBacked
    <3>2. CASE Began(d)  BY <3>2 DEF Began, Backed, ClaimOf
    <3> QED  BY <1>3, <3>1, <3>2, ResumesBegin
  <2>3. Backed(res[d].head, ClaimOf(d))' /\ ClaimOf(d)' = ClaimOf(d)
        BY <2>1, <2>2, BackedStays DEF Kept, ClaimOf
  <2> QED  BY <2>1, <2>3 DEF Kept
<1> QED  BY <1>1, <1>2, <1>3 DEF ClaimsBacked, Operation
----------------------------------------------------------------------------
(* A claim that may still land was made where no rerun was claimed. *)

LEMMA ClearStays ==
    ASSUME TypeInv, RecordsStay, NEW h \in Heads, NEW snap \in Nat, snap <= journal.head,
           snap = journal.head => Clear(h)
    PROVE  snap <= journal'.head /\ (snap = journal'.head => Clear(h)')
<1>1. journal.head \in Nat /\ journal'.head \in Nat /\ journal'.head >= journal.head
      BY TypeParts DEF JournalType, RecordsStay
<1>2. ASSUME snap = journal'.head
      PROVE  Clear(h)'
  <2>1. journal.head = journal'.head  BY <1>1, <1>2
  <2>2. journal'.rec = journal.rec /\ Clear(h)  BY <1>2, <2>1 DEF RecordsStay
  <2> QED  BY <2>2 DEF Clear, Has, Record, RerunClaim, Deferred
<1> QED  BY <1>1, <1>2

LEMMA ClearAtSnapshotStep ==
    ASSUME TypeInv, ClearAtSnapshot, [Next]_vars
    PROVE  ClearAtSnapshot'
<1>0. RecordsStay /\ JournalType  BY RecordsAreKept, TypeParts
<1>1. ASSUME NEW d \in Resumes, Resuming(d)'
      PROVE  /\ res'[d].snap <= journal'.head
             /\ res'[d].snap = journal'.head => Clear(res[d].head)'
             /\ res'[d].head = res[d].head
  <2>1. Kept(d) /\ res[d].head \in Heads /\ res[d].snap \in Nat
        BY <1>1, ResumesBegin, OwnRecords
  <2>2. CASE Resuming(d) /\ res'[d].snap = res[d].snap
    <3>1. /\ res[d].snap <= journal.head
          /\ res[d].snap = journal.head => Clear(res[d].head)
          BY <2>2 DEF ClearAtSnapshot
    <3>2. PICK h \in Heads, snap \in Nat : h = res[d].head /\ snap = res[d].snap  BY <2>1
    <3>3. snap <= journal'.head /\ (snap = journal'.head => Clear(h)')
          BY <1>0, <3>1, <3>2, ClearStays
    <3> QED  BY <2>1, <2>2, <3>2, <3>3 DEF Kept, Clear
  <2>3. CASE Began(d)
    <3>1. res'[d].snap = journal.head /\ UNCHANGED journal /\ Clear(res[d].head)
          BY <2>3 DEF Began, Unclaimed, Clear
    <3>2. journal.head \in Nat  BY <1>0 DEF JournalType
    <3> QED  BY <2>1, <3>1, <3>2 DEF Kept, Clear, Has, Record
  <2> QED  BY <1>1, <2>2, <2>3, ResumesBegin
<1>2. ASSUME NEW h \in Heads, NEW c \in late', c.path = Operation(h), c.record.by \in Resumes
      PROVE  c.head <= journal'.head /\ (c.head = journal'.head => Clear(h)')
  <2>1. c.head \in Nat
    <3>1. JournalType'  BY JournalStepType
    <3> QED  BY <3>1 DEF JournalType
  <2>2. c.head <= journal.head /\ (c.head = journal.head => Clear(h))
    <3>1. CASE c \in late  BY <1>2, <3>1 DEF ClearAtSnapshot
    <3>2. CASE c \notin late
      <4>1. Written(c.head, Operation(h), c.record) /\ c.head = journal.head
            BY <1>2, <3>2, StepWrites DEF Delayed
      <4>2. PICK d \in Resumes : res[d].pc = "claim" /\ res[d].head = h /\ res[d].snap = c.head
            BY <1>2, <4>1, WrittenClaim
      <4> QED  BY <4>1, <4>2 DEF ClearAtSnapshot, Resuming
    <3> QED  BY <3>1, <3>2
  <2> QED  BY <1>0, <2>1, <2>2, ClearStays
<1> QED  BY <1>1, <1>2 DEF ClearAtSnapshot, Operation

LEMMA ClearWhenClaimed ==
    ASSUME TypeInv, ClearAtSnapshot, [Next]_vars, NEW h \in Heads, ~Has(Operation(h)),
           journal'.rec[Operation(h)] # NoRecord, journal'.rec[Operation(h)].by \in Resumes
    PROVE  Clear(h)
<1>1. Appears(Operation(h)) /\ journal'.rec[Operation(h)] # journal.rec[Operation(h)]
      BY StepWrites, PathFacts DEF Has
<1>2. CASE \E c \in late : /\ c.path = Operation(h) /\ c.head = journal.head
                           /\ journal'.rec[Operation(h)] = c.record
      BY <1>2 DEF ClearAtSnapshot
<1>3. CASE Written(journal.head, Operation(h), journal'.rec[Operation(h)])
  <2>1. PICK record : record = journal'.rec[Operation(h)]  OBVIOUS
  <2>2. PICK d \in Resumes : res[d].pc = "claim" /\ res[d].head = h /\ res[d].snap = journal.head
        BY <1>3, <2>1, WrittenClaim
  <2> QED  BY <2>2 DEF ClearAtSnapshot, Resuming
<1> QED  BY <1>1, <1>2, <1>3, PathFacts DEF Appears
----------------------------------------------------------------------------
(* A deferral that ended well is recorded. *)

LEMMA RecordedStays ==
    ASSUME TypeInv, [Next]_vars, NEW h \in Heads, Recorded(h)
    PROVE  Recorded(h)'
<1>1. RecordsStay /\ Deferred(h) \in Paths /\ Operation(h) \in Paths
      BY RecordsAreKept, PathFacts
<1> QED  BY <1>1 DEF Recorded, Has, RecordsStay, Deferred, Operation

\* What the run's own step leaves of it.
Settles(r) ==
    /\ prod'[r].pc = "none" => ~prod'[r].defers
    /\ prod'[r].defers /\ prod'[r].pc \notin Deferring =>
         /\ prod'[r].head = prod[r].head
         /\ Recorded(prod[r].head) \/ Has(Deferred(prod[r].head))'

LEMMA RunSettles ==
    ASSUME TypeInv, DeferralsRecorded, NEW r \in Producers, ProducerActs(r)
    PROVE  Settles(r)
<1>0. prod \in [Producers -> ProducerRuns]  BY TypeParts DEF ProducerType
<1>d. /\ prod[r].pc = "none" => ~prod[r].defers
      /\ prod[r].defers /\ prod[r].pc \notin Deferring => Recorded(prod[r].head)
      BY DEF DeferralsRecorded
<1> USE DEF Goes, Snapshot, Settles, Deferring, ProducerRuns
<1>1. CASE ClaimRerun(r)  BY <1>d, <1>1 DEF ClaimRerun, Actors
<1>2. CASE Queue(r)  BY <1>0, <1>d, <1>2 DEF Queue
<1>3. CASE Rerun(r) \/ Drop(r) \/ Conclude(r) \/ StopProducer(r)
      BY <1>0, <1>d, <1>3 DEF Rerun, Drop, Conclude, StopProducer
<1>4. CASE Start(r) \/ Look(r)  BY <1>0, <1>d, <1>4 DEF Start, Look
<1>5. CASE Pend(r)
  <2>1. \/ \E pc \in {"bad", "claim"} : Goes(r, pc)
        \/ prod' = [prod EXCEPT ![r] = [@ EXCEPT !.pc = "defer", !.defers = TRUE]]
        BY <1>5 DEF Pend
  <2>2. prod[r].pc = "pend"  BY <1>5 DEF Pend
  <2>3. CASE \E pc \in {"bad", "claim"} : Goes(r, pc)  BY <1>0, <1>d, <2>2, <2>3
  <2>4. CASE prod' = [prod EXCEPT ![r] = [@ EXCEPT !.pc = "defer", !.defers = TRUE]]
        BY <1>0, <2>4
  <2> QED  BY <2>1, <2>3, <2>4
<1>6. CASE Defer(r)
  <2>1. CASE Goes(r, "bad")  BY <1>0, <2>1
  <2>2. CASE Goes(r, "ok") /\ Recorded(prod[r].head)  BY <1>0, <2>2
  <2>3. CASE Snapshot(r)  BY <1>0, <2>3
  <2> QED  BY <1>6, <2>1, <2>2, <2>3 DEF Defer
<1>7. CASE RecordIntent(r)
  <2>1. prod[r].pc = "record"  BY <1>7 DEF RecordIntent
  <2>2. CASE Goes(r, "readback")  BY <1>0, <2>1, <2>2
  <2>3. CASE prod' = [prod EXCEPT ![r] = [@ EXCEPT !.pc = "again", !.tries = prod[r].tries + 1]]
        BY <1>0, <2>1, <2>3
  <2>4. CASE Goes(r, "fence")
    <3>1. prod'[r].pc = "fence" /\ prod'[r].head = prod[r].head  BY <1>0, <2>4
    <3>2. Put(Deferred(prod[r].head), Intent(r))
          BY <1>0, <1>7, <3>1 DEF RecordIntent, Create
    <3>3. journal'.rec[Deferred(prod[r].head)] = Intent(r)
          BY <3>2, OwnRecords, TypeParts DEF Put, JournalType
    <3>4. Intent(r) # NoRecord  BY OwnRecords, RecordAssumption
    <3> QED  BY <3>1, <3>3, <3>4 DEF Has, Deferred
  <2> QED  BY <1>7, <2>2, <2>3, <2>4, RecordIntentWrites
<1>8. CASE Again(r)
  <2>1. CASE Goes(r, "bad")  BY <1>0, <2>1
  <2>2. CASE Goes(r, "fence") /\ Recorded(prod[r].head)  BY <1>0, <2>2
  <2>3. CASE Snapshot(r)  BY <1>0, <2>3
  <2> QED  BY <1>8, <2>1, <2>2, <2>3 DEF Again
<1>9. CASE Readback(r)
  <2>1. prod[r].pc = "readback" /\ (Goes(r, "fence") \/ Goes(r, "bad"))  BY <1>9 DEF Readback
  <2>2. CASE Goes(r, "bad")  BY <1>0, <2>1, <2>2
  <2>3. CASE Goes(r, "fence")
    <3>1. prod'[r].pc = "fence" /\ prod'[r].head = prod[r].head  BY <1>0, <2>3
    <3>2. Record(Deferred(prod[r].head)) = Intent(r)  BY <1>0, <1>9, <3>1 DEF Readback
    <3>3. Recorded(prod[r].head)
          BY <3>2, OwnRecords, RecordAssumption DEF Recorded, Has, Record
    <3> QED  BY <3>1, <3>3
  <2> QED  BY <2>1, <2>2, <2>3
<1>10. CASE Fence(r)  BY <1>0, <1>d, <1>10 DEF Fence
<1>11. CASE ReadForClaim(r)
  <2>1. prod[r].pc = "claim"  BY <1>11 DEF ReadForClaim
  <2>2. CASE \E pc \in {"bad", "ok"} : Goes(r, pc)  BY <1>0, <1>d, <2>1, <2>2
  <2>3. CASE prod' = [prod EXCEPT ![r] = [@ EXCEPT !.pc = "commit", !.snap = journal.head]]
        BY <1>0, <1>d, <2>1, <2>3
  <2> QED  BY <1>11, <2>2, <2>3 DEF ReadForClaim
<1>12. CASE Claim(r)
  <2>1. prod[r].pc = "commit"  BY <1>12 DEF Claim
  <2> QED  BY <1>0, <1>d, <1>12, <2>1, ClaimWrites
<1>13. CASE AssertHead(r) \/ Mark(r)  BY <1>0, <1>d, <1>13 DEF AssertHead, Mark
<1>14. CASE Post(r)  BY <1>0, <1>d, <1>14 DEF Post
<1> QED  BY <1>1, <1>2, <1>3, <1>4, <1>5, <1>6, <1>7, <1>8, <1>9, <1>10, <1>11, <1>12, <1>13,
            <1>14 DEF ProducerActs, Produce

LEMMA OwnStepOnly ==
    ASSUME TypeInv, [Next]_vars, NEW r \in Producers
    PROVE  ProducerActs(r) \/ prod'[r] = prod[r]
<1>1. CASE UNCHANGED vars \/ GitHub
      BY <1>1 DEF vars, GitHub, Move, Ask, Review, ClearPending, LateCommit, OtherCommit, Actors
<1>2. CASE \E d \in Resumes : Resume(d) \/ StopResume(d)  BY <1>2, ResumeScene
<1>3. CASE \E q \in Producers : ProducerActs(q)  BY <1>3, OtherProducersStay
<1> QED  BY <1>1, <1>2, <1>3 DEF Next, ProducerActs

LEMMA DeferralsStep ==
    ASSUME TypeInv, DeferralsRecorded, [Next]_vars
    PROVE  DeferralsRecorded'
<1>1. ASSUME NEW r \in Producers
      PROVE  /\ prod'[r].pc = "none" => ~prod'[r].defers
             /\ prod'[r].defers /\ prod'[r].pc \notin Deferring => Recorded(prod[r].head)'
  <2>1. PICK h \in Heads : h = prod[r].head  BY OwnRecords
  <2>2. Recorded(h) => Recorded(h)'  BY RecordedStays
  <2>3. CASE ProducerActs(r)
    <3>1. Settles(r)  BY <2>3, RunSettles
    <3>2. CASE prod'[r].defers /\ prod'[r].pc \notin Deferring
      <4>1. prod'[r].head = h /\ (Recorded(h) \/ Has(Deferred(h))')
            BY <2>1, <3>1, <3>2 DEF Settles, Has, Deferred
      <4>2. Recorded(h)'  BY <2>2, <4>1 DEF Recorded
      <4> QED  BY <3>1, <4>1, <4>2 DEF Settles, Recorded, Has, Deferred, Operation
    <3> QED  BY <3>1, <3>2 DEF Settles
  <2>4. CASE prod'[r] = prod[r]
    <3>1. prod[r].pc = "none" => ~prod[r].defers  BY DEF DeferralsRecorded
    <3>2. prod[r].defers /\ prod[r].pc \notin Deferring => Recorded(h)'
          BY <2>1, <2>2 DEF DeferralsRecorded
    <3> QED  BY <2>1, <2>4, <3>1, <3>2 DEF Recorded, Has, Deferred, Operation
  <2> QED  BY <2>3, <2>4, OwnStepOnly
<1> QED  BY <1>1 DEF DeferralsRecorded, Deferring
----------------------------------------------------------------------------
EvidenceInv ==
    TypeInv /\ DeferralsRecorded /\ IntentsOwned /\ ClaimsBacked /\ ClearAtSnapshot

LEMMA EvidenceInit == Init => EvidenceInv
<1> SUFFICES ASSUME Init PROVE EvidenceInv  OBVIOUS
<1>1. /\ late = {} /\ \A p \in Paths : journal.rec[p] = NoRecord
      /\ \A r \in Producers : prod[r].pc = "none" /\ prod[r].defers = FALSE
      /\ \A d \in Resumes : res[d].pc = "idle"
      BY DEF Init
<1>2. DeferralsRecorded  BY <1>1 DEF DeferralsRecorded
<1>3. \A h \in Heads : ~Has(Deferred(h)) /\ ~Has(Operation(h))  BY <1>1, PathFacts DEF Has
<1>4. \A d \in Resumes : ~Resuming(d)  BY <1>1 DEF Resuming
<1> QED  BY <1>1, <1>2, <1>3, <1>4, TypeInit
            DEF EvidenceInv, IntentsOwned, ClaimsBacked, ClearAtSnapshot

LEMMA EvidenceStep == EvidenceInv /\ [Next]_vars => EvidenceInv'
    BY TypeStep, DeferralsStep, IntentsOwnedStep, ClaimsBackedStep, ClearAtSnapshotStep
       DEF EvidenceInv

(***************************************************************************)
(* A producer job that defers instead of asking, and ends well, has left   *)
(* an intent in the journal, or its head's request is claimed: defer       *)
(* (528-558), whatever conflicts and lost answers there are.               *)
(***************************************************************************)
THEOREM DeferralIsRecorded == Spec => []DeferredIsRecorded
<1>1. EvidenceInv => DeferredIsRecorded
      BY DEF EvidenceInv, DeferralsRecorded, Deferring, DeferredIsRecorded
<1> QED  BY EvidenceInit, EvidenceStep, <1>1, PTL DEF Spec

(***************************************************************************)
(* A claim of a resume run is backed by an intent of the same head and     *)
(* base whose owner's job passed its fence: validate_intent (397-424) and  *)
(* resume (600-634).                                                       *)
(***************************************************************************)
THEOREM ContinuationIsBacked == Spec => []ContinuedWasDeferred
<1>1. EvidenceInv => ContinuedWasDeferred
  <2> SUFFICES ASSUME EvidenceInv, NEW h \in Heads, Has(Operation(h)),
                      Record(Operation(h)).by \in Resumes
               PROVE  /\ Has(Deferred(h))
                      /\ Record(Operation(h)).base = Record(Deferred(h)).base
                      /\ prod[Record(Deferred(h)).by].pc \in {"failed", "rerun"}
                      /\ prod[Record(Deferred(h)).by].base = Record(Operation(h)).base
      BY DEF ContinuedWasDeferred
  <2>1. ValidIntent(h) /\ Record(Operation(h)).base = Record(Deferred(h)).base
        BY DEF EvidenceInv, ClaimsBacked, Backed
  <2>2. Owned(Record(Deferred(h)))  BY <2>1 DEF EvidenceInv, IntentsOwned, ValidIntent
  <2> QED  BY <2>1, <2>2 DEF ValidIntent, Owned
<1> QED  BY EvidenceInit, EvidenceStep, <1>1, PTL DEF Spec

(***************************************************************************)
(* No step puts a resume run's claim into the journal once the rerun of    *)
(* the intent's owner is claimed: unconsumed (449-472) reads both records  *)
(* at the snapshot on which resume's commit is conditioned.                *)
(***************************************************************************)
THEOREM RerunOrRequest == Spec => RerunExcludesRequest
<1>1. EvidenceInv /\ [Next]_vars =>
        [\A h \in Heads :
           ~Has(Operation(h)) /\ journal'.rec[Operation(h)] # NoRecord
             /\ journal'.rec[Operation(h)].by \in Resumes
           => ~Has(RerunClaim(Record(Deferred(h)).by))]_vars
      BY ClearWhenClaimed DEF EvidenceInv, Clear
<1> QED  BY EvidenceInit, EvidenceStep, <1>1, PTL DEF Spec, RerunExcludesRequest
================================================================================
