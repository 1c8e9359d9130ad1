--------------------------- MODULE RequestContinuation ---------------------------
(***************************************************************************)
(* The one funded Copilot request for each head of a pull request (LI-219):*)
(* the producer (copilot-review.yml) requests a review, or records a       *)
(* deferred intent while another review is pending for the pull request;   *)
(* scripts/review_request_continuation.py resumes the intent once that     *)
(* review is complete.                                                     *)
(*                                                                         *)
(* One producer job runs at a time; resume runs run in parallel with it    *)
(* and with each other.  A step is a group of reads, a journal write or    *)
(* the POST, in the order of the code.  drafts, closed pull requests, ref  *)
(* names and the seven days an intent lives are left out: a run that meets *)
(* them stops, as in Stop.                                                 *)
(***************************************************************************)
EXTENDS Naturals, FiniteSets, Sequences, ReviewJournal

CONSTANTS
    Heads,       \* head commits of the pull request
    Producers,   \* runs of copilot-review.yml for its events
    Resumes,     \* runs of review-request-continuation.yml
    MaxMoves, MaxReviews, MaxAsks,   \* bounds: pushes, base moves and others'
    MaxOther, MaxFaults              \*   commits together; completed reviews, other
                                     \*   requests, others' commits, failed reads
                                     \*   and lost answers

\* An intent or a claim: the run that wrote it and the base it saw.
Records == [by : Producers \cup Resumes, base : Nat]

ASSUME RecordAssumption == NoRecord \notin Records
ASSUME ActorAssumption == Producers \cap Resumes = {}
ASSUME BoundAssumption ==
    {MaxMoves, MaxReviews, MaxAsks, MaxOther, MaxFaults} \subseteq Nat

VARIABLES
    live,      \* the pull request: [head, base], the base counted by its moves
    reviews,   \* Copilot's completed reviews, in order: [head, ok]
    pending,   \* the head Copilot was last asked about while that request is
               \* listed, or NoRecord; the list is PR-scoped and may be stale
    markers,   \* heads with a request marker among the comments
    prod,      \* each producer run: [pc, head, base, snap, tries, defers]
    res,       \* each resume run: [pc, head, owner, base, old, snap]
    posts,     \* the reviewer requests the runs sent, in order: [by, head]
    moves, asks, others, faults

scene == <<live, reviews, moves, asks, others>>
vars == <<journal, late, live, reviews, pending, markers, prod, res, posts,
          moves, asks, others, faults>>

Operation(h) == <<"operation", h>>
Deferred(h) == <<"deferred", h>>
RerunClaim(r) == <<"rerun", r>>
Paths == {Operation(h) : h \in Heads} \cup {Deferred(h) : h \in Heads}
         \cup {RerunClaim(r) : r \in Producers}
Record(path) == journal.rec[path]
Has(path) == journal.rec[path] # NoRecord
----------------------------------------------------------------------------
Init ==
    \E h \in Heads :
        /\ live = [head |-> h, base |-> 0]
        /\ journal = [head |-> 0, rec |-> [p \in Paths |-> NoRecord]]
        /\ late = {} /\ reviews = <<>> /\ pending \in {NoRecord, h} /\ markers = {}
        /\ prod = [r \in Producers |-> [pc |-> "none", head |-> h, base |-> 0,
                                        snap |-> 0, tries |-> 0, defers |-> FALSE]]
        /\ res = [d \in Resumes |-> [pc |-> "idle", head |-> h, owner |-> NoRecord,
                                     base |-> 0, old |-> 0, snap |-> 0]]
        /\ posts = <<>> /\ moves = 0 /\ asks = 0 /\ others = 0 /\ faults = 0
----------------------------------------------------------------------------
(* The pull request, Copilot, and the other users of the journal. *)

Actors == <<prod, res, posts, faults>>

\* A push, forward or back to an earlier head, or a move of the base branch.
Move ==
    /\ moves + others < MaxMoves /\ moves' = moves + 1
    /\ \/ \E h \in Heads \ {live.head} : live' = [live EXCEPT !.head = h]
       \/ live' = [live EXCEPT !.base = @ + 1]
    /\ UNCHANGED <<journal, late, reviews, pending, markers, Actors, asks, others>>

\* A human asks for a review, or an earlier POST takes effect after all.
Ask ==
    /\ asks < MaxAsks /\ asks' = asks + 1
    /\ pending' = live.head
    /\ UNCHANGED <<journal, late, live, reviews, markers, Actors, moves, others>>

\* Copilot reviews the head it was asked about or the live one; its request may
\* be listed for longer.
Review ==
    /\ pending # NoRecord /\ Len(reviews) < MaxReviews
    /\ \E h \in {pending, live.head}, ok \in BOOLEAN :
         reviews' = Append(reviews, [head |-> h, ok |-> ok])
    /\ pending' \in {pending, NoRecord}
    /\ UNCHANGED <<journal, late, live, markers, Actors, moves, asks, others>>

ClearPending ==
    /\ pending # NoRecord /\ pending' = NoRecord
    /\ UNCHANGED <<journal, late, scene, markers, Actors>>

LateCommit ==
    /\ \E c \in late : Resolve(c)
    /\ UNCHANGED <<scene, pending, markers, Actors>>

OtherCommit ==
    /\ others < MaxOther /\ moves + others < MaxMoves
    /\ others' = others + 1 /\ Advance
    /\ UNCHANGED <<live, reviews, pending, markers, Actors, moves, asks>>

\* The rerun helper claims the verifier operation of a failed run.
ClaimRerun(r) ==
    /\ prod[r].pc = "failed" /\ ~Has(RerunClaim(r))
    /\ Put(RerunClaim(r), [by |-> r, base |-> prod[r].base]) /\ UNCHANGED late
    /\ UNCHANGED <<scene, pending, markers, Actors>>

\* A claimed or a human's rerun makes attempt two the current one.
Rerun(r) ==
    /\ prod[r].pc = "failed" /\ prod' = [prod EXCEPT ![r].pc = "rerun"]
    /\ UNCHANGED <<journal, late, scene, pending, markers, res, posts, faults>>
----------------------------------------------------------------------------
(* A producer run: the request job, then its conclusion. *)

Working == {"look", "pend", "defer", "record", "again", "readback", "fence",
            "claim", "commit", "assert", "post", "mark"}
Bound(r) == live.head = prod[r].head /\ live.base = prod[r].base
Reviewed(h) == \E i \in DOMAIN reviews : reviews[i].head = h

ProducerStep == UNCHANGED <<scene, res>>
ReadOnly == ProducerStep /\ UNCHANGED <<journal, late, pending, markers, posts, faults>>
Goes(r, pc) == prod' = [prod EXCEPT ![r].pc = pc]
\* The run loses an answer or fails a read.
Fault == faults < MaxFaults /\ faults' = faults + 1
Sound == UNCHANGED faults

\* An event of the pull request that may request a review.
Queue(r) ==
    /\ prod[r].pc = "none"
    /\ prod' = [prod EXCEPT ![r] = [@ EXCEPT !.pc = "queued", !.head = live.head,
                                          !.base = live.base]]
    /\ ReadOnly

\* The concurrency group keeps one job waiting and cancels an older one.
Drop(r) ==
    /\ prod[r].pc = "queued" /\ \E q \in Producers \ {r} : prod[q].pc = "queued"
    /\ Goes(r, "bad") /\ ReadOnly

\* Mutant: the group of a job is its event, not its pull request.
StartAnyway(r) ==
    /\ prod[r].pc = "queued"
    /\ Goes(r, IF Bound(r) THEN "look" ELSE "bad") /\ ReadOnly

Start(r) ==
    /\ prod[r].pc = "queued" /\ \A q \in Producers : prod[q].pc \notin Working
    /\ Goes(r, IF Bound(r) THEN "look" ELSE "bad") /\ ReadOnly

\* review_exists_for_head; assert_bound_head_current before it.
Look(r) ==
    /\ prod[r].pc = "look"
    /\ Goes(r, IF live.head # prod[r].head THEN "bad"
               ELSE IF Reviewed(prod[r].head) THEN "ok" ELSE "pend")
    /\ ReadOnly

\* The comments, then reviewer_is_requested.
Pend(r) ==
    /\ prod[r].pc = "pend"
    /\ \/ live.head # prod[r].head /\ Goes(r, "bad")
       \/ /\ live.head = prod[r].head /\ pending # NoRecord
          /\ prod' = [prod EXCEPT ![r] = [@ EXCEPT !.pc = "defer", !.defers = TRUE]]
       \/ /\ live.head = prod[r].head /\ pending = NoRecord
          /\ Goes(r, IF prod[r].head \in markers THEN "bad" ELSE "claim")
    /\ ReadOnly

Recorded(h) == Has(Operation(h)) \/ Has(Deferred(h))
Snapshot(r) == prod' = [prod EXCEPT ![r] = [@ EXCEPT !.pc = "record", !.snap = journal.head]]

\* defer: its bindings, the journal, and the bindings once more.
Defer(r) ==
    /\ prod[r].pc = "defer"
    /\ \/ ~Bound(r) /\ Goes(r, "bad")
       \/ Bound(r) /\ Recorded(prod[r].head) /\ Goes(r, "ok")
       \/ Bound(r) /\ ~Recorded(prod[r].head) /\ Snapshot(r)
    /\ ReadOnly

Intent(r) == [by |-> r, base |-> prod[r].base]
Tries == 3

RecordIntent(r) ==
    /\ prod[r].pc = "record"
    /\ Create(prod[r].snap, Deferred(prod[r].head), Intent(r),
              Goes(r, "fence") /\ Sound,
              prod' = [prod EXCEPT ![r] = [@ EXCEPT !.pc = "again", !.tries = prod[r].tries + 1]] /\ Sound,
              Goes(r, "readback") /\ Fault)
    /\ ProducerStep /\ UNCHANGED <<pending, markers, posts>>

\* ConfirmedIntentConflict: a new snapshot, and the bindings again.
Again(r) ==
    /\ prod[r].pc = "again"
    /\ \/ Recorded(prod[r].head) /\ Goes(r, "fence")
       \/ /\ ~Recorded(prod[r].head) /\ (prod[r].tries = Tries \/ ~Bound(r))
          /\ Goes(r, "bad")
       \/ ~Recorded(prod[r].head) /\ prod[r].tries < Tries /\ Bound(r) /\ Snapshot(r)
    /\ ReadOnly

\* Mutant: after a lost answer the intent is taken for recorded.
ReadbackTrusting(r) ==
    /\ prod[r].pc = "readback" /\ Goes(r, "fence") /\ ReadOnly

\* Unknown delivery is only read back.
Readback(r) ==
    /\ prod[r].pc = "readback"
    /\ Goes(r, IF /\ Record(Deferred(prod[r].head)) = Intent(r)
                  /\ ~Has(Operation(prod[r].head))
               THEN "fence" ELSE "bad")
    /\ ReadOnly

Fence(r) ==
    /\ prod[r].pc = "fence" /\ Goes(r, IF Bound(r) THEN "ok" ELSE "bad") /\ ReadOnly

\* claim_review_operation reads; a consumed operation ends the job well.
ReadForClaim(r) ==
    /\ prod[r].pc = "claim"
    /\ \/ live.head # prod[r].head /\ Goes(r, "bad")
       \/ live.head = prod[r].head /\ Has(Operation(prod[r].head)) /\ Goes(r, "ok")
       \/ /\ live.head = prod[r].head /\ ~Has(Operation(prod[r].head))
          /\ prod' = [prod EXCEPT ![r] = [@ EXCEPT !.pc = "commit", !.snap = journal.head]]
    /\ ReadOnly

\* Mutant: a claim read back after a lost answer permits the POST.
ClaimUnconfirmed(r) ==
    /\ prod[r].pc = "commit"
    /\ Create(prod[r].snap, Operation(prod[r].head), Intent(r),
              Goes(r, "assert") /\ Sound, Goes(r, "ok") /\ Sound, Goes(r, "assert") /\ Fault)
    /\ ProducerStep /\ UNCHANGED <<pending, markers, posts>>

\* Exactly one CAS: a conflict or a lost answer ends the job well.
Claim(r) ==
    /\ prod[r].pc = "commit"
    /\ Create(prod[r].snap, Operation(prod[r].head), Intent(r),
              Goes(r, "assert") /\ Sound, Goes(r, "ok") /\ Sound, Goes(r, "ok") /\ Fault)
    /\ ProducerStep /\ UNCHANGED <<pending, markers, posts>>

AssertHead(r) ==
    /\ prod[r].pc = "assert"
    /\ Goes(r, IF live.head = prod[r].head THEN "post" ELSE "bad") /\ ReadOnly

Sends(a, h) == posts' = Append(posts, [by |-> a, head |-> h])

\* The answer is lost, with or without an effect, or it is not.
Post(r) ==
    /\ prod[r].pc = "post" /\ Sends(r, prod[r].head)
    /\ \/ pending' = live.head /\ Goes(r, "mark") /\ Sound
       \/ pending' \in {pending, live.head} /\ Goes(r, "bad") /\ Fault
    /\ ProducerStep /\ UNCHANGED <<journal, late, markers>>

Mark(r) ==
    /\ prod[r].pc = "mark"
    /\ IF live.head = prod[r].head
       THEN Goes(r, "ok") /\ markers' = markers \cup {prod[r].head}
       ELSE Goes(r, "bad") /\ UNCHANGED markers
    /\ ProducerStep /\ UNCHANGED <<journal, late, pending, posts, faults>>

\* A run whose request job ended well fails its verification; one that passes
\* stays as it is.
Conclude(r) == prod[r].pc = "ok" /\ Goes(r, "failed") /\ ReadOnly

\* The job fails a read, is cancelled or times out.  A read that fails inside
\* claim_review_operation ends it well (`|| exit 0`).
StopProducer(r) ==
    /\ prod[r].pc \in Working /\ Fault
    /\ \/ Goes(r, "bad")
       \/ prod[r].pc = "claim" /\ Goes(r, "ok")
    /\ ProducerStep /\ UNCHANGED <<journal, late, pending, markers, posts>>

Produce(r) ==
    \/ Start(r) \/ Look(r) \/ Pend(r) \/ Defer(r) \/ RecordIntent(r) \/ Again(r)
    \/ Readback(r) \/ Fence(r) \/ ReadForClaim(r) \/ Claim(r) \/ AssertHead(r)
    \/ Post(r) \/ Mark(r)
----------------------------------------------------------------------------
(* Evidence for a continuation. *)

\* clean_old_review: the newest review of another head, and a usable one.
OldReviews(h) == {i \in DOMAIN reviews : reviews[i].head # h}
CleanOldReview(h, i) ==
    /\ i \in OldReviews(h) /\ reviews[i].ok
    /\ \A k \in OldReviews(h) : k <= i

\* Mutant: whatever became of the owner's job.
ValidIntentAny(h) == Has(Deferred(h))

\* validate_intent: the owner's request job succeeded and its first attempt failed.
ValidIntent(h) == Has(Deferred(h)) /\ prod[Record(Deferred(h)).by].pc \in {"failed", "rerun"}

\* unconsumed, as far as it reads the journal and as far as it reads GitHub.
Unclaimed(h, owner) == ~Has(Operation(h)) /\ ~Has(RerunClaim(owner))
Unconsumed(h, base, owner) ==
    /\ live = [head |-> h, base |-> base] /\ prod[owner].pc \in {"failed", "bad"}
    /\ ~Reviewed(h) /\ pending = NoRecord /\ h \notin markers

Continuable(h) ==
    LET intent == Record(Deferred(h))
    IN  /\ ValidIntent(h) /\ Unclaimed(h, intent.by)
        /\ Unconsumed(h, intent.base, intent.by)
        /\ \E i \in DOMAIN reviews : CleanOldReview(h, i)
----------------------------------------------------------------------------
(* A resume run, dispatched by locate or by the reconciler. *)

ResumeStep == UNCHANGED <<scene, markers, prod>>
ResumeRead == ResumeStep /\ UNCHANGED <<journal, late, pending, posts, faults>>
Moves(d, pc) == res' = [res EXCEPT ![d].pc = pc]
\* A run that may have claimed something is not a fresh one.
Fresh(d) ==
    /\ \A h \in Heads : Has(Operation(h)) => Record(Operation(h)).by # d
    /\ \A c \in late : c.record.by # d

Dispatch(d) ==
    /\ res[d].pc = "idle" /\ Fresh(d) /\ Continuable(live.head)
    /\ \E i \in DOMAIN reviews :
         /\ CleanOldReview(live.head, i)
         /\ res' = [res EXCEPT ![d] = [pc |-> "begin", head |-> live.head, old |-> i, snap |-> 0,
                                       owner |-> Record(Deferred(live.head)).by, base |-> live.base]]
    /\ ResumeRead

\* Mutant: the review must be one of the deferred head itself.
BeginOwnReview(d) ==
    LET h == res[d].head
        intent == Record(Deferred(h))
    IN  /\ res[d].pc = "begin"
        /\ IF /\ ValidIntent(h) /\ intent.by = res[d].owner
              /\ intent.base = res[d].base /\ live.base = res[d].base
              /\ Unclaimed(h, intent.by) /\ reviews[res[d].old].head = h
           THEN res' = [res EXCEPT ![d] = [@ EXCEPT !.pc = "check", !.snap = journal.head]]
           ELSE Moves(d, "idle")
        /\ ResumeRead

\* The snapshot of the journal, the intent, the protected base, the old review.
Begin(d) ==
    LET h == res[d].head
        intent == Record(Deferred(h))
    IN  /\ res[d].pc = "begin"
        /\ IF /\ ValidIntent(h) /\ intent.by = res[d].owner
              /\ intent.base = res[d].base /\ live.base = res[d].base
              /\ Unclaimed(h, intent.by) /\ CleanOldReview(h, res[d].old)
           THEN res' = [res EXCEPT ![d] = [@ EXCEPT !.pc = "check", !.snap = journal.head]]
           ELSE Moves(d, "idle")
        /\ ResumeRead

\* The live part of unconsumed, and the bindings again.
Check(d) ==
    /\ res[d].pc = "check"
    /\ Moves(d, IF Unconsumed(res[d].head, res[d].base, res[d].owner) THEN "claim" ELSE "idle")
    /\ ResumeRead

\* A confirmed commit only.
ClaimResume(d) ==
    /\ res[d].pc = "claim"
    /\ Create(res[d].snap, Operation(res[d].head), [by |-> d, base |-> res[d].base],
              Moves(d, "recheck") /\ Sound, Moves(d, "idle") /\ Sound, Moves(d, "idle") /\ Fault)
    /\ ResumeStep /\ UNCHANGED <<pending, posts>>

\* A consumed stale claim stays closed.
Recheck(d) ==
    /\ res[d].pc = "recheck"
    /\ Moves(d, IF live = [head |-> res[d].head, base |-> res[d].base] THEN "post" ELSE "idle")
    /\ ResumeRead

PostResume(d) ==
    /\ res[d].pc = "post" /\ Sends(d, res[d].head) /\ Moves(d, "idle")
    /\ \/ pending' = live.head /\ Sound
       \/ UNCHANGED pending /\ Fault
    /\ ResumeStep /\ UNCHANGED <<journal, late>>

StopResume(d) ==
    /\ res[d].pc # "idle" /\ Moves(d, "idle") /\ Fault
    /\ ResumeStep /\ UNCHANGED <<journal, late, pending, posts>>

Resume(d) ==
    Dispatch(d) \/ Begin(d) \/ Check(d) \/ ClaimResume(d) \/ Recheck(d) \/ PostResume(d)
----------------------------------------------------------------------------
GitHub == Move \/ Ask \/ Review \/ ClearPending \/ LateCommit \/ OtherCommit
Next ==
    \/ GitHub
    \/ \E r \in Producers :
         \/ ClaimRerun(r) \/ Rerun(r) \/ Queue(r) \/ Drop(r) \/ Produce(r)
         \/ Conclude(r) \/ StopProducer(r)
    \/ \E d \in Resumes : Resume(d) \/ StopResume(d)
Spec == Init /\ [][Next]_vars

\* A run in progress goes on, a lost commit is settled, and locate's triggers and
\* the ten-minute reconciler keep dispatching.
Fairness == WF_vars(LateCommit) /\ \A d \in Resumes : WF_vars(Resume(d))
FairSpec == Spec /\ Fairness
----------------------------------------------------------------------------
(* Properties. *)

ProducerPcs == Working \cup {"none", "queued", "ok", "bad", "failed", "rerun"}
ResumePcs == {"idle", "begin", "check", "claim", "recheck", "post"}

\* Types, and that one producer job runs at a time.
TypeOK ==
    /\ journal \in [head : Nat, rec : [Paths -> Records \cup {NoRecord}]]
    /\ late \subseteq [head : Nat, path : Paths, record : Records]
    /\ live \in [head : Heads, base : Nat]
    /\ reviews \in Seq([head : Heads, ok : BOOLEAN])
    /\ pending \in Heads \cup {NoRecord} /\ markers \subseteq Heads
    /\ prod \in [Producers -> [pc : ProducerPcs, head : Heads, base : Nat, snap : Nat,
                               tries : 0 .. Tries, defers : BOOLEAN]]
    /\ res \in [Resumes -> [pc : ResumePcs, head : Heads, owner : Producers \cup Resumes \cup {NoRecord},
                            base : Nat, old : Nat, snap : Nat]]
    /\ posts \in Seq([by : Producers \cup Resumes, head : Heads])
    /\ \A q, r \in Producers : prod[q].pc \in Working /\ prod[r].pc \in Working => q = r

\* One request for each head at most, however many runs, bases and pushes back to
\* it there are, and only by the run whose claim the journal holds.
RequestHasClaim ==
    \A i \in DOMAIN posts :
        /\ Has(Operation(posts[i].head)) /\ Record(Operation(posts[i].head)).by = posts[i].by
        /\ \A k \in DOMAIN posts : posts[k].head = posts[i].head => k = i

\* "A review is pending; awaiting head-bound evidence": a producer that ends well
\* instead of asking has left an intent, or a request has been claimed.
DeferredIsRecorded ==
    \A r \in Producers :
        prod[r].defers /\ prod[r].pc \in {"ok", "failed", "rerun"} => Recorded(prod[r].head)

\* A request is continued only from an intent of its head and base whose owner's
\* job passed its fence, and failed its verification since.
ContinuedWasDeferred ==
    \A h \in Heads :
        LET claim == Record(Operation(h))
            intent == Record(Deferred(h))
        IN  Has(Operation(h)) /\ claim.by \in Resumes =>
              /\ Has(Deferred(h)) /\ claim.base = intent.base
              /\ prod[intent.by].pc \in {"failed", "rerun"} /\ prod[intent.by].base = claim.base

\* The verifier's rerun and the continued request are decided on one snapshot: a
\* run whose rerun is claimed gets no request any more.
RerunExcludesRequest ==
    [][\A h \in Heads :
         ~Has(Operation(h)) /\ journal'.rec[Operation(h)] # NoRecord
           /\ journal'.rec[Operation(h)].by \in Resumes
         => ~Has(RerunClaim(Record(Deferred(h)).by))]_vars

\* Nothing wedges: what may be continued is, or stops being continuable.
Continues == \A h \in Heads : []<>~Continuable(h)
================================================================================
