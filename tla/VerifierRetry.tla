------------------------------ MODULE VerifierRetry ------------------------------
(***************************************************************************)
(* scripts/native_verifier_retry.py (LI-259) for one native verifier run:  *)
(* the helper seals a contract before attempt two, scheduled runs recover  *)
(* attempts 3 and 4 after a hosted runner was not acquired, and the        *)
(* receiver gates what such an attempt may verify.                         *)
(*                                                                         *)
(* A rerun POST whose answer is lost, like such a commit to the journal,   *)
(* may have taken effect, may take effect later, or never.  The workflow's *)
(* concurrency group executes one scheduled run at a time and drops the    *)
(* waiting run a newer one replaces, so run numbers execute in increasing  *)
(* order.                                                                  *)
(***************************************************************************)
EXTENDS Integers, FiniteSets, Sequences, ReviewJournal

CONSTANTS
    Total, Reserve, Cooldown,  \* POLICY: total_seconds, runtime_reserve_seconds,
                               \* cooldown_seconds[3 .. 4]
    MaxClock, MaxRuns,         \* bounds: time, scheduled runs,
    MaxOther, MaxTrouble       \*   unrelated commits; drifts, hidden runs and
                               \*   reruns by humans

MaxAttempt == 4
Slots == 3 .. MaxAttempt
Attempts == 1 .. MaxAttempt + 1   \* bound: one rerun beyond the last slot

ASSUME PolicyAssumption ==
    Total \in Nat /\ Reserve \in Nat /\ Cooldown \in [Slots -> Nat]
ASSUME BoundAssumption ==
    {MaxClock, MaxRuns, MaxOther, MaxTrouble} \subseteq Nat

VARIABLES
    clock,
    native,    \* the verifier run: [attempt, running]
    history,   \* its attempts: [start, at, conclusion, via], via the slot of the
               \* POST that started it or 0 for a human
    posts,     \* the rerun POSTs sent, in order: [slot, by]
    open,      \* indexes of those that may still take effect
    drift,     \* a live binding differs from the sealed contract
    sched,     \* creation times of the scheduler workflow's runs, by run number
    visible,   \* the run numbers the API lists
    w,         \* the executing, or the last executed, scheduled run
    helper,    \* the attempt-two helper: [pc, now, head, sealed]
    accepted,  \* the attempts the receiver has let through
    observed,  \* a scheduled run has read a drifted binding
    others, troubles

github == <<native, history, open, sched, visible, drift>>
vars == <<clock, journal, late, native, history, posts, open, drift, sched,
          visible, w, helper, accepted, observed, others, troubles>>

Deadline(seed) == seed.created + Total
Path(n) == IF n = 3 THEN "attempt-3" ELSE "attempt-4"
Paths == {"seed", "operation", "terminal", "attempt-3", "attempt-4"}

\* The records: the contract, the one event operation, the claim of a slot and
\* the end of the candidate.
SeedRecord == [created : Nat, frontier : Nat]
OperationRecord == [action : {"rerun"}]
ClaimRecord == [by : Nat, at : Nat, causeAt : Nat]
TerminalRecord ==
    [state : {"verified", "budget-exhausted", "contract-drift", "non-retryable-native-failure"}]
Records == SeedRecord \cup OperationRecord \cup ClaimRecord \cup TerminalRecord
ASSUME RecordAssumption == NoRecord \notin Records
Journals == [head : Nat, rec : [Paths -> Records \cup {NoRecord}]]

Idle(run) == [run |-> run, pc |-> "idle", now |-> 0, snap |-> NoRecord,
              attempt |-> 0, causeAt |-> 0]
----------------------------------------------------------------------------
Init ==
    /\ clock = 0
    /\ journal = [head |-> 0, rec |-> [p \in Paths |-> NoRecord]]
    /\ late = {} /\ posts = <<>> /\ open = {}
    /\ native = [attempt |-> 1, running |-> FALSE]
    /\ history = [n \in Attempts |->
                    [start |-> 0, at |-> 0, via |-> 0,
                     conclusion |-> IF n = 1 THEN "other" ELSE "none"]]
    /\ drift = FALSE /\ sched = <<>> /\ visible = {}
    /\ w = Idle(0)
    /\ helper = [pc |-> "seal", now |-> 0, head |-> 0, sealed |-> FALSE]
    /\ accepted = {} /\ observed = FALSE /\ others = 0 /\ troubles = 0

(* The journal. *)

\* A writer here does not tell a rejected commit from an unanswered one.
Commit(head, path, record, then, else) == Create(head, path, record, then, else, else)

LateCommit ==
    /\ \E c \in late : Resolve(c)
    /\ UNCHANGED <<clock, github, posts, w, helper, accepted, observed, others, troubles>>

OtherCommit ==
    /\ others < MaxOther /\ others' = others + 1
    /\ Advance
    /\ UNCHANGED <<clock, github, posts, w, helper, accepted, observed, troubles>>
----------------------------------------------------------------------------
(* Time, the verifier run, the scheduler workflow and the pull request. *)

Environment == UNCHANGED <<journal, late, posts, w, helper, accepted, observed, others>>

Tick ==
    /\ clock < MaxClock /\ clock' = clock + 1
    /\ Environment /\ UNCHANGED <<github, troubles>>

Rerun(via) ==
    /\ ~native.running /\ native.attempt + 1 \in Attempts
    /\ native' = [attempt |-> native.attempt + 1, running |-> TRUE]
    /\ history' = [history EXCEPT ![native.attempt + 1].start = clock,
                                  ![native.attempt + 1].via = via]

\* A rerun POST takes effect, or fails without having one.
Deliver ==
    /\ \E i \in open :
         /\ open' = open \ {i}
         /\ Rerun(posts[i].slot) \/ UNCHANGED <<native, history>>
    /\ Environment /\ UNCHANGED <<clock, drift, sched, visible, troubles>>

\* The attempt ends.  "infra": no hosted runner was acquired.
Complete ==
    /\ native.running /\ native' = [native EXCEPT !.running = FALSE]
    /\ \E c \in {"infra", "other", "success"} :
         history' = [history EXCEPT ![native.attempt].conclusion = c,
                                    ![native.attempt].at = clock]
    /\ Environment /\ UNCHANGED <<clock, open, drift, sched, visible, troubles>>

\* The scheduler workflow gets a run, which the API may list only later.
Schedule ==
    /\ Len(sched) < MaxRuns /\ sched' = Append(sched, clock)
    /\ visible' \in {visible, visible \cup {Len(sched) + 1}}
    /\ Environment /\ UNCHANGED <<clock, native, history, open, drift, troubles>>

Reveal ==
    /\ visible' = DOMAIN sched
    /\ Environment /\ UNCHANGED <<clock, native, history, open, drift, sched, troubles>>

\* A human reruns the verifier, the pull request or a controller changes or
\* changes back, or the API stops listing a run.
Trouble ==
    /\ troubles < MaxTrouble /\ troubles' = troubles + 1
    /\ \/ Rerun(0) /\ UNCHANGED <<drift, visible>>
       \/ drift' = ~drift /\ UNCHANGED <<native, history, visible>>
       \/ /\ \E n \in visible : visible' = visible \ {n}
          /\ UNCHANGED <<native, history, drift>>
    /\ Environment /\ UNCHANGED <<clock, open, sched>>
----------------------------------------------------------------------------
(* The helper: seal, claim the one event operation, seal again, POST. *)

HelperStep ==
    UNCHANGED <<clock, native, history, drift, sched, visible, w, accepted,
                observed, others, troubles>>
Goes(pc) == helper' = [helper EXCEPT !.pc = pc, !.now = 0, !.head = 0]
Latest(S) == IF S = {} THEN 0 ELSE CHOOSE n \in S : \A m \in S : m <= n
\* snapshot binds what is live, down to the review, its threads and the source
\* that sealed the attempt, as the contract has it; it raises or differs if not.
SnapshotHolds == ~drift
Unchanged == native = [attempt |-> 1, running |-> FALSE] /\ SnapshotHolds

\* seal reads the journal, for a candidate it grants recovery or not.
ReadForSeal ==
    /\ helper.pc = "seal"
    /\ \/ helper' = [helper EXCEPT !.pc = IF Unchanged THEN "create" ELSE "end",
                                   !.now = clock, !.head = journal.head]
       \/ Goes("read")
    /\ HelperStep /\ UNCHANGED <<journal, late, posts, open>>

CreateSeed ==
    /\ helper.pc = "create"
    /\ Commit(helper.head, "seed",
              [created |-> helper.now, frontier |-> Latest(visible)],
              helper' = [pc |-> "fence", now |-> 0, head |-> 0, sealed |-> TRUE], Goes("end"))
    /\ HelperStep /\ UNCHANGED <<posts, open>>

\* seal's snapshot after its commit.
Fence ==
    /\ helper.pc = "fence"
    /\ Goes(IF SnapshotHolds THEN "read" ELSE "end")
    /\ HelperStep /\ UNCHANGED <<journal, late, posts, open>>

\* claim_review_operation reads the branch and the unconsumed operation.
ReadForClaim ==
    /\ helper.pc = "read"
    /\ IF native.attempt = 1 /\ journal.rec["operation"] = NoRecord
       THEN helper' = [helper EXCEPT !.pc = "claim", !.head = journal.head]
       ELSE Goes("end")
    /\ HelperStep /\ UNCHANGED <<journal, late, posts, open>>

ClaimOperation ==
    /\ helper.pc = "claim"
    /\ Commit(helper.head, "operation", [action |-> "rerun"], Goes("reseal"), Goes("end"))
    /\ HelperStep /\ UNCHANGED <<posts, open>>

\* The second seal finds its own seed and revalidates the contract.
Reseal ==
    /\ helper.pc = "reseal"
    /\ Goes(IF helper.sealed /\ ~Unchanged THEN "end" ELSE "post")
    /\ HelperStep /\ UNCHANGED <<journal, late, posts, open>>

SendPost(slot, by) ==
    /\ posts' = Append(posts, [slot |-> slot, by |-> by])
    /\ open' = open \cup {Len(posts) + 1}

PostAttemptTwo ==
    /\ helper.pc = "post" /\ Goes("end") /\ SendPost(2, 0)
    /\ HelperStep /\ UNCHANGED <<journal, late>>

Helper ==
    \/ ReadForSeal \/ CreateSeed \/ Fence \/ ReadForClaim \/ ClaimOperation
    \/ Reseal \/ PostAttemptTwo
----------------------------------------------------------------------------
(* Evidence read from GitHub. *)

\* infrastructure_cause: a completed attempt of the bot without a runner.
Infra(n) == n \in {2, 3} /\ history[n].conclusion = "infra" /\ history[n].via # 0
InfraNow == Infra(native.attempt) /\ ~native.running

\* elected_claimant: the listed runs after the frontier, created in the seed's
\* window, must be consecutive; the first one past the cooldown owns the slot.
Inventory(seed) ==
    {n \in visible : n > seed.frontier /\ sched[n] \in seed.created .. Deadline(seed)}
Eligible(seed, slot, causeAt) ==
    {n \in Inventory(seed) : sched[n] >= causeAt + Cooldown[slot]}
\* Mutant: a gap in the listed run numbers is skipped.
ElectedAmongListed(run, seed, slot, causeAt) ==
    /\ run \in Eligible(seed, slot, causeAt)
    /\ \A n \in Eligible(seed, slot, causeAt) : run <= n

Elected(run, seed, slot, causeAt) ==
    /\ Inventory(seed) = seed.frontier + 1 .. seed.frontier + Cardinality(Inventory(seed))
    /\ run \in Eligible(seed, slot, causeAt)
    /\ \A n \in Eligible(seed, slot, causeAt) : run <= n

\* validate_claim
Valid(claim, seed, slot) ==
    /\ claim # NoRecord
    /\ seed.created <= claim.causeAt
    /\ claim.at >= claim.causeAt + Cooldown[slot]
    /\ claim.at + Reserve <= Deadline(seed)
----------------------------------------------------------------------------
(* A scheduled run: reconcile, recover, recover_bound. *)

RunStep ==
    UNCHANGED <<clock, native, history, drift, sched, visible, helper, accepted,
                others, troubles>>
ReadStep == RunStep /\ UNCHANGED <<journal, late, posts, open>>

Ends == w' = Idle(w.run)
Continue(pc) == w' = [w EXCEPT !.pc = pc]
Seed == w.snap.rec["seed"]
NextSlot == w.attempt + 1

\* terminal() through the journal snapshot with this head; whatever comes of
\* it, the run does no more for this candidate.
Terminate(head, state) ==
    Commit(head, "terminal", [state |-> state], Ends, Ends)

\* The next scheduled run that is not dropped begins.
Start ==
    /\ w.pc = "idle"
    /\ \E n \in w.run + 1 .. Len(sched) :
         w' = [Idle(n) EXCEPT !.pc = "journal", !.now = clock]
    /\ ReadStep /\ UNCHANGED observed

\* active_seed_runs and recover read the journal.
ReadJournal ==
    /\ w.pc = "journal"
    /\ IF journal.rec["seed"] # NoRecord /\ journal.rec["terminal"] = NoRecord
       THEN w' = [w EXCEPT !.pc = "observe", !.snap = journal]
       ELSE Ends
    /\ ReadStep /\ UNCHANGED observed

\* recover_bound up to its check of the slot's owner.
Observe ==
    LET n == native.attempt
        causeAt == history[n].at
        hopeless == causeAt + Cooldown[n + 1] + Reserve > Deadline(Seed)
        ripe == w.now >= causeAt + Cooldown[n + 1]
    IN  /\ w.pc = "observe"
        /\ \/ /\ n \in {2, 3} /\ w.snap.rec[Path(n + 1)] # NoRecord
              /\ Ends /\ UNCHANGED <<journal, late>>
           \/ /\ ~(n \in {2, 3} /\ w.snap.rec[Path(n + 1)] # NoRecord)
              /\ \/ /\ InfraNow /\ hopeless
                    /\ IF w.snap.rec["operation"] = NoRecord
                       THEN Ends /\ UNCHANGED <<journal, late>>
                       ELSE Terminate(w.snap.head, "budget-exhausted")
                 \/ /\ InfraNow /\ ~hopeless
                    /\ ripe /\ ~Elected(w.run, Seed, n + 1, causeAt)
                    /\ Ends /\ UNCHANGED <<journal, late>>
                 \/ /\ InfraNow => ~hopeless /\ (ripe => Elected(w.run, Seed, n + 1, causeAt))
                    /\ Continue("bind") /\ UNCHANGED <<journal, late>>
        /\ RunStep /\ UNCHANGED <<posts, open, observed>>

\* Mutant: a missing original claim closes the candidate.
BindStrict ==
    /\ w.pc = "bind"
    /\ IF w.snap.rec["operation"] = NoRecord THEN Terminate(w.snap.head, "contract-drift")
       ELSE Continue("decide") /\ UNCHANGED <<journal, late>>
    /\ RunStep /\ UNCHANGED <<posts, open, observed>>

\* The original claim and the live bindings.
Bind ==
    /\ w.pc = "bind"
    /\ \/ w.snap.rec["operation"] = NoRecord /\ Ends /\ UNCHANGED <<journal, late, observed>>
       \/ /\ w.snap.rec["operation"] # NoRecord /\ ~SnapshotHolds
          /\ observed' = TRUE /\ Terminate(w.snap.head, "contract-drift")
       \/ /\ w.snap.rec["operation"] # NoRecord /\ SnapshotHolds
          /\ Continue("decide") /\ UNCHANGED <<journal, late, observed>>
    /\ RunStep /\ UNCHANGED <<posts, open>>

\* CandidateClosed: recover closes the candidate with a fresh journal.
Closed(n) ==
    n > MaxAttempt \/ \E k \in 3 .. n : ~Valid(w.snap.rec[Path(k)], Seed, k)

\* The attempt as it is now: nothing to do, a terminal state, or a claim.
Decide ==
    LET n == native.attempt
        exhausted == n = MaxAttempt \/ w.now + Reserve > Deadline(Seed)
        claimable == /\ w.now >= history[n].at + Cooldown[n + 1]
                     /\ w.snap.rec[Path(n + 1)] = NoRecord
                     /\ Elected(w.run, Seed, n + 1, history[n].at)
    IN  /\ w.pc = "decide"
        /\ \/ n = 1 /\ Ends /\ UNCHANGED <<journal, late>>
           \/ n # 1 /\ Closed(n) /\ Terminate(journal.head, "contract-drift")
           \/ /\ n # 1 /\ ~Closed(n)
              /\ \/ native.running /\ Ends /\ UNCHANGED <<journal, late>>
                 \/ /\ ~native.running /\ history[n].conclusion = "success"
                    /\ Terminate(w.snap.head, "verified")
                 \/ /\ ~native.running /\ history[n].conclusion # "success" /\ exhausted
                    /\ Terminate(w.snap.head, "budget-exhausted")
                 \/ /\ ~native.running /\ history[n].conclusion # "success" /\ ~exhausted
                    /\ ~Infra(n) /\ Terminate(w.snap.head, "non-retryable-native-failure")
                 \/ /\ ~native.running /\ ~exhausted /\ Infra(n)
                    /\ IF claimable
                       THEN w' = [w EXCEPT !.pc = "claim", !.attempt = n, !.causeAt = history[n].at]
                       ELSE Ends
                    /\ UNCHANGED <<journal, late>>
        /\ RunStep /\ UNCHANGED <<posts, open, observed>>

Claim == [by |-> w.run, at |-> w.now, causeAt |-> w.causeAt]

\* The slot is consumed before the POST; an unconfirmed claim is only read back.
ClaimSlot ==
    /\ w.pc = "claim"
    /\ IF Valid(Claim, Seed, NextSlot)
       THEN Commit(w.snap.head, Path(NextSlot), Claim, Continue("recheck"), Ends)
       ELSE Terminate(journal.head, "contract-drift")
    /\ RunStep /\ UNCHANGED <<posts, open, observed>>

\* Original claim, contract, native cause and owner once more.
Recheck ==
    /\ w.pc = "recheck"
    /\ IF /\ SnapshotHolds /\ native.attempt = w.attempt /\ InfraNow
          /\ history[w.attempt].at = w.causeAt
          /\ Elected(w.run, Seed, NextSlot, w.causeAt)
       THEN Continue("readback") ELSE Ends
    /\ ReadStep /\ UNCHANGED observed

\* A fresh journal and a fresh clock.
Readback ==
    /\ w.pc = "readback"
    /\ IF /\ journal.rec[Path(NextSlot)] = Claim /\ journal.rec["terminal"] = NoRecord
          /\ clock + Reserve <= Deadline(Seed)
       THEN Continue("post") ELSE Ends
    /\ ReadStep /\ UNCHANGED observed

\* Mutant: an unanswered POST may be sent again.
PostRerunAgain ==
    /\ w.pc = "post" /\ (Ends \/ UNCHANGED w) /\ SendPost(NextSlot, w.run)
    /\ Len(posts) < 4
    /\ RunStep /\ UNCHANGED <<journal, late, observed>>

PostRerun ==
    /\ w.pc = "post" /\ Ends /\ SendPost(NextSlot, w.run)
    /\ RunStep /\ UNCHANGED <<journal, late, observed>>

\* The run fails a read, is cancelled or times out.
Cancel ==
    /\ w.pc # "idle" /\ Ends
    /\ ReadStep /\ UNCHANGED observed

ScheduledRun ==
    \/ Start \/ ReadJournal \/ Observe \/ Bind \/ Decide \/ ClaimSlot \/ Recheck
    \/ Readback \/ PostRerun \/ Cancel
----------------------------------------------------------------------------
\* Mutant: the triggering actor is not checked.
ReceiverAnyActor ==
    LET seed == journal.rec["seed"]
        claim(n) == journal.rec[Path(n)]
        n == native.attempt
    IN  /\ native.running /\ n \in Slots
        /\ seed # NoRecord /\ journal.rec["terminal"] = NoRecord
        /\ journal.rec["operation"] # NoRecord /\ SnapshotHolds
        /\ clock <= Deadline(seed)
        /\ \A k \in 3 .. n :
             /\ Valid(claim(k), seed, k)
             /\ Infra(k - 1) /\ history[k - 1].at = claim(k).causeAt
             /\ Elected(claim(k).by, seed, k, claim(k).causeAt)
        /\ history[n].start >= claim(n).at
        /\ accepted' = accepted \cup {n}
        /\ UNCHANGED <<clock, journal, late, github, posts, w, helper, observed,
                       others, troubles>>

\* receiver: attempt 3 or 4 asks whether it may verify.
Receiver ==
    LET seed == journal.rec["seed"]
        claim(n) == journal.rec[Path(n)]
        n == native.attempt
    IN  /\ native.running /\ n \in Slots
        /\ seed # NoRecord /\ journal.rec["terminal"] = NoRecord
        /\ journal.rec["operation"] # NoRecord /\ SnapshotHolds
        /\ clock <= Deadline(seed)
        /\ \A k \in 3 .. n :
             /\ Valid(claim(k), seed, k)
             /\ Infra(k - 1) /\ history[k - 1].at = claim(k).causeAt
             /\ Elected(claim(k).by, seed, k, claim(k).causeAt)
        /\ history[n].via # 0 /\ history[n].start >= claim(n).at
        /\ accepted' = accepted \cup {n}
        /\ UNCHANGED <<clock, journal, late, github, posts, w, helper, observed,
                       others, troubles>>

GitHub == LateCommit \/ OtherCommit \/ Tick \/ Deliver \/ Complete \/ Schedule \/ Reveal \/ Trouble

Next == GitHub \/ Helper \/ ScheduledRun \/ Receiver
Spec == Init /\ [][Next]_vars
----------------------------------------------------------------------------
(* Properties. *)

Runs == 0 .. MaxRuns
Times == 0 .. MaxClock
Helpers ==
    [pc : {"seal", "create", "fence", "read", "claim", "reseal", "post", "end"},
     now : Times, head : Nat, sealed : BOOLEAN]
ScheduledRuns ==
    [run : Runs, now : Times, snap : Journals \cup {NoRecord}, attempt : 0 .. MaxAttempt, causeAt : Times,
     pc : {"idle", "journal", "observe", "bind", "decide", "claim", "recheck", "readback", "post"}]
AttemptRecords ==
    [start : Times, at : Times, via : 0 .. MaxAttempt,
     conclusion : {"none", "infra", "other", "success"}]
Posts == [slot : 2 .. MaxAttempt, by : Runs]

\* Types, and what the journal's one writer per record leaves behind: one
\* commit per record and unrelated commit, never a rewritten path.
TypeOK ==
    /\ journal \in Journals
    /\ journal.head = others + Cardinality({p \in Paths : journal.rec[p] # NoRecord})
    /\ late \subseteq [head : Nat, path : Paths, record : Records]
    /\ native \in [attempt : Attempts, running : BOOLEAN] /\ history \in [Attempts -> AttemptRecords]
    /\ posts \in Seq(Posts) /\ open \subseteq DOMAIN posts
    /\ sched \in Seq(Times) /\ Len(sched) <= MaxRuns /\ visible \subseteq DOMAIN sched
    /\ w \in ScheduledRuns /\ w.run <= Len(sched) /\ helper \in Helpers
    /\ clock \in Times /\ {drift, observed} \subseteq BOOLEAN
    /\ accepted \subseteq Slots /\ others \in 0 .. MaxOther /\ troubles \in 0 .. MaxTrouble

\* A POST for attempt 3 or 4 is sent only by the run whose claim of that slot
\* is in the journal, and only one is ever sent for each attempt.
ConsumedBeforePost ==
    \A i \in DOMAIN posts :
        LET n == posts[i].slot
        IN  /\ n \in Slots => /\ journal.rec[Path(n)] # NoRecord
                              /\ journal.rec[Path(n)].by = posts[i].by
            /\ \A k \in DOMAIN posts : posts[k].slot = n => k = i

\* A slot belongs to the first scheduled run after the cooldown that exists,
\* listed or not: delayed visibility or deletion elects no successor.
OwnerIsFirst ==
    \A n \in Slots :
        LET claim == journal.rec[Path(n)]
            seed == journal.rec["seed"]
            due == {k \in DOMAIN sched : /\ k > seed.frontier
                                         /\ sched[k] >= claim.causeAt + Cooldown[n]}
        IN  claim # NoRecord => claim.by \in due /\ \A k \in due : claim.by <= k

\* An attempt the receiver accepts was started by the POST for its own slot,
\* never by a human or by a POST for another slot that arrived late.
AcceptedWasPosted == \A n \in accepted : history[n].via = n

\* Without drift, human reruns or unlisted runs no answer, lost or late, and no
\* handoff gap ever closes the candidate as drifted.
NoFalseDrift ==
    troubles = 0 /\ journal.rec["terminal"] # NoRecord
        => journal.rec["terminal"].state # "contract-drift"

\* Once the candidate is terminal no slot is claimed and no rerun of it posted.
TerminalIsFinal ==
    [][journal.rec["terminal"] # NoRecord =>
         /\ journal'.rec = journal.rec
         /\ \A i \in DOMAIN posts' \ DOMAIN posts : posts'[i].slot \notin Slots]_vars

\* docs/li259-native-verifier-retry.md: "Observed head, draft or closure drift
\* remains terminal after restore": no POST follows a sweep that saw drift.
DriftStaysTerminal ==
    [][observed => \A i \in DOMAIN posts' \ DOMAIN posts : posts'[i].slot \notin Slots]_vars
================================================================================
