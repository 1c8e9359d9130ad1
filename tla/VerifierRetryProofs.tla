---------------------------- MODULE VerifierRetryProofs ----------------------------
(***************************************************************************)
(* Proofs about VerifierRetry for any policy of delays and any bounds.     *)
(*                                                                         *)
(* The invariant says of every record, written or still on its way, what   *)
(* its writer had established (Good), and of the executing run what its    *)
(* snapshot, its claim and its readback still stand for.  Three facts      *)
(* carry it: a record is never overwritten, a commit lands only where its  *)
(* writer read the branch, and run numbers and attempts only grow.         *)
(***************************************************************************)
EXTENDS VerifierRetry, FiniteSetTheorems, WellFoundedInduction, TLAPS

Has(path) == journal.rec[path] # NoRecord
Reading == w.pc \in {"observe", "bind", "decide", "claim", "recheck", "readback", "post"}
Bound == w.pc \in {"decide", "claim", "recheck", "readback", "post"}
Claiming == w.pc \in {"claim", "recheck", "readback", "post"}
Owning == w.pc \in {"recheck", "readback", "post"}

\* t is not after the end of any rerun of the verifier.
Since(t) ==
    /\ t <= clock
    /\ \A a \in Attempts \ {1} : history[a].conclusion # "none" => t <= history[a].at

\* The runs a slot is due to, listed or not, once the contract is sealed.
Due(slot, causeAt) ==
    {k \in DOMAIN sched : /\ k > journal.rec["seed"].frontier
                          /\ sched[k] >= causeAt + Cooldown[slot]}
First(run, slot, causeAt) == run \in Due(slot, causeAt) /\ \A k \in Due(slot, causeAt) : run <= k

GoodClaim(slot, r) ==
    /\ Has("seed") /\ r \in ClaimRecord
    /\ Valid(r, journal.rec["seed"], slot) /\ First(r.by, slot, r.causeAt)
GoodTerminal(r) ==
    /\ Has("seed") /\ Has("operation") /\ r \in TerminalRecord
    /\ troubles = 0 => r.state # "contract-drift"
\* What is, or may still be, recorded at a path.
Good(path, r) ==
    /\ path = "seed" => r \in SeedRecord /\ Since(r.created)
    /\ path = "operation" => r \in OperationRecord
    /\ path = "terminal" => GoodTerminal(r)
    /\ \A n \in Slots : path = Path(n) => GoodClaim(n, r)

RecordInv == \A p \in Paths : Has(p) => Good(p, journal.rec[p])
LateInv == \A c \in late : c.head <= journal.head /\ Good(c.path, c.record)
ClosedInv ==
    Has("terminal") => \A c \in late : c.head = journal.head => c.path \notin {Path(3), Path(4)}
SnapInv ==
    /\ Reading =>
         /\ w.snap \in Journals /\ w.snap.head <= journal.head
         /\ \A p \in Paths : w.snap.rec[p] # NoRecord => journal.rec[p] = w.snap.rec[p]
         /\ w.snap.head = journal.head => w.snap.rec = journal.rec
         /\ w.snap.rec["seed"] # NoRecord /\ w.snap.rec["terminal"] = NoRecord
    /\ Bound => w.snap.rec["operation"] # NoRecord
HelperInv == helper.pc = "create" => Since(helper.now)
ClaimInv ==
    Claiming => /\ w.attempt \in {2, 3} /\ native.attempt >= w.attempt
                /\ GoodClaim(NextSlot, Claim)
OwnInv ==
    Owning => /\ journal.rec[Path(NextSlot)] = Claim /\ ~Has("terminal")
              /\ \A c \in late : c.path = "terminal" => c.head < journal.head
\* What a POST for a slot stands for: the attempt before it, the claim of its
\* sender, and that a later run which takes the slot up finds it consumed.
PostStands(n, by) ==
    /\ native.attempt >= n - 1
    /\ n = 2 => helper.pc = "end"
    /\ n \in Slots =>
         /\ Has(Path(n)) /\ journal.rec[Path(n)].by = by
         /\ by <= w.run /\ (by = w.run => w.pc = "idle")
         /\ Reading => w.snap.rec[Path(n)] # NoRecord
PostInv ==
    \A i \in DOMAIN posts :
       /\ PostStands(posts[i].slot, posts[i].by)
       /\ \A k \in DOMAIN posts : posts[k].slot = posts[i].slot => k = i
StartedBy(slot) == \E i \in DOMAIN posts \ open : posts[i].slot = slot
HistoryInv ==
    /\ \A a \in Attempts :
         /\ a > native.attempt => history[a].via = 0 /\ history[a].conclusion = "none"
         /\ history[a].via # 0 => history[a].via <= a /\ StartedBy(history[a].via)
         /\ \A b \in Attempts : a # b /\ history[a].via = history[b].via => history[a].via = 0
         /\ troubles = 0 /\ a \in 2 .. native.attempt => history[a].via # 0
    /\ troubles = 0 => ~drift
    /\ \A n \in accepted : n <= native.attempt /\ history[n].via = n
Inv ==
    /\ TypeOK /\ RecordInv /\ LateInv /\ ClosedInv /\ SnapInv /\ HelperInv
    /\ ClaimInv /\ OwnInv /\ PostInv /\ HistoryInv

JournalType ==
    /\ journal \in Journals
    /\ late \subseteq [head : Nat, path : Paths, record : Records]
JournalCount == journal.head = others + Cardinality({p \in Paths : Has(p)})
NativeType == native \in [attempt : Attempts, running : BOOLEAN] /\ history \in [Attempts -> AttemptRecords]
PostType == posts \in Seq(Posts) /\ open \subseteq DOMAIN posts
SchedType == sched \in Seq(Times) /\ Len(sched) <= MaxRuns /\ visible \subseteq DOMAIN sched
RunType == w \in ScheduledRuns /\ w.run <= Len(sched)
HelperType == helper \in Helpers
RestType ==
    /\ clock \in Times /\ drift \in BOOLEAN /\ observed \in BOOLEAN
    /\ accepted \subseteq Slots /\ others \in 0 .. MaxOther /\ troubles \in 0 .. MaxTrouble

LEMMA TypeParts ==
    TypeOK <=> /\ JournalType /\ JournalCount /\ NativeType /\ PostType /\ SchedType
               /\ RunType /\ HelperType /\ RestType
    BY DEF TypeOK, JournalType, JournalCount, NativeType, PostType, SchedType, RunType,
           HelperType, RestType, Has

LEMMA PathFacts ==
    /\ Paths = {"seed", "operation", "terminal", Path(3), Path(4)}
    /\ Path(3) = "attempt-3" /\ Path(4) = "attempt-4" /\ Slots = {3, 4}
    /\ \A n \in Slots : Path(n) \in Paths /\ Path(n) \notin {"seed", "operation", "terminal"}
    /\ \A m, n \in Slots : Path(m) = Path(n) => m = n
    BY DEF Path, Paths, Slots, MaxAttempt

LEMMA BoundFacts ==
    /\ MaxClock \in Nat /\ MaxRuns \in Nat /\ MaxOther \in Nat /\ MaxTrouble \in Nat
    /\ Total \in Nat /\ Reserve \in Nat /\ Cooldown[3] \in Nat /\ Cooldown[4] \in Nat
    BY BoundAssumption, PolicyAssumption, PathFacts

\* A set of the naturals up to n that is not empty has a greatest element.
LEMMA Greatest ==
    ASSUME NEW n \in Nat, NEW S \in SUBSET (1 .. n), S # {}
    PROVE  \E m \in S : \A k \in S : k <= m
<1> DEFINE Bounds == {u \in Nat : \A k \in S : k <= u}
<1>1. n \in Bounds /\ Bounds \subseteq Nat  OBVIOUS
<1>2. PICK u \in Bounds : \A v \in Bounds : <<v, u>> \notin OpToRel(<, Nat)
  <2>1. Bounds # {}  BY <1>1
  <2> HIDE DEF Bounds
  <2> QED  BY <1>1, <2>1, NatLessThanWellFounded, WFMin
<1>3. ASSUME NEW v \in Bounds PROVE u <= v
  <2>1. u \in Nat /\ v \in Nat  BY <1>1
  <2>2. v < u => <<v, u>> \in OpToRel(<, Nat)  BY <2>1, Zenon DEF OpToRel
  <2>3. ~(v < u)  BY <1>2, <2>2
  <2> QED  BY <2>1, <2>3
<1>4. u \in S
  <2>1. PICK k \in S : TRUE  OBVIOUS
  <2> SUFFICES ASSUME u \notin S PROVE FALSE  OBVIOUS
  <2>2. k \in Nat /\ k <= u /\ k # u /\ u - 1 \in Nat  BY <2>1
  <2>3. u - 1 \in Bounds  BY <2>2
  <2> QED  BY <1>3, <2>2, <2>3
<1> QED  BY <1>4

LEMMA LatestIsListed ==
    ASSUME SchedType
    PROVE  Latest(visible) \in Nat
<1>1. CASE visible = {}  BY <1>1 DEF Latest
<1>2. CASE visible # {}
  <2>1. Len(sched) \in Nat /\ visible \in SUBSET (1 .. Len(sched))  BY DEF SchedType
  <2>2. \E m \in visible : \A k \in visible : k <= m  BY <1>2, <2>1, Greatest
  <2>3. (CHOOSE n \in visible : \A k \in visible : k <= n) \in visible  BY <2>2, Zenon
  <2>4. Latest(visible) \in visible  BY <1>2, <2>3, Zenon DEF Latest
  <2>5. visible \subseteq Nat  BY <2>1
  <2> QED  BY <2>4, <2>5, Zenon
<1> QED  BY <1>1, <1>2
----------------------------------------------------------------------------
(* Journal: what a write of any kind does. *)

\* What Create does to the journal, whatever its writer learns.
Writes(head, path, record) ==
    \/ Lands(head, path) /\ Put(path, record) /\ UNCHANGED late
    \/ UNCHANGED <<journal, late>>
    \/ /\ Lands(head, path) /\ UNCHANGED journal
       /\ late' = late \cup {[head |-> head, path |-> path, record |-> record]}

\* Who writes what, and at the branch head it read.
SeedWrite(head, path, record) ==
    /\ helper.pc = "create" /\ head = helper.head /\ path = "seed"
    /\ record = [created |-> helper.now, frontier |-> Latest(visible)]
OperationWrite(head, path, record) ==
    /\ helper.pc = "claim" /\ head = helper.head /\ path = "operation"
    /\ record = [action |-> "rerun"]
TerminalWrite(head, path, record) ==
    /\ w.pc \in {"observe", "bind", "decide", "claim"} /\ head \in {journal.head, w.snap.head}
    /\ w' = Idle(w.run) /\ path = "terminal"
    /\ w.snap.rec["operation"] # NoRecord
    /\ \/ record \in {[state |-> s] : s \in {"verified", "budget-exhausted", "non-retryable-native-failure"}}
       \/ /\ record = [state |-> "contract-drift"]
          /\ \/ ~SnapshotHolds
             \/ w.pc = "decide" /\ native.attempt # 1 /\ Closed(native.attempt)
             \/ w.pc = "claim" /\ ~Valid(Claim, Seed, NextSlot)
ClaimWrite(head, path, record) ==
    /\ w.pc = "claim" /\ head = w.snap.head /\ path = Path(NextSlot) /\ record = Claim
MayWrite(head, path, record) ==
    \/ SeedWrite(head, path, record) \/ OperationWrite(head, path, record)
    \/ TerminalWrite(head, path, record) \/ ClaimWrite(head, path, record)

JournalStep ==
    \/ UNCHANGED <<journal, late>>
    \/ \E c \in late : Resolve(c)
    \/ OtherCommit
    \/ \E head, path, record : MayWrite(head, path, record) /\ Writes(head, path, record)

LEMMA TerminateWrites ==
    ASSUME NEW head, NEW state, Terminate(head, state)
    PROVE  Writes(head, "terminal", [state |-> state]) /\ Ends
    BY DEF Terminate, Commit, Create, Writes

LEMMA StepOfJournal == ASSUME Inv, [Next]_vars PROVE JournalStep
<1>1. CASE GitHub
      BY <1>1 DEF GitHub, LateCommit, Tick, Deliver, Complete, Schedule, Reveal,
                  Trouble, Environment, JournalStep
<1>2. CASE UNCHANGED vars \/ Receiver  BY <1>2 DEF Receiver, vars, JournalStep
<1>3. CASE Helper
  <2>1. CASE CreateSeed
        BY <2>1 DEF CreateSeed, Commit, Create, Writes, SeedWrite, MayWrite, JournalStep
  <2>2. CASE ClaimOperation
        BY <2>2 DEF ClaimOperation, Commit, Create, Writes, OperationWrite, MayWrite, JournalStep
  <2>3. CASE ReadForSeal \/ Fence \/ ReadForClaim \/ Reseal \/ PostAttemptTwo
        BY <2>3 DEF ReadForSeal, Fence, ReadForClaim, Reseal, PostAttemptTwo, JournalStep
  <2> QED  BY <1>3, <2>1, <2>2, <2>3 DEF Helper
<1>4. ASSUME NEW head, NEW state, Terminate(head, state), TerminalWrite(head, "terminal", [state |-> state])
      PROVE  JournalStep
      BY <1>4, TerminateWrites DEF MayWrite, JournalStep
<1>5. CASE ScheduledRun
  <2>1. CASE Observe
    <3>1. UNCHANGED <<journal, late>> \/ /\ w.pc = "observe" /\ w.snap.rec["operation"] # NoRecord
                                         /\ Terminate(w.snap.head, "budget-exhausted")
          BY <2>1 DEF Observe
    <3>2. Terminate(w.snap.head, "budget-exhausted") => Ends  BY TerminateWrites
    <3> QED  BY <1>4, <3>1, <3>2 DEF JournalStep, TerminalWrite, Ends
  <2>2. CASE Bind
    <3>1. \/ UNCHANGED <<journal, late>>
          \/ /\ w.pc = "bind" /\ w.snap.rec["operation"] # NoRecord /\ ~SnapshotHolds
             /\ Terminate(w.snap.head, "contract-drift")
          BY <2>2 DEF Bind
    <3>2. Terminate(w.snap.head, "contract-drift") => Ends  BY TerminateWrites
    <3> QED  BY <1>4, <3>1, <3>2 DEF JournalStep, TerminalWrite, Ends
  <2>3. CASE Decide
    <3>1. w.pc = "decide" /\ w.snap.rec["operation"] # NoRecord  BY <2>3 DEF Decide, Inv, SnapInv, Bound
    <3>2. \/ UNCHANGED <<journal, late>>
          \/ native.attempt # 1 /\ Closed(native.attempt) /\ Terminate(journal.head, "contract-drift")
          \/ \E s \in {"verified", "budget-exhausted", "non-retryable-native-failure"} :
               Terminate(w.snap.head, s)
          BY <2>3 DEF Decide
    <3>3. ASSUME NEW head, NEW s, Terminate(head, s) PROVE w' = Idle(w.run)
          BY <3>3, TerminateWrites DEF Ends
    <3>4. CASE native.attempt # 1 /\ Closed(native.attempt) /\ Terminate(journal.head, "contract-drift")
          BY <1>4, <3>1, <3>3, <3>4 DEF TerminalWrite
    <3>5. ASSUME NEW s \in {"verified", "budget-exhausted", "non-retryable-native-failure"},
                 Terminate(w.snap.head, s)
          PROVE  JournalStep
          BY <1>4, <3>1, <3>3, <3>5 DEF TerminalWrite
    <3> QED  BY <3>2, <3>4, <3>5 DEF JournalStep
  <2>4. CASE ClaimSlot
    <3>1. w.pc = "claim" /\ w.snap.rec["operation"] # NoRecord
          BY <2>4 DEF ClaimSlot, Inv, SnapInv, Bound
    <3>2. CASE Valid(Claim, Seed, NextSlot)
      <4>1. Writes(w.snap.head, Path(NextSlot), Claim)
            BY <2>4, <3>2 DEF ClaimSlot, Commit, Create, Writes
      <4>2. ClaimWrite(w.snap.head, Path(NextSlot), Claim)  BY <3>1 DEF ClaimWrite
      <4> QED  BY <4>1, <4>2 DEF MayWrite, JournalStep
    <3>3. CASE ~Valid(Claim, Seed, NextSlot)
      <4>1. Terminate(journal.head, "contract-drift")  BY <2>4, <3>3 DEF ClaimSlot
      <4>2. w' = Idle(w.run)  BY <4>1, TerminateWrites DEF Ends
      <4> QED  BY <1>4, <3>1, <3>3, <4>1, <4>2 DEF TerminalWrite
    <3> QED  BY <3>2, <3>3
  <2>5. CASE Start \/ ReadJournal \/ Recheck \/ Readback \/ PostRerun \/ Cancel
        BY <2>5 DEF Start, ReadJournal, Recheck, Readback, PostRerun, Cancel, ReadStep, JournalStep
  <2> QED  BY <1>5, <2>1, <2>2, <2>3, <2>4, <2>5 DEF ScheduledRun
<1> QED  BY <1>1, <1>2, <1>3, <1>5 DEF Next

----------------------------------------------------------------------------
(* What a writer has established. *)

LEMMA RunFields ==
    ASSUME RunType
    PROVE  /\ w.run \in Nat /\ w.now \in Nat /\ w.causeAt \in Nat /\ w.attempt \in 0 .. 4
           /\ w.pc \in {"idle", "journal", "observe", "bind", "decide", "claim", "recheck",
                        "readback", "post"}
    BY BoundFacts DEF RunType, ScheduledRuns, Runs, Times, MaxAttempt

LEMMA PostFields ==
    ASSUME PostType
    PROVE  /\ Len(posts) \in Nat /\ DOMAIN posts = 1 .. Len(posts) /\ open \subseteq DOMAIN posts
           /\ \A i \in DOMAIN posts : posts[i].slot \in 2 .. 4 /\ posts[i].by \in Nat
<1>1. \A i \in DOMAIN posts : posts[i] \in Posts  BY DEF PostType
<1>2. ASSUME NEW p \in Posts PROVE p.slot \in 2 .. 4 /\ p.by \in Nat
      BY BoundFacts DEF Posts, Runs, MaxAttempt
<1> QED  BY <1>1, <1>2 DEF PostType

LEMMA ClaimIsRecord == ASSUME RunType PROVE Claim \in ClaimRecord
    BY RunFields DEF Claim, ClaimRecord

\* Only the rerun POSTs start attempts when no human does: each its own.
LEMMA OwnPost ==
    ASSUME NativeType, PostType, HistoryInv, troubles = 0
    PROVE  /\ native.attempt \in 1 .. 4
           /\ \A k \in 2 .. native.attempt : StartedBy(k)
<1> DEFINE via(a) == history[a].via
<1>1. native.attempt \in 1 .. 5 /\ Attempts = 1 .. 5
      BY DEF NativeType, Attempts, MaxAttempt
<1>2. \A a \in 2 .. native.attempt : a \in Attempts /\ via(a) # 0 /\ via(a) <= a /\ StartedBy(via(a))
      BY <1>1 DEF HistoryInv
<1>3. \A a \in 2 .. native.attempt : via(a) \in 2 .. 4
  <2>1. \A i \in DOMAIN posts : posts[i].slot \in 2 .. 4  BY PostFields
  <2> QED  BY <1>2, <2>1 DEF StartedBy
<1>4. \A a, b \in 2 .. native.attempt : a # b => via(a) # via(b)  BY <1>1, <1>2 DEF HistoryInv
<1> HIDE DEF via
<1>5. \A k \in 2 .. native.attempt : k <= 4 => via(k) = k
  <2>1. 2 <= native.attempt => via(2) = 2  BY <1>1, <1>2, <1>3
  <2>2. 3 <= native.attempt => via(3) = 3  BY <1>1, <1>2, <1>3, <1>4, <2>1
  <2>3. 4 <= native.attempt => via(4) = 4  BY <1>1, <1>2, <1>3, <1>4, <2>1, <2>2
  <2> QED  BY <1>1, <2>1, <2>2, <2>3
<1>6. native.attempt # 5
  <2> SUFFICES ASSUME native.attempt = 5 PROVE FALSE  OBVIOUS
  <2>1. via(2) = 2 /\ via(3) = 3 /\ via(4) = 4 /\ via(5) \in 2 .. 4  BY <1>3, <1>5
  <2> QED  BY <1>4, <2>1
<1>7. native.attempt \in 1 .. 4 /\ \A k \in 2 .. native.attempt : k <= 4  BY <1>1, <1>6
<1> QED  BY <1>2, <1>5, <1>7

\* Without trouble no claim is missing or invalid when a run decides.
LEMMA NotClosed ==
    ASSUME Inv, troubles = 0, Reading
    PROVE  ~Closed(native.attempt)
<1> DEFINE n == native.attempt
<1>1. NativeType /\ PostType  BY TypeParts DEF Inv
<1>2. n \in 1 .. 4 /\ \A k \in 2 .. n : StartedBy(k)  BY <1>1, OwnPost DEF Inv
<1>3. SnapInv /\ RecordInv /\ PostInv  BY DEF Inv
<1> HIDE DEF n
<1>4. ASSUME NEW k \in 3 .. n PROVE Valid(w.snap.rec[Path(k)], Seed, k)
  <2>1. k \in Slots /\ k \in 2 .. n  BY <1>2, PathFacts
  <2>2. PICK i \in DOMAIN posts : posts[i].slot = k  BY <1>2, <2>1 DEF StartedBy
  <2>3. w.snap.rec[Path(k)] # NoRecord  BY <1>3, <2>1, <2>2 DEF PostInv, PostStands
  <2>4. /\ journal.rec[Path(k)] = w.snap.rec[Path(k)] /\ journal.rec["seed"] = Seed
        /\ Has(Path(k))
        BY <1>3, <2>1, <2>3, PathFacts DEF SnapInv, Seed, Has
  <2>5. GoodClaim(k, journal.rec[Path(k)])  BY <1>3, <2>1, <2>4, PathFacts DEF RecordInv, Good
  <2> QED  BY <2>4, <2>5 DEF GoodClaim
<1>5. ~(n > MaxAttempt)  BY <1>2 DEF MaxAttempt
<1> QED  BY <1>4, <1>5 DEF Closed, n

LEMMA SeedWriteGood ==
    ASSUME Inv, NEW head, NEW path, NEW record, SeedWrite(head, path, record)
    PROVE  record \in SeedRecord /\ Good(path, record)
<1>1. Latest(visible) \in Nat  BY TypeParts, LatestIsListed DEF Inv
<1>2. helper.now \in Nat  BY TypeParts, BoundFacts DEF Inv, HelperType, Helpers, Times
<1>3. record \in SeedRecord /\ record.created = helper.now
      BY <1>1, <1>2 DEF SeedWrite, SeedRecord
<1>4. Since(helper.now) /\ path = "seed"  BY DEF Inv, HelperInv, SeedWrite
<1> QED  BY <1>3, <1>4, PathFacts DEF Good

LEMMA TerminalWriteGood ==
    ASSUME Inv, NEW head, NEW path, NEW record, TerminalWrite(head, path, record)
    PROVE  record \in TerminalRecord /\ Good(path, record)
<1>1. Reading  BY DEF TerminalWrite, Reading
<1>2. /\ w.snap.rec["seed"] # NoRecord /\ w.snap.rec["operation"] # NoRecord
      /\ path = "terminal"
      BY <1>1 DEF TerminalWrite, Inv, SnapInv
<1>3. Has("seed") /\ Has("operation")  BY <1>1, <1>2, PathFacts DEF Inv, SnapInv, Has
<1>4. record \in TerminalRecord  BY DEF TerminalWrite, TerminalRecord
<1>5. troubles = 0 => record.state # "contract-drift"
  <2> SUFFICES ASSUME troubles = 0 PROVE record.state # "contract-drift"  OBVIOUS
  <2>1. SnapshotHolds  BY DEF Inv, HistoryInv, SnapshotHolds
  <2>2. ~Closed(native.attempt)  BY <1>1, NotClosed
  <2>3. w.pc = "claim" => Valid(Claim, Seed, NextSlot)
    <3> SUFFICES ASSUME w.pc = "claim" PROVE Valid(Claim, Seed, NextSlot)  OBVIOUS
    <3>1. GoodClaim(NextSlot, Claim)  BY DEF Inv, ClaimInv, Claiming
    <3>2. journal.rec["seed"] = Seed  BY <1>1, <1>2, PathFacts DEF Inv, SnapInv, Seed
    <3> QED  BY <3>1, <3>2 DEF GoodClaim
  <2>4. record \in {[state |-> s] : s \in {"verified", "budget-exhausted", "non-retryable-native-failure"}}
        BY <2>1, <2>2, <2>3 DEF TerminalWrite
  <2> QED  BY <2>4
<1> QED  BY <1>2, <1>3, <1>4, <1>5, PathFacts DEF Good, GoodTerminal

LEMMA ClaimWriteGood ==
    ASSUME Inv, NEW head, NEW path, NEW record, ClaimWrite(head, path, record)
    PROVE  /\ NextSlot \in Slots /\ path = Path(NextSlot) /\ record \in ClaimRecord
           /\ Good(path, record)
           /\ head = journal.head => ~Has("terminal")
<1>1. w.pc = "claim" /\ path = Path(NextSlot) /\ record = Claim /\ head = w.snap.head
      BY DEF ClaimWrite
<1>2. w.attempt \in {2, 3} /\ GoodClaim(NextSlot, Claim)  BY <1>1 DEF Inv, ClaimInv, Claiming
<1>3. NextSlot \in Slots  BY <1>2, PathFacts DEF NextSlot
<1>4. Claim \in ClaimRecord  BY <1>2 DEF GoodClaim
<1>5. \A n \in Slots : Path(NextSlot) = Path(n) => n = NextSlot  BY <1>3, PathFacts
<1>6. Good(path, record)  BY <1>1, <1>2, <1>3, <1>5, PathFacts DEF Good
<1>7. head = journal.head => ~Has("terminal")  BY <1>1 DEF Inv, SnapInv, Reading, Has
<1> QED  BY <1>1, <1>3, <1>4, <1>6, <1>7

\* A step and the records: none, an unrelated commit, one that lands, or one
\* that is left open.
Claims == {Path(3), Path(4)}
NoRecordStep == UNCHANGED journal /\ late' \subseteq late
UnrelatedStep == OtherCommit
LandingStep(path, record) ==
    /\ Put(path, record) /\ ~Has(path) /\ Good(path, record) /\ late' \subseteq late
    /\ Has("terminal") => path \notin Claims
    /\ path = "terminal" =>
         \/ w' = Idle(w.run)
         \/ \E c \in late : c.path = "terminal" /\ c.head = journal.head
OpenStep(path, record) ==
    /\ UNCHANGED journal
    /\ late' = late \cup {[head |-> journal.head, path |-> path, record |-> record]}
    /\ ~Has(path) /\ Good(path, record)
    /\ Has("terminal") => path \notin Claims
    /\ path = "terminal" => w' = Idle(w.run)
RecordStep ==
    \/ NoRecordStep \/ UnrelatedStep
    \/ \E path \in Paths, record \in Records : LandingStep(path, record) \/ OpenStep(path, record)

LEMMA MayWriteFacts ==
    ASSUME Inv, NEW head, NEW path, NEW record, MayWrite(head, path, record)
    PROVE  /\ path \in Paths /\ record \in Records /\ Good(path, record)
           /\ head = journal.head /\ Has("terminal") => path \notin Claims
           /\ path = "terminal" => w' = Idle(w.run)
<1>1. CASE SeedWrite(head, path, record)
      BY <1>1, SeedWriteGood, PathFacts DEF SeedWrite, Records, Claims
<1>2. CASE OperationWrite(head, path, record)
  <2>1. path = "operation" /\ record \in OperationRecord  BY <1>2 DEF OperationWrite, OperationRecord
  <2> QED  BY <2>1, PathFacts DEF Records, Claims, Good
<1>3. CASE TerminalWrite(head, path, record)
      BY <1>3, TerminalWriteGood, PathFacts DEF TerminalWrite, Records, Claims
<1>4. CASE ClaimWrite(head, path, record)
      BY <1>4, ClaimWriteGood, PathFacts DEF Records, Claims
<1> QED  BY <1>1, <1>2, <1>3, <1>4 DEF MayWrite

LEMMA StepOfRecords == ASSUME Inv, [Next]_vars PROVE RecordStep
<1>1. JournalStep  BY StepOfJournal
<1>2. CASE UNCHANGED <<journal, late>>  BY <1>2 DEF RecordStep, NoRecordStep
<1>3. CASE OtherCommit  BY <1>3 DEF RecordStep, UnrelatedStep
<1>4. ASSUME NEW c \in late, Resolve(c) PROVE RecordStep
  <2>1. c.path \in Paths /\ c.record \in Records /\ Good(c.path, c.record)
        BY TypeParts DEF Inv, JournalType, LateInv
  <2>2. CASE ~Lands(c.head, c.path)  BY <1>4, <2>2 DEF Resolve, RecordStep, NoRecordStep
  <2>3. CASE Lands(c.head, c.path)
    <3>1. Put(c.path, c.record) /\ late' \subseteq late /\ ~Has(c.path) /\ c.head = journal.head
          BY <1>4, <2>3 DEF Resolve, Lands, Has
    <3>2. Has("terminal") => c.path \notin Claims  BY <3>1 DEF Inv, ClosedInv, Claims
    <3>3. LandingStep(c.path, c.record)  BY <2>1, <3>1, <3>2 DEF LandingStep
    <3> QED  BY <2>1, <3>3 DEF RecordStep
  <2> QED  BY <2>2, <2>3
<1>5. ASSUME NEW head, NEW path, NEW record, MayWrite(head, path, record), Writes(head, path, record)
      PROVE  RecordStep
  <2>1. /\ path \in Paths /\ record \in Records /\ Good(path, record)
        /\ head = journal.head /\ Has("terminal") => path \notin Claims
        /\ path = "terminal" => w' = Idle(w.run)
        BY <1>5, MayWriteFacts
  <2>2. CASE UNCHANGED <<journal, late>>  BY <1>2, <2>2
  <2>3. CASE Lands(head, path) /\ Put(path, record) /\ UNCHANGED late
    <3>1. LandingStep(path, record)  BY <2>1, <2>3 DEF LandingStep, Lands, Has
    <3> QED  BY <2>1, <3>1 DEF RecordStep
  <2>4. CASE /\ Lands(head, path) /\ UNCHANGED journal
             /\ late' = late \cup {[head |-> head, path |-> path, record |-> record]}
    <3>1. OpenStep(path, record)  BY <2>1, <2>4 DEF OpenStep, Lands, Has
    <3> QED  BY <2>1, <3>1 DEF RecordStep
  <2> QED  BY <1>5, <2>2, <2>3, <2>4 DEF Writes
<1> QED  BY <1>1, <1>2, <1>3, <1>4, <1>5 DEF JournalStep

----------------------------------------------------------------------------
(* What only grows. *)

RecordsStay ==
    /\ journal.head \in Nat /\ journal'.head \in Nat /\ journal.head <= journal'.head
    /\ \A p \in Paths : Has(p) => Has(p)' /\ journal'.rec[p] = journal.rec[p]
    /\ journal'.head = journal.head => journal'.rec = journal.rec

LEMMA PutFacts ==
    ASSUME JournalType, NEW path \in Paths, NEW record \in Records, Put(path, record)
    PROVE  /\ journal' \in Journals /\ journal.head \in Nat /\ journal'.head = journal.head + 1
           /\ journal'.rec[path] = record /\ record # NoRecord
           /\ \A p \in Paths \ {path} : journal'.rec[p] = journal.rec[p]
    BY RecordAssumption DEF JournalType, Journals, Put

LEMMA AdvanceFacts ==
    ASSUME JournalType, Advance
    PROVE  /\ journal' \in Journals /\ journal.head \in Nat /\ journal'.head = journal.head + 1
           /\ journal'.rec = journal.rec /\ UNCHANGED late
    BY DEF JournalType, Journals, Advance

LEMMA JournalStepType == ASSUME Inv, [Next]_vars PROVE JournalType' /\ RecordsStay
<1>1. JournalType /\ RecordStep /\ journal.head \in Nat
      BY TypeParts, StepOfRecords DEF Inv, JournalType, Journals
<1>2. CASE NoRecordStep  BY <1>1, <1>2 DEF NoRecordStep, JournalType, RecordsStay, Has
<1>3. CASE UnrelatedStep
  <2>1. Advance  BY <1>3 DEF UnrelatedStep, OtherCommit
  <2> QED  BY <1>1, <2>1, AdvanceFacts DEF JournalType, RecordsStay, Has
<1>4. ASSUME NEW path \in Paths, NEW record \in Records, LandingStep(path, record)
      PROVE  JournalType' /\ RecordsStay
  <2>1. Put(path, record) /\ ~Has(path) /\ late' \subseteq late  BY <1>4 DEF LandingStep
  <2>2. /\ journal' \in Journals /\ journal.head \in Nat /\ journal'.head = journal.head + 1
        /\ \A p \in Paths \ {path} : journal'.rec[p] = journal.rec[p]
        BY <1>1, <2>1, PutFacts
  <2> QED  BY <1>1, <2>1, <2>2 DEF JournalType, RecordsStay, Has
<1>5. ASSUME NEW path \in Paths, NEW record \in Records, OpenStep(path, record)
      PROVE  JournalType' /\ RecordsStay
  <2>1. UNCHANGED journal /\ late' = late \cup {[head |-> journal.head, path |-> path, record |-> record]}
        BY <1>5 DEF OpenStep
  <2>2. [head |-> journal.head, path |-> path, record |-> record]
          \in [head : Nat, path : Paths, record : Records]
        BY <1>1
  <2> QED  BY <1>1, <2>1, <2>2 DEF JournalType, RecordsStay, Has
<1> QED  BY <1>1, <1>2, <1>3, <1>4, <1>5 DEF RecordStep

LEMMA OthersStep == ASSUME [Next]_vars PROVE OtherCommit \/ UNCHANGED others
<1>1. CASE GitHub
      BY <1>1 DEF GitHub, LateCommit, Tick, Deliver, Complete, Schedule, Reveal, Trouble, Environment
<1>2. CASE Helper
      BY <1>2 DEF Helper, ReadForSeal, CreateSeed, Fence, ReadForClaim, ClaimOperation, Reseal,
                  PostAttemptTwo, HelperStep
<1>3. CASE ScheduledRun
      BY <1>3 DEF ScheduledRun, Start, ReadJournal, Observe, Bind, Decide, ClaimSlot, Recheck,
                  Readback, PostRerun, Cancel, ReadStep, RunStep
<1>4. CASE Receiver \/ UNCHANGED vars  BY <1>4 DEF Receiver, vars
<1> QED  BY <1>1, <1>2, <1>3, <1>4 DEF Next

LEMMA PathsFinite == \A S \in SUBSET Paths : IsFiniteSet(S) /\ Cardinality(S) \in Nat
<1>1. IsFiniteSet({"seed"}) /\ IsFiniteSet({"operation"}) /\ IsFiniteSet({"terminal"})
      /\ IsFiniteSet({"attempt-3"}) /\ IsFiniteSet({"attempt-4"})
      BY FS_Singleton
<1>2. IsFiniteSet(Paths)
  <2>1. Paths = ((({"seed"} \cup {"operation"}) \cup {"terminal"}) \cup {"attempt-3"}) \cup {"attempt-4"}
        BY DEF Paths
  <2>2. IsFiniteSet({"seed"} \cup {"operation"})  BY <1>1, FS_Union
  <2>3. IsFiniteSet(({"seed"} \cup {"operation"}) \cup {"terminal"})  BY <1>1, <2>2, FS_Union
  <2>4. IsFiniteSet((({"seed"} \cup {"operation"}) \cup {"terminal"}) \cup {"attempt-3"})
        BY <1>1, <2>3, FS_Union
  <2> QED  BY <1>1, <2>1, <2>4, FS_Union
<1> QED  BY <1>2, FS_Subset, FS_CardinalityType

LEMMA JournalCountStep == ASSUME Inv, [Next]_vars PROVE JournalCount'
<1> DEFINE recorded == {p \in Paths : Has(p)}
<1>1. JournalType /\ JournalCount /\ RecordStep /\ others \in Nat /\ journal.head \in Nat
      BY TypeParts, StepOfRecords, BoundFacts DEF Inv, RestType, JournalType, Journals
<1>2. CASE OtherCommit
  <2>1. others' = others + 1 /\ Advance  BY <1>2 DEF OtherCommit
  <2>2. journal'.head = journal.head + 1 /\ journal'.rec = journal.rec  BY <1>1, <2>1, AdvanceFacts
  <2>3. Cardinality(recorded) \in Nat  BY PathsFinite
  <2>4. recorded' = recorded  BY <2>2 DEF Has
  <2>5. journal.head = others + Cardinality(recorded)  BY <1>1 DEF JournalCount
  <2> HIDE DEF recorded
  <2>6. journal'.head = others' + Cardinality(recorded')  BY <1>1, <2>1, <2>2, <2>3, <2>4, <2>5
  <2> QED  BY <2>6 DEF JournalCount, recorded
<1>3. CASE UNCHANGED <<others, journal>>  BY <1>1, <1>3 DEF JournalCount, Has
<1>4. ASSUME NEW path \in Paths, NEW record \in Records, LandingStep(path, record), UNCHANGED others
      PROVE  JournalCount'
  <2>1. ~Has(path) /\ Put(path, record)  BY <1>4 DEF LandingStep
  <2>2. /\ journal'.head = journal.head + 1 /\ journal'.rec[path] # NoRecord
        /\ \A p \in Paths \ {path} : journal'.rec[p] = journal.rec[p]
        BY <1>1, <2>1, PutFacts
  <2>3. recorded' = recorded \cup {path} /\ path \notin recorded  BY <2>1, <2>2 DEF Has
  <2>4. Cardinality(recorded) \in Nat /\ IsFiniteSet(recorded)  BY PathsFinite
  <2> HIDE DEF recorded
  <2>5. Cardinality(recorded') = Cardinality(recorded) + 1  BY <2>3, <2>4, FS_AddElement
  <2> QED  BY <1>1, <1>4, <2>2, <2>4, <2>5 DEF JournalCount, recorded
<1>5. CASE UNCHANGED others
  <2>1. NoRecordStep => UNCHANGED journal  BY DEF NoRecordStep
  <2>2. \A path, record : OpenStep(path, record) => UNCHANGED journal  BY DEF OpenStep
  <2>3. CASE NoRecordStep  BY <1>3, <1>5, <2>1, <2>3
  <2>4. ASSUME NEW path \in Paths, NEW record \in Records,
               LandingStep(path, record) \/ OpenStep(path, record)
        PROVE  JournalCount'
    <3>1. CASE LandingStep(path, record)  BY <1>4, <1>5, <3>1
    <3>2. CASE OpenStep(path, record)  BY <1>3, <1>5, <2>2, <3>2
    <3> QED  BY <2>4, <3>1, <3>2
  <2> QED  BY <1>1, <1>2, <2>3, <2>4 DEF RecordStep, UnrelatedStep
<1> QED  BY <1>2, <1>5, OthersStep

----------------------------------------------------------------------------
(* The run and the helper. *)

Pcs == {"idle", "journal", "observe", "bind", "decide", "claim", "recheck", "readback", "post"}
Started(n) == [Idle(n) EXCEPT !.pc = "journal", !.now = clock]
StartStep == w.pc = "idle" /\ \E n \in w.run + 1 .. Len(sched) : w' = Started(n)
ReadStepOfRun ==
    /\ w.pc = "journal" /\ w' = [w EXCEPT !.pc = "observe", !.snap = journal] /\ UNCHANGED journal
    /\ journal.rec["seed"] # NoRecord /\ journal.rec["terminal"] = NoRecord
BindStep ==
    /\ w.pc = "bind" /\ Continue("decide") /\ w.snap.rec["operation"] # NoRecord
DecideStep ==
    LET n == native.attempt
    IN  /\ w.pc = "decide" /\ n # 1 /\ Infra(n) /\ w.now + Reserve <= Deadline(Seed)
        /\ w.now >= history[n].at + Cooldown[n + 1]
        /\ Elected(w.run, Seed, n + 1, history[n].at)
        /\ w' = [w EXCEPT !.pc = "claim", !.attempt = n, !.causeAt = history[n].at]
ClaimStep ==
    /\ w.pc = "claim" /\ Continue("recheck") /\ Put(Path(NextSlot), Claim)
    /\ Lands(w.snap.head, Path(NextSlot)) /\ UNCHANGED late
RunMoves ==
    \/ UNCHANGED w \/ w' = Idle(w.run)
    \/ StartStep \/ ReadStepOfRun \/ BindStep \/ DecideStep \/ ClaimStep
    \/ w.pc = "observe" /\ Continue("bind") /\ UNCHANGED <<journal, late>>
    \/ w.pc = "recheck" /\ Continue("readback") /\ UNCHANGED <<journal, late>>
    \/ w.pc = "readback" /\ Continue("post") /\ UNCHANGED <<journal, late>>

LEMMA DecideMoves ==
    ASSUME Inv, Decide
    PROVE  w' = Idle(w.run) \/ DecideStep
<1> DEFINE n == native.attempt
<1>1. ASSUME NEW head, NEW s, Terminate(head, s) PROVE w' = Idle(w.run)
      BY <1>1, TerminateWrites DEF Ends
<1>2. CASE ~\E head, s : Terminate(head, s)
  <2>1. \/ w' = Idle(w.run)
        \/ /\ w.pc = "decide" /\ n # 1 /\ ~(w.now + Reserve > Deadline(Seed)) /\ Infra(n)
           /\ w.now >= history[n].at + Cooldown[n + 1]
           /\ Elected(w.run, Seed, n + 1, history[n].at)
           /\ w' = [w EXCEPT !.pc = "claim", !.attempt = n, !.causeAt = history[n].at]
        BY <1>2 DEF Decide, Ends
  <2>2. w.pc = "decide" => w.now + Reserve \in Nat /\ Deadline(Seed) \in Nat
    <3> SUFFICES ASSUME w.pc = "decide" PROVE w.now + Reserve \in Nat /\ Deadline(Seed) \in Nat
        OBVIOUS
    <3>1. Reading  BY DEF Reading
    <3>2. Seed = journal.rec["seed"] /\ Has("seed")
          BY <3>1, PathFacts DEF Inv, SnapInv, Seed, Has
    <3>3. Seed \in SeedRecord  BY <3>2, PathFacts DEF Inv, RecordInv, Good
    <3>4. w.now \in Nat  BY TypeParts, RunFields DEF Inv
    <3> QED  BY <3>3, <3>4, BoundFacts DEF Deadline, SeedRecord
  <2> QED  BY <2>1, <2>2 DEF DecideStep
<1> QED  BY <1>1, <1>2

LEMMA StepOfRun == ASSUME Inv, [Next]_vars PROVE RunMoves
<1>1. CASE GitHub
      BY <1>1 DEF GitHub, LateCommit, OtherCommit, Tick, Deliver, Complete, Schedule, Reveal,
                  Trouble, Environment, RunMoves
<1>2. CASE Helper
      BY <1>2 DEF Helper, ReadForSeal, CreateSeed, Fence, ReadForClaim, ClaimOperation, Reseal,
                  PostAttemptTwo, HelperStep, RunMoves
<1>3. CASE Receiver \/ UNCHANGED vars  BY <1>3 DEF Receiver, vars, RunMoves
<1>4. ASSUME NEW head, NEW s, Terminate(head, s) PROVE RunMoves
      BY <1>4, TerminateWrites DEF Ends, RunMoves
<1>5. CASE ScheduledRun
  <2>1. CASE Start  BY <2>1 DEF Start, StartStep, Started, RunMoves
  <2>2. CASE ReadJournal  BY <2>2 DEF ReadJournal, ReadStepOfRun, ReadStep, Ends, RunMoves
  <2>3. CASE Observe  BY <1>4, <2>3 DEF Observe, Ends, RunMoves
  <2>4. CASE Bind  BY <1>4, <2>4 DEF Bind, BindStep, Ends, RunMoves
  <2>5. CASE Decide  BY <2>5, DecideMoves DEF RunMoves
  <2>6. CASE ClaimSlot
    <3>1. CASE Valid(Claim, Seed, NextSlot)
      <4>1. w.pc = "claim" /\ Commit(w.snap.head, Path(NextSlot), Claim, Continue("recheck"), Ends)
            BY <2>6, <3>1 DEF ClaimSlot
      <4>2. \/ Ends
            \/ /\ Lands(w.snap.head, Path(NextSlot)) /\ Put(Path(NextSlot), Claim)
               /\ UNCHANGED late /\ Continue("recheck")
            BY <4>1 DEF Commit, Create
      <4> QED  BY <4>1, <4>2 DEF ClaimStep, Ends, RunMoves
    <3>2. CASE ~Valid(Claim, Seed, NextSlot)  BY <1>4, <2>6, <3>2 DEF ClaimSlot
    <3> QED  BY <3>1, <3>2
  <2>7. CASE Recheck \/ Readback \/ PostRerun \/ Cancel
        BY <2>7 DEF Recheck, Readback, PostRerun, Cancel, ReadStep, Ends, RunMoves
  <2> QED  BY <1>5, <2>1, <2>2, <2>3, <2>4, <2>5, <2>6, <2>7 DEF ScheduledRun
<1> QED  BY <1>1, <1>2, <1>3, <1>5 DEF Next

\* The fields after a move.
LEMMA IdleFields ==
    ASSUME NEW n \in Runs
    PROVE  Idle(n) \in ScheduledRuns /\ Idle(n).run = n /\ Idle(n).pc = "idle"
<1>1. 0 \in Times /\ 0 \in 0 .. MaxAttempt /\ NoRecord \in Journals \cup {NoRecord}
      BY BoundFacts DEF Times, MaxAttempt
<1> QED  BY <1>1 DEF Idle, ScheduledRuns

LEMMA StartFields ==
    ASSUME NEW n \in Runs, clock \in Times
    PROVE  Started(n) \in ScheduledRuns /\ Started(n).run = n /\ Started(n).pc = "journal"
<1>1. Idle(n) \in ScheduledRuns /\ Idle(n).run = n  BY IdleFields
<1>2. ASSUME NEW r \in ScheduledRuns
      PROVE  /\ [r EXCEPT !.pc = "journal", !.now = clock] \in ScheduledRuns
             /\ [r EXCEPT !.pc = "journal", !.now = clock].run = r.run
             /\ [r EXCEPT !.pc = "journal", !.now = clock].pc = "journal"
      BY DEF ScheduledRuns
<1> QED  BY <1>1, <1>2 DEF Started

LEMMA ContinueFields ==
    ASSUME w \in ScheduledRuns, NEW pc \in Pcs, Continue(pc)
    PROVE  /\ w' \in ScheduledRuns /\ w'.pc = pc /\ w'.run = w.run /\ w'.now = w.now
           /\ w'.snap = w.snap /\ w'.attempt = w.attempt /\ w'.causeAt = w.causeAt
    BY DEF ScheduledRuns, Continue, Pcs

LEMMA ReadFields ==
    ASSUME w \in ScheduledRuns, journal \in Journals, ReadStepOfRun
    PROVE  /\ w' \in ScheduledRuns /\ w'.pc = "observe" /\ w'.run = w.run /\ w'.snap = journal
    BY DEF ScheduledRuns, ReadStepOfRun

LEMMA DecideFields ==
    ASSUME w \in ScheduledRuns, NativeType, DecideStep
    PROVE  /\ w' \in ScheduledRuns /\ w'.pc = "claim" /\ w'.run = w.run /\ w'.now = w.now
           /\ w'.snap = w.snap /\ w'.attempt = native.attempt /\ native.attempt \in {2, 3}
           /\ w'.causeAt = history[native.attempt].at /\ history[native.attempt].at \in Times
<1>1. native.attempt \in {2, 3}  BY DEF DecideStep, Infra
<1>2. history[native.attempt] \in AttemptRecords  BY <1>1 DEF NativeType, Attempts, MaxAttempt
<1>3. history[native.attempt].at \in Times  BY <1>2 DEF AttemptRecords
<1>4. native.attempt \in 0 .. MaxAttempt  BY <1>1 DEF MaxAttempt
<1>5. w' = [w EXCEPT !.pc = "claim", !.attempt = native.attempt, !.causeAt = history[native.attempt].at]
      BY DEF DecideStep
<1> QED  BY <1>1, <1>3, <1>4, <1>5 DEF ScheduledRuns

LEMMA RunStepType == ASSUME Inv, [Next]_vars, SchedType', Len(sched') >= Len(sched) PROVE RunType'
<1>1. /\ w \in ScheduledRuns /\ w.run \in Runs /\ w.run <= Len(sched) /\ journal \in Journals /\ NativeType
      /\ SchedType /\ clock \in Times /\ RunType
      BY TypeParts DEF Inv, RunType, ScheduledRuns, JournalType, RestType
<1>2. Len(sched) \in Nat /\ Len(sched') \in Nat /\ Len(sched) <= MaxRuns /\ w.run \in Nat
      BY <1>1, RunFields DEF SchedType
<1>3. CASE UNCHANGED w  BY <1>1, <1>2, <1>3 DEF RunType
<1>4. CASE w' = Idle(w.run)
  <2>1. w' \in ScheduledRuns /\ w'.run = w.run  BY <1>1, <1>4, IdleFields
  <2> QED  BY <1>1, <1>2, <2>1 DEF RunType
<1>5. CASE StartStep
  <2>1. PICK n \in w.run + 1 .. Len(sched) : w' = Started(n)
        BY <1>5 DEF StartStep
  <2>2. n \in Runs /\ n <= Len(sched)  BY <1>2, <2>1, BoundFacts DEF Runs
  <2>3. w' \in ScheduledRuns /\ w'.run = n  BY <1>1, <2>1, <2>2, StartFields
  <2> QED  BY <1>2, <2>2, <2>3 DEF RunType
<1>6. CASE ReadStepOfRun  BY <1>1, <1>2, <1>6, ReadFields DEF RunType
<1>7. CASE DecideStep  BY <1>1, <1>2, <1>7, DecideFields DEF RunType
<1>8. CASE \E pc \in Pcs : Continue(pc)  BY <1>1, <1>2, <1>8, ContinueFields DEF RunType
<1>9. BindStep \/ ClaimStep \/ Continue("bind") \/ Continue("readback") \/ Continue("post")
        => \E pc \in Pcs : Continue(pc)
  <2>1. "bind" \in Pcs /\ "decide" \in Pcs /\ "recheck" \in Pcs /\ "readback" \in Pcs /\ "post" \in Pcs
        BY DEF Pcs
  <2>2. (BindStep => Continue("decide")) /\ (ClaimStep => Continue("recheck"))
        BY DEF BindStep, ClaimStep
  <2> QED  BY <2>1, <2>2, Zenon
<1>10. \/ UNCHANGED w \/ w' = Idle(w.run) \/ StartStep \/ ReadStepOfRun \/ DecideStep
       \/ BindStep \/ ClaimStep \/ Continue("bind") \/ Continue("readback") \/ Continue("post")
       BY StepOfRun DEF RunMoves
<1> QED  BY <1>3, <1>4, <1>5, <1>6, <1>7, <1>8, <1>9, <1>10

LEMMA HelperStepType == ASSUME Inv, [Next]_vars PROVE HelperType'
<1>1. helper \in Helpers /\ clock \in Times /\ journal.head \in Nat /\ 0 \in Times
      BY TypeParts, BoundFacts DEF Inv, HelperType, RestType, JournalType, Journals, Times
<1>2. CASE UNCHANGED helper  BY <1>1, <1>2 DEF HelperType
<1>3. ASSUME NEW pc \in {"seal", "create", "fence", "read", "claim", "reseal", "post", "end"},
             \/ Goes(pc)
             \/ helper' = [helper EXCEPT !.pc = pc, !.now = clock, !.head = journal.head]
             \/ helper' = [helper EXCEPT !.pc = pc, !.head = journal.head]
             \/ helper' = [pc |-> pc, now |-> 0, head |-> 0, sealed |-> TRUE]
      PROVE  HelperType'
  <2>1. CASE Goes(pc)  BY <1>1, <2>1 DEF HelperType, Helpers, Goes
  <2>2. CASE helper' = [helper EXCEPT !.pc = pc, !.now = clock, !.head = journal.head]
        BY <1>1, <2>2 DEF HelperType, Helpers
  <2>3. CASE helper' = [helper EXCEPT !.pc = pc, !.head = journal.head]
        BY <1>1, <2>3 DEF HelperType, Helpers
  <2>4. CASE helper' = [pc |-> pc, now |-> 0, head |-> 0, sealed |-> TRUE]
        BY <1>1, <2>4 DEF HelperType, Helpers
  <2> QED  BY <1>3, <2>1, <2>2, <2>3, <2>4
<1>4. CASE Helper
  <2>1. CASE ReadForSeal  BY <1>3, <2>1 DEF ReadForSeal
  <2>2. CASE CreateSeed
    <3>1. Goes("end") \/ helper' = [pc |-> "fence", now |-> 0, head |-> 0, sealed |-> TRUE]
          BY <2>2 DEF CreateSeed, Commit, Create
    <3> QED  BY <1>3, <3>1
  <2>3. CASE ClaimOperation
    <3>1. Goes("end") \/ Goes("reseal")  BY <2>3 DEF ClaimOperation, Commit, Create
    <3> QED  BY <1>3, <3>1
  <2>4. CASE Fence  BY <1>3, <2>4 DEF Fence
  <2>5. CASE ReadForClaim  BY <1>3, <2>5 DEF ReadForClaim
  <2>6. CASE Reseal  BY <1>3, <2>6 DEF Reseal
  <2>7. CASE PostAttemptTwo  BY <1>3, <2>7 DEF PostAttemptTwo
  <2> QED  BY <1>4, <2>1, <2>2, <2>3, <2>4, <2>5, <2>6, <2>7 DEF Helper
<1>5. CASE GitHub
      BY <1>2, <1>5 DEF GitHub, LateCommit, OtherCommit, Tick, Deliver, Complete, Schedule, Reveal,
                        Trouble, Environment
<1>6. CASE ScheduledRun
      BY <1>2, <1>6 DEF ScheduledRun, Start, ReadJournal, Observe, Bind, Decide, ClaimSlot, Recheck,
                        Readback, PostRerun, Cancel, ReadStep, RunStep
<1>7. CASE Receiver \/ UNCHANGED vars  BY <1>2, <1>7 DEF Receiver, vars
<1> QED  BY <1>4, <1>5, <1>6, <1>7 DEF Next

----------------------------------------------------------------------------
(* The verifier run, the POSTs and the schedule. *)

LEMMA StepKinds ==
    ASSUME [Next]_vars
    PROVE  /\ UNCHANGED <<native, history>> \/ Deliver \/ Complete \/ Trouble
           /\ UNCHANGED <<posts, open>> \/ Deliver \/ PostAttemptTwo \/ PostRerun
           /\ UNCHANGED <<sched, visible>> \/ Schedule \/ Reveal \/ Trouble
           /\ UNCHANGED clock \/ Tick
           /\ UNCHANGED <<drift, troubles>> \/ Trouble
           /\ observed' \in {observed, TRUE}
           /\ UNCHANGED accepted \/ Receiver
<1>1. CASE GitHub
      BY <1>1 DEF GitHub, LateCommit, OtherCommit, Tick, Deliver, Complete, Schedule, Reveal, Trouble,
                  Environment, github
<1>2. CASE Helper
      BY <1>2 DEF Helper, ReadForSeal, CreateSeed, Fence, ReadForClaim, ClaimOperation, Reseal,
                  PostAttemptTwo, HelperStep
<1>3. CASE ScheduledRun
      BY <1>3 DEF ScheduledRun, Start, ReadJournal, Observe, Bind, Decide, ClaimSlot, Recheck,
                  Readback, PostRerun, Cancel, ReadStep, RunStep
<1>4. CASE Receiver \/ UNCHANGED vars  BY <1>4 DEF Receiver, vars, github
<1> QED  BY <1>1, <1>2, <1>3, <1>4 DEF Next

LEMMA NativeFields ==
    ASSUME NativeType
    PROVE  /\ native.attempt \in 1 .. 5 /\ native.running \in BOOLEAN /\ Attempts = 1 .. 5
           /\ DOMAIN history = Attempts
           /\ \A a \in Attempts : /\ history[a] \in AttemptRecords /\ history[a].at \in Nat
                                  /\ history[a].via \in 0 .. 4
<1>1. \A a \in Attempts : history[a] \in AttemptRecords  BY DEF NativeType
<1>2. ASSUME NEW r \in AttemptRecords PROVE r.at \in Nat /\ r.via \in 0 .. 4
      BY BoundFacts DEF AttemptRecords, Times, MaxAttempt
<1> QED  BY <1>1, <1>2 DEF NativeType, Attempts, MaxAttempt

LEMMA RerunFields ==
    ASSUME NativeType, clock \in Times, NEW via \in 0 .. MaxAttempt, Rerun(via)
    PROVE  /\ NativeType' /\ native'.attempt = native.attempt + 1 /\ native'.attempt \in Attempts
           /\ history'[native'.attempt].via = via
           /\ \A a \in Attempts : /\ history'[a].conclusion = history[a].conclusion
                                  /\ history'[a].at = history[a].at
                                  /\ a # native'.attempt => history'[a] = history[a]
<1> DEFINE n == native.attempt + 1
<1>1. n \in Attempts /\ native' = [attempt |-> n, running |-> TRUE]
      /\ history' = [history EXCEPT ![n].start = clock, ![n].via = via]
      BY DEF Rerun
<1>2. native'.attempt = n /\ native' \in [attempt : Attempts, running : BOOLEAN]  BY <1>1
<1> HIDE DEF n
<1>3. ASSUME NEW r \in AttemptRecords
      PROVE  /\ [r EXCEPT !.start = clock, !.via = via] \in AttemptRecords
             /\ [r EXCEPT !.start = clock, !.via = via].via = via
             /\ [r EXCEPT !.start = clock, !.via = via].at = r.at
             /\ [r EXCEPT !.start = clock, !.via = via].conclusion = r.conclusion
      BY DEF AttemptRecords
<1>4. /\ history' = [history EXCEPT ![n] = [history[n] EXCEPT !.start = clock, !.via = via]]
      /\ history \in [Attempts -> AttemptRecords]
      BY <1>1 DEF NativeType
<1>5. history[n] \in AttemptRecords  BY <1>1, <1>4
<1> DEFINE new == [history[n] EXCEPT !.start = clock, !.via = via]
<1>6. /\ new \in AttemptRecords /\ new.via = via /\ new.at = history[n].at
      /\ new.conclusion = history[n].conclusion /\ history' = [history EXCEPT ![n] = new]
      BY <1>3, <1>4, <1>5
<1> HIDE DEF new
<1>7. /\ history' \in [Attempts -> AttemptRecords] /\ history'[n] = new
      /\ \A a \in Attempts : a # n => history'[a] = history[a]
      BY <1>1, <1>4, <1>6
<1> QED  BY <1>1, <1>2, <1>6, <1>7 DEF NativeType, n

LEMMA CompleteFields ==
    ASSUME NativeType, clock \in Times, Complete
    PROVE  /\ NativeType' /\ native'.attempt = native.attempt
           /\ \A a \in Attempts : /\ history'[a].via = history[a].via
                                  /\ a # native.attempt => history'[a] = history[a]
           /\ history'[native.attempt].at = clock
<1> DEFINE n == native.attempt
<1>1. PICK c \in {"infra", "other", "success"} :
        history' = [history EXCEPT ![n].conclusion = c, ![n].at = clock]
      BY DEF Complete
<1>2. native' = [native EXCEPT !.running = FALSE] /\ n \in Attempts
      /\ native \in [attempt : Attempts, running : BOOLEAN] /\ history \in [Attempts -> AttemptRecords]
      BY DEF Complete, NativeType
<1>3. native'.attempt = n /\ native' \in [attempt : Attempts, running : BOOLEAN]  BY <1>2
<1> HIDE DEF n
<1>4. ASSUME NEW r \in AttemptRecords
      PROVE  /\ [r EXCEPT !.conclusion = c, !.at = clock] \in AttemptRecords
             /\ [r EXCEPT !.conclusion = c, !.at = clock].via = r.via
             /\ [r EXCEPT !.conclusion = c, !.at = clock].at = clock
      BY DEF AttemptRecords
<1>5. history' = [history EXCEPT ![n] = [history[n] EXCEPT !.conclusion = c, !.at = clock]]
      BY <1>1, <1>2
<1>6. history[n] \in AttemptRecords  BY <1>2
<1> DEFINE new == [history[n] EXCEPT !.conclusion = c, !.at = clock]
<1>7. new \in AttemptRecords /\ new.via = history[n].via /\ new.at = clock
      /\ history' = [history EXCEPT ![n] = new]
      BY <1>4, <1>5, <1>6
<1> HIDE DEF new
<1>8. /\ history' \in [Attempts -> AttemptRecords] /\ history'[n] = new
      /\ \A a \in Attempts : a # n => history'[a] = history[a]
      BY <1>2, <1>7
<1> QED  BY <1>2, <1>3, <1>7, <1>8 DEF NativeType, n

\* Attempts are started one by one, each by a human or by its POST.
NativeMoves ==
    \/ UNCHANGED <<native, history>>
    \/ Complete
    \/ Trouble /\ Rerun(0)
    \/ \E i \in open : open' = open \ {i} /\ UNCHANGED <<posts, troubles>> /\ Rerun(posts[i].slot)

LEMMA StepOfNative == ASSUME [Next]_vars PROVE NativeMoves
<1>1. CASE Deliver  BY <1>1 DEF Deliver, Environment, NativeMoves
<1>2. CASE Trouble  BY <1>2 DEF Trouble, NativeMoves
<1> QED  BY <1>1, <1>2, StepKinds DEF NativeMoves

EndStays(a) ==
    \/ history'[a].conclusion = history[a].conclusion /\ history'[a].at = history[a].at
    \/ history'[a].at = clock
Grows ==
    /\ clock \in Nat /\ clock' \in Nat /\ clock <= clock'
    /\ troubles \in Nat /\ troubles' \in Nat /\ troubles <= troubles'
    /\ native.attempt <= native'.attempt
    /\ \A a \in Attempts : EndStays(a)
    /\ UNCHANGED sched \/ sched' = Append(sched, clock)

LEMMA NativeStepType ==
    ASSUME Inv, [Next]_vars
    PROVE  /\ NativeType' /\ native.attempt \in 1 .. 5 /\ native'.attempt \in 1 .. 5
           /\ native.attempt <= native'.attempt /\ \A a \in Attempts : EndStays(a)
<1>1. NativeType /\ PostType /\ clock \in Times  BY TypeParts DEF Inv, RestType
<1>2. native.attempt \in 1 .. 5 /\ Attempts = 1 .. 5  BY <1>1, NativeFields
<1>3. CASE UNCHANGED <<native, history>>  BY <1>1, <1>2, <1>3 DEF NativeType, EndStays
<1>4. CASE Complete
  <2>1. NativeType' /\ native'.attempt = native.attempt  BY <1>1, <1>4, CompleteFields
  <2>2. \A a \in Attempts : EndStays(a)  BY <1>1, <1>4, CompleteFields DEF EndStays
  <2> QED  BY <1>2, <2>1, <2>2
<1>5. ASSUME NEW via \in 0 .. MaxAttempt, Rerun(via)
      PROVE  /\ NativeType' /\ native'.attempt = native.attempt + 1 /\ native'.attempt \in Attempts
             /\ \A a \in Attempts : EndStays(a)
  <2>1. NativeType' /\ native'.attempt = native.attempt + 1 /\ native'.attempt \in Attempts
        BY <1>1, <1>5, RerunFields
  <2>2. \A a \in Attempts : EndStays(a)  BY <1>1, <1>5, RerunFields DEF EndStays
  <2> QED  BY <2>1, <2>2
<1>6. CASE Rerun(0)
  <2>1. 0 \in 0 .. MaxAttempt  BY DEF MaxAttempt
  <2> QED  BY <1>2, <1>5, <1>6, <2>1
<1>7. CASE \E i \in open : Rerun(posts[i].slot)
  <2>1. \A i \in open : posts[i].slot \in 0 .. MaxAttempt  BY <1>1, PostFields DEF MaxAttempt
  <2> QED  BY <1>2, <1>5, <1>7, <2>1
<1> QED  BY <1>3, <1>4, <1>6, <1>7, StepOfNative DEF NativeMoves

LEMMA SchedStepType ==
    ASSUME Inv, [Next]_vars
    PROVE  /\ SchedType' /\ (UNCHANGED sched \/ sched' = Append(sched, clock))
           /\ Len(sched) \in Nat /\ Len(sched') \in Nat /\ Len(sched') >= Len(sched)
<1>1. SchedType /\ clock \in Times /\ Len(sched) \in Nat /\ MaxRuns \in Nat
      BY TypeParts, BoundFacts DEF Inv, RestType, SchedType
<1>2. CASE UNCHANGED <<sched, visible>>  BY <1>1, <1>2 DEF SchedType
<1>3. CASE Schedule
  <2>1. sched' = Append(sched, clock) /\ Len(sched) < MaxRuns
        /\ visible' \in {visible, visible \cup {Len(sched) + 1}}
        BY <1>3 DEF Schedule
  <2>2. sched' \in Seq(Times) /\ Len(sched') = Len(sched) + 1  BY <1>1, <2>1 DEF SchedType
  <2>3. visible' \subseteq DOMAIN sched'
    <3>1. DOMAIN sched = 1 .. Len(sched) /\ DOMAIN sched' = 1 .. Len(sched) + 1
          BY <1>1, <2>2 DEF SchedType
    <3> QED  BY <1>1, <2>1, <3>1 DEF SchedType
  <2>4. Len(sched') <= MaxRuns  BY <1>1, <2>1, <2>2
  <2> QED  BY <1>1, <2>1, <2>2, <2>3, <2>4 DEF SchedType
<1>4. CASE Reveal \/ Trouble  BY <1>1, <1>4 DEF Reveal, Trouble, SchedType
<1> QED  BY <1>2, <1>3, <1>4, StepKinds

LEMMA RestStepType ==
    ASSUME Inv, [Next]_vars
    PROVE  /\ RestType' /\ clock \in Nat /\ clock' \in Nat /\ clock <= clock'
           /\ troubles \in Nat /\ troubles' \in Nat /\ troubles <= troubles'
<1>1. RestType /\ MaxClock \in Nat /\ MaxTrouble \in Nat /\ MaxOther \in Nat
      BY TypeParts, BoundFacts DEF Inv
<1>2. clock' \in Times /\ clock \in Nat /\ clock' \in Nat /\ clock <= clock'
  <2>1. clock \in 0 .. MaxClock  BY <1>1 DEF RestType, Times
  <2>2. UNCHANGED clock \/ Tick  BY StepKinds
  <2>3. UNCHANGED clock \/ (clock' = clock + 1 /\ clock < MaxClock)  BY <2>2 DEF Tick
  <2> QED  BY <1>1, <2>1, <2>3 DEF Times
<1>3. /\ drift' \in BOOLEAN /\ troubles' \in 0 .. MaxTrouble
      /\ troubles \in Nat /\ troubles' \in Nat /\ troubles <= troubles'
  <2>1. CASE UNCHANGED <<drift, troubles>>  BY <1>1, <2>1 DEF RestType
  <2>2. CASE Trouble
    <3>1. drift' \in BOOLEAN  BY <1>1, <2>2 DEF RestType, Trouble
    <3>2. troubles' = troubles + 1 /\ troubles < MaxTrouble  BY <2>2 DEF Trouble
    <3> QED  BY <1>1, <3>1, <3>2 DEF RestType
  <2> QED  BY <2>1, <2>2, StepKinds
<1>4. observed' \in BOOLEAN  BY <1>1, StepKinds DEF RestType
<1>5. others' \in 0 .. MaxOther  BY <1>1, OthersStep DEF RestType, OtherCommit
<1>6. accepted' \subseteq Slots
  <2>1. Receiver => \E n \in Slots : accepted' = accepted \cup {n}  BY DEF Receiver
  <2> QED  BY <1>1, <2>1, StepKinds DEF RestType
<1> QED  BY <1>2, <1>3, <1>4, <1>5, <1>6 DEF RestType

LEMMA StepGrows == ASSUME Inv, [Next]_vars PROVE Grows
    BY NativeStepType, SchedStepType, RestStepType DEF Grows

LEMMA PostRerunFacts ==
    ASSUME Inv, PostRerun
    PROVE  /\ w.pc = "post" /\ NextSlot \in Slots /\ w.attempt \in {2, 3} /\ w' = Idle(w.run)
           /\ native.attempt >= w.attempt /\ journal.rec[Path(NextSlot)] = Claim
           /\ ~Has("terminal") /\ SendPost(NextSlot, w.run)
<1>1. w.pc = "post" /\ w' = Idle(w.run) /\ SendPost(NextSlot, w.run)  BY DEF PostRerun, Ends
<1>2. /\ w.attempt \in {2, 3} /\ native.attempt >= w.attempt
      /\ journal.rec[Path(NextSlot)] = Claim /\ ~Has("terminal")
      BY <1>1 DEF Inv, ClaimInv, OwnInv, Claiming, Owning
<1> QED  BY <1>1, <1>2, PathFacts DEF NextSlot

LEMMA SendFields ==
    ASSUME PostType, NEW slot \in 2 .. MaxAttempt, NEW by \in Runs, SendPost(slot, by)
    PROVE  /\ PostType' /\ DOMAIN posts' = DOMAIN posts \cup {Len(posts) + 1}
           /\ Len(posts) + 1 \notin DOMAIN posts /\ open' = open \cup {Len(posts) + 1}
           /\ posts'[Len(posts) + 1].slot = slot /\ posts'[Len(posts) + 1].by = by
           /\ \A i \in DOMAIN posts : posts'[i] = posts[i]
<1> DEFINE p == [slot |-> slot, by |-> by]
<1>1. p \in Posts /\ p.slot = slot /\ p.by = by  BY DEF Posts
<1>2. posts' = Append(posts, p) /\ open' = open \cup {Len(posts) + 1}  BY DEF SendPost
<1> HIDE DEF p
<1>3. posts \in Seq(Posts) /\ open \subseteq DOMAIN posts  BY DEF PostType
<1>4. posts' \in Seq(Posts) /\ Len(posts') = Len(posts) + 1 /\ Len(posts) \in Nat
      /\ posts'[Len(posts) + 1] = p /\ \A i \in 1 .. Len(posts) : posts'[i] = posts[i]
      BY <1>1, <1>2, <1>3
<1>5. DOMAIN posts = 1 .. Len(posts) /\ DOMAIN posts' = 1 .. Len(posts) + 1  BY <1>3, <1>4
<1> QED  BY <1>1, <1>2, <1>3, <1>4, <1>5 DEF PostType

LEMMA PostStepType == ASSUME Inv, [Next]_vars PROVE PostType'
<1>1. PostType /\ RunType /\ w.run \in Runs  BY TypeParts DEF Inv, RunType, ScheduledRuns
<1>2. CASE UNCHANGED <<posts, open>>  BY <1>1, <1>2 DEF PostType
<1>3. CASE Deliver  BY <1>1, <1>3 DEF Deliver, Environment, PostType
<1>4. CASE PostAttemptTwo
  <2>1. 0 \in Runs /\ 2 \in 2 .. MaxAttempt /\ SendPost(2, 0)
        BY <1>4, BoundFacts DEF PostAttemptTwo, Runs, MaxAttempt
  <2> QED  BY <1>1, <2>1, SendFields
<1>5. CASE PostRerun
  <2>1. SendPost(NextSlot, w.run) /\ NextSlot \in 2 .. MaxAttempt
        BY <1>5, PostRerunFacts, PathFacts DEF MaxAttempt
  <2> QED  BY <1>1, <2>1, SendFields
<1> QED  BY <1>2, <1>3, <1>4, <1>5, StepKinds

LEMMA TypeStep == ASSUME Inv, [Next]_vars PROVE TypeOK'
<1>1. JournalType' /\ JournalCount'  BY JournalStepType, JournalCountStep
<1>2. NativeType' /\ PostType'  BY NativeStepType, PostStepType
<1>3. SchedType' /\ HelperType'  BY SchedStepType, HelperStepType
<1>4. RunType' /\ RestType'  BY SchedStepType, RunStepType, RestStepType
<1> QED
    BY <1>1, <1>2, <1>3, <1>4 DEF TypeOK, JournalType, JournalCount, NativeType, PostType, SchedType,
       RunType, HelperType, RestType, Has

----------------------------------------------------------------------------
(* What a record stands for stays true. *)

LEMMA SinceStays ==
    ASSUME Inv, [Next]_vars, NEW t \in Nat, Since(t)
    PROVE  Since(t)'
<1>1. Grows /\ NativeType /\ NativeType' /\ Attempts = 1 .. 5
      BY StepGrows, TypeParts, NativeStepType, NativeFields DEF Inv
<1>2. clock \in Nat /\ clock' \in Nat /\ t <= clock /\ clock <= clock'  BY <1>1 DEF Grows, Since
<1>3. ASSUME NEW a \in Attempts \ {1}, history'[a].conclusion # "none"
      PROVE  t <= history'[a].at
      BY <1>1, <1>2, <1>3 DEF Grows, EndStays, Since
<1> QED  BY <1>2, <1>3 DEF Since

LEMMA AppendFields ==
    ASSUME Inv, [Next]_vars
    PROVE  /\ Len(sched) \in Nat /\ DOMAIN sched = 1 .. Len(sched)
           /\ \A i \in DOMAIN sched : sched[i] \in Nat /\ i \in DOMAIN sched' /\ sched'[i] = sched[i]
           /\ \/ DOMAIN sched' = DOMAIN sched
              \/ DOMAIN sched' = DOMAIN sched \cup {Len(sched) + 1} /\ sched'[Len(sched) + 1] = clock
<1>1. sched \in Seq(Times) /\ clock \in Times /\ Len(sched) \in Nat
      BY TypeParts DEF Inv, SchedType, RestType
<1>2. \A i \in DOMAIN sched : sched[i] \in Nat  BY <1>1, BoundFacts DEF Times
<1>3. UNCHANGED sched \/ sched' = Append(sched, clock)  BY SchedStepType
<1>4. DOMAIN sched = 1 .. Len(sched)  BY <1>1
<1>5. CASE UNCHANGED sched  BY <1>1, <1>2, <1>4, <1>5
<1>6. CASE sched' = Append(sched, clock)
  <2>1. /\ sched' \in Seq(Times) /\ Len(sched') = Len(sched) + 1 /\ sched'[Len(sched) + 1] = clock
        /\ \A i \in 1 .. Len(sched) : sched'[i] = sched[i]
        BY <1>1, <1>6
  <2>2. DOMAIN sched' = 1 .. Len(sched) + 1  BY <1>1, <2>1
  <2>3. DOMAIN sched' = DOMAIN sched \cup {Len(sched) + 1}  BY <1>1, <1>4, <2>2
  <2> QED  BY <1>1, <1>2, <1>4, <2>1, <2>3
<1> QED  BY <1>3, <1>5, <1>6

LEMMA FirstStays ==
    ASSUME Inv, [Next]_vars, Has("seed"), NEW run, NEW slot, NEW t, First(run, slot, t)
    PROVE  First(run, slot, t)'
<1>1. journal'.rec["seed"] = journal.rec["seed"]  BY JournalStepType, PathFacts DEF RecordsStay
<1>2. run \in Due(slot, t) /\ run \in DOMAIN sched /\ \A k \in Due(slot, t) : run <= k
      BY DEF First, Due
<1>3. run \in Due(slot, t)'  BY <1>1, <1>2, AppendFields DEF Due
<1>4. ASSUME NEW k \in Due(slot, t)' PROVE run <= k
  <2>1. CASE k \in DOMAIN sched  BY <1>1, <1>2, <2>1, AppendFields DEF Due
  <2>2. CASE k \notin DOMAIN sched
    <3>1. k = Len(sched) + 1  BY <2>2, AppendFields DEF Due
    <3> QED  BY <1>2, <3>1, AppendFields
  <2> QED  BY <2>1, <2>2
<1> QED  BY <1>3, <1>4 DEF First

LEMMA GoodClaimStays ==
    ASSUME Inv, [Next]_vars, NEW slot, NEW r, GoodClaim(slot, r)
    PROVE  GoodClaim(slot, r)'
<1>1. Has("seed") /\ r \in ClaimRecord /\ Valid(r, journal.rec["seed"], slot) /\ First(r.by, slot, r.causeAt)
      BY DEF GoodClaim
<1>2. Has("seed")' /\ journal'.rec["seed"] = journal.rec["seed"]
      BY <1>1, JournalStepType, PathFacts DEF RecordsStay
<1>3. First(r.by, slot, r.causeAt)'  BY <1>1, FirstStays
<1>4. Valid(r, journal.rec["seed"], slot)'  BY <1>1, <1>2 DEF Valid, Deadline
<1> QED  BY <1>1, <1>2, <1>3, <1>4 DEF GoodClaim

LEMMA GoodStays ==
    ASSUME Inv, [Next]_vars, NEW path, NEW r, Good(path, r)
    PROVE  Good(path, r)'
<1>1. path = "seed" => r \in SeedRecord /\ Since(r.created)'
  <2> SUFFICES ASSUME path = "seed" PROVE r \in SeedRecord /\ Since(r.created)'  OBVIOUS
  <2>1. r \in SeedRecord /\ Since(r.created)  BY DEF Good
  <2>2. r.created \in Nat  BY <2>1 DEF SeedRecord
  <2> QED  BY <2>1, <2>2, SinceStays
<1>2. path = "terminal" => GoodTerminal(r)'
  <2> SUFFICES ASSUME path = "terminal" PROVE GoodTerminal(r)'  OBVIOUS
  <2>1. GoodTerminal(r)  BY DEF Good
  <2>2. Has("seed")' /\ Has("operation")'
        BY <2>1, JournalStepType, PathFacts DEF RecordsStay, GoodTerminal
  <2>3. troubles' = 0 => troubles = 0  BY StepGrows DEF Grows
  <2> QED  BY <2>1, <2>2, <2>3 DEF GoodTerminal
<1>3. ASSUME NEW n \in Slots, path = Path(n) PROVE GoodClaim(n, r)'
      BY <1>3, GoodClaimStays DEF Good
<1> QED  BY <1>1, <1>2, <1>3 DEF Good

LEMMA RecordStays == ASSUME Inv, [Next]_vars PROVE RecordInv'
<1> SUFFICES ASSUME NEW p \in Paths, NEW r, r = journal'.rec[p], r # NoRecord
             PROVE  Good(p, r)'
    BY DEF RecordInv, Has
<1>1. JournalType /\ RecordInv /\ RecordStep  BY TypeParts, StepOfRecords DEF Inv
<1>2. CASE journal'.rec = journal.rec
  <2>1. Good(p, r)  BY <1>1, <1>2 DEF RecordInv, Has
  <2> QED  BY <2>1, GoodStays
<1>3. ASSUME NEW path \in Paths, NEW record \in Records, LandingStep(path, record)
      PROVE  Good(p, r)'
  <2>1. Put(path, record) /\ Good(path, record)  BY <1>3 DEF LandingStep
  <2>2. journal'.rec[path] = record /\ \A q \in Paths \ {path} : journal'.rec[q] = journal.rec[q]
        BY <1>1, <2>1, PutFacts
  <2>3. Good(p, r)  BY <1>1, <2>1, <2>2 DEF RecordInv, Has
  <2> QED  BY <2>3, GoodStays
<1>4. UnrelatedStep => journal'.rec = journal.rec
      BY <1>1, AdvanceFacts DEF UnrelatedStep, OtherCommit
<1>5. NoRecordStep => journal'.rec = journal.rec  BY DEF NoRecordStep
<1>6. \A path, record : OpenStep(path, record) => journal'.rec = journal.rec  BY DEF OpenStep
<1> QED  BY <1>1, <1>2, <1>3, <1>4, <1>5, <1>6 DEF RecordStep

LEMMA LateStays == ASSUME Inv, [Next]_vars PROVE LateInv'
<1> SUFFICES ASSUME NEW c \in late'
             PROVE  c.head <= journal'.head /\ Good(c.path, c.record)'
    BY DEF LateInv
<1>1. JournalType /\ RecordStep /\ RecordsStay /\ LateInv /\ journal.head \in Nat
      BY TypeParts, StepOfRecords, JournalStepType DEF Inv, RecordsStay
<1>2. CASE c \in late
  <2>1. c.head <= journal.head /\ c.head \in Nat /\ Good(c.path, c.record)
        BY <1>1, <1>2 DEF LateInv, JournalType
  <2> QED  BY <1>1, <2>1, GoodStays DEF RecordsStay
<1>3. CASE c \notin late
  <2>1. PICK path \in Paths, record \in Records : OpenStep(path, record)
    <3>1. NoRecordStep => late' \subseteq late  BY DEF NoRecordStep
    <3>2. UnrelatedStep => late' \subseteq late  BY <1>1, AdvanceFacts DEF UnrelatedStep, OtherCommit
    <3>3. \A path, record : LandingStep(path, record) => late' \subseteq late  BY DEF LandingStep
    <3> QED  BY <1>1, <1>3, <3>1, <3>2, <3>3 DEF RecordStep
  <2>2. c = [head |-> journal.head, path |-> path, record |-> record] /\ UNCHANGED journal
        BY <1>3, <2>1 DEF OpenStep
  <2>3. c.head = journal'.head /\ c.path = path /\ c.record = record  BY <2>2
  <2>4. Good(c.path, c.record)  BY <2>1, <2>3 DEF OpenStep
  <2> QED  BY <1>1, <2>2, <2>3, <2>4, GoodStays
<1> QED  BY <1>2, <1>3

\* An open commit was made at a head the branch had passed or still has.
LEMMA LateHeads == ASSUME Inv PROVE \A c \in late : c.head \in Nat /\ c.head <= journal.head /\ c.path \in Paths
    BY TypeParts DEF Inv, JournalType, LateInv

LEMMA ClosedStays == ASSUME Inv, [Next]_vars PROVE ClosedInv'
<1> SUFFICES ASSUME Has("terminal")', NEW c \in late', c.head = journal'.head
             PROVE  c.path \notin Claims
    BY DEF ClosedInv, Claims
<1>1. JournalType /\ RecordStep /\ journal.head \in Nat /\ ClosedInv
      BY TypeParts, StepOfRecords, JournalStepType DEF Inv, RecordsStay
<1>2. CASE NoRecordStep  BY <1>1, <1>2 DEF NoRecordStep, ClosedInv, Claims, Has
<1>3. ASSUME journal'.head = journal.head + 1, late' \subseteq late PROVE FALSE
      BY <1>1, <1>3, LateHeads
<1>4. CASE UnrelatedStep  BY <1>1, <1>3, <1>4, AdvanceFacts DEF UnrelatedStep, OtherCommit
<1>5. ASSUME NEW path \in Paths, NEW record \in Records, LandingStep(path, record)
      PROVE  FALSE
  <2>1. journal'.head = journal.head + 1  BY <1>1, <1>5, PutFacts DEF LandingStep
  <2> QED  BY <1>3, <1>5, <2>1 DEF LandingStep
<1>6. ASSUME NEW path \in Paths, NEW record \in Records, OpenStep(path, record)
      PROVE  c.path \notin Claims
  <2>1. UNCHANGED journal /\ (Has("terminal") => path \notin Claims)
        /\ late' = late \cup {[head |-> journal.head, path |-> path, record |-> record]}
        BY <1>6 DEF OpenStep
  <2>2. CASE c \in late  BY <1>1, <2>1, <2>2 DEF ClosedInv, Claims, Has
  <2>3. CASE c = [head |-> journal.head, path |-> path, record |-> record]
        BY <2>1, <2>3 DEF Has
  <2> QED  BY <2>1, <2>2, <2>3
<1> QED  BY <1>1, <1>2, <1>4, <1>5, <1>6 DEF RecordStep

LEMMA HelperStays == ASSUME Inv, [Next]_vars PROVE HelperInv'
<1> SUFFICES ASSUME helper'.pc = "create" PROVE Since(helper.now)'  BY DEF HelperInv
<1>1. helper \in Helpers /\ helper' \in Helpers /\ clock \in Nat /\ NativeType /\ HistoryInv
      BY TypeParts, HelperStepType, RestStepType DEF Inv, HelperType
<1>2. \A t \in Times : t \in Nat  BY BoundFacts DEF Times
<1>2a. ASSUME NEW pc, Goes(pc) PROVE helper'.pc = pc
  <2>1. \A h \in Helpers : [h EXCEPT !.pc = pc, !.now = 0, !.head = 0].pc = pc  BY DEF Helpers
  <2> QED  BY <1>1, <1>2a, <2>1 DEF Goes
<1>3. CASE UNCHANGED helper
  <2>1. Since(helper.now)  BY <1>3 DEF Inv, HelperInv
  <2>2. helper.now \in Nat  BY <1>1, <1>2 DEF Helpers
  <2> DEFINE t == helper.now
  <2>3. ASSUME NEW u, u = helper.now, u = helper'.now PROVE Since(u)'
        BY <2>1, <2>2, <2>3, SinceStays
  <2> QED  BY <1>3, <2>3
<1>4. CASE ReadForSeal
  <2>1. ~Goes("read")  BY <1>2a
  <2>2. helper' = [helper EXCEPT !.pc = IF Unchanged THEN "create" ELSE "end",
                                 !.now = clock, !.head = journal.head]
        BY <1>4, <2>1 DEF ReadForSeal
  <2>3. ASSUME NEW h \in Helpers, NEW pc
        PROVE  /\ [h EXCEPT !.pc = pc, !.now = clock, !.head = journal.head].pc = pc
               /\ [h EXCEPT !.pc = pc, !.now = clock, !.head = journal.head].now = clock
        BY DEF Helpers
  <2>4. helper'.now = clock /\ helper'.pc = IF Unchanged THEN "create" ELSE "end"
        BY <1>1, <2>2, <2>3
  <2>5. native.attempt = 1  BY <2>4 DEF Unchanged
  <2>6. \A a \in Attempts \ {1} : history[a].conclusion = "none"
    <3>1. \A a \in Attempts \ {1} : a > native.attempt  BY <1>1, <2>5, NativeFields
    <3> QED  BY <1>1, <3>1 DEF HistoryInv
  <2>7. UNCHANGED <<clock, history>>  BY <1>4 DEF ReadForSeal, HelperStep
  <2> QED  BY <1>1, <2>4, <2>6, <2>7 DEF Since
<1>5. CASE Helper /\ ~ReadForSeal
  <2>1. CreateSeed => helper'.pc # "create"
    <3>1. CreateSeed => Goes("end") \/ helper' = [pc |-> "fence", now |-> 0, head |-> 0, sealed |-> TRUE]
          BY DEF CreateSeed, Commit, Create
    <3> QED  BY <1>2a, <3>1
  <2>2. ClaimOperation => helper'.pc # "create"
    <3>1. ClaimOperation => Goes("end") \/ Goes("reseal")  BY DEF ClaimOperation, Commit, Create
    <3> QED  BY <1>2a, <3>1
  <2>3. ReadForClaim => helper'.pc # "create"
    <3>1. \A h \in Helpers : [h EXCEPT !.pc = "claim", !.head = journal.head].pc = "claim"
          BY DEF Helpers
    <3> QED  BY <1>1, <1>2a, <3>1 DEF ReadForClaim
  <2>4. Fence \/ Reseal \/ PostAttemptTwo => helper'.pc # "create"
        BY <1>2a DEF Fence, Reseal, PostAttemptTwo
  <2> QED  BY <1>5, <2>1, <2>2, <2>3, <2>4 DEF Helper
<1>6. CASE GitHub
      BY <1>3, <1>6 DEF GitHub, LateCommit, OtherCommit, Tick, Deliver, Complete, Schedule, Reveal,
                        Trouble, Environment
<1>7. CASE ScheduledRun
      BY <1>3, <1>7 DEF ScheduledRun, Start, ReadJournal, Observe, Bind, Decide, ClaimSlot, Recheck,
                        Readback, PostRerun, Cancel, ReadStep, RunStep
<1>8. CASE Receiver \/ UNCHANGED vars  BY <1>3, <1>8 DEF Receiver, vars
<1> QED  BY <1>4, <1>5, <1>6, <1>7, <1>8 DEF Next

----------------------------------------------------------------------------
(* The executing run: its snapshot, its claim, its readback. *)

\* The run goes on with the rest of its state.
KeepsRun ==
    /\ w'.run = w.run /\ w'.now = w.now /\ w'.snap = w.snap
    /\ w'.attempt = w.attempt /\ w'.causeAt = w.causeAt
GoesOn(from, to) == w.pc = from /\ w'.pc = to /\ KeepsRun
RunGoes ==
    \/ UNCHANGED w
    \/ w'.pc = "idle" /\ w'.run = w.run
    \/ w.pc = "idle" /\ w'.pc = "journal" /\ w'.run \in Nat /\ w'.run > w.run
    \/ ReadStepOfRun /\ w'.pc = "observe" /\ w'.run = w.run /\ w'.snap = journal
    \/ /\ DecideStep /\ w.pc = "decide" /\ w'.pc = "claim" /\ w'.run = w.run /\ w'.now = w.now
       /\ w'.snap = w.snap /\ w'.attempt = native.attempt /\ native.attempt \in {2, 3}
       /\ w'.causeAt = history[native.attempt].at
    \/ GoesOn("observe", "bind")
    \/ GoesOn("bind", "decide") /\ w.snap.rec["operation"] # NoRecord
    \/ ClaimStep /\ GoesOn("claim", "recheck")
    \/ GoesOn("recheck", "readback")
    \/ GoesOn("readback", "post")

LEMMA StepOfRunGoes == ASSUME Inv, [Next]_vars PROVE RunGoes
<1>1. /\ w \in ScheduledRuns /\ w.run \in Runs /\ w.run \in Nat /\ journal \in Journals /\ NativeType
      /\ clock \in Times /\ SchedType /\ Len(sched) \in Nat
      BY TypeParts, RunFields DEF Inv, RunType, ScheduledRuns, JournalType, RestType, SchedType
<1>2. CASE w' = Idle(w.run)
  <2>1. w'.pc = "idle" /\ w'.run = w.run  BY <1>1, <1>2, IdleFields
  <2> QED  BY <2>1 DEF RunGoes
<1>3. CASE StartStep
  <2>1. PICK n \in w.run + 1 .. Len(sched) : w' = Started(n)  BY <1>3 DEF StartStep
  <2>2. n \in Runs /\ n \in Nat /\ n > w.run  BY <1>1, <2>1, BoundFacts DEF Runs, SchedType
  <2>3. w'.pc = "journal" /\ w'.run = n  BY <1>1, <2>1, <2>2, StartFields
  <2>4. w.pc = "idle"  BY <1>3 DEF StartStep
  <2> QED  BY <2>2, <2>3, <2>4 DEF RunGoes
<1>4. CASE ReadStepOfRun
  <2>1. w'.pc = "observe" /\ w'.run = w.run /\ w'.snap = journal  BY <1>1, <1>4, ReadFields
  <2> QED  BY <1>4, <2>1 DEF RunGoes
<1>5. CASE DecideStep
  <2>1. /\ w'.pc = "claim" /\ w'.run = w.run /\ w'.now = w.now
        /\ w'.snap = w.snap /\ w'.attempt = native.attempt /\ native.attempt \in {2, 3}
        /\ w'.causeAt = history[native.attempt].at
        BY <1>1, <1>5, DecideFields
  <2>2. w.pc = "decide"  BY <1>5 DEF DecideStep
  <2> QED  BY <1>5, <2>1, <2>2 DEF RunGoes
<1>6. ASSUME NEW pc \in Pcs, Continue(pc) PROVE w'.pc = pc /\ KeepsRun
      BY <1>1, <1>6, ContinueFields DEF KeepsRun
<1>7. /\ Continue("bind") => w'.pc = "bind" /\ KeepsRun
      /\ Continue("decide") => w'.pc = "decide" /\ KeepsRun
      /\ Continue("recheck") => w'.pc = "recheck" /\ KeepsRun
      /\ Continue("readback") => w'.pc = "readback" /\ KeepsRun
      /\ Continue("post") => w'.pc = "post" /\ KeepsRun
      BY <1>6 DEF Pcs
<1>8. CASE BindStep  BY <1>7, <1>8 DEF BindStep, GoesOn, RunGoes
<1>9. CASE ClaimStep
  <2>1. w.pc = "claim" /\ Continue("recheck")  BY <1>9 DEF ClaimStep
  <2> QED  BY <1>7, <1>9, <2>1 DEF GoesOn, RunGoes
<1>10. CASE w.pc = "observe" /\ Continue("bind")  BY <1>7, <1>10 DEF GoesOn, RunGoes
<1>11. CASE w.pc = "recheck" /\ Continue("readback")  BY <1>7, <1>11 DEF GoesOn, RunGoes
<1>12. CASE w.pc = "readback" /\ Continue("post")  BY <1>7, <1>12 DEF GoesOn, RunGoes
<1>13. CASE UNCHANGED w  BY <1>13 DEF RunGoes
<1> QED
    BY StepOfRun, <1>2, <1>3, <1>4, <1>5, <1>8, <1>9, <1>10, <1>11, <1>12, <1>13 DEF RunMoves

SnapStands ==
    /\ w.snap \in Journals /\ w.snap.head <= journal.head
    /\ \A p \in Paths : w.snap.rec[p] # NoRecord => journal.rec[p] = w.snap.rec[p]
    /\ w.snap.head = journal.head => w.snap.rec = journal.rec
    /\ w.snap.rec["seed"] # NoRecord /\ w.snap.rec["terminal"] = NoRecord

LEMMA SnapStandsOn == ASSUME Inv, [Next]_vars, Reading, w'.snap = w.snap PROVE SnapStands'
<1>1. SnapStands /\ RecordsStay  BY JournalStepType DEF Inv, SnapInv, SnapStands
<1>2. w.snap.head \in Nat  BY <1>1 DEF SnapStands, Journals
<1>3. w.snap \in Journals /\ w.snap.head <= journal'.head
      BY <1>1, <1>2 DEF SnapStands, RecordsStay
<1>4. \A p \in Paths : w.snap.rec[p] # NoRecord => journal'.rec[p] = w.snap.rec[p]
      BY <1>1 DEF SnapStands, RecordsStay, Has
<1>5. w.snap.head = journal'.head => w.snap.rec = journal'.rec
      BY <1>1, <1>2 DEF SnapStands, RecordsStay
<1> QED  BY <1>1, <1>3, <1>4, <1>5 DEF SnapStands

LEMMA SnapStays == ASSUME Inv, [Next]_vars PROVE SnapInv'
<1>1. SnapInv /\ journal \in Journals /\ journal.head \in Nat
      BY TypeParts DEF Inv, JournalType, Journals
<1>2. ASSUME Reading, w'.snap = w.snap, Bound' => w.snap.rec["operation"] # NoRecord
      PROVE  SnapInv'
  <2>1. SnapStands'  BY <1>2, SnapStandsOn
  <2> QED  BY <1>2, <2>1 DEF SnapInv, SnapStands
<1>3. CASE UNCHANGED w
  <2>1. Reading' <=> Reading  BY <1>3 DEF Reading
  <2>2. Bound' <=> Bound  BY <1>3 DEF Bound
  <2>3. Bound => Reading  BY DEF Bound, Reading
  <2> QED  BY <1>1, <1>2, <1>3, <2>1, <2>2, <2>3 DEF SnapInv
<1>4. CASE w'.pc \in {"idle", "journal"}
  <2>1. ~Reading' /\ ~Bound'  BY <1>4 DEF Reading, Bound
  <2> QED  BY <2>1 DEF SnapInv
<1>5. CASE ReadStepOfRun /\ w'.pc = "observe" /\ w'.snap = journal
  <2>1. ~Bound'  BY <1>5 DEF Bound
  <2>2. UNCHANGED journal /\ journal.rec["seed"] # NoRecord /\ journal.rec["terminal"] = NoRecord
        BY <1>5 DEF ReadStepOfRun
  <2>3. SnapStands'  BY <1>1, <1>5, <2>2 DEF SnapStands
  <2> QED  BY <2>1, <2>3 DEF SnapInv, SnapStands
<1>6. CASE DecideStep /\ w.pc = "decide" /\ w'.snap = w.snap
      BY <1>1, <1>2, <1>6 DEF Reading, Bound, SnapInv
<1>7. CASE w'.snap = w.snap /\ w.pc = "observe" /\ w'.pc = "bind"
      BY <1>2, <1>7 DEF Reading, Bound
<1>8. CASE w'.snap = w.snap /\ w.pc = "bind" /\ w.snap.rec["operation"] # NoRecord
      BY <1>2, <1>8 DEF Reading
<1>9. CASE w'.snap = w.snap /\ w.pc \in {"claim", "recheck", "readback"}
      BY <1>1, <1>2, <1>9 DEF Reading, Bound, SnapInv
<1> QED
    BY StepOfRunGoes, <1>3, <1>4, <1>5, <1>6, <1>7, <1>8, <1>9 DEF RunGoes, GoesOn, KeepsRun

\* No gap in the numbers up to the elected run, so no run is due before it.
LEMMA ElectedIsFirst ==
    ASSUME SchedType, Has("seed"), journal.rec["seed"] \in SeedRecord,
           NEW run, NEW slot, NEW t, Elected(run, journal.rec["seed"], slot, t)
    PROVE  First(run, slot, t)
<1> DEFINE seed == journal.rec["seed"]
           inventory == Inventory(seed)
           c == Cardinality(inventory)
<1>1. seed.frontier \in Nat  BY DEF SeedRecord
<1>2. inventory \subseteq visible /\ visible \subseteq DOMAIN sched /\ DOMAIN sched = 1 .. Len(sched)
      /\ Len(sched) \in Nat
      BY DEF Inventory, SchedType
<1>3. c \in Nat
  <2>1. IsFiniteSet(1 .. Len(sched))  BY <1>2, FS_Interval
  <2> QED  BY <1>2, <2>1, FS_Subset, FS_CardinalityType
<1>4. /\ inventory = seed.frontier + 1 .. seed.frontier + c
      /\ run \in Eligible(seed, slot, t) /\ \A n \in Eligible(seed, slot, t) : run <= n
      BY DEF Elected
<1>5. Eligible(seed, slot, t) = {n \in inventory : sched[n] >= t + Cooldown[slot]}
      BY DEF Eligible
<1>6. /\ run \in inventory /\ run \in DOMAIN sched /\ run \in Nat /\ run > seed.frontier
      /\ sched[run] >= t + Cooldown[slot]
      BY <1>2, <1>4, <1>5 DEF Inventory
<1> HIDE DEF inventory, c
<1>7. run \in Due(slot, t)  BY <1>6 DEF Due
<1>8. ASSUME NEW k \in Due(slot, t) PROVE run <= k
  <2>1. k \in Nat /\ k > seed.frontier /\ sched[k] >= t + Cooldown[slot]  BY <1>2 DEF Due
  <2>2. CASE k \in inventory  BY <1>4, <1>5, <2>1, <2>2
  <2>3. CASE k \notin inventory  BY <1>1, <1>3, <1>4, <1>6, <2>1, <2>3
  <2> QED  BY <2>2, <2>3
<1> QED  BY <1>7, <1>8 DEF First

\* What a deciding run has established of the claim it is about to make.
LEMMA DecidedClaim ==
    ASSUME Inv, DecideStep, NEW n, n = native.attempt, n \in {2, 3}, w.pc = "decide"
    PROVE  GoodClaim(n + 1, [by |-> w.run, at |-> w.now, causeAt |-> history[n].at])
<1> DEFINE seed == journal.rec["seed"]
           claim == [by |-> w.run, at |-> w.now, causeAt |-> history[n].at]
<1>1. /\ Infra(n) /\ w.now + Reserve <= Deadline(Seed) /\ w.now >= history[n].at + Cooldown[n + 1]
      /\ Elected(w.run, Seed, n + 1, history[n].at)
      BY DEF DecideStep
<1>2. Seed = seed /\ Has("seed")  BY PathFacts DEF Inv, SnapInv, Reading, Seed, Has
<1>3. seed \in SeedRecord /\ Since(seed.created)  BY <1>2, PathFacts DEF Inv, RecordInv, Good
<1>4. NativeType /\ SchedType /\ RunType  BY TypeParts DEF Inv
<1>5. n \in Attempts \ {1} /\ history[n].at \in Nat  BY <1>4, NativeFields
<1>6. claim \in ClaimRecord /\ claim.by = w.run /\ claim.at = w.now /\ claim.causeAt = history[n].at
      BY <1>4, <1>5, RunFields DEF ClaimRecord
<1>7. claim # NoRecord  BY <1>6, RecordAssumption DEF Records
<1>8. seed.created <= history[n].at  BY <1>1, <1>3, <1>5 DEF Since, Infra
<1>9. First(w.run, n + 1, history[n].at)  BY <1>1, <1>2, <1>3, <1>4, ElectedIsFirst
<1> HIDE DEF claim
<1>10. Valid(claim, seed, n + 1)  BY <1>1, <1>2, <1>6, <1>7, <1>8 DEF Valid
<1> QED  BY <1>2, <1>6, <1>9, <1>10 DEF GoodClaim, claim

LEMMA ClaimStays == ASSUME Inv, [Next]_vars PROVE ClaimInv'
<1>1. ClaimInv /\ Grows /\ native.attempt \in 1 .. 5 /\ native'.attempt \in 1 .. 5 /\ RunGoes
      BY StepGrows, NativeStepType, StepOfRunGoes DEF Inv
<1>2. native.attempt <= native'.attempt  BY <1>1 DEF Grows
<1>3. ASSUME Claiming, KeepsRun
      PROVE  ClaimInv'
  <2>1. w.attempt \in {2, 3} /\ native.attempt >= w.attempt /\ GoodClaim(NextSlot, Claim)
        BY <1>1, <1>3 DEF ClaimInv
  <2>2. w'.attempt \in {2, 3} /\ native'.attempt >= w'.attempt  BY <1>1, <1>2, <1>3, <2>1 DEF KeepsRun
  <2>3. Claim' = Claim /\ NextSlot' = NextSlot  BY <1>3 DEF KeepsRun, Claim, NextSlot
  <2>4. ASSUME NEW slot, NEW r, GoodClaim(slot, r), slot = NextSlot', r = Claim'
        PROVE  GoodClaim(NextSlot, Claim)'
    <3>1. GoodClaim(slot, r)'  BY <2>4, GoodClaimStays
    <3> QED  BY <2>4, <3>1 DEF GoodClaim
  <2> QED  BY <2>1, <2>2, <2>3, <2>4 DEF ClaimInv
<1>4. CASE UNCHANGED w
  <2>1. KeepsRun /\ (Claiming' <=> Claiming)  BY <1>4 DEF KeepsRun, Claiming
  <2> QED  BY <1>3, <2>1 DEF ClaimInv
<1>5. CASE w'.pc \in {"idle", "journal", "observe", "bind", "decide"}
      BY <1>5 DEF ClaimInv, Claiming
<1>6. CASE /\ DecideStep /\ w.pc = "decide" /\ w'.run = w.run /\ w'.now = w.now
           /\ w'.attempt = native.attempt /\ native.attempt \in {2, 3}
           /\ w'.causeAt = history[native.attempt].at
  <2> DEFINE n == native.attempt
             claim == [by |-> w.run, at |-> w.now, causeAt |-> history[n].at]
  <2>1. GoodClaim(n + 1, claim)  BY <1>6, DecidedClaim
  <2>2. NextSlot' = n + 1 /\ Claim' = claim  BY <1>6 DEF NextSlot, Claim
  <2> HIDE DEF n, claim
  <2>3. ASSUME NEW slot, NEW r, GoodClaim(slot, r), slot = NextSlot', r = Claim'
        PROVE  GoodClaim(NextSlot, Claim)'
    <3>1. GoodClaim(slot, r)'  BY <2>3, GoodClaimStays
    <3> QED  BY <2>3, <3>1 DEF GoodClaim
  <2>4. GoodClaim(NextSlot, Claim)'  BY <2>1, <2>2, <2>3
  <2>5. w'.attempt \in {2, 3} /\ native'.attempt >= w'.attempt  BY <1>1, <1>2, <1>6
  <2> QED  BY <2>4, <2>5 DEF ClaimInv
<1>7. CASE KeepsRun /\ w.pc \in {"claim", "recheck", "readback"}  BY <1>3, <1>7 DEF Claiming
<1> QED  BY <1>1, <1>4, <1>5, <1>6, <1>7 DEF RunGoes, GoesOn

LEMMA OwnStays == ASSUME Inv, [Next]_vars PROVE OwnInv'
<1>1. /\ OwnInv /\ ClaimInv /\ SnapInv /\ JournalType /\ RunType /\ RecordStep /\ RecordsStay
      /\ journal.head \in Nat /\ RunGoes
      BY TypeParts, StepOfRecords, JournalStepType, StepOfRunGoes DEF Inv, RecordsStay
<1>2. Claim \in Records /\ Claim # NoRecord
      BY <1>1, ClaimIsRecord, RecordAssumption DEF Records
<1>3. Claiming => NextSlot \in Slots /\ Path(NextSlot) \in Paths /\ Path(NextSlot) # "terminal"
      BY <1>1, PathFacts DEF ClaimInv, NextSlot
<1>4. ASSUME Owning, Owning', KeepsRun
      PROVE  OwnInv'
  <2>1. /\ journal.rec[Path(NextSlot)] = Claim /\ ~Has("terminal")
        /\ \A c \in late : c.path = "terminal" => c.head < journal.head
        BY <1>1, <1>4 DEF OwnInv
  <2>2. Claim' = Claim /\ NextSlot' = NextSlot  BY <1>4 DEF KeepsRun, Claim, NextSlot
  <2>3. journal'.rec[Path(NextSlot)] = Claim
        BY <1>1, <1>2, <1>3, <1>4, <2>1 DEF RecordsStay, Has, Owning, Claiming
  <2>4. w' # Idle(w.run)
    <3>1. w.run \in Runs  BY <1>1 DEF RunType, ScheduledRuns
    <3>2. Idle(w.run).pc = "idle"  BY <3>1, IdleFields
    <3> QED  BY <1>4, <3>2 DEF Owning
  <2>5. ASSUME NEW p \in Paths, NEW record \in Records, LandingStep(p, record) \/ OpenStep(p, record)
        PROVE  p # "terminal"
        BY <1>1, <2>1, <2>4, <2>5, LateHeads DEF LandingStep, OpenStep
  <2>6. ~Has("terminal")'
    <3>1. UnrelatedStep => journal'.rec = journal.rec
          BY <1>1, AdvanceFacts DEF UnrelatedStep, OtherCommit
    <3>2. NoRecordStep => journal'.rec = journal.rec  BY DEF NoRecordStep
    <3>3. \A p, record : OpenStep(p, record) => journal'.rec = journal.rec  BY DEF OpenStep
    <3>4. ASSUME NEW p \in Paths, NEW record \in Records, LandingStep(p, record)
          PROVE  journal'.rec["terminal"] = journal.rec["terminal"]
          BY <1>1, <2>5, <3>4, PutFacts, PathFacts DEF LandingStep
    <3> QED  BY <1>1, <2>1, <3>1, <3>2, <3>3, <3>4 DEF RecordStep, Has
  <2>7. ASSUME NEW c \in late', c.path = "terminal" PROVE c.head < journal'.head
    <3>1. CASE c \in late
      <4>1. c.head \in Nat /\ c.head < journal.head  BY <2>1, <2>7, <3>1, LateHeads
      <4> QED  BY <1>1, <4>1 DEF RecordsStay
    <3>2. CASE c \notin late
      <4>1. NoRecordStep => late' \subseteq late  BY DEF NoRecordStep
      <4>2. UnrelatedStep => late' \subseteq late  BY <1>1, AdvanceFacts DEF UnrelatedStep, OtherCommit
      <4>3. \A p, record : LandingStep(p, record) => late' \subseteq late  BY DEF LandingStep
      <4>4. PICK p \in Paths, record \in Records : OpenStep(p, record)
            BY <1>1, <3>2, <4>1, <4>2, <4>3 DEF RecordStep
      <4>5. c = [head |-> journal.head, path |-> p, record |-> record]  BY <3>2, <4>4 DEF OpenStep
      <4> QED  BY <2>5, <2>7, <4>4, <4>5
    <3> QED  BY <3>1, <3>2
  <2> QED  BY <2>2, <2>3, <2>6, <2>7 DEF OwnInv
<1>5. CASE ClaimStep /\ w.pc = "claim" /\ KeepsRun
  <2>1. Put(Path(NextSlot), Claim) /\ w.snap.head = journal.head /\ UNCHANGED late
        BY <1>5 DEF ClaimStep, Lands
  <2>2. NextSlot \in Slots /\ Path(NextSlot) \in Paths /\ Path(NextSlot) # "terminal"
        BY <1>3, <1>5 DEF Claiming
  <2>3. journal.rec["terminal"] = NoRecord  BY <1>1, <1>5, <2>1 DEF SnapInv, Reading
  <2>4. /\ journal'.head = journal.head + 1 /\ journal'.rec[Path(NextSlot)] = Claim
        /\ journal'.rec["terminal"] = journal.rec["terminal"]
        BY <1>1, <1>2, <2>1, <2>2, PutFacts, PathFacts
  <2>5. \A c \in late : c.head < journal'.head  BY <1>1, <2>4, LateHeads
  <2>6. Claim' = Claim /\ NextSlot' = NextSlot  BY <1>5 DEF KeepsRun, Claim, NextSlot
  <2> QED  BY <2>1, <2>3, <2>4, <2>5, <2>6 DEF OwnInv, Has
<1>6. CASE UNCHANGED w
  <2>1. KeepsRun /\ (Owning' <=> Owning)  BY <1>6 DEF KeepsRun, Owning
  <2> QED  BY <1>4, <2>1 DEF OwnInv
<1>7. CASE w'.pc \notin {"recheck", "readback", "post"}  BY <1>7 DEF OwnInv, Owning
<1>8. CASE KeepsRun /\ w.pc \in {"recheck", "readback"} /\ w'.pc \in {"readback", "post"}
      BY <1>4, <1>8 DEF Owning
<1> QED  BY <1>1, <1>5, <1>6, <1>7, <1>8 DEF RunGoes, GoesOn

----------------------------------------------------------------------------
(* The POSTs, and the attempts they start. *)

LEMMA HelperEnds == ASSUME [Next]_vars, helper.pc = "end" PROVE UNCHANGED helper
<1>1. CASE Helper
      BY <1>1 DEF Helper, ReadForSeal, CreateSeed, Fence, ReadForClaim, ClaimOperation, Reseal,
                  PostAttemptTwo
<1>2. CASE GitHub
      BY <1>2 DEF GitHub, LateCommit, OtherCommit, Tick, Deliver, Complete, Schedule, Reveal,
                  Trouble, Environment
<1>3. CASE ScheduledRun
      BY <1>3 DEF ScheduledRun, Start, ReadJournal, Observe, Bind, Decide, ClaimSlot, Recheck,
                  Readback, PostRerun, Cancel, ReadStep, RunStep
<1>4. CASE Receiver \/ UNCHANGED vars  BY <1>4 DEF Receiver, vars
<1> QED  BY <1>1, <1>2, <1>3, <1>4 DEF Next

LEMMA PostStandsOn ==
    ASSUME Inv, [Next]_vars, NEW n \in 2 .. 4, NEW by \in Nat, PostStands(n, by)
    PROVE  PostStands(n, by)'
<1>1. /\ Grows /\ RecordsStay /\ RunGoes /\ SnapInv /\ w.run \in Nat
      /\ native.attempt \in 1 .. 5 /\ native'.attempt \in 1 .. 5
      BY StepGrows, JournalStepType, StepOfRunGoes, NativeStepType, TypeParts, RunFields DEF Inv
<1>2. native'.attempt >= n - 1  BY <1>1 DEF Grows, PostStands
<1>3. n = 2 => helper'.pc = "end"  BY HelperEnds DEF PostStands
<1>4. ASSUME n \in Slots
      PROVE  /\ Has(Path(n))' /\ journal'.rec[Path(n)].by = by
             /\ by <= w'.run /\ (by = w'.run => w'.pc = "idle")
             /\ Reading' => w'.snap.rec[Path(n)] # NoRecord
  <2>1. /\ Has(Path(n)) /\ journal.rec[Path(n)].by = by /\ Path(n) \in Paths
        /\ by <= w.run /\ (by = w.run => w.pc = "idle")
        /\ Reading => w.snap.rec[Path(n)] # NoRecord
        BY <1>4, PathFacts DEF PostStands
  <2>2. Has(Path(n))' /\ journal'.rec[Path(n)].by = by  BY <1>1, <2>1 DEF RecordsStay
  <2>3. CASE UNCHANGED w  BY <2>1, <2>2, <2>3 DEF Reading
  <2>4. CASE w'.pc = "idle" /\ w'.run = w.run  BY <2>1, <2>2, <2>4 DEF Reading
  <2>5. CASE w'.pc = "journal" /\ w'.run \in Nat /\ w'.run > w.run
        BY <1>1, <2>1, <2>2, <2>5 DEF Reading
  <2>6. CASE ReadStepOfRun /\ w'.run = w.run /\ w'.snap = journal
        BY <2>1, <2>2, <2>6 DEF ReadStepOfRun, Has
  <2>7. CASE w.pc # "idle" /\ Reading /\ w'.run = w.run /\ w'.snap = w.snap
        BY <2>1, <2>2, <2>7
  <2> QED  BY <1>1, <2>3, <2>4, <2>5, <2>6, <2>7 DEF RunGoes, GoesOn, KeepsRun, Reading
<1> QED  BY <1>2, <1>3, <1>4 DEF PostStands

\* The POST a step sends, and that none was sent for its slot before.
LEMMA NewPostStands ==
    ASSUME Inv, [Next]_vars, NEW slot \in 2 .. 4, NEW by \in Nat,
           \/ PostAttemptTwo /\ slot = 2 /\ by = 0
           \/ PostRerun /\ slot = NextSlot /\ by = w.run
    PROVE  PostStands(slot, by)' /\ \A i \in DOMAIN posts : posts[i].slot # slot
<1>1. /\ PostInv /\ HelperType /\ RunType /\ native.attempt \in 1 .. 5 /\ native'.attempt \in 1 .. 5
      /\ native.attempt <= native'.attempt /\ RecordsStay /\ w.run \in Runs /\ w.run \in Nat
      BY TypeParts, NativeStepType, JournalStepType, RunFields DEF Inv, RunType, ScheduledRuns
<1>2. CASE PostAttemptTwo /\ slot = 2
  <2>1. helper'.pc = "end"
    <3>1. \A h \in Helpers : [h EXCEPT !.pc = "end", !.now = 0, !.head = 0].pc = "end"  BY DEF Helpers
    <3> QED  BY <1>1, <1>2, <3>1 DEF PostAttemptTwo, Goes, HelperType
  <2>2. slot \notin Slots  BY <1>2, PathFacts
  <2>3. native'.attempt >= slot - 1  BY <1>1, <1>2
  <2>4. helper.pc # "end"  BY <1>2 DEF PostAttemptTwo
  <2>5. \A i \in DOMAIN posts : posts[i].slot # slot  BY <1>1, <1>2, <2>4 DEF PostInv, PostStands
  <2> QED  BY <2>1, <2>2, <2>3, <2>5 DEF PostStands
<1>3. CASE PostRerun /\ slot = NextSlot /\ by = w.run
  <2>1. /\ w.pc = "post" /\ slot \in Slots /\ w.attempt \in {2, 3} /\ w' = Idle(w.run)
        /\ native.attempt >= w.attempt /\ journal.rec[Path(slot)] = Claim
        BY <1>3, PostRerunFacts
  <2>2. slot = w.attempt + 1 /\ slot # 2  BY <1>3, <2>1 DEF NextSlot
  <2>3. native'.attempt >= slot - 1  BY <1>1, <2>1, <2>2
  <2>4. w'.run = w.run /\ w'.pc = "idle"  BY <1>1, <2>1, IdleFields
  <2>5. Has(Path(slot)) /\ Claim.by = w.run
        BY <1>1, <2>1, ClaimIsRecord, RecordAssumption DEF Has, Records, Claim
  <2>6. Has(Path(slot))' /\ journal'.rec[Path(slot)].by = w.run
        BY <1>1, <2>1, <2>5, PathFacts DEF RecordsStay
  <2>7. PostStands(slot, by)'
        BY <1>1, <1>3, <2>1, <2>2, <2>3, <2>4, <2>6 DEF PostStands, Reading
  <2>8. ASSUME NEW i \in DOMAIN posts, posts[i].slot = slot PROVE FALSE
        BY <1>1, <2>1, <2>5, <2>8 DEF PostInv, PostStands
  <2> QED  BY <2>7, <2>8
<1> QED  BY <1>2, <1>3

LEMMA PostStays == ASSUME Inv, [Next]_vars PROVE PostInv'
<1>1. PostType /\ RunType /\ PostInv /\ w.run \in Runs /\ w.run \in Nat
      BY TypeParts, RunFields DEF Inv, RunType, ScheduledRuns
<1> SUFFICES ASSUME NEW i \in DOMAIN posts', NEW n, NEW by, n = posts'[i].slot, by = posts'[i].by
             PROVE  PostStands(n, by)' /\ \A k \in DOMAIN posts' : posts'[k].slot = n => k = i
    BY DEF PostInv
<1>2. ASSUME i \in DOMAIN posts, n = posts[i].slot, by = posts[i].by PROVE PostStands(n, by)'
  <2>1. n \in 2 .. 4 /\ by \in Nat /\ PostStands(n, by)  BY <1>1, <1>2, PostFields DEF PostInv
  <2> QED  BY <2>1, PostStandsOn
<1>3. CASE UNCHANGED posts  BY <1>1, <1>2, <1>3 DEF PostInv
<1>4. ASSUME NEW slot \in 2 .. MaxAttempt, NEW sender \in Runs, SendPost(slot, sender),
             \/ PostAttemptTwo /\ slot = 2 /\ sender = 0
             \/ PostRerun /\ slot = NextSlot /\ sender = w.run
      PROVE  PostStands(n, by)' /\ \A k \in DOMAIN posts' : posts'[k].slot = n => k = i
  <2> DEFINE last == Len(posts) + 1
  <2>1. /\ DOMAIN posts' = DOMAIN posts \cup {last} /\ last \notin DOMAIN posts
        /\ posts'[last].slot = slot /\ posts'[last].by = sender
        /\ \A k \in DOMAIN posts : posts'[k] = posts[k]
        BY <1>1, <1>4, SendFields
  <2>2. slot \in 2 .. 4 /\ sender \in Nat  BY BoundFacts DEF MaxAttempt, Runs
  <2>3. PostStands(slot, sender)' /\ \A k \in DOMAIN posts : posts[k].slot # slot
        BY <1>4, <2>2, NewPostStands
  <2> HIDE DEF last
  <2>4. CASE i \in DOMAIN posts  BY <1>1, <1>2, <2>1, <2>3, <2>4 DEF PostInv
  <2>5. CASE i = last
    <3>1. n = slot /\ by = sender  BY <2>1, <2>5
    <3> QED  BY <2>1, <2>3, <2>5, <3>1
  <2> QED  BY <2>1, <2>4, <2>5
<1>5. CASE PostAttemptTwo
  <2>1. 0 \in Runs /\ 2 \in 2 .. MaxAttempt /\ SendPost(2, 0)
        BY <1>5, BoundFacts DEF PostAttemptTwo, Runs, MaxAttempt
  <2> QED  BY <1>4, <1>5, <2>1
<1>6. CASE PostRerun
  <2>1. SendPost(NextSlot, w.run) /\ NextSlot \in 2 .. MaxAttempt
        BY <1>6, PostRerunFacts, PathFacts DEF MaxAttempt
  <2> QED  BY <1>1, <1>4, <1>6, <2>1
<1>7. Deliver => UNCHANGED posts  BY DEF Deliver, Environment
<1> QED  BY <1>3, <1>5, <1>6, <1>7, StepKinds

\* A POST that has started an attempt is no longer open.
LEMMA StartedStays ==
    ASSUME Inv, [Next]_vars, NEW slot, StartedBy(slot)
    PROVE  StartedBy(slot)'
<1>1. PostType /\ w.run \in Runs  BY TypeParts DEF Inv, RunType, ScheduledRuns
<1>2. PICK i \in DOMAIN posts \ open : posts[i].slot = slot  BY DEF StartedBy
<1>3. ASSUME NEW n \in 2 .. MaxAttempt, NEW by \in Runs, SendPost(n, by)
      PROVE  i \in DOMAIN posts' \ open' /\ posts'[i] = posts[i]
      BY <1>1, <1>2, <1>3, SendFields
<1>4. CASE UNCHANGED <<posts, open>>  BY <1>2, <1>4 DEF StartedBy
<1>5. CASE Deliver  BY <1>2, <1>5 DEF Deliver, Environment, StartedBy
<1>6. CASE PostAttemptTwo
  <2>1. 0 \in Runs /\ 2 \in 2 .. MaxAttempt /\ SendPost(2, 0)
        BY <1>6, BoundFacts DEF PostAttemptTwo, Runs, MaxAttempt
  <2> QED  BY <1>2, <1>3, <2>1 DEF StartedBy
<1>7. CASE PostRerun
  <2>1. SendPost(NextSlot, w.run) /\ NextSlot \in 2 .. MaxAttempt
        BY <1>7, PostRerunFacts, PathFacts DEF MaxAttempt
  <2> QED  BY <1>1, <1>2, <1>3, <2>1 DEF StartedBy
<1> QED  BY <1>4, <1>5, <1>6, <1>7, StepKinds

\* Attempts the receiver lets through: their slot's POST is the only one left.
LEMMA ReceivedByOwnPost ==
    ASSUME Inv, Receiver
    PROVE  accepted' = accepted \cup {native.attempt} /\ history[native.attempt].via = native.attempt
<1> DEFINE n == native.attempt
           via(a) == history[a].via
<1>1. HistoryInv /\ NativeType /\ PostType  BY TypeParts DEF Inv
<1>2. n \in Slots /\ accepted' = accepted \cup {n} /\ via(n) # 0
      /\ \A k \in 3 .. n : via(k - 1) # 0
      BY DEF Receiver, Infra
<1>3. n \in {3, 4} /\ Attempts = 1 .. 5  BY <1>1, <1>2, PathFacts, NativeFields
<1>4. \A a \in 2 .. n : via(a) # 0
  <2>1. ASSUME NEW a \in 2 .. n, a # n PROVE via(a) # 0
    <3>1. a + 1 \in 3 .. n /\ (a + 1) - 1 = a  BY <1>3, <2>1
    <3> QED  BY <1>2, <3>1
  <2> QED  BY <1>2, <2>1
<1>5. \A a \in 2 .. n : via(a) <= a /\ via(a) \in 2 .. 4
  <2>1. \A a \in 2 .. n : a \in Attempts  BY <1>3
  <2>2. \A i \in DOMAIN posts : posts[i].slot \in 2 .. 4  BY <1>1, PostFields
  <2> QED  BY <1>1, <1>4, <2>1, <2>2 DEF HistoryInv, StartedBy
<1>6. \A a, b \in 2 .. n : a # b => via(a) # via(b)
  <2>1. \A a \in 2 .. n : a \in Attempts  BY <1>3
  <2> QED  BY <1>1, <1>4, <2>1 DEF HistoryInv
<1> HIDE DEF n, via
<1>7. via(2) = 2 /\ via(3) = 3  BY <1>3, <1>5, <1>6
<1>8. via(n) = n  BY <1>3, <1>5, <1>6, <1>7
<1> QED  BY <1>2, <1>8 DEF n, via

\* One more attempt, started by via: a human, or the open POST for that slot.
LEMMA HistoryGrows ==
    ASSUME Inv, [Next]_vars, NEW via \in 0 .. MaxAttempt, Rerun(via),
           via # 0 => /\ via <= native.attempt + 1 /\ StartedBy(via)' /\ ~StartedBy(via),
           troubles' = 0 => via # 0, NEW a \in Attempts
    PROVE  /\ a > native'.attempt => history'[a].via = 0 /\ history'[a].conclusion = "none"
           /\ \A v : v = history'[a].via /\ v # 0 => v <= a /\ StartedBy(v)'
           /\ \A b \in Attempts : a # b /\ history'[a].via = history'[b].via => history'[a].via = 0
           /\ troubles' = 0 /\ a \in 2 .. native'.attempt => history'[a].via # 0
<1> DEFINE n == native'.attempt
<1>1. HistoryInv /\ NativeType /\ Attempts = 1 .. 5 /\ clock \in Times /\ native.attempt \in 1 .. 5
      /\ (troubles' = 0 => troubles = 0)
      BY TypeParts, NativeFields, StepGrows DEF Inv, RestType, Grows
<1>2. /\ n = native.attempt + 1 /\ n \in Attempts /\ history'[n].via = via
      /\ \A b \in Attempts : history'[b].conclusion = history[b].conclusion
      /\ \A b \in Attempts : b # n => history'[b].via = history[b].via
      BY <1>1, RerunFields
<1>3. \A b \in Attempts : history[b].via # 0 => StartedBy(history[b].via) /\ history[b].via <= b
      BY <1>1 DEF HistoryInv
<1> HIDE DEF n
<1>4. a > n => history'[a].via = 0 /\ history'[a].conclusion = "none"
      BY <1>1, <1>2 DEF HistoryInv
<1>5. \A b \in Attempts : b # n /\ history[b].via # 0 => history[b].via # via
      BY <1>3
<1>6. \A b \in Attempts : a # b /\ history'[a].via = history'[b].via => history'[a].via = 0
  <2> SUFFICES ASSUME NEW b \in Attempts, a # b, history'[a].via = history'[b].via
               PROVE  history'[a].via = 0
      OBVIOUS
  <2>1. CASE a # n /\ b # n  BY <1>1, <1>2, <2>1 DEF HistoryInv
  <2>2. CASE a = n  BY <1>2, <1>5, <2>2
  <2>3. CASE b = n  BY <1>2, <1>5, <2>3
  <2> QED  BY <2>1, <2>2, <2>3
<1>7. troubles' = 0 /\ a \in 2 .. n => history'[a].via # 0
  <2> SUFFICES ASSUME troubles' = 0, a \in 2 .. n PROVE history'[a].via # 0  OBVIOUS
  <2>1. CASE a = n  BY <1>2, <2>1
  <2>2. CASE a # n
    <3>1. a \in 2 .. native.attempt  BY <1>1, <1>2, <2>2
    <3> QED  BY <1>1, <1>2, <2>2, <3>1 DEF HistoryInv
  <2> QED  BY <2>1, <2>2
<1>8. ASSUME NEW v, v = history'[a].via, v # 0 PROVE v <= a /\ StartedBy(v)'
  <2>1. CASE a = n  BY <1>2, <1>8, <2>1
  <2>2. CASE a # n
    <3>1. v <= a /\ StartedBy(v)  BY <1>2, <1>3, <1>8, <2>2
    <3> QED  BY <3>1, StartedStays
  <2> QED  BY <2>1, <2>2
<1> QED  BY <1>4, <1>6, <1>7, <1>8 DEF n

LEMMA HistoryStays == ASSUME Inv, [Next]_vars PROVE HistoryInv'
<1>1. HistoryInv /\ NativeType /\ PostType /\ PostInv /\ Attempts = 1 .. 5 /\ clock \in Times
      /\ native.attempt \in 1 .. 5 /\ native'.attempt \in 1 .. 5 /\ native.attempt <= native'.attempt
      BY TypeParts, NativeFields, NativeStepType DEF Inv, RestType
<1>2. ASSUME NEW a \in Attempts
      PROVE  /\ a > native'.attempt => history'[a].via = 0 /\ history'[a].conclusion = "none"
             /\ \A v : v = history'[a].via /\ v # 0 => v <= a /\ StartedBy(v)'
             /\ \A b \in Attempts : a # b /\ history'[a].via = history'[b].via => history'[a].via = 0
             /\ troubles' = 0 /\ a \in 2 .. native'.attempt => history'[a].via # 0
  <2>1. troubles' = 0 => troubles = 0  BY StepGrows DEF Grows
  <2>2. ASSUME native'.attempt = native.attempt,
               \A b \in Attempts : /\ history'[b].via = history[b].via
                                   /\ b > native.attempt => history'[b].conclusion = history[b].conclusion
        PROVE  /\ a > native'.attempt => history'[a].via = 0 /\ history'[a].conclusion = "none"
               /\ \A v : v = history'[a].via /\ v # 0 => v <= a /\ StartedBy(v)'
               /\ \A b \in Attempts : a # b /\ history'[a].via = history'[b].via => history'[a].via = 0
               /\ troubles' = 0 /\ a \in 2 .. native'.attempt => history'[a].via # 0
    <3>1. ASSUME NEW v, v = history'[a].via, v # 0 PROVE v <= a /\ StartedBy(v)'
      <4>1. v <= a /\ StartedBy(v)  BY <1>1, <2>2, <3>1 DEF HistoryInv
      <4> QED  BY <4>1, StartedStays
    <3>2. a > native'.attempt => history'[a].via = 0 /\ history'[a].conclusion = "none"
          BY <1>1, <2>2 DEF HistoryInv
    <3>3. \A b \in Attempts : a # b /\ history'[a].via = history'[b].via => history'[a].via = 0
          BY <1>1, <2>2 DEF HistoryInv
    <3>4. troubles' = 0 /\ a \in 2 .. native'.attempt => history'[a].via # 0
          BY <1>1, <2>1, <2>2 DEF HistoryInv
    <3> QED  BY <3>1, <3>2, <3>3, <3>4
  <2>3. CASE UNCHANGED <<native, history>>  BY <2>2, <2>3
  <2>4. CASE Complete
    <3>1. /\ native'.attempt = native.attempt
          /\ \A b \in Attempts : /\ history'[b].via = history[b].via
                                 /\ b # native.attempt => history'[b] = history[b]
          BY <1>1, <2>4, CompleteFields
    <3> QED  BY <1>1, <2>2, <3>1
  <2>5. CASE Trouble /\ Rerun(0)
    <3>1. troubles' # 0  BY <2>5, RestStepType DEF Trouble
    <3> QED  BY <2>5, <3>1, HistoryGrows DEF MaxAttempt
  <2>6. ASSUME NEW i \in open, open' = open \ {i}, UNCHANGED <<posts, troubles>>, Rerun(posts[i].slot)
        PROVE  /\ a > native'.attempt => history'[a].via = 0 /\ history'[a].conclusion = "none"
               /\ \A v : v = history'[a].via /\ v # 0 => v <= a /\ StartedBy(v)'
               /\ \A b \in Attempts : a # b /\ history'[a].via = history'[b].via => history'[a].via = 0
               /\ troubles' = 0 /\ a \in 2 .. native'.attempt => history'[a].via # 0
    <3>1. PICK slot : slot = posts[i].slot  OBVIOUS
    <3>2. i \in DOMAIN posts /\ slot \in 2 .. 4 /\ slot \in 0 .. MaxAttempt
          BY <1>1, <3>1, PostFields DEF MaxAttempt
    <3>3. slot <= native.attempt + 1  BY <1>1, <3>1, <3>2 DEF PostInv, PostStands
    <3>4. StartedBy(slot)'  BY <2>6, <3>1, <3>2 DEF StartedBy
    <3>5. ~StartedBy(slot)  BY <1>1, <3>1, <3>2 DEF StartedBy, PostInv
    <3>6. Rerun(slot)  BY <2>6, <3>1
    <3> QED  BY <3>2, <3>3, <3>4, <3>5, <3>6, HistoryGrows
  <2> QED  BY <2>3, <2>4, <2>5, <2>6, StepOfNative DEF NativeMoves
<1>3. troubles' = 0 => ~drift'
  <2>1. Trouble => troubles' # 0  BY RestStepType DEF Trouble
  <2> QED  BY <1>1, <2>1, StepKinds DEF HistoryInv
<1>4. ASSUME NEW n \in accepted' PROVE n <= native'.attempt /\ history'[n].via = n
  <2>1. CASE n \in accepted
    <3>1. n <= native.attempt /\ history[n].via = n /\ n \in Slots
          BY <1>1, <2>1, TypeParts DEF HistoryInv, Inv, RestType
    <3>2. n \in Attempts /\ n \in Nat  BY <1>1, <3>1, PathFacts
    <3>3. UNCHANGED history => history'[n].via = n  BY <3>1
    <3>4. Complete => history'[n].via = n  BY <1>1, <3>1, <3>2, CompleteFields
    <3>5. ASSUME NEW via \in 0 .. MaxAttempt, Rerun(via) PROVE history'[n].via = n
          BY <1>1, <3>1, <3>2, <3>5, RerunFields
    <3>6. Rerun(0) => history'[n].via = n  BY <3>5 DEF MaxAttempt
    <3>7. ASSUME NEW i \in open, Rerun(posts[i].slot) PROVE history'[n].via = n
      <4>1. posts[i].slot \in 0 .. MaxAttempt  BY <1>1, PostFields DEF MaxAttempt
      <4> QED  BY <3>5, <3>7, <4>1
    <3> QED  BY <1>1, <3>1, <3>2, <3>3, <3>4, <3>6, <3>7, StepOfNative DEF NativeMoves
  <2>2. CASE n \notin accepted
    <3>1. Receiver  BY <1>4, <2>2, StepKinds
    <3>2. n = native.attempt /\ history[n].via = n  BY <1>4, <2>2, <3>1, ReceivedByOwnPost
    <3>3. UNCHANGED <<native, history>>  BY <3>1 DEF Receiver, github
    <3> QED  BY <1>1, <3>2, <3>3
  <2> QED  BY <2>1, <2>2
<1> QED  BY <1>2, <1>3, <1>4 DEF HistoryInv
----------------------------------------------------------------------------
(* The invariant. *)

LEMMA InitialTypes == ASSUME Init PROVE TypeOK
<1>1. JournalType
  <2>1. [p \in Paths |-> NoRecord] \in [Paths -> Records \cup {NoRecord}]  OBVIOUS
  <2> QED  BY <2>1 DEF Init, JournalType, Journals
<1>2. JournalCount
  <2>1. {p \in Paths : Has(p)} = {}  BY DEF Init, Has
  <2>2. journal.head = 0 /\ others = 0  BY DEF Init
  <2> QED  BY <2>1, <2>2, FS_EmptySet DEF JournalCount
<1>3. NativeType
  <2>1. 0 \in Times /\ 0 \in 0 .. MaxAttempt /\ 1 \in Attempts  BY BoundFacts DEF Times, MaxAttempt, Attempts
  <2>2. \A c \in {"none", "other"} : [start |-> 0, at |-> 0, via |-> 0, conclusion |-> c] \in AttemptRecords
        BY <2>1 DEF AttemptRecords
  <2> QED  BY <2>1, <2>2 DEF Init, NativeType
<1>4. PostType /\ SchedType  BY BoundFacts DEF Init, PostType, SchedType
<1>5. RunType
  <2>1. 0 \in Runs  BY BoundFacts DEF Runs
  <2>2. w \in ScheduledRuns /\ w.run = 0  BY <2>1, IdleFields DEF Init
  <2>3. Len(sched) = 0  BY DEF Init
  <2> QED  BY <2>2, <2>3 DEF RunType
<1>6. HelperType
  <2>1. 0 \in Times /\ 0 \in Nat /\ FALSE \in BOOLEAN  BY BoundFacts DEF Times
  <2> QED  BY <2>1 DEF Init, HelperType, Helpers
<1>7. RestType
  <2>1. 0 \in Times /\ 0 \in 0 .. MaxOther /\ 0 \in 0 .. MaxTrouble  BY BoundFacts DEF Times
  <2>2. clock = 0 /\ others = 0 /\ troubles = 0 /\ drift = FALSE /\ observed = FALSE /\ accepted = {}
        BY DEF Init
  <2> QED  BY <2>1, <2>2 DEF RestType
<1> QED  BY <1>1, <1>2, <1>3, <1>4, <1>5, <1>6, <1>7, TypeParts

LEMMA InitInv == Init => Inv
<1> SUFFICES ASSUME Init PROVE Inv  OBVIOUS
<1>1. \A p \in Paths : ~Has(p)  BY DEF Init, Has
<1>2. RecordInv /\ ClosedInv /\ LateInv  BY <1>1, PathFacts DEF Init, RecordInv, ClosedInv, LateInv
<1>3. w.pc = "idle" /\ helper.pc = "seal"
  <2>1. 0 \in Runs  BY BoundFacts DEF Runs
  <2> QED  BY <2>1, IdleFields DEF Init
<1>4. SnapInv /\ ClaimInv /\ OwnInv /\ HelperInv
      BY <1>3 DEF SnapInv, ClaimInv, OwnInv, HelperInv, Reading, Bound, Claiming, Owning
<1>5. PostInv  BY DEF Init, PostInv
<1>6. HistoryInv
  <2>1. \A a \in Attempts : history[a].via = 0 /\ (a # 1 => history[a].conclusion = "none")
        BY DEF Init
  <2>2. native.attempt = 1 /\ ~drift /\ accepted = {}  BY DEF Init
  <2> QED  BY <2>1, <2>2 DEF HistoryInv
<1> QED  BY InitialTypes, <1>2, <1>4, <1>5, <1>6 DEF Inv

LEMMA NextInv == Inv /\ [Next]_vars => Inv'
    BY TypeStep, RecordStays, LateStays, ClosedStays, SnapStays, HelperStays, ClaimStays, OwnStays,
       PostStays, HistoryStays DEF Inv

LEMMA InvHolds == Spec => []Inv
    BY InitInv, NextInv, PTL DEF Spec
----------------------------------------------------------------------------
(* Theorems. *)

\* Types, and that the branch counts one commit for each record written and
\* each unrelated one: no path is ever written twice (Journal.create).
THEOREM JournalIsTyped == Spec => []TypeOK
    BY InvHolds, PTL DEF Inv

\* recover_bound: a slot is consumed by its run's claim before the rerun of it
\* is posted, and no lost answer, late commit or later run posts it again.
THEOREM ConsumedBeforePosted == Spec => []ConsumedBeforePost
<1>1. Inv => ConsumedBeforePost
  <2> SUFFICES ASSUME Inv PROVE ConsumedBeforePost  OBVIOUS
  <2> QED  BY DEF Inv, PostInv, PostStands, ConsumedBeforePost, Has
<1> QED  BY <1>1, InvHolds, PTL

\* elected_claimant: whatever the API hides or reveals later, the slot's claim
\* is of the first scheduled run after the cooldown that exists.
THEOREM OwnerIsFirstDue == Spec => []OwnerIsFirst
<1>1. Inv => OwnerIsFirst
  <2> SUFFICES ASSUME Inv, NEW n \in Slots, Has(Path(n))
               PROVE  First(journal.rec[Path(n)].by, n, journal.rec[Path(n)].causeAt)
      BY DEF OwnerIsFirst, First, Due, Has
  <2>1. GoodClaim(n, journal.rec[Path(n)])  BY PathFacts DEF Inv, RecordInv, Good
  <2> QED  BY <2>1 DEF GoodClaim
<1> QED  BY <1>1, InvHolds, PTL

\* receiver: what it lets verify was started by the rerun posted for that very
\* slot, though a human, or a POST that took effect late, may start attempts.
THEOREM AcceptedByOwnPost == Spec => []AcceptedWasPosted
<1>1. Inv => AcceptedWasPosted  BY DEF Inv, HistoryInv, AcceptedWasPosted
<1> QED  BY <1>1, InvHolds, PTL

\* recover: a candidate is closed as drifted only after something changed; lost
\* and late answers and dropped runs alone never make a claim look missing.
THEOREM DriftIsReal == Spec => []NoFalseDrift
<1>1. Inv => NoFalseDrift
  <2> SUFFICES ASSUME Inv, troubles = 0, Has("terminal")
               PROVE  journal.rec["terminal"].state # "contract-drift"
      BY DEF NoFalseDrift, Has
  <2>1. GoodTerminal(journal.rec["terminal"])  BY PathFacts DEF Inv, RecordInv, Good
  <2> QED  BY <2>1 DEF GoodTerminal
<1> QED  BY <1>1, InvHolds, PTL

\* terminal: after it no slot is claimed, by an open commit of a claim or by the
\* run that is at work, and no rerun for a slot is posted.
THEOREM NothingAfterTerminal == Spec => TerminalIsFinal
<1> DEFINE Step ==
      Has("terminal") => /\ journal'.rec = journal.rec
                         /\ \A i \in DOMAIN posts' \ DOMAIN posts : posts'[i].slot \notin Slots
<1>1. Inv /\ [Next]_vars => Step
  <2> SUFFICES ASSUME Inv, [Next]_vars, Has("terminal") PROVE Step  OBVIOUS
  <2>1. JournalType /\ PostType /\ w.run \in Runs /\ RecordStep
        BY TypeParts, StepOfRecords DEF Inv, RunType, ScheduledRuns
  <2>2. Has("seed") /\ Has("operation")  BY PathFacts DEF Inv, RecordInv, Good, GoodTerminal
  <2>3. journal'.rec = journal.rec
    <3>1. UnrelatedStep => journal'.rec = journal.rec
          BY <2>1, AdvanceFacts DEF UnrelatedStep, OtherCommit
    <3>2. NoRecordStep => journal'.rec = journal.rec  BY DEF NoRecordStep
    <3>3. \A p, record : OpenStep(p, record) => journal'.rec = journal.rec  BY DEF OpenStep
    <3>4. \A p \in Paths : \A record : ~LandingStep(p, record)
          BY <2>2, PathFacts DEF LandingStep, Claims
    <3> QED  BY <2>1, <3>1, <3>2, <3>3, <3>4 DEF RecordStep
  <2>4. ASSUME NEW i \in DOMAIN posts' \ DOMAIN posts PROVE posts'[i].slot \notin Slots
    <3>1. ~PostRerun  BY PostRerunFacts
    <3>2. ~(posts' = posts)  BY <2>4
    <3>3. Deliver => posts' = posts  BY DEF Deliver, Environment
    <3>4. PostAttemptTwo  BY <3>1, <3>2, <3>3, StepKinds
    <3>5. 0 \in Runs /\ 2 \in 2 .. MaxAttempt /\ SendPost(2, 0)
          BY <3>4, BoundFacts DEF PostAttemptTwo, Runs, MaxAttempt
    <3>6. posts'[i].slot = 2  BY <2>1, <2>4, <3>5, SendFields
    <3> QED  BY <3>6, PathFacts
  <2> QED  BY <2>3, <2>4
<1>2. Inv /\ [Next]_vars => [Step]_vars  BY <1>1
<1>3. [][Step]_vars => TerminalIsFinal  BY DEF TerminalIsFinal, Has
<1> QED  BY <1>2, <1>3, InvHolds, PTL DEF Spec
================================================================================
