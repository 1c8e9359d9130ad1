# Formal model of lit.supplementary

This directory is a TLA+ verification project for the Ansible collection
`lit.supplementary` (repository `ansible-collection-supplementary`). It models
the parts of the collection whose correctness is a matter of ordering, crashes
and concurrency, or of evidence that passes through many programs; checks them with
TLC on small instances, and proves the most important results with TLAPS for every
instance.

Line numbers are those of the modelled commit; `PROJECT.json` maps every
definition to its lines.

## 1. Inventory

The repository has three layers: Ansible plugins and roles that run on managed
hosts, Python scripts and workflows that govern reviews and releases on GitHub,
and tooling around both (quality evidence, validators, push readiness).

| Component | State | Operations | Talks to |
| --- | --- | --- | --- |
| `plugins/modules/atomic_path.py` | one directory entry, a private workspace, a flock on the parent | verified replacement, creation, no-op, check mode | other programs on the directory, `forward_proxy` |
| `plugins/modules/atomic_unlink.py` | one directory entry, a private quarantine | verified removal, restore | as above |
| `scripts/native_verifier_retry.py` (LI-259) | records of a journal branch, the native run's attempts | scheduled `recover`, helper fence and seal, `receiver` | GitHub API; `current-revision-rerun.yml`; `review-infrastructure-retry.yml` |
| `scripts/review_request_continuation.py` (LI-219) and the request job of `copilot-review.yml` | deferred intents and claims in the same journal | the producer's request, `defer`, `locate`, `resume`, `verify_receipt` | GitHub's reviews and reviewer requests, the rerun helper |
| `scripts/review-event-reconcile.py` | none of its own | redispatches lost companion events | both of the above |
| `scripts/bounded_review*.py` | a manifest, a serial admission ledger, a provider budget | `partition`, `plan`, `reserve`, `finish`, `admit_tokens`, `complete`, `abandon` | the model provider |
| `scripts/materialize-exact-revision-review.py`, `scripts/exact_revision_gateway.py` and the job of the protected review | a workspace of the expected revision, one receipt or failure file, one public result | materialize, `serve`, `submit`, `fail`, a deadline, collect, consume, report | the provider transport, GitHub |
| `scripts/lit-push-ready.py` and its pre-push hook | an evidence file, the installed hook, integration directories, tracking refs | `push-ready`, `verify`, the hook of each push | git, the remote, the developer's checkout |
| `scripts/validate-role-coverage.py` | none; a registry and the files generated from it | `validate_registry`, `build_matrix`, the generated tables | the matrix of `collection-ci.yml` |
| `scripts/select-quality-impact.py` | none | which profiles a change runs | the jobs of `collection-ci.yml` |
| `scripts/quality_evidence.py` | evidence roots with manifest and checksums, one per cell and one per run | `record`, `assemble`, `validate` | the cells of the matrix, the aggregate, the admission |
| `scripts/release_security_admission.py` | none; job results and one downloaded bundle | prerequisites, artifacts, validate, complete | `collection-ci.yml`, artifacts kept across attempts |
| `scripts/modulix-validation-receipt.py` | a bound (run, attempt) | dispatch if absent, poll, receipt | a controller repository |
| `scripts/nexus-galaxy-v3-stage.py` | a remote artifact | upload if absent, read back | Nexus |
| other security release, promotion, back-sync scripts | protected branches and their evidence | one stage each | workflows |
| roles | services on a host | Ansible task lists | Ansible, containers; `forward_proxy` uses the two modules |

What is hard, and what makes each part correct:

* **atomic_path / atomic_unlink.** Other programs act on the same names at any
  step; power may fail; any system call may fail. Correct means: the entry never
  names a partly written file; nobody's file is lost unseen; success is only
  reported for a committed state; what is left behind is named in the result.
* **Journal-based protocols (LI-219, LI-259).** A commit or a POST whose answer is
  lost may take effect, at once, later or never; listings lag; humans and several
  workflows act on the same run. Correct means: no effect without its own record,
  no effect twice, no success on another actor's effect, terminal states are final.
* **Budgets (bounded review, gateway).** An outcome nobody knows must be treated as
  spent. Correct means: no sequence of calls spends more than the policy.
* **Exact revision review.** Job, gateway, engine and collector run at once, each may
  die, and a file write may fail after the file exists. Correct means: only what the
  provider said about the revision that is still live is reported.
* **Push readiness.** Evidence is produced over minutes in a checkout that goes on
  changing, against a base that moves, and is used later. Correct means: what the hook
  lets through is what was checked, on the base it was checked on, and not for too long.
* **Quality evidence and release admission.** Each program derives its own view of the
  same tests: registry, matrix, cell, aggregate, validation, admission. A report may be
  missing, torn, foreign, doubled or from an older attempt of the run, and attempts mix.
  Correct means: what is admitted was run in the admitted attempt, listed and clean, and
  a run without trouble is admitted, so that no two programs disagree on a good report.
* **Release flows.** Two branches and artifacts outside the repository change
  between the stages that check them.

## 2. Plan

Order, most important behaviour first.

1. `FileEntries`, `AtomicPath`, with `AtomicPathProofs` (done).
2. `AtomicUnlink`, with `AtomicUnlinkProofs` (done).
3. `ReviewJournal`, `VerifierRetry` (done).
4. `RequestContinuation`, with `RequestContinuationProofs` (done: types and every
   safety property).
5. `ReviewPartition` against any choice of ends; `ReviewBudget` (both ledgers of the
   bounded review), which implements the abstract `SpendLimit` (done).
6. `RevisionGateway`: the whole protected review (done).
7. `PushReadiness`: run and hook (done).
8. `RoleCoverage`, `QualityImpact`, `EvidenceFiles`, `ReleaseInputs` and
   `QualityEvidence`, the operators that `ReleaseTrain` composes (done).
9. Left: `AtomicDirectory` (state=directory); a composition of AtomicPath and
   AtomicUnlink on one entry with the calling pattern of `forward_proxy`; ModuLix
   receipts and Nexus staging; promotion and back-sync; `verify_receipt` and the
   provenance of a receipt; the redispatch of lost verifier reruns by the reconciler.

Proved: every safety property of `AtomicPath`, `AtomicUnlink`, `VerifierRetry`,
`RequestContinuation`, `ReviewPartition`, `ReviewBudget` (with its refinement of
`SpendLimit`), `RevisionGateway` and `PushReadiness`, and three of the four properties of
`ReleaseTrain` (section 5 says why the fourth stays with TLC).

## 3. Modules

### FileEntries

What a directory entry and an inode are to the two modules. An inode carries its
content, a version (mtime, size), a change counter (ctime), whether its owner and
mode are the wanted ones (`ok`) and whether its data reached the disk (`synced`).
`Stat` is `os.stat`; `SameIdentity` and `SameSnapshot` are the code's
`_same_identity` and `_same_entry_snapshot`, which differ in ctime. A ctime cannot
be forged; an mtime can be restored. `Relinked` is what rename and link do to an
inode (ctime only), `Rewritten` what a write does.

### AtomicPath

`_write_file` (673-876), the module's helpers and the end of `main`. A writer's `pc`
names its next step; each step is one system call or a group nobody can get between
with an effect. `Guarded` steps are those inside the `try`: every failure there is
`Abort`, the `except` clause, which rolls a creation back (`Rollback`,
`VerifyCaptured`: `_capture_and_remove`) or keeps the displaced entry, and goes to
the `finally` clause (`Close`, `RemoveWorkspace`). `Post1` and `Post2` are the last
revalidation after cleanup. The environment replaces, rewrites, relinks or deletes
the entry, renames the parent, kills a writer, or cuts the power.

A writer's workspace is private (mode 0700): no other program acts in it. The
directory entry that survives a power loss is any entry it had since it was last
synced (`durable`), and data that was not synced is lost (`Torn`).

Three details the model keeps because the code has them: a failed `fstat` in the
`finally` clause reports the workspace's `payload` even when it is absent; an
`exchange` that displaced a foreign file keeps it in the workspace and reports it; and a
report is composed from the path of the open parent (`FailNaming`: `_descriptor_path`,
whose three ways to read it count as one call). When that read fails, its `OSError`
replaces the report and `main` (932-933) fails without a recovery path while the workspace
stays: `report` is then "lost". RETURN (96) promises the path "whenever private cleanup is
uncertain"; the code keeps that promise with this one exception, which
`LeftoversReported` states. That the parent directory is itself removed is left out.

### AtomicUnlink

All of `main()`: the stat, open, checksum and last look; the quarantine; the hard
link of the verified inode; the rename of whatever the path names by then; the
inspection and recheck of what was moved; the restore by link; the removal and the
leftovers. Removers take no lock. Things the model shows and the code does:
`cleaned` never becomes true when a restore leaves `verified` behind; the recovery
path always names `verified`; a close of the quarantine that fails ends the run without
the result it had; nothing is synced, so no durability is claimed.

### ReviewJournal

The branch `lit-review-operations` that both review protocols write: `journal` is its
head and the record at each path. `Create` is `Journal.create`, one compare-and-swap
on the head the writer read. It offers three continuations: the commit is confirmed,
rejected (`ConfirmedIntentConflict`), or nothing is known (`UnknownWriteResult`); in
the last case it was applied, was not, or will be later (`late`, `Resolve`).
`VerifierRetry` and `RequestContinuation` extend this module.

### VerifierRetry

One native verifier run. `Commit` is `Create` for writers that treat a rejection and
an unknown answer alike. The helper (attempt two), one
scheduled run at a time (the workflow's concurrency group), the receiver, humans and
GitHub's own scheduling are separate actors. `posts` are the rerun POSTs, each
delivered at most once, possibly after its sender gave up. A step of a scheduled run
is a group of reads, a journal write, or a POST, in the order of `recover_bound`.
Time is in units of 20 minutes. `drift` stands for any live binding that differs
from the sealed contract. `SnapshotHolds` is what a sweep compares of the live run with
its contract; the receiver's reads are taken at one instant.

Note: `scheduler_frontier` takes the newest run listed when the contract is sealed. If
that listing missed a run, the inventory of a later election is not continuous and no
run is elected: safe, without progress. The model has this behaviour and no property
excludes it.

### RequestContinuation

One pull request whose head and base move (a push may go back to an earlier head), and
the one funded Copilot request each head may get.

* A producer run (`Queue` to `Conclude`) is the request job of `copilot-review.yml`: it
  looks for a review of its head (`Look`), for a pending reviewer and for markers
  (`Pend`), and then defers (`Defer`, `RecordIntent`, `Again`, `Readback`, `Fence`) or
  claims and requests (`ReadForClaim`, `Claim`, `AssertHead`, `Post`, `Mark`). The
  concurrency group lets one job run and one wait (`Start`, `Drop`). A job that ended
  well still fails its verification when the review is missing (`Conclude`).
* A resume run (`Dispatch` to `PostResume`) is `locate` or the reconciler's
  `reconcile_candidate`, then `resume`. Several may run for one intent.
* `Move`, `Ask`, `Review`, `ClearPending` are the people and Copilot; `ClaimRerun`,
  `Rerun` the rerun of the verifier, which excludes a continuation; `OtherCommit`
  moves the journal's head; `LateCommit` settles an unanswered commit.
* `Fault` counts failed reads, cancelled jobs and lost answers.

A base is the number of its moves. `pending` is what the reviewer list says of the pull
request, whatever the head, and may be stale. Drafts, closed pull requests, ref names
and the seven-day limits are left out: a run that meets them stops, as it does in
`StopProducer` and `StopResume`. A job that stops while it claims may end well
(`claim_review_operation || exit 0`); `Conclude` then finds no review. A POST that takes effect after its answer was lost is
`Ask`. A run reads one page of reviews or comments at one instant.

Two behaviours worth knowing, which fail closed and which no property excludes. An
intent that is committed late by a job which then failed is never continued, and it
keeps later jobs of the same head from recording one, although their `defer` ends well.
The same holds of an intent for a base that moved on: the key names the head only.

### ReviewPartition

`inventory`'s records, `plan` and the scan of `partition`. A byte is one of the five
classes the scan tells apart: plain, the lead and the continuation of a UTF-8 character,
CR, LF; an offset is the number of bytes before it, and a record or a unit is named by its
end. One `MergeRange` is one turn of the loop of `plan` over the sorted group ranges,
`Prepare` is `partition` up to its loop (the preferred cuts and `fits(0, max_units)`), one
`Cut` is one turn of that loop (`ChosenEnd`: a preferred cut if the tail still fits, else
the farthest legal end), `Admit` charges the number of units against time and cost. The
refusals inside the loop are kept as states of their own, although none can be reached.
`Coverable` is the reference: some choice of ends that splits neither characters nor
ranges covers the tail within the units left.

### SpendLimit, ReviewBudget

`SpendLimit` is what the review admission promises: money is committed before it can be
billed, a commitment shrinks only to what was billed, and never exceeds the limit.

`ReviewBudget` is `Admission` (`ReserveReview`, `FinishReview`), the `ResponseBudget` each
reserved review opens (`ReserveRequest`, `AdmitAndSend`, `Complete`, `Abandon`), and the
`exchange` that drives it. The caller may call the ledger in any order. `upstream` holds
the requests that reached the model and are not billed yet: `LoseWorker` is a worker that
ends without knowing the outcome, `ProviderBills` a bill that comes whatever became of
it. `charged` and `bills` are running totals over all
reviews: of what the budgets hold charged, and of the provider's exact bills. Under the
refinement mapping (`Spend`), `committed` is the one, in the unit of the other.

### RevisionGateway

One run of the protected review, from `ReadLive` to `Report`. The job materializes the
expected revision, installs the gateway, runs the engine, consumes the collector's
result, materializes again (`VerifyFirst`, `Verify`: a live read, then a second one with
the comparison) and reports with a PATCH that may fail before or after its effect. The gateway serves one request
(`ReceiveRequest`, `ProviderAnswers`, `AnswerLost`), writes one receipt or failure
(`WriteReceipt`, `FailReview`), leaves its loop, releases the collector and publishes.
`late` is the deadline, `public` the files of the root-owned directory. Each write may
fail after the file exists, each process may die, and the pull request moves at any
step.

### PushReadiness

The `push-ready` command and the pre-push hook, step by step. A run goes through `Load`,
`RequireCleanHead`, `RefreshAuthoritativeBase`, the plan (`PlanBegin`, `PlanRead`,
`PlanEnd`: fingerprint, refs and diff, fingerprint), the review policy, the integration
worktree and its checks, a second plan compared with the first (`Recheck`,
`ComparePlans`), the scan of the sanitized workspace, the hook and the record
(`WriteBegin`, `WritePayload`, `ReplaceEvidence`). A push goes through the first steps
again and then compares everything the record binds (`VerifyEvidence`) and the update git
announced (`VerifyUpdates`); `ServerTakes` is git's own compare-and-swap. The
`verify` command is the hook without its updates.

The developer edits (a file, the configuration, a hidden index entry), commits and
switches branches between any two steps; bases move; another clone pushes; time passes;
a killed run leaves its integration directory. The order is the code's: the
configuration is loaded before the head is known to be clean, and branch and
configuration are read again as the record is built. Review agents are disabled by the
policy this repository ships, which a run may not change; pushes that bypass the hook
(`--no-verify`) are out of the model. An edit that is part of a planned patch is taken to
leave the secret-like lines of the head in it: a run whose plans, scan and hook all met
the same edit, undone around each of them, is left out.

### RoleCoverage, QualityImpact, EvidenceFiles, ReleaseInputs, QualityEvidence

Pure operators, one per rule of the scripts, over records for the documents.

* `RoleCoverage`: what `validate-role-coverage.py` accepts of a registry, of a scenario's
  structure (required phases, reachable roles, substantive checks, reports, cleanup) and
  of the generated files (`Accepted`, `Validated`), and the CI matrix (`BuildMatrix`).
  `ReachableRoles` follows imports and evaluates conditions as the script does: `Calls[n]`
  holds the calls of the recursive function below `n` others, with what each is handed, and
  `ActiveRoles` goes into blocks the same way, `MaxNesting` deep (no molecule
  playbook of the repository goes deeper: tasks, a block, a block in it). A phase that configures no playbook has the
  one of its own name (`PlaybookOf`).
* `QualityImpact`: which profiles a change selects.
* `EvidenceFiles`: which files are collected, what redaction removes, what the secret
  scan finds, and the checksum list.
* `ReleaseInputs`: the security documents, dependency inventories and prerequisite jobs.
* `QualityEvidence`: `parse_junit`, `record`, `assemble` and `validate`. A report has
  testcases with roles, statuses and approvals; identity and commit may be declared or
  inferred. `Assembled` builds results, cells, blockers and the bundle; `Validates` is
  every check made of a finished bundle, the ones that derive results again from its own
  reports included (`Rederived`).

A bundle that its last scan, after the checksums, finds unclean is not left behind
(`Sealed`). A document's `wellFormed` stands for its field and pattern checks. Archives inside
archives are left out.

### ReleaseTrain

The jobs of `collection-ci.yml` around these operators, for one pushed commit: local
checks (`RunLocal`), role coverage (`RunCoverage`), the matrix and selection
(`RunMatrix`), the cells (`RunCell`), the aggregates, the release assembly
(`RuntimeEvidence`) and the admission (`Admission`). `Needs` and `NeedsOf` are the
workflow's `needs`, `Ended` the end of an attempt, and `Rerun` the two ways GitHub offers
to start a run again: all jobs, or the failed ones with what depends on them; what is not
run again keeps the evidence of its own attempt. `Before` is everything a job waits for,
directly or not. `AttemptNames` are the values of GITHUB_RUN_ATTEMPT, of which the module
assumes only that they differ; it assumes too that the source tree has finitely many
playbooks and that the pushed commit has a name. `Eligible` are the conditions of the
three groups of cells; no push is classified a security release here, so the actor does
not count. Heavy and acceptance cells run in a reusable workflow of another repository,
taken to act as `run-quality-profile`.

Each job may have one trouble. For a cell: a failing test, a nonzero exit, no report, a
torn one, a missing role, a report of a foreign commit, two reports, no Allure results, a
skipped test, a secret left in a log, an unlisted container, no inventory, a lost upload,
an archive that cannot be expanded, a second Allure directory, a `record` that fails on
the files it wrote.
For the release job: a vulnerable candidate, no SBOM, a secret in a document, a crash
between the two renames that replace the evidence root, a lost upload. For the
admission: a torn download. `ran` is the ground truth no program computes: which roles
some chain of imports really ran, and with what outcome.

Behaviours worth knowing, which fail closed and which no property excludes:

* a partial rerun is admitted only when it reran every cell (after a failed build, say);
  otherwise the evidence of the cells that were not run again belongs to an older attempt;
* a scenario that production and experimental roles share could never pass: the raw
  report lists the roles of the scenario, the recorded copy only those of the cell. The
  registry has no such scenario;
* a skipped test never passes a cell, not even with an approved reason;
* the validator reads conditions level by level, so an inner redefinition of a switch
  variable would be judged differently by Ansible. No instance here has one.

## 4. Runs

| Run | Instance | Shows |
| --- | --- | --- |
| `path_one` | one writer, any of four requests, two foreign steps, two faults, kills, power losses | types, no torn entry, no silent loss, leftovers named, success committed, no-op truthful |
| `path_race` | two writers, one foreign step, no fault, fairness | the lock keeps writers apart, writers finish, the lock is given back |
| `unlink_race` | two removers in any request form, two foreign steps, one fault, symmetric | no silent loss, leftovers reported, one removal reported once, a foreign entry is put back when its name is free |
| `unlink_recovery` | one remover (violation) | the recovery path is bound to the canonical parent (finding 1) |
| `retry_lossy` | lost and late answers, an unrelated commit, two scheduled runs, one drift, hidden run or human rerun | no POST without its claim and none twice, no false drift, slot owners, accepted attempts, terminal is final |
| `retry_drift` | two drifts (violation) | a drift that was seen can be forgotten (finding 2) |
| `request_progress` | two heads, two producer and two resume runs, one move, review, other request, unrelated commit and fault, fairness | types, one request for a head and by its claimant, continued only from a fenced intent, a deferral that ended well is recorded, a claimed rerun excludes a continuation, what may be continued does not stay so |
| `partition_small` | every diff of up to six bytes with every choice of records, hunks, at most two groups and a unit budget | planned units cover the diff within the limits; only what cannot be covered is refused |
| `budget_serial` | two reviews, two kinds of request, lost workers, late bills, symmetric | coverage needs every review, nothing is sent after an unknown outcome, the ledger implements `SpendLimit` |
| `gateway_run` | two revisions, every provider answer, every failing write, every death, fairness | success is the provider's pass, a failed review is not published, the report is about the live revision, gateway and collector end |
| `push_hook` | one run, one push, two branches, four heads, two base refs | what is pushed was checked, is fresh, and is under the policy of its base |
| `release_train` | seven pushes, two attempts, any one job with any of its troubles | admitted support was tested, admitted runs are inventoried, admitted evidence is clean, a clean run is admitted |

`path_one` and `path_race` are two questions of one module: faults and kills need one
writer, the race needs two, and both together would only repeat steps. `release_train`
starts from a valid registry pushed to main, the same pushed to develop, a pull request
that changes documentation, one to main from a branch for which tiny does not run, a registry without an acceptance scenario, one whose switch
keeps the converge playbook from importing its roles, and stale generated files. Its two
production roles share one scenario for each of the three profiles, on one supported
target, with a second target as candidate.

Bounds. Two foreign steps are enough for "replace, then replace back" and for
"act between two checks and undo it". Two faults are a failure and the failure of its
cleanup. Two writers or removers are enough for each pairwise race: a third adds no new
relation to the entry, which the lock and the kernel order anyway. The retry runs use
`Total`, `Reserve` smaller than the policy's 9 and 3 units, so that deadline, cooldown
and a slot fit in few ticks; `MaxClock` of `retry_lossy` ends after the recovery slot.
One move is a push or a moved base; two producer and two resume runs are enough for each
pair of claimants of a head, as a third meets the same journal; one fault is one lost
answer, the case that a claim must not survive. A push back to an earlier head needs two
moves: the safety properties of this run are proved for any number of them.

Six bytes hold two full units of three bytes and cut each kind of indivisible pair (a
character, CR LF) at a limit; three units meet `MaxUnits` and `MaxReviews` from both
sides. Two reviews of up to two requests let each review exhaust its own budget and the
second meet what the first left; the limit is what both may cost together. Two revisions
are the expected one and any other. One run and one push, with two edits, let the
checkout change and change back, or be left and re-entered; `MaxMoves` lets each base
move once, before or after the record; the clock passes the record's age; the heads
are an ordinary change, one that only documents a secret-like line, one that adds such a
line, and one that changes a governed file on a base that first has no policy. Two
attempts let evidence of both meet; one trouble is one lie or loss, which is what each
property has to survive.

Deadlock is checked in the file and `release_train` runs. `ReleaseTrain` has a step for a
run that is over (`Over`), so a deadlock there is a job that waits for ever. Elsewhere
`CHECK_DEADLOCK FALSE`: clocks, moves, reviews and runs are bounded, and the partition,
the gateway and the ledger end.

Fairness. `path_race`: weak fairness of each writer's own steps. The operating system
schedules a runnable process, no step blocks (the flock is `LOCK_NB`), and a writer that
is killed is not fair any more because its steps are disabled. No fairness is given to
foreign programs, faults or kills. `request_progress`: each resume run's own steps are
fair, its dispatch included: a completed review, a completed native run and the
ten-minute reconciler each start `locate` or `reconcile_candidate`. A late commit is
settled at last. Nothing is assumed of producers, people, Copilot or faults, whose number
is bounded: `Continues` says of a continuable head that it does not stay so for ever.
`gateway_run`: the job's and the gateway's steps are fair (`serve` polls every half
second), the collector reads what it was given, and the deadline passes, as it is a
clock. Nothing is assumed of the provider's answers, of deaths or of the pull request.
All are weak: no actor waits for a condition that comes and goes.

## 5. Proofs

`AtomicPathProofs` proves, for any set of writers, any requests, any contents and any
bounds:

* `TypeCorrect`: `Spec => []TypeOK`;
* `TargetNeverTorn`: `Spec => []NoTornTarget`;
* `UnchangedTruthful`: `Spec => UnchangedIsTruthful`;
* `NoFileLost`: `Spec => []NoSilentLoss`;
* `LeftoversNamed`: `Spec => []LeftoversReported` (with its exception for an
  unreadable parent path);
* `ChangedCommitted`: `Spec => ChangedIsCommitted`;
* `WritersNeverAbort`: `Spec => []WritersApart`.

They rest on the assumptions named in `AtomicPath` and `FileEntries` only. `NoTornTarget`
is not inductive: the entry is torn by a power loss when it names, or may name after the
loss, a file not yet synced. `IInv` adds that every inode an entry can lead to now or after
a power loss is `Whole` (complete and synced), and that from the `install` step on a
writer's payload is. `UnchangedTruthful` adds `AllVerified`: what a writer knows at each of its
early steps about the inode it opened, as long as the inode's ctime is the one it saw.
`Evolves` is what lets these facts survive the other actors' steps: inodes are never
removed from the table, and a change of content always moves ctime. The lemmas about the
file table (`EvolvesByAppend`, `EvolvesByRewrite`, `EvolvesByRelink`) come first in the
module.

`NoFileLost` and `LeftoversNamed` rest on `OwnInv`. `Shape` says which files a writer has
at each step and what it has done so far. `Apart` says that a live writer's payload, its
own or the file it displaced, is not at the path and in nobody else's workspace. Therefore
what the writer read in the displaced file is still so when it discards the file
(`Displaced`), and a payload that was rolled back does not come back to the path
(`RolledBack`). A file leaves the path only by a rename into a workspace, and a workspace
only by one of those two removals. `ChangedCommitted` adds `AllChecked`: from the stat of
the installed entry on, the payload is unchanged for as long as its ctime is the one in
`final`; and from the fsync of the directory on, its entry is the only durable one for as
long as the path leads to it, because a path that has left a payload never comes back to
it (`TargetLeaves`). `WritersNeverAbort` adds `Locked`, that only the holder of the flock
is past its first step, and `Calm`: without foreign steps and faults, what each writer has
seen is what is there (`Agree`), so each of its checks succeeds.

`AtomicUnlinkProofs` proves, for any removers, requests, contents and bounds, from
the assumptions of `AtomicUnlink` and `FileEntries`: `UnlinkIsTyped` (`[]TypeOK`),
`NothingLost`, `LeftoversNamed`, `RemovedByOne` and `CapturedComesBack` (the run's four
properties), and `RemovesOnlyNamed`: what a successful removal removed had, and has, the
content its caller named. The window between the check and the unlink is closed by a
rename: from then on the remover has taken the inode (`Taken`), no other remover and not
the path has it (`Apart`), and since files are rewritten, linked and moved by name only,
what the last check found stays so (`Verified`). `Stage` says what a remover has in its
quarantine at each step; each action keeps these parts for its own remover, and steps of
others and of other programs touch neither (`OutsideKeepsInv`).

`RequestContinuationProofs` proves, for any heads, producer and resume runs and bounds,
from `RecordAssumption`, `ActorAssumption` and `BoundAssumption`:

* `RequestTypes`: `Spec => []TypeOK`, which includes that producer jobs exclude each
  other. `TriesLeft` makes it inductive: a job about to send its intent has a try left.
* `OneRequestForEachHead`: `Spec => []RequestHasClaim`. The invariant adds `ClaimHeld`: a
  run between its confirmed claim and its POST is the author of its head's operation in
  the journal, and nobody has asked about that head. `RecordsStay`, a fact about every
  step, says that no record is ever overwritten, a late commit included; hence two runs
  cannot both hold a head, and a run that has posted leaves its claim behind for good.

Its second part proves the remaining safety properties from the same assumptions: `DeferralIsRecorded` (`[]DeferredIsRecorded`), `ContinuationIsBacked`
(`[]ContinuedWasDeferred`) and `RerunOrRequest` (`RerunExcludesRequest`). Its invariant
follows a record from its writer, through a commit that may be late, into the journal:
an intent names the base its owner still has (`IntentsOwned`), a resume run's claim is
backed by a valid intent (`ClaimsBacked`), and while the journal's head is the snapshot
of such a claim, the owner's rerun is not claimed (`ClearAtSnapshot`). `StepWrites` says
where a record that appears can come from, `RecordsStay` that it never changes after.

`VerifierRetryProofs` proves, for any delays and any bounds, from `PolicyAssumption`,
`BoundAssumption` and `RecordAssumption` (the absence of a record is not a record):
`JournalIsTyped` (`[]TypeOK`), `ConsumedBeforePosted`, `OwnerIsFirstDue`,
`AcceptedByOwnPost`, `DriftIsReal` and `NothingAfterTerminal` (the run's five
properties). None is inductive. `Inv` gives every record, in the journal or in a commit
that is still open, what its writer had established (`Good`): a claim is valid for the
seed and its run is the first one due, a terminal record has seed and operation before it
and is a drift only after a trouble. Each of these stays true because records are never
overwritten, and run numbers, the ends of attempts and the clock only grow (`GoodStays`).
The rest follows the executing run: its snapshot is the journal whenever the head is
still the snapshot's (`SnapInv`), the claim it is about to make is good (`ClaimInv`),
and once the claim has landed no terminal record can land before its POST, because every
open one was made at an older head (`OwnInv`). `ElectedIsFirst` is the step from what the
API lists to what exists: the listed numbers have no gap up to the elected run.
`PostInv` and `HistoryInv` connect the POSTs with the attempts: at most one POST per
slot, each starts at most one attempt, of a number not below its slot; so without human
reruns attempt n is started by the POST for n (`OwnPost`), which is why a claim is never
missing, and an attempt whose predecessors all came from POSTs can only be its own slot's
(`ReceivedByOwnPost`).

`ReviewBudgetProofs` proves, for any prices, limits, reviews and requests, from
`BudgetAssumption` and `NoneAssumption`: `CoverageIsComplete`, `BillsAreReserved`
(`[]BilledIsReserved`), `NothingAfterUnknown` and `ImplementsSpendLimit`
(`Spec => SpendsWithinLimit`, the refinement: initial states map to initial states, each
step to a step of `SpendLimit` or a stutter). The invariant follows the one request that
may be open. Before it is sent, nothing is upstream and its whole cost is charged on top
of what was billed (`Counting`); while it is upstream the charge covers the largest bill it
can get (`Sending`); when its outcome is unknown the budget has failed, keeps the charge,
and no later review is reserved (`Unknown`).

`BoundedReviewProofs` proves of `RevisionGateway`, for any set of revisions, from `GatewayAssumption`:
`GatewayTypes`, `SuccessIsProviders`, `FailedNeverPublished` and `ReportAboutLive`. What
check and files say was decided many steps earlier, by the ending of the one request:
a review ends once (`Ending`), its packet is the only answer (`OneAnswer`), and a released
collector, a collected result and a successful check each stand for a review that is done
and did not fail (`Collection`, `Verified`).

`PushReadinessProofs` proves, for any repository (branches, commits, base tips, policies,
secret-like lines), any runs and any pushes, from the assumptions `PushReadiness` names
(`ProcsAssumption`: runs and pushes are different processes): `PushedWasCheckedAlways`,
`PushFreshAlways` and `BasePolicyAlways`. What a push carries was decided by another
process and handed over through a file, so the invariant says what each stage of a run
has established (`RunStage`), what the evidence therefore stands for (`EvidenceStage`),
and what a hook has established itself before it compares the two (`PushStage`). That the
base is no older than the server's when git began comes from the hook's own refresh, not
from the evidence.

`BoundedReviewProofs` proves of `ReviewPartition`, for any diff, records, hunks, groups and limits, from
`PartitionAssumption` (`text` accepted the diff): `PlanCovers` (`[]PlannedUnitsCover`),
`NeverRefusesTheFeasible` (`[]RefusedOnlyIfUncoverable`) and `ScanNeverRefuses`
(`[]PlanTypeOK`: the refusals inside the loop are dead code). They rest on `FitsIffCoverable`:
the greedy walk covers a tail in n units exactly when any choice of ends does, which is
what the comment in `fits` (357-360) claims. `FarthestIs` shows that `farthest` returns
the last legal end within the unit size, since merged ranges do not overlap; who starts
farther reaches farther (`FartherMonotone`), so the walk stays ahead of every choice of
ends (`CoverableFits`), and its own ends are one (`FitsCoverable`). These are inductions
over the number of units. They use `Induct`, an induction over a set of naturals that
follows from `Least`, and `WalkRecursion`, which shows that the recursive function of
`fits` exists. The invariant adds that merged ranges ascend and fit a unit (`MergedOK`),
that waiting ranges come later (`PendingOK`), and that each group's range waits or lies in
a merged one (`Kept`). A range lies in one unit because no end splits it (`RangeInUnit`).

`ReleaseTrainProofs` proves, for any pushes, registries, trees, policy and scenario
configuration and any number of attempts and troubles, from `CommitAssumption`,
`FilesAssumption`, `AttemptAssumption` and `BoundAssumption`: `AdmittedClean`
(`[]AdmittedEvidenceIsClean`), `AdmittedInventoried` (`[]AdmittedRunsAreInventoried`) and
`AdmittedTested` (`[]AdmittedSupportWasTested`). What is admitted was decided jobs, and
perhaps an attempt, earlier, so the invariant (`TrainInvariant`: `[]IInv`) follows it from
the cell to the admission. TLC checked `IInv` on the instance of `release_train` before it
was proved.

* `NeedsEnded`: a job that has ended has everything it needs ended. It makes a rerun sound:
  what a restarted job waits for (`Before`) and what waits for it are both known, so no
  ended job is left on top of one that is pending again. `Green` and `CoverageHolds` add
  what success means: a green aggregate has green cells, a green coverage job validated the
  registry of this push.
* `ArtifactHolds` says of every uploaded bundle, of whatever attempt, that a structured
  secret is in JSON only, where the scan finds it, and (`Traced`) that a report in it which
  names a commit and an attempt is that of its cell and attempt, and that a role it calls
  passed has an outcome in `ran`. `record` sees to that: it gives the report it keeps the
  identity of the cell, and puts one that passes nothing in place of any other. `RanHolds`
  says that the containers of each outcome of a green cell are in the inventory its bundle
  carries.
* `EvidenceHolds` says that the collected evidence belongs to one attempt, lost no inventory
  of that attempt's bundles and added no dated report (`EvidenceOf`). The attempt is an
  existential: evidence of an earlier attempt may still be the last one uploaded, and only
  `verify_identity` of the admission tells the two apart (`AtAdmission`).
* `AdmittedHolds` is the three properties, of each admission: later attempts add outcomes
  of other attempts only.

`AdmittedTested` needs both directions of the reports. Forward, `CellAdds` and
`TracedNew` show what a cell leaves. Backward, from a bundle `validate` accepts: the matrix
of an accepted registry names an expected cell for each supported target and profile, its
result passed, `Rederived` says that the result follows from reports of the bundle, and
those are `Traced`. That a green report counts for a role also needs the role to be run at
all: `ReachableExecuted` shows that what `ReachableRoles` finds is `Executed`, the chains
of imports of the ground truth, by following each call of the walk back to a chain
(`Scope` is what the environment of the call resolves to). Its inductions over the depth of
the walk use `Induct`, an induction over a set of naturals, and the recursive functions are
shown to exist first. Nothing in the proof depends on `MaxNesting`.

Only model-checked. `CleanRunIsAdmitted` says that a run without trouble on main is
admitted: it is no consequence of the rules alone, but of this registry, these applications
and every check of `assemble` and `validate` succeeding on them; for an arbitrary registry it
is false (the shared scenario of section 3). `Finishes`, `LockReturned`, `Continues` and
`RunEnds` are liveness under fairness. `DescriptorStableRecovery` and `DriftStaysTerminal`
do not hold (section 6).

## 6. Findings

1. `atomic_unlink.py:68` documents `recovery_path` as stable under a rename of the
   parent; line 275 builds it from the canonical parent path, which a rename of the parent
   makes wrong. Run `unlink_recovery`.
2. `docs/li259-native-verifier-retry.md:40` says that an observed drift stays terminal
   after the binding is restored. `terminal` (518-528) gives up when its record is not
   confirmed and nothing is kept; the next run sees a restored binding and posts. Run
   `retry_drift`.

## 7. Not modelled

Every component with status `not_modelled` or `partly` in `PROJECT.json` has its reason
there. In short:

* parts of modelled scripts: state=directory of atomic_path; `verify_receipt`; capture of
  the bounded review; the container and cgroup preflight of the exact revision review;
  the doctor command and the disabled agents of push readiness; the candidate mode of
  `assemble`, which no job runs; archives inside archives;
* validators and renderers without state of their own (trust root, quality policy,
  embedded code, SBOM enrichment, release archives and proofs): their correctness is in
  their parsing, and what they hand over between jobs follows the pattern of
  `ReleaseTrain`;
* security release intake, promotion and back-sync: each script validates one document
  of one stage, and workflows and branch rules outside the source keep their order;
* role task lists run in Ansible, outside this repository;
* ModuLix receipts, Nexus staging and the composition for `forward_proxy` are in the plan.
