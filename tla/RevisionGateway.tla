--------------------------- MODULE RevisionGateway ---------------------------
(***************************************************************************)
(* One run of the protected exact-revision review.  The job materializes   *)
(* the expected revision (materialize-exact-revision-review.py), installs  *)
(* a root-owned gateway that lets the engine make one model request and    *)
(* writes one receipt (exact_revision_gateway.py), consumes the result an  *)
(* attached collector publishes, and materializes again before it reports. *)
(* Gateway, collector, engine and job run at the same time; a file write   *)
(* may fail after the file exists; each process may die; the pull request  *)
(* moves on its own.                                                       *)
(***************************************************************************)
EXTENDS Naturals, Sequences

CONSTANTS Revisions, Expected, None
ASSUME GatewayAssumption ==
  Expected \in Revisions /\ None \notin Revisions \union {"PASS", "FAIL"}

\* What the provider may answer: a bound verdict, a packet of another input, tool
\* calls only, or something final_packet() refuses.
Verdicts == {"PASS", "FAIL"}
Answers == Verdicts \union {"unbound", "calls", "refused"}

VARIABLES
  pr,          \* revision the live pull request has now
  step,        \* step of the job
  workspace,   \* revision of review-metadata.json and change.patch, or None
  result,      \* verdict in result.json of the review directory, or None
  gateway,     \* serve(): "absent", "serving", "exchange", "receipt", "releasing",
               \* "publishing", "stopped"
  reviewer,    \* done, failed, the state of its ResponseBudget, the packet of its answer
  late,        \* the deadline of the review has passed
  collector,   \* "absent", "ready", "released", "answered", "rejected"
  public,      \* files of the root-owned public directory
  answers,     \* answers the provider gave (observer)
  check        \* the check run of the head: "in_progress", "success", "failure"

vars == <<pr, step, workspace, result, gateway, reviewer, late, collector, public, answers, check>>
job == <<step, workspace, result, check>>
box == <<gateway, reviewer, collector, public, answers>>

Init ==
  /\ pr = Expected /\ step = "materialize" /\ workspace = None /\ result = None
  /\ gateway = "absent" /\ collector = "absent" /\ public = {} /\ answers = <<>>
  /\ reviewer = [done |-> FALSE, failed |-> FALSE, budget |-> "none", packet |-> None]
  /\ late = FALSE /\ check = "in_progress"

\* The author pushes, or the base branch moves.
MovePullRequest == pr' \in Revisions \ {pr} /\ UNCHANGED <<job, box, late>>
DeadlinePasses == gateway # "absent" /\ ~late /\ late' = TRUE /\ UNCHANGED <<pr, job, box>>

-----------------------------------------------------------------------------
\* The job

Goto(from, to) == step = from /\ step' = to
Fails == step' = "failclose"

\* read_live_pull_request(): open, from this repository, and at the expected ids.
LiveIsExpected == pr = Expected
\* materialize(): the first read, then the expected objects, the merge tree and the
\* bounded diff; any command or limit of it may fail.
ReadLive ==
  /\ step = "materialize"
  /\ \/ LiveIsExpected /\ step' = "reread"
     \/ Fails
  /\ UNCHANGED <<pr, workspace, result, check, box, late>>
\* The second read, then the two files; a failed write removes both again.
WriteWorkspace ==
  /\ step = "reread"
  /\ \/ LiveIsExpected /\ step' = "install" /\ workspace' = Expected
     \/ Fails /\ UNCHANGED workspace
  /\ UNCHANGED <<pr, result, check, box, late>>
\* The files of the review directory are replaced after they were bound.
WorkspaceDrifts ==
  /\ step \in {"engine", "consume"} /\ workspace = Expected
  /\ workspace' \in Revisions \ {Expected}
  /\ UNCHANGED <<pr, step, result, check, box, late>>

\* install(): prepare() writes the sealed state, serve() starts the collector and
\* only then the port file that install() waits for.
Install ==
  /\ step = "install"
  /\ \/ /\ step' = "engine" /\ gateway' = "serving" /\ collector' = "ready" /\ public' = {"port"}
     \/ Fails /\ UNCHANGED <<gateway, collector, public>>
  /\ UNCHANGED <<pr, workspace, result, check, reviewer, answers, late>>

\* The engine ends, with an answer of its own in the writable directory.
EngineEnds ==
  /\ Goto("engine", "consume") /\ result' \in Verdicts \union {None}
  /\ UNCHANGED <<pr, workspace, check, box, late>>
\* The engine step itself fails; the receipt is collected all the same.
EngineFails ==
  /\ Goto("engine", "failclose") /\ UNCHANGED <<pr, workspace, result, check, box, late>>

\* consume(): a failure file wins over everything published so far.
Refused == {"failure", "collection-failure"} \cap public # {}
\* Mutant: the local answer is kept when nothing was published in time.
ConsumeLocal ==
  /\ step = "consume"
  /\ IF Refused THEN Fails /\ UNCHANGED result
     ELSE \/ "collected" \in public /\ step' = "verify" /\ result' = reviewer.packet
          \/ "collected" \notin public /\ step' = "verify" /\ UNCHANGED result
  /\ UNCHANGED <<pr, workspace, check, box, late>>
Consume ==
  /\ step = "consume"
  /\ IF Refused THEN Fails /\ UNCHANGED result
     ELSE \/ "collected" \in public /\ step' = "verify" /\ result' = reviewer.packet
          \/ "collected" \notin public /\ Fails /\ UNCHANGED result    \* after 30 s of polling
  /\ UNCHANGED <<pr, workspace, check, box, late>>

\* verify(): materialize() once more, with its first live read and its objects,
VerifyFirst ==
  /\ step = "verify"
  /\ \/ LiveIsExpected /\ step' = "compare"
     \/ Fails
  /\ UNCHANGED <<pr, workspace, result, check, box, late>>

\* Mutant: the stored metadata is compared, the live pull request is not read.
VerifyStored ==
  /\ step = "compare"
  /\ IF workspace = Expected THEN step' = "report" ELSE Fails
  /\ UNCHANGED <<pr, workspace, result, check, box, late>>

\* its second live read, and the comparison with the stored files.
Verify ==
  /\ step = "compare"
  /\ \/ LiveIsExpected /\ workspace = Expected /\ step' = "report"
     \/ Fails
  /\ UNCHANGED <<pr, workspace, result, check, box, late>>

\* The PATCH of the check run is confirmed by a read; one that fails, with or
\* without an effect, leaves the check to the fail-close step.
Report ==
  /\ step = "report"
  /\ LET conclusion == IF result = "PASS" THEN "success" ELSE "failure"
     IN  \/ step' = "end" /\ check' = conclusion
         \/ Fails /\ check' \in {check, conclusion}
  /\ UNCHANGED <<pr, workspace, result, box, late>>
\* A completed check stays; the read or the PATCH of an open one may fail.
FailClose ==
  /\ Goto("failclose", "end")
  /\ check' \in IF check = "in_progress" THEN {check, "failure"} ELSE {check}
  /\ UNCHANGED <<pr, workspace, result, box, late>>
\* The runner disappears; nothing closes the check.
RunnerDies ==
  /\ step # "end" /\ step' = "end" /\ gateway' = "stopped"
  /\ UNCHANGED <<pr, workspace, result, check, reviewer, collector, public, answers, late>>

-----------------------------------------------------------------------------
\* The gateway

\* Reviewer.fail(): the first ending counts; the write of failure.json may fail.
FailReview ==
  IF reviewer.done THEN UNCHANGED <<reviewer, public>>
  ELSE /\ reviewer' = [reviewer EXCEPT !.done = TRUE, !.failed = TRUE]
       /\ public' \in {public, public \union {"failure"}}

\* do_POST() up to the exchange: path, framing, authorization, the deadline, and
\* the whole prompt in the one request that max_requests allows.
ReceiveRequest(wellFormed) ==
  /\ gateway = "serving" /\ ~reviewer.done /\ step = "engine"
  /\ IF wellFormed /\ ~late /\ reviewer.budget = "none"
     THEN /\ gateway' = "exchange" /\ reviewer' = [reviewer EXCEPT !.budget = "unknown"]
          /\ UNCHANGED public
     ELSE FailReview /\ UNCHANGED gateway
  /\ UNCHANGED <<pr, job, late, collector, answers>>

\* exchange() settles in time, final_packet() and validate_result() decide.
ProviderAnswers(a) ==
  /\ gateway = "exchange" /\ ~late
  /\ answers' = Append(answers, a)
  /\ \/ /\ a \in Verdicts /\ gateway' = "receipt"
        /\ reviewer' = [reviewer EXCEPT !.budget = "settled", !.packet = a] /\ UNCHANGED public
     \/ /\ a = "calls" /\ gateway' = "serving"
        /\ reviewer' = [reviewer EXCEPT !.budget = "settled"] /\ UNCHANGED public
     \/ /\ a \in {"unbound", "refused"} /\ gateway' = "serving"
        /\ reviewer' = [reviewer EXCEPT !.done = TRUE, !.failed = TRUE, !.budget = "settled"]
        /\ public' \in {public, public \union {"failure"}}
  /\ UNCHANGED <<pr, job, late, collector>>
\* The answer is lost, the worker fails, or it is killed on the deadline.
AnswerLost ==
  /\ gateway = "exchange" /\ gateway' = "serving" /\ FailReview
  /\ UNCHANGED <<pr, job, late, collector, answers>>

\* write_once(receipt.json): the review is done, or the write fails with the file
\* already there and the review fails.
WriteReceipt ==
  /\ gateway = "receipt" /\ gateway' = "serving"
  /\ \/ /\ public' = public \union {"receipt"}
        /\ reviewer' = [reviewer EXCEPT !.done = TRUE]
     \/ /\ reviewer' = [reviewer EXCEPT !.done = TRUE, !.failed = TRUE]
        /\ \E files \in SUBSET {"receipt", "failure"} : public' = public \union files
  /\ UNCHANGED <<pr, job, late, collector, answers>>

\* The reply breaks, or another request comes in, after the receipt.
RequestAfterEnd ==
  /\ gateway = "serving" /\ reviewer.done /\ FailReview
  /\ UNCHANGED <<pr, job, late, gateway, collector, answers>>

\* Mutant: the collector is released although the review failed.
LeaveLoopAnyway ==
  /\ gateway = "serving" /\ reviewer.done /\ gateway' = "releasing"
  /\ UNCHANGED <<pr, job, late, reviewer, collector, public, answers>>
\* serve(): the loop ends with the review; a failed one stops the collector.
LeaveLoop ==
  /\ gateway = "serving" /\ reviewer.done
  /\ gateway' = IF reviewer.failed THEN "stopped" ELSE "releasing"
  /\ UNCHANGED <<pr, job, late, reviewer, collector, public, answers>>
LoopDeadline ==
  /\ gateway = "serving" /\ ~reviewer.done /\ late /\ FailReview /\ gateway' = "stopped"
  /\ UNCHANGED <<pr, job, late, collector, answers>>

\* finish_collector(): one byte after the receipt is complete.
ReleaseCollector ==
  /\ gateway = "releasing" /\ gateway' = "publishing" /\ collector' = "released"
  /\ UNCHANGED <<pr, job, late, reviewer, public, answers>>
\* Mutant: the collector does not take EOF for an answer.
CollectorReadsByte ==
  /\ collector = "released"
  /\ collector' = IF "failure" \notin public /\ "receipt" \in public /\ workspace = Expected
                  THEN "answered" ELSE "rejected"
  /\ UNCHANGED <<pr, job, late, gateway, reviewer, public, answers>>
\* collect(): EOF instead of the byte, a failure file or drifted metadata reject.
CollectorReads ==
  /\ \/ /\ collector = "released"
        /\ collector' = IF "failure" \notin public /\ "receipt" \in public /\ workspace = Expected
                        THEN "answered" ELSE "rejected"
     \/ collector = "ready" /\ gateway = "stopped" /\ collector' = "rejected"
  /\ UNCHANGED <<pr, job, late, gateway, reviewer, public, answers>>
\* The complete result is renamed into place, or the failure is recorded.
Publish ==
  /\ gateway = "publishing" /\ gateway' = "stopped"
  /\ \/ collector = "answered" /\ public' = public \union {"collected"}
     \/ public' = public \union {"collection-failure"}
  /\ UNCHANGED <<pr, job, late, reviewer, collector, answers>>
GatewayDies ==
  /\ gateway \notin {"absent", "stopped"} /\ gateway' = "stopped"
  /\ UNCHANGED <<pr, job, late, reviewer, collector, public, answers>>

Next ==
  \/ MovePullRequest \/ DeadlinePasses \/ ReadLive \/ WriteWorkspace \/ WorkspaceDrifts
  \/ Install \/ EngineEnds \/ EngineFails \/ Consume \/ VerifyFirst \/ Verify
  \/ Report \/ FailClose \/ RunnerDies
  \/ (\E w \in BOOLEAN : ReceiveRequest(w)) \/ (\E a \in Answers : ProviderAnswers(a))
  \/ AnswerLost \/ WriteReceipt \/ RequestAfterEnd \/ LeaveLoop \/ LoopDeadline
  \/ ReleaseCollector \/ CollectorReads \/ Publish \/ GatewayDies

JobStep ==
  ReadLive \/ WriteWorkspace \/ Install \/ EngineEnds \/ EngineFails \/ Consume
    \/ VerifyFirst \/ Verify \/ Report \/ FailClose
GatewayStep ==
  AnswerLost \/ WriteReceipt \/ LeaveLoop \/ LoopDeadline \/ ReleaseCollector \/ Publish

\* The job runs its steps, the deadline is a clock, serve() polls every half second.
Fairness ==
  /\ WF_vars(JobStep) /\ WF_vars(GatewayStep) /\ WF_vars(CollectorReads)
  /\ WF_vars(DeadlinePasses)

Spec == Init /\ [][Next]_vars /\ Fairness

-----------------------------------------------------------------------------
TypeOK ==
  /\ pr \in Revisions /\ workspace \in Revisions \union {None}
  /\ step \in {"materialize", "reread", "install", "engine", "consume", "verify", "compare",
              "report", "failclose", "end"}
  /\ result \in Verdicts \union {None} /\ check \in {"in_progress", "success", "failure"}
  /\ gateway \in {"absent", "serving", "exchange", "receipt", "releasing", "publishing", "stopped"}
  /\ reviewer \in [done : BOOLEAN, failed : BOOLEAN, budget : {"none", "unknown", "settled"},
                   packet : Verdicts \union {None}]
  /\ late \in BOOLEAN /\ collector \in {"absent", "ready", "released", "answered", "rejected"}
  /\ public \subseteq {"port", "receipt", "failure", "collected", "collection-failure"}
  /\ answers \in {<<>>} \union {<<a>> : a \in Answers}

\* The check succeeds only on a PASS the provider gave in the one request of the
\* run; whatever the engine wrote or broke does not count.
SuccessIsProvidersPass ==
  check = "success" => answers = <<"PASS">> /\ ~reviewer.failed /\ reviewer.budget = "settled"

\* fail(), the deadline and the completion race for one ending: a review that
\* failed is never published, even when its receipt reached the disk.
FailedIsNotPublished ==
  "collected" \in public => /\ ~reviewer.failed /\ "failure" \notin public
                            /\ "collection-failure" \notin public /\ "receipt" \in public

\* A verdict reaches the report only for the revision that was live after it was
\* given, and only from the collected result.
ReportIsAboutLiveRevision ==
  [][step' = "report" /\ step # "report" =>
       pr = Expected /\ result \in Verdicts /\ result = reviewer.packet]_vars

\* serve() and the attached collector end, whether or not a request comes: a failed
\* review or a dead gateway leaves no collector waiting for its byte.
RunEnds ==
  gateway = "serving" ~> gateway = "stopped" /\ collector \in {"answered", "rejected"}
=============================================================================
