----------------------------- MODULE ReleaseTrain -----------------------------
\* From a push to a release admission: the jobs of collection-ci.yml around
\* validate-role-coverage.py, quality_evidence.py and
\* release_security_admission.py.
\*
\* A matrix cell runs the tests of one scenario on one target, records and
\* assembles its evidence and uploads it.  The aggregate assembles the cells of
\* its own attempt for a release, and the admission validates that bundle again.
\* Jobs start when the jobs they need have ended; a failed or an entire run may
\* be started again as a new attempt of the same commit.
\*
\* What can go wrong in a job is its "trouble", "none" in a clean run.
EXTENDS QualityEvidence, QualityImpact

CONSTANTS
  Pushes,        \* the changes CI may be started for
  Policy,        \* the quality impact registry
  Config,        \* the scenario configuration of the source tree
  Commit,        \* the pushed commit
  Foreign,       \* another one
  AttemptNames,  \* what GITHUB_RUN_ATTEMPT says in each attempt
  MaxAttempts,   \* bound: attempts of the workflow run
  MaxTroubles    \* bound: jobs with a trouble

ASSUME CommitAssumption == Commit # NoCommit
\* The source tree has finitely many playbooks.
ASSUME FilesAssumption ==
  \A p \in Pushes : \A s \in DOMAIN p.registry.scenarios :
    IsFiniteSet(DOMAIN p.registry.scenarios[s].structure.files)
ASSUME BoundAssumption == MaxAttempts \in Nat \ {0} /\ MaxTroubles \in Nat
\* GitHub numbers the attempts of a run.
ASSUME AttemptAssumption ==
  \A k, n \in 1..MaxAttempts :
    AttemptNames[k] # Absent /\ (AttemptNames[k] = AttemptNames[n] => k = n)

VARIABLES
  push,          \* the registry and tree of the commit, and how it arrived
  attempt,       \* GITHUB_RUN_ATTEMPT
  jobs,          \* the result of each job
  cells,         \* the result of each cell of the matrix
  artifacts,     \* the uploaded bundles of the cells
  evidence,      \* collection-evidence-<commit>, the last one uploaded
  admitted,      \* the bundles a release was admitted with
  ran,           \* every role whose tests ran in a cell, with what happened
  troubles,      \* the attempt of each trouble so far
  whole          \* the attempts that ran every job

vars == <<push, attempt, jobs, cells, artifacts, evidence, admitted, ran, troubles, whole>>

Collection == "lit-supplementary"
Repository == "ansible-collection-supplementary"
AttemptName(n) == AttemptNames[n]

-----------------------------------------------------------------------------
\* The jobs.

Local == {"classification", "lint", "build"}

Aggregates == [tiny |-> "tiny", heavy |-> "heavy", acceptance |-> "application_acceptance"]

\* The jobs whose result release_security_admission.py looks at.
Mandatory ==
  Local \cup DOMAIN Aggregates \cup {"matrix", "coverage", "runtime-evidence", "evidence"}

Jobs == Mandatory \cup {"admission"}

Groups == {"tiny-cells", "heavy-cells", "acceptance-cells"}

GroupProfile ==
  [group \in Groups |-> CASE group = "tiny-cells" -> "tiny" [] group = "heavy-cells" -> "heavy"
                          [] OTHER -> "application_acceptance"]

\* "needs" of each job and group of cells; acceptance waits for the heavy
\* aggregate so that the two do not cancel each other.
Needs ==
  [n \in Jobs \cup Groups |->
     CASE n \in {"classification", "build", "coverage"} -> {}
       [] n = "lint" -> {"classification"}
       [] n = "matrix" -> {"coverage"}
       [] n = "tiny-cells" -> {"build", "matrix", "classification"}
       [] n = "heavy-cells" -> {"build", "matrix"}
       [] n = "acceptance-cells" -> {"build", "matrix", "heavy"}
       [] n = "tiny" -> {"matrix", "tiny-cells", "classification"}
       [] n = "heavy" -> {"matrix", "heavy-cells"}
       [] n = "acceptance" -> {"matrix", "acceptance-cells"}
       [] n = "runtime-evidence" -> {"lint", "build", "coverage", "matrix", "tiny", "heavy", "acceptance"}
       [] n = "evidence" -> {"lint", "build", "coverage", "matrix", "tiny"}
       [] OTHER -> Mandatory]

OnMain == push.change.event = "push" /\ push.change.head = "main"

\* The outputs of the matrix job.
Required(profile) == profile \in Selected(push.change, Policy)

\* Where tiny runs: a push to main or develop, a pull request of this repository to
\* develop, or to main from develop or a release branch.  No push here is classified
\* a security release, for which the actor counts as well.
TinyRuns ==
  LET c == push.change
  IN  CASE c.event = "push" -> c.head \in {"main", "develop"}
        [] c.event = "pull_request" -> \/ c.base = "develop"
                                       \/ c.base = "main" /\ c.head \in {"develop", "release"}
        [] OTHER -> FALSE

\* The conditions of the three groups of cells.
Eligible(group) ==
  Required(GroupProfile[group]) /\ (IF group = "tiny-cells" THEN TinyRuns ELSE OnMain)

\* A group of cells starts when everything it needs succeeded.
GroupResult(group, j, c) ==
  LET needs == {j[n] : n \in Needs[group]}
      mine == {c[x] : x \in {y \in DOMAIN c : y.profile = GroupProfile[group]}}
  IN  CASE "pending" \in needs -> "pending"
        [] "pending" \notin needs /\ (needs # {"success"} \/ ~Eligible(group)) -> "skipped"
        [] OTHER -> IF "pending" \in mine THEN "pending"
                    ELSE IF mine \subseteq {"success"} THEN "success" ELSE "failure"

ResultOfJob(n) == IF n \in Groups THEN GroupResult(n, jobs, cells) ELSE jobs[n]

NeedsOf(n) == {ResultOfJob(m) : m \in Needs[n]}

\* A job whose needs have all ended; "always" jobs run whatever they ended with.
Due(n) == jobs[n] = "pending" /\ "pending" \notin NeedsOf(n)

Finish(n, result) == jobs' = [jobs EXCEPT ![n] = result]

Trouble(t) ==
  IF t = "none" THEN UNCHANGED troubles
  ELSE Len(troubles) < MaxTroubles /\ troubles' = Append(troubles, attempt)

-----------------------------------------------------------------------------
\* Jobs before the cells.

\* Lint, build and classification are other people's programs.
RunLocal(n, result) ==
  /\ n \in Local
  /\ Due(n)
  /\ IF NeedsOf(n) \subseteq {"success"}
       THEN Finish(n, result) /\ Trouble(IF result = "success" THEN "none" ELSE result)
       ELSE result = "failure" /\ Finish(n, "skipped") /\ UNCHANGED troubles
  /\ UNCHANGED <<push, attempt, cells, artifacts, evidence, admitted, ran, whole>>

RunCoverage ==
  /\ Due("coverage")
  /\ Finish("coverage", IF Validated(push.registry, push.tree) THEN "success" ELSE "failure")
  /\ UNCHANGED <<push, attempt, cells, artifacts, evidence, admitted, ran, troubles, whole>>

\* The matrix of each profile, and what the change selects.
RunMatrix ==
  /\ Due("matrix")
  /\ Finish("matrix",
            IF jobs["coverage"] # "success" THEN "skipped"
            ELSE IF Accepted(push.registry, push.tree) /\ PolicyWellFormed(Policy)
                   THEN "success" ELSE "failure")
  /\ UNCHANGED <<push, attempt, cells, artifacts, evidence, admitted, ran, troubles, whole>>

-----------------------------------------------------------------------------
\* One cell (run-quality-profile/action.yml).

CellTroubles ==
  {"test", "exit", "no-report", "torn", "role-missing", "foreign", "two-reports", "no-allure",
   "skip", "secret", "container", "no-inventory", "lost", "expand", "allure-roots", "record"}

\* The process of "molecule test", and of cleanup and destroy after it.
TestExit(t) == IF t = "test" THEN 2 ELSE 0
LaterExit(t) == IF t = "exit" THEN 1 ELSE 0
EffectiveExit(t) == IF TestExit(t) # 0 THEN TestExit(t) ELSE LaterExit(t)

\* The role that has the trouble.
Victim(cell) == CHOOSE r \in cell.roles : TRUE

ReportedRoles(cell, t) == IF t = "role-missing" THEN cell.roles \ {Victim(cell)} ELSE cell.roles

CaseOf(role, cell, t) ==
  [name |-> role, roles |-> {role}, approved |-> FALSE, process |-> FALSE,
   status |-> IF role # Victim(cell) THEN "passed"
              ELSE CASE t = "test" -> "failure" [] t = "skip" -> "skipped" [] OTHER -> "passed"]

\* The report pytest leaves: one testcase for each role, no commit, no identity.
RawReport(cell, t) ==
  [wellFormed |-> t # "torn", cases |-> {CaseOf(r, cell, t) : r \in ReportedRoles(cell, t)},
   suiteRoles |-> cell.roles, approvesSkips |-> FALSE, framework |-> "pytest",
   commit |-> IF t = "foreign" THEN Foreign ELSE NoCommit, name |-> "raw",
   id |-> [scenario |-> Absent, profile |-> Absent, target |-> Absent, attempt |-> Absent]]

Reports(cell, t) ==
  CASE t = "no-report" -> {}
    [] t = "two-reports" -> {RawReport(cell, t), [RawReport(cell, t) EXCEPT !.name = "second"]}
    [] OTHER -> {RawReport(cell, t)}

NativeAllure(cell, t) ==
  IF t = "no-allure" THEN {}
  ELSE {[case |-> c.name, labels |-> [l \in Labels |-> IF l = "role" THEN c.roles ELSE {}],
         status |-> AllureStatus(c.status), copy |-> "native"] :
          c \in UNION {r.cases : r \in Reports(cell, t)}}

\* The files the target leaves: a text log and a JSON configuration with a
\* password, an archive of service logs, and possibly a binary with one in it.
Diagnostics(cell, t) ==
  LET of(kind) == [kind |-> kind, doc |-> CellKey(cell)]
      text == [form |-> "text", secrets |-> {"pattern"}]
      json == [form |-> "json", secrets |-> {"structured"}]
      core == [form |-> "binary", secrets |-> {"pattern"}]
  IN  {[Written("logs", of("log")) EXCEPT !.payload = text],
       [Written("configuration", of("json")) EXCEPT !.payload = json],
       [Written("diagnostics", of("archive")) EXCEPT
          !.members = IF t = "secret" THEN {text, core} ELSE {text}]}

\* The containers that ran in the target, and what its inventory lists.
Containers(t) == {"app-digest"} \cup (IF t = "container" THEN {"sidecar-digest"} ELSE {})

Application ==
  [immutable |-> TRUE, evidence |-> TRUE, source |-> "runtime-container", version |-> "app-digest",
   digest |-> "app-digest", identity |-> "application", claim |-> "none"]

\* The dependency inventories of one cell.
Dependencies(cell, t) ==
  LET key == CellKey(cell)
      python(source, packages, playwright) ==
        [kind |-> "python",
         doc |-> [source |-> source, wellFormed |-> TRUE, packages |-> packages, commit |-> Commit,
                  cell |-> key, playwright |-> playwright]]
      browser == BrowserCells({cell}) # {}
      docs ==
        {[kind |-> "versions", doc |-> [tool |-> tool, wellFormed |-> TRUE]] :
           tool \in {"ansible", "molecule", "python"}}
        \cup {python("controller", {"ansible-core"}, {}),
              [kind |-> "collections", doc |-> [wellFormed |-> TRUE, names |-> {"community.general"}]],
              [kind |-> "images", doc |-> [immutable |-> TRUE]],
              [kind |-> "environments", doc |-> [mode |-> "host-native", digest |-> "not-applicable"]],
              [kind |-> "containers",
               doc |-> [wellFormed |-> TRUE, available |-> TRUE, digests |-> Containers(t),
                        scenario |-> cell.scenario, target |-> cell.target]]}
        \cup (IF ~browser THEN {}
              ELSE {python("target-venv", {"playwright"}, {"1.50"}),
                    [kind |-> "browsers",
                     doc |-> [wellFormed |-> TRUE, commit |-> Commit, cell |-> key,
                              playwright |-> "1.50", system |-> cell.target]]})
        \cup (IF t = "no-inventory" THEN {}
              ELSE {[kind |-> "applications",
                     doc |-> [wellFormed |-> TRUE, commit |-> Commit, config |-> Config, cell |-> key,
                              registry |-> push.registry, disposition |-> "none",
                              policy |-> push.registry.scenarios[cell.scenario].policy,
                              applications |-> {Application}]]})
  IN  {Written("dependencies", d) : d \in docs}

\* An archive that was not expanded, more than one report, none after success, or
\* more than one Allure directory makes the result a failure.
RecordExit(cell, t) ==
  LET found == Cardinality(Reports(cell, t))
  IN  IF found > 1 \/ (found = 0 /\ EffectiveExit(t) = 0) \/ t \in {"expand", "allure-roots"} THEN 1
      ELSE EffectiveExit(t)

Recorded(cell, t) ==
  RecordedReport(IF Cardinality(Reports(cell, t)) = 1 THEN Reports(cell, t) ELSE {}, cell,
                 AttemptName(attempt), Commit, RecordExit(cell, t))

\* Only one Allure directory is handed to "record".
CellAllure(cell, t) ==
  RecordedAllure(Recorded(cell, t), IF t = "allure-roots" THEN {} ELSE NativeAllure(cell, t), cell,
                 AttemptName(attempt), Commit)

NoSecurity == [f \in SecurityFiles |-> Nothing]

CellContext(cell, t) ==
  [registry |-> push.registry, mode |-> "ci", commit |-> Commit, requested |-> Commit,
   attempt |-> AttemptName(attempt), run |-> "run",
   filter |-> [NoFilter EXCEPT !.profiles = {cell.profile}, !.scenarios = {cell.scenario},
                               !.targets = {cell.target}],
   native |-> NativeAllure(cell, t) \cup CellAllure(cell, t), prerequisites |-> <<>>,
   security |-> NoSecurity, collection |-> Collection, config |-> Config]

\* "assemble" over the artifact root and the results root.
CellBundle(cell, t) ==
  LET reports == Reports(cell, t) \cup {Recorded(cell, t)}
      hint == [scenario |-> cell.scenario, target |-> cell.target, attempt |-> Absent,
               stem |-> cell.scenario]
  IN  Assembled(Listed({[report |-> r, hint |-> hint] : r \in reports}),
                {Written("junit", r) : r \in reports}
                  \cup {Written("allure-results", a) : a \in NativeAllure(cell, t) \cup CellAllure(cell, t)}
                  \cup Diagnostics(cell, t) \cup Dependencies(cell, t),
                CellContext(cell, t))

\* The job ends as its enforcing step says; "record" may write its files and then
\* fail on them.
CellSucceeds(cell, t, bundle) ==
  /\ TestExit(t) = 0 /\ LaterExit(t) = 0
  /\ CellAllure(cell, t) # {}
  /\ Sealed(bundle) /\ bundle.passed
  /\ t \notin {"lost", "expand", "record"}

\* The variables in force after some statements of a chain of imports: each has
\* the value of its last declaration.
Scope(c, n) ==
  LET declaring(v) == {i \in 1..n : v \in DOMAIN c[i].vars}
  IN  [v \in UNION {DOMAIN c[i].vars : i \in 1..n} |-> c[Max(declaring(v))].vars[v]]

\* Ground truth, which no program of the repository computes: the roles that some
\* chain of imports from the converge playbook reaches with no condition known to
\* be false on the way.
Executed(structure) ==
  LET files == structure.files
      statements == UNION {files[f] : f \in DOMAIN files}
      chains == {c \in UNION {[1..n -> statements] : n \in 1..Cardinality(DOMAIN files)} :
                   /\ c[1] \in files[PlaybookOf(structure, "converge")]
                   /\ \A i \in 2..Len(c) : /\ c[i - 1].import \in DOMAIN files
                                           /\ c[i] \in files[c[i - 1].import]}
      off(c) == \E i \in 1..(Len(c) - 1) : WhenFalse(c[i].when, Scope(c, i))
  IN  UNION {ActiveRoles(c[Len(c)], Scope(c, Len(c) - 1), off(c)) : c \in chains}

\* And whether the role was run and its testcases passed.
Outcomes(cell, t) ==
  {[cell |-> CellKey(cell), role |-> r, attempt |-> attempt, containers |-> Containers(t),
    passed |-> /\ r \in ReportedRoles(cell, t)
               /\ CaseOf(r, cell, t).status = "passed"
               /\ EffectiveExit(t) = 0
               /\ r \in Executed(push.registry.scenarios[cell.scenario].structure)] :
     r \in cell.roles}

\* The bundle that was left is packaged and uploaded, whatever it says.
Upload(cell, t, bundle) ==
  /\ cells' = [cells EXCEPT ![cell] = IF CellSucceeds(cell, t, bundle) THEN "success" ELSE "failure"]
  /\ artifacts' = IF t = "lost" \/ ~Sealed(bundle) THEN artifacts
                  ELSE artifacts \cup {[cell |-> cell, attempt |-> attempt, bundle |-> bundle]}

RunCell(cell, t) ==
  /\ cells[cell] = "pending"
  /\ \A g \in Groups : GroupProfile[g] = cell.profile =>
       Eligible(g) /\ (\A n \in Needs[g] : jobs[n] = "success")
  /\ Trouble(t)
  /\ Upload(cell, t, CellBundle(cell, t))
  /\ ran' = ran \cup Outcomes(cell, t)
  /\ UNCHANGED <<push, attempt, jobs, evidence, admitted, whole>>

-----------------------------------------------------------------------------
\* The aggregates.

\* A profile is green when its cells are, or when nothing had to run.
AggregateProfile(n) ==
  LET group == CHOOSE g \in Groups : GroupProfile[g] = Aggregates[n]
      green == /\ jobs["matrix"] = "success"
               /\ n = "tiny" => jobs["classification"] = "success"
               /\ ResultOfJob(group) = IF Eligible(group) THEN "success" ELSE "skipped"
  IN  /\ Due(n)
      /\ Finish(n, IF n # "tiny" /\ ~OnMain THEN "skipped" ELSE IF green THEN "success" ELSE "failure")
      /\ UNCHANGED <<push, attempt, cells, artifacts, evidence, admitted, ran, troubles, whole>>

LocalEvidence ==
  /\ Due("evidence")
  /\ Finish("evidence",
            IF /\ \A n \in {"lint", "build", "coverage"} : jobs[n] = "success"
               /\ jobs["tiny"] \in IF Required("tiny") THEN {"success"} ELSE {"success", "skipped"}
              THEN "success" ELSE "failure")
  /\ UNCHANGED <<push, attempt, cells, artifacts, evidence, admitted, ran, troubles, whole>>

\* The statuses handed to "assemble"; cleanup and destroy are those of the cells.
Prerequisites ==
  LET lifecycle == IF \A n \in DOMAIN Aggregates : Required(Aggregates[n]) => jobs[n] = "success"
                     THEN "success" ELSE "failure"
  IN  [n \in MandatoryPrerequisites |-> IF n \in DOMAIN jobs THEN jobs[n] ELSE lifecycle]

\* The documents the job makes of the built candidate.
SecurityDocuments(t) ==
  LET scanner == [wellFormed |-> TRUE, source |-> "sbom",
                  found |-> IF t = "vulnerable" THEN {[id |-> "advisory", severity |-> "high"]} ELSE {}]
  IN  [f \in SecurityFiles |->
         CASE f = "provenance" ->
                [wellFormed |-> TRUE, commit |-> Commit, candidate |-> Collection,
                 digest |-> "candidate-digest", repository |-> Repository, run |-> "run",
                 attempt |-> AttemptName(attempt)]
           [] f = "sbom" -> IF t = "no-sbom" THEN Nothing
                            ELSE [wellFormed |-> TRUE, component |-> Collection,
                                  hashes |-> {"candidate-digest"}]
           [] f = "secrets" -> [wellFormed |-> TRUE, findings |-> IF t = "leak" THEN 1 ELSE 0]
           [] OTHER -> scanner]

\* The bundles of this attempt, each below its own directory.
Downloaded == {a \in artifacts : a.attempt = attempt}

ReleaseFiles ==
  CopiedFiles(UNION {{[f EXCEPT !.cell = a.cell.scenario] : f \in a.bundle.files} : a \in Downloaded},
              CellReferences({a.bundle : a \in Downloaded}))

ContentOf(files, category) == {f.content : f \in {x \in files : x.category = category}}

\* "assemble --release" over them.
ReleaseBundle(files, t) ==
  LET hint == [scenario |-> Absent, target |-> Absent, attempt |-> Absent, stem |-> Absent]
  IN  Assembled(Listed({[report |-> r, hint |-> hint] : r \in ContentOf(files, "junit")}), files,
        [registry |-> push.registry, mode |-> "release", commit |-> Commit, requested |-> Commit,
         attempt |-> AttemptName(attempt), run |-> "run", filter |-> NoFilter,
         native |-> ContentOf(files, "allure-results"), prerequisites |-> Prerequisites,
         security |-> SecurityDocuments(t), collection |-> Collection, config |-> Config])

ReleaseTroubles == {"vulnerable", "no-sbom", "leak", "crash", "lost"}

\* The job is green when everything before it and both commands are.
Publish(t, bundle) ==
  LET needed == {"lint", "build", "coverage"}
                \cup {n \in DOMAIN Aggregates : Required(Aggregates[n])}
  IN  /\ evidence' = IF t = "lost" \/ ~Sealed(bundle) THEN evidence ELSE bundle
      /\ Finish("runtime-evidence",
                IF /\ Sealed(bundle) /\ bundle.passed
                   /\ Validates(bundle, TRUE, Commit, Config)
                   /\ \A n \in needed : jobs[n] = "success"
                   /\ t # "lost"
                  THEN "success" ELSE "failure")

\* _replace_root() moves the old root away before the new one takes its place; a
\* crash in between leaves none.
Replaced(t) == t # "crash"

\* Without an archive or a root there is nothing to upload.
RuntimeEvidence(t) ==
  LET runs == OnMain /\ jobs["matrix"] = "success" /\ RuntimeEvidenceRequired(push.change, Policy)
      nothing == \/ Downloaded = {}
                 \/ ~Replaced(t)
                 \/ ~Assembles(UNION {a.bundle.files : a \in Downloaded}, {a.bundle : a \in Downloaded})
  IN  /\ Due("runtime-evidence")
      /\ runs \/ t = "none"
      /\ Trouble(t)
      /\ IF runs /\ ~nothing THEN Publish(t, ReleaseBundle(ReleaseFiles, t))
         ELSE /\ Finish("runtime-evidence", IF runs THEN "failure" ELSE "skipped")
              /\ UNCHANGED evidence
      /\ UNCHANGED <<push, attempt, cells, artifacts, admitted, ran, whole>>

-----------------------------------------------------------------------------
\* The admission (release_security_admission.py).

\* prerequisites(): every mandatory job of this attempt, none still running.
PrerequisiteState ==
  LET unsatisfied == {jobs[n] : n \in {x \in Mandatory : jobs[x] # "success"}}
  IN  CASE unsatisfied = {} -> "prerequisites-satisfied"
        [] unsatisfied = {"pending"} -> "pending"
        [] OTHER -> "failed"

\* Mutant: the attempt is not part of the identity
IdentityVerifiedAnyAttempt(bundle) ==
  \A m \in {bundle, bundle.documents["provenance"]} : m.commit = Commit /\ m.run = "run"

\* verify_identity(): the manifest and the provenance are this attempt's.
IdentityVerified(bundle) ==
  \A m \in {bundle, bundle.documents["provenance"]} :
    m.commit = Commit /\ m.run = "run" /\ m.attempt = AttemptName(attempt)

\* What the download of the evidence yields; a torn one lacks a file.
Download(t) ==
  IF t = "none" THEN evidence
  ELSE [evidence EXCEPT !.files = @ \ {CHOOSE f \in @ : f.category = "dependencies"}]

AdmissionTroubles == {"torn"}

\* "prerequisites", "artifacts", "validate" and "complete", one after the other.
Admits(bundle) ==
  /\ PrerequisiteState = "prerequisites-satisfied"
  /\ Present(bundle)
  /\ IdentityVerified(bundle)
  /\ Validates(bundle, TRUE, Commit, Config)

Decide(bundle) ==
  IF OnMain /\ Admits(bundle)
    THEN /\ Finish("admission", "success")
         /\ admitted' = admitted \cup {[attempt |-> attempt, bundle |-> bundle]}
  ELSE /\ Finish("admission", IF OnMain THEN "failure" ELSE "skipped")
       /\ UNCHANGED admitted

Admission(t) ==
  /\ Due("admission")
  /\ t # "none" => OnMain /\ Present(evidence)
  /\ Trouble(t)
  /\ Decide(Download(t))
  /\ UNCHANGED <<push, attempt, cells, artifacts, evidence, ran, whole>>

-----------------------------------------------------------------------------
\* Running again.  "Failed" runs the jobs that did not succeed and everything that
\* needs one of them; what is not run keeps the evidence of its own attempt.

Ended == \A n \in Jobs : jobs[n] # "pending"

CellGroup(cell) == CHOOSE g \in Groups : GroupProfile[g] = cell.profile

\* Everything a job or a group waits for, directly or not.
Before[n \in Jobs \cup Groups] == Needs[n] \cup UNION {Before[m] : m \in Needs[n]}

Dependents(names) == names \cup {n \in Jobs \cup Groups : Before[n] \cap names # {}}

Rerun(mode) ==
  LET failed == {n \in Jobs \cup Groups : ResultOfJob(n) = "failure"}
      again == IF mode = "all" THEN Jobs \cup Groups ELSE Dependents(failed)
      restarted(c) == \/ cells[c] = "failure" \/ mode = "all"
                      \/ Needs[CellGroup(c)] \cap again # {}
  IN  /\ Ended
      /\ attempt < MaxAttempts
      /\ again # {}
      /\ attempt' = attempt + 1
      /\ whole' = IF mode = "all" THEN whole \cup {attempt'} ELSE whole
      /\ jobs' = [n \in Jobs |-> IF n \in again THEN "pending" ELSE jobs[n]]
      /\ cells' = [c \in DOMAIN cells |-> IF restarted(c) THEN "pending" ELSE cells[c]]
      /\ UNCHANGED <<push, artifacts, evidence, admitted, ran, troubles>>

-----------------------------------------------------------------------------
Init ==
  /\ push \in Pushes
  /\ attempt = 1
  /\ jobs = [n \in Jobs |-> "pending"]
  /\ cells = [c \in MatrixBundle(push.registry)["supported"] |-> "pending"]
  /\ artifacts = {}
  /\ evidence = Nothing
  /\ admitted = {}
  /\ ran = {}
  /\ troubles = <<>>
  /\ whole = {1}

\* One job ends.
JobStep ==
  \/ \E n \in Local, r \in {"success", "failure"} : RunLocal(n, r)
  \/ RunCoverage
  \/ RunMatrix
  \/ \E c \in DOMAIN cells, t \in CellTroubles \cup {"none"} : RunCell(c, t)
  \/ \E n \in DOMAIN Aggregates : AggregateProfile(n)
  \/ LocalEvidence
  \/ \E t \in ReleaseTroubles \cup {"none"} : RuntimeEvidence(t)
  \/ \E t \in AdmissionTroubles \cup {"none"} : Admission(t)

\* The workflow run is over: any other state without a step is a job that waits
\* for ever.
Over == Ended /\ UNCHANGED vars

Next ==
  \/ JobStep
  \/ \E mode \in {"all", "failed"} : Rerun(mode)
  \/ Over

Spec == Init /\ [][Next]_vars

-----------------------------------------------------------------------------
\* Properties.

\* What a release is admitted with was tested: for each production role, each
\* supported target and each profile, the role was run in the admitted attempt
\* with every testcase passed and no failing cleanup (validate_registry,
\* build_matrix, record, assemble and validate together; none of them sees the
\* tests run).
AdmittedSupportWasTested ==
  \A a \in admitted : \A r \in DOMAIN push.registry.roles :
    LET role == push.registry.roles[r]
    IN  role.maturity = "production" =>
          \A t \in role.supported, p \in Profiles :
            \E x \in ran : /\ x.role = r /\ x.attempt = a.attempt /\ x.passed
                           /\ x.cell.target = t /\ x.cell.profile = p

\* Every container that ran in a target is one of the applications in the
\* admitted inventory of that cell (assess_dependencies).
AdmittedRunsAreInventoried ==
  \A a \in admitted : \A x \in ran :
    x.attempt = a.attempt =>
      \E d \in DepsOf(a.bundle.files).applications :
        d.cell = x.cell /\ x.containers \subseteq {y.digest : y \in d.applications}

\* No file of an admitted bundle holds a secret, inside an archive or not
\* (redact_file, scan_evidence).
AdmittedEvidenceIsClean ==
  \A a \in admitted : \A f \in a.bundle.files :
    f.payload.secrets = {} /\ (\A m \in f.members : m.secrets = {})

\* An attempt that runs every job, on main and with a valid registry, ends
\* admitted unless one of its jobs has a trouble, whatever earlier attempts left:
\* the report of a cell, redacted, collected, copied and re-read by three
\* programs, still satisfies the last of them.
CleanRunIsAdmitted ==
  /\ Ended /\ attempt \in whole
  /\ attempt \notin {troubles[i] : i \in DOMAIN troubles}
  /\ OnMain /\ Validated(push.registry, push.tree)
  => \E a \in admitted : a.attempt = attempt
=============================================================================
