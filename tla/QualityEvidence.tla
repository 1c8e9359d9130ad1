--------------------------- MODULE QualityEvidence ---------------------------
\* The evidence of a quality run (scripts/quality_evidence.py): what a JUnit
\* report says, how "record" keeps the report of one matrix cell, how "assemble"
\* turns reports into the results and verdict of a bundle, and what "validate"
\* derives again from the bundle's own files.
\*
\* A report is a record: whether it parses, its testcases, the roles, commit,
\* framework and identity its suite declares ("" when absent) and whether it
\* approves its skips.  A testcase has a name, its explicit roles, a status,
\* whether its skip is approved and whether it only reports a process's exit.
\* Digests are the values they are taken of; profile names are normalised.
EXTENDS RoleCoverage, EvidenceFiles, ReleaseInputs

Absent == ""
NoCommit == "none"

\* The members of a finite set in some order, taken one by one.
Listing(S) ==
  LET first[n \in 0..Cardinality(S)] ==
        IF n = 0 THEN <<>>
        ELSE LET before == first[n - 1]
             IN  IF S \subseteq Range(before) THEN before
                 ELSE Append(before, CHOOSE x \in S : x \notin Range(before))
  IN  first

Listed(S) == IF IsFiniteSet(S) THEN Listing(S)[Cardinality(S)] ELSE <<>>

-----------------------------------------------------------------------------
\* JUnit.

\* A testcase without a role has the suite's, when the suite has only one.
CasesOf(r) ==
  {IF c.roles = {} /\ Cardinality(r.suiteRoles) = 1 THEN [c EXCEPT !.roles = r.suiteRoles] ELSE c :
     c \in r.cases}

\* parse_junit() accepts the document: testcases, and under several suite roles
\* at most one role each, one of the suite's.
Readable(r) ==
  /\ r.wellFormed
  /\ r.cases # {}
  /\ Cardinality(r.suiteRoles) > 1 =>
       \A c \in r.cases : /\ Cardinality(c.roles) <= 1
                          /\ c.roles \subseteq r.suiteRoles

\* The only testcase says that a process ended.
Opaque(cases) == Cardinality(cases) = 1 /\ \A c \in cases : c.process

Skipped(cases) == {c \in cases : c.status = "skipped"}
SkipsApproved(cases) == \A c \in Skipped(cases) : c.approved

StatusOf(cases, framework, approved) ==
  CASE framework = "evidence-fallback" -> "infrastructure-error"
    [] framework # "evidence-fallback" /\ (Opaque(cases) \/ \E c \in cases : c.status \in {"failure", "error"}) -> "failed"
    [] OTHER -> IF Skipped(cases) = {} THEN "passed"
                ELSE IF approved THEN "skipped-with-approved-justification" ELSE "failed"

Parsed(r) ==
  Overlaid([r EXCEPT !.cases = CasesOf(r)],
           [status |-> StatusOf(CasesOf(r), r.framework, r.approvesSkips \/ SkipsApproved(CasesOf(r)))])

\* What two reports of the same execution have in common.
LogicalDigest(p) == <<p.cases, p.status>>

\* The testcases of one role; a report with several roles must say for each
\* testcase whose it is.
RoleUnclear(p, role, declared) ==
  \/ Cardinality(declared) > 1 /\ \E c \in p.cases : c.roles = {}
  \/ \A c \in p.cases : role \notin c.roles

ForRole(p, role) ==
  LET cases == {c \in p.cases : role \in c.roles}
  IN  [p EXCEPT !.cases = cases, !.status = StatusOf(cases, p.framework, SkipsApproved(cases))]

\* The first value that is given.
Given(values) ==
  LET given == SelectSeq(values, LAMBDA v : v # Absent)
  IN  IF given = <<>> THEN "unknown" ELSE Head(given)

Single(set) == IF Cardinality(set) = 1 THEN CHOOSE x \in set : TRUE ELSE Absent

\* infer_report_identity(): the suite's properties, then the path, then the
\* registry, then the defaults of the command.
Infer(p, hint, reg, defaults, attempt) ==
  LET scenario == Given(<<p.id.scenario, hint.scenario, Single(defaults.scenarios), hint.stem>>)
      registered == scenario \in DOMAIN reg.scenarios
      profile == IF registered THEN reg.scenarios[scenario].profile ELSE Absent
      declared == IF registered THEN reg.scenarios[scenario].roles ELSE {}
      known == <<p.suiteRoles, declared, defaults.roles, {"unknown"}>>
  IN  [scenario |-> scenario,
       profile |-> Given(<<p.id.profile, profile, Single(defaults.profiles)>>),
       target |-> Given(<<p.id.target, hint.target, Single(defaults.targets)>>),
       attempt |-> Given(<<p.id.attempt, hint.attempt, attempt>>),
       roles |-> Head(SelectSeq(known, LAMBDA s : s # {}))]

IdentityOf(role, i) ==
  [role |-> role, scenario |-> i.scenario, profile |-> i.profile, target |-> i.target,
   attempt |-> i.attempt]

-----------------------------------------------------------------------------
\* The production cells of the registry, as the evidence reads them: maturity,
\* state and implementation have defaults and synonyms the validator refuses.

CountsFor(role, profile) ==
  /\ role.maturity \in {"production", "production-supported", "stable"}
  /\ role.state[profile] = "supported"

\* An empty filter selects everything.
Passes(filter, x) == filter = {} \/ x \in filter

ExpectedCells(reg, disposition, filter) ==
  {[scenario |-> x[1], target |-> x[2], profile |-> reg.scenarios[x[1]].profile,
    roles |-> {r \in reg.scenarios[x[1]].roles \cap DOMAIN reg.roles :
                 /\ CountsFor(reg.roles[r], reg.scenarios[x[1]].profile)
                 /\ Passes(filter.roles, r)}] :
     x \in {y \in (DOMAIN reg.scenarios) \X (DOMAIN reg.targets) :
       LET scenario == reg.scenarios[y[1]]
           roles == {r \in scenario.roles \cap DOMAIN reg.roles :
                       CountsFor(reg.roles[r], scenario.profile)}
       IN  /\ Passes(filter.profiles, scenario.profile)
           /\ Passes(filter.scenarios, y[1]) /\ Passes(filter.targets, y[2])
           /\ scenario.state = "supported" /\ scenario.implementation = "real"
           /\ \E r \in roles : Passes(filter.roles, r)
           /\ y[2] \in SharedTargets(reg, roles, disposition)}}

\* A scenario several production roles share, with different target sets.
TargetsAmbiguous(reg) ==
  \E s \in DOMAIN reg.scenarios : \E d \in {"supported", "candidate"} :
    /\ reg.scenarios[s].state = "supported" /\ reg.scenarios[s].implementation = "real"
    /\ Ambiguous(reg, {r \in reg.scenarios[s].roles \cap DOMAIN reg.roles :
                         CountsFor(reg.roles[r], reg.scenarios[s].profile)}, d)

NoFilter == [roles |-> {}, profiles |-> {}, scenarios |-> {}, targets |-> {}]

-----------------------------------------------------------------------------
\* Allure.  A native result names a testcase and has label sets.

AllureStatus(status) ==
  CASE status = "passed" -> "passed" [] status = "failure" -> "failed"
    [] status = "skipped" -> "skipped" [] OTHER -> "broken"

Labels == {"role", "profile", "scenario", "target", "attempt", "commit"}

Bound(identity, commit) ==
  [l \in Labels |-> IF l = "commit" THEN {commit} ELSE {identity[l]}]

\* generate_allure_result(): one result per testcase of a report that is not
\* pytest's.
GeneratedAllure(p, identity, commit) ==
  {[case |-> c.name, labels |-> Bound(identity, commit), status |-> AllureStatus(c.status),
    copy |-> p.name] : c \in p.cases}

\* _native_matches(): the unused results that name the testcase and carry exactly
\* the identity and commit.
Candidates(case, native, identity, commit) ==
  {a \in native : /\ a.case = case.name
                  /\ commit # NoCommit
                  /\ a.labels = Bound(identity, commit)}

Taken(p, native, identity, commit) ==
  {a \in native : \E c \in p.cases : Candidates(c, native, identity, commit) = {a}}

\* Of those it takes, the ones that agree with the testcase on its status.
NativeMatches(p, native, identity, commit) ==
  {a \in native : \E c \in p.cases : /\ Candidates(c, native, identity, commit) = {a}
                                     /\ a.status = AllureStatus(c.status)}

AllureComplete(p, native, identity, commit) ==
  \A c \in p.cases : \E a \in native : /\ Candidates(c, native, identity, commit) = {a}
                                       /\ a.status = AllureStatus(c.status)

\* _annotate_native_allure(): a result bound to the one role of its testcase gets
\* the identity of the cell; any other is left as it is.
AnnotatedAllure(native, p, cell, attempt, commit) ==
  {LET role == {c.roles : c \in {x \in p.cases : x.name = a.case}}
       identity == [scenario |-> cell.scenario, profile |-> cell.profile, target |-> cell.target,
                    attempt |-> attempt, role |-> Single(a.labels.role)]
   IN  IF role = {a.labels.role} /\ Cardinality(a.labels.role) = 1
         THEN [a EXCEPT !.labels = Bound(identity, commit)] ELSE a : a \in native}

-----------------------------------------------------------------------------
\* "record": the report of one cell.

Unavailable == [name |-> "unavailable", roles |-> {}, status |-> "error", approved |-> FALSE,
                process |-> FALSE]

\* _fallback_junit(): an error in place of a report; it names no commit.
Fallback(name, identity, roles) ==
  [wellFormed |-> TRUE, cases |-> {Unavailable}, suiteRoles |-> roles, approvesSkips |-> FALSE,
   framework |-> "evidence-fallback", commit |-> NoCommit, name |-> name,
   id |-> [scenario |-> identity.scenario, profile |-> identity.profile,
           target |-> identity.target, attempt |-> identity.attempt]]

\* _annotate_junit(): the copy declares the cell's roles, identity and commit.
Annotated(r, cell, attempt, commit) ==
  [r EXCEPT !.suiteRoles = cell.roles, !.commit = commit,
            !.id = [scenario |-> cell.scenario, profile |-> cell.profile,
                    target |-> cell.target, attempt |-> attempt]]

\* A found report is kept unless it does not parse, names another commit, or has
\* nothing but passes although the process failed.
Usable(r, exit, commit) ==
  /\ Readable(r)
  /\ r.commit \in {NoCommit, commit}
  /\ ~(exit # 0 /\ Parsed(r).status = "passed")

\* "found" has at most one report; what "record" leaves is always annotated.
RecordedReport(found, cell, attempt, commit, exit) ==
  LET identity == [scenario |-> cell.scenario, profile |-> cell.profile,
                   target |-> cell.target, attempt |-> attempt]
      kept == {r \in found : Usable(r, exit, commit)}
      base == IF kept = {} THEN Fallback("recorded", identity, {}) ELSE CHOOSE r \in kept : TRUE
  IN  Annotated([base EXCEPT !.name = "recorded"], cell, attempt, commit)

\* The results that lie beside the recorded report.
RecordedAllure(recorded, native, cell, attempt, commit) ==
  LET p == Parsed(recorded)
      identity(r) == IdentityOf(r, [scenario |-> cell.scenario, profile |-> cell.profile,
                                    target |-> cell.target, attempt |-> attempt])
  IN  IF p.framework = "pytest" THEN AnnotatedAllure(native, p, cell, attempt, commit)
      ELSE native \cup UNION {GeneratedAllure(ForRole(p, r), identity(r), commit) :
                                r \in {x \in cell.roles : ~RoleUnclear(p, x, cell.roles)}}

-----------------------------------------------------------------------------
\* "assemble": reports become rows, rows become results.  An input is a report
\* and what its path says; "ctx" is the command's registry, mode, commit,
\* expected commit, attempt, run, filters and the outcome of its other checks.

InferOf(input, ctx) ==
  Infer(Parsed(input.report), input.hint, ctx.registry, ctx.filter, ctx.attempt)

\* Reports of the same execution: the same testcases of the same cell.
TwinKey(input, ctx) == <<LogicalDigest(Parsed(input.report)), InferOf(input, ctx)>>

HasExactTwin(input, inputs, ctx) ==
  \E i \in DOMAIN inputs : /\ Readable(inputs[i].report)
                          /\ inputs[i].report.commit = ctx.commit
                          /\ TwinKey(inputs[i], ctx) = TwinKey(input, ctx)

\* A report without the commit is passed over when its recorded copy is there.
Superseded(input, inputs, ctx) ==
  /\ input.report.commit = NoCommit
  /\ HasExactTwin(input, inputs, ctx)

\* A report must belong to a scenario of the registry, in its profile and with
\* its roles.
Registered(inferred, reg) ==
  /\ inferred.scenario \in DOMAIN reg.scenarios
  /\ reg.scenarios[inferred.scenario].profile = inferred.profile
  /\ inferred.roles \subseteq reg.scenarios[inferred.scenario].roles

\* The row of one role of a report; pytest's results must be found among the
\* native ones, others are generated.
RowOf(input, role, inferred, native, ctx) ==
  LET p == ForRole(Parsed(input.report), role)
      identity == IdentityOf(role, inferred)
      pytest == p.framework = "pytest"
      found == IF pytest THEN NativeMatches(p, native, identity, ctx.commit)
               ELSE GeneratedAllure(p, identity, ctx.commit)
  IN  [identity |-> identity, report |-> p, file |-> input.report, allure |-> found,
       taken |-> IF pytest THEN Taken(p, native, identity, ctx.commit) ELSE {},
       complete |-> pytest => AllureComplete(p, native, identity, ctx.commit)]

\* A row without a report: the cell is there, its evidence is not.
FallbackRow(identity, ctx) ==
  LET r == Fallback("fallback", identity, {identity.role})
  IN  [identity |-> identity, report |-> Parsed(r), file |-> r, taken |-> {},
       allure |-> GeneratedAllure(Parsed(r), identity, ctx.commit), complete |-> TRUE]

\* Who an unreadable report is said to be from.
SyntheticIdentity(input, ctx) ==
  LET or(x) == IF x = Absent THEN "unknown" ELSE x
      named == Single(ctx.filter.scenarios)
  IN  [role |-> or(Single(ctx.filter.roles)), profile |-> or(Single(ctx.filter.profiles)),
       scenario |-> IF named = Absent THEN input.hint.stem ELSE named,
       target |-> or(Single(ctx.filter.targets)), attempt |-> ctx.attempt]

\* What is wrong with a readable report of the registry's scenario.
ReportBlockers(input, inferred, rows, ctx) ==
  (IF input.report.commit = ctx.commit THEN {} ELSE {"commit"})
    \cup (IF {w.identity.role : w \in rows} = inferred.roles THEN {} ELSE {"role"})
    \cup (IF \A w \in rows : w.complete THEN {} ELSE {"allure"})

\* One report after another: a native result serves one testcase only.
AddRows(acc, input, inferred, rows, ctx) ==
  IF ~Registered(inferred, ctx.registry)
    THEN [acc EXCEPT !.blockers = @ \cup {"unregistered"}
                                  \cup (ReportBlockers(input, inferred, {}, ctx) \cap {"commit"})]
  ELSE [rows |-> acc.rows \o Listed(rows),
        blockers |-> acc.blockers \cup ReportBlockers(input, inferred, rows, ctx),
        used |-> acc.used \cup UNION {w.taken : w \in rows}]

\* A role whose testcases cannot be told from the others' gets no row.
AddInferred(acc, input, inferred, ctx) ==
  AddRows(acc, input, inferred,
          {RowOf(input, r, inferred, ctx.native \ acc.used, ctx) :
             r \in {x \in inferred.roles : ~RoleUnclear(Parsed(input.report), x, inferred.roles)}},
          ctx)

AddReport(acc, input, inputs, ctx) ==
  IF ~Readable(input.report)
    THEN [acc EXCEPT !.rows = Append(@, FallbackRow(SyntheticIdentity(input, ctx), ctx)),
                     !.blockers = @ \cup {"unreadable"}]
  ELSE IF Superseded(input, inputs, ctx) THEN acc
  ELSE AddInferred(acc, input, InferOf(input, ctx), ctx)

Reading(inputs, ctx) ==
  LET after[n \in 0..Len(inputs)] ==
        IF n = 0 THEN [rows |-> <<>>, blockers |-> {}, used |-> {}]
        ELSE AddReport(after[n - 1], inputs[n], inputs, ctx)
  IN  after

Reported(inputs, ctx) == Reading(inputs, ctx)[Len(inputs)]

\* A mandatory cell and role without a report gets an error in its place.
Completed(rows, expected, ctx) ==
  LET present == {rows[i].identity : i \in DOMAIN rows}
      due == UNION {{IdentityOf(r, [scenario |-> c.scenario, profile |-> c.profile,
                                    target |-> c.target, attempt |-> ctx.attempt]) : r \in c.roles} :
                      c \in expected}
  IN  rows \o Listed({FallbackRow(i, ctx) : i \in due \ present})

\* The worst of some statuses; nothing, or anything else, is an error.
Merged(statuses) ==
  IF "infrastructure-error" \in statuses THEN "infrastructure-error"
  ELSE IF "failed" \in statuses THEN "failed"
  ELSE IF "skipped-with-approved-justification" \in statuses
    THEN "skipped-with-approved-justification"
  ELSE IF statuses = {"passed"} THEN "passed" ELSE "infrastructure-error"

\* _aggregate_reports(): the rows of an identity, a repeated execution once.
ResultOf(identity, rows) ==
  LET of == {i \in DOMAIN rows : rows[i].identity = identity}
      first == {i \in of : \A j \in of : j < i => LogicalDigest(rows[j].report) # LogicalDigest(rows[i].report)}
      kept == {rows[i] : i \in first}
      status == Merged({w.report.status : w \in kept})
      blocked == (\E w \in kept : ~w.complete)
  IN  [identity |-> identity,
       status |-> IF blocked /\ status = "passed" THEN "failed" ELSE status,
       cases |-> UNION {w.report.cases : w \in kept},
       junit |-> {w.file : w \in kept},
       allure |-> UNION {w.allure : w \in kept},
       meaningful |-> \A w \in kept : ~Opaque(w.report.cases)]

Results(rows) == {ResultOf(i, rows) : i \in {rows[n].identity : n \in DOMAIN rows}}

\* _evaluate_expected(): a cell passes when every result it has passed and every
\* role it requires has one.
CellStatus(cell, results, attempt) ==
  LET matching == {r \in results : /\ r.identity.scenario = cell.scenario
                                  /\ r.identity.profile = cell.profile
                                  /\ r.identity.target = cell.target
                                  /\ r.identity.attempt = attempt}
      passed == {r.identity.role : r \in {x \in matching : x.status = "passed"}}
  IN  IF cell.roles \subseteq passed /\ \A r \in matching : r.status = "passed" THEN "passed"
      ELSE IF matching = {} THEN "infrastructure-error" ELSE "failed"

Evaluated(expected, results, attempt) ==
  {[cell |-> c, status |-> CellStatus(c, results, attempt)] : c \in expected}

-----------------------------------------------------------------------------
\* The bundle and its verdict.  "ctx" also has the run, the requested commit, the
\* prerequisites, the security documents, the collection's name and the tree's
\* scenario configuration.

\* What stops a release whose command line or registry does not cover all of it.
RegistryErrors(ctx, expected) ==
  IF ctx.mode # "release" THEN {}
  ELSE {e \in {"empty", "subset"} :
          \/ e = "empty" /\ expected = {}
          \/ e = "subset" /\ expected # ExpectedCells(ctx.registry, "supported", NoFilter)}
       \cup (IF TargetsAmbiguous(ctx.registry) THEN {"ambiguous"} ELSE {})

\* The dependency inventories among the files of a root.
Inventories(files) == {f.content : f \in {x \in files : x.category = "dependencies"}}

DepsOf(files) ==
  [kind \in {"versions", "python", "browsers", "collections", "images", "environments",
            "containers", "applications"} |->
     {d.doc : d \in {x \in Inventories(files) : x.kind = kind}}]

\* _manifest_logic_failures(): what keeps a manifest from being a pass.
LogicFailures(m, release) ==
  LET statuses == {r.status : r \in m.results}
      named(r) == {r.identity.role, r.identity.profile, r.identity.target}
      fails ==
        [results |-> m.results = {},
         status |-> statuses # {"passed"},
         identity |-> \E r \in m.results : "unknown" \in named(r),
         opaque |-> \E r \in m.results : ~r.meaningful,
         allure |-> \E r \in m.results : r.allure = {},
         cells |-> \E e \in m.expected : e.status # "passed",
         blockers |-> m.blockers # {},
         scan |-> ~m.clean,
         security |-> release /\ (m.security.missing # {} \/ m.security.semantic # {}),
         candidate |-> release /\ m.security.digest = "",
         vulnerable |-> release /\ m.security.blocking,
         empty |-> release /\ m.expected = {},
         findings |-> m.security.findings,
         commit |-> ~m.consistent \/ m.commit # m.requested,
         prerequisites |-> PrerequisiteErrors(m.prerequisites) # {}]
  IN  {k \in DOMAIN fails : fails[k]}

\* assemble() up to the results: the manifest without its verdict, once the
\* reports are read and the missing ones known.
Concluded(reported, results, expected, ctx) ==
  [expected |-> expected, results |-> results, blockers |-> reported.blockers,
   evaluated |-> Evaluated(expected, results, ctx.attempt),
   consistent |-> /\ "commit" \notin reported.blockers
                  /\ ctx.commit # NoCommit /\ ctx.commit = ctx.requested]

Gathered(reported, expected, ctx) ==
  Concluded(reported, Results(Completed(reported.rows, expected, ctx)), expected, ctx)

\* A file assemble() writes.
Written(category, content) ==
  [category |-> category, content |-> content, cell |-> "", members |-> {}, oversize |-> FALSE,
   payload |-> [form |-> "text", secrets |-> {}]]

ReferencedFiles(results) ==
  UNION {{Written("junit", j) : j \in r.junit} \cup {Written("allure-results", a) : a \in r.allure} :
           r \in results}

\* The root: its files after redaction and, without the collected copies of what
\* it wrote itself, the reports its results refer to.
StagedFiles(files, results) ==
  LET named == {<<w.category, w.content>> : w \in ReferencedFiles(results)}
      kept == {RedactFile(f) : f \in files}
  IN  kept \cup {w \in ReferencedFiles(results) :
                  <<w.category, w.content>> \notin {<<f.category, f.content>> : f \in kept}}

\* Everything that blocks, whatever the results say.
Blockers(found, security, deps, clean, ctx) ==
  found.blockers \cup RegistryErrors(ctx, found.expected)
    \cup {"cell" : e \in {x \in found.evaluated : x.status # "passed"}}
    \cup SecurityErrors(security, ctx.mode = "release") \cup deps
    \cup PrerequisiteErrors(ctx.prerequisites)
    \cup (IF found.consistent THEN {} ELSE {"requested"})
    \cup (IF clean THEN {} ELSE {"scan"})

Manifest(found, security, deps, clean, ctx) ==
  [mode |-> ctx.mode, commit |-> ctx.commit, requested |-> ctx.requested,
   consistent |-> found.consistent, run |-> ctx.run, attempt |-> ctx.attempt,
   results |-> found.results, expected |-> found.evaluated, count |-> Cardinality(found.results),
   security |-> security, prerequisites |-> ctx.prerequisites, clean |-> clean,
   blockers |-> Blockers(found, security, deps, clean, ctx)]

\* What _write_metadata() puts beside the manifest.
Metadata(ctx) ==
  [registry |-> ctx.registry, source |-> ctx.commit, collection |-> ctx.collection]

\* The manifest with its verdict and the files around it.
Bundle(manifest, passed, staged, ctx) ==
  Overlaid(manifest,
           Overlaid(Metadata(ctx),
                    [passed |-> passed, eligible |-> passed /\ ctx.mode # "candidate",
                     documents |-> ctx.security, files |-> staged, sums |-> staged]))

Judged(manifest, staged, ctx) ==
  Bundle(manifest, LogicFailures(manifest, ctx.mode = "release") = {}, staged, ctx)

Staged(found, files, staged, ctx) ==
  Judged(Manifest(found, Security(ctx.security, ctx.collection, ctx.commit),
                  DependencyErrors(DepsOf(files), found.expected, ctx.mode = "release", ctx.commit,
                                   ctx.registry, ctx.config),
                  ScanClean(staged), ctx),
         staged, ctx)

Redacted(found, files, ctx) == Staged(found, files, StagedFiles(files, found.results), ctx)

\* assemble(): the bundle.  "files" are the collected ones, "inputs" the reports
\* among them in path order.
Assembled(inputs, files, ctx) ==
  LET disposition == IF ctx.mode = "candidate" THEN "candidate" ELSE "supported"
      expected == ExpectedCells(ctx.registry, disposition, ctx.filter)
  IN  Redacted(Gathered(Reported(inputs, ctx), expected, ctx), files, ctx)

\* The scan after the checksums: assemble() fails on what it rejects and leaves
\* no bundle.
Sealed(bundle) == ScanClean(bundle.files)

\* A file beyond a limit stops the collection or the redaction: no bundle.
Assembles(files, cells) == CellsReadable(cells) /\ \A f \in files : ~f.oversize

-----------------------------------------------------------------------------
\* "validate": the bundle as it is found.

\* Every testcase of a result has its role and no other.
ResultsWellFormed(results) ==
  /\ results # {}
  /\ \A r \in results : /\ r.identity.profile \in Profiles
                         /\ r.junit # {} /\ r.allure # {} /\ r.cases # {}
                         /\ \A c \in r.cases : c.roles = {r.identity.role}

CellsWellFormed(m) ==
  /\ \A e \in m.expected : e.cell.profile \in Profiles /\ e.cell.roles # {}
  /\ m.count = Cardinality(m.results)

\* What the manifest records of the scan and of the prerequisites.
RecordsWellFormed(m) == m.clean /\ PrerequisiteErrors(m.prerequisites) = {}

\* _manifest_structure_failures(): the flags agree with each other.
StructureHolds(m) ==
  /\ m.mode \in {"ci", "candidate", "release"}
  /\ m.mode = "candidate" => m.passed /\ ~m.eligible
  /\ NoCommit \notin {m.commit, m.requested}
  /\ ResultsWellFormed(m.results) /\ CellsWellFormed(m) /\ RecordsWellFormed(m)

\* _evidence_reference(): the file is in the bundle, under its category.
InBundle(m, category, content) ==
  \E f \in m.files : f.category = category /\ f.content = content

\* The report of a result names the commit, the cell and the role, and says for
\* each testcase whose it is.
ReportHolds(m, r, j) ==
  LET p == Parsed(j)
  IN  /\ InBundle(m, "junit", j)
      /\ Readable(j)
      /\ j.commit = m.commit
      /\ <<j.id.scenario, j.id.profile, j.id.target, j.id.attempt>> =
           <<r.identity.scenario, r.identity.profile, r.identity.target, r.identity.attempt>>
      /\ r.identity.role \in j.suiteRoles
      /\ ~RoleUnclear(p, r.identity.role, j.suiteRoles)

\* A result follows from its files: status, testcases and Allure results one to
\* one.
ResultRederived(m, r) ==
  LET row(j) == LET p == ForRole(Parsed(j), r.identity.role)
                IN  [identity |-> r.identity, report |-> p, file |-> j,
                     allure |-> NativeMatches(p, r.allure, r.identity, m.commit),
                     complete |-> AllureComplete(p, r.allure, r.identity, m.commit)]
      again == ResultOf(r.identity, Listed({row(j) : j \in r.junit}))
  IN  /\ \A j \in r.junit : ReportHolds(m, r, j)
      /\ \A a \in r.allure : InBundle(m, "allure-results", a)
      /\ again.status = r.status /\ again.meaningful = r.meaningful
      /\ again.cases = r.cases /\ again.allure = r.allure

\* And no Allure result serves two of them.
Rederived(m) ==
  /\ \A r \in m.results : ResultRederived(m, r)
  /\ \A r, s \in m.results : r.allure \cap s.allure # {} => r = s

\* The matrix is the registry's, and its statuses follow from the results.
MatrixHolds(m, release) ==
  LET disposition == IF m.mode = "candidate" THEN "candidate" ELSE "supported"
      cells == {e.cell : e \in m.expected}
  IN  /\ release => cells = ExpectedCells(m.registry, disposition, NoFilter)
      /\ m.expected = Evaluated(cells, m.results, m.attempt)
      /\ \A e \in m.expected : e.status = "passed"

\* validate(): nothing is taken from the manifest that its files do not say.
Validates(m, release, expected, config) ==
  /\ StructureHolds(m)
  /\ ChecksumsHold(m.sums, m.files)
  /\ LogicFailures(m, release) = {}
  /\ Rederived(m)
  /\ m.mode # "candidate" => m.eligible
  /\ m.commit = expected /\ m.source = m.commit
  /\ Security(m.documents, m.collection, m.commit) = m.security
  /\ SecurityErrors(m.security, release) = {}
  /\ DependencyErrors(DepsOf(m.files), {e.cell : e \in m.expected}, release, m.commit,
                      m.registry, config) = {}
  /\ ~TargetsAmbiguous(m.registry)
  /\ MatrixHolds(m, release)
  /\ ScanClean(m.files)
=============================================================================
