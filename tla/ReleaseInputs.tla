---------------------------- MODULE ReleaseInputs ----------------------------
\* What a release needs besides test reports (scripts/quality_evidence.py): the
\* security documents, the dependency inventories and the prerequisite jobs.
\*
\* A document is a record; "wellFormed" stands for the fields, patterns and sizes
\* nothing else here depends on.  A missing document is Nothing.  A cell is
\* [scenario, profile, target]; digests are the values they are taken of.
EXTENDS Naturals, FiniteSets

Nothing == [missing |-> TRUE]
Present(doc) == doc # Nothing

CellKey(c) == [scenario |-> c.scenario, profile |-> c.profile, target |-> c.target]

-----------------------------------------------------------------------------
\* Security.

SecurityFiles == {"sbom", "provenance", "grype", "trivy", "secrets"}

\* The candidate is named after the collection of galaxy.yml, and the provenance
\* was recorded at the tested commit.
ProvenanceHolds(p, collection, commit) ==
  p.wellFormed /\ p.commit = commit /\ p.candidate = collection

\* The component of the SBOM is that collection, with the digest the provenance
\* gives the candidate.
SbomHolds(sbom, collection, digest) ==
  sbom.wellFormed /\ sbom.component = collection /\ digest \in sbom.hashes

Blocking(report) == {v \in report.found : v.severity \in {"high", "critical"}}

\* Both scanners read the SBOM and find nothing of high or critical severity.
GrypeHolds(report) == report.wellFormed /\ report.source = "sbom" /\ Blocking(report) = {}
TrivyHolds(report) == report.wellFormed /\ report.source = "sbom" /\ Blocking(report) = {}

\* The scanner's version, its plugins and its results by path.
ScanSummaryHolds(summary) == summary.wellFormed

\* assess_security(): what the manifest records of the documents.
Security(docs, collection, commit) ==
  LET has(f) == Present(docs[f])
      digest == IF has("provenance") THEN docs["provenance"].digest ELSE ""
      semantic == {f \in SecurityFiles : has(f)
                     /\ ~(CASE f = "provenance" -> ProvenanceHolds(docs[f], collection, commit)
                            [] f = "sbom" -> SbomHolds(docs[f], collection, digest)
                            [] f = "grype" -> GrypeHolds(docs[f])
                            [] f = "trivy" -> TrivyHolds(docs[f])
                            [] OTHER -> ScanSummaryHolds(docs[f]))}
  IN  [missing |-> {f \in SecurityFiles : ~has(f)},
       semantic |-> semantic,
       blocking |-> \E f \in {"grype", "trivy"} : has(f) /\ Blocking(docs[f]) # {},
       findings |-> has("secrets") /\ docs["secrets"].findings > 0,
       commit |-> IF has("provenance") THEN docs["provenance"].commit ELSE "",
       digest |-> digest]

\* Which of it blocks; outside a release only the findings of the secret scan.
SecurityErrors(s, release) ==
  (IF s.findings THEN {"findings"} ELSE {})
    \cup (IF release THEN s.semantic \cup s.missing ELSE {})

-----------------------------------------------------------------------------
\* Dependencies.  "deps" has a set of documents for each kind of inventory.

\* Every controller tool has a version in every file about it.
VersionsHold(deps) ==
  \A tool \in {"ansible", "molecule", "python"} :
    LET files == {d \in deps.versions : d.tool = tool}
    IN  files # {} /\ \A d \in files : d.wellFormed

\* The cells whose target runs a browser.
BrowserCells(cells) ==
  {CellKey(c) : c \in {x \in cells : /\ x.profile = "application_acceptance"
                                   /\ x.scenario = "keycloak-application-acceptance"}}

\* Package inventories; one of a target's virtual environment is bound to its
\* cell and to the commit and has one Playwright.
PythonHolds(deps, cells, commit) ==
  LET targets == {d \in deps.python : d.source = "target-venv"}
  IN  /\ deps.python # {}
      /\ \A d \in deps.python : d.wellFormed /\ d.packages # {}
      /\ \A d \in targets : /\ d.commit = commit
                           /\ cells # {} => d.cell \in BrowserCells(cells)
                           /\ Cardinality(d.playwright) = 1
      /\ \A d, e \in targets : d.cell = e.cell => d = e
      /\ BrowserCells(cells) \subseteq {d.cell : d \in targets}

\* The browser of each such cell, driven by the Playwright of its packages, on
\* the operating system the target is named after.
BrowsersHold(deps, cells, commit) ==
  LET packages(cell) == {d \in deps.python : d.source = "target-venv" /\ d.cell = cell}
  IN  /\ \A b \in deps.browsers :
           /\ b.wellFormed /\ b.commit = commit
           /\ cells # {} => b.cell \in BrowserCells(cells)
           /\ {b.playwright} = UNION {d.playwright : d \in packages(b.cell)}
           /\ b.system = b.cell.target
      /\ \A b, c \in deps.browsers : b.cell = c.cell => b = c
      /\ BrowserCells(cells) \subseteq {b.cell : b \in deps.browsers}

\* Collections, the Incus base image and whether an execution environment ran.
HostHolds(deps) ==
  /\ deps.collections # {}
  /\ \A d \in deps.collections : d.wellFormed /\ d.names # {}
  /\ deps.images # {}
  /\ \A d \in deps.images : d.immutable
  /\ deps.environments # {}
  /\ \A d \in deps.environments :
       d.mode = "host-native" <=> d.digest = "not-applicable"

\* "mutable" is an image that has neither a digest nor an id.
Immutable(digests) == "mutable" \notin digests

\* The containers found inside each target; an image without a digest or an id
\* is an error, and keeps its file's digests out.
ContainersHold(deps) ==
  \A d \in deps.containers : d.wellFormed /\ (d.available => Immutable(d.digests))

ContainerDigests(deps, cell) ==
  UNION {d.digests : d \in {x \in deps.containers :
           x.available /\ Immutable(x.digests)
             /\ x.scenario = cell.scenario /\ x.target = cell.target}}

\* _registry_test_application_policy(): the inventory's policy is that of the
\* registry copied beside it, which is that of the source.
PolicyHolds(a, registry) ==
  /\ a.registry = registry
  /\ a.cell.scenario \in DOMAIN registry.scenarios
  /\ a.policy = registry.scenarios[a.cell.scenario].policy
  /\ a.policy.mode = "declared-evidence" <=> a.policy.claims # {}
  /\ a.policy.mode = "not-applicable" =>
       ~(registry.scenarios[a.cell.scenario].state = "supported"
         /\ registry.scenarios[a.cell.scenario].implementation = "real")

\* The test applications of one cell: where each was observed, and that they are
\* what the policy says.
ApplicationsHold(a) ==
  /\ \A x \in a.applications : /\ x.immutable /\ x.evidence
                              /\ x.source = "runtime-container" => x.version = x.digest
  /\ \A x, y \in a.applications : x.identity = y.identity => x = y
  /\ CASE a.policy.mode = "not-applicable" ->
            a.applications = {} /\ a.disposition = a.policy.reason
       [] a.policy.mode = "runtime-container" ->
            a.applications # {} /\ (\A x \in a.applications : x.source = "runtime-container")
       [] OTHER ->
            /\ \A x \in a.applications : x.source = "declared-evidence"
            /\ {x.claim : x \in a.applications} = a.policy.claims
  /\ a.policy.mode # "not-applicable" => a.disposition = "none"

\* Mutant: the inventory need not agree with what runs in the target
RuntimeDigestsUnbound(deps, a) == ContainerDigests(deps, a.cell)

RuntimeDigests(deps, a) ==
  {x.digest : x \in {y \in a.applications : y.source = "runtime-container"}}

\* Each inventory, one for a scenario and target, is of the tested commit, source
\* configuration and registry.
InventoriesHold(deps, commit, registry, config) ==
  /\ deps.applications # {}
  /\ \A a \in deps.applications :
       /\ a.wellFormed /\ a.commit = commit /\ a.config = config
       /\ PolicyHolds(a, registry) /\ ApplicationsHold(a)
  /\ \A a, b \in deps.applications :
       a.cell.scenario = b.cell.scenario /\ a.cell.target = b.cell.target => a = b

\* Each mandatory cell, and no other, has one, and its containers are the ones
\* observed there.
CellsInventoried(deps, cells) ==
  /\ \A a \in deps.applications :
       /\ RuntimeDigests(deps, a) = ContainerDigests(deps, a.cell)
       /\ cells # {} => a.cell \in {CellKey(c) : c \in cells}
  /\ {CellKey(c) : c \in cells} \subseteq {a.cell : a \in deps.applications}
  /\ \A d \in deps.containers : d.available /\ d.digests # {} /\ Immutable(d.digests) =>
       \E a \in deps.applications : a.cell.scenario = d.scenario /\ a.cell.target = d.target

\* assess_dependencies(): only a release needs them.
DependencyErrors(deps, cells, release, commit, registry, config) ==
  LET holds == [versions |-> VersionsHold(deps),
                python |-> PythonHolds(deps, cells, commit),
                browsers |-> BrowsersHold(deps, cells, commit),
                host |-> HostHolds(deps),
                containers |-> ContainersHold(deps),
                inventories |-> InventoriesHold(deps, commit, registry, config),
                cells |-> CellsInventoried(deps, cells)]
  IN  IF release THEN {k \in DOMAIN holds : ~holds[k]} ELSE {}

-----------------------------------------------------------------------------
\* The jobs the aggregate was told about; none at all is accepted.
MandatoryPrerequisites ==
  {"lint", "build", "coverage", "tiny", "heavy", "acceptance", "cleanup", "destroy"}

PrerequisiteErrors(statuses) ==
  IF DOMAIN statuses = {} THEN {}
  ELSE {n \in MandatoryPrerequisites : n \notin DOMAIN statuses}
       \cup {n \in DOMAIN statuses : statuses[n] # "success"}
       \cup (DOMAIN statuses \ MandatoryPrerequisites)
=============================================================================
