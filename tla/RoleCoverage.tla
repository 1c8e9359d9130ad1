---------------------------- MODULE RoleCoverage ----------------------------
\* The registry of roles and Molecule scenarios (meta/role-coverage.yml) as
\* scripts/validate-role-coverage.py accepts it, and the CI matrix it builds.
\*
\* Everything here is a pure operator: a registry, the repository tree beside
\* it, and what the validator says of them.  A condition, a variable's value, a
\* playbook and a task are small records; YAML, templating and wording are left
\* out.  The walks of nested blocks and of imports are recursive functions, a level
\* at a time.
EXTENDS Naturals, Sequences, FiniteSets, SequencesExt, TLC

Profiles == {"tiny", "heavy", "application_acceptance"}

ProfileStates ==
  {"supported", "experimental", "not-applicable", "blocked-external-service",
   "blocked-external-license", "blocked-external-infrastructure", "deprecated"}

Implementations == {"real", "partial", "stub", "skip", "deprecation-contract"}

Maturities == {"production", "experimental", "deprecated"}

\* The phases a supported scenario's sequence must contain, in this order.
RequiredPhases ==
  LET tail == <<"verify", "cleanup", "destroy">>
      head == <<"dependency", "syntax", "create">>
  IN  [tiny |-> head \o <<"converge", "idempotence">> \o tail,
       heavy |-> head \o <<"prepare", "converge", "idempotence">> \o tail,
       application_acceptance |-> head \o <<"prepare", "converge">> \o tail]

\* The fields of one function or record, and of another where it has none.
Overlaid(f, g) == [x \in DOMAIN f \cup DOMAIN g |-> IF x \in DOMAIN f THEN f[x] ELSE g[x]]

-----------------------------------------------------------------------------
\* What is known of a condition before the playbook runs.

\* A variable's value is "true", "false" or another value; absent is "unknown".
Resolved(env, v) == IF v \in DOMAIN env /\ env[v] \in {"true", "false"}
                       THEN env[v] ELSE "unknown"

\* A condition has a kind: a literal, a variable, its negation, a comparison, a
\* variable with a default, or "opaque": anything the validator cannot read.
StaticallyFalse(c, env) ==
  LET r == Resolved(env, c.var)
      defaulted == r = "unknown" \/ (r = "false" /\ c.falsy)
  IN  CASE c.kind = "literal" -> c.value = "false"
        [] c.kind = "variable" -> r = "false"
        [] c.kind = "not" -> r = "true"
        [] c.kind = "is" -> r # "unknown" /\ r # c.value
        [] c.kind = "default" -> (IF defaulted THEN c.value ELSE r) = "false"
        [] OTHER -> FALSE

\* A "when" is the set of the conditions in its list, or of the single one.
WhenFalse(when, env) == \E c \in when : StaticallyFalse(c, env)

-----------------------------------------------------------------------------
\* Playbooks.  A block is a play, a block or a task: its variables and "when",
\* the roles a play lists, the roles its import_role and include_role name, the
\* task it is, and the blocks inside it.  A file is a set of statements; a
\* statement is a block that may import one other file ("" when it imports
\* none, "outside" when the path leaves the repository or is templated).

\* bound: how deep blocks lie inside a play; the molecule playbooks reach it.
MaxNesting == 3

\* A block on the way: the variables in force, the innermost declaration first, and
\* whether a condition up to here is known to be false.
Entered(block, env, disabled) ==
  LET local == Overlaid(block.vars, env)
  IN  [block |-> block, env |-> local, off |-> disabled \/ WhenFalse(block.when, local)]

\* The roles a block and the blocks inside it start.
ActiveRoles(block, env, disabled) ==
  LET level[n \in Nat] ==
        IF n = 0 THEN {Entered(block, env, disabled)}
        ELSE UNION {{Entered(b, x.env, x.off) : b \in x.block.inner} : x \in level[n - 1]}
      listed(x) == {i \in x.block.roles : ~WhenFalse(i.when, x.env)}
  IN  UNION {{i.role : i \in listed(x)} \cup x.block.actions :
               x \in {y \in UNION {level[n] : n \in 0..MaxNesting} : ~y.off}}

\* The walk from a playbook through its imports: at[n] holds its calls below n
\* others, each with the file, what the caller hands it and the files between the
\* entry point and this one.  A file imported twice is read twice, once with each
\* statement's variables and condition; one on its own stack is not read again.
IsRead(files, x) == x.file \in DOMAIN files \ x.stack

Calls(files, entry) ==
  LET at[n \in 0..(Cardinality(DOMAIN files) - 1)] ==
        IF n = 0 THEN {[file |-> entry, env |-> <<>>, off |-> FALSE, stack |-> {}]}
        ELSE UNION {{[file |-> s.import, env |-> Entered(s, x.env, x.off).env,
                      off |-> Entered(s, x.env, x.off).off,
                      stack |-> x.stack \cup {x.file}] : s \in files[x.file]} :
                      x \in {y \in at[n - 1] : IsRead(files, y)}}
  IN  at

\* The roles it finds; a stack never holds more files than there are.
ReachableRoles(files, entry) ==
  LET calls == UNION {Calls(files, entry)[n] : n \in 0..(Cardinality(DOMAIN files) - 1)}
  IN  UNION {UNION {ActiveRoles(s, x.env, x.off) : s \in files[x.file]} :
               x \in {y \in calls : IsRead(files, y)}}

\* The files _load_playbook_graph reads: everything imported, each once.
GraphOf(files, entry) ==
  LET imported[n \in Nat] ==
        IF n = 0 THEN {entry}
        ELSE {s.import : s \in UNION {files[f] : f \in imported[n - 1]}} \cap DOMAIN files
  IN  UNION {imported[n] : n \in 0..(Cardinality(DOMAIN files) - 1)}

\* A file that is missing, or an import that is not a path of the repository.
GraphErrors(files, entry) ==
  IF entry \notin DOMAIN files THEN {"playbook-missing"}
  ELSE {"playbook-missing" : s \in {x \in UNION {files[f] : f \in GraphOf(files, entry)} :
                                      x.import \notin DOMAIN files \cup {""}}}

-----------------------------------------------------------------------------
\* What a supported scenario really does.  The tasks are those found anywhere in
\* the graph of the phase's playbook; a task has its action, whether its command
\* does nothing, the conditions an assert checks ("dynamic" when unreadable,
\* else "true" or "false"), whether its failure is ignored, the JUnit report it
\* writes and whether it writes under an evidence path.

MarkerActions == {"assert", "copy", "debug", "file", "set_fact", "slurp", "stat"}

VerifyActions == {"assert", "command", "fail", "get_url", "package_facts", "service_facts",
                  "shell", "slurp", "stat", "uri", "wait_for"}

SourceActions == {"archive", "assemble", "command", "fetch", "get_url", "shell", "slurp",
                  "synchronize", "uri"}

WriteActions == {"archive", "assemble", "copy", "fetch", "import_tasks", "include_tasks",
                 "synchronize", "template"}

Commands == {"command", "shell"}

\* The required phases in their order, with anything between them.
InOrder(required, sequence) ==
  LET matched(n, phase) == IF n < Len(required) /\ required[n + 1] = phase THEN n + 1 ELSE n
  IN  FoldLeft(matched, 0, sequence) = Len(required)

SubstantiveChecks(tasks) ==
  {t \in tasks : /\ t.action \in VerifyActions
                 /\ t.action \in Commands => ~t.noop
                 /\ t.action = "assert" => "dynamic" \in t.that
                 /\ ~t.ignored}

MarkerOnly(tasks) ==
  /\ tasks # {}
  /\ \A t \in tasks : t.action \in MarkerActions
  /\ \/ \E t \in tasks : t.marker
     \/ \A t \in tasks : t.action = "assert" => t.that \subseteq {"true"}

\* A report written by hand must parse, name the scenario, have no failure, name
\* exactly the reported roles and declare the cases it lists.
StaticReport(t, roles) ==
  /\ t.action = "copy"
  /\ t.report.kind = "static"
  /\ t.report.wellFormed
  /\ t.report.roles = roles

\* pytest with an explicit target that writes the scenario's own report.
TestReport(t) ==
  /\ t.action \in Commands
  /\ t.report.kind = "pytest"
  /\ t.report.target
  /\ t.report.exact

HasProducer(tasks, roles) ==
  \E t \in tasks :
    \/ TestReport(t)
    \/ /\ StaticReport(t, roles)
       /\ Cardinality(SubstantiveChecks(tasks)) >= t.report.cases

HasEvidenceCleanup(tasks) ==
  /\ \E t \in tasks : t.action \in SourceActions /\ (t.action \in Commands => ~t.noop)
  /\ \E t \in tasks : /\ t.action \in WriteActions
                     /\ t.evidence
                     /\ ~(t.action = "copy" /\ t.blank)

\* A switch that keeps a reported role from doing its work: a marker of a stub,
\* a literal "when: false", <role>_molecule_execute_role set to false, or the
\* skip variable of a reported role set to true.
Forbidden(construct, roles) ==
  \/ construct.kind \in {"marker", "when-false", "execute-role-false"}
  \/ construct.kind = "skip-true" /\ construct.role \in roles

\* The phases whose playbook must be there, besides those in the sequence.
PlaybookPhases(profile) ==
  {"converge", "verify", "cleanup", "create", "destroy"}
    \cup (IF profile = "tiny" THEN {} ELSE {"prepare"})

\* The playbook of a phase, by default the one with the phase's name.
PlaybookOf(s, phase) == IF phase \in DOMAIN s.playbook THEN s.playbook[phase] ELSE phase

StructureErrors(scenario) ==
  LET s == scenario.structure
      phases == PlaybookPhases(scenario.profile)
                  \cup {p \in DOMAIN s.playbook : p \in {s.sequence[i] : i \in DOMAIN s.sequence}}
      file(p) == PlaybookOf(s, p)
      active == ReachableRoles(s.files, file("converge"))
      check == [sequence |-> ~InOrder(RequiredPhases[scenario.profile], s.sequence),
                cleanup |-> "cleanup" \notin DOMAIN s.playbook,
                playbooks |-> \E p \in phases : GraphErrors(s.files, file(p)) # {},
                roles |-> ~(scenario.roles \subseteq active),
                forbidden |-> \E c \in s.constructs : Forbidden(c, scenario.roles),
                verify |-> SubstantiveChecks(s.verify) = {},
                producer |-> scenario.junit /\ ~HasProducer(s.verify, scenario.roles),
                marker |-> MarkerOnly(s.verify),
                evidence |-> scenario.evidence /\ ~HasEvidenceCleanup(s.cleanupTasks)]
  IN  IF s.readable THEN {e \in DOMAIN check : check[e]} ELSE {"unreadable"}

-----------------------------------------------------------------------------
\* The registry's own rules.  A rule is TRUE when the registry keeps it.

\* A claim about the application under test: where its evidence lies, whether
\* the version is immutable and the rest of the claim has the right form.
PolicyRules(name, scenario) ==
  LET p == scenario.policy
  IN  /\ p.mode \in {"runtime-container", "declared-evidence", "not-applicable"}
      /\ p.wellFormed
      /\ p.mode = "declared-evidence" <=> p.claims # {}
      /\ p.mode = "runtime-container" => scenario.implementation \in {"real", "partial"}
      /\ p.mode = "not-applicable" =>
           ~(scenario.state = "supported" /\ scenario.implementation = "real")
      /\ \A c \in p.claims : c.immutable /\ c.below = name
      /\ \A c, d \in p.claims : c.identity = d.identity => c = d

\* Optional AAP collections: those the aap roles name, without the ones that are
\* built in or already dependencies, each listed once at an exact version and
\* disclosed in the README files.
OverlayRules(overlay) ==
  LET expected == overlay.referenced \ (overlay.excluded \cup overlay.core)
  IN  /\ overlay.readable
      /\ {e.name : e \in overlay.entries} = expected
      /\ \A e \in overlay.entries : e.exact
      /\ \A e, f \in overlay.entries : e.name = f.name => e = f
      /\ expected \cup overlay.perRole \subseteq overlay.disclosed

\* The roles of a scenario that count for its profile.
ProductionRoles(reg, scenario) ==
  {r \in scenario.roles : /\ r \in DOMAIN reg.roles
                          /\ reg.roles[r].maturity = "production"
                          /\ reg.roles[r].state[scenario.profile] = "supported"}

TargetsOf(role, disposition) == IF disposition = "supported" THEN role.supported ELSE role.candidate

\* The one target set of the roles that share a scenario; several sets are
\* refused.
Ambiguous(reg, roles, disposition) ==
  Cardinality({TargetsOf(reg.roles[r], disposition) : r \in roles}) > 1

SharedTargets(reg, roles, disposition) ==
  UNION {TargetsOf(reg.roles[r], disposition) : r \in roles}

TargetRules(reg) ==
  /\ reg.version = 1
  /\ reg.states = ProfileStates
  /\ DOMAIN reg.targets # {}
  /\ \A t \in DOMAIN reg.targets : /\ reg.targets[t].named
                                  /\ Cardinality(reg.targets[t].images) = 1
                                  /\ reg.targets[t].instance \in {"container", "vm"}
                                  /\ reg.targets[t].approvedRunner

\* A role's maturity, its targets and what its scenario_support may name.
RoleRules(reg, name) ==
  LET role == reg.roles[name]
  IN  /\ role.complete
      /\ role.maturity \in Maturities
      /\ (role.maturity = "deprecated") <=> role.deprecated
      /\ role.supported \cup role.candidate \subseteq DOMAIN reg.targets
      /\ role.supported \cap role.candidate = {}
      /\ DOMAIN role.support = Profiles
      /\ \A p \in Profiles :
           /\ role.state[p] \in ProfileStates
           /\ \A s \in role.support[p] : /\ s \in DOMAIN reg.scenarios
                                         /\ reg.scenarios[s].profile = p
                                         /\ name \in reg.scenarios[s].roles

\* A production role is supported in every profile by real scenarios with all
\* three kinds of evidence, on the platforms its metadata declares.
ProductionRules(reg, name) ==
  LET role == reg.roles[name]
  IN  role.maturity = "production" =>
        /\ role.supported # {}
        /\ \A p \in Profiles :
             /\ role.state[p] = "supported"
             /\ role.support[p] # {}
             /\ \A s \in role.support[p] :
                  /\ reg.scenarios[s].state = "supported"
                  /\ reg.scenarios[s].implementation = "real"
                  /\ reg.scenarios[s].junit /\ reg.scenarios[s].allure /\ reg.scenarios[s].evidence
        /\ role.platforms = role.supported

\* A scenario's declaration agrees with the roles that claim it; one that is
\* supported and real also keeps the structure rules.
ScenarioRules(reg, name) ==
  LET s == reg.scenarios[name]
      real == s.state = "supported" /\ s.implementation = "real"
      shared == ProductionRoles(reg, s)
  IN  /\ s.profile \in Profiles
      /\ s.state \in ProfileStates
      /\ s.implementation \in Implementations
      /\ (s.implementation = "deprecation-contract") <=> (s.state = "deprecated")
      /\ s.roles # {} /\ s.roles \cup s.exercised \subseteq DOMAIN reg.roles
      /\ PolicyRules(name, s)
      /\ \A r \in s.roles : name \in reg.roles[r].support[s.profile]
      /\ real => \A d \in {"supported", "candidate"} : ~Ambiguous(reg, shared, d)
      /\ "verify" \in {s.structure.sequence[i] : i \in DOMAIN s.structure.sequence}
      /\ real => StructureErrors(s) = {}

\* A role that is not production does not read as supported.
ReadmeRules(role) ==
  /\ role.readme.present
  /\ role.readme.claims => role.maturity = "production"
  /\ role.readme.platforms => role.supported # {}

-----------------------------------------------------------------------------
\* The CI matrix of one profile: a cell for each target of each scenario that is
\* supported, real and has production roles.
BuildMatrix(reg, profile, disposition) ==
  {[scenario |-> x[1], target |-> x[2], profile |-> profile, disposition |-> disposition,
    required |-> disposition = "supported", roles |-> ProductionRoles(reg, reg.scenarios[x[1]]),
    components |-> {reg.roles[r].component : r \in ProductionRoles(reg, reg.scenarios[x[1]])},
    target_definition |-> reg.targets[x[2]]] :
     x \in {y \in (DOMAIN reg.scenarios) \X (DOMAIN reg.targets) :
       LET scenario == reg.scenarios[y[1]]
           roles == ProductionRoles(reg, scenario)
       IN  /\ scenario.profile = profile
           /\ scenario.state = "supported" /\ scenario.implementation = "real"
           /\ roles # {}
           /\ y[2] \in SharedTargets(reg, roles, disposition)}}

\* render_matrix_bundle(): the release cells and the candidate cells.
MatrixBundle(reg) ==
  [disposition \in {"supported", "candidate"} |->
     UNION {BuildMatrix(reg, p, disposition) : p \in Profiles}]

\* What the generated document says of each role, and that a role has runnable
\* candidate cells.
RenderedRoles(reg) ==
  LET candidates == UNION {c.roles : c \in MatrixBundle(reg)["candidate"]}
  IN  [r \in DOMAIN reg.roles |->
         [role |-> reg.roles[r],
          candidate |-> r \in candidates,
          reports |-> UNION {{k \in {"junit", "allure", "evidence"} : reg.scenarios[s][k]} :
                               s \in UNION {reg.roles[r].support[p] : p \in Profiles}}]]

\* And of each scenario.
RenderedScenarios(reg) ==
  [s \in DOMAIN reg.scenarios |->
     LET x == reg.scenarios[s] IN <<x.profile, x.state, x.implementation, x.roles, x.policy>>]

\* The concise table of the README.
RoleTable(reg) ==
  [r \in DOMAIN reg.roles |->
     <<reg.roles[r].maturity, reg.roles[r].supported, reg.roles[r].state>>]

\* The generated files are those of this registry.
Generated(reg) == [document |-> <<RenderedRoles(reg), RenderedScenarios(reg)>>,
                   matrix |-> MatrixBundle(reg), readme |-> RoleTable(reg)]

\* The registry has the tree's roles and root scenarios, all of them and no other.
NamesMatch(reg, tree) == DOMAIN reg.roles = tree.roles /\ DOMAIN reg.scenarios = tree.scenarios

\* No scenario inside a role, and the governance rules are written down.
TreeRules(tree) == tree.roleLocal = {} /\ tree.governance

\* validate_registry(): "matrix" and "generate" skip the last rules.
Accepted(reg, tree) ==
  /\ TargetRules(reg)
  /\ NamesMatch(reg, tree)
  /\ \A r \in DOMAIN reg.roles :
       RoleRules(reg, r) /\ ProductionRules(reg, r) /\ ReadmeRules(reg.roles[r])
  /\ \A s \in DOMAIN reg.scenarios : ScenarioRules(reg, s)
  /\ OverlayRules(tree.overlay)

Validated(reg, tree) ==
  /\ Accepted(reg, tree)
  /\ TreeRules(tree)
  /\ tree.generated = Generated(reg)
=============================================================================
