---------------------------- MODULE MCReleaseTrain ----------------------------
\* Two production roles that share the three real scenarios of the registry, one
\* supported target and a candidate.  Seven pushes: that registry to main, to develop
\* and under two pull requests; and to main one without acceptance, one whose switch
\* keeps the roles from being imported, and one with stale generated files.
EXTENDS ReleaseTrain

Roles == {"keycloak_deploy", "keycloak_cac"}
Target == "ubuntu-24.04"
Candidate == "rhel-9"

ScenarioOf ==
  ("tiny" :> "keycloak-tiny") @@ ("heavy" :> "keycloak-heavy")
    @@ ("application_acceptance" :> "keycloak-application-acceptance")

Block(env, when, roles, import) ==
  [vars |-> env, when |-> when, roles |-> {[role |-> r, when |-> {}] : r \in roles},
   actions |-> {}, inner |-> {}, import |-> import]

Switch == [kind |-> "variable", var |-> "run_roles", value |-> "", falsy |-> FALSE]

\* The converge playbook imports the play that lists the roles.
Files(value) ==
  ("converge.yml" :> {Block("run_roles" :> value, {Switch}, {}, "roles.yml")})
    @@ ("roles.yml" :> {Block(<<>>, {}, Roles, "")})
    @@ [p \in {"verify", "cleanup", "create", "destroy", "prepare"} |-> {}]

NoReport == [kind |-> "none", wellFormed |-> FALSE, roles |-> {}, cases |-> 0, target |-> FALSE,
             exact |-> FALSE]

Task(action) ==
  [action |-> action, noop |-> FALSE, that |-> {}, ignored |-> FALSE, marker |-> FALSE,
   evidence |-> FALSE, blank |-> FALSE, report |-> NoReport]

Structure(p, value) ==
  [readable |-> TRUE, sequence |-> RequiredPhases[p], files |-> Files(value),
   playbook |-> ("converge" :> "converge.yml")
                  @@ [x \in {"verify", "cleanup", "create", "destroy", "prepare"} |-> x],
   constructs |-> {},
   verify |-> {[Task("command") EXCEPT !.report = [NoReport EXCEPT !.kind = "pytest", !.target = TRUE,
                                                                  !.exact = TRUE]]},
   cleanupTasks |-> {Task("command"), [Task("fetch") EXCEPT !.evidence = TRUE]}]

Scenario(p, value) ==
  [profile |-> p, state |-> "supported", implementation |-> "real", roles |-> Roles,
   exercised |-> {}, policy |-> [mode |-> "runtime-container", wellFormed |-> TRUE, claims |-> {},
                                 reason |-> "none"],
   junit |-> TRUE, allure |-> TRUE, evidence |-> TRUE, structure |-> Structure(p, value)]

Role(unsupported) ==
  [complete |-> TRUE, maturity |-> "production", deprecated |-> FALSE, supported |-> {Target},
   candidate |-> {Candidate}, platforms |-> {Target}, component |-> "keycloak",
   support |-> [p \in Profiles |-> IF p \in unsupported THEN {} ELSE {ScenarioOf[p]}],
   state |-> [p \in Profiles |-> IF p \in unsupported THEN "experimental" ELSE "supported"],
   readme |-> [present |-> TRUE, claims |-> TRUE, platforms |-> TRUE]]

\* The registry without the scenarios of some profiles, and with the value of the
\* switch before the import.
Registry(unsupported, value) ==
  [version |-> 1, states |-> ProfileStates,
   targets |-> [t \in {Target, Candidate} |->
                  [named |-> TRUE, images |-> {"image"}, instance |-> "vm", approvedRunner |-> TRUE]],
   roles |-> [r \in Roles |-> Role(unsupported)],
   scenarios |-> [s \in {ScenarioOf[p] : p \in Profiles \ unsupported} |->
                    Scenario(CHOOSE p \in Profiles : ScenarioOf[p] = s, value)]]

Tree(reg) ==
  [roles |-> DOMAIN reg.roles, scenarios |-> DOMAIN reg.scenarios,
   overlay |-> [readable |-> TRUE, entries |-> {}, referenced |-> {}, excluded |-> {}, core |-> {},
                perRole |-> {}, disclosed |-> {}],
   roleLocal |-> {}, governance |-> TRUE, generated |-> Generated(reg)]

Change(event, head, paths) ==
  [event |-> event, head |-> head, base |-> "develop", baseKnown |-> TRUE, paths |-> paths,
   inventory |-> FALSE, readable |-> TRUE, before |-> <<>>, after |-> <<>>]

MCPolicy ==
  [families |-> "keycloak" :> [profiles |-> Profiles, prefixes |-> {"roles/keycloak"}],
   safe |-> {"docs/"}]

Good == Registry({}, "true")

Pushed(reg, change) == [registry |-> reg, tree |-> Tree(reg), change |-> change]

ToMain == Change("push", "main", {})

MCAttemptNames == <<"1", "2">>

MCPushes ==
  {Pushed(Good, ToMain),
   Pushed(Good, Change("push", "develop", {{"roles/keycloak"}})),
   Pushed(Good, Change("pull_request", "topic", {{"docs/"}})),
   Pushed(Good, [Change("pull_request", "topic", {{"roles/keycloak"}}) EXCEPT !.base = "main"]),
   Pushed(Registry({"application_acceptance"}, "true"), ToMain),
   Pushed(Registry({}, "false"), ToMain),
   [Pushed(Good, ToMain) EXCEPT !.tree.generated = Generated(Registry({}, "false"))
                                                   @@ [stale |-> TRUE]]}
=============================================================================
