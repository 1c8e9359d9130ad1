------------------------ MODULE ReleaseTrainProofs ------------------------
\* What a release is admitted with, proved for every registry, policy and number of
\* attempts: it is clean, it inventories what ran, and it was tested.
\*
\* IInv, near the end, is the inductive invariant.  Its parts say
\*   - which jobs have ended: none before what it needs, a green aggregate has green
\*     cells, a green coverage job validated the registry (NeedsEnded, Green,
\*     CoverageHolds);
\*   - what the bundle of a cell says of its tests and containers (ArtifactHolds,
\*     RanHolds);
\*   - what the collected evidence keeps of those bundles (EvidenceHolds);
\*   - what an admission found (AdmittedHolds).
\* The lemmas before it are about the operators: the graph of the jobs, redaction and
\* scan, the rows and results of assemble(), and the walk through imported playbooks.
EXTENDS ReleaseTrain, FiniteSetTheorems, WellFoundedInduction, TLAPS

-----------------------------------------------------------------------------
(* Naturals and sequences *)

\* The order of the naturals as a relation that is well founded.
LEMMA NatOrder ==
    \E R : IsWellFoundedOn(R, Nat) /\ \A x, y \in Nat : <<x, y>> \in R <=> x < y
<1> DEFINE R == OpToRel(<, Nat)
<1>1. IsWellFoundedOn(R, Nat)
    BY NatLessThanWellFounded
<1>2. \A x \in Nat, y \in Nat : <<x, y>> \in R <=> x < y
    BY DEF OpToRel
<1> HIDE DEF R
<1> QED
    BY <1>1, <1>2, Zenon

\* A set of naturals that is not empty has a least member.
LEMMA Least ==
    ASSUME NEW T, T \subseteq Nat, T # {}
    PROVE  \E m \in T : \A k \in T : m <= k
<1>1. PICK R : IsWellFoundedOn(R, Nat) /\ \A x, y \in Nat : <<x, y>> \in R <=> x < y
    BY NatOrder
<1>2. IsWellFoundedOn(R, Nat)
    BY <1>1
<1>3. PICK m \in T : \A y \in T : ~(<<y, m>> \in R)
    BY <1>2, WFMin, Zenon
<1>4. \A y \in T : ~(y < m)
    BY <1>1, <1>3
<1> QED
    BY <1>3, <1>4

\* Induction over a set of naturals.
LEMMA Induct ==
    ASSUME NEW S, 0 \in S, \A n \in Nat : n \in S => n + 1 \in S
    PROVE  Nat \subseteq S
<1> DEFINE T == {n \in Nat : n \notin S}
<1> SUFFICES ASSUME T # {} PROVE FALSE
    OBVIOUS
<1>1. PICK m \in T : \A k \in T : m <= k
    BY Least
<1>2. m - 1 \in Nat /\ m - 1 \notin T
    BY <1>1
<1> QED
    BY <1>1, <1>2

-----------------------------------------------------------------------------
(* The graph of the jobs *)

\* The jobs and the groups by name.
LEMMA Names ==
    /\ Jobs = {"classification", "lint", "build", "tiny", "heavy", "acceptance", "matrix",
               "coverage", "runtime-evidence", "evidence", "admission"}
    /\ Mandatory = Jobs \ {"admission"}
    /\ Groups = {"tiny-cells", "heavy-cells", "acceptance-cells"}
    BY DEF Jobs, Mandatory, Local, Aggregates, Groups

\* What each of them waits for.
LEMMA NeedsIs ==
    /\ Needs["classification"] = {} /\ Needs["build"] = {} /\ Needs["coverage"] = {}
    /\ Needs["lint"] = {"classification"} /\ Needs["matrix"] = {"coverage"}
    /\ Needs["tiny-cells"] = {"build", "matrix", "classification"}
    /\ Needs["heavy-cells"] = {"build", "matrix"}
    /\ Needs["acceptance-cells"] = {"build", "matrix", "heavy"}
    /\ Needs["tiny"] = {"matrix", "tiny-cells", "classification"}
    /\ Needs["heavy"] = {"matrix", "heavy-cells"}
    /\ Needs["acceptance"] = {"matrix", "acceptance-cells"}
    /\ Needs["runtime-evidence"] =
         {"lint", "build", "coverage", "matrix", "tiny", "heavy", "acceptance"}
    /\ Needs["evidence"] = {"lint", "build", "coverage", "matrix", "tiny"}
    /\ Needs["admission"] = Mandatory
    BY Names DEF Needs

\* Nothing needs itself, and groups need jobs only.
LEMMA NeedsRange ==
    /\ \A n \in Jobs \cup Groups : Needs[n] \subseteq (Jobs \cup Groups) \ {n}
    /\ \A g \in Groups : Needs[g] \subseteq Jobs
    /\ Jobs \cap Groups = {}
    BY Names, NeedsIs

\* The table that solves the equation of Before.
LEMMA BeforeIs ==
    /\ DOMAIN Before = Jobs \cup Groups
    /\ \A n \in Jobs \cup Groups : Before[n] = Needs[n] \cup UNION {Before[m] : m \in Needs[n]}
<1> DEFINE M == {"coverage"}
           T == {"build", "matrix", "classification", "coverage"}
           H == {"build", "matrix", "coverage"}
           A == H \cup {"heavy", "heavy-cells"}
           E == T \cup {"tiny", "tiny-cells", "lint"}
           R == E \cup A \cup {"acceptance", "acceptance-cells"}
           table == [n \in Jobs \cup Groups |->
                       CASE n \in {"classification", "build", "coverage"} -> {}
                         [] n = "lint" -> {"classification"}
                         [] n = "matrix" -> M
                         [] n = "tiny-cells" -> T
                         [] n = "heavy-cells" -> H
                         [] n = "acceptance-cells" -> A
                         [] n = "tiny" -> T \cup {"tiny-cells"}
                         [] n = "heavy" -> H \cup {"heavy-cells"}
                         [] n = "acceptance" -> A \cup {"acceptance-cells"}
                         [] n = "runtime-evidence" -> R
                         [] n = "evidence" -> E
                         [] OTHER -> R \cup {"runtime-evidence", "evidence"}]
<1>1. /\ table["classification"] = {} /\ table["build"] = {} /\ table["coverage"] = {}
      /\ table["lint"] = {"classification"} /\ table["matrix"] = M
      /\ table["tiny-cells"] = T /\ table["heavy-cells"] = H /\ table["acceptance-cells"] = A
      /\ table["tiny"] = T \cup {"tiny-cells"} /\ table["heavy"] = H \cup {"heavy-cells"}
      /\ table["acceptance"] = A \cup {"acceptance-cells"}
      /\ table["runtime-evidence"] = R /\ table["evidence"] = E
      /\ table["admission"] = R \cup {"runtime-evidence", "evidence"}
    BY Names
<1>2. DOMAIN table = Jobs \cup Groups
    OBVIOUS
<1> HIDE DEF table
<1>3. \A n \in Jobs \cup Groups : table[n] = Needs[n] \cup UNION {table[m] : m \in Needs[n]}
  <2> TAKE n \in Jobs \cup Groups
  <2>1. CASE n \in {"classification", "build", "coverage", "lint", "matrix"}
    BY <1>1, <2>1, NeedsIs
  <2>2. CASE n \in {"tiny-cells", "heavy-cells"}
    BY <1>1, <2>2, NeedsIs
  <2>3. CASE n = "acceptance-cells"
    BY <1>1, <2>3, NeedsIs
  <2>4. CASE n = "tiny"
    BY <1>1, <2>4, NeedsIs
  <2>5. CASE n = "heavy"
    BY <1>1, <2>5, NeedsIs
  <2>6. CASE n = "acceptance"
    BY <1>1, <2>6, NeedsIs
  <2>7. CASE n = "runtime-evidence"
    BY <1>1, <2>7, NeedsIs
  <2>8. CASE n = "evidence"
    BY <1>1, <2>8, NeedsIs
  <2>9. CASE n = "admission"
    BY <1>1, <2>9, NeedsIs, Names
  <2> QED
    BY <2>1, <2>2, <2>3, <2>4, <2>5, <2>6, <2>7, <2>8, <2>9, Names
<1>4. table = [n \in Jobs \cup Groups |-> Needs[n] \cup UNION {table[m] : m \in Needs[n]}]
  <2>1. table = [n \in Jobs \cup Groups |-> table[n]]
    BY <1>2 DEF table
  <2> QED
    BY <1>3, <2>1, Zenon
<1>5. Before = [n \in Jobs \cup Groups |-> Needs[n] \cup UNION {Before[m] : m \in Needs[n]}]
    BY <1>4, Zenon DEF Before
<1> QED
  <2> DEFINE b == Before
  <2>1. b = [n \in Jobs \cup Groups |-> Needs[n] \cup UNION {b[m] : m \in Needs[n]}]
    BY <1>5
  <2> HIDE DEF b
  <2>2. /\ DOMAIN b = Jobs \cup Groups
        /\ \A n \in Jobs \cup Groups : b[n] = Needs[n] \cup UNION {b[m] : m \in Needs[n]}
    BY <2>1
  <2> QED
    BY <2>2 DEF b

\* What is run again contains what is asked for and everything that needs it.
LEMMA DependentsClosed ==
    ASSUME NEW names
    PROVE  /\ names \subseteq Dependents(names)
           /\ \A n \in Jobs \cup Groups, m \in Dependents(names) :
                m \in Needs[n] => n \in Dependents(names)
<1>1. names \subseteq Dependents(names)
    BY DEF Dependents
<1>2. ASSUME NEW n \in Jobs \cup Groups, NEW m \in Dependents(names), m \in Needs[n]
      PROVE  n \in Dependents(names)
  <2>1. m \in Before[n] /\ m \in Jobs \cup Groups /\ Before[m] \subseteq Before[n]
    BY <1>2, BeforeIs, NeedsRange
  <2>2. m \in names \/ Before[m] \cap names # {}
    BY DEF Dependents
  <2>3. Before[n] \cap names # {}
    BY <2>1, <2>2
  <2> QED
    BY <2>3 DEF Dependents
<1> QED
    BY <1>1, <1>2

-----------------------------------------------------------------------------
(* The results of the jobs and of the groups *)

Results4 == {"pending", "success", "failure", "skipped"}

\* What the variables range over, and that no attempt is later than this one.
Types ==
    /\ push \in Pushes
    /\ attempt \in 1 .. MaxAttempts
    /\ jobs \in [Jobs -> Results4]
    /\ cells \in [MatrixBundle(push.registry)["supported"] -> {"pending", "success", "failure"}]
    /\ \A a \in artifacts : a.cell \in DOMAIN cells /\ a.attempt \in 1 .. attempt
    /\ \A x \in ran : x.attempt \in 1 .. attempt
    /\ \A a \in admitted : a.attempt \in 1 .. attempt

\* Nothing has ended before what it needs.
NeedsEnded ==
    \A n \in Jobs : jobs[n] # "pending" => \A m \in Needs[n] : ResultOfJob(m) # "pending"

GroupOf(n) == CHOOSE g \in Groups : GroupProfile[g] = Aggregates[n]

\* On main a green aggregate has a green group.
Green ==
    \A n \in DOMAIN Aggregates : jobs[n] = "success" /\ OnMain => ResultOfJob(GroupOf(n)) = "success"

AllDone(g) == \A n \in Needs[g] : jobs[n] = "success"
MineOf(g) == {x \in DOMAIN cells : x.profile = GroupProfile[g]}

\* The groups and the aggregates, one for each profile.
LEMMA GroupsAre ==
    /\ GroupProfile["tiny-cells"] = "tiny" /\ GroupProfile["heavy-cells"] = "heavy"
    /\ GroupProfile["acceptance-cells"] = "application_acceptance"
    /\ DOMAIN Aggregates = {"tiny", "heavy", "acceptance"}
    /\ GroupOf("tiny") = "tiny-cells" /\ GroupOf("heavy") = "heavy-cells"
    /\ GroupOf("acceptance") = "acceptance-cells"
    /\ \A g \in Groups : GroupProfile[g] \in Profiles /\ Needs[g] # {}
<1>1. /\ GroupProfile["tiny-cells"] = "tiny" /\ GroupProfile["heavy-cells"] = "heavy"
      /\ GroupProfile["acceptance-cells"] = "application_acceptance"
    BY Names DEF GroupProfile
<1>2. /\ DOMAIN Aggregates = {"tiny", "heavy", "acceptance"}
      /\ Aggregates["tiny"] = "tiny" /\ Aggregates["heavy"] = "heavy"
      /\ Aggregates["acceptance"] = "application_acceptance"
    BY DEF Aggregates
<1>3. /\ GroupOf("tiny") = "tiny-cells" /\ GroupOf("heavy") = "heavy-cells"
      /\ GroupOf("acceptance") = "acceptance-cells"
    BY <1>1, <1>2, Names DEF GroupOf
<1> QED
    BY <1>1, <1>2, <1>3, Names, NeedsIs DEF Profiles

\* The result of a group, as it is and after a step.
LEMMA ResultNow ==
    ASSUME NEW g \in Groups
    PROVE  /\ ResultOfJob(g) = "pending" <=>
                \/ \E n \in Needs[g] : jobs[n] = "pending"
                \/ AllDone(g) /\ Eligible(g) /\ \E x \in MineOf(g) : cells[x] = "pending"
           /\ ResultOfJob(g) = "success" <=>
                AllDone(g) /\ Eligible(g) /\ \A x \in MineOf(g) : cells[x] = "success"
           /\ ResultOfJob(g) = "failure" <=>
                /\ AllDone(g) /\ Eligible(g) /\ \A x \in MineOf(g) : cells[x] # "pending"
                /\ \E x \in MineOf(g) : cells[x] # "success"
<1> DEFINE needs == {jobs[n] : n \in Needs[g]}
           mine == {cells[x] : x \in MineOf(g)}
<1>1. ResultOfJob(g) =
        IF "pending" \in needs THEN "pending"
        ELSE IF needs # {"success"} \/ ~Eligible(g) THEN "skipped"
        ELSE IF "pending" \in mine THEN "pending"
        ELSE IF mine \subseteq {"success"} THEN "success" ELSE "failure"
    BY DEF ResultOfJob, GroupResult, MineOf
<1>2. (needs = {"success"}) <=> AllDone(g)
    BY GroupsAre DEF AllDone
<1>3. ("pending" \in needs) <=> \E n \in Needs[g] : jobs[n] = "pending"
    OBVIOUS
<1>4. /\ ("pending" \in mine) <=> \E x \in MineOf(g) : cells[x] = "pending"
      /\ (mine \subseteq {"success"}) <=> \A x \in MineOf(g) : cells[x] = "success"
    OBVIOUS
<1>5. AllDone(g) => ~(\E n \in Needs[g] : jobs[n] = "pending")
    BY DEF AllDone
<1> HIDE DEF needs, mine
<1>6. (ResultOfJob(g) = "pending") <=>
        ("pending" \in needs \/ (needs = {"success"} /\ Eligible(g) /\ "pending" \in mine))
    BY <1>1
<1>7. (ResultOfJob(g) = "success") <=>
        ("pending" \notin needs /\ needs = {"success"} /\ Eligible(g) /\ mine \subseteq {"success"})
    BY <1>1
<1>8. (ResultOfJob(g) = "failure") <=>
        ("pending" \notin needs /\ needs = {"success"} /\ Eligible(g)
         /\ "pending" \notin mine /\ ~(mine \subseteq {"success"}))
    BY <1>1
<1> QED
    BY <1>2, <1>3, <1>4, <1>5, <1>6, <1>7, <1>8

\* Nothing a group looks at has changed.
LEMMA GroupFrame ==
    ASSUME NEW g \in Groups, push' = push, DOMAIN cells' = DOMAIN cells,
           \A n \in Needs[g] : jobs'[n] = jobs[n],
           \/ \A x \in MineOf(g) : cells'[x] = cells[x]
           \/ (\A n \in Needs[g] : jobs[n] # "pending") /\ ~(AllDone(g) /\ Eligible(g))
    PROVE  ResultOfJob(g)' = ResultOfJob(g)
<1> DEFINE needs == {jobs[n] : n \in Needs[g]}
           mine == {cells[x] : x \in {y \in DOMAIN cells : y.profile = GroupProfile[g]}}
           needsAfter == {jobs'[n] : n \in Needs[g]}
           mineAfter == {cells'[x] : x \in {y \in DOMAIN cells : y.profile = GroupProfile[g]}}
<1>1. needsAfter = needs
    OBVIOUS
<1>2. Eligible(g)' <=> Eligible(g)
    BY DEF Eligible, Required, OnMain, TinyRuns
<1>3. ResultOfJob(g) =
        IF "pending" \in needs THEN "pending"
        ELSE IF needs # {"success"} \/ ~Eligible(g) THEN "skipped"
        ELSE IF "pending" \in mine THEN "pending"
        ELSE IF mine \subseteq {"success"} THEN "success" ELSE "failure"
    BY DEF ResultOfJob, GroupResult
<1>4. ResultOfJob(g)' =
        IF "pending" \in needsAfter THEN "pending"
        ELSE IF needsAfter # {"success"} \/ ~Eligible(g)' THEN "skipped"
        ELSE IF "pending" \in mineAfter THEN "pending"
        ELSE IF mineAfter \subseteq {"success"} THEN "success" ELSE "failure"
    BY DEF ResultOfJob, GroupResult
<1>5. CASE \A x \in MineOf(g) : cells'[x] = cells[x]
  <2>1. mineAfter = mine
    BY <1>5 DEF MineOf
  <2> HIDE DEF needs, mine, needsAfter, mineAfter
  <2> QED
    BY <1>1, <1>2, <1>3, <1>4, <2>1
<1>6. CASE (\A n \in Needs[g] : jobs[n] # "pending") /\ ~(AllDone(g) /\ Eligible(g))
  <2>1. "pending" \notin needs /\ (needs # {"success"} \/ ~Eligible(g))
    BY <1>6 DEF AllDone
  <2> HIDE DEF needs, mine, needsAfter, mineAfter
  <2> QED
    BY <1>1, <1>2, <1>3, <1>4, <2>1
<1> QED
    BY <1>5, <1>6

\* On main every group is eligible.
LEMMA OnMainEligible ==
    ASSUME OnMain, NEW g \in Groups PROVE Eligible(g)
<1>1. FullMatrix(push.change)
    BY DEF OnMain, FullMatrix
<1>2. Selected(push.change, Policy) = Profiles
    BY <1>1 DEF Selected
<1> QED
    BY <1>2, GroupsAre DEF Eligible, Required, OnMain, TinyRuns

-----------------------------------------------------------------------------
(* The steps *)

\* A job ends, and what the properties need to know of how.
JobEnds(n, r) ==
    /\ Due(n) /\ Finish(n, r)
    /\ UNCHANGED <<push, attempt, cells, artifacts, ran>>
    /\ n = "coverage" /\ r = "success" => Validated(push.registry, push.tree)
    /\ n \in DOMAIN Aggregates /\ r = "success" =>
         ResultOfJob(GroupOf(n)) = IF Eligible(GroupOf(n)) THEN "success" ELSE "skipped"
    /\ \/ evidence' = evidence
       \/ n = "runtime-evidence" /\ \E t \in ReleaseTroubles \cup {"none"} :
            evidence' = ReleaseBundle(ReleaseFiles, t)
    /\ \/ admitted' = admitted
       \/ /\ n = "admission" /\ OnMain
          /\ \E t \in AdmissionTroubles \cup {"none"} :
               /\ Admits(Download(t))
               /\ admitted' = admitted \cup {[attempt |-> attempt, bundle |-> Download(t)]}

\* A step ends a job, runs a cell or starts the run again.
LEMMA StepForms ==
    ASSUME Types, [Next]_vars
    PROVE  \/ UNCHANGED vars
           \/ \E n \in Jobs, r \in Results4 \ {"pending"} : JobEnds(n, r)
           \/ \E c \in DOMAIN cells, t \in CellTroubles \cup {"none"} : RunCell(c, t)
           \/ \E mode \in {"all", "failed"} : Rerun(mode)
<1>1. ASSUME NEW n \in Local, NEW r \in {"success", "failure"}, RunLocal(n, r)
      PROVE  \E m \in Jobs, q \in Results4 \ {"pending"} : JobEnds(m, q)
  <2>1. n \in Jobs /\ n # "coverage" /\ n \notin DOMAIN Aggregates
    BY Names, GroupsAre DEF Local
  <2>2. PICK q \in {"success", "failure", "skipped"} : Finish(n, q)
    BY <1>1 DEF RunLocal
  <2>3. /\ Due(n) /\ UNCHANGED <<push, attempt, cells, artifacts, ran>>
        /\ evidence' = evidence /\ admitted' = admitted
    BY <1>1 DEF RunLocal
  <2>4. JobEnds(n, q)
    BY <2>1, <2>2, <2>3 DEF JobEnds
  <2> QED
    BY <2>1, <2>4 DEF Results4
<1>2. ASSUME RunCoverage
      PROVE  \E m \in Jobs, q \in Results4 \ {"pending"} : JobEnds(m, q)
  <2> DEFINE q == IF Validated(push.registry, push.tree) THEN "success" ELSE "failure"
  <2>1. Due("coverage") /\ Finish("coverage", q)
        /\ UNCHANGED <<push, attempt, cells, artifacts, ran>>
        /\ evidence' = evidence /\ admitted' = admitted
    BY <1>2 DEF RunCoverage
  <2>2. q \in Results4 \ {"pending"} /\ (q = "success" => Validated(push.registry, push.tree))
    BY DEF Results4
  <2>3. "coverage" \in Jobs /\ "coverage" \notin DOMAIN Aggregates
    BY Names, GroupsAre
  <2> HIDE DEF q
  <2>4. JobEnds("coverage", q)
    BY <2>1, <2>2, <2>3 DEF JobEnds
  <2> QED
    BY <2>2, <2>3, <2>4
<1>3. ASSUME RunMatrix
      PROVE  \E m \in Jobs, q \in Results4 \ {"pending"} : JobEnds(m, q)
  <2>1. PICK q \in {"success", "failure", "skipped"} : Finish("matrix", q)
    BY <1>3 DEF RunMatrix
  <2>2. /\ Due("matrix") /\ UNCHANGED <<push, attempt, cells, artifacts, ran>>
        /\ evidence' = evidence /\ admitted' = admitted
    BY <1>3 DEF RunMatrix
  <2>3. "matrix" \in Jobs /\ "matrix" \notin DOMAIN Aggregates /\ "matrix" # "coverage"
    BY Names, GroupsAre
  <2>4. JobEnds("matrix", q)
    BY <2>1, <2>2, <2>3 DEF JobEnds
  <2> QED
    BY <2>3, <2>4 DEF Results4
<1>4. ASSUME NEW n \in DOMAIN Aggregates, AggregateProfile(n)
      PROVE  \E m \in Jobs, q \in Results4 \ {"pending"} : JobEnds(m, q)
  <2> DEFINE green == /\ jobs["matrix"] = "success"
                      /\ n = "tiny" => jobs["classification"] = "success"
                      /\ ResultOfJob(GroupOf(n)) = IF Eligible(GroupOf(n)) THEN "success" ELSE "skipped"
             q == IF n # "tiny" /\ ~OnMain THEN "skipped" ELSE IF green THEN "success" ELSE "failure"
  <2>1. /\ Due(n) /\ Finish(n, q) /\ UNCHANGED <<push, attempt, cells, artifacts, ran>>
        /\ evidence' = evidence /\ admitted' = admitted
    BY <1>4 DEF AggregateProfile, GroupOf
  <2>2. /\ q \in Results4 \ {"pending"}
        /\ q = "success" =>
             ResultOfJob(GroupOf(n)) = IF Eligible(GroupOf(n)) THEN "success" ELSE "skipped"
    BY DEF Results4
  <2>3. n \in Jobs /\ n # "coverage"
    BY Names, GroupsAre
  <2> HIDE DEF q
  <2>4. JobEnds(n, q)
    BY <2>1, <2>2, <2>3 DEF JobEnds
  <2> QED
    BY <2>2, <2>3, <2>4
<1>5. ASSUME LocalEvidence
      PROVE  \E m \in Jobs, q \in Results4 \ {"pending"} : JobEnds(m, q)
  <2>1. PICK q \in {"success", "failure"} : Finish("evidence", q)
    BY <1>5 DEF LocalEvidence
  <2>2. /\ Due("evidence") /\ UNCHANGED <<push, attempt, cells, artifacts, ran>>
        /\ evidence' = evidence /\ admitted' = admitted
    BY <1>5 DEF LocalEvidence
  <2>3. "evidence" \in Jobs /\ "evidence" \notin DOMAIN Aggregates /\ "evidence" # "coverage"
    BY Names, GroupsAre
  <2>4. JobEnds("evidence", q)
    BY <2>1, <2>2, <2>3 DEF JobEnds
  <2> QED
    BY <2>3, <2>4 DEF Results4
<1>6. ASSUME NEW t \in ReleaseTroubles \cup {"none"}, RuntimeEvidence(t)
      PROVE  \E m \in Jobs, q \in Results4 \ {"pending"} : JobEnds(m, q)
  <2>1. PICK q \in {"success", "failure", "skipped"} : Finish("runtime-evidence", q)
    BY <1>6 DEF RuntimeEvidence, Publish
  <2>2. /\ Due("runtime-evidence") /\ UNCHANGED <<push, attempt, cells, artifacts, ran>>
        /\ admitted' = admitted
        /\ evidence' = evidence \/ evidence' = ReleaseBundle(ReleaseFiles, t)
    BY <1>6 DEF RuntimeEvidence, Publish
  <2>3. /\ "runtime-evidence" \in Jobs /\ "runtime-evidence" \notin DOMAIN Aggregates
        /\ "runtime-evidence" # "coverage"
    BY Names, GroupsAre
  <2>4. JobEnds("runtime-evidence", q)
    BY <2>1, <2>2, <2>3 DEF JobEnds
  <2> QED
    BY <2>3, <2>4 DEF Results4
<1>7. ASSUME NEW t \in AdmissionTroubles \cup {"none"}, Admission(t)
      PROVE  \E m \in Jobs, q \in Results4 \ {"pending"} : JobEnds(m, q)
  <2>1. PICK q \in {"success", "failure", "skipped"} : Finish("admission", q)
    BY <1>7 DEF Admission, Decide
  <2>2. /\ Due("admission") /\ UNCHANGED <<push, attempt, cells, artifacts, ran>>
        /\ evidence' = evidence
        /\ \/ admitted' = admitted
           \/ /\ OnMain /\ Admits(Download(t))
              /\ admitted' = admitted \cup {[attempt |-> attempt, bundle |-> Download(t)]}
    BY <1>7 DEF Admission, Decide
  <2>3. "admission" \in Jobs /\ "admission" \notin DOMAIN Aggregates /\ "admission" # "coverage"
    BY Names, GroupsAre
  <2>4. JobEnds("admission", q)
    BY <2>1, <2>2, <2>3 DEF JobEnds
  <2> QED
    BY <2>3, <2>4 DEF Results4
<1>8. CASE Next
    BY <1>1, <1>2, <1>3, <1>4, <1>5, <1>6, <1>7, <1>8 DEF Next, JobStep, Over
<1> QED
    BY <1>8

-----------------------------------------------------------------------------
(* What a step leaves of the results *)

\* The end of a job changes no result but its own and those that were pending.
LEMMA EndKeeps ==
    ASSUME Types, NEW n \in Jobs, NEW r, JobEnds(n, r), NEW m \in Jobs \cup Groups,
           ResultOfJob(m) # "pending"
    PROVE  ResultOfJob(m)' = ResultOfJob(m)
<1>1. jobs[n] = "pending" /\ jobs' = [jobs EXCEPT ![n] = r] /\ push' = push /\ cells' = cells
    BY DEF JobEnds, Due, Finish
<1>2. \A k \in Jobs : k # n => jobs'[k] = jobs[k]
    BY <1>1 DEF Types
<1>3. CASE m \in Jobs
  <2>1. m \notin Groups
    BY <1>3, NeedsRange
  <2>2. ResultOfJob(m) = jobs[m] /\ ResultOfJob(m)' = jobs'[m]
    BY <2>1 DEF ResultOfJob
  <2> QED
    BY <1>1, <1>2, <1>3, <2>2
<1>4. CASE m \in Groups
  <2>1. \A k \in Needs[m] : k \in Jobs /\ jobs[k] # "pending"
    BY <1>4, NeedsRange, ResultNow
  <2>2. \A k \in Needs[m] : jobs'[k] = jobs[k]
    BY <1>1, <1>2, <2>1
  <2> QED
    BY <1>1, <1>4, <2>2, GroupFrame
<1> QED
    BY <1>3, <1>4

\* The end of a cell changes the result of its own group only, which was pending.
LEMMA CellPending ==
    ASSUME Types, NEW c \in DOMAIN cells, NEW t, RunCell(c, t), NEW g \in Groups,
           GroupProfile[g] = c.profile
    PROVE  ResultOfJob(g) = "pending"
<1>1. cells[c] = "pending" /\ Eligible(g) /\ AllDone(g)
    BY DEF RunCell, AllDone
<1>2. c \in MineOf(g)
    BY DEF MineOf
<1> QED
    BY <1>1, <1>2, ResultNow

\* A cell that ends leaves every job and group that has already ended as it is.
LEMMA CellKeeps ==
    ASSUME Types, NEW c \in DOMAIN cells, NEW t, RunCell(c, t), NEW m \in Jobs \cup Groups,
           ResultOfJob(m) # "pending"
    PROVE  ResultOfJob(m)' = ResultOfJob(m)
<1>1. push' = push /\ jobs' = jobs /\ \E r : cells' = [cells EXCEPT ![c] = r]
    BY DEF RunCell, Upload
<1>2. DOMAIN cells' = DOMAIN cells /\ \A x \in DOMAIN cells : x # c => cells'[x] = cells[x]
    BY <1>1 DEF Types
<1>3. CASE m \in Jobs
    BY <1>1, <1>3, NeedsRange DEF ResultOfJob
<1>4. CASE m \in Groups
  <2>1. \A x \in MineOf(m) : x \in DOMAIN cells /\ x # c
    BY <1>4, CellPending DEF MineOf
  <2>2. \A x \in MineOf(m) : cells'[x] = cells[x]
    BY <1>2, <2>1
  <2> QED
    BY <1>1, <1>2, <1>4, <2>2, GroupFrame
<1> QED
    BY <1>3, <1>4

\* A closed set of what is run again: of the other results, those that are not
\* pending stay.
Keeps(again) ==
    /\ \A n \in Jobs \cup Groups, m \in again : m \in Needs[n] => n \in again
    /\ \A n \in Jobs : n \in again => jobs'[n] = "pending"
    /\ \A m \in Jobs \cup Groups : m \notin again /\ ResultOfJob(m) # "pending"
         => ResultOfJob(m)' = ResultOfJob(m)

\* What is not run again keeps its result.
LEMMA RerunKeeps ==
    ASSUME Types, NEW mode \in {"all", "failed"}, Rerun(mode)
    PROVE  \E again : Keeps(again)
<1> DEFINE failed == {n \in Jobs \cup Groups : ResultOfJob(n) = "failure"}
           again == IF mode = "all" THEN Jobs \cup Groups ELSE Dependents(failed)
           restarted(c) == \/ cells[c] = "failure" \/ mode = "all"
                           \/ Needs[CellGroup(c)] \cap again # {}
<1>1. /\ push' = push /\ Ended
      /\ jobs' = [n \in Jobs |-> IF n \in again THEN "pending" ELSE jobs[n]]
      /\ cells' = [c \in DOMAIN cells |-> IF restarted(c) THEN "pending" ELSE cells[c]]
    BY DEF Rerun
<1>2. \A n \in Jobs \cup Groups, m \in again : m \in Needs[n] => n \in again
    BY DependentsClosed
<1>3. failed \subseteq again
    BY DependentsClosed
<1>4. ASSUME NEW m \in Jobs \cup Groups, m \notin again, ResultOfJob(m) # "pending"
      PROVE  ResultOfJob(m)' = ResultOfJob(m)
  <2>1. CASE m \in Jobs
    BY <1>1, <1>4, <2>1, NeedsRange DEF ResultOfJob
  <2>2. CASE m \in Groups
    <3>1. \A k \in Needs[m] : k \in Jobs /\ k \notin again
        BY <1>2, <1>4, <2>2, NeedsRange
    <3>2. \A k \in Needs[m] : jobs'[k] = jobs[k] /\ jobs[k] # "pending"
        BY <1>1, <3>1 DEF Ended
    <3>3. DOMAIN cells' = DOMAIN cells
        BY <1>1
    <3>4. mode # "all" /\ ResultOfJob(m) # "failure"
        BY <1>3, <1>4, <2>2
    <3>5. CASE ~(AllDone(m) /\ Eligible(m))
        BY <1>1, <2>2, <3>2, <3>3, <3>5, GroupFrame
    <3>6. CASE AllDone(m) /\ Eligible(m)
      <4>1. CASE \E x \in MineOf(m) : cells[x] = "pending"
        BY <1>4, <2>2, <3>6, <4>1, ResultNow
      <4>2. CASE \A x \in MineOf(m) : cells[x] # "pending"
        <5>1. \A x \in MineOf(m) : cells[x] = "success"
            BY <2>2, <3>4, <3>6, <4>2, ResultNow
        <5>2. \A y \in MineOf(m) : cells'[y] = cells[y]
            <6> TAKE y \in MineOf(m)
            <6>1. y \in DOMAIN cells /\ CellGroup(y) = m
                BY <2>2, GroupsAre, Names DEF MineOf, CellGroup
            <6>2. Needs[m] \cap again = {}
                BY <3>1
            <6>3. cells'[y] = IF restarted(y) THEN "pending" ELSE cells[y]
                BY <1>1, <6>1
            <6>4. cells[y] # "failure"
                BY <5>1
            <6> QED
                BY <3>4, <6>1, <6>2, <6>3, <6>4
        <5> QED
            BY <1>1, <2>2, <3>2, <3>3, <5>2, GroupFrame
      <4> QED
        BY <4>1, <4>2
    <3> QED
        BY <3>5, <3>6
  <2> QED
    BY <2>1, <2>2
<1>5. \A n \in Jobs : n \in again => jobs'[n] = "pending"
    BY <1>1
<1> HIDE DEF again
<1> QED
    BY <1>2, <1>4, <1>5 DEF Keeps

\* What any step leaves: for some closed set of what is run again, which is empty
\* unless the run is started again, the results outside it that are not pending.
LEMMA StepKeeps ==
    ASSUME Types, [Next]_vars
    PROVE  \E again : Keeps(again)
<1>1. ASSUME \A m \in Jobs \cup Groups : ResultOfJob(m) # "pending" => ResultOfJob(m)' = ResultOfJob(m)
      PROVE  Keeps({})
    BY <1>1 DEF Keeps
<1>2. CASE UNCHANGED vars
  <2>1. \A m \in Jobs \cup Groups : ResultOfJob(m)' = ResultOfJob(m)
    BY <1>2 DEF vars, ResultOfJob, GroupResult, Eligible, Required, OnMain, TinyRuns
  <2> QED
    BY <1>1, <2>1
<1>3. CASE \E n \in Jobs, r \in Results4 \ {"pending"} : JobEnds(n, r)
  <2>1. \A m \in Jobs \cup Groups : ResultOfJob(m) # "pending" => ResultOfJob(m)' = ResultOfJob(m)
    BY <1>3, EndKeeps
  <2> QED
    BY <1>1, <2>1
<1>4. CASE \E c \in DOMAIN cells, t \in CellTroubles \cup {"none"} : RunCell(c, t)
  <2>1. \A m \in Jobs \cup Groups : ResultOfJob(m) # "pending" => ResultOfJob(m)' = ResultOfJob(m)
    BY <1>4, CellKeeps
  <2> QED
    BY <1>1, <2>1
<1>5. CASE \E mode \in {"all", "failed"} : Rerun(mode)
    BY <1>5, RerunKeeps
<1> QED
    BY <1>2, <1>3, <1>4, <1>5, StepForms

\* The result a job did not have before is that of the job that ends.
LEMMA NewResult ==
    ASSUME Types, [Next]_vars, NEW n \in Jobs, jobs'[n] # "pending", jobs'[n] # jobs[n]
    PROVE  \E r \in Results4 \ {"pending"} : JobEnds(n, r) /\ jobs'[n] = r
<1>1. CASE UNCHANGED vars
    BY <1>1 DEF vars
<1>2. CASE \E m \in Jobs, r \in Results4 \ {"pending"} : JobEnds(m, r)
  <2>1. PICK m \in Jobs, r \in Results4 \ {"pending"} : JobEnds(m, r)
    BY <1>2
  <2>2. jobs' = [jobs EXCEPT ![m] = r]
    BY <2>1 DEF JobEnds, Finish
  <2>3. m = n /\ jobs'[n] = r
    BY <2>2 DEF Types
  <2> QED
    BY <2>1, <2>3
<1>3. CASE \E c \in DOMAIN cells, t \in CellTroubles \cup {"none"} : RunCell(c, t)
    BY <1>3 DEF RunCell
<1>4. CASE \E mode \in {"all", "failed"} : Rerun(mode)
    BY <1>4 DEF Rerun
<1> QED
    BY <1>1, <1>2, <1>3, <1>4, StepForms

-----------------------------------------------------------------------------
(* The order of the jobs *)

LEMMA NeedsEndedStep ==
    ASSUME Types, NeedsEnded, [Next]_vars PROVE NeedsEnded'
<1> SUFFICES ASSUME NEW n \in Jobs, jobs'[n] # "pending", NEW m \in Needs[n]
             PROVE  ResultOfJob(m)' # "pending"
    BY DEF NeedsEnded
<1>1. PICK again : Keeps(again)
    BY StepKeeps
<1>2. m \in Jobs \cup Groups /\ m \notin again
    BY <1>1, NeedsRange DEF Keeps
<1>3. ResultOfJob(m) # "pending"
  <2>1. CASE jobs'[n] = jobs[n]
    BY <2>1 DEF NeedsEnded
  <2>2. CASE jobs'[n] # jobs[n]
    BY <2>2, NewResult DEF JobEnds, Due, NeedsOf
  <2> QED
    BY <2>1, <2>2
<1> QED
    BY <1>1, <1>2, <1>3 DEF Keeps

\* Every step keeps a green aggregate's cells green; a rerun takes the aggregate back with
\* the cells it runs again.
LEMMA GreenStep ==
    ASSUME Types, Green, [Next]_vars, push' = push PROVE Green'
<1> SUFFICES ASSUME NEW n \in DOMAIN Aggregates, jobs'[n] = "success", OnMain
             PROVE  ResultOfJob(GroupOf(n))' = "success"
    BY DEF Green, OnMain, GroupOf
<1>1. PICK again : Keeps(again)
    BY StepKeeps
<1>2. n \in Jobs /\ GroupOf(n) \in Groups /\ GroupOf(n) \in Needs[n]
    BY GroupsAre, Names, NeedsIs
<1>3. GroupOf(n) \notin again
    BY <1>1, <1>2 DEF Keeps
<1>4. ResultOfJob(GroupOf(n)) = "success"
  <2>1. CASE jobs'[n] = jobs[n]
    BY <2>1 DEF Green
  <2>2. CASE jobs'[n] # jobs[n]
    <3>1. PICK r \in Results4 \ {"pending"} : JobEnds(n, r) /\ r = "success"
        BY <1>2, <2>2, NewResult
    <3>2. Eligible(GroupOf(n))
        BY <1>2, OnMainEligible
    <3> QED
        BY <3>1, <3>2 DEF JobEnds
  <2> QED
    BY <2>1, <2>2
<1> QED
    BY <1>1, <1>2, <1>3, <1>4 DEF Keeps

\* Once the collecting aggregate or the admission has ended, no cell runs any more.
LEMMA NoMoreCells ==
    ASSUME Types, NeedsEnded, NEW n \in {"runtime-evidence", "admission"}, jobs[n] # "pending",
           NEW c \in DOMAIN cells, NEW t, RunCell(c, t)
    PROVE  FALSE
<1>1. {"runtime-evidence", "tiny", "heavy", "acceptance", "admission"} \subseteq Jobs
    BY Names
<1>2. jobs["runtime-evidence"] # "pending"
    BY <1>1, Names, NeedsIs, NeedsRange DEF NeedsEnded, ResultOfJob
<1>3. \A m \in {"tiny", "heavy", "acceptance"} : jobs[m] # "pending"
    BY <1>1, <1>2, NeedsIs, NeedsRange DEF NeedsEnded, ResultOfJob
<1>4. \A g \in Groups : ResultOfJob(g) # "pending"
    BY <1>1, <1>3, Names, NeedsIs DEF NeedsEnded
<1>5. \E g \in Groups : GroupProfile[g] = c.profile
  <2>1. \E p \in Profiles : c \in BuildMatrix(push.registry, p, "supported")
    BY DEF Types, MatrixBundle
  <2>2. c.profile \in Profiles
    BY <2>1 DEF BuildMatrix
  <2> QED
    BY <2>2, GroupsAre, Names DEF Profiles
<1> QED
    BY <1>4, <1>5, CellPending

\* On main the admission finds every cell green.
LEMMA AllCellsGreen ==
    ASSUME Types, Green, OnMain, \A n \in Mandatory : jobs[n] = "success", NEW c \in DOMAIN cells
    PROVE  cells[c] = "success"
<1>1. \A n \in DOMAIN Aggregates : jobs[n] = "success"
    BY GroupsAre, Names
<1>2. \A g \in Groups : ResultOfJob(g) = "success"
    BY <1>1, GroupsAre, Names DEF Green
<1>3. \E g \in Groups : GroupProfile[g] = c.profile
  <2>1. \E p \in Profiles : c \in BuildMatrix(push.registry, p, "supported")
    BY DEF Types, MatrixBundle
  <2>2. c.profile \in Profiles
    BY <2>1 DEF BuildMatrix
  <2> QED
    BY <2>2, GroupsAre, Names DEF Profiles
<1> QED
    BY <1>2, <1>3, ResultNow DEF MineOf

-----------------------------------------------------------------------------
(* Types and the coverage job *)

\* A green coverage job validated the registry of the push.
CoverageHolds == jobs["coverage"] = "success" => Validated(push.registry, push.tree)

\* Outcomes and artifacts of a cell are of this attempt.
LEMMA CellAdds ==
    ASSUME NEW c \in DOMAIN cells, NEW t, RunCell(c, t)
    PROVE  /\ \A x \in ran' : x \in ran \/ (x \in Outcomes(c, t) /\ x.attempt = attempt)
           /\ ran \subseteq ran' /\ Outcomes(c, t) \subseteq ran'
           /\ artifacts \subseteq artifacts'
           /\ \A a \in artifacts' : a \in artifacts
                \/ a = [cell |-> c, attempt |-> attempt, bundle |-> CellBundle(c, t)]
           /\ UNCHANGED <<push, attempt, jobs, evidence, admitted>>
           /\ cells[c] = "pending"
           /\ cells' = [cells EXCEPT ![c] = IF CellSucceeds(c, t, CellBundle(c, t)) THEN "success" ELSE "failure"]
           /\ CellSucceeds(c, t, CellBundle(c, t)) =>
                [cell |-> c, attempt |-> attempt, bundle |-> CellBundle(c, t)] \in artifacts'
<1>1. \A x \in Outcomes(c, t) : x.attempt = attempt
    BY DEF Outcomes
<1>2. ran' = ran \cup Outcomes(c, t) /\ UNCHANGED <<push, attempt, jobs, evidence, admitted>>
      /\ cells[c] = "pending" /\ Upload(c, t, CellBundle(c, t))
    BY DEF RunCell
<1>3. CellSucceeds(c, t, CellBundle(c, t)) => t # "lost" /\ Sealed(CellBundle(c, t))
    BY DEF CellSucceeds
<1> QED
    BY <1>1, <1>2, <1>3 DEF Upload

\* Every step keeps the types, and none but a push changes what is pushed.
LEMMA TypesStep ==
    ASSUME Types, [Next]_vars PROVE Types' /\ push' = push
<1>1. CASE UNCHANGED vars
    BY <1>1 DEF vars, Types
<1>2. CASE \E n \in Jobs, r \in Results4 \ {"pending"} : JobEnds(n, r)
  <2>1. PICK n \in Jobs, r \in Results4 \ {"pending"} : JobEnds(n, r)
    BY <1>2
  <2>2. UNCHANGED <<push, attempt, cells, artifacts, ran>> /\ jobs' = [jobs EXCEPT ![n] = r]
    BY <2>1 DEF JobEnds, Finish
  <2>3. jobs' \in [Jobs -> Results4]
    BY <2>2 DEF Types
  <2>4. attempt \in 1 .. attempt
    BY BoundAssumption DEF Types
  <2>5. \A a \in admitted' : a.attempt \in 1 .. attempt
    BY <2>1, <2>4 DEF JobEnds, Types
  <2> QED
    BY <2>2, <2>3, <2>5 DEF Types
<1>3. CASE \E c \in DOMAIN cells, t \in CellTroubles \cup {"none"} : RunCell(c, t)
  <2>1. PICK c \in DOMAIN cells, t \in CellTroubles \cup {"none"} : RunCell(c, t)
    BY <1>3
  <2>2. UNCHANGED <<push, attempt, jobs, evidence, admitted>>
    BY <2>1, CellAdds
  <2>3. attempt \in 1 .. attempt
    BY BoundAssumption DEF Types
  <2>4. /\ cells' \in [MatrixBundle(push.registry)["supported"] -> {"pending", "success", "failure"}]
        /\ DOMAIN cells' = DOMAIN cells
    BY <2>1, CellAdds DEF Types
  <2>5. \A a \in artifacts' : a.cell \in DOMAIN cells /\ a.attempt \in 1 .. attempt
    <3> DEFINE new == [cell |-> c, attempt |-> attempt, bundle |-> CellBundle(c, t)]
    <3>1. \A a \in artifacts' : a \in artifacts \/ a = new
        BY <2>1, CellAdds
    <3>2. new.cell = c /\ new.attempt = attempt
        OBVIOUS
    <3> HIDE DEF new
    <3> QED
        BY <2>3, <3>1, <3>2 DEF Types
  <2>6. \A x \in ran' : x.attempt \in 1 .. attempt
    BY <2>1, <2>3, CellAdds DEF Types
  <2> QED
    BY <2>2, <2>4, <2>5, <2>6 DEF Types
<1>4. CASE \E mode \in {"all", "failed"} : Rerun(mode)
  <2>1. PICK mode \in {"all", "failed"} : Rerun(mode)
    BY <1>4
  <2>2. UNCHANGED <<push, artifacts, admitted, ran>> /\ attempt < MaxAttempts /\ attempt' = attempt + 1
    BY <2>1 DEF Rerun
  <2>3. attempt' \in 1 .. MaxAttempts /\ \A k \in 1 .. attempt : k \in 1 .. attempt'
    BY <2>2, BoundAssumption DEF Types
  <2>4. jobs' \in [Jobs -> Results4]
    BY <2>1 DEF Types, Rerun, Results4
  <2>5. /\ cells' \in [MatrixBundle(push.registry)["supported"] -> {"pending", "success", "failure"}]
        /\ DOMAIN cells' = DOMAIN cells
    BY <2>1 DEF Types, Rerun
  <2> QED
    BY <2>2, <2>3, <2>4, <2>5 DEF Types
<1> QED
    BY <1>1, <1>2, <1>3, <1>4, StepForms

\* Only the coverage job makes the coverage job green, and it validated the registry then.
LEMMA CoverageStep ==
    ASSUME Types, CoverageHolds, [Next]_vars PROVE CoverageHolds'
<1>1. push' = push
    BY TypesStep
<1>2. CASE jobs'["coverage"] = jobs["coverage"]
    BY <1>1, <1>2 DEF CoverageHolds
<1>3. CASE jobs'["coverage"] # jobs["coverage"] /\ jobs'["coverage"] = "success"
  <2>1. \E r \in Results4 \ {"pending"} : JobEnds("coverage", r) /\ jobs'["coverage"] = r
    BY <1>3, NewResult, Names
  <2> QED
    BY <1>1, <1>3, <2>1 DEF CoverageHolds, JobEnds
<1> QED
    BY <1>2, <1>3 DEF CoverageHolds

-----------------------------------------------------------------------------
(* Files and bundles *)

Fields == {"category", "content", "cell", "members", "oversize", "payload"}

\* A payload with a structured secret is JSON.
PlainPayload(p) ==
    {"form", "secrets"} \subseteq DOMAIN p /\ (p.form # "json" => "structured" \notin p.secrets)

PlainFile(f) ==
    Fields \subseteq DOMAIN f /\ PlainPayload(f.payload) /\ \A m \in f.members : PlainPayload(m)

\* A file the program writes is of its category and content, and carries a plain payload.
LEMMA WrittenIs ==
    ASSUME NEW category, NEW content
    PROVE  /\ PlainFile(Written(category, content))
           /\ Written(category, content).category = category
           /\ Written(category, content).content = content
    BY DEF Written, PlainFile, PlainPayload, Fields

\* Redaction keeps a payload as plain as it was, and a file's place and content.
LEMMA RedactPayloadIs ==
    ASSUME NEW p, PlainPayload(p) PROVE PlainPayload(RedactPayload(p))
<1> DEFINE left == CASE p.form = "json" -> {} [] p.form = "text" -> p.secrets \ {"canary", "pattern"}
                     [] OTHER -> p.secrets \ {"canary"}
<1>1. RedactPayload(p) = [p EXCEPT !.secrets = left]
    BY DEF RedactPayload
<1>2. left \subseteq p.secrets \/ p.form = "json"
    OBVIOUS
<1> HIDE DEF left
<1>3. /\ DOMAIN RedactPayload(p) = DOMAIN p /\ RedactPayload(p).secrets = left
      /\ RedactPayload(p).form = p.form
    BY <1>1 DEF PlainPayload
<1> QED
    BY <1>2, <1>3 DEF PlainPayload

\* Redaction changes the payload of a file, never its category or content.
LEMMA RedactFileIs ==
    ASSUME NEW f, PlainFile(f)
    PROVE  /\ PlainFile(RedactFile(f))
           /\ RedactFile(f).category = f.category /\ RedactFile(f).content = f.content
<1>1. CASE f.members = {}
  <2>1. RedactFile(f) = [f EXCEPT !.payload = RedactPayload(f.payload)]
    BY <1>1 DEF RedactFile
  <2>2. /\ DOMAIN RedactFile(f) = DOMAIN f /\ RedactFile(f).payload = RedactPayload(f.payload)
        /\ RedactFile(f).members = {}
        /\ RedactFile(f).category = f.category /\ RedactFile(f).content = f.content
    BY <1>1, <2>1 DEF PlainFile, Fields
  <2> QED
    BY <2>2, RedactPayloadIs DEF PlainFile
<1>2. CASE f.members # {}
  <2>1. RedactFile(f) = [f EXCEPT !.members = {RedactPayload(m) : m \in f.members}]
    BY <1>2 DEF RedactFile
  <2>2. /\ DOMAIN RedactFile(f) = DOMAIN f /\ RedactFile(f).payload = f.payload
        /\ RedactFile(f).members = {RedactPayload(m) : m \in f.members}
        /\ RedactFile(f).category = f.category /\ RedactFile(f).content = f.content
    BY <2>1 DEF PlainFile, Fields
  <2> QED
    BY <2>2, RedactPayloadIs DEF PlainFile
<1> QED
    BY <1>1, <1>2

\* A plain file a scan finds nothing in holds no secret.
LEMMA ScanIs ==
    ASSUME NEW f, PlainFile(f), ScanFile(f) = {}
    PROVE  f.payload.secrets = {} /\ \A m \in f.members : m.secrets = {}
<1>1. ASSUME NEW p, PlainPayload(p), ScanPayload(p) = {} PROVE p.secrets = {}
    BY <1>1 DEF PlainPayload, ScanPayload
<1>2. ScanPayload(f.payload) = {} /\ \A m \in f.members : ScanPayload(m) = {}
    BY DEF ScanFile
<1> QED
    BY <1>1, <1>2 DEF PlainFile

Found(inputs, ctx) ==
    LET disposition == IF ctx.mode = "candidate" THEN "candidate" ELSE "supported"
    IN  Gathered(Reported(inputs, ctx), ExpectedCells(ctx.registry, disposition, ctx.filter), ctx)

\* The fields of what assemble() leaves.
LEMMA AssembledIs ==
    ASSUME NEW inputs, NEW files, NEW ctx
    PROVE  LET bundle == Assembled(inputs, files, ctx)
           IN  /\ bundle.files = StagedFiles(files, Found(inputs, ctx).results)
               /\ bundle.sums = bundle.files
               /\ bundle.registry = ctx.registry /\ bundle.attempt = ctx.attempt
               /\ bundle.mode = ctx.mode
               /\ {"files", "sums"} \subseteq DOMAIN bundle
               /\ bundle = [x \in DOMAIN bundle |-> bundle[x]]
<1> DEFINE found == Found(inputs, ctx)
           staged == StagedFiles(files, found.results)
           manifest == Manifest(found, Security(ctx.security, ctx.collection, ctx.commit),
                  DependencyErrors(DepsOf(files), found.expected, ctx.mode = "release", ctx.commit,
                                   ctx.registry, ctx.config),
                  ScanClean(staged), ctx)
           bundle == Bundle(manifest, LogicFailures(manifest, ctx.mode = "release") = {}, staged, ctx)
<1>1. Assembled(inputs, files, ctx) = bundle
    BY DEF Assembled, Redacted, Staged, Judged, Found
<1>2. /\ "attempt" \in DOMAIN manifest /\ "mode" \in DOMAIN manifest
      /\ "registry" \notin DOMAIN manifest /\ "files" \notin DOMAIN manifest
      /\ "sums" \notin DOMAIN manifest
      /\ manifest.attempt = ctx.attempt /\ manifest.mode = ctx.mode
    BY DEF Manifest
<1> HIDE DEF manifest, staged, found
<1>3. /\ bundle.files = staged /\ bundle.sums = staged
      /\ bundle.registry = ctx.registry /\ bundle.attempt = ctx.attempt /\ bundle.mode = ctx.mode
      /\ {"files", "sums"} \subseteq DOMAIN bundle
    BY <1>2 DEF Bundle, Overlaid, Metadata
<1>4. bundle = [x \in DOMAIN bundle |-> bundle[x]]
    BY DEF Bundle, Overlaid
<1> HIDE DEF bundle
<1> QED
    BY <1>1, <1>3, <1>4 DEF staged, found

\* What is staged is a redacted file or a report a result refers to.
LEMMA StagedIs ==
    ASSUME NEW files, NEW results, NEW f \in StagedFiles(files, results)
    PROVE  \/ \E g \in files : f = RedactFile(g)
           \/ \E r \in results : \/ \E j \in r.junit : f = Written("junit", j)
                                \/ \E a \in r.allure : f = Written("allure-results", a)
    BY DEF StagedFiles, ReferencedFiles

\* What is staged for a bundle is plain when its source files are.
LEMMA StagedPlain ==
    ASSUME NEW files, NEW results, \A g \in files : PlainFile(g)
    PROVE  \A f \in StagedFiles(files, results) : PlainFile(f)
    BY StagedIs, RedactFileIs, WrittenIs

CellFiles(cell, t) ==
    {Written("junit", r) : r \in Reports(cell, t) \cup {Recorded(cell, t)}}
      \cup {Written("allure-results", a) : a \in NativeAllure(cell, t) \cup CellAllure(cell, t)}
      \cup Diagnostics(cell, t) \cup Dependencies(cell, t)

CellInputs(cell, t) ==
    Listed({[report |-> r, hint |-> [scenario |-> cell.scenario, target |-> cell.target,
                                     attempt |-> Absent, stem |-> cell.scenario]] :
              r \in Reports(cell, t) \cup {Recorded(cell, t)}})

\* The bundle of a cell is what assemble() makes of the recorded report and files.
LEMMA CellBundleIs ==
    ASSUME NEW cell, NEW t
    PROVE  CellBundle(cell, t) = Assembled(CellInputs(cell, t), CellFiles(cell, t), CellContext(cell, t))
    BY DEF CellBundle, CellInputs, CellFiles

\* Everything a cell records is plain.
LEMMA CellFilesPlain ==
    ASSUME NEW cell, NEW t PROVE \A f \in CellFiles(cell, t) : PlainFile(f)
<1>1. \A f \in Dependencies(cell, t) : PlainFile(f)
    BY WrittenIs DEF Dependencies
<1> DEFINE text == [form |-> "text", secrets |-> {"pattern"}]
           json == [form |-> "json", secrets |-> {"structured"}]
           core == [form |-> "binary", secrets |-> {"pattern"}]
           of(kind) == [kind |-> kind, doc |-> CellKey(cell)]
<1>2. PlainPayload(text) /\ PlainPayload(json) /\ PlainPayload(core)
    BY DEF PlainPayload
<1>3. \A f \in Diagnostics(cell, t) :
        \/ f = [Written("logs", of("log")) EXCEPT !.payload = text]
        \/ f = [Written("configuration", of("json")) EXCEPT !.payload = json]
        \/ \E M \in {{text}, {text, core}} :
             f = [Written("diagnostics", of("archive")) EXCEPT !.members = M]
    BY DEF Diagnostics
<1>4. ASSUME NEW category, NEW content, NEW p, PlainPayload(p)
      PROVE  PlainFile([Written(category, content) EXCEPT !.payload = p])
    BY <1>4 DEF Written, PlainFile, Fields
<1>5. ASSUME NEW category, NEW content, NEW M, \A m \in M : PlainPayload(m)
      PROVE  PlainFile([Written(category, content) EXCEPT !.members = M])
    BY <1>5 DEF Written, PlainFile, Fields, PlainPayload
<1> HIDE DEF text, json, core, of
<1>6. \A f \in Diagnostics(cell, t) : PlainFile(f)
  <2> TAKE f \in Diagnostics(cell, t)
  <2>1. CASE f = [Written("logs", of("log")) EXCEPT !.payload = text]
    BY <1>2, <1>4, <2>1
  <2>2. CASE f = [Written("configuration", of("json")) EXCEPT !.payload = json]
    BY <1>2, <1>4, <2>2
  <2>3. CASE \E M \in {{text}, {text, core}} :
               f = [Written("diagnostics", of("archive")) EXCEPT !.members = M]
    BY <1>2, <1>5, <2>3
  <2> QED
    BY <1>3, <2>1, <2>2, <2>3
<1> QED
    BY <1>1, <1>6, WrittenIs DEF CellFiles

\* So is everything in the bundle it uploads.
LEMMA CellBundlePlain ==
    ASSUME NEW cell, NEW t PROVE \A f \in CellBundle(cell, t).files : PlainFile(f)
    BY CellBundleIs, CellFilesPlain, AssembledIs, StagedPlain

ReleaseInputsOf(files) ==
    Listed({[report |-> r, hint |-> [scenario |-> Absent, target |-> Absent, attempt |-> Absent,
                                     stem |-> Absent]] : r \in ContentOf(files, "junit")})

ReleaseContext(files, t) ==
    [registry |-> push.registry, mode |-> "release", commit |-> Commit, requested |-> Commit,
     attempt |-> AttemptName(attempt), run |-> "run", filter |-> NoFilter,
     native |-> ContentOf(files, "allure-results"), prerequisites |-> Prerequisites,
     security |-> SecurityDocuments(t), collection |-> Collection, config |-> Config]

\* The release evidence is what assemble() makes of the downloaded bundles.
LEMMA ReleaseBundleIs ==
    ASSUME NEW files, NEW t
    PROVE  ReleaseBundle(files, t) = Assembled(ReleaseInputsOf(files), files, ReleaseContext(files, t))
    BY DEF ReleaseBundle, ReleaseInputsOf, ReleaseContext

\* A file the aggregate assembles is one of a downloaded bundle, below no cell.
LEMMA ReleaseFilesAre ==
    ASSUME \A a \in artifacts : \A f \in a.bundle.files : PlainFile(f)
    PROVE  /\ \A f \in ReleaseFiles : PlainFile(f)
           /\ \A f \in ReleaseFiles : \E a \in Downloaded : \E g \in a.bundle.files :
                f.category = g.category /\ f.content = g.content
           /\ \A a \in Downloaded : \A g \in a.bundle.files : g.category = "dependencies" =>
                \E f \in ReleaseFiles : f.category = g.category /\ f.content = g.content
<1> DEFINE below(g, a) == [g EXCEPT !.cell = a.cell.scenario]
           placed(g, a) == [below(g, a) EXCEPT !.cell = ""]
           all == UNION {{below(g, a) : g \in a.bundle.files} : a \in Downloaded}
           references == CellReferences({a.bundle : a \in Downloaded})
<1>1. ReleaseFiles = {[f EXCEPT !.cell = ""] : f \in Collected(all, references)}
    BY DEF ReleaseFiles, CopiedFiles
<1>2. \A a \in Downloaded : \A g \in a.bundle.files :
        /\ PlainFile(placed(g, a))
        /\ placed(g, a).category = g.category /\ placed(g, a).content = g.content
        /\ below(g, a).category = g.category /\ below(g, a).content = g.content
  <2> TAKE a \in Downloaded
  <2> TAKE g \in a.bundle.files
  <2>1. PlainFile(g)
    BY DEF Downloaded
  <2>2. /\ DOMAIN below(g, a) = DOMAIN g /\ below(g, a).payload = g.payload
        /\ below(g, a).members = g.members
        /\ below(g, a).category = g.category /\ below(g, a).content = g.content
    BY <2>1 DEF PlainFile, Fields
  <2> HIDE DEF below
  <2>3. /\ DOMAIN placed(g, a) = DOMAIN g /\ placed(g, a).payload = g.payload
        /\ placed(g, a).members = g.members
        /\ placed(g, a).category = g.category /\ placed(g, a).content = g.content
    BY <2>1, <2>2 DEF PlainFile, Fields
  <2> QED
    BY <2>1, <2>2, <2>3 DEF PlainFile
<1>5. \A f \in all : \E a \in Downloaded : \E g \in a.bundle.files : f = below(g, a)
    OBVIOUS
<1>6. \A a \in Downloaded : \A g \in a.bundle.files : below(g, a) \in all
    OBVIOUS
<1>3. \A f \in ReleaseFiles : \E a \in Downloaded : \E g \in a.bundle.files : f = placed(g, a)
  <2> TAKE f \in ReleaseFiles
  <2> HIDE DEF all, references, below
  <2>1. PICK h \in all : f = [h EXCEPT !.cell = ""]
    BY <1>1 DEF Collected
  <2>2. PICK a \in Downloaded : \E g \in a.bundle.files : h = below(g, a)
    BY <1>5
  <2>3. PICK g \in a.bundle.files : h = below(g, a)
    BY <2>2
  <2> QED
    BY <2>1, <2>3
<1>4. \A a \in Downloaded : \A g \in a.bundle.files :
        g.category = "dependencies" => placed(g, a) \in ReleaseFiles
  <2> TAKE a \in Downloaded
  <2> TAKE g \in a.bundle.files
  <2> HAVE g.category = "dependencies"
  <2> HIDE DEF below, all, references
  <2>1. below(g, a) \in all /\ below(g, a).category = "dependencies"
    BY <1>2, <1>6
  <2>2. below(g, a) \in Collected(all, references)
    BY <2>1 DEF Collected, IsEvidence
  <2> QED
    BY <1>1, <2>2
<1> HIDE DEF placed
<1> QED
    BY <1>2, <1>3, <1>4

\* The release evidence is plain when the bundles of all cells are.
LEMMA ReleaseBundlePlain ==
    ASSUME \A a \in artifacts : \A f \in a.bundle.files : PlainFile(f), NEW t
    PROVE  \A f \in ReleaseBundle(ReleaseFiles, t).files : PlainFile(f)
    BY ReleaseBundleIs, ReleaseFilesAre, AssembledIs, StagedPlain

-----------------------------------------------------------------------------
(* Reports and rows *)

\* The members of a set listed one by one are members of it.
LEMMA ListedIn ==
    ASSUME NEW S PROVE Listed(S) \in Seq(S)
<1>1. CASE ~IsFiniteSet(S)
    BY <1>1 DEF Listed
<1>2. CASE IsFiniteSet(S)
  <2> DEFINE N == Cardinality(S)
             Step(before) == IF S \subseteq Range(before) THEN before
                             ELSE Append(before, CHOOSE x \in S : x \notin Range(before))
             IsListing(f, n) == f = [k \in 0 .. n |-> IF k = 0 THEN <<>> ELSE Step(f[k - 1])]
             T == {n \in Nat : \E f : IsListing(f, n)}
  <2>1. N \in Nat
    BY <1>2, FS_CardinalityType
  <2> HIDE DEF N, Step
  <2>2. 0 \in T
    <3>1. IsListing([k \in 0 .. 0 |-> <<>>], 0)
        OBVIOUS
    <3> QED
        BY <3>1
  <2>3. ASSUME NEW n \in Nat, n \in T PROVE n + 1 \in T
    <3>1. PICK f : IsListing(f, n)
        BY <2>3
    <3> DEFINE g == [k \in 0 .. (n + 1) |-> IF k = n + 1 THEN Step(f[n]) ELSE f[k]]
    <3>2. \A k \in 0 .. n : f[k] = IF k = 0 THEN <<>> ELSE Step(f[k - 1])
        BY <3>1
    <3>3. \A k \in 0 .. (n + 1) : g[k] = IF k = 0 THEN <<>> ELSE Step(g[k - 1])
        <4> TAKE k \in 0 .. (n + 1)
        <4>1. CASE k = n + 1
            <5>1. k # 0 /\ k - 1 = n /\ n \in 0 .. (n + 1) /\ n # n + 1
                BY <4>1
            <5>2. g[k] = Step(f[n]) /\ g[k - 1] = f[n]
                BY <4>1, <5>1
            <5> QED
                BY <5>1, <5>2
        <4>2. CASE k # n + 1
            <5>1. k \in 0 .. n /\ g[k] = f[k]
                BY <4>2
            <5>2. k # 0 => k - 1 \in 0 .. (n + 1) /\ k - 1 # n + 1 /\ g[k - 1] = f[k - 1]
                BY <5>1
            <5> HIDE DEF g
            <5> QED
                BY <3>2, <5>1, <5>2
        <4> QED
            BY <4>1, <4>2
    <3>4. g = [k \in 0 .. (n + 1) |-> g[k]]
        OBVIOUS
    <3> HIDE DEF g
    <3>5. IsListing(g, n + 1)
        BY <3>3, <3>4, Zenon
    <3> QED
        BY <3>5
  <2> HIDE DEF T, IsListing
  <2>4. \E f : IsListing(f, N)
    <3>1. Nat \subseteq T
        BY <2>2, <2>3, Induct
    <3> QED
        BY <2>1, <3>1 DEF T
  <2>5. Listing(S) = [k \in 0 .. N |-> IF k = 0 THEN <<>> ELSE Step(Listing(S)[k - 1])]
    BY <2>4, Zenon DEF IsListing, Listing, N, Step
  <2> DEFINE first == Listing(S)
             A == {k \in Nat : k <= N => first[k] \in Seq(S)}
  <2>6. first = [k \in 0 .. N |-> IF k = 0 THEN <<>> ELSE Step(first[k - 1])]
    BY <2>5
  <2> HIDE DEF first
  <2>7. \A k \in 0 .. N : first[k] = IF k = 0 THEN <<>> ELSE Step(first[k - 1])
    BY <2>6
  <2>8. ASSUME NEW before \in Seq(S) PROVE Step(before) \in Seq(S)
    <3>1. CASE S \subseteq Range(before)
        BY <3>1 DEF Step
    <3>2. CASE ~(S \subseteq Range(before))
        <4> DEFINE y == CHOOSE x \in S : x \notin Range(before)
        <4>1. y \in S
            BY <3>2
        <4> HIDE DEF y
        <4>2. Append(before, y) \in Seq(S)
            BY <4>1
        <4> QED
            BY <3>2, <4>2 DEF Step, y
    <3> QED
        BY <3>1, <3>2
  <2>9. 0 \in A /\ \A k \in Nat : k \in A => k + 1 \in A
    <3>1. 0 \in A
        <4>1. 0 \in 0 .. N /\ 0 \in Nat
            BY <2>1
        <4>2. first[0] = <<>>
            BY <2>7, <4>1
        <4>3. first[0] \in Seq(S)
            BY <4>2
        <4> QED
            BY <4>1, <4>3
    <3>2. ASSUME NEW k \in Nat, k \in A, k + 1 <= N PROVE first[k + 1] \in Seq(S)
        <4>1. k + 1 \in 0 .. N /\ k + 1 # 0 /\ (k + 1) - 1 = k /\ k <= N
            BY <2>1, <3>2
        <4>2. first[k + 1] = Step(first[k])
            BY <2>7, <4>1
        <4> QED
            BY <2>8, <3>2, <4>1, <4>2
    <3> QED
        BY <3>1, <3>2
  <2> HIDE DEF A
  <2>10. Nat \subseteq A
    BY <2>9, Induct
  <2>11. first[N] \in Seq(S)
    BY <2>1, <2>10 DEF A
  <2> QED
    BY <1>2, <2>11 DEF Listed, first, N
<1> QED
    BY <1>1, <1>2

\* A listing enumerates members of the set it lists, and nothing else.
LEMMA ListedMembers ==
    ASSUME NEW S
    PROVE  /\ Len(Listed(S)) \in Nat /\ DOMAIN Listed(S) = 1 .. Len(Listed(S))
           /\ \A i \in DOMAIN Listed(S) : Listed(S)[i] \in S
    BY ListedIn

\* Where the report of a row comes from.
FromInputs(w, inputs) == w.file.commit = NoCommit \/ \E i \in DOMAIN inputs : w.file = inputs[i].report

RowsFrom(rows, inputs) == \E R : rows \in Seq(R) /\ \A w \in R : FromInputs(w, inputs)

Accumulator(acc) == {"rows", "blockers", "used"} \subseteq DOMAIN acc

\* Two tables of rows joined are a table of rows over both sets.
LEMMA WiderRows ==
    ASSUME NEW R, NEW rows \in Seq(R), NEW Q, NEW more \in Seq(Q)
    PROVE  rows \o more \in Seq(R \cup Q)
<1>1. rows \in Seq(R \cup Q)
    OBVIOUS
<1>2. more \in Seq(R \cup Q)
    OBVIOUS
<1> QED
    BY <1>1, <1>2

\* The row that stands in for a missing report names no commit.
LEMMA FallbackRowIs ==
    ASSUME NEW identity, NEW ctx, NEW inputs
    PROVE  FromInputs(FallbackRow(identity, ctx), inputs)
    BY DEF FallbackRow, Fallback, FromInputs

\* The rows of one more report.
LEMMA AddReportRows ==
    ASSUME NEW acc, Accumulator(acc), NEW inputs, NEW ctx, NEW i \in DOMAIN inputs,
           RowsFrom(acc.rows, inputs)
    PROVE  /\ Accumulator(AddReport(acc, inputs[i], inputs, ctx))
           /\ RowsFrom(AddReport(acc, inputs[i], inputs, ctx).rows, inputs)
<1> DEFINE input == inputs[i]
           inferred == InferOf(input, ctx)
           new == {RowOf(input, r, inferred, ctx.native \ acc.used, ctx) :
                     r \in {x \in inferred.roles : ~RoleUnclear(Parsed(input.report), x, inferred.roles)}}
           unread == FallbackRow(SyntheticIdentity(input, ctx), ctx)
<1>1. PICK R : acc.rows \in Seq(R) /\ \A w \in R : FromInputs(w, inputs)
    BY DEF RowsFrom
<1>2. CASE ~Readable(input.report)
  <2> DEFINE after == [acc EXCEPT !.rows = Append(acc.rows, unread),
                                  !.blockers = acc.blockers \cup {"unreadable"}]
  <2>1. AddReport(acc, input, inputs, ctx) = after
    BY <1>2 DEF AddReport
  <2>2. FromInputs(unread, inputs)
    BY FallbackRowIs
  <2> HIDE DEF unread
  <2>3. DOMAIN after = DOMAIN acc /\ after.rows = Append(acc.rows, unread)
    BY DEF Accumulator
  <2>4. acc.rows \in Seq(R \cup {unread})
    BY <1>1
  <2>5. Append(acc.rows, unread) \in Seq(R \cup {unread})
    BY <2>4
  <2>6. \A w \in R \cup {unread} : FromInputs(w, inputs)
    BY <1>1, <2>2
  <2> HIDE DEF after
  <2> QED
    BY <2>1, <2>3, <2>5, <2>6 DEF Accumulator, RowsFrom
<1>3. CASE Readable(input.report) /\ Superseded(input, inputs, ctx)
    BY <1>3 DEF AddReport
<1>4. CASE Readable(input.report) /\ ~Superseded(input, inputs, ctx)
  <2>1. AddReport(acc, input, inputs, ctx) = AddRows(acc, input, inferred, new, ctx)
    BY <1>4 DEF AddReport, AddInferred
  <2>2. \A w \in new : FromInputs(w, inputs)
    BY DEF RowOf, FromInputs
  <2> HIDE DEF new, inferred
  <2>3. CASE ~Registered(inferred, ctx.registry)
    <3> DEFINE more == {"unregistered"} \cup (ReportBlockers(input, inferred, {}, ctx) \cap {"commit"})
               after == [acc EXCEPT !.blockers = acc.blockers \cup more]
    <3>1. AddRows(acc, input, inferred, new, ctx) = after
        BY <2>3 DEF AddRows
    <3> HIDE DEF more
    <3>2. DOMAIN after = DOMAIN acc /\ after.rows = acc.rows
        BY DEF Accumulator
    <3> QED
        BY <2>1, <3>1, <3>2 DEF Accumulator
  <2>4. CASE Registered(inferred, ctx.registry)
    <3> DEFINE after == [rows |-> acc.rows \o Listed(new),
                         blockers |-> acc.blockers \cup ReportBlockers(input, inferred, new, ctx),
                         used |-> acc.used \cup UNION {w.taken : w \in new}]
    <3>1. AddRows(acc, input, inferred, new, ctx) = after
        BY <2>4 DEF AddRows
    <3>2. Accumulator(after) /\ after.rows = acc.rows \o Listed(new)
        BY DEF Accumulator
    <3>3. acc.rows \o Listed(new) \in Seq(R \cup new)
        BY <1>1, ListedIn, WiderRows
    <3>4. \A w \in R \cup new : FromInputs(w, inputs)
        BY <1>1, <2>2
    <3> HIDE DEF after
    <3> QED
        BY <2>1, <3>1, <3>2, <3>3, <3>4 DEF RowsFrom
  <2> QED
    BY <2>3, <2>4
<1> QED
    BY <1>2, <1>3, <1>4

\* The rows of all reports.
LEMMA ReportedRows ==
    ASSUME NEW inputs, Len(inputs) \in Nat, DOMAIN inputs = 1 .. Len(inputs), NEW ctx
    PROVE  RowsFrom(Reported(inputs, ctx).rows, inputs)
<1> DEFINE N == Len(inputs)
           base == [rows |-> <<>>, blockers |-> {}, used |-> {}]
           Step(acc, n) == AddReport(acc, inputs[n], inputs, ctx)
           IsReading(f, n) == f = [k \in 0 .. n |-> IF k = 0 THEN base ELSE Step(f[k - 1], k)]
           T == {n \in Nat : \E f : IsReading(f, n)}
<1>1. N \in Nat /\ DOMAIN inputs = 1 .. N
    OBVIOUS
<1> HIDE DEF N, Step, base
<1>2. 0 \in T
  <2>1. IsReading([k \in 0 .. 0 |-> base], 0)
    OBVIOUS
  <2> QED
    BY <2>1
<1>3. ASSUME NEW n \in Nat, n \in T PROVE n + 1 \in T
  <2>1. PICK f : IsReading(f, n)
    BY <1>3
  <2> DEFINE g == [k \in 0 .. (n + 1) |-> IF k = n + 1 THEN Step(f[n], n + 1) ELSE f[k]]
  <2>2. \A k \in 0 .. n : f[k] = IF k = 0 THEN base ELSE Step(f[k - 1], k)
    BY <2>1
  <2>3. \A k \in 0 .. (n + 1) : g[k] = IF k = 0 THEN base ELSE Step(g[k - 1], k)
    <3> TAKE k \in 0 .. (n + 1)
    <3>1. CASE k = n + 1
        <4>1. k # 0 /\ k - 1 = n /\ n \in 0 .. (n + 1) /\ n # n + 1
            BY <3>1
        <4>2. g[k] = Step(f[n], k) /\ g[k - 1] = f[n]
            BY <3>1, <4>1
        <4> QED
            BY <4>1, <4>2
    <3>2. CASE k # n + 1
        <4>1. k \in 0 .. n /\ g[k] = f[k]
            BY <3>2
        <4>2. k # 0 => k - 1 \in 0 .. (n + 1) /\ k - 1 # n + 1 /\ g[k - 1] = f[k - 1]
            BY <4>1
        <4> HIDE DEF g
        <4> QED
            BY <2>2, <4>1, <4>2
    <3> QED
        BY <3>1, <3>2
  <2>4. g = [k \in 0 .. (n + 1) |-> g[k]]
    OBVIOUS
  <2> HIDE DEF g
  <2>5. IsReading(g, n + 1)
    BY <2>3, <2>4, Zenon
  <2> QED
    BY <2>5
<1> HIDE DEF T, IsReading
<1>4. \E f : IsReading(f, N)
  <2>1. Nat \subseteq T
    BY <1>2, <1>3, Induct
  <2> QED
    BY <1>1, <2>1 DEF T
<1>5. Reading(inputs, ctx) =
        [k \in 0 .. N |-> IF k = 0 THEN base ELSE Step(Reading(inputs, ctx)[k - 1], k)]
    BY <1>4, Zenon DEF IsReading, Reading, N, Step, base
<1> DEFINE after == Reading(inputs, ctx)
           A == {k \in Nat : k <= N => Accumulator(after[k]) /\ RowsFrom(after[k].rows, inputs)}
<1>6. after = [k \in 0 .. N |-> IF k = 0 THEN base ELSE Step(after[k - 1], k)]
    BY <1>5
<1> HIDE DEF after
<1>7. \A k \in 0 .. N : after[k] = IF k = 0 THEN base ELSE Step(after[k - 1], k)
    BY <1>6
<1>8. 0 \in A
  <2>1. 0 \in 0 .. N /\ 0 \in Nat
    BY <1>1
  <2>2. after[0] = base
    BY <1>7, <2>1
  <2>3. Accumulator(base) /\ base.rows = <<>>
    BY DEF base, Accumulator
  <2>4. RowsFrom(<<>>, inputs)
    <3> DEFINE none == {}
    <3>1. <<>> \in Seq(none) /\ \A w \in none : FromInputs(w, inputs)
        OBVIOUS
    <3> HIDE DEF none
    <3> QED
        BY <3>1 DEF RowsFrom
  <2> QED
    BY <2>1, <2>2, <2>3, <2>4
<1>9. ASSUME NEW k \in Nat, k \in A PROVE k + 1 \in A
  <2> SUFFICES ASSUME k + 1 <= N
               PROVE  Accumulator(after[k + 1]) /\ RowsFrom(after[k + 1].rows, inputs)
    OBVIOUS
  <2>1. k + 1 \in 0 .. N /\ k + 1 # 0 /\ (k + 1) - 1 = k /\ k <= N /\ k + 1 \in DOMAIN inputs
    BY <1>1
  <2>2. after[k + 1] = AddReport(after[k], inputs[k + 1], inputs, ctx)
    BY <1>7, <2>1 DEF Step
  <2>3. Accumulator(after[k]) /\ RowsFrom(after[k].rows, inputs)
    BY <1>9, <2>1
  <2> QED
    BY <2>1, <2>2, <2>3, AddReportRows
<1> HIDE DEF A
<1>10. Nat \subseteq A
    BY <1>8, <1>9, Induct
<1>11. RowsFrom(after[N].rows, inputs)
    BY <1>1, <1>10 DEF A
<1> QED
    BY <1>11 DEF Reported, after, N

\* A report some result refers to is one of the inputs or names no commit.
LEMMA ResultReports ==
    ASSUME NEW inputs, Len(inputs) \in Nat, DOMAIN inputs = 1 .. Len(inputs), NEW ctx,
           NEW r \in Found(inputs, ctx).results, NEW j \in r.junit
    PROVE  j.commit = NoCommit \/ \E i \in DOMAIN inputs : j = inputs[i].report
<1> DEFINE expected == Found(inputs, ctx).expected
           reported == Reported(inputs, ctx)
           missing == {FallbackRow(x, ctx) : x \in
                         (UNION {{IdentityOf(q, [scenario |-> c.scenario, profile |-> c.profile,
                                                target |-> c.target, attempt |-> ctx.attempt]) : q \in c.roles} :
                                   c \in expected})
                         \ {reported.rows[i].identity : i \in DOMAIN reported.rows}}
           rows == reported.rows \o Listed(missing)
<1>1. Found(inputs, ctx).results = Results(Completed(reported.rows, expected, ctx))
    BY DEF Found, Gathered, Concluded
<1>2. Completed(reported.rows, expected, ctx) = rows
    BY DEF Completed
<1>3. PICK R : reported.rows \in Seq(R) /\ \A w \in R : FromInputs(w, inputs)
    BY ReportedRows DEF RowsFrom
<1>4. \A w \in missing : FromInputs(w, inputs)
    BY FallbackRowIs
<1> HIDE DEF missing
<1>5. rows \in Seq(R \cup missing)
    BY <1>3, ListedIn, WiderRows
<1>6. \A i \in DOMAIN rows : FromInputs(rows[i], inputs)
    BY <1>3, <1>4, <1>5
<1> HIDE DEF rows
<1>7. PICK identity : r = ResultOf(identity, rows)
    BY <1>1, <1>2 DEF Results
<1>8. \E i \in DOMAIN rows : j = rows[i].file
    BY <1>7 DEF ResultOf
<1> QED
    BY <1>6, <1>8 DEF FromInputs

\* And so is every report of the assembled bundle that was not collected.
LEMMA AssembledReports ==
    ASSUME NEW inputs, Len(inputs) \in Nat, DOMAIN inputs = 1 .. Len(inputs), NEW files, NEW ctx,
           \A g \in files : PlainFile(g),
           NEW f \in Assembled(inputs, files, ctx).files, f.category = "junit",
           f.content.commit # NoCommit
    PROVE  \/ \E g \in files : g.category = "junit" /\ f.content = g.content
           \/ \E i \in DOMAIN inputs : f.content = inputs[i].report
<1>1. f \in StagedFiles(files, Found(inputs, ctx).results)
    BY AssembledIs
<1>2. CASE \E g \in files : f = RedactFile(g)
    BY <1>2, RedactFileIs
<1>3. CASE \E r \in Found(inputs, ctx).results : \E j \in r.junit : f = Written("junit", j)
  <2>1. PICK r \in Found(inputs, ctx).results : \E j \in r.junit : f = Written("junit", j)
    BY <1>3
  <2>2. PICK j \in r.junit : f = Written("junit", j)
    BY <2>1
  <2>3. f.content = j
    BY <2>2, WrittenIs
  <2> QED
    BY <2>3, ResultReports
<1>4. CASE \E r \in Found(inputs, ctx).results : \E a \in r.allure : f = Written("allure-results", a)
    BY <1>4, WrittenIs
<1> QED
    BY <1>1, <1>2, <1>3, <1>4, StagedIs

-----------------------------------------------------------------------------
(* What a cell uploads *)

\* Every inventory among the files is in the bundle.
LEMMA KeptInventories ==
    ASSUME NEW inputs, NEW files, NEW ctx, \A g \in files : PlainFile(g),
           NEW g \in files, g.category = "dependencies"
    PROVE  g.content \in Inventories(Assembled(inputs, files, ctx).files)
<1>1. RedactFile(g) \in Assembled(inputs, files, ctx).files
    BY AssembledIs DEF StagedFiles
<1>2. RedactFile(g).category = "dependencies" /\ RedactFile(g).content = g.content
    BY RedactFileIs
<1> QED
    BY <1>1, <1>2 DEF Inventories

ContainersDoc(cell, t) ==
    [kind |-> "containers",
     doc |-> [wellFormed |-> TRUE, available |-> TRUE, digests |-> Containers(t),
              scenario |-> cell.scenario, target |-> cell.target]]

\* The bundle of a cell holds the inventory of the containers its target ran.
LEMMA CellInventory ==
    ASSUME NEW cell, NEW t
    PROVE  ContainersDoc(cell, t) \in Inventories(CellBundle(cell, t).files)
<1> DEFINE g == Written("dependencies", ContainersDoc(cell, t))
<1>1. g \in Dependencies(cell, t)
    BY DEF Dependencies, ContainersDoc
<1>2. g \in CellFiles(cell, t)
    BY <1>1 DEF CellFiles
<1>3. g.category = "dependencies" /\ g.content = ContainersDoc(cell, t)
    BY WrittenIs
<1> HIDE DEF g
<1> QED
    BY <1>2, <1>3, CellBundleIs, CellFilesPlain, KeptInventories

\* The reports pytest leaves.
LEMMA ReportsAre ==
    ASSUME NEW cell, NEW t, NEW r \in Reports(cell, t)
    PROVE  /\ DOMAIN r = {"wellFormed", "cases", "suiteRoles", "approvesSkips", "framework",
                          "commit", "name", "id"}
           /\ r.cases = {CaseOf(q, cell, t) : q \in ReportedRoles(cell, t)}
           /\ r.framework = "pytest" /\ r.id.attempt = Absent
<1> DEFINE raw == RawReport(cell, t)
<1>1. r = raw \/ r = [raw EXCEPT !.name = "second"]
    BY DEF Reports
<1>2. /\ DOMAIN raw = {"wellFormed", "cases", "suiteRoles", "approvesSkips", "framework",
                       "commit", "name", "id"}
      /\ raw.cases = {CaseOf(q, cell, t) : q \in ReportedRoles(cell, t)}
      /\ raw.framework = "pytest" /\ raw.id.attempt = Absent
    BY DEF RawReport
<1> HIDE DEF raw
<1> QED
    BY <1>1, <1>2

CellCases(cell, t) == {CaseOf(q, cell, t) : q \in ReportedRoles(cell, t)}

\* The recorded report is a fallback or has the testcases of a report.
LEMMA RecordedIs ==
    ASSUME NEW cell, NEW t
    PROVE  /\ {"cases", "framework", "suiteRoles"} \subseteq DOMAIN Recorded(cell, t)
           /\ "status" \notin DOMAIN Recorded(cell, t)
           /\ Recorded(cell, t).id = [scenario |-> cell.scenario, profile |-> cell.profile,
                                      target |-> cell.target, attempt |-> AttemptName(attempt)]
           /\ \/ Recorded(cell, t).framework = "evidence-fallback"
              \/ Recorded(cell, t).cases = CellCases(cell, t)
<1> DEFINE found == IF Cardinality(Reports(cell, t)) = 1 THEN Reports(cell, t) ELSE {}
           identity == [scenario |-> cell.scenario, profile |-> cell.profile,
                        target |-> cell.target, attempt |-> AttemptName(attempt)]
           kept == {r \in found : Usable(r, RecordExit(cell, t), Commit)}
           base == IF kept = {} THEN Fallback("recorded", identity, {}) ELSE CHOOSE r \in kept : TRUE
           named == [base EXCEPT !.name = "recorded"]
<1>1. Recorded(cell, t) = [named EXCEPT !.suiteRoles = cell.roles, !.commit = Commit, !.id = identity]
    BY DEF Recorded, RecordedReport, Annotated
<1>2. base = Fallback("recorded", identity, {}) \/ base \in Reports(cell, t)
  <2>1. kept \subseteq Reports(cell, t)
    OBVIOUS
  <2> HIDE DEF kept
  <2> QED
    BY <2>1
<1> HIDE DEF base
<1>3. /\ DOMAIN base = {"wellFormed", "cases", "suiteRoles", "approvesSkips", "framework",
                        "commit", "name", "id"}
      /\ base.framework = "evidence-fallback"
           \/ base.cases = CellCases(cell, t)
  <2>1. CASE base = Fallback("recorded", identity, {})
    BY <2>1 DEF Fallback
  <2>2. CASE base \in Reports(cell, t)
    BY <2>2, ReportsAre DEF CellCases
  <2> QED
    BY <1>2, <2>1, <2>2
<1>4. DOMAIN named = DOMAIN base /\ named.framework = base.framework /\ named.cases = base.cases
    BY <1>3
<1> HIDE DEF named, identity
<1>5. /\ DOMAIN Recorded(cell, t) = DOMAIN base /\ Recorded(cell, t).framework = base.framework
      /\ Recorded(cell, t).cases = base.cases /\ Recorded(cell, t).id = identity
    BY <1>1, <1>3, <1>4
<1> QED
    BY <1>3, <1>5 DEF identity

\* The status of one role of a report.
LEMMA ForRoleIs ==
    ASSUME NEW j, {"cases", "framework"} \subseteq DOMAIN j, "status" \notin DOMAIN j, NEW role
    PROVE  LET cases == {c \in CasesOf(j) : role \in c.roles}
           IN  /\ Parsed(j).cases = CasesOf(j)
               /\ ForRole(Parsed(j), role).status = StatusOf(cases, j.framework, SkipsApproved(cases))
<1> DEFINE whole0 == [j EXCEPT !.cases = CasesOf(j)]
           status == StatusOf(CasesOf(j), j.framework, j.approvesSkips \/ SkipsApproved(CasesOf(j)))
           tail == [status |-> status]
           p == Parsed(j)
           cases == {c \in p.cases : role \in c.roles}
<1>1. p = Overlaid(whole0, tail)
    BY DEF Parsed
<1>2. DOMAIN whole0 = DOMAIN j /\ whole0.cases = CasesOf(j) /\ whole0.framework = j.framework
    OBVIOUS
<1>3. DOMAIN tail = {"status"}
    OBVIOUS
<1> HIDE DEF whole0, tail, p
<1>4. /\ DOMAIN p = (DOMAIN j) \cup {"status"}
      /\ p.cases = CasesOf(j) /\ p.framework = j.framework
    BY <1>1, <1>2, <1>3 DEF Overlaid
<1>5. ForRole(p, role) =
        [p EXCEPT !.cases = cases, !.status = StatusOf(cases, p.framework, SkipsApproved(cases))]
    BY DEF ForRole
<1>6. ForRole(p, role).status = StatusOf(cases, p.framework, SkipsApproved(cases))
    BY <1>4, <1>5
<1> QED
    BY <1>4, <1>6 DEF p

\* A role the recorded report says passed was reported as passed.
LEMMA RecordedRole ==
    ASSUME NEW cell, NEW t, NEW role,
           ~RoleUnclear(Parsed(Recorded(cell, t)), role, Recorded(cell, t).suiteRoles),
           ForRole(Parsed(Recorded(cell, t)), role).status = "passed"
    PROVE  role \in ReportedRoles(cell, t) /\ CaseOf(role, cell, t).status = "passed"
<1> DEFINE j == Recorded(cell, t)
           cases == {c \in CasesOf(j) : role \in c.roles}
<1>a. /\ {"cases", "framework"} \subseteq DOMAIN j /\ "status" \notin DOMAIN j
      /\ \/ j.framework = "evidence-fallback"
         \/ j.cases = CellCases(cell, t)
  <2>1. {"cases", "framework", "suiteRoles"} \subseteq DOMAIN Recorded(cell, t)
    BY RecordedIs, Zenon
  <2>2. "status" \notin DOMAIN Recorded(cell, t)
    BY RecordedIs, Zenon
  <2>3. \/ Recorded(cell, t).framework = "evidence-fallback"
        \/ Recorded(cell, t).cases = CellCases(cell, t)
    BY RecordedIs, Zenon
  <2> QED
    BY <2>1, <2>2, <2>3
<1>b. ~RoleUnclear(Parsed(j), role, j.suiteRoles) /\ ForRole(Parsed(j), role).status = "passed"
    OBVIOUS
<1> HIDE DEF j
<1>1. /\ StatusOf(cases, j.framework, SkipsApproved(cases)) = "passed"
      /\ Parsed(j).cases = CasesOf(j)
    BY <1>a, <1>b, ForRoleIs
<1>2. j.framework # "evidence-fallback"
    BY <1>1 DEF StatusOf
<1>3. j.cases = {CaseOf(q, cell, t) : q \in ReportedRoles(cell, t)}
    BY <1>2, <1>a DEF CellCases
<1>4. \A q : CaseOf(q, cell, t).roles = {q}
    BY DEF CaseOf
<1>5. CasesOf(j) = j.cases
  <2>1. \A c \in j.cases : c.roles # {}
    BY <1>3, <1>4
  <2> QED
    BY <2>1 DEF CasesOf
<1>6. PICK c \in CasesOf(j) : role \in c.roles
    BY <1>1, <1>b DEF RoleUnclear
<1>7. PICK q \in ReportedRoles(cell, t) : c = CaseOf(q, cell, t)
    BY <1>3, <1>5, <1>6
<1>8. q = role
    BY <1>4, <1>6, <1>7
<1>9. c \in cases
    BY <1>6
<1> HIDE DEF cases
<1>10. c.status \notin {"failure", "error", "skipped"}
    BY <1>1, <1>9 DEF StatusOf, Skipped
<1>11. CaseOf(role, cell, t).status \in {"passed", "failure", "skipped"}
    BY DEF CaseOf
<1> QED
    BY <1>7, <1>8, <1>10, <1>11

\* The only report of a cell's bundle with a commit and an attempt is the recorded.
LEMMA CellReport ==
    ASSUME NEW cell, NEW t, NEW f \in CellBundle(cell, t).files, f.category = "junit",
           f.content.commit # NoCommit, f.content.id.attempt # Absent
    PROVE  f.content = Recorded(cell, t)
<1> DEFINE reports == Reports(cell, t) \cup {Recorded(cell, t)}
           hint == [scenario |-> cell.scenario, target |-> cell.target, attempt |-> Absent,
                    stem |-> cell.scenario]
           given == {[report |-> r, hint |-> hint] : r \in reports}
<1>1. CellInputs(cell, t) = Listed(given)
    BY DEF CellInputs
<1>2. \A i \in DOMAIN CellInputs(cell, t) : CellInputs(cell, t)[i].report \in reports
  <2>1. \A x \in given : x.report \in reports
    OBVIOUS
  <2> HIDE DEF given
  <2> QED
    BY <1>1, <2>1, ListedMembers
<1>3. \A g \in CellFiles(cell, t) : g.category = "junit" => g.content \in reports
  <2>1. \A g \in Dependencies(cell, t) : g.category = "dependencies"
    BY WrittenIs DEF Dependencies
  <2>2. \A g \in Diagnostics(cell, t) : g.category \in {"logs", "configuration", "diagnostics"}
    BY DEF Diagnostics, Written
  <2>3. \A g \in CellFiles(cell, t) :
           \/ \E r \in reports : g = Written("junit", r)
           \/ \E a : g = Written("allure-results", a)
           \/ g \in Diagnostics(cell, t) \/ g \in Dependencies(cell, t)
    BY DEF CellFiles
  <2> HIDE DEF reports
  <2> QED
    BY <2>1, <2>2, <2>3, WrittenIs
<1>4. f.content \in reports
  <2> HIDE DEF reports, given
  <2>1. f \in Assembled(CellInputs(cell, t), CellFiles(cell, t), CellContext(cell, t)).files
    BY CellBundleIs
  <2>2. Len(CellInputs(cell, t)) \in Nat /\ DOMAIN CellInputs(cell, t) = 1 .. Len(CellInputs(cell, t))
    BY <1>1, ListedMembers
  <2>3. \/ \E g \in CellFiles(cell, t) : g.category = "junit" /\ f.content = g.content
        \/ \E i \in DOMAIN CellInputs(cell, t) : f.content = CellInputs(cell, t)[i].report
    BY <2>1, <2>2, CellFilesPlain, AssembledReports
  <2> QED
    BY <1>2, <1>3, <2>3
<1> QED
    BY <1>4, ReportsAre

-----------------------------------------------------------------------------
(* What the walk of the validator finds is executed *)

\* The largest of some numbers up to a bound.
LEMMA MaxUpTo ==
    ASSUME NEW n \in Nat, NEW S, S \subseteq 1 .. n, S # {}
    PROVE  Max(S) \in S /\ \A k \in S : k <= Max(S)
<1> DEFINE T == {n - k : k \in S}
<1>1. \A k \in S : k \in Nat /\ n - k \in Nat
    OBVIOUS
<1>2. T \subseteq Nat /\ T # {}
    BY <1>1
<1>3. PICK m \in T : \A k \in T : m <= k
    BY <1>2, Least
<1>4. PICK j \in S : m = n - j
    OBVIOUS
<1>5. \A k \in S : n - j <= n - k
    BY <1>3, <1>4
<1>6. \A k \in S : j >= k
    BY <1>1, <1>5
<1> QED
    BY <1>6 DEF Max

Declaring(c, n, v) == {i \in 1 .. n : v \in DOMAIN c[i].vars}

\* The variables in scope at a statement, each from the last import that sets it.
LEMMA ScopeDef ==
    ASSUME NEW c, NEW n
    PROVE  Scope(c, n) = [v \in UNION {DOMAIN c[i].vars : i \in 1 .. n} |->
                            c[Max(Declaring(c, n, v))].vars[v]]
    BY DEF Scope, Declaring

\* Before the first import no variable is set.
LEMMA ScopeZero ==
    ASSUME NEW c PROVE Scope(c, 0) = <<>>
<1>1. UNION {DOMAIN c[i].vars : i \in 1 .. 0} = {}
    OBVIOUS
<1>2. DOMAIN Scope(c, 0) = {} /\ Scope(c, 0) = [v \in DOMAIN Scope(c, 0) |-> Scope(c, 0)[v]]
    BY <1>1, ScopeDef
<1> QED
    BY <1>2

\* Another statement on the way.
LEMMA ScopeStep ==
    ASSUME NEW c, NEW n \in Nat
    PROVE  Scope(c, n + 1) = Overlaid(c[n + 1].vars, Scope(c, n))
<1> DEFINE upto(k) == UNION {DOMAIN c[i].vars : i \in 1 .. k}
           own == c[n + 1].vars
<1>1. upto(n + 1) = (DOMAIN own) \cup upto(n)
  <2>1. 1 .. (n + 1) = (1 .. n) \cup {n + 1}
    OBVIOUS
  <2> QED
    BY <2>1
<1>2. DOMAIN Scope(c, n) = upto(n)
    BY ScopeDef
<1>3. ASSUME NEW v \in upto(n + 1)
      PROVE  c[Max(Declaring(c, n + 1, v))].vars[v] = IF v \in DOMAIN own THEN own[v] ELSE Scope(c, n)[v]
  <2>1. CASE v \in DOMAIN own
    <3>1. n + 1 \in Declaring(c, n + 1, v) /\ Declaring(c, n + 1, v) \subseteq 1 .. (n + 1)
        BY <2>1 DEF Declaring
    <3>2. n + 1 \in Nat
        OBVIOUS
    <3>3. Max(Declaring(c, n + 1, v)) = n + 1
        BY <3>1, <3>2, MaxUpTo
    <3> QED
        BY <2>1, <3>3
  <2>2. CASE v \notin DOMAIN own
    <3>1. Declaring(c, n + 1, v) = Declaring(c, n, v)
        BY <2>2 DEF Declaring
    <3>2. v \in upto(n)
        BY <1>1, <1>3, <2>2
    <3>3. Scope(c, n)[v] = c[Max(Declaring(c, n, v))].vars[v]
        BY <3>2, ScopeDef
    <3> QED
        BY <2>2, <3>1, <3>3
  <2> QED
    BY <2>1, <2>2
<1>4. Scope(c, n + 1) = [v \in upto(n + 1) |-> c[Max(Declaring(c, n + 1, v))].vars[v]]
    BY ScopeDef
<1>5. Scope(c, n + 1) = [v \in upto(n + 1) |-> IF v \in DOMAIN own THEN own[v] ELSE Scope(c, n)[v]]
  <2> HIDE DEF upto, own
  <2> QED
    BY <1>3, <1>4
<1>6. Overlaid(own, Scope(c, n)) =
        [v \in (DOMAIN own) \cup DOMAIN Scope(c, n) |-> IF v \in DOMAIN own THEN own[v] ELSE Scope(c, n)[v]]
    BY DEF Overlaid
<1> HIDE DEF upto, own
<1>7. Scope(c, n + 1) = Overlaid(own, Scope(c, n))
    BY <1>1, <1>2, <1>5, <1>6
<1> QED
    BY <1>7 DEF own

\* The scope depends on the statements on the way only.
LEMMA ScopeSame ==
    ASSUME NEW c, NEW d, NEW n \in Nat, \A i \in 1 .. n : c[i] = d[i]
    PROVE  Scope(c, n) = Scope(d, n)
<1> DEFINE dom == UNION {DOMAIN c[i].vars : i \in 1 .. n}
<1>1. {DOMAIN c[i].vars : i \in 1 .. n} = {DOMAIN d[i].vars : i \in 1 .. n}
    OBVIOUS
<1>2. ASSUME NEW v \in dom
      PROVE  c[Max(Declaring(c, n, v))].vars[v] = d[Max(Declaring(d, n, v))].vars[v]
  <2>1. Declaring(c, n, v) = Declaring(d, n, v)
    BY DEF Declaring
  <2>2. Declaring(c, n, v) \subseteq 1 .. n /\ Declaring(c, n, v) # {}
    BY DEF Declaring
  <2>3. Max(Declaring(c, n, v)) \in 1 .. n
    BY <2>2, MaxUpTo
  <2> QED
    BY <2>1, <2>3
<1>3. /\ Scope(c, n) = [v \in dom |-> c[Max(Declaring(c, n, v))].vars[v]]
      /\ Scope(d, n) = [v \in dom |-> d[Max(Declaring(d, n, v))].vars[v]]
    BY <1>1, ScopeDef
<1> HIDE DEF dom
<1> QED
    BY <1>2, <1>3

\* A condition on the way is known to be false.
OffUpTo(c, n) == \E i \in 1 .. n : WhenFalse(c[i].when, Scope(c, i))

Statements(files) == UNION {files[f] : f \in DOMAIN files}

\* The statements of a chain of imports.
IsChain(c, n, files, entry) ==
    /\ c \in [1 .. n -> Statements(files)]
    /\ n > 0 => c[1] \in files[entry]
    /\ \A i \in 2 .. n : c[i - 1].import \in DOMAIN files /\ c[i] \in files[c[i - 1].import]

\* A call of the walk is the end of a chain.
EndsIn(c, n, files, entry, x) ==
    /\ IsChain(c, n, files, entry)
    /\ x.file = IF n = 0 THEN entry ELSE c[n].import
    /\ x.env = Scope(c, n)
    /\ x.off = OffUpTo(c, n)

\* A chain and a statement of the file it ends in.
LEMMA Extend ==
    ASSUME NEW files, NEW entry, NEW n \in Nat, NEW c, NEW x, EndsIn(c, n, files, entry, x),
           x.file \in DOMAIN files, NEW s \in files[x.file]
    PROVE  \E d : /\ IsChain(d, n + 1, files, entry) /\ d[n + 1] = s
                  /\ Scope(d, n) = x.env /\ OffUpTo(d, n) = x.off
<1> DEFINE d == [i \in 1 .. (n + 1) |-> IF i = n + 1 THEN s ELSE c[i]]
<1>1. d[n + 1] = s /\ \A i \in 1 .. n : d[i] = c[i]
    OBVIOUS
<1>2. IsChain(d, n + 1, files, entry)
  <2>1. s \in Statements(files)
    BY DEF Statements
  <2>2. d \in [1 .. (n + 1) -> Statements(files)]
    BY <2>1 DEF EndsIn, IsChain
  <2>3. d[1] \in files[entry]
    <3>1. CASE n = 0
        BY <3>1, <1>1 DEF EndsIn
    <3>2. CASE n # 0
        BY <3>2, <1>1 DEF EndsIn, IsChain
    <3> QED
        BY <3>1, <3>2
  <2>4. ASSUME NEW i \in 2 .. (n + 1)
        PROVE  d[i - 1].import \in DOMAIN files /\ d[i] \in files[d[i - 1].import]
    <3>1. CASE i = n + 1
        <4>1. i - 1 = n /\ n \in 1 .. n /\ n # 0
            BY <3>1
        <4>2. d[i - 1] = c[n] /\ d[i] = s /\ x.file = c[n].import
            BY <1>1, <3>1, <4>1 DEF EndsIn
        <4> QED
            BY <4>2
    <3>2. CASE i # n + 1
        <4>1. i \in 2 .. n /\ i - 1 \in 1 .. n /\ i \in 1 .. n
            BY <3>2
        <4>2. d[i - 1] = c[i - 1] /\ d[i] = c[i]
            BY <1>1, <4>1
        <4> HIDE DEF d
        <4> QED
            BY <4>1, <4>2 DEF EndsIn, IsChain
    <3> QED
        BY <3>1, <3>2
  <2> HIDE DEF d
  <2> QED
    BY <2>2, <2>3, <2>4 DEF IsChain
<1> HIDE DEF d
<1>3. Scope(d, n) = x.env
    BY <1>1, ScopeSame DEF EndsIn
<1>4. OffUpTo(d, n) = OffUpTo(c, n)
  <2>1. \A i \in 1 .. n : Scope(d, i) = Scope(c, i)
    <3> TAKE i \in 1 .. n
    <3>1. i \in Nat /\ \A k \in 1 .. i : d[k] = c[k]
        BY <1>1
    <3> QED
        BY <3>1, ScopeSame
  <2> QED
    BY <1>1, <2>1 DEF OffUpTo
<1> QED
    BY <1>1, <1>2, <1>3, <1>4 DEF EndsIn

StartCalls(entry) == {[file |-> entry, env |-> <<>>, off |-> FALSE, stack |-> {}]}

NextCalls(files, calls) ==
    UNION {{[file |-> s.import, env |-> Entered(s, x.env, x.off).env,
             off |-> Entered(s, x.env, x.off).off,
             stack |-> x.stack \cup {x.file}] : s \in files[x.file]} :
             x \in {y \in calls : IsRead(files, y)}}

\* The equation of the walk.
LEMMA CallsIs ==
    ASSUME NEW files, IsFiniteSet(DOMAIN files), NEW entry,
           NEW k \in 0 .. (Cardinality(DOMAIN files) - 1)
    PROVE  Calls(files, entry)[k] =
             IF k = 0 THEN StartCalls(entry) ELSE NextCalls(files, Calls(files, entry)[k - 1])
<1> DEFINE N == Cardinality(DOMAIN files) - 1
           base == StartCalls(entry)
           Step(calls) == NextCalls(files, calls)
           IsWalk(f, n) == f = [i \in 0 .. n |-> IF i = 0 THEN base ELSE Step(f[i - 1])]
           T == {n \in Nat : \E f : IsWalk(f, n)}
<1>1. N \in Nat /\ k \in 0 .. N
    BY FS_CardinalityType
<1> HIDE DEF N, Step, base
<1>2. 0 \in T
  <2>1. IsWalk([i \in 0 .. 0 |-> base], 0)
    OBVIOUS
  <2> QED
    BY <2>1
<1>3. ASSUME NEW n \in Nat, n \in T PROVE n + 1 \in T
  <2>1. PICK f : IsWalk(f, n)
    BY <1>3
  <2> DEFINE g == [i \in 0 .. (n + 1) |-> IF i = n + 1 THEN Step(f[n]) ELSE f[i]]
  <2>2. \A i \in 0 .. n : f[i] = IF i = 0 THEN base ELSE Step(f[i - 1])
    BY <2>1
  <2>3. \A i \in 0 .. (n + 1) : g[i] = IF i = 0 THEN base ELSE Step(g[i - 1])
    <3> TAKE i \in 0 .. (n + 1)
    <3>1. CASE i = n + 1
        <4>1. i # 0 /\ i - 1 = n /\ n \in 0 .. (n + 1) /\ n # n + 1
            BY <3>1
        <4>2. g[i] = Step(f[n]) /\ g[i - 1] = f[n]
            BY <3>1, <4>1
        <4> QED
            BY <4>1, <4>2
    <3>2. CASE i # n + 1
        <4>1. i \in 0 .. n /\ g[i] = f[i]
            BY <3>2
        <4>2. i # 0 => i - 1 \in 0 .. (n + 1) /\ i - 1 # n + 1 /\ g[i - 1] = f[i - 1]
            BY <4>1
        <4> HIDE DEF g
        <4> QED
            BY <2>2, <4>1, <4>2
    <3> QED
        BY <3>1, <3>2
  <2>4. g = [i \in 0 .. (n + 1) |-> g[i]]
    OBVIOUS
  <2> HIDE DEF g
  <2>5. IsWalk(g, n + 1)
    BY <2>3, <2>4, Zenon
  <2> QED
    BY <2>5
<1> HIDE DEF T, IsWalk
<1>4. \E f : IsWalk(f, N)
  <2>1. Nat \subseteq T
    BY <1>2, <1>3, Induct
  <2> QED
    BY <1>1, <2>1 DEF T
<1>5. Calls(files, entry) =
        [i \in 0 .. N |-> IF i = 0 THEN base ELSE Step(Calls(files, entry)[i - 1])]
    BY <1>4, Zenon DEF IsWalk, Calls, N, Step, base, StartCalls, NextCalls
<1> DEFINE at == Calls(files, entry)
<1>6. at = [i \in 0 .. N |-> IF i = 0 THEN base ELSE Step(at[i - 1])]
    BY <1>5
<1> HIDE DEF at
<1>7. at[k] = IF k = 0 THEN base ELSE Step(at[k - 1])
    BY <1>1, <1>6
<1> QED
    BY <1>7 DEF at, base, Step

\* Entering one more statement of a chain.
LEMMA EnteredOn ==
    ASSUME NEW d, NEW n \in Nat
    PROVE  /\ Entered(d[n + 1], Scope(d, n), OffUpTo(d, n)).env = Scope(d, n + 1)
           /\ Entered(d[n + 1], Scope(d, n), OffUpTo(d, n)).off = OffUpTo(d, n + 1)
<1>1. Scope(d, n + 1) = Overlaid(d[n + 1].vars, Scope(d, n))
    BY ScopeStep
<1>2. OffUpTo(d, n + 1) <=> OffUpTo(d, n) \/ WhenFalse(d[n + 1].when, Scope(d, n + 1))
  <2>1. 1 .. (n + 1) = (1 .. n) \cup {n + 1}
    OBVIOUS
  <2> QED
    BY <2>1 DEF OffUpTo
<1>3. OffUpTo(d, n + 1) \in BOOLEAN /\ WhenFalse(d[n + 1].when, Scope(d, n + 1)) \in BOOLEAN
      /\ OffUpTo(d, n) \in BOOLEAN
    BY DEF OffUpTo, WhenFalse
<1>4. Entered(d[n + 1], Scope(d, n), OffUpTo(d, n)) =
        [block |-> d[n + 1], env |-> Scope(d, n + 1),
         off |-> OffUpTo(d, n) \/ WhenFalse(d[n + 1].when, Scope(d, n + 1))]
    BY <1>1 DEF Entered
<1>5. (OffUpTo(d, n) \/ WhenFalse(d[n + 1].when, Scope(d, n + 1))) = OffUpTo(d, n + 1)
    BY <1>2, <1>3, Zenon
<1> QED
    BY <1>4, <1>5

\* Every call of the walk is the end of a chain of as many statements.
LEMMA CallsAreChains ==
    ASSUME NEW files, IsFiniteSet(DOMAIN files), NEW entry,
           NEW k \in 0 .. (Cardinality(DOMAIN files) - 1), NEW x \in Calls(files, entry)[k]
    PROVE  \E c : EndsIn(c, k, files, entry, x)
<1> DEFINE N == Cardinality(DOMAIN files) - 1
           A == {n \in Nat : n <= N =>
                   \A y \in Calls(files, entry)[n] : \E c : EndsIn(c, n, files, entry, y)}
<1>1. 0 \in A
  <2> SUFFICES ASSUME 0 <= N, NEW y \in Calls(files, entry)[0]
               PROVE  \E c : EndsIn(c, 0, files, entry, y)
    OBVIOUS
  <2>1. 0 \in 0 .. N
    BY FS_CardinalityType
  <2>2. y = [file |-> entry, env |-> <<>>, off |-> FALSE, stack |-> {}]
    BY <2>1, CallsIs DEF StartCalls
  <2> DEFINE c == [i \in 1 .. 0 |-> i]
  <2>3. IsChain(c, 0, files, entry)
    BY DEF IsChain
  <2> HIDE DEF c
  <2>4. Scope(c, 0) = <<>> /\ OffUpTo(c, 0) = FALSE
    BY ScopeZero DEF OffUpTo
  <2>5. y.file = entry /\ y.env = <<>> /\ y.off = FALSE
    BY <2>2
  <2>6. EndsIn(c, 0, files, entry, y)
    BY <2>3, <2>4, <2>5 DEF EndsIn
  <2> QED
    BY <2>6
<1>2. ASSUME NEW n \in Nat, n \in A PROVE n + 1 \in A
  <2> SUFFICES ASSUME n + 1 <= N, NEW y \in Calls(files, entry)[n + 1]
               PROVE  \E d : EndsIn(d, n + 1, files, entry, y)
    OBVIOUS
  <2>1. n + 1 \in 0 .. N /\ n + 1 # 0 /\ (n + 1) - 1 = n /\ n <= N
    BY FS_CardinalityType
  <2>2. y \in NextCalls(files, Calls(files, entry)[n])
    BY <2>1, CallsIs
  <2>3. PICK z \in Calls(files, entry)[n] :
           /\ IsRead(files, z)
           /\ \E s \in files[z.file] :
                y = [file |-> s.import, env |-> Entered(s, z.env, z.off).env,
                     off |-> Entered(s, z.env, z.off).off, stack |-> z.stack \cup {z.file}]
    BY <2>2 DEF NextCalls
  <2>4. PICK s \in files[z.file] :
                y = [file |-> s.import, env |-> Entered(s, z.env, z.off).env,
                     off |-> Entered(s, z.env, z.off).off, stack |-> z.stack \cup {z.file}]
    BY <2>3
  <2>5. PICK c : EndsIn(c, n, files, entry, z)
    BY <1>2, <2>1
  <2>6. PICK d : /\ IsChain(d, n + 1, files, entry) /\ d[n + 1] = s
                 /\ Scope(d, n) = z.env /\ OffUpTo(d, n) = z.off
    BY <2>3, <2>5, Extend DEF IsRead
  <2>7. /\ Entered(s, z.env, z.off).env = Scope(d, n + 1)
        /\ Entered(s, z.env, z.off).off = OffUpTo(d, n + 1)
    BY <2>6, EnteredOn
  <2>8. y.file = s.import /\ y.env = Scope(d, n + 1) /\ y.off = OffUpTo(d, n + 1)
    BY <2>4, <2>7
  <2>9. EndsIn(d, n + 1, files, entry, y)
    BY <2>6, <2>8 DEF EndsIn
  <2> QED
    BY <2>9
<1> HIDE DEF A
<1>3. Nat \subseteq A
    BY <1>1, <1>2, Induct
<1>4. k \in Nat /\ k <= N
    BY FS_CardinalityType
<1> QED
    BY <1>3, <1>4 DEF A

\* The validator finds no role that no chain starts.
LEMMA ReachableExecuted ==
    ASSUME NEW structure, IsFiniteSet(DOMAIN structure.files)
    PROVE  ReachableRoles(structure.files, PlaybookOf(structure, "converge")) \subseteq Executed(structure)
<1> DEFINE files == structure.files
           entry == PlaybookOf(structure, "converge")
           off(c) == \E i \in 1..(Len(c) - 1) : WhenFalse(c[i].when, Scope(c, i))
           chains == {c \in UNION {[1..n -> Statements(files)] : n \in 1..Cardinality(DOMAIN files)} :
                        /\ c[1] \in files[entry]
                        /\ \A i \in 2..Len(c) : /\ c[i - 1].import \in DOMAIN files
                                                /\ c[i] \in files[c[i - 1].import]}
<1>1. Executed(structure) = UNION {ActiveRoles(c[Len(c)], Scope(c, Len(c) - 1), off(c)) : c \in chains}
    BY DEF Executed, Statements
<1> SUFFICES ASSUME NEW k \in 0 .. (Cardinality(DOMAIN files) - 1),
                    NEW x \in Calls(files, entry)[k], IsRead(files, x),
                    NEW s \in files[x.file], NEW r \in ActiveRoles(s, x.env, x.off)
             PROVE  r \in Executed(structure)
    BY DEF ReachableRoles
<1>2. PICK c : EndsIn(c, k, files, entry, x)
    BY CallsAreChains
<1>3. k \in Nat /\ k + 1 \in 1 .. Cardinality(DOMAIN files)
    BY FS_CardinalityType
<1>4. PICK d : /\ IsChain(d, k + 1, files, entry) /\ d[k + 1] = s
               /\ Scope(d, k) = x.env /\ OffUpTo(d, k) = x.off
  <2>1. x.file \in DOMAIN files /\ k \in Nat
    BY <1>3 DEF IsRead
  <2> HIDE DEF files, entry, chains, off
  <2> QED
    BY <1>2, <2>1, Extend
<1>5. Len(d) = k + 1 /\ Len(d) - 1 = k
    BY <1>3, <1>4 DEF IsChain
<1>6. d \in chains
    BY <1>3, <1>4, <1>5 DEF IsChain
<1>7. off(d) = OffUpTo(d, k)
    BY <1>5, Zenon DEF OffUpTo
<1>8. r \in ActiveRoles(d[Len(d)], Scope(d, Len(d) - 1), off(d))
    BY <1>4, <1>5, <1>7
<1> HIDE DEF chains, off
<1> QED
    BY <1>1, <1>6, <1>8

-----------------------------------------------------------------------------
(* What the state keeps of the cells that ran *)

IdOf(a) == [scenario |-> a.cell.scenario, profile |-> a.cell.profile, target |-> a.cell.target,
            attempt |-> AttemptName(a.attempt)]

StructureOf(c) == push.registry.scenarios[c.scenario].structure

\* An outcome of a role in the cell of an artifact, passed if the cell is green in
\* the attempt under way.
Outcome(a, role, x) ==
    /\ x.cell = CellKey(a.cell) /\ x.role = role /\ x.attempt = a.attempt
    /\ (a.attempt = attempt /\ cells[a.cell] = "success" /\ role \in Executed(StructureOf(a.cell)))
         => x.passed

\* A report that names a commit and an attempt is that of its cell and attempt, and
\* a role it says passed has an outcome.
Traced(a) ==
    \A f \in a.bundle.files :
      f.category = "junit" /\ f.content.commit # NoCommit /\ f.content.id.attempt # Absent =>
        /\ f.content.id = IdOf(a)
        /\ \A role \in DOMAIN push.registry.roles :
             /\ ~RoleUnclear(Parsed(f.content), role, f.content.suiteRoles)
             /\ ForRole(Parsed(f.content), role).status = "passed"
             => \E x \in ran : Outcome(a, role, x)

\* What was uploaded, whatever the attempt.
ArtifactHolds ==
    \A a \in artifacts :
      /\ \A f \in a.bundle.files : PlainFile(f)
      /\ a.attempt = attempt => cells[a.cell] # "pending"
      /\ Traced(a)

\* The inventory of the containers of an outcome is in the bundle of its cell.
Inventoried(c, x) ==
    \E a \in artifacts :
      /\ a.cell = c /\ a.attempt = x.attempt
      /\ [kind |-> "containers",
          doc |-> [wellFormed |-> TRUE, available |-> TRUE, digests |-> x.containers,
                   scenario |-> c.scenario, target |-> c.target]] \in Inventories(a.bundle.files)

RanHolds ==
    \A x \in ran : x.attempt = attempt =>
      /\ x.containers # {}
      /\ \E c \in DOMAIN cells :
           /\ x.cell = CellKey(c)
           /\ cells[c] # "pending"
           /\ cells[c] = "success" => Inventoried(c, x)

\* The evidence of an attempt has every inventory and no other dated report.
EvidenceOf(k) ==
    /\ evidence.attempt = AttemptName(k)
    /\ k = attempt => jobs["runtime-evidence"] # "pending"
    /\ \A a \in artifacts : a.attempt = k =>
         Inventories(a.bundle.files) \subseteq Inventories(evidence.files)
    /\ \A f \in evidence.files : f.category = "junit" /\ f.content.commit # NoCommit =>
         \E a \in artifacts : /\ a.attempt = k
                              /\ \E g \in a.bundle.files : g.category = "junit" /\ g.content = f.content

EvidenceHolds ==
    evidence # Nothing =>
      /\ evidence = [x \in DOMAIN evidence |-> evidence[x]]
      /\ {"files", "sums"} \subseteq DOMAIN evidence
      /\ evidence.sums = evidence.files
      /\ evidence.registry = push.registry /\ evidence.mode = "release"
      /\ \A f \in evidence.files : PlainFile(f)
      /\ \E k \in 1 .. attempt : EvidenceOf(k)

\* The three properties of one admitted bundle.
Clean(a) ==
    \A f \in a.bundle.files : f.payload.secrets = {} /\ (\A m \in f.members : m.secrets = {})

RunsInventoried(a) ==
    \A x \in ran :
      x.attempt = a.attempt =>
        \E d \in DepsOf(a.bundle.files).applications :
          d.cell = x.cell /\ x.containers \subseteq {y.digest : y \in d.applications}

SupportTested(a) ==
    \A r \in DOMAIN push.registry.roles :
      LET role == push.registry.roles[r]
      IN  role.maturity = "production" =>
            \A t \in role.supported, p \in Profiles :
              \E x \in ran : /\ x.role = r /\ x.attempt = a.attempt /\ x.passed
                             /\ x.cell.target = t /\ x.cell.profile = p

AdmittedHolds ==
    \A a \in admitted :
      /\ a.attempt = attempt => jobs["admission"] # "pending"
      /\ Clean(a) /\ RunsInventoried(a) /\ SupportTested(a)

IInv ==
    /\ Types /\ NeedsEnded /\ Green /\ CoverageHolds
    /\ ArtifactHolds /\ RanHolds /\ EvidenceHolds /\ AdmittedHolds

-----------------------------------------------------------------------------
(* The artifacts of the cells *)

LEMMA TracedKept ==
    ASSUME NEW a, Traced(a), push' = push, ran \subseteq ran',
           a.attempt = attempt' => attempt' = attempt /\ cells'[a.cell] = cells[a.cell]
    PROVE  Traced(a)'
<1>1. \A role, x : Outcome(a, role, x) => Outcome(a, role, x)'
    BY DEF Outcome, StructureOf
<1> QED
    BY <1>1 DEF Traced

\* What a cell uploads is traced to what it ran.
LEMMA TracedNew ==
    ASSUME Types, NEW c \in DOMAIN cells, NEW t, RunCell(c, t), NEW a,
           a = [cell |-> c, attempt |-> attempt, bundle |-> CellBundle(c, t)]
    PROVE  Traced(a)'
<1>1. a.cell = c /\ a.attempt = attempt /\ a.bundle = CellBundle(c, t)
    OBVIOUS
<1>2. /\ push' = push /\ attempt' = attempt /\ Outcomes(c, t) \subseteq ran'
      /\ cells'[c] = IF CellSucceeds(c, t, CellBundle(c, t)) THEN "success" ELSE "failure"
    BY CellAdds DEF Types
<1>3. \A f \in a.bundle.files :
        f.category = "junit" /\ f.content.commit # NoCommit /\ f.content.id.attempt # Absent
          => f.content = Recorded(c, t)
    BY <1>1, CellReport
<1>4. Recorded(c, t).id = IdOf(a)
  <2>1. Recorded(c, t).id = [scenario |-> c.scenario, profile |-> c.profile, target |-> c.target,
                             attempt |-> AttemptName(attempt)]
    BY RecordedIs, Zenon
  <2> QED
    BY <1>1, <2>1 DEF IdOf
<1>5. ASSUME NEW role, ~RoleUnclear(Parsed(Recorded(c, t)), role, Recorded(c, t).suiteRoles),
             ForRole(Parsed(Recorded(c, t)), role).status = "passed"
      PROVE  \E x \in ran' : Outcome(a, role, x)'
  <2> DEFINE passed == /\ role \in ReportedRoles(c, t)
                       /\ CaseOf(role, c, t).status = "passed"
                       /\ EffectiveExit(t) = 0
                       /\ role \in Executed(push.registry.scenarios[c.scenario].structure)
             x == [cell |-> CellKey(c), role |-> role, attempt |-> attempt,
                   containers |-> Containers(t), passed |-> passed]
  <2>1. role \in ReportedRoles(c, t) /\ CaseOf(role, c, t).status = "passed"
    BY <1>5, RecordedRole
  <2>2. role \in c.roles
    BY <2>1 DEF ReportedRoles
  <2>3. x \in Outcomes(c, t)
    BY <2>2 DEF Outcomes
  <2>4. /\ x.cell = CellKey(c) /\ x.role = role /\ x.attempt = attempt
        /\ x.passed = passed
    OBVIOUS
  <2>5. CellSucceeds(c, t, CellBundle(c, t)) => EffectiveExit(t) = 0
    BY DEF CellSucceeds, EffectiveExit
  <2>6. cells'[c] = "success" /\ role \in Executed(push.registry.scenarios[c.scenario].structure) => passed
    BY <1>2, <2>1, <2>5
  <2> HIDE DEF x
  <2>7. cells'[c] = "success" /\ role \in Executed(push.registry.scenarios[c.scenario].structure) => x.passed
    BY <2>4, <2>6
  <2>8. \E y \in ran' : y = x
    BY <1>2, <2>3
  <2>9. PICK y \in ran' : y = x
    BY <2>8
  <2> HIDE DEF passed
  <2>10. Outcome(a, role, y)'
    BY <1>1, <1>2, <2>4, <2>7, <2>9 DEF Outcome, StructureOf
  <2> QED
    BY <2>9, <2>10
<1>6. SUFFICES ASSUME NEW f \in a.bundle.files, f.category = "junit",
                      f.content.commit # NoCommit, f.content.id.attempt # Absent
               PROVE  /\ f.content.id = IdOf(a)
                      /\ \A role \in DOMAIN push'.registry.roles :
                           /\ ~RoleUnclear(Parsed(f.content), role, f.content.suiteRoles)
                           /\ ForRole(Parsed(f.content), role).status = "passed"
                           => \E x \in ran' : Outcome(a, role, x)'
    BY DEF Traced, IdOf
<1>7. f.content = Recorded(c, t)
    BY <1>3, <1>6
<1> QED
    BY <1>4, <1>5, <1>7

\* Every step keeps what the bundles say of the tests: only a cell that ends adds one.
LEMMA ArtifactStep ==
    ASSUME Types, ArtifactHolds, [Next]_vars PROVE ArtifactHolds'
<1>p. push' = push
    BY TypesStep
<1>1. CASE artifacts' = artifacts /\ ran' = ran /\ attempt' = attempt /\ cells' = cells
    BY <1>p, <1>1, TracedKept DEF ArtifactHolds
<1>2. CASE \E c \in DOMAIN cells, t \in CellTroubles \cup {"none"} : RunCell(c, t)
  <2>1. PICK c \in DOMAIN cells, t \in CellTroubles \cup {"none"} : RunCell(c, t)
    BY <1>2
  <2>2. /\ attempt' = attempt /\ ran \subseteq ran' /\ cells[c] = "pending"
        /\ cells'[c] # "pending"
        /\ \A b \in DOMAIN cells : b # c => cells'[b] = cells[b]
    BY <2>1, CellAdds DEF Types
  <2> SUFFICES ASSUME NEW a \in artifacts'
               PROVE  /\ \A f \in a.bundle.files : PlainFile(f)
                      /\ a.attempt = attempt' => cells'[a.cell] # "pending"
                      /\ Traced(a)'
    BY DEF ArtifactHolds
  <2>3. CASE a \in artifacts
    <3>1. a.cell \in DOMAIN cells /\ (a.attempt = attempt => a.cell # c)
        BY <2>2, <2>3 DEF Types, ArtifactHolds
    <3>2. a.attempt = attempt' => attempt' = attempt /\ cells'[a.cell] = cells[a.cell]
        BY <2>2, <3>1
    <3>3. /\ \A f \in a.bundle.files : PlainFile(f)
          /\ a.attempt = attempt => cells[a.cell] # "pending"
          /\ Traced(a)
        BY <2>3 DEF ArtifactHolds
    <3> QED
        BY <1>p, <2>2, <3>2, <3>3, TracedKept
  <2>4. CASE a = [cell |-> c, attempt |-> attempt, bundle |-> CellBundle(c, t)]
    <3>1. Traced(a)'
        BY <2>1, <2>4, TracedNew
    <3>2. a.cell = c /\ a.bundle = CellBundle(c, t)
        BY <2>4
    <3>3. \A f \in a.bundle.files : PlainFile(f)
        BY <3>2, CellBundlePlain
    <3> QED
        BY <2>2, <3>1, <3>2, <3>3
  <2> QED
    BY <2>1, <2>3, <2>4, CellAdds
<1>3. CASE \E mode \in {"all", "failed"} : Rerun(mode)
  <2>1. artifacts' = artifacts /\ ran' = ran /\ attempt' = attempt + 1
    BY <1>3 DEF Rerun
  <2>2. \A a \in artifacts : a.attempt # attempt'
    BY <2>1, BoundAssumption DEF Types
  <2> QED
    BY <1>p, <2>1, <2>2, TracedKept DEF ArtifactHolds
<1>4. CASE UNCHANGED vars
    BY <1>1, <1>4 DEF vars
<1>5. CASE \E n \in Jobs, r \in Results4 \ {"pending"} : JobEnds(n, r)
    BY <1>1, <1>5 DEF JobEnds
<1> QED
    BY <1>2, <1>3, <1>4, <1>5, StepForms

\* Every step keeps what the bundles say of the containers that ran.
LEMMA RanStep ==
    ASSUME Types, RanHolds, [Next]_vars PROVE RanHolds'
<1>p. push' = push
    BY TypesStep
<1>1. CASE artifacts' = artifacts /\ ran' = ran /\ attempt' = attempt /\ cells' = cells
    BY <1>1 DEF RanHolds, Inventoried
<1>2. CASE \E c \in DOMAIN cells, t \in CellTroubles \cup {"none"} : RunCell(c, t)
  <2>1. PICK c \in DOMAIN cells, t \in CellTroubles \cup {"none"} : RunCell(c, t)
    BY <1>2
  <2>2. /\ attempt' = attempt /\ artifacts \subseteq artifacts' /\ cells[c] = "pending"
        /\ cells'[c] # "pending"
        /\ cells'[c] = "success" => CellSucceeds(c, t, CellBundle(c, t))
        /\ DOMAIN cells' = DOMAIN cells
        /\ \A b \in DOMAIN cells : b # c => cells'[b] = cells[b]
    BY <2>1, CellAdds DEF Types
  <2> SUFFICES ASSUME NEW x \in ran', x.attempt = attempt
               PROVE  /\ x.containers # {}
                      /\ \E b \in DOMAIN cells :
                           /\ x.cell = CellKey(b) /\ cells'[b] # "pending"
                           /\ cells'[b] = "success" => Inventoried(b, x)'
    BY <2>2 DEF RanHolds
  <2>3. CASE x \in ran
    <3>1. x.containers # {}
        BY <2>3 DEF RanHolds
    <3>2. PICK b \in DOMAIN cells : /\ x.cell = CellKey(b) /\ cells[b] # "pending"
                                    /\ cells[b] = "success" => Inventoried(b, x)
        BY <2>3 DEF RanHolds
    <3>3. cells'[b] = cells[b]
        BY <2>2, <3>2
    <3>4. Inventoried(b, x) => Inventoried(b, x)'
        BY <2>2 DEF Inventoried
    <3> QED
        BY <3>1, <3>2, <3>3, <3>4
  <2>4. CASE x \in Outcomes(c, t)
    <3>1. x.cell = CellKey(c) /\ x.containers = Containers(t)
        BY <2>4 DEF Outcomes
    <3>2. Containers(t) # {}
        BY DEF Containers
    <3>3. ASSUME cells'[c] = "success" PROVE Inventoried(c, x)'
      <4>1. [cell |-> c, attempt |-> attempt, bundle |-> CellBundle(c, t)] \in artifacts'
        BY <2>1, <2>2, <3>3, CellAdds
      <4>2. PICK a \in artifacts' : a = [cell |-> c, attempt |-> attempt, bundle |-> CellBundle(c, t)]
        BY <4>1
      <4>3. a.cell = c /\ a.attempt = attempt /\ a.bundle = CellBundle(c, t)
        BY <4>2
      <4>4. ContainersDoc(c, t) \in Inventories(a.bundle.files)
        BY <4>3, CellInventory
      <4> QED
        BY <3>1, <4>3, <4>4 DEF Inventoried, ContainersDoc
    <3> QED
        BY <2>2, <3>1, <3>2, <3>3
  <2> QED
    BY <2>1, <2>3, <2>4, CellAdds
<1>3. CASE \E mode \in {"all", "failed"} : Rerun(mode)
  <2>1. ran' = ran /\ attempt' = attempt + 1
    BY <1>3 DEF Rerun
  <2>2. \A x \in ran : x.attempt # attempt'
    BY <2>1, BoundAssumption DEF Types
  <2> QED
    BY <2>1, <2>2 DEF RanHolds
<1>4. CASE UNCHANGED vars
    BY <1>1, <1>4 DEF vars
<1>5. CASE \E n \in Jobs, r \in Results4 \ {"pending"} : JobEnds(n, r)
    BY <1>1, <1>5 DEF JobEnds
<1> QED
    BY <1>2, <1>3, <1>4, <1>5, StepForms

-----------------------------------------------------------------------------
(* The evidence of a release *)

LEMMA ReleaseInputsAre ==
    ASSUME NEW files
    PROVE  /\ Len(ReleaseInputsOf(files)) \in Nat
           /\ DOMAIN ReleaseInputsOf(files) = 1 .. Len(ReleaseInputsOf(files))
           /\ \A i \in DOMAIN ReleaseInputsOf(files) :
                \E g \in files : g.category = "junit" /\ g.content = ReleaseInputsOf(files)[i].report
<1> DEFINE hint == [scenario |-> Absent, target |-> Absent, attempt |-> Absent, stem |-> Absent]
           given == {[report |-> r, hint |-> hint] : r \in ContentOf(files, "junit")}
<1>1. ReleaseInputsOf(files) = Listed(given)
    BY DEF ReleaseInputsOf
<1>2. \A x \in given : \E g \in files : g.category = "junit" /\ g.content = x.report
    BY DEF ContentOf
<1> HIDE DEF given
<1> QED
    BY <1>1, <1>2, ListedMembers

\* A dated report of the release is one of a downloaded bundle.
LEMMA ReleaseReports ==
    ASSUME \A a \in artifacts : \A f \in a.bundle.files : PlainFile(f), NEW t,
           NEW f \in ReleaseBundle(ReleaseFiles, t).files, f.category = "junit",
           f.content.commit # NoCommit
    PROVE  \E a \in Downloaded : \E g \in a.bundle.files : g.category = "junit" /\ g.content = f.content
<1>1. f \in Assembled(ReleaseInputsOf(ReleaseFiles), ReleaseFiles, ReleaseContext(ReleaseFiles, t)).files
    BY ReleaseBundleIs
<1>2. \A g \in ReleaseFiles : PlainFile(g)
    BY ReleaseFilesAre
<1>3. \/ \E g \in ReleaseFiles : g.category = "junit" /\ f.content = g.content
      \/ \E i \in DOMAIN ReleaseInputsOf(ReleaseFiles) :
           f.content = ReleaseInputsOf(ReleaseFiles)[i].report
    BY <1>1, <1>2, ReleaseInputsAre, AssembledReports
<1>4. \E g \in ReleaseFiles : g.category = "junit" /\ f.content = g.content
    BY <1>3, ReleaseInputsAre
<1> QED
    BY <1>4, ReleaseFilesAre

\* And every inventory of a downloaded bundle is one of the release.
LEMMA ReleaseInventories ==
    ASSUME \A a \in artifacts : \A f \in a.bundle.files : PlainFile(f), NEW t,
           NEW a \in Downloaded
    PROVE  Inventories(a.bundle.files) \subseteq Inventories(ReleaseBundle(ReleaseFiles, t).files)
<1> SUFFICES ASSUME NEW d \in Inventories(a.bundle.files)
             PROVE  d \in Inventories(ReleaseBundle(ReleaseFiles, t).files)
    OBVIOUS
<1>1. PICK g \in a.bundle.files : g.category = "dependencies" /\ d = g.content
    BY DEF Inventories
<1>2. PICK f \in ReleaseFiles : f.category = "dependencies" /\ f.content = d
    BY <1>1, ReleaseFilesAre
<1>3. \A h \in ReleaseFiles : PlainFile(h)
    BY ReleaseFilesAre
<1> QED
    BY <1>2, <1>3, KeptInventories, ReleaseBundleIs

\* Evidence that runtime-evidence has just collected keeps what the bundles say.
LEMMA NewEvidence ==
    ASSUME Types, ArtifactHolds, NEW t, evidence' = ReleaseBundle(ReleaseFiles, t),
           UNCHANGED <<push, attempt, artifacts>>, jobs'["runtime-evidence"] # "pending"
    PROVE  EvidenceHolds'
<1>1. \A a \in artifacts : \A f \in a.bundle.files : PlainFile(f)
    BY DEF ArtifactHolds
<1>2. /\ evidence'.sums = evidence'.files
      /\ evidence'.registry = push.registry /\ evidence'.attempt = AttemptName(attempt)
      /\ evidence'.mode = "release"
      /\ {"files", "sums"} \subseteq DOMAIN evidence'
      /\ evidence' = [x \in DOMAIN evidence' |-> evidence'[x]]
  <2> DEFINE ctx == ReleaseContext(ReleaseFiles, t)
             bundle == Assembled(ReleaseInputsOf(ReleaseFiles), ReleaseFiles, ctx)
  <2>1. evidence' = bundle
    BY ReleaseBundleIs
  <2>2. /\ bundle.sums = bundle.files
        /\ bundle.registry = ctx.registry /\ bundle.attempt = ctx.attempt /\ bundle.mode = ctx.mode
        /\ {"files", "sums"} \subseteq DOMAIN bundle
        /\ bundle = [x \in DOMAIN bundle |-> bundle[x]]
    BY AssembledIs
  <2>3. ctx.registry = push.registry /\ ctx.attempt = AttemptName(attempt) /\ ctx.mode = "release"
    BY DEF ReleaseContext
  <2> HIDE DEF bundle, ctx
  <2> QED
    BY <2>1, <2>2, <2>3
<1>3. \A f \in evidence'.files : PlainFile(f)
    BY <1>1, ReleaseBundlePlain
<1>4. PICK k \in 1 .. attempt : k = attempt
    BY BoundAssumption DEF Types
<1>5. \A a \in artifacts : a.attempt = k =>
         Inventories(a.bundle.files) \subseteq Inventories(evidence'.files)
    BY <1>1, <1>4, ReleaseInventories DEF Downloaded
<1>6. \A f \in evidence'.files : f.category = "junit" /\ f.content.commit # NoCommit =>
         \E a \in artifacts : /\ a.attempt = k
                              /\ \E g \in a.bundle.files : g.category = "junit" /\ g.content = f.content
  <2> TAKE f \in evidence'.files
  <2> HAVE f.category = "junit" /\ f.content.commit # NoCommit
  <2>1. PICK a \in Downloaded : \E g \in a.bundle.files : g.category = "junit" /\ g.content = f.content
    BY <1>1, ReleaseReports
  <2> QED
    BY <1>4, <2>1 DEF Downloaded
<1>7. EvidenceOf(k)'
    BY <1>2, <1>4, <1>5, <1>6 DEF EvidenceOf
<1> QED
    BY <1>2, <1>3, <1>4, <1>7 DEF EvidenceHolds

\* The evidence outlasts a step that does not replace it.
LEMMA OldEvidence ==
    ASSUME Types, EvidenceHolds, push' = push, evidence' = evidence, artifacts \subseteq artifacts',
           attempt \in Nat, attempt' \in Nat, attempt <= attempt',
           \A k \in 1 .. attempt : k = attempt' /\ jobs["runtime-evidence"] # "pending" => jobs'["runtime-evidence"] # "pending",
           \A a \in artifacts' : a \in artifacts
             \/ (a.attempt = attempt /\ (evidence = Nothing \/ jobs["runtime-evidence"] = "pending"))
    PROVE  EvidenceHolds'
<1> SUFFICES ASSUME evidence # Nothing PROVE EvidenceHolds'
    BY DEF EvidenceHolds
<1>1. PICK k \in 1 .. attempt : EvidenceOf(k)
    BY DEF EvidenceHolds
<1>2. k \in 1 .. attempt'
    BY <1>1
<1>3. k = attempt' => k = attempt
    BY <1>1
<1>4. k = attempt' => jobs'["runtime-evidence"] # "pending"
    BY <1>1, <1>3 DEF EvidenceOf
<1>5. \A a \in artifacts' : a.attempt = k => a \in artifacts
    BY <1>1 DEF EvidenceOf
<1>6. \A a \in artifacts' : a.attempt = k =>
         Inventories(a.bundle.files) \subseteq Inventories(evidence.files)
    BY <1>1, <1>5 DEF EvidenceOf
<1>7. \A f \in evidence.files : f.category = "junit" /\ f.content.commit # NoCommit =>
         \E a \in artifacts' : /\ a.attempt = k
                               /\ \E g \in a.bundle.files : g.category = "junit" /\ g.content = f.content
    BY <1>1 DEF EvidenceOf
<1>8. EvidenceOf(k)'
    BY <1>1, <1>4, <1>6, <1>7 DEF EvidenceOf
<1> QED
    BY <1>2, <1>8 DEF EvidenceHolds

\* Every step keeps the collected evidence true to the bundles it was collected from.
LEMMA EvidenceStep ==
    ASSUME Types, NeedsEnded, ArtifactHolds, EvidenceHolds, [Next]_vars PROVE EvidenceHolds'
<1>p. push' = push /\ attempt \in Nat
    BY TypesStep, BoundAssumption DEF Types
<1>1. CASE UNCHANGED vars
    BY <1>p, <1>1, OldEvidence DEF vars
<1>2. CASE \E n \in Jobs, r \in Results4 \ {"pending"} : JobEnds(n, r)
  <2>1. PICK n \in Jobs, r \in Results4 \ {"pending"} : JobEnds(n, r)
    BY <1>2
  <2>2. /\ UNCHANGED <<push, attempt, cells, artifacts, ran>>
        /\ jobs' = [jobs EXCEPT ![n] = r]
    BY <2>1 DEF JobEnds, Finish
  <2>3. \A m \in Jobs : jobs[m] # "pending" => jobs'[m] # "pending"
    BY <2>2 DEF Types
  <2>4. CASE evidence' = evidence
    BY <1>p, <2>2, <2>3, <2>4, Names, OldEvidence
  <2>5. CASE n = "runtime-evidence" /\ \E t \in ReleaseTroubles \cup {"none"} :
                evidence' = ReleaseBundle(ReleaseFiles, t)
    <3>1. jobs'["runtime-evidence"] # "pending"
        BY <2>2, <2>5, Names DEF Types
    <3> QED
        BY <2>2, <2>5, <3>1, NewEvidence
  <2> QED
    BY <2>1, <2>4, <2>5 DEF JobEnds
<1>3. CASE \E c \in DOMAIN cells, t \in CellTroubles \cup {"none"} : RunCell(c, t)
  <2>1. PICK c \in DOMAIN cells, t \in CellTroubles \cup {"none"} : RunCell(c, t)
    BY <1>3
  <2>2. /\ UNCHANGED <<push, attempt, jobs, evidence>> /\ artifacts \subseteq artifacts'
        /\ \A a \in artifacts' : a \in artifacts \/ a.attempt = attempt
    <3> DEFINE new == [cell |-> c, attempt |-> attempt, bundle |-> CellBundle(c, t)]
    <3>1. \A a \in artifacts' : a \in artifacts \/ a = new
        BY <2>1, CellAdds
    <3>2. new.attempt = attempt
        OBVIOUS
    <3>3. UNCHANGED <<push, attempt, jobs, evidence>> /\ artifacts \subseteq artifacts'
        BY <2>1, CellAdds
    <3> HIDE DEF new
    <3> QED
        BY <3>1, <3>2, <3>3
  <2>3. jobs["runtime-evidence"] = "pending"
    BY <2>1, NoMoreCells
  <2> QED
    BY <1>p, <2>2, <2>3, OldEvidence
<1>4. CASE \E mode \in {"all", "failed"} : Rerun(mode)
  <2>1. UNCHANGED <<push, artifacts, evidence>> /\ attempt' = attempt + 1
    BY <1>4 DEF Rerun
  <2>2. \A k \in 1 .. attempt : k # attempt'
    BY <1>p, <2>1
  <2>3. attempt' \in Nat /\ attempt <= attempt'
    BY <1>p, <2>1
  <2> QED
    BY <1>p, <2>1, <2>2, <2>3, OldEvidence
<1> QED
    BY <1>1, <1>2, <1>3, <1>4, StepForms

-----------------------------------------------------------------------------
(* The admission *)

\* No two attempts have the same name, and no name is empty.
LEMMA NamesApart ==
    ASSUME NEW k \in 1 .. MaxAttempts, NEW n \in 1 .. MaxAttempts
    PROVE  /\ AttemptName(k) = AttemptName(n) => k = n
           /\ AttemptName(k) # Absent
    BY AttemptAssumption DEF AttemptName

\* What is admitted is the evidence, all of it.
LEMMA DownloadIs ==
    ASSUME EvidenceHolds, NEW t, Admits(Download(t))
    PROVE  evidence # Nothing /\ Download(t) = evidence
<1>1. Present(Download(t)) /\ ChecksumsHold(Download(t).sums, Download(t).files)
    BY DEF Admits, Validates
<1>2. CASE t = "none"
    BY <1>1, <1>2 DEF Download, Present
<1>3. CASE t # "none"
  <2> DEFINE left == evidence.files \ {CHOOSE f \in evidence.files : f.category = "dependencies"}
             torn == [evidence EXCEPT !.files = left]
  <2>1. Download(t) = torn
    BY <1>3 DEF Download
  <2> HIDE DEF left
  <2>2. evidence # Nothing
    <3> SUFFICES ASSUME evidence = Nothing PROVE FALSE
        OBVIOUS
    <3>1. torn = Nothing
        BY DEF Nothing
    <3> HIDE DEF torn
    <3> QED
        BY <1>1, <2>1, <3>1 DEF Present
  <2>3. /\ evidence = [x \in DOMAIN evidence |-> evidence[x]]
        /\ "files" \in DOMAIN evidence /\ "sums" \in DOMAIN evidence
        /\ evidence.sums = evidence.files
    BY <2>2 DEF EvidenceHolds
  <2>4. torn.files = left /\ torn.sums = evidence.sums
    BY <2>3
  <2>5. left = evidence.files
    BY <1>1, <2>1, <2>3, <2>4 DEF ChecksumsHold
  <2>6. torn = evidence
    BY <2>3, <2>5
  <2> QED
    BY <2>1, <2>2, <2>6
<1> QED
    BY <1>2, <1>3

\* What the admission knows of the state it admits in.
AdmissionState ==
    /\ evidence # Nothing
    /\ \A c \in DOMAIN cells : cells[c] = "success"
    /\ Validated(push.registry, push.tree)
    /\ Validates(evidence, TRUE, Commit, Config)
    /\ EvidenceOf(attempt)
    /\ evidence.registry = push.registry /\ evidence.mode = "release"

\* An admission on main sees the evidence as collected, every cell and aggregate green and
\* a validated registry.
LEMMA AtAdmission ==
    ASSUME Types, Green, CoverageHolds, EvidenceHolds, OnMain, NEW t, Admits(Download(t))
    PROVE  AdmissionState /\ Download(t) = evidence
<1>1. evidence # Nothing /\ Download(t) = evidence
    BY DownloadIs
<1>2. \A n \in Mandatory : jobs[n] = "success"
  <2> DEFINE unsatisfied == {jobs[n] : n \in {x \in Mandatory : jobs[x] # "success"}}
  <2>1. PrerequisiteState = CASE unsatisfied = {} -> "prerequisites-satisfied"
                              [] unsatisfied = {"pending"} -> "pending"
                              [] OTHER -> "failed"
    BY DEF PrerequisiteState
  <2>2. PrerequisiteState = "prerequisites-satisfied"
    BY DEF Admits
  <2>3. unsatisfied = {}
    <3> HIDE DEF unsatisfied
    <3> QED
        BY <2>1, <2>2
  <2> QED
    BY <2>3
<1>3. \A c \in DOMAIN cells : cells[c] = "success"
    BY <1>2, AllCellsGreen
<1>4. Validated(push.registry, push.tree)
    BY <1>2, Names DEF CoverageHolds
<1>5. Validates(evidence, TRUE, Commit, Config) /\ evidence.attempt = AttemptName(attempt)
    BY <1>1 DEF Admits, IdentityVerified
<1>6. PICK k \in 1 .. attempt : EvidenceOf(k)
    BY <1>1 DEF EvidenceHolds
<1>7. k \in 1 .. MaxAttempts /\ attempt \in 1 .. MaxAttempts
    BY <1>6, BoundAssumption DEF Types
<1>8. AttemptName(k) = AttemptName(attempt)
    BY <1>5, <1>6 DEF EvidenceOf
<1>9. k = attempt
    BY <1>7, <1>8, NamesApart
<1>10. EvidenceOf(attempt)
    BY <1>6, <1>9, Zenon
<1> QED
    BY <1>1, <1>3, <1>4, <1>5, <1>10 DEF AdmissionState, EvidenceHolds

\* No secret.
LEMMA EvidenceClean ==
    ASSUME EvidenceHolds, AdmissionState, NEW a, a.bundle = evidence
    PROVE  Clean(a)
<1>1. \A f \in evidence.files : PlainFile(f)
    BY DEF EvidenceHolds, AdmissionState
<1>2. \A f \in evidence.files : ScanFile(f) = {}
    BY DEF AdmissionState, Validates, ScanClean
<1> QED
    BY <1>1, <1>2, ScanIs DEF Clean

\* The cells of the matrix job are those the evidence expects, with their profile.
LEMMA MatrixCell ==
    ASSUME Types, NEW c \in DOMAIN cells
    PROVE  /\ c.scenario \in DOMAIN push.registry.scenarios
           /\ c.profile = push.registry.scenarios[c.scenario].profile
<1>1. PICK p \in Profiles : c \in BuildMatrix(push.registry, p, "supported")
    BY DEF Types, MatrixBundle
<1>2. PICK x \in (DOMAIN push.registry.scenarios) \X (DOMAIN push.registry.targets) :
         /\ c.scenario = x[1] /\ c.profile = p
         /\ push.registry.scenarios[x[1]].profile = p
    BY <1>1 DEF BuildMatrix
<1> QED
    BY <1>2

\* An expected cell names a registered scenario and the profile of that scenario.
LEMMA ExpectedCell ==
    ASSUME NEW reg, NEW e \in ExpectedCells(reg, "supported", NoFilter)
    PROVE  /\ e.scenario \in DOMAIN reg.scenarios
           /\ e.profile = reg.scenarios[e.scenario].profile
<1> DEFINE roles(x) == {r \in reg.scenarios[x[1]].roles \cap DOMAIN reg.roles :
                          /\ CountsFor(reg.roles[r], reg.scenarios[x[1]].profile)
                          /\ Passes(NoFilter.roles, r)}
<1>1. PICK x \in (DOMAIN reg.scenarios) \X (DOMAIN reg.targets) :
         e = [scenario |-> x[1], target |-> x[2], profile |-> reg.scenarios[x[1]].profile,
              roles |-> roles(x)]
    BY Zenon DEF ExpectedCells
<1> HIDE DEF roles
<1>2. e.scenario = x[1] /\ e.profile = reg.scenarios[x[1]].profile
    BY <1>1
<1> QED
    BY <1>2

\* A release that expects no cell is no pass.
LEMMA NothingExpected ==
    ASSUME NEW m, LogicFailures(m, TRUE) = {} PROVE m.expected # {}
<1> DEFINE statuses == {r.status : r \in m.results}
           named(r) == {r.identity.role, r.identity.profile, r.identity.target}
           fails ==
             [results |-> m.results = {},
              status |-> statuses # {"passed"},
              identity |-> \E r \in m.results : "unknown" \in named(r),
              opaque |-> \E r \in m.results : ~r.meaningful,
              allure |-> \E r \in m.results : r.allure = {},
              cells |-> \E e \in m.expected : e.status # "passed",
              blockers |-> m.blockers # {},
              scan |-> ~m.clean,
              security |-> TRUE /\ (m.security.missing # {} \/ m.security.semantic # {}),
              candidate |-> TRUE /\ m.security.digest = "",
              vulnerable |-> TRUE /\ m.security.blocking,
              empty |-> TRUE /\ m.expected = {},
              findings |-> m.security.findings,
              commit |-> ~m.consistent \/ m.commit # m.requested,
              prerequisites |-> PrerequisiteErrors(m.prerequisites) # {}]
<1>1. LogicFailures(m, TRUE) = {k \in DOMAIN fails : fails[k]}
    BY Zenon DEF LogicFailures
<1>2. "empty" \in DOMAIN fails
    OBVIOUS
<1>3. fails["empty"] = (TRUE /\ m.expected = {})
    OBVIOUS
<1> HIDE DEF fails
<1>4. ~fails["empty"]
    BY <1>1, <1>2
<1> QED
    BY <1>3, <1>4, Zenon

\* Every container is in the inventory of its cell.
LEMMA EvidenceInventoried ==
    ASSUME Types, RanHolds, AdmissionState, NEW a, a.attempt = attempt, a.bundle = evidence
    PROVE  RunsInventoried(a)
<1> DEFINE deps == DepsOf(evidence.files)
           expected == {e.cell : e \in evidence.expected}
<1>1. DependencyErrors(deps, expected, TRUE, evidence.commit, evidence.registry, Config) = {}
    BY DEF AdmissionState, Validates
<1>2. ContainersHold(deps) /\ CellsInventoried(deps, expected)
  <2> DEFINE holds == [versions |-> VersionsHold(deps),
                python |-> PythonHolds(deps, expected, evidence.commit),
                browsers |-> BrowsersHold(deps, expected, evidence.commit),
                host |-> HostHolds(deps),
                containers |-> ContainersHold(deps),
                inventories |-> InventoriesHold(deps, evidence.commit, evidence.registry, Config),
                cells |-> CellsInventoried(deps, expected)]
  <2>1. DependencyErrors(deps, expected, TRUE, evidence.commit, evidence.registry, Config) =
          {k \in DOMAIN holds : ~holds[k]}
    BY Zenon DEF DependencyErrors
  <2>2. "containers" \in DOMAIN holds /\ "cells" \in DOMAIN holds
    OBVIOUS
  <2>3. holds["containers"] = ContainersHold(deps) /\ holds["cells"] = CellsInventoried(deps, expected)
    OBVIOUS
  <2> HIDE DEF holds
  <2>4. holds["containers"] /\ holds["cells"]
    BY <1>1, <2>1, <2>2
  <2> HIDE DEF deps, expected
  <2> QED
    BY <2>3, <2>4
<1>3. expected = ExpectedCells(push.registry, "supported", NoFilter)
    BY DEF AdmissionState, Validates, MatrixHolds
<1>4. evidence.expected # {}
  <2>1. LogicFailures(evidence, TRUE) = {}
    BY DEF AdmissionState, Validates
  <2> QED
    BY <2>1, NothingExpected
<1>5. SUFFICES ASSUME NEW x \in ran, x.attempt = attempt
               PROVE  \E d \in deps.applications :
                        d.cell = x.cell /\ x.containers \subseteq {y.digest : y \in d.applications}
    BY DEF RunsInventoried
<1> HIDE DEF expected
<1>6. x.containers # {}
    BY <1>5 DEF RanHolds
<1>7. PICK c \in DOMAIN cells : /\ x.cell = CellKey(c)
                                /\ cells[c] = "success" => Inventoried(c, x)
    BY <1>5 DEF RanHolds
<1>8. Inventoried(c, x)
    BY <1>7 DEF AdmissionState
<1> DEFINE doc == [wellFormed |-> TRUE, available |-> TRUE, digests |-> x.containers,
                   scenario |-> c.scenario, target |-> c.target]
<1>9. [kind |-> "containers", doc |-> doc] \in Inventories(evidence.files)
    BY <1>5, <1>8 DEF Inventoried, AdmissionState, EvidenceOf
<1>10. doc \in deps.containers
  <2>1. deps.containers = {d.doc : d \in {y \in Inventories(evidence.files) : y.kind = "containers"}}
    BY DEF DepsOf
  <2>2. PICK d \in Inventories(evidence.files) : d = [kind |-> "containers", doc |-> doc]
    BY <1>9
  <2> HIDE DEF doc
  <2>3. d.kind = "containers" /\ d.doc = doc
    BY <2>2
  <2> QED
    BY <2>1, <2>3
<1>11. /\ doc.available /\ doc.digests = x.containers
       /\ doc.scenario = c.scenario /\ doc.target = c.target
    OBVIOUS
<1> HIDE DEF doc, deps
<1>12. Immutable(doc.digests)
    BY <1>2, <1>10, <1>11 DEF ContainersHold
<1>13. PICK d \in deps.applications : d.cell.scenario = c.scenario /\ d.cell.target = c.target
    BY <1>2, <1>6, <1>10, <1>11, <1>12 DEF CellsInventoried
<1>14. expected # {}
    BY <1>4 DEF expected
<1>15. d.cell \in {CellKey(e) : e \in expected}
    BY <1>2, <1>13, <1>14 DEF CellsInventoried
<1>16. PICK e \in expected : d.cell = CellKey(e)
    BY <1>15
<1>17. d.cell = x.cell
  <2>1. e.scenario = c.scenario /\ e.target = c.target
    BY <1>13, <1>16 DEF CellKey
  <2>2. e.profile = c.profile
    BY <1>3, <2>1, ExpectedCell, MatrixCell
  <2> QED
    BY <1>7, <1>16, <2>1, <2>2 DEF CellKey
<1>18. RuntimeDigests(deps, d) = ContainerDigests(deps, d.cell)
    BY <1>2, <1>13 DEF CellsInventoried
<1>19. x.containers \subseteq ContainerDigests(deps, d.cell)
    BY <1>10, <1>11, <1>12, <1>13 DEF ContainerDigests
<1>20. RuntimeDigests(deps, d) \subseteq {y.digest : y \in d.applications}
    BY DEF RuntimeDigests
<1> QED
    BY <1>13, <1>17, <1>18, <1>19, <1>20

\* What the rules of the registry say of a production role in one profile.
LEMMA SupportIs ==
    ASSUME NEW reg, NEW tree, Validated(reg, tree), NEW r \in DOMAIN reg.roles,
           reg.roles[r].maturity = "production", NEW p \in Profiles
    PROVE  /\ reg.roles[r].supported \subseteq DOMAIN reg.targets
           /\ reg.roles[r].state[p] = "supported"
           /\ \E s \in DOMAIN reg.scenarios :
                /\ reg.scenarios[s].profile = p /\ r \in reg.scenarios[s].roles
                /\ reg.scenarios[s].state = "supported" /\ reg.scenarios[s].implementation = "real"
                /\ StructureErrors(reg.scenarios[s]) = {}
<1>1. RoleRules(reg, r) /\ ProductionRules(reg, r) /\ \A s \in DOMAIN reg.scenarios : ScenarioRules(reg, s)
    BY DEF Validated, Accepted
<1>2. /\ reg.roles[r].supported \subseteq DOMAIN reg.targets
      /\ \A s \in reg.roles[r].support[p] :
           s \in DOMAIN reg.scenarios /\ reg.scenarios[s].profile = p /\ r \in reg.scenarios[s].roles
    BY <1>1 DEF RoleRules
<1>3. /\ reg.roles[r].state[p] = "supported" /\ reg.roles[r].support[p] # {}
      /\ \A s \in reg.roles[r].support[p] :
           reg.scenarios[s].state = "supported" /\ reg.scenarios[s].implementation = "real"
    BY <1>1 DEF ProductionRules
<1>4. PICK s \in reg.roles[r].support[p] : TRUE
    BY <1>3
<1>5. /\ s \in DOMAIN reg.scenarios /\ reg.scenarios[s].state = "supported"
      /\ reg.scenarios[s].implementation = "real"
    BY <1>2, <1>3, <1>4
<1>6. StructureErrors(reg.scenarios[s]) = {}
    BY <1>1, <1>5 DEF ScenarioRules
<1> QED
    BY <1>2, <1>3, <1>4, <1>5, <1>6

\* A scenario without structure errors executes its roles.
LEMMA RolesExecuted ==
    ASSUME NEW scenario, StructureErrors(scenario) = {}, IsFiniteSet(DOMAIN scenario.structure.files)
    PROVE  scenario.roles \subseteq Executed(scenario.structure)
<1> DEFINE s == scenario.structure
           phases == PlaybookPhases(scenario.profile)
                       \cup {p \in DOMAIN s.playbook : p \in {s.sequence[i] : i \in DOMAIN s.sequence}}
           active == ReachableRoles(s.files, PlaybookOf(s, "converge"))
           check == [sequence |-> ~InOrder(RequiredPhases[scenario.profile], s.sequence),
                cleanup |-> "cleanup" \notin DOMAIN s.playbook,
                playbooks |-> \E p \in phases : GraphErrors(s.files, PlaybookOf(s, p)) # {},
                roles |-> ~(scenario.roles \subseteq active),
                forbidden |-> \E c \in s.constructs : Forbidden(c, scenario.roles),
                verify |-> SubstantiveChecks(s.verify) = {},
                producer |-> scenario.junit /\ ~HasProducer(s.verify, scenario.roles),
                marker |-> MarkerOnly(s.verify),
                evidence |-> scenario.evidence /\ ~HasEvidenceCleanup(s.cleanupTasks)]
<1>1. StructureErrors(scenario) = IF s.readable THEN {e \in DOMAIN check : check[e]} ELSE {"unreadable"}
    BY Zenon DEF StructureErrors
<1>2. "roles" \in DOMAIN check
    OBVIOUS
<1>3. check["roles"] = ~(scenario.roles \subseteq active)
    OBVIOUS
<1> HIDE DEF check
<1>4. ~check["roles"]
    BY <1>1, <1>2
<1>5. scenario.roles \subseteq active
    BY <1>3, <1>4, Zenon
<1> QED
    BY <1>5, ReachableExecuted

\* A cell of each supported target is expected.
LEMMA ExpectedSupport ==
    ASSUME NEW reg, NEW s \in DOMAIN reg.scenarios, NEW t \in DOMAIN reg.targets,
           reg.scenarios[s].state = "supported", reg.scenarios[s].implementation = "real",
           NEW r \in DOMAIN reg.roles, r \in reg.scenarios[s].roles,
           reg.roles[r].maturity = "production",
           reg.roles[r].state[reg.scenarios[s].profile] = "supported",
           t \in reg.roles[r].supported
    PROVE  \E e \in ExpectedCells(reg, "supported", NoFilter) :
             /\ e.scenario = s /\ e.target = t /\ e.profile = reg.scenarios[s].profile
             /\ r \in e.roles
<1> DEFINE counting(x) == {q \in reg.scenarios[x[1]].roles \cap DOMAIN reg.roles :
                             CountsFor(reg.roles[q], reg.scenarios[x[1]].profile)}
           roles(x) == {q \in reg.scenarios[x[1]].roles \cap DOMAIN reg.roles :
                          /\ CountsFor(reg.roles[q], reg.scenarios[x[1]].profile)
                          /\ Passes(NoFilter.roles, q)}
           cell(x) == [scenario |-> x[1], target |-> x[2], profile |-> reg.scenarios[x[1]].profile,
                       roles |-> roles(x)]
           selected == {y \in (DOMAIN reg.scenarios) \X (DOMAIN reg.targets) :
              /\ Passes(NoFilter.profiles, reg.scenarios[y[1]].profile)
              /\ Passes(NoFilter.scenarios, y[1]) /\ Passes(NoFilter.targets, y[2])
              /\ reg.scenarios[y[1]].state = "supported" /\ reg.scenarios[y[1]].implementation = "real"
              /\ \E q \in counting(y) : Passes(NoFilter.roles, q)
              /\ y[2] \in SharedTargets(reg, counting(y), "supported")}
<1>1. ExpectedCells(reg, "supported", NoFilter) = {cell(x) : x \in selected}
    BY Zenon DEF ExpectedCells
<1>2. /\ NoFilter.profiles = {} /\ NoFilter.scenarios = {} /\ NoFilter.targets = {}
      /\ NoFilter.roles = {}
    BY DEF NoFilter
<1>3. \A x : /\ Passes(NoFilter.profiles, x) /\ Passes(NoFilter.scenarios, x)
             /\ Passes(NoFilter.targets, x) /\ Passes(NoFilter.roles, x)
    BY <1>2 DEF Passes
<1> DEFINE y == <<s, t>>
<1>4. y \in (DOMAIN reg.scenarios) \X (DOMAIN reg.targets) /\ y[1] = s /\ y[2] = t
    OBVIOUS
<1> HIDE DEF y
<1>5. r \in counting(y) /\ r \in roles(y)
    BY <1>3, <1>4 DEF CountsFor
<1>6. TargetsOf(reg.roles[r], "supported") = reg.roles[r].supported
    BY DEF TargetsOf
<1>7. t \in SharedTargets(reg, counting(y), "supported")
  <2> HIDE DEF counting
  <2> QED
    BY <1>5, <1>6 DEF SharedTargets
<1>8. y \in selected
  <2> HIDE DEF counting, roles
  <2> QED
    BY <1>3, <1>4, <1>5, <1>7
<1> HIDE DEF roles, counting, selected
<1>9. cell(y) \in ExpectedCells(reg, "supported", NoFilter)
    BY <1>1, <1>8
<1>10. /\ cell(y).scenario = s /\ cell(y).target = t /\ cell(y).profile = reg.scenarios[s].profile
       /\ r \in cell(y).roles
    BY <1>4, <1>5
<1> HIDE DEF cell
<1> QED
    BY <1>9, <1>10

\* A result that is derived as passed has a report that says so.
LEMMA PassedReport ==
    ASSUME NEW m, NEW res, ResultRederived(m, res), res.status = "passed"
    PROVE  \E j \in res.junit :
             ReportHolds(m, res, j) /\ ForRole(Parsed(j), res.identity.role).status = "passed"
<1> DEFINE role == res.identity.role
           row(j) == [identity |-> res.identity, report |-> ForRole(Parsed(j), role), file |-> j,
                      allure |-> NativeMatches(ForRole(Parsed(j), role), res.allure, res.identity, m.commit),
                      complete |-> AllureComplete(ForRole(Parsed(j), role), res.allure, res.identity,
                                                  m.commit)]
           all == {row(j) : j \in res.junit}
           rows == Listed(all)
           of == {i \in DOMAIN rows : rows[i].identity = res.identity}
           first == {i \in of : \A k \in of : k < i => LogicalDigest(rows[k].report) # LogicalDigest(rows[i].report)}
           kept == {rows[i] : i \in first}
           statuses == {w.report.status : w \in kept}
           blocked == (\E w \in kept : ~w.complete)
<1>1. (\A j \in res.junit : ReportHolds(m, res, j)) /\ ResultOf(res.identity, rows).status = res.status
    BY Zenon DEF ResultRederived
<1>2. ResultOf(res.identity, rows).status =
        IF blocked /\ Merged(statuses) = "passed" THEN "failed" ELSE Merged(statuses)
  <2> HIDE DEF rows
  <2> QED
    BY DEF ResultOf
<1> HIDE DEF statuses, blocked
<1>3. Merged(statuses) = "passed"
    BY <1>1, <1>2
<1>4. statuses = {"passed"}
    BY <1>3 DEF Merged
<1>5. PICK w \in kept : w.report.status = "passed"
    BY <1>4 DEF statuses
<1> HIDE DEF all
<1>6. w \in all
    BY <1>5, ListedMembers
<1>7. PICK j \in res.junit : w = row(j)
    BY <1>6 DEF all
<1>8. w.report = ForRole(Parsed(j), role)
    BY <1>7
<1> QED
    BY <1>1, <1>5, <1>8

\* A cell that passed has a passed result for each of its roles.
LEMMA PassedResult ==
    ASSUME NEW cell, NEW results, NEW n, CellStatus(cell, results, n) = "passed", NEW r \in cell.roles
    PROVE  \E res \in results :
             /\ res.identity.scenario = cell.scenario /\ res.identity.profile = cell.profile
             /\ res.identity.target = cell.target /\ res.identity.attempt = n
             /\ res.identity.role = r /\ res.status = "passed"
<1> DEFINE matching == {x \in results : /\ x.identity.scenario = cell.scenario
                                        /\ x.identity.profile = cell.profile
                                        /\ x.identity.target = cell.target
                                        /\ x.identity.attempt = n}
           passed == {x.identity.role : x \in {y \in matching : y.status = "passed"}}
<1>1. CellStatus(cell, results, n) =
        IF cell.roles \subseteq passed /\ \A x \in matching : x.status = "passed" THEN "passed"
        ELSE IF matching = {} THEN "infrastructure-error" ELSE "failed"
    BY Zenon DEF CellStatus
<1>2. cell.roles \subseteq passed
  <2> HIDE DEF matching, passed
  <2> QED
    BY <1>1
<1> QED
    BY <1>2

\* What is admitted was tested.
LEMMA EvidenceTested ==
    ASSUME Types, ArtifactHolds, AdmissionState, NEW a, a.attempt = attempt, a.bundle = evidence
    PROVE  SupportTested(a)
<1> DEFINE reg == push.registry
<1> SUFFICES ASSUME NEW r \in DOMAIN reg.roles, reg.roles[r].maturity = "production",
                    NEW t \in reg.roles[r].supported, NEW p \in Profiles
             PROVE  \E x \in ran : /\ x.role = r /\ x.attempt = attempt /\ x.passed
                                   /\ x.cell.target = t /\ x.cell.profile = p
    BY DEF SupportTested
<1>1. Validated(reg, push.tree)
    BY DEF AdmissionState
<1>2. PICK s \in DOMAIN reg.scenarios :
        /\ reg.scenarios[s].profile = p /\ r \in reg.scenarios[s].roles
        /\ reg.scenarios[s].state = "supported" /\ reg.scenarios[s].implementation = "real"
        /\ StructureErrors(reg.scenarios[s]) = {}
  <2>1. r \in DOMAIN reg.roles /\ reg.roles[r].maturity = "production"
    OBVIOUS
  <2> HIDE DEF reg
  <2>2. /\ reg.roles[r].supported \subseteq DOMAIN reg.targets
        /\ reg.roles[r].state[p] = "supported"
        /\ \E s \in DOMAIN reg.scenarios :
             /\ reg.scenarios[s].profile = p /\ r \in reg.scenarios[s].roles
             /\ reg.scenarios[s].state = "supported" /\ reg.scenarios[s].implementation = "real"
             /\ StructureErrors(reg.scenarios[s]) = {}
    BY <1>1, <2>1, SupportIs
  <2> QED
    BY <2>2
<1>3. r \in Executed(reg.scenarios[s].structure)
  <2>1. IsFiniteSet(DOMAIN reg.scenarios[s].structure.files)
    BY FilesAssumption DEF Types
  <2> QED
    BY <1>2, <2>1, RolesExecuted
<1>4. PICK e \in ExpectedCells(reg, "supported", NoFilter) :
        e.scenario = s /\ e.target = t /\ e.profile = p /\ r \in e.roles
  <2>1. t \in DOMAIN reg.targets /\ reg.roles[r].state[p] = "supported"
    BY <1>1, SupportIs
  <2> QED
    BY <1>2, <2>1, ExpectedSupport
<1>5. CellStatus(e, evidence.results, evidence.attempt) = "passed"
  <2> DEFINE cellsOf == {x.cell : x \in evidence.expected}
  <2>1. /\ cellsOf = ExpectedCells(reg, "supported", NoFilter)
        /\ evidence.expected = Evaluated(cellsOf, evidence.results, evidence.attempt)
        /\ \A x \in evidence.expected : x.status = "passed"
    BY DEF AdmissionState, Validates, MatrixHolds
  <2> HIDE DEF cellsOf
  <2>2. [cell |-> e, status |-> CellStatus(e, evidence.results, evidence.attempt)] \in evidence.expected
    BY <2>1 DEF Evaluated
  <2> QED
    BY <2>1, <2>2
<1>6. evidence.attempt = AttemptName(attempt)
    BY DEF AdmissionState, EvidenceOf
<1>7. PICK res \in evidence.results :
        /\ res.identity.scenario = s /\ res.identity.profile = p
        /\ res.identity.target = t /\ res.identity.attempt = AttemptName(attempt)
        /\ res.identity.role = r /\ res.status = "passed"
    BY <1>4, <1>5, <1>6, PassedResult
<1>8. ResultRederived(evidence, res)
    BY DEF AdmissionState, Validates, Rederived
<1>9. PICK j \in res.junit :
        ReportHolds(evidence, res, j) /\ ForRole(Parsed(j), r).status = "passed"
    BY <1>7, <1>8, PassedReport
<1>10. /\ \E f \in evidence.files : f.category = "junit" /\ f.content = j
       /\ j.commit = Commit /\ ~RoleUnclear(Parsed(j), r, j.suiteRoles)
       /\ j.id.scenario = s /\ j.id.profile = p /\ j.id.target = t
       /\ j.id.attempt = AttemptName(attempt)
  <2>1. /\ InBundle(evidence, "junit", j) /\ j.commit = evidence.commit
        /\ <<j.id.scenario, j.id.profile, j.id.target, j.id.attempt>> =
             <<res.identity.scenario, res.identity.profile, res.identity.target, res.identity.attempt>>
        /\ ~RoleUnclear(Parsed(j), res.identity.role, j.suiteRoles)
    BY <1>9, Zenon DEF ReportHolds
  <2>2. evidence.commit = Commit
    BY DEF AdmissionState, Validates
  <2> QED
    BY <1>7, <2>1, <2>2 DEF InBundle
<1>11. PICK b \in artifacts : /\ b.attempt = attempt
                              /\ \E g \in b.bundle.files : g.category = "junit" /\ g.content = j
  <2>1. PICK f \in evidence.files : f.category = "junit" /\ f.content = j
    BY <1>10
  <2>2. f.content.commit # NoCommit
    BY <1>10, <2>1, CommitAssumption
  <2> QED
    BY <2>1, <2>2 DEF AdmissionState, EvidenceOf
<1>12. PICK g \in b.bundle.files : g.category = "junit" /\ g.content = j
    BY <1>11
<1>13. j.commit # NoCommit /\ j.id.attempt # Absent
    BY <1>10, CommitAssumption, NamesApart, BoundAssumption DEF Types
<1>14. Traced(b) /\ b.cell \in DOMAIN cells
    BY <1>11 DEF ArtifactHolds, Types
<1>15. j.id = IdOf(b)
    BY <1>12, <1>13, <1>14 DEF Traced
<1>16. b.cell.scenario = s /\ b.cell.profile = p /\ b.cell.target = t
    BY <1>10, <1>15 DEF IdOf
<1>17. \E x \in ran : Outcome(b, r, x)
    BY <1>9, <1>10, <1>12, <1>13, <1>14 DEF Traced
<1>18. PICK x \in ran : Outcome(b, r, x)
    BY <1>17
<1>19. cells[b.cell] = "success"
    BY <1>14 DEF AdmissionState
<1>20. x.passed
    BY <1>3, <1>11, <1>16, <1>18, <1>19 DEF Outcome, StructureOf
<1> QED
    BY <1>11, <1>16, <1>18, <1>20 DEF Outcome, CellKey

\* What an admission leaves is kept.
LEMMA AdmittedStep ==
    ASSUME IInv, [Next]_vars PROVE AdmittedHolds'
<1>i. /\ Types /\ NeedsEnded /\ Green /\ CoverageHolds
      /\ ArtifactHolds /\ RanHolds /\ EvidenceHolds /\ AdmittedHolds
    BY DEF IInv
<1>p. push' = push /\ attempt \in Nat
    BY <1>i, TypesStep, BoundAssumption DEF Types
<1>k. ASSUME NEW a \in admitted, ran \subseteq ran',
             \A x \in ran' : x \in ran \/ x.attempt # a.attempt
      PROVE  Clean(a)' /\ RunsInventoried(a)' /\ SupportTested(a)'
  <2>1. Clean(a) /\ RunsInventoried(a) /\ SupportTested(a)
    BY <1>i DEF AdmittedHolds
  <2>2. Clean(a)'
    BY <2>1 DEF Clean
  <2>3. RunsInventoried(a)'
    BY <1>k, <2>1 DEF RunsInventoried
  <2>4. SupportTested(a)'
    BY <1>k, <1>p, <2>1 DEF SupportTested
  <2> QED
    BY <2>2, <2>3, <2>4
<1>1. CASE UNCHANGED vars
  <2>1. UNCHANGED <<jobs, attempt, admitted, ran>>
    BY <1>1 DEF vars
  <2> QED
    BY <1>i, <1>k, <2>1 DEF AdmittedHolds
<1>2. CASE \E n \in Jobs, r \in Results4 \ {"pending"} : JobEnds(n, r)
  <2>1. PICK n \in Jobs, r \in Results4 \ {"pending"} : JobEnds(n, r)
    BY <1>2
  <2>2. UNCHANGED <<push, attempt, cells, artifacts, ran>> /\ jobs' = [jobs EXCEPT ![n] = r]
    BY <2>1 DEF JobEnds, Finish
  <2>3. \A m \in Jobs : jobs[m] # "pending" => jobs'[m] # "pending"
    BY <1>i, <2>2 DEF Types
  <2>4. \A a \in admitted : /\ a.attempt = attempt' => jobs'["admission"] # "pending"
                            /\ Clean(a)' /\ RunsInventoried(a)' /\ SupportTested(a)'
    BY <1>i, <1>k, <2>2, <2>3, Names DEF AdmittedHolds
  <2>5. CASE admitted' = admitted
    BY <2>4, <2>5 DEF AdmittedHolds
  <2>6. CASE n = "admission" /\ OnMain
             /\ \E t \in AdmissionTroubles \cup {"none"} :
                  /\ Admits(Download(t))
                  /\ admitted' = admitted \cup {[attempt |-> attempt, bundle |-> Download(t)]}
    <3>1. PICK t \in AdmissionTroubles \cup {"none"} :
             /\ Admits(Download(t))
             /\ admitted' = admitted \cup {[attempt |-> attempt, bundle |-> Download(t)]}
        BY <2>6
    <3>2. AdmissionState /\ Download(t) = evidence
        BY <1>i, <2>6, <3>1, AtAdmission
    <3>3. jobs'["admission"] # "pending"
        BY <1>i, <2>2, <2>6 DEF Types
    <3>4. ASSUME NEW a, a = [attempt |-> attempt, bundle |-> evidence]
          PROVE  Clean(a)' /\ RunsInventoried(a)' /\ SupportTested(a)'
      <4>1. a.attempt = attempt /\ a.bundle = evidence
        BY <3>4
      <4>2. Clean(a) /\ RunsInventoried(a) /\ SupportTested(a)
        BY <1>i, <3>2, <4>1, EvidenceClean, EvidenceInventoried, EvidenceTested
      <4> QED
        BY <2>2, <4>2 DEF Clean, RunsInventoried, SupportTested
    <3>5. \A a \in admitted' : a \in admitted \/ a = [attempt |-> attempt, bundle |-> evidence]
        BY <3>1, <3>2
    <3> QED
        BY <2>4, <3>3, <3>4, <3>5 DEF AdmittedHolds
  <2> QED
    BY <2>1, <2>5, <2>6 DEF JobEnds
<1>3. CASE \E c \in DOMAIN cells, t \in CellTroubles \cup {"none"} : RunCell(c, t)
  <2>1. PICK c \in DOMAIN cells, t \in CellTroubles \cup {"none"} : RunCell(c, t)
    BY <1>3
  <2>2. UNCHANGED <<push, attempt, jobs, admitted>> /\ ran \subseteq ran'
        /\ \A x \in ran' : x \in ran \/ x.attempt = attempt
    BY <2>1, CellAdds
  <2>3. jobs["admission"] = "pending"
    BY <1>i, <2>1, NoMoreCells
  <2>4. \A a \in admitted : a.attempt # attempt
    BY <1>i, <2>3 DEF AdmittedHolds
  <2> QED
    BY <1>k, <2>2, <2>4 DEF AdmittedHolds
<1>4. CASE \E mode \in {"all", "failed"} : Rerun(mode)
  <2>1. UNCHANGED <<push, admitted, ran>> /\ attempt' = attempt + 1
    BY <1>4 DEF Rerun
  <2>2. \A a \in admitted : a.attempt # attempt'
    BY <1>i, <1>p, <2>1 DEF Types
  <2> QED
    BY <1>k, <2>1, <2>2 DEF AdmittedHolds
<1> QED
    BY <1>1, <1>2, <1>3, <1>4, <1>i, StepForms

-----------------------------------------------------------------------------
(* The invariant and what follows from it *)

LEMMA InvInit == Init => IInv
<1> SUFFICES ASSUME Init PROVE IInv
    OBVIOUS
<1>1. Types
  <2>1. jobs \in [Jobs -> Results4]
    BY DEF Init, Results4
  <2>2. attempt \in 1 .. MaxAttempts
    BY BoundAssumption DEF Init
  <2> QED
    BY <2>1, <2>2 DEF Init, Types
<1>2. \A n \in Jobs : jobs[n] = "pending"
    BY DEF Init
<1>3. NeedsEnded /\ Green /\ CoverageHolds
    BY <1>2, Names, GroupsAre DEF NeedsEnded, Green, CoverageHolds
<1> QED
    BY <1>1, <1>3 DEF Init, IInv, ArtifactHolds, RanHolds, EvidenceHolds, AdmittedHolds

\* The parts together are inductive.
LEMMA InvStep == IInv /\ [Next]_vars => IInv'
<1> SUFFICES ASSUME IInv, [Next]_vars PROVE IInv'
    OBVIOUS
<1>1. Types' /\ push' = push
    BY TypesStep DEF IInv
<1>2. NeedsEnded'
    BY NeedsEndedStep DEF IInv
<1>3. Green'
    BY <1>1, GreenStep DEF IInv
<1>4. CoverageHolds'
    BY CoverageStep DEF IInv
<1>5. ArtifactHolds'
    BY ArtifactStep DEF IInv
<1>6. RanHolds'
    BY RanStep DEF IInv
<1>7. EvidenceHolds'
    BY EvidenceStep DEF IInv
<1>8. AdmittedHolds'
    BY AdmittedStep
<1> QED
    BY <1>1, <1>2, <1>3, <1>4, <1>5, <1>6, <1>7, <1>8 DEF IInv

\* The inductive invariant holds in every state, whatever the jobs of collection-ci.yml
\* end with, whatever a cell uploads and whenever the run is started again.
THEOREM TrainInvariant == Spec => []IInv
<1>1. Init => IInv
    BY InvInit
<1>2. IInv /\ [Next]_vars => IInv'
    BY InvStep
<1> QED
    BY <1>1, <1>2, PTL DEF Spec

\* No file of an admitted bundle holds a secret, inside an archive or not: the scan
\* that validate() repeats (scan_evidence) finds every kind a file can hold.
THEOREM AdmittedClean == Spec => []AdmittedEvidenceIsClean
<1>1. IInv => AdmittedEvidenceIsClean
    BY DEF IInv, AdmittedHolds, Clean, AdmittedEvidenceIsClean
<1> QED
    BY <1>1, TrainInvariant, PTL

\* Every container that ran in a target is one of the applications in the admitted
\* inventory of that cell: no inventory is lost between the cell, the archive and the
\* aggregate, and assess_dependencies() compares them.
THEOREM AdmittedInventoried == Spec => []AdmittedRunsAreInventoried
<1>1. IInv => AdmittedRunsAreInventoried
    BY DEF IInv, AdmittedHolds, RunsInventoried, AdmittedRunsAreInventoried
<1> QED
    BY <1>1, TrainInvariant, PTL

\* Each production role was run, for each supported target and profile, in the
\* attempt that was admitted, with every testcase passed and no failing cleanup: the
\* rules of validate_registry(), the walk of _collect_reachable_playbook_roles(), the
\* report kept by record() and what validate() derives again are together enough.
THEOREM AdmittedTested == Spec => []AdmittedSupportWasTested
<1>1. IInv => AdmittedSupportWasTested
    BY DEF IInv, AdmittedHolds, SupportTested, AdmittedSupportWasTested
<1> QED
    BY <1>1, TrainInvariant, PTL

=============================================================================
