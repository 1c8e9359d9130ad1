------------------------- MODULE PushReadinessProofs -------------------------
(***************************************************************************)
(* Theorems about PushReadiness for any repository: any branches, commits, *)
(* base tips, policies and secret-like lines, any number of runs and       *)
(* pushes, any interleaving with the developer and the server.             *)
(*                                                                         *)
(* What a push carries was decided by another process, earlier, and was    *)
(* handed over through a file.  The invariant says what each stage of a    *)
(* run has established about the change it holds (RunStage), what the      *)
(* evidence file therefore stands for (EvidenceStage), and what a hook has *)
(* established itself before it compares the two (PushStage).              *)
(***************************************************************************)
EXTENDS PushReadiness, TLAPS

\* The processes are records of these fields.
Names == {"pc", "config", "boot", "push", "since", "record", "print", "change", "first", "branch"}
State(s) == s = [f \in Names |-> s[f]]
Shape == proc = [p \in Procs |-> [f \in Names |-> proc[p][f]]]

Stage(p, pcs) == proc[p].pc \in pcs
IsChecked(change) == IntegrationTree(change) \in checked

\* The base branches only move on, and a tracking ref is never ahead.
Refs ==
  /\ local \in [Branches -> Heads] /\ branch \in Branches
  /\ remote \in [BaseRefs -> Nat] /\ tracking \in [BaseRefs -> Nat]
  /\ \A r \in BaseRefs : tracking[r] <= remote[r]

\* After load_config the base is one of the authoritative ones.
ConfigStage(p) ==
  ~Stage(p, {"idle", "load", "ended"}) => proc[p].config.base \in BaseRefs

\* A run past its checks holds a change whose merge passed them, also after it has
\* planned once more.
RunStage(r) ==
  /\ Stage(r, {"cleanup", "recheck", "scan", "install", "write", "payload"}) =>
       IsChecked(proc[r].change)
  /\ proc[r].first # None => IsChecked(proc[r].first)
  /\ Stage(r, {"compare"}) => proc[r].first # None
  /\ Stage(r, {"replace"}) => IsChecked(proc[r].record.change)

EvidenceStage == evidence # None => IsChecked(evidence.change)

\* trusted_check_policy and the bootstrap contract.
PolicyHeld(change, boot) == ~Bootstraps(change) => TrustedCheckPolicy(change, boot)

\* What a hook has established by the time it is at a step.
PushStage(q) ==
  LET s == proc[q] IN
  /\ ~Stage(q, {"idle", "ended"}) =>
       s.since \in [BaseRefs -> Nat] /\ \A r \in BaseRefs : s.since[r] <= remote[r]
  /\ Stage(q, {"record", "plan", "read"}) => s.since[s.config.base] <= tracking[s.config.base]
  /\ Stage(q, {"plan", "read", "end", "verify", "update", "push"}) =>
       IsChecked(s.record.change) /\ s.boot = s.record.boot
  /\ Stage(q, {"end", "verify", "update", "push"}) =>
       s.change.tip[2] >= s.since[s.change.tip[1]]
  /\ Stage(q, {"verify", "update", "push"}) => PatchIsSafe(s.change, s.boot)
  /\ Stage(q, {"update", "push"}) =>
       /\ s.record.change = s.change /\ PolicyHeld(s.change, s.boot)
       /\ s.record.branch \notin Protected
  /\ Stage(q, {"push"}) =>
       /\ s.push.to = s.record.branch /\ s.push.oid = s.record.change.head
       /\ s.push.old = None \/ <<s.push.old, s.push.oid>> \in Ancestors

Stages ==
  /\ \A p \in Procs : ConfigStage(p)
  /\ \A r \in Runs : RunStage(r)
  /\ \A q \in Pushes : PushStage(q)

Promises == PushedWasChecked /\ PushIsFresh /\ PushedUnderBasePolicy

Inv == Shape /\ Refs /\ Stages /\ EvidenceStage /\ Promises
-----------------------------------------------------------------------------
\* How a step of a process changes the records

ProcStep(p) ==
  \/ Planning(p) \/ Stop(p) \/ Kill(p)
  \/ p \in Runs /\ RunStep(p)
  \/ p \in Pushes /\ PushStep(p)

\* The record a step leaves, for the steps that do more than go on.
Loaded(p) == [proc[p] EXCEPT !.pc = "clean", !.config = LoadedConfig]
Begun(p) == [proc[p] EXCEPT !.pc = "read", !.print = TreeFingerprint]
ReadChange(p) ==
  [tip |-> <<proc[p].config.base, tracking[proc[p].config.base]>>, head |-> Head,
   patch |-> work, print |-> proc[p].print]
Planned(p) == [proc[p] EXCEPT !.pc = "end", !.change = ReadChange(p)]
Trusted(p) == [proc[p] EXCEPT !.pc = "merge", !.branch = branch]
Rechecked(p) == [proc[p] EXCEPT !.pc = "plan", !.first = proc[p].change]
Dated(p) == [proc[p] EXCEPT !.pc = "payload", !.since = clock]
NewRecord(p) ==
  [change |-> proc[p].change, branch |-> branch, config |-> LoadedConfig,
   boot |-> proc[p].boot, new |-> Bootstraps(proc[p].change), completed |-> proc[p].since]
Recorded(p) == [proc[p] EXCEPT !.pc = "replace", !.record = NewRecord(p)]
Informed(p) == [proc[p] EXCEPT !.pc = "plan", !.record = evidence, !.boot = evidence.boot]
Started(p, boot) == [proc[p] EXCEPT !.pc = "load", !.boot = boot]
Announced(p, from, to) ==
  [proc[p] EXCEPT !.pc = "load", !.since = remote,
    !.push = [from |-> from, to |-> to, oid |-> local[from], old |-> server[to]]]
Gone(p, pc) == [proc[p] EXCEPT !.pc = pc]
Ended == [Idle EXCEPT !.pc = "ended"]

Moves(p, s) ==
  Shape' /\ proc'[p] = s /\ \A o \in Procs \ {p} : proc'[o] = proc[o]

LEMMA StateOf ==
  ASSUME Shape, NEW p \in Procs
  PROVE  State(proc[p])
  BY DEF Shape, State

LEMMA Moved ==
  ASSUME Shape, NEW p \in Procs, NEW s, State(s), Becomes(p, s)
  PROVE  Moves(p, s)
  BY DEF Shape, State, Becomes, Moves

LEMMA States ==
  ASSUME Shape, NEW p \in Procs
  PROVE  /\ State(Loaded(p)) /\ State(Begun(p)) /\ State(Planned(p)) /\ State(Trusted(p))
         /\ State(Rechecked(p)) /\ State(Dated(p)) /\ State(Recorded(p)) /\ State(Informed(p))
         /\ \A boot : State(Started(p, boot))
         /\ \A from, to : State(Announced(p, from, to))
         /\ \A pc : State(Gone(p, pc))
         /\ State(Ended)
<1>1. State(proc[p])
  BY DEF Shape, State
<1>2. State(Ended)
  BY DEF Ended, Idle, State, Names
<1> QED
  BY <1>1, <1>2 DEF State, Names, Loaded, Begun, Planned, Trusted, Rechecked, Dated, Recorded, Informed,
    Started, Announced, Gone

\* The fields a step leaves alone.
Same(p, fields) == \A f \in fields : proc'[p][f] = proc[p][f]

LEMMA GoesTo ==
  ASSUME Shape, NEW p \in Procs, NEW pc, Goes(p, pc)
  PROVE  /\ Moves(p, Gone(p, pc)) /\ proc'[p].pc = pc
         /\ proc'[p].config = proc[p].config /\ proc'[p].boot = proc[p].boot
         /\ proc'[p].push = proc[p].push /\ proc'[p].since = proc[p].since
         /\ proc'[p].record = proc[p].record /\ proc'[p].change = proc[p].change
         /\ proc'[p].first = proc[p].first
<1>1. Becomes(p, Gone(p, pc)) /\ State(Gone(p, pc))
  BY States DEF Goes, Gone
<1>2. Moves(p, Gone(p, pc))
  BY <1>1, Moved
<1> QED
  BY <1>2, StateOf DEF Moves, Gone, State, Names

LEMMA EndsAll ==
  ASSUME Shape, NEW p \in Procs, Ends(p)
  PROVE  Moves(p, Ended) /\ proc'[p].pc = "ended" /\ proc'[p].first = None
<1>1. Moves(p, Ended)
  BY States, Moved DEF Ends, Ended
<1> QED
  BY <1>1 DEF Moves, Ended, Idle

LEMMA PlanMoves ==
  ASSUME Shape, NEW p \in Procs
  PROVE  /\ Load(p) => Moves(p, Loaded(p))
         /\ PlanBegin(p) => Moves(p, Begun(p))
         /\ PlanRead(p) => Moves(p, Planned(p))
         /\ StartRun(p) => \E boot \in BOOLEAN : Moves(p, Started(p, boot))
         /\ RequireTrustedReviewPolicy(p) => Moves(p, Trusted(p))
         /\ Recheck(p) => Moves(p, Rechecked(p))
         /\ WriteBegin(p) => Moves(p, Dated(p))
         /\ WritePayload(p) => Moves(p, Recorded(p))
         /\ StartPush(p) => \E from, to \in Branches : Moves(p, Announced(p, from, to))
         /\ ReadEvidence(p) => Moves(p, Informed(p))
  BY States, Moved DEF Load, Loaded, PlanBegin, Begun, PlanRead, Planned, ReadChange,
    StartRun, Started, RequireTrustedReviewPolicy, Trusted, Recheck, Rechecked,
    WriteBegin, Dated, WritePayload, Recorded, NewRecord, StartPush, Announced, ReadEvidence, Informed

\* The fields after each of those steps.
LEMMA LoadFields ==
  ASSUME Shape, NEW p \in Procs, Load(p)
  PROVE  /\ proc'[p].pc = "clean" /\ proc'[p].config = LoadedConfig
         /\ Same(p, Names \ {"pc", "config"})
  BY StateOf, PlanMoves DEF Moves, Loaded, State, Names, Same

LEMMA PlanFields ==
  ASSUME Shape, NEW p \in Procs
  PROVE  /\ PlanBegin(p) =>
              /\ proc'[p].pc = "read" /\ Same(p, Names \ {"pc", "print"})
         /\ PlanRead(p) =>
              /\ proc'[p].pc = "end" /\ Same(p, Names \ {"pc", "change"})
              /\ proc'[p].change = ReadChange(p)
<1>0. State(proc[p])
  BY StateOf
<1>1. ASSUME PlanBegin(p)
      PROVE  /\ proc'[p].pc = "read" /\ Same(p, Names \ {"pc", "print"})
  BY <1>0, <1>1, PlanMoves DEF Moves, Begun, State, Names, Same
<1>2. ASSUME PlanRead(p)
      PROVE  /\ proc'[p].pc = "end" /\ Same(p, Names \ {"pc", "change"})
             /\ proc'[p].change = ReadChange(p)
  BY <1>0, <1>2, PlanMoves DEF Moves, Planned, State, Names, Same
<1> QED
  BY <1>1, <1>2

LEMMA RunFields ==
  ASSUME Shape, NEW p \in Procs
  PROVE  /\ StartRun(p) => proc'[p].pc = "load" /\ Same(p, Names \ {"pc", "boot"})
         /\ RequireTrustedReviewPolicy(p) =>
              proc'[p].pc = "merge" /\ Same(p, Names \ {"pc", "branch"})
         /\ Recheck(p) =>
              /\ proc'[p].pc = "plan" /\ proc'[p].first = proc[p].change
              /\ Same(p, Names \ {"pc", "first"})
         /\ WriteBegin(p) => proc'[p].pc = "payload" /\ Same(p, Names \ {"pc", "since"})
         /\ WritePayload(p) =>
              /\ proc'[p].pc = "replace" /\ Same(p, Names \ {"pc", "record"})
              /\ proc'[p].record = NewRecord(p)
<1>0. State(proc[p])
  BY StateOf
<1>1. ASSUME StartRun(p)
      PROVE  proc'[p].pc = "load" /\ Same(p, Names \ {"pc", "boot"})
  BY <1>0, <1>1, PlanMoves DEF Moves, Started, State, Names, Same
<1>2. ASSUME RequireTrustedReviewPolicy(p)
      PROVE  proc'[p].pc = "merge" /\ Same(p, Names \ {"pc", "branch"})
  BY <1>0, <1>2, PlanMoves DEF Moves, Trusted, State, Names, Same
<1>3. ASSUME Recheck(p)
      PROVE  /\ proc'[p].pc = "plan" /\ proc'[p].first = proc[p].change
             /\ Same(p, Names \ {"pc", "first"})
  BY <1>0, <1>3, PlanMoves DEF Moves, Rechecked, State, Names, Same
<1>4. ASSUME WriteBegin(p)
      PROVE  proc'[p].pc = "payload" /\ Same(p, Names \ {"pc", "since"})
  BY <1>0, <1>4, PlanMoves DEF Moves, Dated, State, Names, Same
<1>5. ASSUME WritePayload(p)
      PROVE  /\ proc'[p].pc = "replace" /\ Same(p, Names \ {"pc", "record"})
             /\ proc'[p].record = NewRecord(p)
  BY <1>0, <1>5, PlanMoves DEF Moves, Recorded, State, Names, Same
<1> QED
  BY <1>1, <1>2, <1>3, <1>4, <1>5

LEMMA PushFields ==
  ASSUME Shape, NEW p \in Procs
  PROVE  /\ StartPush(p) => proc'[p].pc = "load" /\ proc'[p].since = remote
         /\ ReadEvidence(p) =>
              /\ proc'[p].pc = "plan" /\ proc'[p].record = evidence
              /\ proc'[p].boot = evidence.boot /\ Same(p, Names \ {"pc", "record", "boot"})
  BY StateOf, PlanMoves DEF Moves, Announced, Informed, State, Names, Same

LEMMA ShapeStep ==
  ASSUME Shape, NEW p \in Procs, ProcStep(p)
  PROVE  Shape' /\ \A o \in Procs \ {p} : proc'[o] = proc[o]
<1>1. CASE Planning(p) \/ Stop(p) \/ Kill(p)
  BY <1>1, PlanMoves, GoesTo, EndsAll
  DEF Planning, RequireCleanHead, RefreshAuthoritativeBase, PlanEnd, Stop, Kill, Moves
<1>2. CASE RunStep(p)
  BY <1>2, PlanMoves, GoesTo, EndsAll
  DEF RunStep, CreateIntegration, ExecuteChecks, RemoveIntegration, ComparePlans, ScanWorkspace,
      InstallPrePushHook, ReplaceEvidence, Moves
<1>3. CASE PushStep(p)
  BY <1>3, PlanMoves, GoesTo, EndsAll
  DEF PushStep, VerifyEvidence, VerifyUpdates, ServerTakes, Moves
<1> QED
  BY <1>1, <1>2, <1>3 DEF ProcStep
-----------------------------------------------------------------------------
\* What the steps keep

LEMMA LoadedBase ==
  ASSUME Refs, ConfigAccepted(LoadedConfig)
  PROVE  LoadedConfig.base \in BaseRefs
<1>1. local[branch] \in Heads
  BY DEF Refs
<1>2. LoadedConfig \in Configs
  BY <1>1, RepositoryAssumption DEF LoadedConfig, ConfigAccepted, Head, Policies
<1> QED
  BY <1>2 DEF Configs

LEMMA ConfigStep ==
  ASSUME Inv, NEW p \in Procs, ProcStep(p)
  PROVE  ConfigStage(p)'
<1>0. Shape /\ Refs /\ ConfigStage(p)
  BY DEF Inv, Stages
<1>1. CASE Load(p)
  BY <1>0, <1>1, LoadFields, LoadedBase DEF Load, ConfigStage
<1>2. CASE Stop(p) \/ Kill(p)
  BY <1>0, <1>2, EndsAll DEF Stop, Kill, ConfigStage, Stage
<1>3. CASE RequireCleanHead(p) \/ RefreshAuthoritativeBase(p) \/ PlanEnd(p)
  BY <1>0, <1>3, GoesTo
  DEF RequireCleanHead, RefreshAuthoritativeBase, PlanEnd, At, ConfigStage, Stage
<1>4. CASE PlanBegin(p) \/ PlanRead(p)
  BY <1>0, <1>4, PlanFields DEF PlanBegin, PlanRead, At, Same, Names, ConfigStage, Stage
<1>5. CASE StartRun(p) \/ RequireTrustedReviewPolicy(p) \/ Recheck(p) \/ WriteBegin(p)
           \/ WritePayload(p)
  BY <1>0, <1>5, RunFields
  DEF StartRun, RequireTrustedReviewPolicy, Recheck, WriteBegin, WritePayload, At, Same, Names,
      ConfigStage, Stage
<1>6. CASE CreateIntegration(p) \/ ExecuteChecks(p) \/ RemoveIntegration(p) \/ ComparePlans(p)
           \/ ScanWorkspace(p) \/ InstallPrePushHook(p) \/ ReplaceEvidence(p)
  BY <1>0, <1>6, GoesTo, EndsAll
  DEF CreateIntegration, ExecuteChecks, RemoveIntegration, ComparePlans, ScanWorkspace,
      InstallPrePushHook, ReplaceEvidence, At, ConfigStage, Stage
<1>7. CASE StartPush(p) \/ ReadEvidence(p)
  BY <1>0, <1>7, PushFields DEF StartPush, ReadEvidence, At, Same, Names, ConfigStage, Stage
<1>8. CASE VerifyEvidence(p) \/ VerifyUpdates(p) \/ ServerTakes(p)
  BY <1>0, <1>8, GoesTo, EndsAll
  DEF VerifyEvidence, VerifyUpdates, ServerTakes, At, ConfigStage, Stage
<1> QED
  BY <1>1, <1>2, <1>3, <1>4, <1>5, <1>6, <1>7, <1>8 DEF ProcStep, Planning, RunStep, PushStep

LEMMA RunStageStep ==
  ASSUME Inv, NEW p \in Runs, ProcStep(p), checked \subseteq checked'
  PROVE  RunStage(p)'
<1>0. Shape /\ RunStage(p) /\ p \in Procs /\ p \notin Pushes
  BY ProcsAssumption DEF Inv, Stages, Procs
<1>1. CASE Load(p)
  BY <1>0, <1>1, LoadFields DEF Load, Same, Names, RunStage, Stage, IsChecked
<1>2. CASE Stop(p) \/ Kill(p)
  BY <1>0, <1>2, EndsAll DEF Stop, Kill, RunStage, Stage
<1>3. CASE RequireCleanHead(p) \/ RefreshAuthoritativeBase(p)
  BY <1>0, <1>3, GoesTo DEF RequireCleanHead, RefreshAuthoritativeBase, RunStage, Stage, IsChecked
<1>4. CASE PlanEnd(p)
  <2>1. Goes(p, IF proc[p].first = None THEN "policy" ELSE "compare")
    BY <1>0, <1>4 DEF PlanEnd
  <2> QED
    BY <1>0, <2>1, GoesTo, <1>4 DEF PlanEnd, RunStage, Stage, IsChecked
<1>5. CASE PlanBegin(p) \/ PlanRead(p)
  BY <1>0, <1>5, PlanFields DEF PlanBegin, PlanRead, Same, Names, RunStage, Stage, IsChecked
<1>6. CASE StartRun(p) \/ RequireTrustedReviewPolicy(p)
  BY <1>0, <1>6, RunFields
  DEF StartRun, RequireTrustedReviewPolicy, Same, Names, RunStage, Stage, IsChecked
<1>7. CASE Recheck(p) \/ WriteBegin(p)
  BY <1>0, <1>7, RunFields
  DEF Recheck, WriteBegin, At, Same, Names, RunStage, Stage, IsChecked
<1>8. CASE WritePayload(p)
  <2>1. IsChecked(proc[p].change)
    BY <1>0, <1>8 DEF WritePayload, At, RunStage, Stage
  <2>2. proc'[p].pc = "replace" /\ proc'[p].record = NewRecord(p)
        /\ proc'[p].first = proc[p].first
    BY <1>0, <1>8, RunFields DEF Same, Names
  <2>3. proc'[p].record.change = proc[p].change
    BY <2>2 DEF NewRecord
  <2> QED
    BY <1>0, <2>1, <2>2, <2>3 DEF RunStage, Stage, IsChecked
<1>9. CASE ExecuteChecks(p)
  BY <1>0, <1>9, GoesTo, EndsAll DEF ExecuteChecks, At, RunStage, Stage, IsChecked
<1>10. CASE CreateIntegration(p) \/ RemoveIntegration(p) \/ ComparePlans(p) \/ ScanWorkspace(p)
            \/ InstallPrePushHook(p) \/ ReplaceEvidence(p)
  BY <1>0, <1>10, GoesTo, EndsAll
  DEF CreateIntegration, RemoveIntegration, ComparePlans, ScanWorkspace, InstallPrePushHook,
      ReplaceEvidence, RunStage, Stage, At, IsChecked
<1> QED
  BY <1>0, <1>1, <1>2, <1>3, <1>4, <1>5, <1>6, <1>7, <1>8, <1>9, <1>10
  DEF ProcStep, Planning, RunStep

\* The tips only move forward; checks and promises stay.
LEMMA RefsStep ==
  ASSUME Inv, NEW p \in Procs, ProcStep(p)
  PROVE  /\ Refs' /\ checked \subseteq checked' /\ UNCHANGED remote
         /\ \A r \in BaseRefs : tracking[r] <= tracking'[r]
<1>0. Shape /\ Refs /\ ConfigStage(p)
  BY DEF Inv, Stages
<1>1. CASE RefreshAuthoritativeBase(p)
  <2>1. proc[p].config.base \in BaseRefs
    BY <1>0, <1>1 DEF RefreshAuthoritativeBase, At, ConfigStage, Stage
  <2> QED
    BY <1>0, <1>1, <2>1 DEF RefreshAuthoritativeBase, Refs
<1>2. CASE ~RefreshAuthoritativeBase(p)
  <2>1. UNCHANGED <<local, branch, remote, tracking>> /\ checked \subseteq checked'
    BY <1>2 DEF ProcStep, Planning, RunStep, PushStep, Load, RequireCleanHead, PlanBegin,
      PlanRead, PlanEnd, Stop, Kill, StartRun, RequireTrustedReviewPolicy, CreateIntegration,
      ExecuteChecks, RemoveIntegration, Recheck, ComparePlans, ScanWorkspace, InstallPrePushHook,
      WriteBegin, WritePayload, ReplaceEvidence, StartPush, ReadEvidence, VerifyEvidence,
      VerifyUpdates, ServerTakes, Reads, world, files
  <2> QED
    BY <1>0, <2>1 DEF Refs
<1> QED
  BY <1>1, <1>2

LEMMA PushStageStep ==
  ASSUME Inv, NEW p \in Pushes, ProcStep(p)
  PROVE  PushStage(p)'
<1>0. Shape /\ Refs /\ EvidenceStage /\ ConfigStage(p) /\ PushStage(p) /\ p \in Procs
      /\ p \notin Runs
  BY ProcsAssumption DEF Inv, Stages, Procs
<1>a. Refs' /\ checked \subseteq checked' /\ UNCHANGED remote
      /\ \A r \in BaseRefs : tracking[r] <= tracking'[r]
  BY <1>0, RefsStep
<1>1. CASE Load(p)
  BY <1>0, <1>a, <1>1, LoadFields DEF Load, At, Same, Names, PushStage, Stage, IsChecked
<1>2. CASE Stop(p) \/ Kill(p)
  BY <1>0, <1>2, EndsAll DEF Stop, Kill, PushStage, Stage
<1>3. CASE RequireCleanHead(p)
  BY <1>0, <1>a, <1>3, GoesTo DEF RequireCleanHead, At, PushStage, Stage, IsChecked
<1>4. CASE RefreshAuthoritativeBase(p)
  <2>1. proc'[p].pc = "record" /\ proc'[p].config = proc[p].config
        /\ proc'[p].since = proc[p].since /\ proc[p].config.base \in BaseRefs
    BY <1>0, <1>4, GoesTo DEF RefreshAuthoritativeBase, At, ConfigStage, Stage
  <2>2. tracking'[proc[p].config.base] = remote[proc[p].config.base]
    BY <1>0, <1>4, <2>1 DEF RefreshAuthoritativeBase, Refs
  <2>3. proc[p].since \in [BaseRefs -> Nat]
        /\ \A r \in BaseRefs : proc[p].since[r] <= remote[r]
    BY <1>0, <1>4 DEF RefreshAuthoritativeBase, At, PushStage, Stage
  <2> QED
    BY <1>a, <2>1, <2>2, <2>3 DEF PushStage, Stage
<1>5. CASE PlanBegin(p)
  <2>1. proc'[p].pc = "read" /\ Same(p, Names \ {"pc", "print"}) /\ At(p, "plan")
    BY <1>0, <1>5, PlanFields DEF PlanBegin
  <2>2. proc[p].since[proc[p].config.base] <= tracking'[proc[p].config.base]
    BY <1>0, <1>a, <2>1 DEF PushStage, Stage, At, ConfigStage, Refs
  <2> QED
    BY <1>0, <1>a, <2>1, <2>2 DEF Same, Names, PushStage, Stage, At, IsChecked
<1>6. CASE PlanRead(p)
  <2>1. proc'[p].pc = "end" /\ Same(p, Names \ {"pc", "change"}) /\ At(p, "read")
        /\ proc'[p].change = ReadChange(p)
    BY <1>0, <1>6, PlanFields DEF PlanRead
  <2>2. proc'[p].change.tip[2] = tracking[proc[p].config.base]
        /\ proc'[p].change.tip[1] = proc[p].config.base
    BY <2>1 DEF ReadChange
  <2>3. proc[p].since[proc[p].config.base] <= tracking[proc[p].config.base]
    BY <1>0, <2>1 DEF PushStage, Stage, At
  <2>4. proc'[p].change.tip[2] >= proc[p].since[proc'[p].change.tip[1]]
    BY <2>2, <2>3
  <2> QED
    BY <1>0, <1>a, <2>1, <2>4 DEF Same, Names, PushStage, Stage, At, IsChecked
<1>7. CASE PlanEnd(p)
  <2>1. Goes(p, "verify") /\ PatchIsSafe(proc[p].change, proc[p].boot) /\ At(p, "end")
    BY <1>0, <1>7 DEF PlanEnd
  <2> QED
    BY <1>0, <1>a, <2>1, GoesTo DEF PushStage, Stage, At, IsChecked
<1>8. CASE StartPush(p)
  BY <1>0, <1>a, <1>8, PushFields DEF Refs, PushStage, Stage
<1>9. CASE ReadEvidence(p)
  <2>1. At(p, "record") /\ proc'[p].pc = "plan" /\ proc'[p].record = evidence
        /\ proc'[p].boot = evidence.boot /\ Same(p, Names \ {"pc", "record", "boot"})
        /\ IsChecked(evidence.change)
    BY <1>0, <1>9, PushFields DEF ReadEvidence, EvidenceStage
  <2>2. proc[p].since[proc[p].config.base] <= tracking'[proc[p].config.base]
    BY <1>0, <1>a, <2>1 DEF PushStage, Stage, At, ConfigStage, Refs
  <2> QED
    BY <1>0, <1>a, <2>1, <2>2 DEF Same, Names, PushStage, Stage, At, IsChecked
<1>10. CASE VerifyEvidence(p)
  <2>1. proc[p].record.change = proc[p].change /\ PolicyHeld(proc[p].change, proc[p].boot)
        /\ proc[p].record.branch \notin Protected /\ At(p, "verify") /\ Goes(p, "update")
    BY <1>0, <1>10 DEF VerifyEvidence, PolicyHeld, PushStage, Stage, At
  <2> QED
    BY <1>0, <1>a, <2>1, GoesTo DEF PushStage, Stage, At, IsChecked
<1>11. CASE VerifyUpdates(p)
  BY <1>0, <1>a, <1>11, GoesTo DEF VerifyUpdates, PushStage, Stage, At, IsChecked
<1>12. CASE ServerTakes(p)
  BY <1>0, <1>12, EndsAll DEF ServerTakes, PushStage, Stage
<1> QED
  BY <1>0, <1>1, <1>2, <1>3, <1>4, <1>5, <1>6, <1>7, <1>8, <1>9, <1>10, <1>11, <1>12
  DEF ProcStep, Planning, PushStep


\* The record of another process, and what it stands for, outlives a step.
LEMMA OthersKeep ==
  ASSUME Inv, NEW o \in Procs, proc'[o] = proc[o], checked \subseteq checked', Refs',
         \A r \in BaseRefs : remote[r] <= remote'[r] /\ tracking[r] <= tracking'[r]
  PROVE  /\ ConfigStage(o)'
         /\ o \in Runs => RunStage(o)'
         /\ o \in Pushes => PushStage(o)'
<1>0. Refs /\ ConfigStage(o) /\ (o \in Runs => RunStage(o)) /\ (o \in Pushes => PushStage(o))
  BY DEF Inv, Stages
<1>1. ConfigStage(o)'
  BY <1>0 DEF ConfigStage, Stage
<1>2. ASSUME o \in Runs PROVE RunStage(o)'
  BY <1>0, <1>2 DEF RunStage, Stage, IsChecked
<1>3. ASSUME o \in Pushes PROVE PushStage(o)'
  <2>1. ASSUME ~Stage(o, {"idle", "ended"})
        PROVE  /\ proc[o].since \in [BaseRefs -> Nat]
               /\ \A r \in BaseRefs : proc[o].since[r] <= remote'[r]
    BY <1>0, <1>3, <2>1 DEF PushStage, Refs
  <2>2. ASSUME Stage(o, {"record", "plan", "read"})
        PROVE  proc[o].since[proc[o].config.base] <= tracking'[proc[o].config.base]
    <3>1. proc[o].config.base \in BaseRefs /\ proc[o].since \in [BaseRefs -> Nat]
      BY <1>0, <1>3, <2>2 DEF ConfigStage, PushStage, Stage
    <3> QED
      BY <1>0, <1>3, <2>2, <3>1 DEF PushStage, Refs
  <2> QED
    BY <1>0, <1>3, <2>1, <2>2 DEF PushStage, Stage, IsChecked
<1> QED
  BY <1>1, <1>2, <1>3

LEMMA EvidenceStep ==
  ASSUME Inv, NEW p \in Procs, ProcStep(p), checked \subseteq checked'
  PROVE  EvidenceStage'
<1>1. CASE p \in Runs /\ ReplaceEvidence(p)
  <2>1. IsChecked(proc[p].record.change) /\ evidence' = proc[p].record
    BY <1>1 DEF ReplaceEvidence, At, Inv, Stages, RunStage, Stage
  <2> QED
    BY <2>1 DEF EvidenceStage, IsChecked
<1>2. CASE ~(p \in Runs /\ ReplaceEvidence(p))
  <2>1. UNCHANGED evidence
    BY <1>2 DEF ProcStep, Planning, RunStep, PushStep, Load, RequireCleanHead,
      RefreshAuthoritativeBase, PlanBegin, PlanRead, PlanEnd, Stop, Kill, StartRun,
      RequireTrustedReviewPolicy, CreateIntegration, ExecuteChecks, RemoveIntegration, Recheck,
      ComparePlans, ScanWorkspace, InstallPrePushHook, WriteBegin, WritePayload, StartPush,
      ReadEvidence, VerifyEvidence, VerifyUpdates, ServerTakes, Reads, world, files
  <2> QED
    BY <2>1 DEF Inv, EvidenceStage, IsChecked
<1> QED
  BY <1>1, <1>2

\* A patch that is safe and held to the policy keeps the third promise.
LEMMA SafeAndHeld ==
  ASSUME NEW change, NEW boot, PatchIsSafe(change, boot), PolicyHeld(change, boot)
  PROVE  LET base == BasePolicy[change.tip]  head == HeadPolicy[change.head] IN
         /\ base # None => /\ head.config = base.config /\ head.rules = base.rules
                           /\ head.fixtures # base.fixtures => base.fixtures = {}
         /\ Secrets[change.head] \subseteq Documented(base) \cup BaseSecrets[change.tip]
<1> DEFINE base == BasePolicy[change.tip]
           head == HeadPolicy[change.head]
<1>1. ASSUME base # None
      PROVE  /\ head.config = base.config /\ head.rules = base.rules
             /\ boot \/ base.fixtures = head.fixtures
  BY <1>1 DEF PolicyHeld, Bootstraps, TrustedCheckPolicy
<1>2. ASSUME boot
      PROVE  Documented(base) = {} /\ Documented(head) \subseteq BaseSecrets[change.tip]
             /\ Secrets[change.head] \ Documented(head) = {}
  BY <1>2 DEF PatchIsSafe, ManifestAllowed, FixtureManifest, Scanned
<1>3. ASSUME ~boot PROVE Secrets[change.head] \ Documented(base) = {}
  BY <1>3 DEF PatchIsSafe, FixtureManifest, Scanned
<1>4. Secrets[change.head] \subseteq Documented(base) \cup BaseSecrets[change.tip]
  BY <1>2, <1>3
<1>5. ASSUME base # None, head.fixtures # base.fixtures PROVE base.fixtures = {}
  BY <1>1, <1>2, <1>5 DEF Documented
<1> QED
  BY <1>1, <1>4, <1>5

LEMMA PromisesStep ==
  ASSUME Inv, NEW p \in Procs, ProcStep(p), checked \subseteq checked'
  PROVE  Promises'
<1>0. Promises
  BY DEF Inv
<1>1. CASE p \in Pushes /\ ServerTakes(p)
  <2> DEFINE s == proc[p]
             push == [by |-> p, head |-> s.push.oid, to |-> s.push.to, old |-> s.push.old,
                      tip |-> s.change.tip, since |-> s.since[s.change.tip[1]]]
  <2>1. accepted' = accepted \cup {push} /\ At(p, "push")
    BY <1>1 DEF ServerTakes
  <2>a. push.head = s.push.oid /\ push.to = s.push.to /\ push.old = s.push.old
        /\ push.tip = s.change.tip /\ push.since = s.since[s.change.tip[1]]
    OBVIOUS
  <2> HIDE DEF push
  <2>2. PushStage(p)
    BY <1>1 DEF Inv, Stages
  <2>3. /\ s.push.oid = s.change.head /\ s.push.to \notin Protected
        /\ s.push.old = None \/ <<s.push.old, s.push.oid>> \in Ancestors
        /\ s.change.tip[2] >= s.since[s.change.tip[1]]
        /\ IsChecked(s.change) /\ PatchIsSafe(s.change, s.boot) /\ PolicyHeld(s.change, s.boot)
    BY <2>1, <2>2 DEF PushStage, Stage, At
  <2>4. PushedWasChecked'
    <3>1. <<push.tip, push.head>> \in checked'
      BY <2>a, <2>3 DEF IsChecked, IntegrationTree
    <3> QED
      BY <1>0, <2>1, <3>1 DEF Promises, PushedWasChecked
  <2>5. PushIsFresh'
    BY <1>0, <2>1, <2>a, <2>3 DEF Promises, PushIsFresh
  <2>6. PushedUnderBasePolicy'
    <3>1. LET base == BasePolicy[push.tip]  head == HeadPolicy[push.head] IN
          /\ base # None => /\ head.config = base.config /\ head.rules = base.rules
                            /\ head.fixtures # base.fixtures => base.fixtures = {}
          /\ Secrets[push.head] \subseteq Documented(base) \cup BaseSecrets[push.tip]
      BY <2>a, <2>3, SafeAndHeld
    <3> QED
      BY <1>0, <2>1, <3>1 DEF Promises, PushedUnderBasePolicy
  <2> QED
    BY <2>4, <2>5, <2>6 DEF Promises
<1>2. CASE ~(p \in Pushes /\ ServerTakes(p))
  <2>1. UNCHANGED accepted
    BY <1>2 DEF ProcStep, Planning, RunStep, PushStep, Load, RequireCleanHead,
      RefreshAuthoritativeBase, PlanBegin, PlanRead, PlanEnd, Stop, Kill, StartRun,
      RequireTrustedReviewPolicy, CreateIntegration, ExecuteChecks, RemoveIntegration, Recheck,
      ComparePlans, ScanWorkspace, InstallPrePushHook, WriteBegin, WritePayload, ReplaceEvidence,
      StartPush, ReadEvidence, VerifyEvidence, VerifyUpdates, Reads
  <2> QED
    BY <1>0, <2>1 DEF Promises, PushedWasChecked, PushIsFresh, PushedUnderBasePolicy
<1> QED
  BY <1>1, <1>2
-----------------------------------------------------------------------------
\* The developer, the server and the clock
Around == Edit \/ Commit \/ Switch \/ BaseMoves \/ OtherPush \/ Tick \/ RemoveStale

LEMMA AroundStep ==
  ASSUME Inv, Around \/ UNCHANGED vars
  PROVE  Inv'
<1>1. UNCHANGED <<proc, evidence, tracking, checked, accepted>>
  BY DEF Around, Edit, Commit, Switch, BaseMoves, OtherPush, Tick, RemoveStale, Outside, vars, world,
    files
<1>2. Refs' /\ \A r \in BaseRefs : remote[r] <= remote'[r] /\ tracking[r] <= tracking'[r]
  <2>1. CASE Commit
    BY <2>1 DEF Commit, Inv, Refs
  <2>2. CASE BaseMoves
    BY <2>2 DEF BaseMoves, Inv, Refs
  <2>3. CASE Switch
    BY <2>3 DEF Switch, Inv, Refs
  <2>4. CASE Edit \/ OtherPush \/ Tick \/ RemoveStale \/ UNCHANGED vars
    BY <2>4 DEF Edit, OtherPush, Tick, RemoveStale, vars, world, Inv, Refs
  <2> QED
    BY <2>1, <2>2, <2>3, <2>4 DEF Around
<1>3. Shape' /\ EvidenceStage' /\ Promises'
  BY <1>1 DEF Inv, Shape, EvidenceStage, IsChecked, Promises, PushedWasChecked, PushIsFresh,
    PushedUnderBasePolicy
<1>4. Stages'
  BY <1>1, <1>2, OthersKeep DEF Stages, Procs
<1> QED
  BY <1>2, <1>3, <1>4 DEF Inv

LEMMA ProcInv ==
  ASSUME Inv, NEW p \in Procs, ProcStep(p)
  PROVE  Inv'
<1>1. /\ Refs' /\ checked \subseteq checked' /\ UNCHANGED remote
      /\ \A r \in BaseRefs : tracking[r] <= tracking'[r]
  BY RefsStep
<1>2. \A r \in BaseRefs : remote[r] <= remote'[r] /\ tracking[r] <= tracking'[r]
  BY <1>1 DEF Inv, Refs
<1>3. Shape' /\ \A o \in Procs \ {p} : proc'[o] = proc[o]
  BY ShapeStep DEF Inv
<1>4. ASSUME NEW o \in Procs \ {p}
      PROVE  /\ ConfigStage(o)'
             /\ o \in Runs => RunStage(o)'
             /\ o \in Pushes => PushStage(o)'
  BY <1>1, <1>2, <1>3, OthersKeep
<1>5. ConfigStage(p)' /\ (p \in Runs => RunStage(p)') /\ (p \in Pushes => PushStage(p)')
  BY <1>1, ConfigStep, RunStageStep, PushStageStep
<1>6. Stages'
  BY <1>4, <1>5 DEF Stages, Procs
<1> QED
  BY <1>1, <1>3, <1>6, EvidenceStep, PromisesStep DEF Inv

LEMMA NextInv == ASSUME Inv, [Next]_vars PROVE Inv'
<1>1. CASE Around \/ UNCHANGED vars
  BY <1>1, AroundStep
<1>2. CASE \E p \in Procs : ProcStep(p)
  BY <1>2, ProcInv
<1> QED
  BY <1>1, <1>2 DEF Next, Around, ProcStep, Procs

LEMMA InitInv == Init => Inv
<1> SUFFICES ASSUME Init PROVE Inv
  OBVIOUS
<1>1. State(Idle)
  BY DEF Idle, State, Names
<1>2. Shape
  BY <1>1 DEF Init, Shape, State
<1>3. Refs
  BY DEF Init, Refs
<1>4. \A p \in Procs : proc[p].pc = "idle" /\ proc[p].first = None
  BY DEF Init, Idle
<1>5. Stages
  BY <1>4 DEF Stages, ConfigStage, RunStage, PushStage, Stage, Procs
<1>6. EvidenceStage /\ Promises
  BY DEF Init, EvidenceStage, Promises, PushedWasChecked, PushIsFresh, PushedUnderBasePolicy
<1> QED
  BY <1>2, <1>3, <1>5, <1>6 DEF Inv

LEMMA Invariance == Spec => []Inv
<1>1. Init => Inv
  BY InitInv
<1>2. Inv /\ [Next]_vars => Inv'
  BY NextInv
<1> QED
  BY <1>1, <1>2, PTL DEF Spec
-----------------------------------------------------------------------------
\* A push the hook let through carries a head whose merge with the base the hook
\* planned against passed the checks of some run, in any repository and whatever the
\* developer, the server and other runs did between the run and the push.
THEOREM PushedWasCheckedAlways == Spec => []PushedWasChecked
<1>1. Inv => PushedWasChecked
  BY DEF Inv, Promises
<1> QED
  BY <1>1, Invariance, PTL

\* It went to the unprotected branch the evidence names, over an ancestor or nothing,
\* and was planned on a base no older than the server's when git began: the refresh of
\* the hook itself is what makes the last part true, the evidence may be older.
THEOREM PushFreshAlways == Spec => []PushIsFresh
<1>1. Inv => PushIsFresh
  BY DEF Inv, Promises
<1> QED
  BY <1>1, Invariance, PTL

\* Its governed files are those of the base, the fixture manifest of a bootstrap
\* excepted, and no secret-like line is in it that base or bootstrap do not document.
THEOREM BasePolicyAlways == Spec => []PushedUnderBasePolicy
<1>1. Inv => PushedUnderBasePolicy
  BY DEF Inv, Promises
<1> QED
  BY <1>1, Invariance, PTL
=============================================================================
