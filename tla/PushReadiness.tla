--------------------------- MODULE PushReadiness ---------------------------
(* scripts/lit-push-ready.py: a push-ready run checks the merge of the clean   *)
(* HEAD with the freshly fetched base and leaves an evidence file; the         *)
(* pre-push hook it installs lets a git push through only on evidence of the   *)
(* very tree, base, policy and branch it finds itself. Both run in a checkout  *)
(* that the developer edits, commits to and switches meanwhile, against a base *)
(* that moves, and a run may be killed at any point.                           *)
EXTENDS Integers

CONSTANTS
    None,
    Runs,          \* push-ready runs
    Pushes,        \* git pushes, each with its hook
    Branches,      \* local branches
    Protected,     \* develop and main
    Heads,         \* commits a branch may be at
    BaseRefs,      \* AUTHORITATIVE_BASE_REFS; a tip is <<ref, number>>
    BasePolicy,    \* tip -> the policy files of that base commit, or None
    HeadPolicy,    \* head -> the policy files of that commit, or None
    BaseSecrets,   \* tip -> secret-like lines in the base tree
    Secrets,       \* head -> secret-like lines in the patch
    Fork,          \* head -> number of the base commit it was branched from
    ManifestOnly,  \* heads that change nothing but the fixture manifest
    Conflicts,     \* pairs <<tip, head>> that do not merge
    Ancestors,     \* pairs <<head, head>>: the first is an ancestor of the second
    Edited,        \* the configuration an edited .lit/push-ready.json holds
    MaxMoves, MaxEdits, MaxClock, MaxFaults

Tips == BaseRefs \X (0..MaxMoves)
\* .lit/push-ready.json, of which the steps below use base_ref and max_age.
Configs == [base : BaseRefs, age : Nat]
\* The governed files of a commit: the configuration, the documented fixture
\* lines, and all the others as one version.
Policies == [config : Configs, fixtures : SUBSET Nat, rules : Nat]

ASSUME RepositoryAssumption ==
    /\ Protected \subseteq Branches
    /\ BasePolicy \in [Tips -> Policies \cup {None}]
    /\ HeadPolicy \in [Heads -> Policies \cup {None}]
    /\ BaseSecrets \in [Tips -> SUBSET Nat] /\ Secrets \in [Heads -> SUBSET Nat]
    /\ Fork \in [Heads -> 0..MaxMoves] /\ ManifestOnly \subseteq Heads
    /\ Conflicts \subseteq Tips \X Heads /\ Ancestors \subseteq Heads \X Heads
    /\ Edited \in Configs
    /\ {MaxMoves, MaxEdits, MaxClock, MaxFaults} \subseteq Nat
ASSUME ProcsAssumption == Runs \cap Pushes = {}

VARIABLES
    remote,    \* tips of the base branches on the server
    server,    \* the developer's branches on the server
    tracking,  \* refs/remotes/origin/*
    local,     \* [Branches -> Heads]
    branch,    \* the branch HEAD is attached to
    work,      \* the working tree: "clean", "file", "config" (edited), "hidden"
    hooked,    \* the pre-push hook is installed
    evidence,  \* .git/lit-push-ready-evidence.json
    dirs,      \* .lit-integration-* directories in the repository, by their run
    proc,      \* the runs and the hooks
    clock, edits, faults,
    checked,   \* <<tip, head>> whose merge passed the checks
    accepted   \* pushes the server took after their hook succeeded

world == <<remote, server, tracking, local, branch, work, clock, edits>>
files == <<hooked, evidence, dirs>>
vars == <<world, files, proc, faults, checked, accepted>>

Procs == Runs \cup Pushes
Head == local[branch]
Idle == [pc |-> "idle", config |-> None, boot |-> FALSE, push |-> None,
            since |-> None, record |-> None, print |-> None, change |-> None,
            first |-> None, branch |-> None]
----------------------------------------------------------------------------
(* What the engine reads from the checkout. *)

HiddenIndexEntries == work = "hidden"

\* json.loads of the file in the working tree; a commit without a policy has
\* no file to load.
LoadedConfig ==
    IF work \in {"config", "hidden"} THEN Edited
    ELSE IF HeadPolicy[Head] = None THEN None ELSE HeadPolicy[Head].config

\* The version, base_ref, the one quality profile, disabled agents, the review
\* policy, max_age and the remote-only checks.
ConfigAccepted(config) == config # None /\ config.age > 0

CleanHead == work = "clean" /\ HeadPolicy[Head] # None

\* HEAD, its diff to the working tree and index, and untracked files.
TreeFingerprint == <<Head, work>>

MergeBase(tip, head) ==
    <<tip[1], IF Fork[head] < tip[2] THEN Fork[head] ELSE tip[2]>>
----------------------------------------------------------------------------
(* The policy a change is held to. *)

\* The base knows no policy yet and the head brings all of it.
Bootstraps(change) == BasePolicy[change.tip] = None
BootstrapContract(change) == HeadPolicy[change.head] # None

\* Mutant: the governed scripts are not compared, only the configuration.
TrustedConfigOnly(change, boot) ==
    LET base == BasePolicy[change.tip]  head == HeadPolicy[change.head]
    IN  /\ base.config = head.config
        /\ boot \/ base.fixtures = head.fixtures

\* Every governed file is the base's, the manifest excepted while its own
\* bootstrap is under way.
TrustedCheckPolicy(change, boot) ==
    LET base == BasePolicy[change.tip]  head == HeadPolicy[change.head]
    IN  /\ base.config = head.config /\ base.rules = head.rules
        /\ boot \/ base.fixtures = head.fixtures

Documented(commit) == IF commit = None THEN {} ELSE commit.fixtures

\* A bootstrap documents lines the base has already, and does nothing else.
ManifestAllowed(change, boot) ==
    LET at == Documented(BasePolicy[change.tip])
        from == Documented(BasePolicy[MergeBase(change.tip, change.head)])
        head == Documented(HeadPolicy[change.head])
    IN  IF boot
          THEN /\ from # head /\ change.head \in ManifestOnly
               /\ at = {} /\ head # {} /\ head \subseteq BaseSecrets[change.tip]
          ELSE from = head

FixtureManifest(change, boot) ==
    Documented(IF boot THEN HeadPolicy[change.head] ELSE BasePolicy[change.tip])

\* The scan reads every line but those the manifest documents.
Scanned(lines, manifest) == lines \ manifest

\* The patch as it is read; an edit is taken to leave the secret-like lines of the
\* head in it.
PatchIsSafe(change, boot) ==
    /\ ManifestAllowed(change, boot)
    /\ Scanned(Secrets[change.head], FixtureManifest(change, boot)) = {}

IntegrationTree(change) == <<change.tip, change.head>>
Merges(change) == IntegrationTree(change) \notin Conflicts

\* The base with the planned patch applied, edits included that were there as
\* it was read, becomes the only commit of a new repository.
ReviewTree(change) == <<IntegrationTree(change), change.patch>>
SanitizedWorkspace(change) ==
    work = "clean" => ReviewTree(change) = <<IntegrationTree(change), "clean">>

\* What is in it is scanned.
WorkspaceIsSafe(change, boot) ==
    /\ ManifestAllowed(change, boot)
    /\ Scanned(Secrets[change.head] \cup BaseSecrets[change.tip],
               FixtureManifest(change, boot)) = {}
----------------------------------------------------------------------------
(* The developer, other users of the server, and time. *)

Edits == edits < MaxEdits /\ edits' = edits + 1
Outside == UNCHANGED <<files, proc, faults, checked, accepted>>

Edit ==
    /\ Edits /\ work' \in {"clean", "file", "config", "hidden"} \ {work}
    /\ UNCHANGED <<remote, server, tracking, local, branch, clock>> /\ Outside

Commit ==
    /\ Edits
    /\ \E h \in Heads \ {Head} : local' = [local EXCEPT ![branch] = h]
    /\ UNCHANGED <<remote, server, tracking, branch, work, clock>> /\ Outside

Switch ==
    /\ Edits /\ branch' \in Branches \ {branch}
    /\ UNCHANGED <<remote, server, tracking, local, work, clock>> /\ Outside

BaseMoves ==
    /\ \E r \in BaseRefs :
         /\ remote[r] < MaxMoves /\ remote' = [remote EXCEPT ![r] = @ + 1]
    /\ UNCHANGED <<server, tracking, local, branch, work, clock, edits>> /\ Outside

OtherPush ==
    /\ Edits
    /\ \E b \in Branches \ Protected, h \in Heads :
         server[b] # h /\ server' = [server EXCEPT ![b] = h]
    /\ UNCHANGED <<remote, tracking, local, branch, work, clock>> /\ Outside

Tick ==
    /\ clock < MaxClock /\ clock' = clock + 1
    /\ UNCHANGED <<remote, server, tracking, local, branch, work, edits>> /\ Outside

\* Someone removes what a killed run left behind.
RemoveStale ==
    /\ \E r \in dirs : proc[r].pc = "ended" /\ dirs' = dirs \ {r}
    /\ UNCHANGED <<world, hooked, evidence, proc, faults, checked, accepted>>
----------------------------------------------------------------------------
(* Steps the two commands share. *)

At(p, pc) == proc[p].pc = pc
Becomes(p, state) == proc' = [proc EXCEPT ![p] = state]
Goes(p, pc) == Becomes(p, [proc[p] EXCEPT !.pc = pc])
Ends(p) == Becomes(p, [Idle EXCEPT !.pc = "ended"])
Reads(p) == UNCHANGED <<world, files, faults, checked, accepted>>

\* load_config; the instruction contract and the index are looked at before.
Load(p) ==
    /\ At(p, "load") /\ ~HiddenIndexEntries /\ ConfigAccepted(LoadedConfig)
    /\ Becomes(p, [proc[p] EXCEPT !.pc = "clean", !.config = LoadedConfig])
    /\ Reads(p)

RequireCleanHead(p) ==
    /\ At(p, "clean") /\ CleanHead
    /\ Goes(p, "refresh") /\ Reads(p)

\* Mutant: the hook trusts the tracking ref of the last fetch.
RefreshOnlyInRuns(p) ==
    /\ At(p, "refresh")
    /\ LET r == proc[p].config.base
       IN  tracking' = [tracking EXCEPT ![r] = IF p \in Runs THEN remote[r] ELSE @]
    /\ Goes(p, IF p \in Pushes THEN "record" ELSE "plan")
    /\ UNCHANGED <<remote, server, local, branch, work, clock, edits>>
    /\ UNCHANGED <<files, faults, checked, accepted>>

RefreshAuthoritativeBase(p) ==
    /\ At(p, "refresh")
    /\ LET r == proc[p].config.base IN tracking' = [tracking EXCEPT ![r] = remote[r]]
    /\ Goes(p, IF p \in Pushes THEN "record" ELSE "plan")
    /\ UNCHANGED <<remote, server, local, branch, work, clock, edits>>
    /\ UNCHANGED <<files, faults, checked, accepted>>

\* planned_change: the fingerprint, then the refs and the diff, then the
\* fingerprint again.
PlanBegin(p) ==
    /\ At(p, "plan") /\ dirs = {} /\ ~HiddenIndexEntries
    /\ Becomes(p, [proc[p] EXCEPT !.pc = "read", !.print = TreeFingerprint])
    /\ Reads(p)

PlanRead(p) ==
    /\ At(p, "read")
    /\ LET r == proc[p].config.base
       IN  Becomes(p, [proc[p] EXCEPT !.pc = "end",
              !.change = [tip |-> <<r, tracking[r]>>, head |-> Head,
                             patch |-> work, print |-> proc[p].print]])
    /\ Reads(p)

PlanEnd(p) ==
    /\ At(p, "end") /\ ~HiddenIndexEntries /\ TreeFingerprint = proc[p].print
    /\ PatchIsSafe(proc[p].change, proc[p].boot)
    /\ Goes(p, CASE p \in Pushes -> "verify"
                 [] p \in Runs /\ proc[p].first = None -> "policy"
                 [] OTHER -> "compare")
    /\ Reads(p)

Planning(p) ==
    \/ Load(p) \/ RequireCleanHead(p) \/ RefreshAuthoritativeBase(p)
    \/ PlanBegin(p) \/ PlanRead(p) \/ PlanEnd(p)

\* Exit 1 on a condition that does not hold or an operation that fails; the
\* integration directory is removed on the way out.
Stop(p) ==
    /\ proc[p].pc \notin {"idle", "ended"} /\ Ends(p)
    /\ dirs' = dirs \ {p}
    /\ UNCHANGED <<world, hooked, evidence, faults, checked, accepted>>

\* Killed, or the directory cannot be removed.
Kill(p) ==
    /\ p \in dirs /\ faults < MaxFaults /\ faults' = faults + 1
    /\ Ends(p) /\ UNCHANGED <<world, files, checked, accepted>>
----------------------------------------------------------------------------
(* push-ready: produce_evidence. *)

StartRun(r) ==
    /\ At(r, "idle")
    /\ \E boot \in BOOLEAN :
         Becomes(r, [proc[r] EXCEPT !.pc = "load", !.boot = boot])
    /\ Reads(r)

RequireTrustedReviewPolicy(r) ==
    /\ At(r, "policy") /\ branch \notin Protected
    /\ BootstrapContract(proc[r].change)
    /\ ~Bootstraps(proc[r].change) => TrustedCheckPolicy(proc[r].change, proc[r].boot)
    /\ Becomes(r, [proc[r] EXCEPT !.pc = "merge", !.branch = branch])
    /\ Reads(r)

\* merge-tree, the synthetic commit and a worktree of it in a new directory.
CreateIntegration(r) ==
    /\ At(r, "merge") /\ Merges(proc[r].change)
    /\ dirs' = dirs \cup {r} /\ Goes(r, "check")
    /\ UNCHANGED <<world, hooked, evidence, faults, checked, accepted>>

\* The quality profile runs in the worktree, with a minimal environment and a
\* deadline; it must leave the worktree as it found it.
Outcomes == {"passed", "failed", "timed out", "changed the worktree"}

ExecuteChecks(r) ==
    /\ At(r, "check")
    /\ \E outcome \in Outcomes :
         IF outcome = "passed"
           THEN /\ checked' = checked \cup {IntegrationTree(proc[r].change)}
                /\ Goes(r, "cleanup") /\ UNCHANGED dirs
           ELSE /\ Ends(r) /\ dirs' = dirs \ {r} /\ UNCHANGED checked
    /\ UNCHANGED <<world, hooked, evidence, faults, accepted>>

RemoveIntegration(r) ==
    /\ At(r, "cleanup") /\ dirs' = dirs \ {r} /\ Goes(r, "recheck")
    /\ UNCHANGED <<world, hooked, evidence, faults, checked, accepted>>

\* The checkout is still what was planned; the change is planned once more.
Recheck(r) ==
    /\ At(r, "recheck") /\ CleanHead
    /\ Head = proc[r].change.head /\ branch = proc[r].branch
    /\ TreeFingerprint = proc[r].change.print
    /\ Becomes(r, [proc[r] EXCEPT !.pc = "plan", !.first = proc[r].change])
    /\ Reads(r)

ComparePlans(r) ==
    /\ At(r, "compare") /\ proc[r].change = proc[r].first
    /\ Goes(r, "scan") /\ Reads(r)

\* run_agent_reviews, which runs no agent, between two fingerprints.
ScanWorkspace(r) ==
    /\ At(r, "scan") /\ ~HiddenIndexEntries
    /\ TreeFingerprint = proc[r].change.print
    /\ Merges(proc[r].change) /\ SanitizedWorkspace(proc[r].change)
    /\ WorkspaceIsSafe(proc[r].change, proc[r].boot)
    /\ Goes(r, "install") /\ Reads(r)

\* The hook is written, or found as it has to be.
InstallPrePushHook(r) ==
    /\ At(r, "install") /\ hooked' = TRUE /\ Goes(r, "write")
    /\ UNCHANGED <<world, evidence, dirs, faults, checked, accepted>>

WriteBegin(r) ==
    /\ At(r, "write") /\ ~HiddenIndexEntries
    /\ TreeFingerprint = proc[r].change.print
    /\ Becomes(r, [proc[r] EXCEPT !.pc = "payload", !.since = clock])
    /\ Reads(r)

\* The branch and the configuration are read again as the record is built.
WritePayload(r) ==
    /\ At(r, "payload") /\ branch \notin Protected /\ LoadedConfig # None
    /\ Becomes(r, [proc[r] EXCEPT !.pc = "replace",
          !.record = [change |-> proc[r].change, branch |-> branch,
                         config |-> LoadedConfig, boot |-> proc[r].boot,
                         new |-> Bootstraps(proc[r].change),
                         completed |-> proc[r].since]])
    /\ Reads(r)

\* A synced temporary file takes the name. The verification that follows
\* changes nothing.
ReplaceEvidence(r) ==
    /\ At(r, "replace") /\ evidence' = proc[r].record /\ Ends(r)
    /\ UNCHANGED <<world, hooked, dirs, faults, checked, accepted>>

RunStep(r) ==
    \/ StartRun(r) \/ RequireTrustedReviewPolicy(r) \/ CreateIntegration(r)
    \/ ExecuteChecks(r) \/ RemoveIntegration(r) \/ Recheck(r) \/ ComparePlans(r)
    \/ ScanWorkspace(r) \/ InstallPrePushHook(r) \/ WriteBegin(r)
    \/ WritePayload(r) \/ ReplaceEvidence(r)
----------------------------------------------------------------------------
(* git push and its pre-push hook. *)

\* git resolves the refs and asks the server before it calls the hook.
StartPush(q) ==
    /\ At(q, "idle") /\ hooked
    /\ \E from, to \in Branches :
         Becomes(q, [proc[q] EXCEPT !.pc = "load", !.since = remote,
           !.push = [from |-> from, to |-> to, oid |-> local[from], old |-> server[to]]])
    /\ Reads(q)

ReadEvidence(q) ==
    /\ At(q, "record") /\ evidence # None
    /\ clock - evidence.completed <= proc[q].config.age
    /\ Becomes(q, [proc[q] EXCEPT !.pc = "plan", !.record = evidence,
                            !.boot = evidence.boot])
    /\ Reads(q)

\* Mutant: the record binds the head and the tree, not the base tip.
VerifyHeadOnly(q) ==
    LET change == proc[q].change  record == proc[q].record
    IN  /\ At(q, "verify")
        /\ BootstrapContract(change) /\ record.new = Bootstraps(change)
        /\ ~record.new => TrustedCheckPolicy(change, record.boot)
        /\ Merges(change) /\ branch \notin Protected
        /\ record.change.head = change.head /\ record.change.print = change.print
        /\ record.branch = branch /\ record.config = LoadedConfig
        /\ Goes(q, "update") /\ Reads(q)

\* Everything the record binds is computed anew and compared.
VerifyEvidence(q) ==
    LET change == proc[q].change  record == proc[q].record
    IN  /\ At(q, "verify")
        /\ BootstrapContract(change) /\ record.new = Bootstraps(change)
        /\ ~record.new => TrustedCheckPolicy(change, record.boot)
        /\ Merges(change) /\ branch \notin Protected
        /\ record.change = change /\ record.branch = branch
        /\ record.config = LoadedConfig
        /\ Goes(q, "update") /\ Reads(q)

\* One update, of the bound branch to the bound commit, that only adds to what
\* the server has.
VerifyUpdates(q) ==
    LET push == proc[q].push  record == proc[q].record
    IN  /\ At(q, "update")
        /\ push.from = record.branch /\ push.to = record.branch
        /\ push.oid = record.change.head
        /\ push.old = None \/ <<push.old, push.oid>> \in Ancestors
        /\ Goes(q, "push") /\ Reads(q)

\* The server takes the update if its branch is still what git was told.
ServerTakes(q) ==
    LET push == proc[q].push
    IN  /\ At(q, "push") /\ server[push.to] = push.old
        /\ server' = [server EXCEPT ![push.to] = push.oid]
        /\ accepted' = accepted \cup {[by |-> q, head |-> push.oid, to |-> push.to,
                old |-> push.old, tip |-> proc[q].change.tip,
                since |-> proc[q].since[proc[q].change.tip[1]]]}
        /\ Ends(q)
        /\ UNCHANGED <<remote, tracking, local, branch, work, clock, edits>>
        /\ UNCHANGED <<files, faults, checked>>

PushStep(q) ==
    \/ StartPush(q) \/ ReadEvidence(q) \/ VerifyEvidence(q) \/ VerifyUpdates(q)
    \/ ServerTakes(q)
----------------------------------------------------------------------------
Init ==
    /\ remote = [r \in BaseRefs |-> 0] /\ tracking = remote
    /\ server = [b \in Branches |-> None]
    /\ local \in {[b \in Branches |-> h] : h \in Heads} /\ branch \in Branches \ Protected
    /\ work = "clean" /\ hooked = FALSE /\ evidence = None /\ dirs = {}
    /\ proc = [p \in Procs |-> Idle]
    /\ clock = 0 /\ edits = 0 /\ faults = 0
    /\ checked = {} /\ accepted = {}

Next ==
    \/ Edit \/ Commit \/ Switch \/ BaseMoves \/ OtherPush \/ Tick \/ RemoveStale
    \/ \E p \in Procs : Planning(p) \/ Stop(p) \/ Kill(p)
    \/ \E r \in Runs : RunStep(r)
    \/ \E q \in Pushes : PushStep(q)

Spec == Init /\ [][Next]_vars
----------------------------------------------------------------------------
(* What the hook promises about a push it let through. *)

\* A push that passed the hook carries a head whose merge with the base the
\* hook planned against has passed the checks, whatever was edited, committed,
\* switched or fetched between the run, the evidence and the push.
PushedWasChecked == \A p \in accepted : <<p.tip, p.head>> \in checked

\* ... it went to the branch of that name, which held an ancestor or nothing,
\* and was planned on a base no older than the one the server had as it began.
PushIsFresh ==
    \A p \in accepted :
        /\ p.to \notin Protected
        /\ p.old = None \/ <<p.old, p.head>> \in Ancestors
        /\ p.tip[2] >= p.since

\* ... its governed files are the base's, or the base has none; and no line of
\* it looks like a secret but those the base documents, or its own manifest
\* does, if that only names lines the base has.
PushedUnderBasePolicy ==
    \A p \in accepted :
        LET base == BasePolicy[p.tip]  head == HeadPolicy[p.head]
        IN  /\ base # None => /\ head.config = base.config /\ head.rules = base.rules
                              /\ head.fixtures # base.fixtures => base.fixtures = {}
            /\ Secrets[p.head] \subseteq Documented(base) \cup BaseSecrets[p.tip]
============================================================================
