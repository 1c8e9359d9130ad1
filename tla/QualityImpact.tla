---------------------------- MODULE QualityImpact ----------------------------
\* Which quality profiles a change runs (scripts/select-quality-impact.py).
\*
\* A change has its event, head and base refs, whether the base commit is known,
\* its paths, and the source dependency inventory before and after it ("readable"
\* unless one of them is malformed or missing).  An inventory maps an entry to
\* its identity and its locations.  A path is the set of registered prefixes it
\* lies under.
EXTENDS RoleCoverage

\* _registry(): a family that declares acceptance also declares heavy.
PolicyWellFormed(policy) ==
  /\ DOMAIN policy.families # {}
  /\ \A f \in DOMAIN policy.families :
       /\ policy.families[f].profiles # {} /\ policy.families[f].profiles \subseteq Profiles
       /\ policy.families[f].prefixes # {}
       /\ "application_acceptance" \in policy.families[f].profiles =>
            "heavy" \in policy.families[f].profiles

\* Events that validate everything.
FullMatrix(change) ==
  \/ change.event = "workflow_dispatch"
  \/ change.event = "push" /\ change.head \in {"main", "tag"}
  \/ /\ change.event = "pull_request" /\ change.base = "main"
     /\ change.head \in {"develop", "release"}

Indeterminate(change) == change.event = "push" /\ ~change.baseKnown

\* The profiles of the families a path belongs to.
ProfilesOf(path, policy) ==
  UNION {policy.families[f].profiles :
           f \in {g \in DOMAIN policy.families : policy.families[g].prefixes \cap path # {}}}

\* The inventory entries that were added, removed or changed, with the locations
\* before and after.
ChangedEntries(change) ==
  LET before == change.before
      after == change.after
      locations(i, k) == IF k \in DOMAIN i THEN i[k].locations ELSE {}
  IN  {locations(before, k) \cup locations(after, k) :
         k \in {e \in DOMAIN before \cup DOMAIN after :
                  \/ e \notin DOMAIN before \cap DOMAIN after
                  \/ before[e] # after[e]}}

\* _dependency_impact(): what the changed entries select.  An entry without a
\* location, or outside every family, and an unreadable inventory select Tiny.
DependencyImpact(change, policy) ==
  LET profiles(locations) == UNION {ProfilesOf(p, policy) : p \in locations}
      entries == ChangedEntries(change)
  IN  IF ~change.inventory THEN {}
      ELSE IF ~change.readable THEN {"tiny"}
      ELSE UNION {profiles(e) : e \in entries}
           \cup {"tiny" : e \in {x \in entries : profiles(x) = {}}}

\* select(): a file outside every family and every safe prefix selects Tiny, and
\* never a profile that needs the protected runners.
Selected(change, policy) ==
  LET unknown == {p \in change.paths : ProfilesOf(p, policy) = {} /\ policy.safe \cap p = {}}
  IN  IF FullMatrix(change) \/ Indeterminate(change) THEN Profiles
      ELSE UNION {ProfilesOf(p, policy) : p \in change.paths}
           \cup DependencyImpact(change, policy)
           \cup {"tiny" : p \in unknown}

RuntimeEvidenceRequired(change, policy) ==
  Selected(change, policy) \cap {"heavy", "application_acceptance"} # {}
=============================================================================
