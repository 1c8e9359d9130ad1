SPECIFICATION Spec
CONSTANTS
  None = None
  Runs = {r1}
  Pushes = {q1}
  Branches = {b1, develop}
  Protected = {develop}
  Heads = {"a", "m", "s", "x"}
  BaseRefs = {"develop", "main"}
  BasePolicy <- MCBasePolicy
  HeadPolicy <- MCHeadPolicy
  BaseSecrets <- MCBaseSecrets
  Secrets <- MCSecrets
  Fork <- MCFork
  ManifestOnly = {"m"}
  Conflicts <- MCConflicts
  Ancestors <- MCAncestors
  Edited <- MCEdited
  MaxMoves = 1
  MaxEdits = 2
  MaxClock = 2
  MaxFaults = 1
INVARIANTS PushedWasChecked PushIsFresh PushedUnderBasePolicy
CHECK_DEADLOCK FALSE
