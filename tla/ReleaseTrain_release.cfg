SPECIFICATION Spec
CONSTANTS
  Pushes <- MCPushes
  Policy <- MCPolicy
  Config = "configuration"
  Commit = "commit"
  Foreign = "foreign"
  AttemptNames <- MCAttemptNames
  MaxAttempts = 2
  MaxTroubles = 1
INVARIANTS
  AdmittedSupportWasTested
  AdmittedRunsAreInventoried
  AdmittedEvidenceIsClean
  CleanRunIsAdmitted
