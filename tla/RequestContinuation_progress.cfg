SPECIFICATION FairSpec
CONSTANTS
  NoRecord = NoRecord
  Heads = {h1, h2}
  Producers = {p1, p2}
  Resumes = {d1, d2}
  MaxMoves = 1
  MaxReviews = 1
  MaxAsks = 1
  MaxOther = 1
  MaxFaults = 1
INVARIANTS TypeOK RequestHasClaim ContinuedWasDeferred DeferredIsRecorded
PROPERTIES RerunExcludesRequest Continues
CHECK_DEADLOCK FALSE
