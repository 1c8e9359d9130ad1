SPECIFICATION Spec
CONSTANTS
  None = None
  Requests = {q1, q2}
  Reviews = 2
  PerSeconds = 2
  MaxSeconds = 5
  PerCost = 4
  MaxCost = 8
  Context = 3
  MaxInput = 2
  MaxOutput = 2
  PriceIn = 2
  PriceOut = 3
  Scale = 4
  MaxRequests = 2
  MaxClock = 6
SYMMETRY Symmetry
INVARIANTS CoverageNeedsEveryReview
PROPERTIES NothingSentAfterUnknown SpendsWithinLimit
CHECK_DEADLOCK FALSE
