CONSTANTS
  MaxUnitBytes = 3
  MaxUnits = 3
  MaxGroups = 2
  MaxReviews = 3
  MaxSize = 6
  Payloads <- MCPayloads
SPECIFICATION PlanSpec
INVARIANTS
  PlannedUnitsCover
  RefusedOnlyIfUncoverable
CHECK_DEADLOCK FALSE
