SPECIFICATION FairSpec
CONSTANTS
  old = old
  new = new
  Torn = Torn
  NoSum = NoSum
  NoWriter = NoWriter
  Contents = {old, new}
  Writers = {w1, w2}
  Requests <- RaceRequests
  DirSync = TRUE
  MaxForeign = 1
  MaxFaults = 0
INVARIANTS WritersApart
PROPERTIES Finishes LockReturned
