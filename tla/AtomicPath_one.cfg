SPECIFICATION Spec
CONSTANTS
  old = old
  new = new
  Torn = Torn
  NoSum = NoSum
  NoWriter = NoWriter
  Contents = {old, new}
  Writers = {w1}
  Requests <- MCRequests
  DirSync = TRUE
  MaxForeign = 2
  MaxFaults = 2
INVARIANTS TypeOK NoTornTarget NoSilentLoss LeftoversReported
PROPERTIES ChangedIsCommitted UnchangedIsTruthful
