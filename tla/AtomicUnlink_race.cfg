SPECIFICATION Spec
CONSTANTS
  own = own
  other = other
  Torn = Torn
  NoSum = NoSum
  Contents = {own, other}
  Removers = {r1, r2}
  Requests <- MCRequests
  MaxForeign = 2
  MaxFaults = 1
INVARIANTS NoSilentLoss LeftoversReported RemovedOnce
PROPERTIES RestoresWhenFree
SYMMETRY Symmetry
