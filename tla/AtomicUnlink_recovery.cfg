SPECIFICATION Spec
CONSTANTS
  own = own
  other = other
  Torn = Torn
  NoSum = NoSum
  Contents = {own, other}
  Removers = {r1}
  Requests <- MCRequests
  MaxForeign = 2
  MaxFaults = 2
PROPERTIES DescriptorStableRecovery
