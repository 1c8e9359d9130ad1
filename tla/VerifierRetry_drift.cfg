SPECIFICATION Spec
CONSTANTS
  NoRecord = NoRecord
  Total = 3
  Reserve = 1
  Cooldown <- ShortCooldown
  MaxClock = 1
  MaxRuns = 2
  MaxOther = 0
  MaxTrouble = 2
PROPERTIES DriftStaysTerminal
CHECK_DEADLOCK FALSE
