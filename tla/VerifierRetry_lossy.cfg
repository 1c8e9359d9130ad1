SPECIFICATION Spec
CONSTANTS
  NoRecord = NoRecord
  Total = 3
  Reserve = 1
  Cooldown <- ShortCooldown
  MaxClock = 2
  MaxRuns = 2
  MaxOther = 1
  MaxTrouble = 1
INVARIANTS ConsumedBeforePost NoFalseDrift OwnerIsFirst AcceptedWasPosted
PROPERTIES TerminalIsFinal
CHECK_DEADLOCK FALSE
