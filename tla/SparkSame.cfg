SPECIFICATION Spec
CONSTANTS
  LegacyTls = {0}
  MaxFaults = 0
  MaxResets = 0
INVARIANTS
  SameOperators
CHECK_DEADLOCK FALSE
