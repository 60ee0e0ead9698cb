SPECIFICATION Spec
CONSTANTS
  LegacyTls = {0}
  MaxFaults = 1
  MaxResets = 0
INVARIANTS
  KeyOfIdentity
CHECK_DEADLOCK FALSE
