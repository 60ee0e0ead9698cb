SPECIFICATION Spec
CONSTANTS
  LegacyTls = {0}
  MaxFaults = 1
  MaxResets = 1
INVARIANTS
  NoForeignPeer
  TlsPairServed
  BackupIsLegacyPair
PROPERTIES
  BothServe
CHECK_DEADLOCK FALSE
