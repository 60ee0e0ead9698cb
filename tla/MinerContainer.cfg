SPECIFICATION Spec
CONSTANTS
  Wallets = {"custom_signet", "miner"}
  MaxFaults = 3
  MaxStops = 2
INVARIANTS
  MinerCanSign
  SameNetwork
  StopFlushes
PROPERTIES
  NoSilentContainer
  Recovers
CHECK_DEADLOCK FALSE
