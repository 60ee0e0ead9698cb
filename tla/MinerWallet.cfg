SPECIFICATION Spec
CONSTANTS
  Wallets = {"custom_signet", "miner"}
  MaxFaults = 1
  MaxStops = 0
INVARIANTS
  MinerWalletHasKey
CHECK_DEADLOCK FALSE
