SPECIFICATION Spec
CONSTANTS
  Txs = {1, 2, 3, 4}
  CONFIRMATIONS = 2
  MAX_AGE = 0
  MaxDepth = 1
  MaxReorgs = 1
  MaxFaults = 2
  CONSOLIDATE_INTERVAL = 2
  Ladder = 2
  MaxRuns = 2
INVARIANTS ClaimsConfirmed DepositsAccounted
PROPERTIES MiningGoesOn FundingEnds
CHECK_DEADLOCK FALSE
