SPECIFICATION Spec
CONSTANTS
  m1 = m1
  m2 = m2
  Miners = {m1, m2}
  Args <- StandbyAndSetTime
  FaultyMiners = {m2}
  Restartable = {m2}
  SetTimeOffsets = {1}
  INTERVAL = 1
  Backdate = 1
  FutureMargin = 1
  MaxFutureBlockTime = 2
  MTP_SPAN = 2
  SleepCap = 2
  LateSleepCap = 1
  Rands = {1}
  Variances = {2}
  VarUnit = 2
  BitsAt <- Bits
  GenesisTime = 0
  StartClock = 2
  MaxClock = 4
  MaxHeight = 2
  MaxReorgs = 1
INVARIANTS
  NoTimestampReject
  BackupPatience
  ForksOnlyInRace
CHECK_DEADLOCK FALSE
PROPERTIES
  ImplementsSchedule
