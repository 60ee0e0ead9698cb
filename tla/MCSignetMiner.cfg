SPECIFICATION Spec
CONSTANTS
  m1 = m1
  m2 = m2
  Miners = {m1, m2}
  Args <- TwoMiners
  FaultyMiners = {}
  Restartable = {}
  SetTimeOffsets = {}
  INTERVAL = 2
  Backdate = 1
  FutureMargin = 1
  MaxFutureBlockTime = 2
  MTP_SPAN = 3
  SleepCap = 2
  LateSleepCap = 1
  Rands = {0, 1}
  Variances = {2}
  VarUnit = 2
  BitsAt <- Bits
  GenesisTime = 1
  StartClock = 2
  MaxClock = 5
  MaxHeight = 3
  MaxReorgs = 0
INVARIANTS
  TypeOK
  NoTimestampReject
  BackupPatience
  OnSchedule
  ForksOnlyInRace
  SomeMinerSurvives
CHECK_DEADLOCK FALSE
PROPERTIES
  ImplementsSchedule
