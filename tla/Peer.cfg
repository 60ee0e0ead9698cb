SPECIFICATION Spec
CONSTANTS
  KEY_LEN = 3
  MAX_GARBAGE_LEN = 1
  Top = 3
  MAX_HEADERS_RESULTS = 2
INVARIANTS NoFalseAlarm SyncMeansProcessed OfferArrives NothingLeftBehind
PROPERTY TestPasses
CHECK_DEADLOCK FALSE
