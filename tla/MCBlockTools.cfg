SPECIFICATION Spec
CONSTANTS
  BYTE_BITS = 3
  HASH_LEN = 2
  MaxHops = 2
  WINDOW = 2
  MaxTxs = 2
  MaxHeight = 4
  MaxRounds = 3
  BYTE = 32
  OP_PUSHDATA1 = 5
  SMALL = 3
  MaxItems = 2
  MaxChanges = 1
  NumOutputs = 1
  SIZE = 43
  ORDER = 31
  BITS = 6
  DER_BITS = 3
  SomeSecrets = {1, 3, 16, 30}
  SomeHashes = {0, 1, 33}
  REKEY_INTERVAL = 3
  BLOCK = 4
  KEY = 2
  LENGTH_FIELD_LEN = 3
  Contents = {0, 4}
  MaxPackets = 7
  COINBASE_MATURITY = 2
  SUBSIDY = 6
  MaxBlocks = 1
  MaxIds = 2
  HEX = 4
  MaxDigits = 8
INVARIANTS
  SentOnUnchanged
  CompactRebuilds
  BlocksValid
  ScriptReadsBack
  SignaturesHold
  SignaturesVerify
  EllswiftAgrees
  KeystreamOnce
  WalletCoinsSpendable
  TargetRounding
CHECK_DEADLOCK FALSE
