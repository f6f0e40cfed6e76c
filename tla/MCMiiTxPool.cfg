CONSTANTS
  Size = 14
  MinUsage = 3
  HdrWords = 2
  MinSize = 5
  MaxUse = 4
  DataWords <- MCDataWords
SPECIFICATION TxFairSpec
INVARIANTS PoolTypeOK CommitNeverRefused
PROPERTIES TxPoolRecovers ImplementsPool
