CONSTANTS
  Size = 14
  MinUsage = 3
  HdrWords = 2
  MinSize = 5
  MaxUse = 5
  DataWords <- MCDataWords
SPECIFICATION TxFairSpec
INVARIANT LooksEmptyIffEmpty
