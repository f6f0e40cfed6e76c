CONSTANTS
  Size = 9
  MinUsage = 3
  Fixed = 2
  DataWords <- MCDataWords
SPECIFICATION FairSpec
INVARIANTS TypeOK NoOverlap LooksEmptyIffEmpty NothingLeaks ReaderOnChain
PROPERTIES PoolRecovers ImplementsPool
