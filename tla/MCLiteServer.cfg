CONSTANTS
  Banks <- MCBanks
  Ats <- MCAts
  OneThread = FALSE
  MaxChanges = 2
  LinkChange = LinkChange
  NoPacket = NoPacket
SPECIFICATION FairSpec
INVARIANTS TypeOK InStep
PROPERTIES Delivered TxReturns
CHECK_DEADLOCK FALSE
