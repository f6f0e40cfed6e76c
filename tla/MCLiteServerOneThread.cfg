CONSTANTS
  Banks <- MCBanks
  Ats <- MCAts
  OneThread = TRUE
  MaxChanges = 1
  LinkChange = LinkChange
  NoPacket = NoPacket
SPECIFICATION FairSpec
PROPERTY TxReturns
CHECK_DEADLOCK FALSE
