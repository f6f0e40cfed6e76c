CONSTANTS
  BankWords = 13
  MAXPACKET = 6
  Lens <- MCLens
  MaxHeld = 1
  MaxEnds = 2
SPECIFICATION FairSpec
INVARIANTS TypeOK NoOverlap ReadHeaderKept
PROPERTIES ReceptionRestarts ImplementsPackets
