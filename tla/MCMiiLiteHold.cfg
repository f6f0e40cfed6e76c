CONSTANTS
  BankWords = 13
  MAXPACKET = 6
  Lens <- MCLens
  MaxHeld = 2
  MaxEnds = 2
SPECIFICATION Spec
INVARIANT ReadHeaderKept
