CONSTANTS
  NumLinks = 2
  NumPorts = 2
  PoolSlots = 2
  MAC_MAX_ENTRIES = 3
  Requests <- MCRequests
  MaxRequests <- MCMaxRequests
  Forwards <- MCForwards
  MaxForwards = 1
SPECIFICATION FairSpec
INVARIANTS TypeOK ReplyExpected OnePlaceEach
PROPERTIES SentOnce Answered ForwardsEnd
