CONSTANTS
  NumLinks = 1
  NumPorts = 2
  PoolSlots = 1
  MAC_MAX_ENTRIES = 3
  Requests <- MCRequestsBroadcast
  MaxRequests <- MCMaxBroadcast
  Forwards = {}
  MaxForwards = 0
SPECIFICATION FairSpec
CHECK_DEADLOCK FALSE
PROPERTY Answered
