CONSTANTS
  Undef = Undef
  Confs <- MCConfs
  Boards <- MCBoards
  Clients = 4
SPECIFICATION Spec
PROPERTY SlotHonoured
INVARIANTS ThreadsReady PoolsLargeEnough AccessorsAgree
CHECK_DEADLOCK FALSE
