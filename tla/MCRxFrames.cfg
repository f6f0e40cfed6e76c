CONSTANTS
  b1 = b1
  b2 = b2
  b3 = b3
  NumLinks = 2
  Pools = {"lp"}
  Bufs <- MCBufs
  PoolSlots = 3
  NUM_MII_RX_BUF = 3
  Bits = {"frame", "forward"}
  FORWARD = "forward"
  Masks <- MCMasks
  Sizes = {}
SYMMETRY MCSymmetry
VIEW MCView
SPECIFICATION Spec
INVARIANTS TypeOK CountsOwners
PROPERTY DeliversFrames
