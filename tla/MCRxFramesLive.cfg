CONSTANTS
  b1 = b1
  b2 = b2
  b3 = b3
  NumLinks = 1
  Pools = {"hp", "lp"}
  Bufs <- MCBufs2
  PoolSlots = 1
  NUM_MII_RX_BUF = 2
  Bits = {"frame", "forward"}
  FORWARD = "forward"
  Masks <- MCMasks
  Sizes = {}
SPECIFICATION FairSpec
PROPERTY Reclaimed
