CONSTANTS
  NumLinks = 1
  QueueSlots = 1
  Uses <- MCUsesStatus
  MaxCmds <- MCCmdsStatus
  MaxLinkChanges = 1
SPECIFICATION FairSpec
PROPERTY StatusReported
