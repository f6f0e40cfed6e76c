CONSTANTS
  NumLinks = 1
  QueueSlots = 1
  Uses <- MCUsesStatus
  MaxCmds <- MCCmdsStatus
  MaxLinkChanges = 2
SPECIFICATION Spec
INVARIANT InStep
