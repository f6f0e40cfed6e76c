CONSTANTS
  NumLinks = 1
  QueueSlots = 2
  Uses <- MCUsesBoth
  MaxCmds <- MCCmdsBoth
  MaxLinkChanges = 1
SPECIFICATION Spec
INVARIANT InStep
