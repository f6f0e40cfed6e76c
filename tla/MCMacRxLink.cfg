CONSTANTS
  NumLinks = 2
  QueueSlots = 2
  Uses <- MCUsesApart
  MaxCmds <- MCCmdsApart
  MaxLinkChanges = 1
SPECIFICATION FairSpec
INVARIANTS TypeOK InStep OneWakeUp
PROPERTIES RequestsAnswered FramesSent StatusSent
