SPECIFICATION Spec
CONSTANTS
  MaxChunks <- RefusalChunks
  MaxLinks = 0
  InboundLimit = 1
  Routes = {"staged", "adapter"}
INVARIANT
  RefusalAnswered
CHECK_DEADLOCK FALSE
