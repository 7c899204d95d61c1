SPECIFICATION FairSpec
CONSTANTS
  MaxChunks <- LivenessChunks
  MaxLinks = 0
  InboundLimit = 1
  Routes = {"dedicated"}
PROPERTY
  GraceIsBounded
CHECK_DEADLOCK FALSE
