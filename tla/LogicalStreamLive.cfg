SPECIFICATION FairSpec
CONSTANTS
  MaxChunks <- LivenessChunks
  MaxLinks = 1
  InboundLimit = 1
  Routes = {"dedicated", "adapter"}
PROPERTIES
  GraceEndsStream
  NoHalfOpenStream
  LinkLossEndsStreams
CHECK_DEADLOCK FALSE
