SPECIFICATION Spec
CONSTANTS
  MaxChunks <- SafetyChunks
  MaxLinks = 1
  InboundLimit = 1
  Routes = {"dedicated", "staged", "adapter"}
INVARIANTS
  TypeOK
  AckedIsDelivered
  SettledMeansDelivered
  NoFalseFault
PROPERTY
  ImplementsChannels
CHECK_DEADLOCK FALSE
