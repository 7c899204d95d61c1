SPECIFICATION Spec
CONSTANTS
  c1 = c1
  c2 = c2
  Clients <- TwoClients
  MaxGen = 3
  MaxAttempts = 1
  MaxAsks = 2
  MaxCrashes = 2
  MaxTrouble = 2
  MaxRestarts = 1
  Concurrency = {"many-to-one", "one-to-one"}
  Operator = {"drain", "restart", "stop"}
  Faults = {"brokenPipe", "garbage", "sendRaises", "stubborn"}
SYMMETRY Symmetric
INVARIANTS
  TypeOK
  NoGenerationOverlap
  RecoveryIsSole
  ClientsFit
PROPERTY
  DrainedNeverStarts
CHECK_DEADLOCK FALSE
