SPECIFICATION FairSpec
CONSTANTS
  c1 = c1
  c2 = c2
  Clients <- TwoClients
  MaxGen = 4
  MaxAttempts = 2
  MaxAsks = 3
  MaxCrashes = 1
  MaxTrouble = 2
  MaxRestarts = 0
  Concurrency = {"many-to-one"}
  Operator = {"drain"}
  Faults = {}
INVARIANTS
  NoRequestForgotten
PROPERTIES
  CrashSettles
  AttachSettles
CHECK_DEADLOCK FALSE
