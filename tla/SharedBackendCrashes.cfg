SPECIFICATION FairSpec
CONSTANTS
  c1 = c1
  c2 = c2
  Clients <- TwoClients
  MaxGen = 5
  MaxAttempts = 1
  MaxAsks = 1
  MaxCrashes = 2
  MaxTrouble = 2
  MaxRestarts = 0
  Concurrency = {"many-to-one"}
  Operator = {}
  Faults = {}
PROPERTY
  CrashSettles
CHECK_DEADLOCK FALSE
