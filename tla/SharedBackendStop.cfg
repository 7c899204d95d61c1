SPECIFICATION FairSpec
CONSTANTS
  c1 = c1
  c2 = c2
  Clients <- TwoClients
  MaxGen = 3
  MaxAttempts = 2
  MaxAsks = 1
  MaxCrashes = 1
  MaxTrouble = 2
  MaxRestarts = 0
  Concurrency = {"many-to-one"}
  Operator = {"stop"}
  Faults = {}
PROPERTY
  StopWins
CHECK_DEADLOCK FALSE
