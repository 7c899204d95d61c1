SPECIFICATION FairSpec
CONSTANTS
  Nothing = Nothing
  Parts = {"publish", "republish", "relay", "relays", "link", "http", "downed", "projection", "session"}
  Publishes = 1
  Requests = {"r1"}
  Demands = {"d1"}
  Chunks = 2
  Losses = 1
  Transfers = {"t1", "t2"}
  Pieces = 1
  MaxInflight = 1
  Calls = 1
  Conns = {"c1", "c2"}
  Queries = {"q1", "q2"}
  Deaths = 3
  Ops = {"o1"}
  MaxGen = 5
  Crashes = 1
  Servers = {"s1"}
  Reconcilers = {"p1"}
  Operator = "op"
  Changes = 2
  Edits = 2
  Kills = 1
  Commands = 2
  WatchHabits = {"odd"}
PROPERTIES
  WorkEnds
  Converges
CHECK_DEADLOCK FALSE
