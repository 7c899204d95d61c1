SPECIFICATION FairSpec
CONSTANTS
  None = None
  Parts = {"connector", "facade", "stateless", "adapter", "stateless adapter", "legacy", "deferred"}
  Business = {"call"}
  Links = 1
  Opened = {"s1"}
  Posted = {"p1", "p2"}
  On <- OneSession
  Named <- OneId
  MaxSessions = 1
  MaxInflight = 2
  MaxQueue = 3
  Remotes = 3
  Gets = {}
  Sse = {"p2"}
  Proxied = {"p1"}
  ProxiedTools = {"p1"}
  Places = 1
  Calls = {"c1"}
  Notices = {}
  Pooled = {"r1", "r2"}
  PooledTools = {"r1"}
  PoolPlaces = 2
  Lists = {"list"}
  LegacyTools = {"tool"}
  QueueSize = 1
  Expands = {"expand"}
  DeferredCalls = {"call"}
  Collapses = {"collapse"}
  Pages = 2
  MaxReal = 1
  MaxPeers = 2
  ProxyHabits = {"spawnFails", "exits", "stops", "leaves"}
  PoolHabits = {"fails", "late", "cancels", "ends"}
  LegacyHabits = {"launchFails", "exits", "late", "cancels", "ends", "wrong"}
  DeferredHabits = {"drops", "late", "refused", "contract"}
PROPERTIES
  EachRequestEnds
CHECK_DEADLOCK FALSE
