SPECIFICATION Spec
CONSTANTS
  None = None
  Parts = {"connector", "facade", "ids", "shutdown", "stateless", "adapter", "failing", "stateless adapter", "legacy", "deferred"}
  Business = {"call"}
  Links = 2
  Opened = {"s1"}
  Posted = {"p1", "p2"}
  On <- OneSession
  Named <- OneId
  MaxSessions = 1
  MaxInflight = 2
  MaxQueue = 3
  Remotes = 3
  Gets = {"g1"}
  Sse = {"p2"}
  Proxied = {"p1", "p2"}
  ProxiedTools = {"p1"}
  Places = 1
  Calls = {"c1"}
  Notices = {"n1"}
  Pooled = {"r1", "r2"}
  PooledTools = {"r1"}
  PoolPlaces = 2
  Lists = {"list"}
  LegacyTools = {"tool"}
  QueueSize = 1
  Expands = {"expand"}
  DeferredCalls = {"call"}
  Collapses = {"collapse"}
  Pages = 2
  MaxReal = 1
  MaxPeers = 2
  ProxyHabits = {"spawnFails", "exits", "stops", "leaves", "survives", "bad"}
  PoolHabits = {"fails", "late", "cancels", "ends"}
  LegacyHabits = {"launchFails", "exits", "stalls", "late", "cancels", "ends", "wrong"}
  DeferredHabits = {"drops", "late", "refused", "cancels", "contract"}
INVARIANTS
  TypeOK
  SafeMeansUnsent
  OnceAnswered
  NothingLeaks
  CatalogIsCurrent
PROPERTIES
  NeverReplayed
  CancelIsRespected
CHECK_DEADLOCK FALSE
