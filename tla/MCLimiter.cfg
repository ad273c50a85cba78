SPECIFICATION Spec
CONSTANTS
  Instance = {"e1", "e2"}
  Thread = {"t1", "t2"}
  Worker = {}
  EngineOf <- NamedEngineOf
  IP = {"a", ""}
  NoIP = ""
  Key = {"a", ""}
  NoKey = "none"
  FP = {"x"}
  Request <- LimiterRequests
  NoRequest = NoRequest
  Scores = {0}
  Cfg <- LimiterCfg
  CacheGrace = 1
  MaxTime = 4
  MaxIssued = 4
  MaxFaults = 2
  MaxRestarts = 0
INVARIANTS WindowBudget CounterExpires
PROPERTIES HeadersHonest ImplementsFixedWindow
CHECK_DEADLOCK FALSE
