SPECIFICATION FairSpec
CONSTANTS
  Instance = {"e1"}
  Thread = {"t1"}
  Worker = {"w1", "w3"}
  EngineOf <- NamedEngineOf
  IP = {"a"}
  NoIP = ""
  Key = {"a"}
  NoKey = "none"
  FP = {"x"}
  Request <- ThreatsRequests
  NoRequest = NoRequest
  Scores = {1}
  Cfg <- ThreatsCfg
  CacheGrace = 1
  MaxTime = 3
  MaxIssued = 4
  MaxFaults = 1
  MaxRestarts = 0
INVARIANT ThreatAnswered
PROPERTY EveryCallReturns
CHECK_DEADLOCK FALSE
