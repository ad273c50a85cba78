SPECIFICATION Spec
CONSTANTS
  Instance = {"e1"}
  Thread = {"t1"}
  Worker = {"w1"}
  EngineOf <- NamedEngineOf
  IP = {"a", "b"}
  NoIP = ""
  Key = {"a", "b"}
  NoKey = "none"
  FP = {"x"}
  Request <- ReputationRequests
  NoRequest = NoRequest
  Scores = {0, 3}
  Cfg <- ReputationCfg
  CacheGrace = 1
  MaxTime = 3
  MaxIssued = 3
  MaxFaults = 1
  MaxRestarts = 1
PROPERTIES BanEscalates BanBinds
CHECK_DEADLOCK FALSE
