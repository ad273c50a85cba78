SPECIFICATION Spec
CONSTANTS
  Instance = {"e1"}
  Thread = {"t1"}
  Worker = {"w1"}
  EngineOf <- NamedEngineOf
  IP = {"a"}
  NoIP = ""
  Key = {"a"}
  NoKey = "none"
  FP = {"x"}
  Request <- PermanentBanRequests
  NoRequest = NoRequest
  Scores = {1}
  Cfg <- PermanentBanCfg
  CacheGrace = 1
  MaxTime = 2
  MaxIssued = 1
  MaxFaults = 1
  MaxRestarts = 0
INVARIANT NoPermanentBan
CHECK_DEADLOCK FALSE
