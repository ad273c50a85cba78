SPECIFICATION Spec
CONSTANTS
  Instance = {"e1"}
  Thread = {"t1"}
  Worker = {"w1"}
  EngineOf <- NamedEngineOf
  IP = {"a", "b"}
  NoIP = ""
  Key = {"a", "b"}
  NoKey = "none"
  FP = {"x"}
  Request <- BansRequests
  NoRequest = NoRequest
  Scores = {2, 3}
  Cfg <- BansCfg
  CacheGrace = 1
  MaxTime = 3
  MaxIssued = 2
  MaxFaults = 1
  MaxRestarts = 1
INVARIANTS TypeOK LocalBanBacked KnownStaysInBloom KeysExpire
PROPERTY PenaltyBinds
CHECK_DEADLOCK FALSE
