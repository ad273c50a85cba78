SPECIFICATION FairSpec
CONSTANTS
  Instance = {"e1", "e2"}
  Managed = {"e1"}
  Caller = {"c1"}
  Worker = {"w1", "w2"}
  EngineOf <- OneWorkerEach
  MaxWrites = 2
  MaxSignals = 2
  MaxReloads = 1
INVARIANTS OneRuleset OnlyParsedRules NoSignalLost
PROPERTIES SignalReloads ReloaderExits
CHECK_DEADLOCK FALSE
