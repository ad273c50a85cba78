SPECIFICATION Spec
CONSTANTS
  IP = {"a", "b"}
  NoIP = ""
  NoQuery = "none"
  Request <- TrackerRequests
  RiskWindow = 2
  QueryDiversityThreshold = 2
  HeaderDiversityThreshold = 2
  DiversityWeight = 5
  MaxTime = 4
  MaxTaken = 4
INVARIANTS ScoreJustified BurstNoticed
CHECK_DEADLOCK FALSE
