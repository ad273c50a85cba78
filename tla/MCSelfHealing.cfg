SPECIFICATION Spec
CONSTANTS
  Thread = {"t1", "t2"}
  IP = {"a", "b", ""}
  NoIP = ""
  Base = 2
  Trigger = 2
  Window = 2
  MinSamples = 1
  CleanNum = 1
  CleanDen = 2
  MaxSensitivity = 5
  DecayStep = 2
  MaxTime = 5
  MaxIssued = 7
INVARIANTS StateOK LimitInRange
PROPERTIES OnlyTightensWithinWindow OneDecayPerWindow
CHECK_DEADLOCK FALSE
