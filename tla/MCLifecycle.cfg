SPECIFICATION FairSpec
CONSTANTS
  Thread = {t1}
  Worker = {1, 2}
  Closer = {c1}
  Snap = {s1, s2, s3, s4}
  Request = {q1, q2}
  None = None
  Zero = Zero
  Wiped = Wiped
  RawConfigs <- AllConfigs
  Procs = 1
INVARIANTS SnapshotIntact OneOwner CloseStopsWorkers ConfigUsable
PROPERTY CloseReturns
CHECK_DEADLOCK FALSE
