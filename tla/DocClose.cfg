SPECIFICATION Spec
CONSTANTS
  Thread = {t1}
  Worker = {1}
  Closer = {c1, c2}
  Snap = {s1, s2, s3}
  Request = {q1}
  None = None
  Zero = Zero
  Wiped = Wiped
  RawConfigs <- ReputationOnly
  Procs = 1
INVARIANT CloseNeverPanics
