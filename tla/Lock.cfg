\* Two threads of one process and one of another, each with any of two DTCs at
\* every call; every wait may reach its limit.
CONSTANTS
  t1 = t1
  t2 = t2
  t3 = t3
  p1 = p1
  p2 = p2
  a = a
  b = b
  NoThread = NoThread
  Process = {p1, p2}
  Thread = {t1, t2, t3}
  ProcOf <- TwoProcs
  Dtc = {a, b}
  Impatient = {t1, t2, t3}
  MaxFailures = 2
SPECIFICATION FairSpec
INVARIANTS
  MutualExclusion
  NoSelfWait
  BeginMeansOwner
PROPERTIES
  OrphanIsFreed
  BeginReturns
