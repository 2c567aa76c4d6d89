\* Threads that share a process and one DTC; no failure and no wait that reaches
\* its limit.
CONSTANTS
  t1 = t1
  t2 = t2
  t3 = t3
  p1 = p1
  p2 = p2
  a = a
  b = b
  NoThread = NoThread
  Process = {p1, p2}
  Thread = {t1, t2, t3}
  ProcOf <- TwoProcs
  Dtc = {a}
  Impatient = {}
  MaxFailures = 0
SPECIFICATION Spec
INVARIANTS
  AnyBeginMeansOwner
