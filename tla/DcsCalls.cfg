SPECIFICATION Spec
CONSTANTS
  Callers = {p, q}
  NumBuffs = 3
  MaxCalls = 3
  MaxFaults = 1
  MaxHeld = 1
INVARIANTS IInv OwnReply RingCounts ExtReadsSelected LockGivenUp ReadsOnAstray
SYMMETRY CallersSymmetry
CHECK_DEADLOCK FALSE
