\* One writer, whose ring of four wraps twice and whose process dies twice.
CONSTANTS
  w1 = w1
  w2 = w2
  Writer = {w1}
  NumBuffs = 4
  MaxPackets = 8
  MaxRestarts = 2
SPECIFICATION FairSpec
INVARIANTS
  IInv
  SentAsWritten
  RingHoldsAccepted
  RefusedOnlyWhenFull
PROPERTIES
  CopiesIntoFree
  EveryAcceptedSent
  ImplementsFifo
\* The channel rests when nobody writes.
CHECK_DEADLOCK FALSE
