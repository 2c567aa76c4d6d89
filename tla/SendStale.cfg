\* Two objects that write to the channel in turn, opened before the first write.
CONSTANTS
  w1 = w1
  w2 = w2
  Writer = {w1, w2}
  NumBuffs = 3
  MaxPackets = 2
  MaxRestarts = 0
SPECIFICATION Spec
INVARIANTS
  SentAsWritten
\* The channel rests when nobody writes.
CHECK_DEADLOCK FALSE
