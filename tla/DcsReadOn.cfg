\* One process, no fault: the second call gets a buffer of the first one's long
\* reply.
SPECIFICATION Spec
CONSTANTS
  Callers = {p}
  NumBuffs = 2
  MaxCalls = 3
  MaxFaults = 0
  MaxHeld = 0
PROPERTIES EveryCallEnds
CHECK_DEADLOCK FALSE
