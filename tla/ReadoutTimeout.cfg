SPECIFICATION Spec
CONSTANTS
  Readers = {"event"}
  Capacity = 2
  Room = 2
  Lens = {1, 3}
  Wanted = {0}
  MaxBuffers = 3
  MaxDeaths = 0
INVARIANTS TimeoutGivesNone
CHECK_DEADLOCK FALSE
