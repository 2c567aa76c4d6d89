SPECIFICATION Spec
CONSTANTS
  Readers = {"event", "subevent", "record"}
  Capacity = 3
  Room = 2
  Lens = {1, 3, 7}
  Wanted = {0, 2}
  MaxBuffers = 6
  MaxDeaths = 1
INVARIANTS IInv ListIsLent ReturnedWhole NothingLost
PROPERTIES EveryBufferBack
CHECK_DEADLOCK FALSE
