SPECIFICATION Spec
CONSTANTS
  MaxFails = 1
  FailingLinks = {0}
  Links = {0, 1, 2, 3, 4, 5, 6, 7, 8}
  Skipped <- Disagreeing
INVARIANTS IInv ReadersAgree RefusedOnlyByCard ResetsReleased
CHECK_DEADLOCK FALSE
