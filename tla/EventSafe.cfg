\* Both channels, with fairness.
CONSTANT
  MaxChannels = 2
SPECIFICATION FairSpec
INVARIANTS
  OnePoller
  ArmedOnce
  QuietAfterRemove
  WakesAgain
  IInv
PROPERTIES
  EveryPacketPolled
  RemoveReturns
