\* Both channels, each through its own mu2edev object, under the one poll routine;
\* the DAQ ring wraps, one of the readers dies once, and poll_packets misreads how far
\* the card is now and then.
CONSTANTS
  d1 = d1
  d2 = d2
  Device = {d1, d2}
  DevOf <- OwnDevices
  NumBuffs = 3
  DaqPackets = 4
  DcsPackets = 1
  MaxPackets <- Packets
  MaxRestarts = 1
SPECIFICATION FairSpec
INVARIANTS
  HandedOutInOrder
  PublishedIsWhole
  IInv
PROPERTIES
  GivesOnlyPublished
  ImplementsFifo
  EveryPacketDelivered
