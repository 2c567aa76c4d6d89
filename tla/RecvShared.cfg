\* Both channels through one mu2edev object, as DTC opens it.
CONSTANTS
  d1 = d1
  d2 = d2
  Device = {d1}
  DevOf <- SharedDevice
  NumBuffs = 3
  DaqPackets = 2
  DcsPackets = 1
  MaxPackets <- Packets
  MaxRestarts = 0
SPECIFICATION Spec
PROPERTIES
  ReleaseIsPerChannel
