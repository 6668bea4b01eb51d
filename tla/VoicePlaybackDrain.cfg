CONSTANTS
  Depth = 2
  MaxRequests = 2
  MaxPackets = 4
SPECIFICATION Spec
INVARIANT DrainPlaysAccepted
