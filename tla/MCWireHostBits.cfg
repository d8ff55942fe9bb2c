SPECIFICATION Spec
CONSTANTS
  Bits = 2
  Cidr <- MCHostBits
  Address <- MCAddress
  PodsOnHost <- MCPodsOnHost
  Ports <- MCPorts
  Sizes <- MCSizes
  MaxFlows = 2
INVARIANTS
  CountsTheSubnet
CHECK_DEADLOCK FALSE
