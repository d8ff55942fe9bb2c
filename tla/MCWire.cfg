SPECIFICATION Spec
CONSTANTS
  Bits = 2
  Cidr <- MCCidr
  Address <- MCAddress
  PodsOnHost <- MCPodsOnHost
  Ports <- MCPorts
  Sizes <- MCSizes
  MaxFlows = 2
INVARIANTS
  CountsTheSubnet
  ServerSeesAddresses
  NeverRefused
CHECK_DEADLOCK FALSE
