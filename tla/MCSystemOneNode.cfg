SPECIFICATION FairSpec
CONSTANTS
  a = a
  b = b
  ab = ab
  ba = ba
  p1 = p1
  p2 = p2
  q1 = q1
  Packet = {p1, p2, q1}
  Flow = {ab, ba}
  flowOf <- MCFlowOf
  Node = {m}
  IP = {a, b}
  home <- MCHome
  srcIP <- MCSrc
  dstIP <- MCDst
  Size = 2
  NoEntry = NoEntry
  SendData = TRUE
INVARIANTS
  CreditedOnce
PROPERTIES
  Delivered
  StopsWhenAsked
