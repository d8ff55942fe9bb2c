SPECIFICATION Spec
CONSTANTS
  x = x
  y = y
  p1 = p1
  p2 = p2
  q1 = q1
  f1 = f1
  Packet = {p1, p2}
  header <- MCHeader
  IPv4 = {x, y}
  Port = {80, 8080}
  Subnet = {x, y}
  Elem = {e1, e2, e3}
  NoElem = NoElem
  MaxEntries = 2
  Buckets = 2
  jhash <- MCHash
INVARIANTS
  NoPacketLost
