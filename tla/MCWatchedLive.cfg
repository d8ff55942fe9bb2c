SPECIFICATION WFairSpec
CONSTANTS
  ns = ns
  n1 = n1
  x1 = x1
  x2 = x2
  y1 = y1
  z1 = z1
  Namespace = {ns}
  PodName = {a, b}
  Node = {n1}
  NoNode = NoNode
  Addr = {x1, x2, y1}
  IP = {x1, x2, y1}
  NoHostIP = NoHostIP
  Zone = {z1}
  NoLabel = NoLabel
  Unknown = Unknown
  Absent = Absent
  Uint64 = 4
  Request = {r1}
  Scrape = {s1}
  NoOne = NoOne
  PodObject <- MCPodObject
  NodeObject <- MCNodeObject
  Payload <- MCPayload
  PodIP = {x1}
  NodeIP <- MCNodeIP
  Happens = {"finish"}
  MaxPodOps = 3
  MaxNodeOps = 1
PROPERTIES
  Converges
  EveryPayloadAnswered
CHECK_DEADLOCK FALSE
