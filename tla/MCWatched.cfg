SPECIFICATION WSpec
CONSTANTS
  ns = ns
  n1 = n1
  x1 = x1
  x2 = x2
  y1 = y1
  z1 = z1
  Namespace = {ns}
  PodName = {a, b}
  Node = {n1}
  NoNode = NoNode
  Addr = {x1, x2, y1}
  IP = {x1, x2, y1}
  NoHostIP = NoHostIP
  Zone = {z1}
  NoLabel = NoLabel
  Unknown = Unknown
  Absent = Absent
  Uint64 = 4
  Request = {}
  Scrape = {}
  NoOne = NoOne
  PodObject <- MCPodObject
  NodeObject <- MCNodeObject
  Payload <- MCPayload
  PodIP = {x1, x2}
  NodeIP <- MCNodeIP
  Happens = {"restart", "finish", "gap"}
  MaxPodOps = 6
  MaxNodeOps = 2
SYMMETRY Symmetry
INVARIANTS
  WTypeOK
  IndexMirrorsCluster
  FirstOwnerResolves
  CleanReuse
  HostIPsResolve
CHECK_DEADLOCK FALSE
