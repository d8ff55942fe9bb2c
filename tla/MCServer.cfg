SPECIFICATION Spec
CONSTANTS
  ns = ns
  a = a
  b = b
  n1 = n1
  n2 = n2
  i1 = i1
  i2 = i2
  v6 = v6
  z1 = z1
  Namespace = {ns}
  PodName = {a, b}
  Node = {n1, n2}
  NoNode = NoNode
  Addr = {i1, i2, v6}
  IP = {i1, i2}
  NoHostIP = NoHostIP
  Zone = {z1}
  NoLabel = NoLabel
  Unknown = Unknown
  Absent = Absent
  Uint64 = 4
  Request = {r1, r2}
  Scrape = {s1}
  NoOne = NoOne
  PodObject <- MCPodObject
  NodeObject <- MCNodeObject
  Payload <- MCPayload
INVARIANTS
  TypeOK
  MutexHeld
  NoSeriesForDeletedPod
  CountersMatchLogs
PROPERTIES
  ScrapeIsSnapshot
  PayloadSeesOneIndex
  ImplementsLedger
