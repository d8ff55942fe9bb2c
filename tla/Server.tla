------------------------------- MODULE Server -------------------------------
(***************************************************************************)
(* The kubezonnet server, src/cmd/server/main.go: five Go maps behind one  *)
(* mutex.  Two informer goroutines apply pod and node events to the        *)
(* indexes, one goroutine per POST resolves the entries of a payload       *)
(* against them and adds the bytes of cross-zone traffic to `statistics',  *)
(* and one goroutine per scrape reads `statistics' out to Prometheus.      *)
(*                                                                         *)
(* Here the informers may deliver any event at any time, so what holds in  *)
(* this module holds whatever Kubernetes does; WatchedServer feeds the     *)
(* same handlers from a model of the cluster and its watches.              *)
(*                                                                         *)
(* A Go map is a function whose value is Absent where the key is missing.  *)
(* An IPv4 address stands for the uint32 that ipToUint32 makes of it.      *)
(***************************************************************************)
EXTENDS Integers, Sequences

CONSTANTS
  Namespace, PodName,  \* the two parts of a podKey
  Node,                \* node names
  NoNode,              \* Spec.NodeName of a pod that is not scheduled
  Addr,                \* texts a pod status can hold where an IP is expected
  IP,                  \* those of them that are IPv4 addresses
  NoHostIP,            \* the 0 that hostIP keeps if there is no IPv4 host IP
  Zone,                \* values of the label topology.kubernetes.io/zone
  NoLabel,             \* the label is missing
  Unknown,             \* the zone "unknown"
  Absent,              \* a map lookup that finds nothing
  Uint64,              \* 2^64: `statistics' counts modulo it
  Request,             \* the POSTs, each served by a goroutine of its own
  Scrape,              \* the GETs of /metrics, likewise
  NoOne,               \* nobody holds the mutex
  PodObject,           \* the Pod objects the informer may deliver
  NodeObject,          \* the Node objects the informer may deliver
  Payload              \* the decoded bodies a POST may carry

NodeName == Node \cup {NoNode}
ZoneName == Zone \cup {Unknown}

PodKey == [namespace: Namespace, name: PodName]

\* The series key that stands for a node and all its hostNetwork pods.
NodeKey(node) == [namespace |-> "_node_", name |-> node]

SeriesKey == PodKey \cup {NodeKey(n) : n \in NodeName}

PodInfo == [Node: NodeName, IPs: SUBSET IP]
Entry   == [SrcIP: IP, DstIP: IP, Traffic: 0 .. Uint64 - 1]

\* An int has 64 bits too, and those from 2^63 on are its negative numbers.
Int64 == -(Uint64 \div 2) .. (Uint64 - 1) \div 2
int(x) == IF 2 * x < Uint64 THEN x ELSE x - Uint64

FlowLog == [src: SeriesKey, dst: SeriesKey, bytes: Int64]

Statistics == [SeriesKey -> 0 .. Uint64 - 1 \cup {Absent}]

\* The answers to a POST that is refused.
Refusal == {"MethodNotAllowed", "InternalServerError", "BadRequest"}

\* The locals of handlePayload and of Collect.
RequestState == [pc: {"idle", "decoded", "locked", "done"}, data: Seq(Entry), flowLogs: Seq(FlowLog),
                 status: {"none", "OK", "panic"} \cup Refusal]
ScrapeState  == [pc: {"idle", "sending", "done"}, sent: Statistics]

ASSUME IPAssumption == IP \subseteq Addr /\ NoHostIP \notin IP

\* A Kubernetes namespace is a DNS label: it has no underscore.
ASSUME NamespaceAssumption == "_node_" \notin Namespace

ASSUME AbsentAssumption ==
  /\ Absent \notin PodKey \cup NodeName \cup ZoneName \cup PodInfo
  /\ Absent \notin 0 .. Uint64 - 1

ASSUME ThreadAssumption ==
  /\ Request \cap Scrape = {}
  /\ NoOne \notin Request \cup Scrape

ASSUME Uint64Assumption == Uint64 \in Nat \ {0}

ASSUME InputAssumption ==
  /\ NoNode \notin Node
  /\ PodObject \subseteq [key: PodKey, node: NodeName, hostIP: Addr, podIPs: SUBSET Addr]
  /\ NodeObject \subseteq [name: Node, zone: Zone \cup {NoLabel}]
  /\ \A data \in Payload : data \in Seq(Entry)

-----------------------------------------------------------------------------

VARIABLES
  podIpIndex,   \* IPv4 -> podKey
  nodeIpIndex,  \* IPv4 -> node name, for hostNetwork pods
  podIndex,     \* podKey -> PodInfo
  nodeIndex,    \* node name -> zone
  statistics,   \* series key -> bytes of cross-zone traffic
  mutex,        \* who holds Server.mutex across steps
  request,      \* per POST: pc, entries left, flow logs, status
  metrics       \* per scrape: pc and the metrics sent so far

indexes == <<podIpIndex, nodeIpIndex, podIndex, nodeIndex>>
vars == <<podIpIndex, nodeIpIndex, podIndex, nodeIndex, statistics, mutex, request, metrics>>

Init ==
  /\ podIpIndex  = [ip \in IP |-> Absent]
  /\ nodeIpIndex = [ip \in IP |-> Absent]
  /\ podIndex    = [k \in PodKey |-> Absent]
  /\ nodeIndex   = [n \in NodeName |-> Absent]
  /\ statistics  = [k \in SeriesKey |-> Absent]
  /\ mutex       = NoOne
  /\ request     = [r \in Request |-> [pc |-> "idle", data |-> <<>>, flowLogs |-> <<>>, status |-> "none"]]
  /\ metrics     = [s \in Scrape |-> [pc |-> "idle", sent |-> [k \in SeriesKey |-> Absent]]]

-----------------------------------------------------------------------------
(***************************************************************************)
(* Pod and node events.  Each handler takes and releases the mutex, and    *)
(* what it does before it takes it reads only its argument: one step.      *)
(***************************************************************************)

\* The IPv4 host address of a pod, if its status holds one.
hostIP(pod) == IF pod.hostIP \in IP THEN pod.hostIP ELSE NoHostIP

\* The IPv4 addresses of a pod; the others are skipped.
ips(pod) == pod.podIPs \cap IP

\* Fault: the pod IP is not compared with the host's.
onHostNetwork_anyHost(pod, ip) == hostIP(pod) # NoHostIP

\* A pod IP that is the host's own is a hostNetwork pod's.
onHostNetwork(pod, ip) == hostIP(pod) # NoHostIP /\ ip = hostIP(pod)

handlePod(pod) ==
  /\ mutex = NoOne
  /\ podIndex' = [podIndex EXCEPT ![pod.key] = [Node |-> pod.node, IPs |-> ips(pod)]]
  /\ nodeIpIndex' = [ip \in IP |-> IF ip \in ips(pod) /\ onHostNetwork(pod, ip)
                                   THEN pod.node ELSE nodeIpIndex[ip]]
  /\ podIpIndex' = [ip \in IP |-> IF ip \in ips(pod) /\ ~onHostNetwork(pod, ip)
                                  THEN pod.key ELSE podIpIndex[ip]]
  /\ UNCHANGED <<nodeIndex, statistics, mutex, request, metrics>>

onPodAdd(pod) == handlePod(pod)

onPodUpdate(pod) == handlePod(pod)

\* Fault: the counter of a deleted pod is kept.
onPodDelete_keepsSeries(pod) ==
  LET indexed == IF podIndex[pod.key] = Absent THEN {} ELSE podIndex[pod.key].IPs IN
  /\ mutex = NoOne
  /\ podIpIndex' = [ip \in IP |-> IF ip \in indexed /\ ~onHostNetwork(pod, ip)
                                  THEN Absent ELSE podIpIndex[ip]]
  /\ podIndex' = [podIndex EXCEPT ![pod.key] = Absent]
  /\ UNCHANGED <<nodeIpIndex, nodeIndex, statistics, mutex, request, metrics>>

\* Fault: the host's address goes with any of its hostNetwork pods.
onPodDelete_dropsHostIP(pod) ==
  LET indexed == IF podIndex[pod.key] = Absent THEN {} ELSE podIndex[pod.key].IPs IN
  /\ mutex = NoOne
  /\ podIpIndex' = [ip \in IP |-> IF ip \in indexed THEN Absent ELSE podIpIndex[ip]]
  /\ nodeIpIndex' = [ip \in IP |-> IF ip \in indexed THEN Absent ELSE nodeIpIndex[ip]]
  /\ podIndex'   = [podIndex EXCEPT ![pod.key] = Absent]
  /\ statistics' = [statistics EXCEPT ![pod.key] = Absent]
  /\ UNCHANGED <<nodeIndex, mutex, request, metrics>>

\* Fault: podIpIndex keeps the addresses of a deleted pod.
onPodDelete_keepsIPs(pod) ==
  /\ mutex = NoOne
  /\ podIndex'   = [podIndex EXCEPT ![pod.key] = Absent]
  /\ statistics' = [statistics EXCEPT ![pod.key] = Absent]
  /\ UNCHANGED <<podIpIndex, nodeIpIndex, nodeIndex, mutex, request, metrics>>

\* Fault: a pod without an address is not forgotten.
onPodDelete_needsIP(pod) ==
  LET indexed == IF podIndex[pod.key] = Absent THEN {} ELSE podIndex[pod.key].IPs IN
  /\ mutex = NoOne
  /\ podIpIndex' = [ip \in IP |-> IF ip \in indexed /\ ~onHostNetwork(pod, ip)
                                  THEN Absent ELSE podIpIndex[ip]]
  /\ podIndex'   = [podIndex EXCEPT ![pod.key] = IF indexed = {} THEN @ ELSE Absent]
  /\ statistics' = [statistics EXCEPT ![pod.key] = Absent]
  /\ UNCHANGED <<nodeIpIndex, nodeIndex, mutex, request, metrics>>

\* The addresses come from the index, the host IP from the deleted object.
onPodDelete(pod) ==
  LET indexed == IF podIndex[pod.key] = Absent THEN {} ELSE podIndex[pod.key].IPs IN
  /\ mutex = NoOne
  /\ podIpIndex' = [ip \in IP |-> IF ip \in indexed /\ ~onHostNetwork(pod, ip)
                                  THEN Absent ELSE podIpIndex[ip]]
  /\ podIndex'   = [podIndex EXCEPT ![pod.key] = Absent]
  /\ statistics' = [statistics EXCEPT ![pod.key] = Absent]
  /\ UNCHANGED <<nodeIpIndex, nodeIndex, mutex, request, metrics>>

\* Fault: no default for a missing label.
zoneOf_noDefault(node) == node.zone

zoneOf(node) == IF node.zone = NoLabel THEN Unknown ELSE node.zone

onNodeAdd(node) ==
  /\ mutex = NoOne
  /\ nodeIndex' = [nodeIndex EXCEPT ![node.name] = zoneOf(node)]
  /\ UNCHANGED <<podIpIndex, nodeIpIndex, podIndex, statistics, mutex, request, metrics>>

\* Fault: the mutex is not taken.
onNodeUpdate_noLock(node) ==
  /\ nodeIndex' = [nodeIndex EXCEPT ![node.name] = zoneOf(node)]
  /\ UNCHANGED <<podIpIndex, nodeIpIndex, podIndex, statistics, mutex, request, metrics>>

onNodeUpdate(node) ==
  /\ mutex = NoOne
  /\ nodeIndex' = [nodeIndex EXCEPT ![node.name] = zoneOf(node)]
  /\ UNCHANGED <<podIpIndex, nodeIpIndex, podIndex, statistics, mutex, request, metrics>>

\* Fault: the node's zone is kept.
onNodeDelete_keepsZone(node) ==
  /\ mutex = NoOne
  /\ nodeIpIndex' = [ip \in IP |-> IF nodeIpIndex[ip] = node.name THEN Absent ELSE nodeIpIndex[ip]]
  /\ UNCHANGED <<podIpIndex, podIndex, nodeIndex, statistics, mutex, request, metrics>>

onNodeDelete(node) ==
  /\ mutex = NoOne
  /\ nodeIpIndex' = [ip \in IP |-> IF nodeIpIndex[ip] = node.name THEN Absent ELSE nodeIpIndex[ip]]
  /\ nodeIndex'   = [nodeIndex EXCEPT ![node.name] = Absent]
  /\ UNCHANGED <<podIpIndex, podIndex, statistics, mutex, request, metrics>>

-----------------------------------------------------------------------------
(***************************************************************************)
(* handlePayload.  A POST is refused before the mutex is taken, or decoded *)
(* and then resolved entry by entry while the mutex is held.               *)
(***************************************************************************)

\* The method is not POST, the body cannot be read, or Decode refuses it; or its
\* length in 32 bits is right by overflow and Decode runs past its end, and
\* net/http recovers the panic and closes the connection without an answer.
rejectPayload(r) ==
  /\ request[r].pc = "idle"
  /\ \E code \in Refusal \cup {"panic"} :
       request' = [request EXCEPT ![r].pc = "done", ![r].status = code]
  /\ UNCHANGED <<indexes, statistics, mutex, metrics>>

decodePayload(r) ==
  /\ request[r].pc = "idle"
  /\ \E data \in Payload :
       request' = [request EXCEPT ![r].pc = "decoded", ![r].data = data]
  /\ UNCHANGED <<indexes, statistics, mutex, metrics>>

\* Fault: a payload that finds the mutex taken is refused.
lockPayload_tryLock(r) ==
  /\ request[r].pc = "decoded"
  /\ \/ /\ mutex = NoOne
        /\ mutex' = r
        /\ request' = [request EXCEPT ![r].pc = "locked"]
     \/ /\ mutex # NoOne
        /\ request' = [request EXCEPT ![r].pc = "done", ![r].status = "InternalServerError"]
        /\ UNCHANGED mutex
  /\ UNCHANGED <<indexes, statistics, metrics>>

lockPayload(r) ==
  /\ request[r].pc = "decoded"
  /\ mutex = NoOne
  /\ mutex' = r
  /\ request' = [request EXCEPT ![r].pc = "locked"]
  /\ UNCHANGED <<indexes, statistics, metrics>>

\* What an address resolves to: a pod and the zone of its node, or else a node
\* (for its hostNetwork pods) and its zone.  An address in podIpIndex is never
\* looked up in nodeIpIndex, even if its pod turns out to be unknown.
isPod(ip) == podIpIndex[ip] # Absent

nodeOf(ip) ==
  IF ~isPod(ip) THEN nodeIpIndex[ip]
  ELSE IF podIndex[podIpIndex[ip]] = Absent THEN Absent
  ELSE podIndex[podIpIndex[ip]].Node

zone(ip) == IF nodeOf(ip) = Absent THEN Absent ELSE nodeIndex[nodeOf(ip)]

resolves(ip) == zone(ip) # Absent

series(ip) == IF isPod(ip) THEN podIpIndex[ip] ELSE NodeKey(nodeOf(ip))

crossZone(entry) ==
  /\ resolves(entry.SrcIP)
  /\ resolves(entry.DstIP)
  /\ zone(entry.SrcIP) # zone(entry.DstIP)

\* Fault: statistics[k] = traffic.
added_overwrites(k, traffic) == traffic % Uint64

\* statistics[k] += traffic; a missing key counts from 0.
added(k, traffic) ==
  ((IF statistics[k] = Absent THEN 0 ELSE statistics[k]) + traffic) % Uint64

countEntry(r) ==
  LET entry == Head(request[r].data)
      src   == series(entry.SrcIP)
      log   == [src |-> src, dst |-> series(entry.DstIP), bytes |-> int(entry.Traffic)]
  IN
  /\ request[r].pc = "locked"
  /\ request[r].data # <<>>
  /\ \/ /\ crossZone(entry)
        /\ statistics' = [statistics EXCEPT ![src] = added(src, entry.Traffic)]
        /\ request' = [request EXCEPT ![r].data = Tail(@), ![r].flowLogs = Append(@, log)]
     \/ /\ ~crossZone(entry)
        /\ request' = [request EXCEPT ![r].data = Tail(@)]
        /\ UNCHANGED statistics
  /\ UNCHANGED <<indexes, mutex, metrics>>

\* The flow logs are printed after the mutex is released.
unlockPayload(r) ==
  /\ request[r].pc = "locked"
  /\ request[r].data = <<>>
  /\ mutex' = NoOne
  /\ request' = [request EXCEPT ![r].pc = "done", ![r].status = "OK"]
  /\ UNCHANGED <<indexes, statistics, metrics>>

-----------------------------------------------------------------------------
(***************************************************************************)
(* Collect.  The mutex is held while every series is sent on a channel the *)
(* Prometheus registry drains; a Go map is ranged over in any order.       *)
(***************************************************************************)

\* Fault: Collect reads `statistics' without the mutex.
lockCollect_noLock(s) ==
  /\ metrics[s].pc = "idle"
  /\ metrics' = [metrics EXCEPT ![s].pc = "sending"]
  /\ UNCHANGED <<indexes, statistics, mutex, request>>

lockCollect(s) ==
  /\ metrics[s].pc = "idle"
  /\ mutex = NoOne
  /\ mutex' = s
  /\ metrics' = [metrics EXCEPT ![s].pc = "sending"]
  /\ UNCHANGED <<indexes, statistics, request>>

sendMetric(s) ==
  /\ metrics[s].pc = "sending"
  /\ \E k \in SeriesKey :
       /\ statistics[k] # Absent
       /\ metrics[s].sent[k] = Absent
       /\ metrics' = [metrics EXCEPT ![s].sent[k] = statistics[k]]
  /\ UNCHANGED <<indexes, statistics, mutex, request>>

unlockCollect(s) ==
  /\ metrics[s].pc = "sending"
  /\ \A k \in SeriesKey : statistics[k] # Absent => metrics[s].sent[k] # Absent
  /\ mutex' = NoOne
  /\ metrics' = [metrics EXCEPT ![s].pc = "done"]
  /\ UNCHANGED <<indexes, statistics, request>>

-----------------------------------------------------------------------------

handlePayload(r) ==
  rejectPayload(r) \/ decodePayload(r) \/ lockPayload(r) \/ countEntry(r) \/ unlockPayload(r)

Collect(s) == lockCollect(s) \/ sendMetric(s) \/ unlockCollect(s)

PodEvent == \E pod \in PodObject : onPodAdd(pod) \/ onPodUpdate(pod) \/ onPodDelete(pod)

NodeEvent == \E node \in NodeObject : onNodeAdd(node) \/ onNodeUpdate(node) \/ onNodeDelete(node)

Next ==
  \/ PodEvent
  \/ NodeEvent
  \/ \E r \in Request : handlePayload(r)
  \/ \E s \in Scrape : Collect(s)

Spec == Init /\ [][Next]_vars

-----------------------------------------------------------------------------
(***************************************************************************)
(* Properties.                                                             *)
(***************************************************************************)

\* Every map of the server, the mutex and the goroutines' local state hold
\* values of their types.
TypeOK ==
  /\ podIpIndex  \in [IP -> PodKey \cup {Absent}]
  /\ nodeIpIndex \in [IP -> NodeName \cup {Absent}]
  /\ podIndex    \in [PodKey -> PodInfo \cup {Absent}]
  /\ nodeIndex   \in [NodeName -> ZoneName \cup {Absent}]
  /\ statistics  \in Statistics
  /\ mutex       \in Request \cup Scrape \cup {NoOne}
  /\ request     \in [Request -> RequestState]
  /\ metrics     \in [Scrape -> ScrapeState]

\* Exactly the goroutine that is between Lock and Unlock of handlePayload or
\* Collect holds the mutex.
MutexHeld ==
  /\ \A r \in Request : request[r].pc = "locked" <=> mutex = r
  /\ \A s \in Scrape : metrics[s].pc = "sending" <=> mutex = s

\* A pod that the server has forgotten has no series: onPodDelete drops its
\* counter, and no payload that arrives later, for an address that podIpIndex
\* still maps to the pod, brings it back (main.go:249, main.go:339).
NoSeriesForDeletedPod ==
  \A k \in PodKey : statistics[k] # Absent => podIndex[k] # Absent

\* A scrape that finishes has sent all of `statistics' as it is at that moment:
\* no payload and no pod event changed a series after Collect sent another.
ScrapeIsSnapshot ==
  [][\A s \in Scrape : metrics[s].pc = "sending" /\ metrics'[s].pc = "done"
                         => metrics'[s].sent = statistics]_vars

\* A payload is resolved against one state of the indexes: from Lock to Unlock
\* of handlePayload no pod or node event is applied.
PayloadSeesOneIndex ==
  [][\A r \in Request : request[r].pc = "locked" => UNCHANGED indexes]_vars

\* A payload that was decoded is answered, whatever the informers and the scrapes
\* do that compete with it for the mutex (main.go:328-409).
EveryPayloadAnswered ==
  \A r \in Request : request[r].pc = "decoded" ~> request[r].status = "OK"
=============================================================================
