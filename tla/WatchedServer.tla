---------------------------- MODULE WatchedServer ----------------------------
(***************************************************************************)
(* The server of module Server fed by a Kubernetes cluster.  The cluster   *)
(* (API objects, address allocation) and client-go's informers are not in  *)
(* src/: they are modelled from how watchPods and watchNodes use them.     *)
(*                                                                         *)
(* cache.NewInformer drains a DeltaFIFO from one goroutine.  The queue     *)
(* orders KEYS by when they were first queued; the changes of one object   *)
(* are kept in order, but a change of an object that is already queued     *)
(* overtakes the changes of objects queued after it.  Pods and nodes have  *)
(* an informer each and no order relates the two.                          *)
(***************************************************************************)
EXTENDS Server

CONSTANTS
  PodIP,       \* addresses the cluster gives to pods
  NodeIP,      \* the address of each node
  Happens,     \* what befalls pods and watches, see Event
  MaxPodOps,   \* bound on changes of pods
  MaxNodeOps   \* bound on changes of nodes

\* A pod gets a new sandbox and with it another address; a pod runs to completion,
\* which frees its address while its status goes on to show it; a deletion
\* happens while the watch is down.
Event == {"restart", "finish", "gap"}

\* A pod as its kubelet reports it: the node, its address and the pod's own.
PodAt(k, node, addrs) == [key |-> k, node |-> node, hostIP |-> NodeIP[node], podIPs |-> addrs]

NodeAt(node, label) == [name |-> node, zone |-> label]

ASSUME AddressAssumption ==
  /\ NodeIP \in [Node -> IP]
  /\ PodIP \subseteq IP
  /\ \A node \in Node : NodeIP[node] \notin PodIP
  /\ \A m, n \in Node : NodeIP[m] = NodeIP[n] => m = n

ASSUME ObjectAssumption ==
  /\ \A k \in PodKey, node \in Node :
       /\ PodAt(k, node, {}) \in PodObject
       /\ \A ip \in PodIP \cup {NodeIP[node]} : PodAt(k, node, {ip}) \in PodObject
  /\ \A node \in Node, label \in Zone \cup {NoLabel} : NodeAt(node, label) \in NodeObject
  /\ Absent \notin PodObject \cup {NoLabel}
  /\ PodKey \cap Node = {}

ASSUME ModeAssumption ==
  /\ Happens \subseteq Event
  /\ MaxPodOps \in Nat /\ MaxNodeOps \in Nat

VARIABLES
  pods,        \* podKey -> the Pod object in the API server
  holder,      \* pod address -> the pod whose sandbox has it
  owners,      \* history: pod address -> the pods that have had it
  claims,      \* history: pod address -> those of them that a deletion has not
               \* separated from it, see deletePod
  contested,   \* history: addresses given to a pod that others had a claim to
  missed,      \* history: pods and nodes whose deletion the watch missed
  removed,     \* history: nodes that were deleted at least once
  nodes,       \* node name -> its zone label in the API server, or Absent
  podOps,      \* changes of pods so far
  nodeOps,     \* changes of nodes so far
  podFifo,     \* the pod informer's DeltaFIFO: keys in order
  podDeltas,   \* and the changes queued for each key
  podPopped,   \* changes of the popped key that are still to be handled
  nodeDeltas   \* the node informer's queue, by node: the handlers of two
               \* nodes commute, so the order between nodes is left open

histories == <<owners, claims, contested, missed, removed>>
cluster == <<pods, holder, histories, nodes, podOps, nodeOps>>
watches == <<podFifo, podDeltas, podPopped, nodeDeltas>>
wvars == <<vars, cluster, watches>>

Delta(type, obj) == [type |-> type, obj |-> obj]

\* The nodes are there when the server starts: its first list reports them.
WInit ==
  /\ Init
  /\ pods = [k \in PodKey |-> Absent]
  /\ holder = [ip \in PodIP |-> Absent]
  /\ owners = [ip \in PodIP |-> {}]
  /\ claims = [ip \in PodIP |-> {}]
  /\ contested = {}
  /\ missed = {}
  /\ removed = {}
  /\ nodes \in [Node -> Zone \cup {NoLabel}]
  /\ podOps = 0
  /\ nodeOps = 0
  /\ podFifo = <<>>
  /\ podDeltas = [k \in PodKey |-> <<>>]
  /\ podPopped = <<>>
  /\ nodeDeltas = [n \in Node |-> <<Delta("add", NodeAt(n, nodes[n]))>>]

-----------------------------------------------------------------------------
(***************************************************************************)
(* The cluster.                                                            *)
(***************************************************************************)

\* One change of pod k, and what the watch queues for it.
podChange(k, object, type, delta) ==
  /\ podOps < MaxPodOps
  /\ podOps' = podOps + 1
  /\ pods' = [pods EXCEPT ![k] = object]
  /\ podDeltas' = [podDeltas EXCEPT ![k] = Append(@, Delta(type, delta))]
  /\ podFifo' = IF podDeltas[k] = <<>> THEN Append(podFifo, k) ELSE podFifo
  /\ UNCHANGED <<vars, nodes, nodeOps, podPopped, nodeDeltas>>

\* A pod is created and bound to a node; it has no address yet.
createPod(k, node) ==
  /\ pods[k] = Absent
  /\ nodes[node] # Absent
  /\ podChange(k, PodAt(k, node, {}), "add", PodAt(k, node, {}))
  /\ missed' = missed \ {k}
  /\ UNCHANGED <<holder, owners, claims, contested, removed>>

\* The addresses a pod has are free again.
released(k) == [ip \in PodIP |-> IF holder[ip] = k THEN Absent ELSE holder[ip]]

onHost(k) == NodeIP[pods[k].node] \in pods[k].podIPs

running(k) == \E ip \in PodIP : holder[ip] = k

\* The kubelet made a sandbox for the pod, the first one or, after a restart,
\* another one, and reports its address: any that no running pod has.
startPod(k, ip) ==
  /\ pods[k] # Absent
  /\ pods[k].podIPs = {} \/ ("restart" \in Happens /\ running(k))
  /\ holder[ip] = Absent
  /\ holder' = [released(k) EXCEPT ![ip] = k]
  /\ owners' = [owners EXCEPT ![ip] = @ \cup {k}]
  /\ claims' = [claims EXCEPT ![ip] = @ \cup {k}]
  /\ contested' = IF claims[ip] \subseteq {k} THEN contested ELSE contested \cup {ip}
  /\ podChange(k, PodAt(k, pods[k].node, {ip}), "update", PodAt(k, pods[k].node, {ip}))
  /\ UNCHANGED <<missed, removed>>

\* A hostNetwork pod reports its node's address.
startOnHost(k) ==
  /\ pods[k] # Absent
  /\ pods[k].podIPs = {}
  /\ LET object == PodAt(k, pods[k].node, {NodeIP[pods[k].node]}) IN
       podChange(k, object, "update", object)
  /\ UNCHANGED <<holder, histories>>

\* A pod has run to completion.
finishPod(k) ==
  /\ "finish" \in Happens
  /\ running(k)
  /\ holder' = released(k)
  /\ podChange(k, pods[k], "update", pods[k])
  /\ UNCHANGED histories

\* A pod is deleted.  If the watch was down, the informer finds out from the
\* next list and delivers a DeletedFinalStateUnknown instead of the Pod.
deletePod(k) ==
  /\ pods[k] # Absent
  /\ holder' = released(k)
  /\ \/ /\ podChange(k, Absent, "delete", pods[k])
        /\ claims' = [ip \in PodIP |-> IF ip \in pods[k].podIPs THEN claims[ip] \ {k} ELSE claims[ip]]
        /\ UNCHANGED missed
     \/ /\ "gap" \in Happens
        /\ podChange(k, Absent, "tombstone", pods[k])
        /\ missed' = missed \cup {k}
        /\ UNCHANGED claims
  /\ UNCHANGED <<owners, contested, removed>>

nodeChange(node, label, type, delta) ==
  /\ nodeOps < MaxNodeOps
  /\ nodeOps' = nodeOps + 1
  /\ nodes' = [nodes EXCEPT ![node] = label]
  /\ nodeDeltas' = [nodeDeltas EXCEPT ![node] = Append(@, Delta(type, delta))]
  /\ UNCHANGED <<vars, pods, holder, owners, claims, contested, podOps, podFifo, podDeltas, podPopped>>

addNode(node, label) ==
  /\ nodes[node] = Absent
  /\ nodeChange(node, label, "add", NodeAt(node, label))
  /\ missed' = missed \ {node}
  /\ UNCHANGED removed

relabelNode(node, label) ==
  /\ nodes[node] \notin {Absent, label}
  /\ nodeChange(node, label, "update", NodeAt(node, label))
  /\ UNCHANGED <<missed, removed>>

deleteNode(node) ==
  /\ nodes[node] # Absent
  /\ removed' = removed \cup {node}
  /\ \/ /\ nodeChange(node, Absent, "delete", NodeAt(node, nodes[node]))
        /\ UNCHANGED missed
     \/ /\ "gap" \in Happens
        /\ nodeChange(node, Absent, "tombstone", NodeAt(node, nodes[node]))
        /\ missed' = missed \cup {node}

Cluster ==
  \/ \E k \in PodKey :
       \/ \E node \in Node : createPod(k, node)
       \/ \E ip \in PodIP : startPod(k, ip)
       \/ startOnHost(k)
       \/ finishPod(k)
       \/ deletePod(k)
  \/ \E node \in Node :
       \/ \E label \in Zone \cup {NoLabel} : addNode(node, label) \/ relabelNode(node, label)
       \/ deleteNode(node)

-----------------------------------------------------------------------------
(***************************************************************************)
(* The informers: pop a key, then call a handler for each of its changes.  *)
(***************************************************************************)

popPod ==
  /\ podPopped = <<>>
  /\ podFifo # <<>>
  /\ podPopped' = podDeltas[Head(podFifo)]
  /\ podDeltas' = [podDeltas EXCEPT ![Head(podFifo)] = <<>>]
  /\ podFifo' = Tail(podFifo)
  /\ UNCHANGED <<vars, cluster, nodeDeltas>>

\* onPodDelete and onNodeDelete return at once if they get a tombstone.
watchPods ==
  /\ podPopped # <<>>
  /\ podPopped' = Tail(podPopped)
  /\ LET delta == Head(podPopped) IN
       \/ delta.type = "add"       /\ onPodAdd(delta.obj)
       \/ delta.type = "update"    /\ onPodUpdate(delta.obj)
       \/ delta.type = "delete"    /\ onPodDelete(delta.obj)
       \/ delta.type = "tombstone" /\ UNCHANGED vars
  /\ UNCHANGED <<cluster, podFifo, podDeltas, nodeDeltas>>

watchNodes(node) ==
  /\ nodeDeltas[node] # <<>>
  /\ nodeDeltas' = [nodeDeltas EXCEPT ![node] = Tail(@)]
  /\ LET delta == Head(nodeDeltas[node]) IN
       \/ delta.type = "add"    /\ onNodeAdd(delta.obj)
       \/ delta.type = "update" /\ onNodeUpdate(delta.obj)
       \/ delta.type = "delete" /\ onNodeDelete(delta.obj)
       \/ delta.type = "tombstone" /\ UNCHANGED vars
  /\ UNCHANGED <<cluster, podFifo, podDeltas, podPopped>>

alone == UNCHANGED <<cluster, watches>>

\* The POSTs and the scrapes go on meanwhile.
serve ==
  /\ \/ \E r \in Request : handlePayload(r)
     \/ \E s \in Scrape : Collect(s)
  /\ alone

WNext ==
  \/ Cluster
  \/ popPod
  \/ watchPods
  \/ \E node \in Node : watchNodes(node)
  \/ serve

WSpec == WInit /\ [][WNext]_wvars

(***************************************************************************)
(* A goroutine that runs keeps running, and the registry drains Collect's  *)
(* channel: weak fairness inside the critical sections.  A Go mutex hands  *)
(* itself to a waiter that has waited for 1ms (starvation mode), so nobody *)
(* waits for ever while others come and go: strong fairness to enter, for  *)
(* the informers too.  Nothing is assumed of the cluster or of who sends   *)
(* requests.                                                               *)
(***************************************************************************)
WFairness ==
  /\ WF_wvars(popPod)
  /\ SF_wvars(watchPods)
  /\ \A node \in Node : SF_wvars(watchNodes(node))
  /\ \A r \in Request : /\ SF_wvars(lockPayload(r) /\ alone)
                        /\ WF_wvars((countEntry(r) \/ unlockPayload(r)) /\ alone)
  /\ \A s \in Scrape  : /\ SF_wvars(lockCollect(s) /\ alone)
                        /\ WF_wvars((sendMetric(s) \/ unlockCollect(s)) /\ alone)

WFairSpec == WSpec /\ WFairness

-----------------------------------------------------------------------------
(***************************************************************************)
(* Properties.  The server lags behind the cluster; what it must get right *)
(* is the state it reaches when no event is left to be handled.            *)
(***************************************************************************)

\* The cluster's objects and the queued changes are objects the server's
\* handlers accept.
WTypeOK ==
  /\ TypeOK
  /\ pods \in [PodKey -> PodObject \cup {Absent}]
  /\ holder \in [PodIP -> PodKey \cup {Absent}]
  /\ owners \in [PodIP -> SUBSET PodKey] /\ claims \in [PodIP -> SUBSET PodKey]
  /\ contested \subseteq PodIP /\ missed \subseteq PodKey \cup Node /\ removed \subseteq Node
  /\ nodes \in [Node -> Zone \cup {NoLabel, Absent}]
  /\ podOps \in 0 .. MaxPodOps /\ nodeOps \in 0 .. MaxNodeOps
  /\ podFifo \in Seq(PodKey)
  /\ podDeltas \in [PodKey -> Seq([type: {"add", "update", "delete", "tombstone"}, obj: PodObject])]
  /\ podPopped \in Seq([type: {"add", "update", "delete", "tombstone"}, obj: PodObject])
  /\ nodeDeltas \in [Node -> Seq([type: {"add", "update", "delete", "tombstone"}, obj: NodeObject])]

Quiescent ==
  /\ podFifo = <<>> /\ podPopped = <<>>
  /\ \A node \in Node : nodeDeltas[node] = <<>>

\* podIndex and nodeIndex, once the events are handled, list the cluster's pods
\* with their node and addresses and its nodes with their zones, except for the
\* deletions the watch missed.
MirrorsCluster ==
  /\ \A k \in PodKey \ missed : podIndex[k] =
       IF pods[k] = Absent THEN Absent ELSE [Node |-> pods[k].node, IPs |-> pods[k].podIPs]
  /\ \A n \in Node \ missed : nodeIndex[n] =
       IF nodes[n] = Absent THEN Absent ELSE IF nodes[n] = NoLabel THEN Unknown ELSE nodes[n]

IndexMirrorsCluster == Quiescent => MirrorsCluster

ResolvesTo(ip, results) == Quiescent /\ holder[ip] # Absent => podIpIndex[ip] \in results

\* Once the events are handled, the address of a running pod that no other pod
\* ever had resolves to the pod, whatever became of other pods, restarts, other
\* addresses and missed deletions.
FirstOwnerResolves == \A ip \in PodIP : owners[ip] = {holder[ip]} => ResolvesTo(ip, {holder[ip]})

\* Once the events are handled, the traffic of a running pod is given to no
\* other pod, if each former owner of its address was seen to be deleted while
\* its status showed the address.
CleanReuse == \A ip \in PodIP \ contested : ResolvesTo(ip, {holder[ip], Absent})

\* Once the events are handled, the address of a running pod resolves to that
\* pod (main.go:40, "maps Pod IPv4s to Pod name").
PodIPsResolve == \A ip \in PodIP : ResolvesTo(ip, {holder[ip]})

\* Once the events are handled, the traffic of a running pod is never given to
\* another pod, even if its address was another pod's before (README.md:37,
\* "resolves the actual pod, node and zone relationships").
NeverWrongPod == \A ip \in PodIP : ResolvesTo(ip, {holder[ip], Absent})

\* Once the events are handled, the address of a node with a hostNetwork pod
\* resolves to the node: deleting one of its pods does not take it from the
\* others (main.go:41 and main.go:240, "shared across hostNetwork pods").  Not
\* so for a node that was deleted and came back.
HostIPsResolve ==
  Quiescent => \A k \in PodKey :
    pods[k] # Absent /\ onHost(k) /\ pods[k].node \notin removed
      => podIpIndex[pods[k].hostIP] = Absent /\ nodeIpIndex[pods[k].hostIP] = pods[k].node

\* When the cluster stops changing, the server catches up with it for good.
Converges ==
  (podOps = MaxPodOps /\ nodeOps = MaxNodeOps) ~> [](Quiescent /\ MirrorsCluster)
==============================================================================
