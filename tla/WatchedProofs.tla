---------------------------- MODULE WatchedProofs ----------------------------
(***************************************************************************)
(* What holds of the server fed by a cluster, for every set of pods, nodes *)
(* and addresses, any number of changes and every mode of the cluster:     *)
(* the queues of the informers are well formed, the watched server is a    *)
(* server in the sense of module Server, and its indexes follow the        *)
(* cluster.                                                                *)
(***************************************************************************)
EXTENDS WatchedServer, ServerProofs, SequenceTheorems

DeltaType == {"add", "update", "delete", "tombstone"}
PodDelta  == [type: DeltaType, obj: PodObject]
NodeDelta == [type: DeltaType, obj: NodeObject]

\* The Pod objects the cluster makes for a key: bound to a node, with no
\* address, one of its own, or the node's.
ClusterPod(k) ==
  { obj \in PodObject :
      /\ obj.key = k
      /\ obj.node \in Node
      /\ obj.hostIP = NodeIP[obj.node]
      /\ obj.podIPs \subseteq PodIP \/ obj.podIPs = {obj.hostIP} }

\* The queues of the informers hold each object's own changes, what was popped
\* belongs to one pod, and a key with changes is waiting to be popped.
WellQueued ==
  /\ \A k \in PodKey : pods[k] # Absent => pods[k] \in ClusterPod(k)
  /\ \A k \in PodKey : \A i \in 1 .. Len(podDeltas[k]) : podDeltas[k][i].obj \in ClusterPod(k)
  /\ \A i \in 1 .. Len(podPopped) : podPopped[i].obj \in ClusterPod(podPopped[1].obj.key)
  /\ \A k \in PodKey : podDeltas[k] # <<>> => \E i \in 1 .. Len(podFifo) : podFifo[i] = k
  /\ \A n \in Node : \A i \in 1 .. Len(nodeDeltas[n]) : nodeDeltas[n][i].obj.name = n

-----------------------------------------------------------------------------
(***************************************************************************)
(* Objects of the cluster.                                                 *)
(***************************************************************************)

\* What the handlers make of a pod of the cluster: its addresses are all IPv4,
\* and only its node's own counts as the host's.
LEMMA PodOfCluster ==
  ASSUME NEW k \in PodKey, NEW obj \in ClusterPod(k)
  PROVE  /\ obj \in PodObject /\ obj.key = k /\ obj.node \in Node
         /\ obj.podIPs \subseteq IP /\ ips(obj) = obj.podIPs
         /\ hostIP(obj) = NodeIP[obj.node] /\ hostIP(obj) \in IP
         /\ \A ip : onHostNetwork(obj, ip) <=> ip = NodeIP[obj.node]
         /\ obj # Absent
<1>1. /\ obj \in PodObject /\ obj.key = k /\ obj.node \in Node /\ obj.hostIP = NodeIP[obj.node]
      /\ obj.podIPs \subseteq PodIP \/ obj.podIPs = {obj.hostIP}
  BY DEF ClusterPod
<1>2. obj.hostIP \in IP /\ obj.podIPs \subseteq IP
  BY <1>1, AddressAssumption
<1>3. ips(obj) = obj.podIPs
  BY <1>2 DEF ips
<1>4. hostIP(obj) = obj.hostIP /\ hostIP(obj) # NoHostIP
  BY <1>2, IPAssumption DEF hostIP
<1>5. \A ip : onHostNetwork(obj, ip) <=> ip = NodeIP[obj.node]
  BY <1>1, <1>4 DEF onHostNetwork
<1> QED
  BY <1>1, <1>2, <1>3, <1>4, <1>5, ObjectAssumption

\* The objects the cluster's operations make.
LEMMA MadePods ==
  ASSUME NEW k \in PodKey, NEW node \in Node
  PROVE  /\ PodAt(k, node, {}) \in ClusterPod(k)
         /\ PodAt(k, node, {NodeIP[node]}) \in ClusterPod(k)
         /\ \A ip \in PodIP : PodAt(k, node, {ip}) \in ClusterPod(k)
  BY AddressAssumption, ObjectAssumption DEF ClusterPod, PodAt

-----------------------------------------------------------------------------
(***************************************************************************)
(* Types and queues.                                                       *)
(***************************************************************************)

\* The types of what the cluster keeps besides the objects.
HistoriesTyped ==
  /\ holder \in [PodIP -> PodKey \cup {Absent}]
  /\ owners \in [PodIP -> SUBSET PodKey] /\ claims \in [PodIP -> SUBSET PodKey]
  /\ contested \subseteq PodIP /\ missed \subseteq PodKey \cup Node /\ removed \subseteq Node

\* A change of a pod is queued behind the pod's other changes, and its key with
\* it unless the key is queued already.
LEMMA PodChangeTyped ==
  ASSUME WTypeOK, WellQueued, NEW k \in PodKey,
         NEW object \in ClusterPod(k) \cup {Absent}, NEW type \in DeltaType, NEW delta \in ClusterPod(k),
         podChange(k, object, type, delta), HistoriesTyped'
  PROVE  WTypeOK' /\ WellQueued'
<1> DEFINE d == Delta(type, delta)
<1>1. delta \in PodObject /\ object \in PodObject \cup {Absent} /\ d \in PodDelta
  BY PodOfCluster DEF Delta, PodDelta
<1>2. /\ podOps < MaxPodOps /\ podOps' = podOps + 1
      /\ pods' = [pods EXCEPT ![k] = object]
      /\ podDeltas' = [podDeltas EXCEPT ![k] = Append(@, d)]
      /\ podFifo' = IF podDeltas[k] = <<>> THEN Append(podFifo, k) ELSE podFifo
      /\ UNCHANGED <<vars, nodes, nodeOps, podPopped, nodeDeltas>>
  BY DEF podChange
<1>3. /\ pods \in [PodKey -> PodObject \cup {Absent}]
      /\ podDeltas \in [PodKey -> Seq(PodDelta)]
      /\ podFifo \in Seq(PodKey)
  BY DEF WTypeOK, PodDelta, DeltaType
<1>4. /\ pods' \in [PodKey -> PodObject \cup {Absent}]
      /\ podFifo' \in Seq(PodKey)
  BY <1>1, <1>2, <1>3
<1>5. /\ podDeltas' \in [PodKey -> Seq(PodDelta)]
      /\ podDeltas'[k] = Append(podDeltas[k], d)
      /\ \A j \in PodKey \ {k} : podDeltas'[j] = podDeltas[j]
  BY <1>1, <1>2, <1>3
<1>6. podOps' \in 0 .. MaxPodOps
  BY <1>2, ModeAssumption DEF WTypeOK
<1>7. TypeOK'
  BY <1>2 DEF WTypeOK, TypeOK, vars
<1>8. WTypeOK'
  BY <1>2, <1>4, <1>5, <1>6, <1>7 DEF WTypeOK, HistoriesTyped, PodDelta, DeltaType
<1>9. \A j \in PodKey : pods'[j] # Absent => pods'[j] \in ClusterPod(j)
  BY <1>2, <1>3 DEF WellQueued
<1>10. ASSUME NEW j \in PodKey, NEW i \in 1 .. Len(podDeltas'[j])
       PROVE  podDeltas'[j][i].obj \in ClusterPod(j)
  <2>1. CASE j = k /\ i = Len(podDeltas[k]) + 1
    <3>1. podDeltas'[j][i] = d
      BY <1>1, <1>3, <1>5, <2>1
    <3> QED
      BY <2>1, <3>1 DEF Delta
  <2>2. CASE j = k /\ i # Len(podDeltas[k]) + 1
    <3>1. i \in 1 .. Len(podDeltas[k]) /\ podDeltas'[j][i] = podDeltas[k][i]
      <4>1. podDeltas[k] \in Seq(PodDelta)
        BY <1>3
      <4>2. /\ Len(Append(podDeltas[k], d)) = Len(podDeltas[k]) + 1
            /\ \A n \in 1 .. Len(podDeltas[k]) : Append(podDeltas[k], d)[n] = podDeltas[k][n]
        BY <1>1, <4>1, AppendProperties
      <4> QED
        BY <1>5, <2>2, <4>1, <4>2
    <3> QED
      BY <2>2, <3>1 DEF WellQueued
  <2>3. CASE j # k
    BY <1>5, <2>3 DEF WellQueued
  <2> QED
    BY <2>1, <2>2, <2>3
<1>11. ASSUME NEW j \in PodKey, podDeltas'[j] # <<>>
       PROVE  \E i \in 1 .. Len(podFifo') : podFifo'[i] = j
  <2>1. CASE podDeltas[j] # <<>>
    <3>1. PICK i \in 1 .. Len(podFifo) : podFifo[i] = j
      BY <2>1 DEF WellQueued
    <3>2. i \in 1 .. Len(podFifo') /\ podFifo'[i] = podFifo[i]
      BY <1>2, <1>3
    <3> QED
      BY <3>1, <3>2
  <2>2. CASE podDeltas[j] = <<>>
    <3>1. j = k /\ podFifo' = Append(podFifo, k)
      BY <1>2, <1>5, <1>11, <2>2
    <3>2. Len(podFifo) + 1 \in 1 .. Len(podFifo') /\ podFifo'[Len(podFifo) + 1] = j
      BY <1>3, <3>1
    <3> QED
      BY <3>2
  <2> QED
    BY <2>1, <2>2
<1> QED
  BY <1>2, <1>8, <1>9, <1>10, <1>11 DEF WellQueued

\* The cluster's operations on pods.
PodOperation(k) ==
  \/ \E node \in Node : createPod(k, node)
  \/ \E ip \in PodIP : startPod(k, ip)
  \/ startOnHost(k)
  \/ finishPod(k)
  \/ deletePod(k)

\* The pod that has an address shows it in its status.
HoldersShown ==
  \A ip \in PodIP : holder[ip] # Absent
                      => pods[holder[ip]] # Absent /\ ip \in pods[holder[ip]].podIPs

\* Every operation of the cluster on a pod keeps the types and the queues.
LEMMA PodOperationTyped ==
  ASSUME WTypeOK, WellQueued, HoldersShown, NEW k \in PodKey, PodOperation(k)
  PROVE  WTypeOK' /\ WellQueued'
<1> USE DEF HistoriesTyped
<1>1. HistoriesTyped /\ pods[k] \in PodObject \cup {Absent}
  BY DEF WTypeOK
<1>2. pods[k] # Absent => pods[k] \in ClusterPod(k) /\ pods[k].node \in Node
  BY PodOfCluster DEF WellQueued
<1>3. released(k) \in [PodIP -> PodKey \cup {Absent}]
  BY <1>1 DEF released
<1>4. ASSUME NEW node \in Node, createPod(k, node) PROVE WTypeOK' /\ WellQueued'
  <2>1. HistoriesTyped'
    BY <1>1, <1>4 DEF createPod
  <2> QED
    BY <1>4, <2>1, MadePods, PodChangeTyped DEF createPod, DeltaType
<1>5. ASSUME NEW ip \in PodIP, startPod(k, ip) PROVE WTypeOK' /\ WellQueued'
  <2>1. HistoriesTyped'
    BY <1>1, <1>3, <1>5 DEF startPod
  <2> QED
    BY <1>2, <1>5, <2>1, MadePods, PodChangeTyped DEF startPod, DeltaType
<1>6. CASE startOnHost(k)
  <2>1. HistoriesTyped'
    BY <1>1, <1>6 DEF startOnHost, histories
  <2> QED
    BY <1>2, <1>6, <2>1, MadePods, PodChangeTyped DEF startOnHost, DeltaType
<1>7. CASE finishPod(k)
  <2> pods[k] # Absent
    BY <1>7, AbsentAssumption DEF finishPod, running, HoldersShown
  <2>1. HistoriesTyped'
    BY <1>1, <1>3, <1>7 DEF finishPod, histories
  <2> QED
    BY <1>2, <1>7, <2>1, PodChangeTyped DEF finishPod, DeltaType
<1>8. CASE deletePod(k)
  <2>1. HistoriesTyped'
    BY <1>1, <1>3, <1>8 DEF deletePod
  <2>2. /\ pods[k] # Absent
        /\ \E type \in DeltaType : podChange(k, Absent, type, pods[k])
    BY <1>8 DEF deletePod, DeltaType
  <2> QED
    BY <1>2, <2>1, <2>2, PodChangeTyped
<1> QED
  BY <1>4, <1>5, <1>6, <1>7, <1>8 DEF PodOperation

\* An address is in the status of the pod that has it, or of none, after every
\* operation.
LEMMA HoldersKept ==
  ASSUME WTypeOK, WellQueued, HoldersShown, NEW k \in PodKey, PodOperation(k)
  PROVE  HoldersShown'
<1>1. /\ holder \in [PodIP -> PodKey \cup {Absent}]
      /\ pods \in [PodKey -> PodObject \cup {Absent}]
  BY DEF WTypeOK
<1>2. /\ released(k) \in [PodIP -> PodKey \cup {Absent}]
      /\ \A ip \in PodIP : released(k)[ip] # Absent => released(k)[ip] = holder[ip] /\ holder[ip] # k
  BY <1>1 DEF released
<1>3. Absent \notin PodKey
  BY AbsentAssumption
<1>4. ASSUME NEW node \in Node, createPod(k, node) PROVE HoldersShown'
  <2>1. pods[k] = Absent /\ pods' = [pods EXCEPT ![k] = PodAt(k, node, {})] /\ holder' = holder
    BY <1>4 DEF createPod, podChange
  <2> QED
    BY <1>1, <1>3, <2>1 DEF HoldersShown
<1>5. ASSUME NEW ip \in PodIP, startPod(k, ip) PROVE HoldersShown'
  <2> DEFINE object == PodAt(k, pods[k].node, {ip})
  <2>1. /\ pods' = [pods EXCEPT ![k] = object]
        /\ holder' = [released(k) EXCEPT ![ip] = k]
        /\ pods[k] # Absent
    BY <1>5 DEF startPod, podChange
  <2>2. object # Absent /\ object.podIPs = {ip}
    <3>1. pods[k].node \in Node
      BY <2>1, PodOfCluster DEF WellQueued
    <3>2. object \in ClusterPod(k)
      BY <3>1, MadePods
    <3> QED
      <4>1. object # Absent
        BY <3>2, PodOfCluster
      <4>2. object.podIPs = {ip}
        BY DEF PodAt
      <4> QED
        BY <4>1, <4>2
  <2> HIDE DEF object
  <2>3. pods'[k] = object /\ \A j \in PodKey \ {k} : pods'[j] = pods[j]
    BY <1>1, <2>1
  <2>4. holder'[ip] = k /\ \A x \in PodIP \ {ip} : holder'[x] = released(k)[x]
    BY <1>2, <2>1
  <2>5. ASSUME NEW x \in PodIP, holder'[x] # Absent
        PROVE  pods'[holder'[x]] # Absent /\ x \in pods'[holder'[x]].podIPs
    <3>1. CASE x = ip
      BY <2>2, <2>3, <2>4, <3>1
    <3>2. CASE x # ip
      <4>1. holder'[x] = holder[x] /\ holder[x] # k /\ holder[x] \in PodKey
        BY <1>1, <1>2, <2>4, <2>5, <3>2
      <4> QED
        BY <2>3, <2>5, <4>1 DEF HoldersShown
    <3> QED
      BY <3>1, <3>2
  <2> QED
    BY <2>5 DEF HoldersShown
<1>6. CASE startOnHost(k)
  <2>1. pods[k].podIPs = {} /\ holder' = holder
    BY <1>6 DEF startOnHost
  <2>2. \A j \in PodKey \ {k} : pods'[j] = pods[j]
    BY <1>1, <1>6 DEF startOnHost, podChange
  <2> QED
    BY <1>1, <2>1, <2>2 DEF HoldersShown
<1>7. CASE finishPod(k) \/ deletePod(k)
  <2>1. holder' = released(k)
    BY <1>7 DEF finishPod, deletePod
  <2>2. \A j \in PodKey \ {k} : pods'[j] = pods[j]
    BY <1>1, <1>7 DEF finishPod, deletePod, podChange
  <2> QED
    BY <1>1, <1>2, <2>1, <2>2 DEF HoldersShown
<1> QED
  BY <1>4, <1>5, <1>6, <1>7 DEF PodOperation

\* The cluster's operations on nodes.
NodeOperation(node) ==
  \/ \E label \in Zone \cup {NoLabel} : addNode(node, label) \/ relabelNode(node, label)
  \/ deleteNode(node)

\* What an operation on a node does: the label changes, the change is queued.
LEMMA NodeOperationQueues ==
  ASSUME WTypeOK, NEW n \in Node, NodeOperation(n)
  PROVE  \E label \in Zone \cup {NoLabel, Absent}, type \in DeltaType, delta \in NodeObject :
           /\ nodeChange(n, label, type, delta)
           /\ delta.name = n
           /\ IF label = Absent THEN type \in {"delete", "tombstone"} ELSE type \in {"add", "update"}
           /\ label # Absent => delta = NodeAt(n, label)
           /\ type = "tombstone" => n \in missed'
           /\ label = Absent => n \in removed'
<1> USE DEF DeltaType
<1>1. \A l \in Zone \cup {NoLabel} : NodeAt(n, l) \in NodeObject /\ NodeAt(n, l).name = n
  BY ObjectAssumption DEF NodeAt
<1>2. Absent \notin Zone \cup {NoLabel}
  BY AbsentAssumption, ObjectAssumption DEF ZoneName
<1>3. ASSUME NEW label \in Zone \cup {NoLabel}, addNode(n, label) PROVE nodeChange(n, label, "add", NodeAt(n, label))
  BY <1>3 DEF addNode
<1>4. ASSUME NEW label \in Zone \cup {NoLabel}, relabelNode(n, label) PROVE nodeChange(n, label, "update", NodeAt(n, label))
  BY <1>4 DEF relabelNode
<1>5. CASE deleteNode(n)
  <2>1. nodes[n] \in Zone \cup {NoLabel}
    BY <1>5 DEF deleteNode, WTypeOK
  <2>2. \E type \in {"delete", "tombstone"} :
          nodeChange(n, Absent, type, NodeAt(n, nodes[n])) /\ (type = "tombstone" => n \in missed')
    BY <1>5 DEF deleteNode
  <2>3. NodeAt(n, nodes[n]) \in NodeObject /\ NodeAt(n, nodes[n]).name = n
    BY <1>1, <2>1
  <2>4. n \in removed'
    BY <1>5 DEF deleteNode
  <2> QED
    BY <2>2, <2>3, <2>4
<1> QED
  BY <1>1, <1>2, <1>3, <1>4, <1>5 DEF NodeOperation

\* Every operation of the cluster on a node keeps the types and the queues.
LEMMA NodeOperationTyped ==
  ASSUME WTypeOK, WellQueued, NEW n \in Node, NodeOperation(n)
  PROVE  WTypeOK' /\ WellQueued'
<1>1. PICK label \in Zone \cup {NoLabel, Absent}, type \in DeltaType, delta \in NodeObject :
        nodeChange(n, label, type, delta) /\ delta.name = n
  BY NodeOperationQueues
<1>2. missed' \subseteq PodKey \cup Node /\ removed' \subseteq Node
  BY DEF NodeOperation, addNode, relabelNode, deleteNode, WTypeOK
<1> DEFINE d == Delta(type, delta)
<1>3. /\ nodeOps < MaxNodeOps /\ nodeOps' = nodeOps + 1
      /\ nodes' = [nodes EXCEPT ![n] = label]
      /\ nodeDeltas' = [nodeDeltas EXCEPT ![n] = Append(@, d)]
      /\ UNCHANGED <<vars, pods, holder, owners, claims, contested, podOps, podFifo, podDeltas, podPopped>>
  BY <1>1 DEF nodeChange
<1>4. d \in NodeDelta /\ d.obj.name = n
  BY <1>1 DEF Delta, NodeDelta
<1>5. nodeDeltas \in [Node -> Seq(NodeDelta)] /\ nodeDeltas[n] \in Seq(NodeDelta)
  BY DEF WTypeOK, NodeDelta, DeltaType
<1> HIDE DEF d
<1>6. /\ Append(nodeDeltas[n], d) \in Seq(NodeDelta)
      /\ Len(Append(nodeDeltas[n], d)) = Len(nodeDeltas[n]) + 1
      /\ \A i \in 1 .. Len(nodeDeltas[n]) : Append(nodeDeltas[n], d)[i] = nodeDeltas[n][i]
      /\ Append(nodeDeltas[n], d)[Len(nodeDeltas[n]) + 1] = d
  BY <1>4, <1>5, AppendProperties
<1>7. /\ nodeDeltas' \in [Node -> Seq(NodeDelta)]
      /\ nodeDeltas'[n] = Append(nodeDeltas[n], d)
      /\ \A m \in Node \ {n} : nodeDeltas'[m] = nodeDeltas[m]
  BY <1>3, <1>5, <1>6
<1>8. nodes' \in [Node -> Zone \cup {NoLabel, Absent}]
  BY <1>3 DEF WTypeOK
<1>9. nodeOps' \in 0 .. MaxNodeOps
  BY <1>3, ModeAssumption DEF WTypeOK
<1>10. TypeOK'
  BY <1>3 DEF WTypeOK, TypeOK, vars
<1>11. WTypeOK'
  BY <1>2, <1>3, <1>7, <1>8, <1>9, <1>10 DEF WTypeOK, NodeDelta, DeltaType
<1>12. ASSUME NEW m \in Node, NEW i \in 1 .. Len(nodeDeltas'[m]) PROVE nodeDeltas'[m][i].obj.name = m
  <2>1. CASE m # n
    BY <1>7, <2>1 DEF WellQueued
  <2>2. CASE m = n
    <3>1. i \in 1 .. Len(nodeDeltas[n]) \/ i = Len(nodeDeltas[n]) + 1
      BY <1>5, <1>6, <1>7, <2>2
    <3> QED
      BY <1>4, <1>6, <1>7, <2>2, <3>1 DEF WellQueued
  <2> QED
    BY <2>1, <2>2
<1> QED
  BY <1>3, <1>11, <1>12 DEF WellQueued

\* Popping a key moves its changes.
LEMMA PopTyped ==
  ASSUME WTypeOK, WellQueued, popPod
  PROVE  WTypeOK' /\ WellQueued'
<1> DEFINE k == Head(podFifo)
<1>1. podFifo \in Seq(PodKey) /\ podFifo # <<>> /\ podDeltas \in [PodKey -> Seq(PodDelta)]
  BY DEF popPod, WTypeOK, PodDelta, DeltaType
<1>2. /\ k \in PodKey /\ k = podFifo[1] /\ Tail(podFifo) \in Seq(PodKey)
      /\ Len(Tail(podFifo)) = Len(podFifo) - 1
      /\ \A i \in 1 .. Len(Tail(podFifo)) : Tail(podFifo)[i] = podFifo[i + 1]
  BY <1>1, HeadTailProperties
<1>3. /\ podPopped' = podDeltas[k]
      /\ podDeltas' = [podDeltas EXCEPT ![k] = <<>>]
      /\ podFifo' = Tail(podFifo)
      /\ UNCHANGED <<vars, cluster, nodeDeltas>>
  BY DEF popPod
<1> HIDE DEF k
<1>4. /\ podDeltas' \in [PodKey -> Seq(PodDelta)] /\ podPopped' \in Seq(PodDelta)
      /\ podDeltas'[k] = <<>>
      /\ \A j \in PodKey \ {k} : podDeltas'[j] = podDeltas[j]
  BY <1>1, <1>2, <1>3
<1>5. WTypeOK'
  BY <1>2, <1>3, <1>4 DEF WTypeOK, TypeOK, vars, cluster, histories, PodDelta, DeltaType
<1>6. \A j \in PodKey : \A i \in 1 .. Len(podDeltas'[j]) : podDeltas'[j][i].obj \in ClusterPod(j)
  BY <1>4 DEF WellQueued
<1>7. ASSUME NEW i \in 1 .. Len(podPopped') PROVE podPopped'[i].obj \in ClusterPod(podPopped'[1].obj.key)
  <2>1. \A j \in 1 .. Len(podPopped') : podPopped'[j].obj \in ClusterPod(k)
    BY <1>2, <1>3 DEF WellQueued
  <2>2. 1 \in 1 .. Len(podPopped')
    BY <1>4, <1>7
  <2>3. podPopped'[1].obj.key = k
    BY <1>2, <2>1, <2>2, PodOfCluster
  <2> QED
    BY <2>1, <2>3
<1>8. ASSUME NEW j \in PodKey, podDeltas'[j] # <<>> PROVE \E i \in 1 .. Len(podFifo') : podFifo'[i] = j
  <2>1. j # k /\ podDeltas[j] # <<>>
    BY <1>4, <1>8
  <2>2. PICK i \in 1 .. Len(podFifo) : podFifo[i] = j
    BY <2>1 DEF WellQueued
  <2>3. i # 1
    BY <1>2, <2>1, <2>2
  <2>4. i - 1 \in 1 .. Len(podFifo') /\ podFifo'[i - 1] = j
    BY <1>1, <1>2, <1>3, <2>2, <2>3
  <2> QED
    BY <2>4
<1> QED
  BY <1>3, <1>5, <1>6, <1>7, <1>8 DEF WellQueued, cluster

\* What the informer of the pods has the server do with one change.
applyPod(delta) ==
  \/ delta.type = "add"       /\ onPodAdd(delta.obj)
  \/ delta.type = "update"    /\ onPodUpdate(delta.obj)
  \/ delta.type = "delete"    /\ onPodDelete(delta.obj)
  \/ delta.type = "tombstone" /\ UNCHANGED vars

applyNode(delta) ==
  \/ delta.type = "add"       /\ onNodeAdd(delta.obj)
  \/ delta.type = "update"    /\ onNodeUpdate(delta.obj)
  \/ delta.type = "delete"    /\ onNodeDelete(delta.obj)
  \/ delta.type = "tombstone" /\ UNCHANGED vars

\* An informer delivers only objects the server's handlers are specified for,
\* so its step is a pod event of module Server, or nothing.
LEMMA WatchedPodEvent ==
  ASSUME WTypeOK, watchPods
  PROVE  /\ applyPod(Head(podPopped))
         /\ PodEvent \/ UNCHANGED vars
<1>1. podPopped \in Seq(PodDelta) /\ podPopped # <<>>
  BY DEF watchPods, WTypeOK, PodDelta, DeltaType
<1>2. Head(podPopped) \in PodDelta
  BY <1>1, HeadTailProperties
<1>3. Head(podPopped).obj \in PodObject
  BY <1>2 DEF PodDelta
<1>4. applyPod(Head(podPopped))
  BY DEF watchPods, applyPod
<1> QED
  BY <1>3, <1>4 DEF applyPod, PodEvent

\* A step of the node informer is a node event, or nothing.
LEMMA WatchedNodeEvent ==
  ASSUME WTypeOK, NEW n \in Node, watchNodes(n)
  PROVE  /\ applyNode(Head(nodeDeltas[n]))
         /\ NodeEvent \/ UNCHANGED vars
<1>1. nodeDeltas[n] \in Seq(NodeDelta) /\ nodeDeltas[n] # <<>>
  BY DEF watchNodes, WTypeOK, NodeDelta, DeltaType
<1>2. Head(nodeDeltas[n]) \in NodeDelta
  BY <1>1, HeadTailProperties
<1>3. Head(nodeDeltas[n]).obj \in NodeObject
  BY <1>2 DEF NodeDelta
<1>4. applyNode(Head(nodeDeltas[n]))
  BY DEF watchNodes, applyNode
<1> QED
  BY <1>3, <1>4 DEF applyNode, NodeEvent

\* The server's own variables change as module Server says, and in no other
\* way: a step of the cluster leaves them alone.
LEMMA ServerStep ==
  ASSUME WTypeOK, [WNext]_wvars
  PROVE  [Next]_vars
<1>1. CASE Cluster
  BY <1>1 DEF Cluster, createPod, startPod, startOnHost, finishPod, deletePod, podChange,
              addNode, relabelNode, deleteNode, nodeChange
<1>2. CASE popPod
  BY <1>2 DEF popPod
<1>3. CASE watchPods
  BY <1>3, WatchedPodEvent DEF Next
<1>4. CASE \E node \in Node : watchNodes(node)
  BY <1>4, WatchedNodeEvent DEF Next
<1>5. CASE serve
  BY <1>5 DEF serve, Next
<1>6. CASE UNCHANGED wvars
  BY <1>6 DEF wvars
<1> QED
  BY <1>1, <1>2, <1>3, <1>4, <1>5, <1>6 DEF WNext

\* A step of the server keeps the server's types.
LEMMA ServerStepTyped ==
  ASSUME TypeOK, [Next]_vars
  PROVE  TypeOK'
<1>1. CASE UNCHANGED vars
  BY <1>1 DEF TypeOK, vars
<1> QED
  BY <1>1, PodEventTyped, NodeEventTyped, PayloadTyped, CollectTyped DEF Next

\* Handling a change takes it from its queue.
LEMMA WatchTyped ==
  ASSUME WTypeOK, WellQueued, watchPods \/ \E n \in Node : watchNodes(n)
  PROVE  WTypeOK' /\ WellQueued'
<1>1. TypeOK'
  BY ServerStep, ServerStepTyped DEF WNext, WTypeOK
<1>2. CASE watchPods
  <2>1. podPopped \in Seq(PodDelta) /\ podPopped # <<>> /\ podPopped' = Tail(podPopped)
    BY <1>2 DEF watchPods, WTypeOK, PodDelta, DeltaType
  <2>2. UNCHANGED <<cluster, podFifo, podDeltas, nodeDeltas>>
    BY <1>2 DEF watchPods
  <2>3. /\ podPopped' \in Seq(PodDelta)
        /\ Len(podPopped') = Len(podPopped) - 1
        /\ \A i \in 1 .. Len(podPopped') : podPopped'[i] = podPopped[i + 1]
    BY <2>1, HeadTailProperties
  <2>4. WTypeOK'
    BY <1>1, <2>2, <2>3 DEF WTypeOK, cluster, histories, PodDelta, DeltaType
  <2>5. ASSUME NEW i \in 1 .. Len(podPopped') PROVE podPopped'[i].obj \in ClusterPod(podPopped'[1].obj.key)
    <3> DEFINE k == podPopped[1].obj.key
    <3>1. i + 1 \in 1 .. Len(podPopped) /\ 2 \in 1 .. Len(podPopped) /\ 1 \in 1 .. Len(podPopped')
      BY <2>1, <2>3, LenProperties
    <3>2. podPopped[i + 1].obj \in ClusterPod(k) /\ podPopped[2].obj \in ClusterPod(k)
      BY <3>1 DEF WellQueued
    <3>3. podPopped'[1].obj.key = k
      BY <2>3, <3>1, <3>2 DEF ClusterPod
    <3> QED
      BY <2>3, <3>2, <3>3
  <2> QED
    BY <2>2, <2>4, <2>5 DEF WellQueued, cluster
<1>3. ASSUME NEW n \in Node, watchNodes(n) PROVE WTypeOK' /\ WellQueued'
  <2>1. /\ nodeDeltas \in [Node -> Seq(NodeDelta)] /\ nodeDeltas[n] \in Seq(NodeDelta)
        /\ nodeDeltas[n] # <<>> /\ nodeDeltas' = [nodeDeltas EXCEPT ![n] = Tail(@)]
    BY <1>3 DEF watchNodes, WTypeOK, NodeDelta, DeltaType
  <2>2. UNCHANGED <<cluster, podFifo, podDeltas, podPopped>>
    BY <1>3 DEF watchNodes
  <2>3. /\ Tail(nodeDeltas[n]) \in Seq(NodeDelta)
        /\ Len(Tail(nodeDeltas[n])) = Len(nodeDeltas[n]) - 1
        /\ \A i \in 1 .. Len(Tail(nodeDeltas[n])) : Tail(nodeDeltas[n])[i] = nodeDeltas[n][i + 1]
    BY <2>1, HeadTailProperties
  <2>4. /\ nodeDeltas' \in [Node -> Seq(NodeDelta)]
        /\ nodeDeltas'[n] = Tail(nodeDeltas[n])
        /\ \A m \in Node \ {n} : nodeDeltas'[m] = nodeDeltas[m]
    BY <2>1, <2>3
  <2>5. WTypeOK'
    BY <1>1, <2>2, <2>4 DEF WTypeOK, cluster, histories, NodeDelta, DeltaType
  <2>6. ASSUME NEW m \in Node, NEW i \in 1 .. Len(nodeDeltas'[m]) PROVE nodeDeltas'[m][i].obj.name = m
    <3>1. CASE m # n
      BY <2>4, <3>1 DEF WellQueued
    <3>2. CASE m = n
      <4>1. i + 1 \in 1 .. Len(nodeDeltas[n]) /\ nodeDeltas'[m][i] = nodeDeltas[n][i + 1]
        BY <2>1, <2>3, <2>4, <3>2, LenProperties
      <4> QED
        BY <3>2, <4>1 DEF WellQueued
    <3> QED
      BY <3>1, <3>2
  <2> QED
    BY <2>2, <2>5, <2>6 DEF WellQueued, cluster
<1> QED
  BY <1>2, <1>3

\* The queues, the cluster and the server's maps are well formed.
WInv == WTypeOK /\ WellQueued /\ HoldersShown

\* The invariant holds when the server starts.
LEMMA WInvInit ==
  ASSUME WInit
  PROVE  WInv
<1>1. TypeOK
  <2>1. request \in [Request -> RequestState]
    BY DEF WInit, Init, RequestState
  <2>2. metrics \in [Scrape -> ScrapeState]
    BY DEF WInit, Init, ScrapeState, Statistics
  <2> QED
    BY <2>1, <2>2 DEF WInit, Init, TypeOK, Statistics
<1>2. nodeDeltas \in [Node -> Seq(NodeDelta)] /\ \A n \in Node : \A i \in 1 .. Len(nodeDeltas[n]) : nodeDeltas[n][i].obj.name = n
  <2>1. ASSUME NEW n \in Node PROVE NodeAt(n, nodes[n]) \in NodeObject /\ NodeAt(n, nodes[n]).name = n
    BY ObjectAssumption DEF WInit, NodeAt
  <2>2. ASSUME NEW n \in Node
        PROVE  /\ Delta("add", NodeAt(n, nodes[n])) \in NodeDelta
               /\ Delta("add", NodeAt(n, nodes[n])).obj.name = n
    BY <2>1 DEF Delta, NodeDelta, DeltaType
  <2>3. nodeDeltas = [n \in Node |-> <<Delta("add", NodeAt(n, nodes[n]))>>]
    BY DEF WInit
  <2> QED
    BY <2>2, <2>3
<1>3. WTypeOK
  BY <1>1, <1>2, ModeAssumption DEF WInit, WTypeOK, NodeDelta, DeltaType
<1> QED
  BY <1>2, <1>3 DEF WInv, WInit, WellQueued, HoldersShown

\* Every step of the cluster, the informers and the server keeps it.
LEMMA WInvNext ==
  ASSUME WInv, [WNext]_wvars
  PROVE  WInv'
<1> USE DEF WInv
<1>1. ASSUME NEW k \in PodKey, PodOperation(k) PROVE WInv'
  BY <1>1, PodOperationTyped, HoldersKept
<1>2. ASSUME NEW n \in Node, NodeOperation(n) PROVE WInv'
  <2>1. UNCHANGED <<pods, holder>>
    BY <1>2 DEF NodeOperation, addNode, relabelNode, deleteNode, nodeChange
  <2> QED
    BY <1>2, <2>1, NodeOperationTyped DEF HoldersShown
<1>3. CASE popPod
  BY <1>3, PopTyped DEF popPod, cluster, HoldersShown
<1>4. CASE watchPods \/ \E n \in Node : watchNodes(n)
  BY <1>4, WatchTyped DEF watchPods, watchNodes, cluster, HoldersShown
<1>5. CASE serve \/ UNCHANGED wvars
  <2>1. TypeOK'
    BY <1>5, ServerStep, ServerStepTyped DEF WNext, WTypeOK
  <2>2. UNCHANGED <<cluster, watches>>
    BY <1>5 DEF serve, alone, wvars
  <2> QED
    BY <2>1, <2>2 DEF WTypeOK, WellQueued, HoldersShown, cluster, histories, watches
<1> QED
  BY <1>1, <1>2, <1>3, <1>4, <1>5 DEF WNext, Cluster, PodOperation, NodeOperation

\* So it always holds.
LEMMA WInvHolds == WSpec => []WInv
<1>1. WInit => WInv
  BY WInvInit
<1>2. WInv /\ [WNext]_wvars => WInv'
  BY WInvNext
<1> QED
  BY <1>1, <1>2, PTL DEF WSpec

\* The cluster's objects, what the informers queue of them and the server's maps
\* are well typed whatever happens to pods, nodes and watches: no handler gets
\* an object it is not written for.
THEOREM WTyped == WSpec => []WTypeOK
<1>1. WInv => WTypeOK
  BY DEF WInv
<1> QED
  BY <1>1, WInvHolds, PTL

\* The server fed by the informers does nothing that module Server does not
\* allow: every theorem about Spec holds of it.
THEOREM WatchedServerIsServer == WSpec => Spec
<1>1. WInit => Init
  BY DEF WInit
<1>2. WInv /\ [WNext]_wvars => [Next]_vars
  BY ServerStep DEF WInv
<1> QED
  BY <1>1, <1>2, WInvHolds, PTL DEF WSpec, Spec

-----------------------------------------------------------------------------
(***************************************************************************)
(* What podIndex and nodeIndex say of the cluster once the events are      *)
(* handled.  The arguments follow one pod's changes through the DeltaFIFO: *)
(* the order between pods is arbitrary, the order of one pod's changes is  *)
(* kept.                                                                   *)
(***************************************************************************)

\* The changes of each pod that are still to be handled, popped or not.
pending ==
  [k \in PodKey |-> IF podPopped # <<>> /\ Head(podPopped).obj.key = k
                    THEN podPopped \o podDeltas[k] ELSE podDeltas[k]]

\* The pending changes of a pod are changes of that pod.
LEMMA PendingTyped ==
  ASSUME WInv
  PROVE  /\ pending \in [PodKey -> Seq(PodDelta)]
         /\ \A k \in PodKey : \A i \in 1 .. Len(pending[k]) :
              pending[k][i].type \in DeltaType /\ pending[k][i].obj \in ClusterPod(k)
<1>1. podPopped \in Seq(PodDelta) /\ podDeltas \in [PodKey -> Seq(PodDelta)]
  BY DEF WInv, WTypeOK, PodDelta, DeltaType
<1>2. ASSUME NEW k \in PodKey
      PROVE  /\ pending[k] \in Seq(PodDelta)
             /\ \A i \in 1 .. Len(pending[k]) : pending[k][i].obj \in ClusterPod(k)
  <2>1. podDeltas[k] \in Seq(PodDelta) /\ \A i \in 1 .. Len(podDeltas[k]) : podDeltas[k][i].obj \in ClusterPod(k)
    BY <1>1 DEF WInv, WellQueued
  <2>2. CASE podPopped # <<>> /\ Head(podPopped).obj.key = k
    <3>1. podPopped[1].obj.key = k
      BY <1>1, <2>2
    <3>2. \A i \in 1 .. Len(podPopped) : podPopped[i].obj \in ClusterPod(k)
      BY <3>1 DEF WInv, WellQueued
    <3>3. pending[k] = podPopped \o podDeltas[k]
      BY <2>2 DEF pending
    <3>4. /\ podPopped \o podDeltas[k] \in Seq(PodDelta)
          /\ Len(podPopped \o podDeltas[k]) = Len(podPopped) + Len(podDeltas[k])
          /\ \A i \in 1 .. Len(podPopped) + Len(podDeltas[k]) : (podPopped \o podDeltas[k])[i] =
               IF i <= Len(podPopped) THEN podPopped[i] ELSE podDeltas[k][i - Len(podPopped)]
      BY <1>1, <2>1, ConcatProperties
    <3>5. ASSUME NEW i \in 1 .. Len(pending[k]) PROVE pending[k][i].obj \in ClusterPod(k)
      <4>1. Len(podPopped) \in Nat /\ Len(podDeltas[k]) \in Nat
        BY <1>1, <2>1
      <4>2. CASE i <= Len(podPopped)
        BY <3>2, <3>3, <3>4, <4>1, <4>2
      <4>3. CASE i > Len(podPopped)
        BY <2>1, <3>3, <3>4, <4>1, <4>3
      <4> QED
        BY <4>1, <4>2, <4>3
    <3> QED
      BY <3>3, <3>4, <3>5
  <2>3. CASE ~(podPopped # <<>> /\ Head(podPopped).obj.key = k)
    <3>1. pending[k] = podDeltas[k]
      BY <2>3 DEF pending
    <3> QED
      BY <2>1, <3>1
  <2> QED
    BY <2>2, <2>3
<1>3. pending \in [PodKey -> Seq(PodDelta)]
  BY <1>2 DEF pending
<1>4. ASSUME NEW k \in PodKey, NEW i \in 1 .. Len(pending[k]) PROVE pending[k][i].type \in DeltaType
  <2>1. pending[k][i] \in PodDelta
    BY <1>2, ElementOfSeq
  <2> QED
    BY <2>1 DEF PodDelta
<1> QED
  BY <1>2, <1>3, <1>4

\* A change of a pod goes behind the pod's pending changes.
LEMMA Queued ==
  ASSUME WInv, NEW k \in PodKey, NEW object, NEW type \in DeltaType, NEW delta \in ClusterPod(k),
         podChange(k, object, type, delta)
  PROVE  pending' = [pending EXCEPT ![k] = Append(@, Delta(type, delta))]
<1> DEFINE d == Delta(type, delta)
<1>1. podPopped \in Seq(PodDelta) /\ podDeltas \in [PodKey -> Seq(PodDelta)]
  BY DEF WInv, WTypeOK, PodDelta, DeltaType
<1>2. d \in PodDelta
  BY PodOfCluster DEF Delta, PodDelta
<1> HIDE DEF d
<1>3. podPopped' = podPopped /\ podDeltas' = [podDeltas EXCEPT ![k] = Append(@, d)]
  BY DEF podChange, d
<1>4. podPopped \o Append(podDeltas[k], d) = Append(podPopped \o podDeltas[k], d)
  <2>1. podDeltas[k] \in Seq(PodDelta) /\ <<d>> \in Seq(PodDelta)
    BY <1>1, <1>2
  <2>2. podPopped \o podDeltas[k] \in Seq(PodDelta)
    BY <1>1, <2>1, ConcatProperties
  <2>3. /\ Append(podDeltas[k], d) = podDeltas[k] \o <<d>>
        /\ Append(podPopped \o podDeltas[k], d) = (podPopped \o podDeltas[k]) \o <<d>>
    BY <1>2, <2>1, <2>2, AppendIsConcat
  <2> QED
    BY <1>1, <2>1, <2>3, ConcatAssociative
<1>5. pending' = [pending EXCEPT ![k] = Append(@, d)]
  BY <1>1, <1>3, <1>4 DEF pending
<1> QED
  BY <1>5 DEF d

\* Popping a key leaves all changes pending, in their order.
LEMMA Popped ==
  ASSUME WInv, popPod
  PROVE  pending' = pending
<1> DEFINE k == Head(podFifo)
<1>1. podPopped = <<>> /\ podDeltas \in [PodKey -> Seq(PodDelta)]
  BY DEF popPod, WInv, WTypeOK, PodDelta, DeltaType
<1>2. k \in PodKey
  BY DEF popPod, WInv, WTypeOK
<1> HIDE DEF k
<1>3. podPopped' = podDeltas[k] /\ podDeltas' = [podDeltas EXCEPT ![k] = <<>>]
  BY DEF popPod, k
<1>4. pending = podDeltas
  BY <1>1 DEF pending
<1>5. podDeltas[k] # <<>> => Head(podDeltas[k]).obj.key = k
  <2> SUFFICES ASSUME podDeltas[k] # <<>> PROVE Head(podDeltas[k]).obj.key = k
    OBVIOUS
  <2>1. 1 \in 1 .. Len(podDeltas[k]) /\ Head(podDeltas[k]) = podDeltas[k][1]
    BY <1>1, <1>2
  <2>2. podDeltas[k][1].obj \in ClusterPod(k)
    BY <1>2, <2>1 DEF WInv, WellQueued
  <2> QED
    BY <2>1, <2>2 DEF ClusterPod
<1>6. podDeltas[k] \o <<>> = podDeltas[k]
  BY <1>1, <1>2, ConcatEmptySeq
<1>7. ASSUME NEW j \in PodKey PROVE pending'[j] = podDeltas[j]
  <2>1. pending'[j] = IF podPopped' # <<>> /\ Head(podPopped').obj.key = j
                      THEN podPopped' \o podDeltas'[j] ELSE podDeltas'[j]
    BY DEF pending
  <2>2. CASE j = k
    BY <1>1, <1>2, <1>3, <1>5, <1>6, <2>1, <2>2
  <2>3. CASE j # k
    BY <1>1, <1>2, <1>3, <1>5, <2>1, <2>3
  <2> QED
    BY <2>2, <2>3
<1> QED
  BY <1>1, <1>4, <1>7 DEF pending

\* The informer handles the first pending change of some pod.
LEMMA Handled ==
  ASSUME WInv, watchPods
  PROVE  \E k \in PodKey : /\ pending[k] # <<>>
                           /\ pending' = [pending EXCEPT ![k] = Tail(@)]
                           /\ applyPod(pending[k][1])
<1> DEFINE k == Head(podPopped).obj.key
<1>1. /\ podPopped \in Seq(PodDelta) /\ podPopped # <<>>
      /\ podDeltas \in [PodKey -> Seq(PodDelta)]
  BY DEF watchPods, WInv, WTypeOK, PodDelta, DeltaType
<1>2. /\ Head(podPopped) \in PodDelta /\ Head(podPopped) = podPopped[1]
      /\ Tail(podPopped) \in Seq(PodDelta)
      /\ Len(Tail(podPopped)) = Len(podPopped) - 1 /\ Len(podPopped) \in Nat \ {0}
      /\ \A i \in 1 .. Len(Tail(podPopped)) : Tail(podPopped)[i] = podPopped[i + 1]
  BY <1>1, HeadTailProperties, EmptySeq
<1>3. k \in PodKey
  BY <1>2, InputAssumption DEF PodDelta
<1>4. podPopped' = Tail(podPopped) /\ podDeltas' = podDeltas
  BY DEF watchPods
<1>5. applyPod(Head(podPopped))
  BY WatchedPodEvent DEF WInv
<1>6. Tail(podPopped) # <<>> => Head(Tail(podPopped)).obj.key = k
  <2> SUFFICES ASSUME Tail(podPopped) # <<>> PROVE Head(Tail(podPopped)).obj.key = k
    OBVIOUS
  <2>1. Head(Tail(podPopped)) = podPopped[2] /\ 2 \in 1 .. Len(podPopped)
    BY <1>2
  <2>2. podPopped[2].obj \in ClusterPod(podPopped[1].obj.key)
    BY <2>1 DEF WInv, WellQueued
  <2> QED
    BY <1>2, <2>1, <2>2 DEF ClusterPod
<1>7. /\ podDeltas[k] \in Seq(PodDelta)
      /\ podPopped \o podDeltas[k] # <<>>
      /\ (podPopped \o podDeltas[k])[1] = podPopped[1]
      /\ Tail(podPopped \o podDeltas[k]) = Tail(podPopped) \o podDeltas[k]
  <2> DEFINE s == podPopped \o podDeltas[k]
             t == Tail(podPopped) \o podDeltas[k]
  <2>1. podDeltas[k] \in Seq(PodDelta) /\ Len(podDeltas[k]) \in Nat
    BY <1>1, <1>3
  <2>2. /\ s \in Seq(PodDelta) /\ Len(s) = Len(podPopped) + Len(podDeltas[k])
        /\ \A i \in 1 .. Len(podPopped) + Len(podDeltas[k]) :
             s[i] = IF i <= Len(podPopped) THEN podPopped[i] ELSE podDeltas[k][i - Len(podPopped)]
    BY <1>1, <2>1, ConcatProperties
  <2>3. /\ t \in Seq(PodDelta) /\ Len(t) = Len(Tail(podPopped)) + Len(podDeltas[k])
        /\ \A i \in 1 .. Len(Tail(podPopped)) + Len(podDeltas[k]) :
             t[i] = IF i <= Len(Tail(podPopped)) THEN Tail(podPopped)[i]
                    ELSE podDeltas[k][i - Len(Tail(podPopped))]
    BY <1>2, <2>1, ConcatProperties
  <2> HIDE DEF s, t
  <2>4. s # <<>> /\ s[1] = podPopped[1]
    BY <1>2, <2>1, <2>2
  <2>5. /\ Tail(s) \in Seq(PodDelta) /\ Len(Tail(s)) = Len(s) - 1
        /\ \A i \in 1 .. Len(Tail(s)) : Tail(s)[i] = s[i + 1]
    BY <2>2, <2>4, HeadTailProperties
  <2>6. ASSUME NEW i \in 1 .. Len(Tail(s)) PROVE Tail(s)[i] = t[i]
    <3>1. i \in Nat /\ i + 1 \in 1 .. Len(podPopped) + Len(podDeltas[k])
      BY <1>2, <2>1, <2>2, <2>5
    <3>2. CASE i + 1 <= Len(podPopped)
      <4>1. Tail(s)[i] = podPopped[i + 1]
        BY <2>2, <2>5, <3>1, <3>2
      <4>2. i \in 1 .. Len(Tail(podPopped)) /\ i <= Len(Tail(podPopped))
        BY <1>2, <3>1, <3>2
      <4>3. t[i] = podPopped[i + 1]
        BY <1>2, <2>1, <2>3, <3>1, <4>2
      <4> QED
        BY <4>1, <4>3
    <3>3. CASE i + 1 > Len(podPopped)
      BY <1>2, <2>1, <2>2, <2>3, <2>5, <3>1, <3>3
    <3> QED
      BY <1>2, <3>1, <3>2, <3>3
  <2>7. Len(Tail(s)) = Len(t)
    BY <1>2, <2>1, <2>2, <2>3, <2>5
  <2>8. Tail(s) = t
    BY <2>3, <2>5, <2>6, <2>7, SeqEqual
  <2> QED
    BY <2>1, <2>4, <2>8 DEF s, t
<1> HIDE DEF k
<1>8. pending[k] = podPopped \o podDeltas[k]
  BY <1>1, <1>3 DEF pending, k
<1>9. pending'[k] = Tail(pending[k])
  <2>1. pending'[k] = IF podPopped' # <<>> /\ Head(podPopped').obj.key = k
                      THEN podPopped' \o podDeltas'[k] ELSE podDeltas'[k]
    BY <1>3 DEF pending
  <2>2. CASE Tail(podPopped) # <<>>
    BY <1>4, <1>6, <1>7, <1>8, <2>1, <2>2
  <2>3. CASE Tail(podPopped) = <<>>
    <3>1. <<>> \o podDeltas[k] = podDeltas[k]
      BY <1>7, ConcatEmptySeq
    <3>2. pending'[k] = podDeltas[k]
      BY <1>4, <2>1, <2>3
    <3> QED
      BY <1>7, <1>8, <2>3, <3>1, <3>2
  <2> QED
    BY <2>2, <2>3
<1>10. ASSUME NEW j \in PodKey, j # k PROVE pending'[j] = pending[j]
  BY <1>1, <1>4, <1>6, <1>10 DEF pending, k
<1>11. pending' = [pending EXCEPT ![k] = Tail(@)]
  <2>1. /\ pending = [j \in PodKey |-> pending[j]]
        /\ pending' = [j \in PodKey |-> pending'[j]]
    BY DEF pending
  <2> QED
    BY <1>9, <1>10, <2>1
<1> QED
  BY <1>3, <1>5, <1>7, <1>8, <1>11, <1>2

\* When the queue is empty, no pod has a pending change.
LEMMA Drained ==
  ASSUME WInv, Quiescent
  PROVE  \A k \in PodKey : pending[k] = <<>>
<1>1. podFifo = <<>> /\ podPopped = <<>>
  BY DEF Quiescent
<1>2. \A i \in 1 .. Len(podFifo) : FALSE
  BY <1>1
<1>3. \A k \in PodKey : podDeltas[k] = <<>>
  BY <1>2 DEF WInv, WellQueued
<1> QED
  BY <1>1, <1>3 DEF pending

-----------------------------------------------------------------------------
(***************************************************************************)
(* The invariant: what the server's maps and the pending changes together  *)
(* say of the cluster.                                                     *)
(***************************************************************************)

\* What podIndex and nodeIndex must come to hold.
podInfo(k) == IF pods[k] = Absent THEN Absent ELSE [Node |-> pods[k].node, IPs |-> pods[k].podIPs]
nodeZone(n) == IF nodes[n] = Absent THEN Absent ELSE IF nodes[n] = NoLabel THEN Unknown ELSE nodes[n]

\* The last change of an object is its present state: it is in the index, or
\* pending behind all others.
PodsCatchUp ==
  \A k \in PodKey \ missed :
    IF pending[k] = <<>> THEN podIndex[k] = podInfo(k)
    ELSE LET last == pending[k][Len(pending[k])] IN
         IF pods[k] = Absent THEN last.type = "delete"
         ELSE last.type \in {"add", "update"} /\ last.obj = pods[k]

NodesCatchUp ==
  \A n \in Node \ missed :
    IF nodeDeltas[n] = <<>> THEN nodeIndex[n] = nodeZone(n)
    ELSE LET last == nodeDeltas[n][Len(nodeDeltas[n])] IN
         IF nodes[n] = Absent THEN last.type = "delete"
         ELSE last.type \in {"add", "update"} /\ last.obj = NodeAt(n, nodes[n])

-----------------------------------------------------------------------------
(***************************************************************************)
(* What the steps do, as seen by one pod.                                  *)
(***************************************************************************)

\* The informer handles the first pending change of pod k.
handles(k) ==
  /\ pending[k] # <<>>
  /\ pending' = [pending EXCEPT ![k] = Tail(@)]
  /\ applyPod(pending[k][1])
  /\ UNCHANGED <<cluster, nodeDeltas>>

\* Nothing that the pods' part of the cluster or of the indexes holds changes.
podsQuiet ==
  /\ UNCHANGED <<pods, holder, owners, claims, contested, podIndex, podIpIndex, pending>>
  /\ \A k \in PodKey : k \in missed' <=> k \in missed

\* Every step is an operation on a pod, the handling of a pod's change, or it
\* does not concern the pods.
LEMMA StepsOnPods ==
  ASSUME WInv, [WNext]_wvars
  PROVE  \/ \E k \in PodKey : PodOperation(k)
         \/ \E k \in PodKey : handles(k)
         \/ podsQuiet
<1>1. CASE watchPods
  <2>1. UNCHANGED <<cluster, nodeDeltas>>
    BY <1>1 DEF watchPods
  <2> QED
    BY <1>1, <2>1, Handled DEF handles
<1>2. ASSUME NEW n \in Node, NodeOperation(n) PROVE podsQuiet
  <2>1. UNCHANGED <<vars, pods, holder, owners, claims, contested, podDeltas, podPopped>>
    BY <1>2 DEF NodeOperation, addNode, relabelNode, deleteNode, nodeChange
  <2>2. \A k \in PodKey : k \in missed' <=> k \in missed
    <3>1. \A k \in PodKey : k # n
      BY ObjectAssumption
    <3>2. missed' = missed \/ missed' = missed \ {n} \/ missed' = missed \cup {n}
      BY <1>2 DEF NodeOperation, addNode, relabelNode, deleteNode
    <3> QED
      BY <3>1, <3>2
  <2> QED
    BY <2>1, <2>2 DEF podsQuiet, vars, pending
<1>3. CASE popPod
  BY <1>3, Popped DEF popPod, podsQuiet, cluster, histories, vars
<1>4. ASSUME NEW n \in Node, watchNodes(n) PROVE podsQuiet
  <2>1. applyNode(Head(nodeDeltas[n]))
    BY <1>4, WatchedNodeEvent DEF WInv
  <2>2. UNCHANGED <<podIndex, podIpIndex>>
    BY <2>1 DEF applyNode, onNodeAdd, onNodeUpdate, onNodeDelete, vars
  <2> QED
    BY <1>4, <2>2 DEF watchNodes, podsQuiet, cluster, histories, pending
<1>5. CASE serve \/ UNCHANGED wvars
  <2>1. UNCHANGED indexes
    BY <1>5 DEF serve, handlePayload, rejectPayload, decodePayload, lockPayload, countEntry, unlockPayload,
                Collect, lockCollect, sendMetric, unlockCollect, wvars, vars, indexes
  <2>2. UNCHANGED <<cluster, watches>>
    BY <1>5 DEF serve, alone, wvars
  <2> QED
    BY <2>1, <2>2 DEF podsQuiet, indexes, cluster, histories, watches, pending
<1> QED
  BY <1>1, <1>2, <1>3, <1>4, <1>5 DEF WNext, Cluster, PodOperation, NodeOperation


\* A deletion that the watch sees ends the pod's claims to the addresses it shows.
unclaims(k) ==
  claims' = [ip \in PodIP |-> IF ip \in pods[k].podIPs THEN claims[ip] \ {k} ELSE claims[ip]]

\* An operation on a pod makes a new object and queues it, or deletes the
\* object and queues the old one.
LEMMA PodOperationQueues ==
  ASSUME WInv, NEW k \in PodKey, PodOperation(k)
  PROVE  \/ /\ \E object \in ClusterPod(k), type \in {"add", "update"} : podChange(k, object, type, object)
            /\ \A ip \in PodIP : claims[ip] \subseteq claims'[ip]
         \/ /\ pods[k] \in ClusterPod(k)
            /\ \/ podChange(k, Absent, "delete", pods[k]) /\ missed' = missed /\ unclaims(k)
               \/ podChange(k, Absent, "tombstone", pods[k]) /\ missed' = missed \cup {k} /\ claims' = claims
<1>1. pods[k] # Absent => pods[k] \in ClusterPod(k) /\ pods[k].node \in Node
  BY PodOfCluster DEF WInv, WellQueued
<1>2. ASSUME NEW node \in Node, createPod(k, node)
      PROVE  \E object \in ClusterPod(k), type \in {"add", "update"} : podChange(k, object, type, object)
  BY <1>2, MadePods DEF createPod
<1>3. ASSUME NEW ip \in PodIP, startPod(k, ip)
      PROVE  \E object \in ClusterPod(k), type \in {"add", "update"} : podChange(k, object, type, object)
  BY <1>1, <1>3, MadePods DEF startPod
<1>4. ASSUME startOnHost(k)
      PROVE  \E object \in ClusterPod(k), type \in {"add", "update"} : podChange(k, object, type, object)
  BY <1>1, <1>4, MadePods DEF startOnHost
<1>5. ASSUME finishPod(k)
      PROVE  \E object \in ClusterPod(k), type \in {"add", "update"} : podChange(k, object, type, object)
  <2>1. pods[k] # Absent
    BY <1>5, AbsentAssumption DEF finishPod, running, WInv, HoldersShown
  <2> QED
    BY <1>1, <1>5, <2>1 DEF finishPod
<1>6. CASE deletePod(k)
  BY <1>1, <1>6 DEF deletePod, unclaims
<1>7. CASE ~deletePod(k)
  <2>1. claims \in [PodIP -> SUBSET PodKey]
    BY DEF WInv, WTypeOK
  <2>2. \A ip \in PodIP : claims[ip] \subseteq claims'[ip]
    BY <1>7, <2>1 DEF PodOperation, createPod, startPod, startOnHost, finishPod, histories
  <2>3. \E object \in ClusterPod(k), type \in {"add", "update"} : podChange(k, object, type, object)
    BY <1>2, <1>3, <1>4, <1>5, <1>7 DEF PodOperation
  <2> QED
    BY <2>2, <2>3
<1> QED
  BY <1>6, <1>7

\* What an operation on a pod does to the pending changes.
LEMMA Operated ==
  ASSUME WInv, NEW k \in PodKey, PodOperation(k)
  PROVE  /\ UNCHANGED <<vars, nodes, nodeDeltas, removed>>
         /\ \A j \in PodKey \ {k} : pods'[j] = pods[j] /\ pending'[j] = pending[j]
         /\ \A x \in PodKey \cup Node : x # k => (x \in missed' <=> x \in missed)
         /\ Len(pending[k]) \in Nat /\ Len(pending'[k]) = Len(pending[k]) + 1
         /\ pending'[k] # <<>>
         /\ \A i \in 1 .. Len(pending[k]) : pending'[k][i] = pending[k][i]
         /\ LET last == pending'[k][Len(pending[k]) + 1] IN
            /\ last.obj \in ClusterPod(k)
            /\ \/ /\ pods'[k] # Absent /\ last.obj = pods'[k] /\ last.type \in {"add", "update"}
                  /\ \A ip \in PodIP : claims[ip] \subseteq claims'[ip]
               \/ /\ pods'[k] = Absent /\ pods[k] # Absent /\ last.obj = pods[k]
                  /\ \/ last.type = "delete" /\ missed' = missed /\ unclaims(k)
                     \/ last.type = "tombstone" /\ k \in missed' /\ claims' = claims
<1>1. pending \in [PodKey -> Seq(PodDelta)] /\ pods \in [PodKey -> PodObject \cup {Absent}]
  BY PendingTyped DEF WInv, WTypeOK
<1>2. ASSUME NEW object, NEW type \in DeltaType, NEW delta \in ClusterPod(k), podChange(k, object, type, delta)
      PROVE  /\ UNCHANGED <<vars, nodes, nodeDeltas>>
             /\ pods'[k] = object
             /\ \A j \in PodKey \ {k} : pods'[j] = pods[j] /\ pending'[j] = pending[j]
             /\ Len(pending[k]) \in Nat /\ Len(pending'[k]) = Len(pending[k]) + 1
             /\ pending'[k] # <<>>
             /\ \A i \in 1 .. Len(pending[k]) : pending'[k][i] = pending[k][i]
             /\ pending'[k][Len(pending[k]) + 1].type = type
             /\ pending'[k][Len(pending[k]) + 1].obj = delta
  <2> DEFINE d == Delta(type, delta)
  <2>1. pending' = [pending EXCEPT ![k] = Append(@, d)]
    BY <1>2, Queued
  <2>2. d \in PodDelta /\ d.type = type /\ d.obj = delta
    BY PodOfCluster DEF Delta, PodDelta
  <2> HIDE DEF d
  <2>3. /\ pending'[k] = Append(pending[k], d) /\ pending[k] \in Seq(PodDelta)
        /\ \A j \in PodKey \ {k} : pending'[j] = pending[j]
    BY <1>1, <2>1
  <2>4. /\ pending'[k] # <<>> /\ Len(pending'[k]) = Len(pending[k]) + 1 /\ Len(pending[k]) \in Nat
        /\ \A i \in 1 .. Len(pending[k]) : pending'[k][i] = pending[k][i]
        /\ pending'[k][Len(pending[k]) + 1] = d
    BY <2>2, <2>3, AppendProperties
  <2>5. /\ UNCHANGED <<vars, nodes, nodeDeltas>>
        /\ pods' = [pods EXCEPT ![k] = object]
    BY <1>2 DEF podChange
  <2>6. pods'[k] = object /\ \A j \in PodKey \ {k} : pods'[j] = pods[j]
    BY <1>1, <2>5
  <2> QED
    BY <2>2, <2>3, <2>4, <2>5, <2>6
<1>3. UNCHANGED removed /\ (missed' = missed \/ missed' = missed \ {k} \/ missed' = missed \cup {k})
  BY DEF PodOperation, createPod, startPod, startOnHost, finishPod, deletePod, histories
<1>4. CASE /\ \E object \in ClusterPod(k), type \in {"add", "update"} : podChange(k, object, type, object)
           /\ \A ip \in PodIP : claims[ip] \subseteq claims'[ip]
  <2>1. PICK object \in ClusterPod(k), type \in {"add", "update"} : podChange(k, object, type, object)
    BY <1>4
  <2>2. object # Absent /\ type \in DeltaType
    BY PodOfCluster DEF DeltaType
  <2> QED
    BY <1>2, <1>3, <1>4, <2>1, <2>2
<1>5. CASE /\ pods[k] \in ClusterPod(k)
           /\ podChange(k, Absent, "delete", pods[k]) /\ missed' = missed /\ unclaims(k)
  <2>1. "delete" \in DeltaType /\ pods[k] # Absent
    BY <1>5, PodOfCluster DEF DeltaType
  <2> QED
    BY <1>2, <1>3, <1>5, <2>1
<1>6. CASE /\ pods[k] \in ClusterPod(k)
           /\ podChange(k, Absent, "tombstone", pods[k]) /\ missed' = missed \cup {k} /\ claims' = claims
  <2>1. "tombstone" \in DeltaType /\ pods[k] # Absent
    BY <1>6, PodOfCluster DEF DeltaType
  <2> QED
    BY <1>2, <1>3, <1>6, <2>1
<1> QED
  BY <1>4, <1>5, <1>6, PodOperationQueues

\* The empty sequence is the one of length zero.
LEMMA EmptyHasLengthZero ==
  ASSUME NEW S, NEW s \in Seq(S)
  PROVE  s = <<>> <=> Len(s) = 0
  OBVIOUS

\* Handling a change shortens the pending changes of its pod.
LEMMA Shortened ==
  ASSUME WInv, NEW k \in PodKey, handles(k)
  PROVE  /\ \A j \in PodKey \ {k} : pending'[j] = pending[j]
         /\ Len(pending[k]) \in Nat \ {0} /\ Len(pending'[k]) = Len(pending[k]) - 1
         /\ \A i \in 1 .. Len(pending'[k]) : pending'[k][i] = pending[k][i + 1]
         /\ 1 \in 1 .. Len(pending[k])
         /\ pending'[k] = <<>> <=> Len(pending[k]) = 1
         /\ pending[k][1].obj \in ClusterPod(k) /\ pending[k][1].type \in DeltaType
<1>1. pending \in [PodKey -> Seq(PodDelta)] /\ pending[k] \in Seq(PodDelta)
  BY PendingTyped
<1>2. pending[k] # <<>> /\ pending' = [pending EXCEPT ![k] = Tail(@)]
  BY DEF handles
<1>3. pending'[k] = Tail(pending[k]) /\ \A j \in PodKey \ {k} : pending'[j] = pending[j]
  BY <1>1, <1>2
<1>4. /\ Tail(pending[k]) \in Seq(PodDelta)
      /\ Len(Tail(pending[k])) = Len(pending[k]) - 1 /\ Len(pending[k]) \in Nat \ {0}
      /\ \A i \in 1 .. Len(Tail(pending[k])) : Tail(pending[k])[i] = pending[k][i + 1]
  BY <1>1, <1>2, HeadTailProperties, EmptySeq
<1>5. Tail(pending[k]) = <<>> <=> Len(pending[k]) = 1
  <2>1. Tail(pending[k]) = <<>> <=> Len(Tail(pending[k])) = 0
    BY <1>4, EmptyHasLengthZero
  <2> QED
    BY <1>4, <2>1
<1>6. 1 \in 1 .. Len(pending[k])
  BY <1>4
<1>7. pending[k][1].obj \in ClusterPod(k) /\ pending[k][1].type \in DeltaType
  BY <1>6, PendingTyped
<1> QED
  BY <1>3, <1>4, <1>5, <1>6, <1>7

\* What handlePod makes of a pod of the cluster.
LEMMA Entered ==
  ASSUME WInv, NEW k \in PodKey, NEW obj \in ClusterPod(k), handlePod(obj)
  PROVE  /\ podIndex'[k] = [Node |-> obj.node, IPs |-> obj.podIPs]
         /\ \A j \in PodKey \ {k} : podIndex'[j] = podIndex[j]
         /\ \A ip \in PodIP : podIpIndex'[ip] = IF ip \in obj.podIPs THEN k ELSE podIpIndex[ip]
         /\ \A ip \in IP \ PodIP : podIpIndex'[ip] = podIpIndex[ip]
         /\ \A ip \in IP : nodeIpIndex'[ip] = IF ip \in obj.podIPs /\ ip = NodeIP[obj.node]
                                              THEN obj.node ELSE nodeIpIndex[ip]
         /\ UNCHANGED nodeIndex
<1>1. podIndex \in [PodKey -> PodInfo \cup {Absent}]
  BY DEF WInv, WTypeOK, TypeOK
<1>2. /\ obj.key = k /\ obj.node \in Node /\ ips(obj) = obj.podIPs
      /\ \A ip : onHostNetwork(obj, ip) <=> ip = NodeIP[obj.node]
  BY PodOfCluster
<1>3. NodeIP[obj.node] \notin PodIP /\ PodIP \subseteq IP
  BY <1>2, AddressAssumption
<1>4. \A ip \in IP \ PodIP : ip \in obj.podIPs => ip = NodeIP[obj.node]
  BY DEF ClusterPod
<1> QED
  BY <1>1, <1>2, <1>3, <1>4 DEF handlePod

\* What onPodDelete makes of a pod of the cluster.
LEMMA Cleared ==
  ASSUME WInv, NEW k \in PodKey, NEW obj \in ClusterPod(k), onPodDelete(obj)
  PROVE  /\ podIndex'[k] = Absent
         /\ \A j \in PodKey \ {k} : podIndex'[j] = podIndex[j]
         /\ \A ip \in PodIP : podIpIndex'[ip] = IF podIndex[k] # Absent /\ ip \in podIndex[k].IPs
                                                THEN Absent ELSE podIpIndex[ip]
         /\ \A ip \in IP : podIpIndex'[ip] \in {podIpIndex[ip], Absent}
         /\ UNCHANGED <<nodeIpIndex, nodeIndex>>
<1>1. podIndex \in [PodKey -> PodInfo \cup {Absent}]
  BY DEF WInv, WTypeOK, TypeOK
<1>2. /\ obj.key = k /\ obj.node \in Node
      /\ \A ip : onHostNetwork(obj, ip) <=> ip = NodeIP[obj.node]
  BY PodOfCluster
<1>3. NodeIP[obj.node] \notin PodIP /\ PodIP \subseteq IP
  BY <1>2, AddressAssumption
<1>4. /\ podIndex' = [podIndex EXCEPT ![k] = Absent]
      /\ UNCHANGED <<nodeIpIndex, nodeIndex>>
  BY <1>2 DEF onPodDelete
<1>5. \A ip \in IP : podIpIndex'[ip] =
        IF podIndex[k] # Absent /\ ip \in podIndex[k].IPs /\ ip # NodeIP[obj.node]
        THEN Absent ELSE podIpIndex[ip]
  BY <1>2 DEF onPodDelete
<1> QED
  BY <1>1, <1>3, <1>4, <1>5

\* The handler that a change calls.
LEMMA HandlerOf ==
  ASSUME WInv, NEW k \in PodKey, handles(k)
  PROVE  /\ pending[k][1].type \in {"add", "update"} => handlePod(pending[k][1].obj)
         /\ pending[k][1].type = "delete" => onPodDelete(pending[k][1].obj)
         /\ pending[k][1].type = "tombstone" => UNCHANGED vars
         /\ \A j \in PodKey \ {k} : podIndex'[j] = podIndex[j]
<1>1. pending[k][1].obj \in ClusterPod(k) /\ pending[k][1].type \in DeltaType
  BY Shortened
<1>2. /\ pending[k][1].type \in {"add", "update"} => handlePod(pending[k][1].obj)
      /\ pending[k][1].type = "delete" => onPodDelete(pending[k][1].obj)
      /\ pending[k][1].type = "tombstone" => UNCHANGED vars
  BY DEF handles, applyPod, onPodAdd, onPodUpdate
<1> QED
  BY <1>1, <1>2, Entered, Cleared DEF DeltaType, vars

-----------------------------------------------------------------------------
(***************************************************************************)
(* The indexes mirror the cluster.                                         *)
(***************************************************************************)

\* A pod's present state stays the last of its changes.
LEMMA PodsCatchUpNext ==
  ASSUME WInv, PodsCatchUp, [WNext]_wvars
  PROVE  PodsCatchUp'
<1> USE DEF PodsCatchUp
<1>1. ASSUME NEW k \in PodKey, PodOperation(k) PROVE PodsCatchUp'
  <2> SUFFICES ASSUME NEW j \in PodKey \ missed'
               PROVE  IF pending'[j] = <<>> THEN podIndex'[j] = podInfo(j)'
                      ELSE IF pods'[j] = Absent THEN pending'[j][Len(pending'[j])].type = "delete"
                      ELSE /\ pending'[j][Len(pending'[j])].type \in {"add", "update"}
                           /\ pending'[j][Len(pending'[j])].obj = pods'[j]
    OBVIOUS
  <2>1. CASE j = k
    BY <1>1, <2>1, Operated
  <2>2. CASE j # k
    <3>1. j \notin missed /\ pods'[j] = pods[j] /\ pending'[j] = pending[j] /\ podIndex' = podIndex
      BY <1>1, <2>2, Operated DEF vars
    <3> QED
      BY <3>1 DEF podInfo
  <2> QED
    BY <2>1, <2>2
<1>2. ASSUME NEW k \in PodKey, handles(k) PROVE PodsCatchUp'
  <2>1. UNCHANGED <<pods, missed>>
    BY <1>2 DEF handles, cluster, histories
  <2> SUFFICES ASSUME NEW j \in PodKey \ missed
               PROVE  IF pending'[j] = <<>> THEN podIndex'[j] = podInfo(j)
                      ELSE IF pods[j] = Absent THEN pending'[j][Len(pending'[j])].type = "delete"
                      ELSE /\ pending'[j][Len(pending'[j])].type \in {"add", "update"}
                           /\ pending'[j][Len(pending'[j])].obj = pods[j]
    BY <2>1 DEF podInfo
  <2>2. CASE j # k
    BY <1>2, <2>2, HandlerOf, Shortened
  <2>3. CASE j = k /\ Len(pending[k]) = 1
    <3>1. pending'[k] = <<>> /\ pending[k] # <<>> /\ pending[k][1].obj \in ClusterPod(k)
      BY <1>2, <2>3, Shortened DEF handles
    <3>2. CASE pods[k] = Absent
      <4>1. pending[k][1].type = "delete"
        BY <2>3, <3>1, <3>2
      <4>2. podIndex'[k] = Absent
        BY <1>2, <3>1, <4>1, HandlerOf, Cleared
      <4> QED
        BY <2>3, <3>1, <3>2, <4>2 DEF podInfo
    <3>3. CASE pods[k] # Absent
      <4>1. pending[k][1].type \in {"add", "update"} /\ pending[k][1].obj = pods[k]
        BY <2>3, <3>1, <3>3
      <4>2. podIndex'[k] = [Node |-> pods[k].node, IPs |-> pods[k].podIPs]
        BY <1>2, <3>1, <4>1, HandlerOf, Entered
      <4> QED
        BY <2>3, <3>1, <3>3, <4>2 DEF podInfo
    <3> QED
      BY <3>2, <3>3
  <2>4. CASE j = k /\ Len(pending[k]) # 1
    <3>1. /\ pending'[k] # <<>> /\ pending[k] # <<>>
          /\ pending'[k][Len(pending'[k])] = pending[k][Len(pending[k])]
      <4>1. /\ Len(pending[k]) \in Nat \ {0} /\ Len(pending'[k]) = Len(pending[k]) - 1
            /\ \A i \in 1 .. Len(pending'[k]) : pending'[k][i] = pending[k][i + 1]
            /\ pending'[k] = <<>> <=> Len(pending[k]) = 1
            /\ pending[k] # <<>>
        BY <1>2, Shortened DEF handles
      <4>2. Len(pending'[k]) \in 1 .. Len(pending'[k]) /\ Len(pending'[k]) + 1 = Len(pending[k])
        BY <2>4, <4>1
      <4> QED
        BY <2>4, <4>1, <4>2
    <3> QED
      BY <2>4, <3>1
  <2> QED
    BY <2>2, <2>3, <2>4
<1>3. CASE podsQuiet
  BY <1>3 DEF podsQuiet, podInfo
<1> QED
  BY <1>1, <1>2, <1>3, StepsOnPods

\* Nothing that the nodes' part of the cluster or of the indexes holds changes.
nodesQuiet ==
  /\ UNCHANGED <<nodes, nodeDeltas, nodeIndex, removed>>
  /\ \A n \in Node : n \in missed' <=> n \in missed

\* Every step is an operation on a node, the handling of a node's change, or it
\* does not concern the nodes.
LEMMA StepsOnNodes ==
  ASSUME WInv, [WNext]_wvars
  PROVE  (\E n \in Node : NodeOperation(n) \/ watchNodes(n)) \/ nodesQuiet
<1>1. ASSUME NEW k \in PodKey, PodOperation(k) PROVE nodesQuiet
  <2>1. \A n \in Node : n # k
    BY ObjectAssumption
  <2> QED
    BY <1>1, <2>1, Operated DEF nodesQuiet, vars
<1>2. CASE watchPods
  <2>1. applyPod(Head(podPopped))
    BY <1>2, WatchedPodEvent DEF WInv
  <2>2. UNCHANGED nodeIndex
    BY <2>1 DEF applyPod, onPodAdd, onPodUpdate, onPodDelete, handlePod, vars
  <2> QED
    BY <1>2, <2>2 DEF watchPods, nodesQuiet, cluster, histories
<1>3. CASE popPod
  BY <1>3 DEF popPod, nodesQuiet, cluster, histories, vars
<1>4. CASE serve \/ UNCHANGED wvars
  <2>1. UNCHANGED indexes
    BY <1>4 DEF serve, handlePayload, rejectPayload, decodePayload, lockPayload, countEntry, unlockPayload,
                Collect, lockCollect, sendMetric, unlockCollect, wvars, vars, indexes
  <2>2. UNCHANGED <<cluster, watches>>
    BY <1>4 DEF serve, alone, wvars
  <2> QED
    BY <2>1, <2>2 DEF nodesQuiet, indexes, cluster, histories, watches
<1> QED
  BY <1>1, <1>2, <1>3, <1>4 DEF WNext, Cluster, PodOperation, NodeOperation

\* What an operation on a node does to its queue.
LEMMA NodeOperated ==
  ASSUME WInv, NEW n \in Node, NodeOperation(n)
  PROVE  /\ UNCHANGED <<vars, pods>>
         /\ \A m \in Node \ {n} : /\ nodes'[m] = nodes[m] /\ nodeDeltas'[m] = nodeDeltas[m]
                                  /\ m \in missed' <=> m \in missed
         /\ removed \subseteq removed'
         /\ Len(nodeDeltas[n]) \in Nat /\ Len(nodeDeltas'[n]) = Len(nodeDeltas[n]) + 1
         /\ nodeDeltas'[n] # <<>>
         /\ \A i \in 1 .. Len(nodeDeltas[n]) : nodeDeltas'[n][i] = nodeDeltas[n][i]
         /\ LET last == nodeDeltas'[n][Len(nodeDeltas[n]) + 1] IN
            \/ nodes'[n] # Absent /\ last.obj = NodeAt(n, nodes'[n]) /\ last.type \in {"add", "update"}
            \/ /\ nodes'[n] = Absent /\ n \in removed'
               /\ last.type = "delete" \/ n \in missed'
<1>1. PICK label \in Zone \cup {NoLabel, Absent}, type \in DeltaType, delta \in NodeObject :
        /\ nodeChange(n, label, type, delta)
        /\ delta.name = n
        /\ IF label = Absent THEN type \in {"delete", "tombstone"} ELSE type \in {"add", "update"}
        /\ label # Absent => delta = NodeAt(n, label)
        /\ type = "tombstone" => n \in missed'
        /\ label = Absent => n \in removed'
  BY NodeOperationQueues DEF WInv
<1> DEFINE d == Delta(type, delta)
<1>2. /\ nodes' = [nodes EXCEPT ![n] = label]
      /\ nodeDeltas' = [nodeDeltas EXCEPT ![n] = Append(@, d)]
      /\ UNCHANGED <<vars, pods>>
  BY <1>1 DEF nodeChange
<1>3. d \in NodeDelta /\ d.type = type /\ d.obj = delta
  BY DEF Delta, NodeDelta
<1>4. nodeDeltas \in [Node -> Seq(NodeDelta)] /\ nodeDeltas[n] \in Seq(NodeDelta)
  BY DEF WInv, WTypeOK, NodeDelta, DeltaType
<1> HIDE DEF d
<1>5. /\ nodeDeltas'[n] = Append(nodeDeltas[n], d)
      /\ \A m \in Node \ {n} : nodeDeltas'[m] = nodeDeltas[m]
  BY <1>2, <1>4
<1>6. /\ nodeDeltas'[n] # <<>>
      /\ Len(nodeDeltas[n]) \in Nat /\ Len(nodeDeltas'[n]) = Len(nodeDeltas[n]) + 1
      /\ \A i \in 1 .. Len(nodeDeltas[n]) : nodeDeltas'[n][i] = nodeDeltas[n][i]
      /\ nodeDeltas'[n][Len(nodeDeltas[n]) + 1] = d
  BY <1>3, <1>4, <1>5, AppendProperties
<1>7. nodes'[n] = label /\ \A m \in Node \ {n} : nodes'[m] = nodes[m]
  BY <1>2 DEF WInv, WTypeOK
<1>8. /\ removed \subseteq removed'
      /\ \A m \in Node \ {n} : m \in missed' <=> m \in missed
  BY DEF NodeOperation, addNode, relabelNode, deleteNode
<1> QED
  BY <1>1, <1>2, <1>3, <1>5, <1>6, <1>7, <1>8

\* What handling a node's change does to its queue.
LEMMA NodeShortened ==
  ASSUME WInv, NEW n \in Node, watchNodes(n)
  PROVE  /\ UNCHANGED cluster
         /\ \A m \in Node \ {n} : nodeDeltas'[m] = nodeDeltas[m]
         /\ nodeDeltas[n] # <<>> /\ Len(nodeDeltas[n]) \in Nat \ {0}
         /\ Len(nodeDeltas'[n]) = Len(nodeDeltas[n]) - 1
         /\ \A i \in 1 .. Len(nodeDeltas'[n]) : nodeDeltas'[n][i] = nodeDeltas[n][i + 1]
         /\ nodeDeltas'[n] = <<>> <=> Len(nodeDeltas[n]) = 1
         /\ applyNode(nodeDeltas[n][1])
         /\ nodeDeltas[n][1].type \in DeltaType /\ nodeDeltas[n][1].obj.name = n
<1>1. /\ nodeDeltas \in [Node -> Seq(NodeDelta)] /\ nodeDeltas[n] \in Seq(NodeDelta) /\ nodeDeltas[n] # <<>>
      /\ nodeDeltas' = [nodeDeltas EXCEPT ![n] = Tail(@)]
      /\ UNCHANGED cluster
  BY DEF watchNodes, WInv, WTypeOK, NodeDelta, DeltaType
<1>2. nodeDeltas'[n] = Tail(nodeDeltas[n]) /\ \A m \in Node \ {n} : nodeDeltas'[m] = nodeDeltas[m]
  BY <1>1
<1>3. /\ Tail(nodeDeltas[n]) \in Seq(NodeDelta)
      /\ Len(Tail(nodeDeltas[n])) = Len(nodeDeltas[n]) - 1 /\ Len(nodeDeltas[n]) \in Nat \ {0}
      /\ \A i \in 1 .. Len(Tail(nodeDeltas[n])) : Tail(nodeDeltas[n])[i] = nodeDeltas[n][i + 1]
  BY <1>1, HeadTailProperties, EmptySeq
<1>4. Tail(nodeDeltas[n]) = <<>> <=> Len(nodeDeltas[n]) = 1
  <2>1. Tail(nodeDeltas[n]) = <<>> <=> Len(Tail(nodeDeltas[n])) = 0
    BY <1>3, EmptyHasLengthZero
  <2> QED
    BY <1>3, <2>1
<1>5. Head(nodeDeltas[n]) = nodeDeltas[n][1] /\ Head(nodeDeltas[n]) \in NodeDelta
  BY <1>1, HeadTailProperties
<1>6. applyNode(nodeDeltas[n][1])
  BY <1>5, WatchedNodeEvent DEF WInv
<1>7. nodeDeltas[n][1].obj.name = n
  BY <1>3 DEF WInv, WellQueued
<1> QED
  BY <1>1, <1>2, <1>3, <1>4, <1>5, <1>6, <1>7 DEF NodeDelta

\* A node's present zone stays the last of its changes.
LEMMA NodesCatchUpNext ==
  ASSUME WInv, NodesCatchUp, [WNext]_wvars
  PROVE  NodesCatchUp'
<1> USE DEF NodesCatchUp
<1>1. ASSUME NEW n \in Node, NodeOperation(n) PROVE NodesCatchUp'
  <2> SUFFICES ASSUME NEW m \in Node \ missed'
               PROVE  IF nodeDeltas'[m] = <<>> THEN nodeIndex'[m] = nodeZone(m)'
                      ELSE IF nodes'[m] = Absent THEN nodeDeltas'[m][Len(nodeDeltas'[m])].type = "delete"
                      ELSE /\ nodeDeltas'[m][Len(nodeDeltas'[m])].type \in {"add", "update"}
                           /\ nodeDeltas'[m][Len(nodeDeltas'[m])].obj = NodeAt(m, nodes'[m])
    OBVIOUS
  <2>1. CASE m = n
    BY <1>1, <2>1, NodeOperated
  <2>2. CASE m # n
    <3>1. m \notin missed /\ nodes'[m] = nodes[m] /\ nodeDeltas'[m] = nodeDeltas[m] /\ nodeIndex' = nodeIndex
      BY <1>1, <2>2, NodeOperated DEF vars
    <3> QED
      BY <3>1 DEF nodeZone
  <2> QED
    BY <2>1, <2>2
<1>2. ASSUME NEW n \in Node, watchNodes(n) PROVE NodesCatchUp'
  <2>1. UNCHANGED <<nodes, missed>>
    BY <1>2 DEF watchNodes, cluster, histories
  <2>2. nodeIndex \in [NodeName -> ZoneName \cup {Absent}] /\ Node \subseteq NodeName
    BY DEF WInv, WTypeOK, TypeOK, NodeName
  <2> DEFINE d == nodeDeltas[n][1]
  <2>3. /\ applyNode(d) /\ d.type \in DeltaType /\ d.obj.name = n
        /\ nodeDeltas[n] # <<>> /\ Len(nodeDeltas[n]) \in Nat \ {0}
        /\ Len(nodeDeltas'[n]) = Len(nodeDeltas[n]) - 1
        /\ \A i \in 1 .. Len(nodeDeltas'[n]) : nodeDeltas'[n][i] = nodeDeltas[n][i + 1]
        /\ nodeDeltas'[n] = <<>> <=> Len(nodeDeltas[n]) = 1
        /\ \A m \in Node \ {n} : nodeDeltas'[m] = nodeDeltas[m]
    BY <1>2, NodeShortened
  <2> HIDE DEF d
  <2>4. /\ \A m \in Node \ {n} : nodeIndex'[m] = nodeIndex[m]
        /\ d.type \in {"add", "update"} => nodeIndex'[n] = zoneOf(d.obj)
        /\ d.type = "delete" => nodeIndex'[n] = Absent
    BY <2>2, <2>3 DEF applyNode, onNodeAdd, onNodeUpdate, onNodeDelete, DeltaType, vars
  <2> SUFFICES ASSUME NEW m \in Node \ missed
               PROVE  IF nodeDeltas'[m] = <<>> THEN nodeIndex'[m] = nodeZone(m)
                      ELSE IF nodes[m] = Absent THEN nodeDeltas'[m][Len(nodeDeltas'[m])].type = "delete"
                      ELSE /\ nodeDeltas'[m][Len(nodeDeltas'[m])].type \in {"add", "update"}
                           /\ nodeDeltas'[m][Len(nodeDeltas'[m])].obj = NodeAt(m, nodes[m])
    BY <2>1 DEF nodeZone
  <2>5. CASE m # n
    BY <2>3, <2>4, <2>5
  <2>6. CASE m = n /\ Len(nodeDeltas[n]) = 1
    <3>1. nodeDeltas'[n] = <<>> /\ d = nodeDeltas[n][Len(nodeDeltas[n])]
      BY <2>3, <2>6 DEF d
    <3>2. CASE nodes[n] = Absent
      BY <2>3, <2>4, <2>6, <3>1, <3>2 DEF nodeZone
    <3>3. CASE nodes[n] # Absent
      <4>1. d.type \in {"add", "update"} /\ d.obj = NodeAt(n, nodes[n])
        BY <2>3, <2>6, <3>1, <3>3
      <4>2. zoneOf(d.obj) = nodeZone(n)
        BY <3>3, <4>1 DEF zoneOf, nodeZone, NodeAt
      <4> QED
        BY <2>4, <2>6, <3>1, <4>1, <4>2
    <3> QED
      BY <3>2, <3>3
  <2>7. CASE m = n /\ Len(nodeDeltas[n]) # 1
    <3>1. Len(nodeDeltas'[n]) \in 1 .. Len(nodeDeltas'[n]) /\ Len(nodeDeltas'[n]) + 1 = Len(nodeDeltas[n])
      BY <2>3, <2>7
    <3>2. nodeDeltas'[n][Len(nodeDeltas'[n])] = nodeDeltas[n][Len(nodeDeltas[n])]
      BY <2>3, <3>1
    <3> QED
      BY <2>3, <2>7, <3>2
  <2> QED
    BY <2>5, <2>6, <2>7
<1>3. CASE nodesQuiet
  BY <1>3 DEF nodesQuiet, nodeZone
<1> QED
  BY <1>1, <1>2, <1>3, StepsOnNodes

\* Initially all nodes are pending and there are no pods.
LEMMA NothingPendingFirst ==
  ASSUME WInit
  PROVE  /\ \A k \in PodKey : pending[k] = <<>> /\ podIndex[k] = Absent /\ pods[k] = Absent
         /\ \A ip \in IP : podIpIndex[ip] = Absent
         /\ \A n \in Node : /\ nodes[n] # Absent /\ Len(nodeDeltas[n]) = 1 /\ nodeDeltas[n] # <<>>
                            /\ nodeDeltas[n][1].type = "add" /\ nodeDeltas[n][1].obj = NodeAt(n, nodes[n])
<1>1. \A n \in Node : nodes[n] # Absent
  BY AbsentAssumption, ObjectAssumption DEF WInit, ZoneName
<1> QED
  BY <1>1 DEF WInit, Init, pending, Delta

\* Once the events are handled, podIndex and nodeIndex are the cluster's pods
\* and nodes, whatever changed, in whatever order the two informers and the
\* queue delivered it and whatever payloads and scrapes came in between, except
\* for the deletions the watch missed.
THEOREM IndexesMirror == WSpec => []IndexMirrorsCluster
<1>1. WInit => PodsCatchUp /\ NodesCatchUp
  BY NothingPendingFirst DEF PodsCatchUp, NodesCatchUp, podInfo
<1>2. WInv /\ PodsCatchUp /\ NodesCatchUp /\ [WNext]_wvars => PodsCatchUp' /\ NodesCatchUp'
  BY PodsCatchUpNext, NodesCatchUpNext
<1>3. WInv /\ PodsCatchUp /\ NodesCatchUp => IndexMirrorsCluster
  <2> SUFFICES ASSUME WInv, PodsCatchUp, NodesCatchUp, Quiescent PROVE MirrorsCluster
    BY DEF IndexMirrorsCluster
  <2>1. \A k \in PodKey : pending[k] = <<>>
    BY Drained
  <2>2. \A n \in Node : nodeDeltas[n] = <<>>
    BY DEF Quiescent
  <2> QED
    BY <2>1, <2>2 DEF PodsCatchUp, NodesCatchUp, podInfo, nodeZone, MirrorsCluster
<1> QED
  BY <1>1, <1>2, <1>3, WInvHolds, PTL DEF WSpec
==============================================================================
