------------------------- MODULE WatchedAddressProofs -------------------------
(***************************************************************************)
(* What podIpIndex and nodeIpIndex make of the cluster's addresses, for    *)
(* every cluster: which pod or node an address resolves to when pods are   *)
(* restarted, deleted and created, addresses change hands, and deletions   *)
(* are missed.                                                             *)
(***************************************************************************)
EXTENDS WatchedProofs

-----------------------------------------------------------------------------
(***************************************************************************)
(* The invariants: what the server's maps and the pending changes together *)
(* say of the addresses.                                                   *)
(***************************************************************************)

\* Handling the change enters the address for the pod, or takes it away.
enters(delta, ip) == delta.type \in {"add", "update"} /\ ip \in delta.obj.podIPs
clears(delta, ip) == delta.type = "delete" /\ ip \in delta.obj.podIPs

\* A pod whose deletion was missed is gone until it is created again.
MissedAreGone == \A k \in PodKey \cap missed : pods[k] = Absent

\* When a deletion is handled, podIndex has the addresses of the deleted object.
DeletionsMatch ==
  \A k \in PodKey : \A i \in 1 .. Len(pending[k]) :
    pending[k][i].type = "delete" =>
      IF i = 1 THEN podIndex[k] # Absent /\ podIndex[k].IPs = pending[k][i].obj.podIPs
      ELSE pending[k][i - 1].type \in {"add", "update"} /\ pending[k][i - 1].obj = pending[k][i].obj

\* The claims to an address that nobody contested are one pod's, who has it
\* if anyone does, and a pod has a claim to the address it shows.
ClaimsKept ==
  \A ip \in PodIP :
    /\ ip \notin contested => \A j, k \in claims[ip] : j = k
    /\ holder[ip] # Absent => holder[ip] \in claims[ip]
    /\ \A k \in PodKey : pods[k] # Absent /\ ip \in pods[k].podIPs => k \in claims[ip]

\* A pod without a claim to an address has lost it, or a pending deletion will
\* take it away and nothing enters it again.
UnclaimedAreCleared ==
  \A ip \in PodIP : \A k \in PodKey \ claims[ip] :
    podIpIndex[ip] = k \/ (\E i \in 1 .. Len(pending[k]) : enters(pending[k][i], ip))
      => \E m \in 1 .. Len(pending[k]) :
           /\ clears(pending[k][m], ip)
           /\ \A i \in m + 1 .. Len(pending[k]) : ~enters(pending[k][i], ip)

\* Only the pods that have had an address are ever known by it.
OwnersOnly ==
  \A ip \in PodIP :
    /\ podIpIndex[ip] # Absent => podIpIndex[ip] \in owners[ip]
    /\ \A k \in PodKey \ owners[ip] :
         /\ podIndex[k] # Absent => ip \notin podIndex[k].IPs
         /\ pods[k] # Absent => ip \notin pods[k].podIPs
         /\ \A i \in 1 .. Len(pending[k]) : ip \notin pending[k][i].obj.podIPs

\* The pod that has an address and is its only owner is known by it, or will be
\* for good when its pending changes are handled.
FirstOwnerEntered ==
  \A ip \in PodIP : \A k \in PodKey :
    holder[ip] = k /\ owners[ip] = {k} =>
      \/ /\ podIpIndex[ip] = k
         /\ \A i \in 1 .. Len(pending[k]) : pending[k][i].type # "delete"
      \/ \E m \in 1 .. Len(pending[k]) :
           /\ enters(pending[k][m], ip)
           /\ \A i \in m + 1 .. Len(pending[k]) : pending[k][i].type # "delete"

\* No pod is known by a node's address.
HostsAreNoPods == \A ip \in IP \ PodIP : podIpIndex[ip] = Absent

\* The changes of a node that was never deleted are not deletions.
KeptNodes ==
  \A n \in Node \ removed : \A i \in 1 .. Len(nodeDeltas[n]) : nodeDeltas[n][i].type \in {"add", "update"}

\* The node of a hostNetwork pod is known by its address, or will be, unless
\* the node was deleted.
HostsEntered ==
  \A k \in PodKey : pods[k] # Absent /\ onHost(k) /\ pods[k].node \notin removed =>
    \/ nodeIpIndex[NodeIP[pods[k].node]] = pods[k].node
    \/ \E m \in 1 .. Len(pending[k]) :
         pending[k][m].type \in {"add", "update"} /\ pending[k][m].obj = pods[k]

-----------------------------------------------------------------------------
(***************************************************************************)
(* Clean reuse of an address.                                              *)
(***************************************************************************)

\* What podIndex holds of a pod is not nothing.
LEMMA InfoOfPod ==
  ASSUME NEW k \in PodKey, NEW obj \in ClusterPod(k)
  PROVE  [Node |-> obj.node, IPs |-> obj.podIPs] # Absent
<1>1. obj.node \in NodeName /\ obj.podIPs \in SUBSET IP
  BY PodOfCluster DEF NodeName
<1>2. [Node |-> obj.node, IPs |-> obj.podIPs] \in PodInfo
  BY <1>1 DEF PodInfo
<1> QED
  BY <1>2, AbsentAssumption

\* A pod whose deletion was missed stays gone until it is created.
LEMMA MissedAreGoneNext ==
  ASSUME WInv, MissedAreGone, [WNext]_wvars
  PROVE  MissedAreGone'
<1> USE DEF MissedAreGone
<1>1. ASSUME NEW k \in PodKey, PodOperation(k) PROVE MissedAreGone'
  <2>1. \A j \in PodKey \ {k} : pods'[j] = pods[j] /\ (j \in missed' <=> j \in missed)
    BY <1>1, Operated
  <2>2. k \in missed' => pods'[k] = Absent
    BY <1>1 DEF PodOperation, createPod, startPod, startOnHost, finishPod, deletePod, podChange, histories,
                running, WInv, WTypeOK, HoldersShown
  <2> QED
    BY <2>1, <2>2
<1>2. ASSUME NEW k \in PodKey, handles(k) PROVE MissedAreGone'
  BY <1>2 DEF handles, cluster, histories
<1>3. CASE podsQuiet
  BY <1>3 DEF podsQuiet
<1> QED
  BY <1>1, <1>2, <1>3, StepsOnPods

\* A deletion follows the state of the pod it deletes.
LEMMA DeletionsMatchNext ==
  ASSUME WInv, PodsCatchUp, MissedAreGone, DeletionsMatch, [WNext]_wvars
  PROVE  DeletionsMatch'
<1> USE DEF DeletionsMatch
<1>1. ASSUME NEW k \in PodKey, PodOperation(k) PROVE DeletionsMatch'
  <2> SUFFICES ASSUME NEW j \in PodKey, NEW i \in 1 .. Len(pending'[j]), pending'[j][i].type = "delete"
               PROVE  IF i = 1 THEN podIndex[j] # Absent /\ podIndex[j].IPs = pending'[j][i].obj.podIPs
                      ELSE pending'[j][i - 1].type \in {"add", "update"} /\ pending'[j][i - 1].obj = pending'[j][i].obj
    BY <1>1, Operated DEF vars
  <2>1. CASE j # k
    BY <1>1, <2>1, Operated
  <2> DEFINE n == Len(pending[k])
  <2>2. CASE j = k /\ i # n + 1
    <3>1. n \in Nat /\ i \in 1 .. n /\ \A x \in 1 .. n : pending'[k][x] = pending[k][x]
      BY <1>1, <2>2, Operated
    <3>2. i = 1 \/ i - 1 \in 1 .. n
      BY <3>1
    <3> QED
      BY <2>2, <3>1, <3>2
  <2>3. CASE j = k /\ i = n + 1
    <3>1. n \in Nat /\ \A x \in 1 .. n : pending'[k][x] = pending[k][x]
      BY <1>1, Operated
    <3>2. pods[k] # Absent /\ pending'[k][n + 1].obj = pods[k]
      BY <1>1, <2>3, Operated
    <3>3. k \notin missed
      BY <3>2 DEF MissedAreGone
    <3>4. pending[k] \in Seq(PodDelta) /\ pods[k] \in ClusterPod(k)
      BY <3>2, PendingTyped DEF WInv, WellQueued
    <3>5. CASE n = 0
      <4>1. pending[k] = <<>>
        BY <3>4, <3>5, EmptyHasLengthZero
      <4>2. podIndex[k] = [Node |-> pods[k].node, IPs |-> pods[k].podIPs]
        BY <3>2, <3>3, <4>1 DEF PodsCatchUp, podInfo
      <4>3. podIndex[k] # Absent
        BY <3>4, <4>2, InfoOfPod
      <4> QED
        BY <2>3, <3>2, <3>5, <4>2, <4>3
    <3>6. CASE n # 0
      <4>1. pending[k] # <<>>
        BY <3>4, <3>6, EmptyHasLengthZero
      <4>2. pending[k][n].type \in {"add", "update"} /\ pending[k][n].obj = pods[k]
        BY <3>2, <3>3, <4>1 DEF PodsCatchUp
      <4>3. n \in 1 .. n /\ n + 1 - 1 = n /\ n + 1 # 1
        BY <3>1, <3>6
      <4> QED
        BY <2>3, <3>1, <3>2, <4>2, <4>3
    <3> QED
      BY <3>5, <3>6
  <2> QED
    BY <2>1, <2>2, <2>3
<1>2. ASSUME NEW k \in PodKey, handles(k) PROVE DeletionsMatch'
  <2> SUFFICES ASSUME NEW j \in PodKey, NEW i \in 1 .. Len(pending'[j]), pending'[j][i].type = "delete"
               PROVE  IF i = 1 THEN podIndex'[j] # Absent /\ podIndex'[j].IPs = pending'[j][i].obj.podIPs
                      ELSE pending'[j][i - 1].type \in {"add", "update"} /\ pending'[j][i - 1].obj = pending'[j][i].obj
    OBVIOUS
  <2>1. CASE j # k
    BY <1>2, <2>1, HandlerOf, Shortened
  <2>2. CASE j = k
    <3>1. /\ Len(pending[k]) \in Nat \ {0} /\ Len(pending'[k]) = Len(pending[k]) - 1
          /\ \A x \in 1 .. Len(pending'[k]) : pending'[k][x] = pending[k][x + 1]
          /\ pending[k][1].obj \in ClusterPod(k)
      BY <1>2, Shortened
    <3>2. i + 1 \in 1 .. Len(pending[k]) /\ i + 1 # 1 /\ i + 1 - 1 = i /\ pending'[k][i] = pending[k][i + 1]
      BY <2>2, <3>1
    <3>3. pending[k][i].type \in {"add", "update"} /\ pending[k][i].obj = pending'[k][i].obj
      BY <2>2, <3>2
    <3>4. CASE i = 1
      <4>1. podIndex'[k] = [Node |-> pending[k][1].obj.node, IPs |-> pending[k][1].obj.podIPs]
        BY <1>2, <3>1, <3>3, <3>4, HandlerOf, Entered
      <4>2. podIndex'[k] # Absent
        BY <3>1, <4>1, InfoOfPod
      <4> QED
        BY <2>2, <3>3, <3>4, <4>1, <4>2
    <3>5. CASE i # 1
      <4>1. i - 1 \in 1 .. Len(pending'[k]) /\ i - 1 + 1 = i
        BY <2>2, <3>1, <3>5
      <4>2. pending'[k][i - 1] = pending[k][i]
        BY <3>1, <4>1
      <4> QED
        BY <2>2, <3>3, <3>5, <4>2
    <3> QED
      BY <3>4, <3>5
  <2> QED
    BY <2>1, <2>2
<1>3. CASE podsQuiet
  BY <1>3 DEF podsQuiet
<1> QED
  BY <1>1, <1>2, <1>3, StepsOnPods

\* The claims are kept by every operation on a pod.
LEMMA ClaimsKeptNext ==
  ASSUME WInv, ClaimsKept, [WNext]_wvars
  PROVE  ClaimsKept'
<1> USE DEF ClaimsKept
<1>1. /\ holder \in [PodIP -> PodKey \cup {Absent}]
      /\ claims \in [PodIP -> SUBSET PodKey]
      /\ pods \in [PodKey -> PodObject \cup {Absent}]
      /\ Absent \notin PodKey
  BY AbsentAssumption DEF WInv, WTypeOK
<1>2. ASSUME NEW k \in PodKey, PodOperation(k) PROVE ClaimsKept'
  <2>1. \A j \in PodKey \ {k} : pods'[j] = pods[j]
    BY <1>2, Operated
  <2>2. \A ip \in PodIP : released(k)[ip] # Absent => released(k)[ip] = holder[ip] /\ holder[ip] # k
    BY <1>1 DEF released
  <2>3. ASSUME NEW node \in Node, createPod(k, node) PROVE ClaimsKept'
    <3>1. pods'[k] = PodAt(k, node, {}) /\ UNCHANGED <<holder, claims, contested>>
      BY <1>1, <2>3 DEF createPod, podChange
    <3>2. pods'[k].podIPs = {}
      BY <3>1 DEF PodAt
    <3> QED
      BY <2>1, <3>1, <3>2
  <2>4. ASSUME NEW ip \in PodIP, startPod(k, ip) PROVE ClaimsKept'
    <3>1. /\ holder' = [released(k) EXCEPT ![ip] = k]
          /\ claims' = [claims EXCEPT ![ip] = @ \cup {k}]
          /\ contested' = IF claims[ip] \subseteq {k} THEN contested ELSE contested \cup {ip}
          /\ pods'[k] = PodAt(k, pods[k].node, {ip})
      BY <1>1, <2>4 DEF startPod, podChange
    <3>2. pods'[k].podIPs = {ip}
      BY <3>1 DEF PodAt
    <3>3. holder'[ip] = k /\ \A x \in PodIP \ {ip} : holder'[x] = released(k)[x]
      BY <3>1 DEF released
    <3>4. claims'[ip] = claims[ip] \cup {k} /\ \A x \in PodIP \ {ip} : claims'[x] = claims[x]
      BY <1>1, <3>1
    <3>5. ASSUME NEW x \in PodIP, x \notin contested' PROVE \A a, b \in claims'[x] : a = b
      BY <3>1, <3>4, <3>5
    <3>6. \A x \in PodIP : holder'[x] # Absent => holder'[x] \in claims'[x]
      BY <2>2, <3>3, <3>4
    <3>7. ASSUME NEW x \in PodIP, NEW j \in PodKey, pods'[j] # Absent, x \in pods'[j].podIPs
          PROVE  j \in claims'[x]
      BY <2>1, <3>2, <3>4, <3>7
    <3> QED
      BY <3>5, <3>6, <3>7
  <2>5. CASE startOnHost(k)
    <3>1. /\ pods[k] # Absent /\ UNCHANGED <<holder, claims, contested>>
          /\ pods'[k] = PodAt(k, pods[k].node, {NodeIP[pods[k].node]})
      BY <1>1, <2>5 DEF startOnHost, podChange, histories
    <3>2. pods[k].node \in Node
      BY <3>1, PodOfCluster DEF WInv, WellQueued
    <3>3. \A x \in PodIP : x \notin pods'[k].podIPs
      BY <3>1, <3>2, AddressAssumption DEF PodAt
    <3> QED
      BY <2>1, <3>1, <3>3
  <2>6. CASE finishPod(k)
    <3>1. holder' = released(k) /\ UNCHANGED <<claims, contested>> /\ pods'[k] = pods[k]
      BY <1>1, <2>6 DEF finishPod, podChange, histories
    <3> QED
      BY <2>1, <2>2, <3>1
  <2>7. CASE deletePod(k)
    <3>1. /\ holder' = released(k) /\ UNCHANGED contested /\ pods'[k] = Absent
          /\ claims' = claims \/ unclaims(k)
      BY <1>1, <2>7 DEF deletePod, podChange, unclaims
    <3>2. \A x \in PodIP : claims[x] \ {k} \subseteq claims'[x] /\ claims'[x] \subseteq claims[x]
      BY <1>1, <3>1 DEF unclaims
    <3>3. \A x \in PodIP : holder'[x] # Absent => holder'[x] \in claims'[x]
      BY <1>1, <2>2, <3>1, <3>2
    <3> QED
      BY <2>1, <3>1, <3>2, <3>3
  <2> QED
    BY <1>2, <2>3, <2>4, <2>5, <2>6, <2>7 DEF PodOperation
<1>3. ASSUME NEW k \in PodKey, handles(k) PROVE ClaimsKept'
  BY <1>3 DEF handles, cluster, histories
<1>4. CASE podsQuiet
  BY <1>4 DEF podsQuiet
<1> QED
  BY <1>2, <1>3, <1>4, StepsOnPods

\* A pod that has lost its claim to an address loses the address.
LEMMA UnclaimedAreClearedNext ==
  ASSUME WInv, DeletionsMatch, ClaimsKept, UnclaimedAreCleared, [WNext]_wvars
  PROVE  UnclaimedAreCleared'
<1> USE DEF UnclaimedAreCleared
<1>1. ASSUME NEW k \in PodKey, PodOperation(k) PROVE UnclaimedAreCleared'
  <2>1. UNCHANGED podIpIndex /\ \A j \in PodKey \ {k} : pending'[j] = pending[j]
    BY <1>1, Operated DEF vars
  <2>2. claims \in [PodIP -> SUBSET PodKey]
    BY DEF WInv, WTypeOK
  <2>3. \A ip \in PodIP : claims[ip] \ {k} \subseteq claims'[ip]
    BY <1>1, <2>2, Operated DEF unclaims
  <2> DEFINE n == Len(pending[k])
             last == pending'[k][n + 1]
  <2> SUFFICES ASSUME NEW ip \in PodIP, NEW j \in PodKey \ claims'[ip],
                      podIpIndex[ip] = j \/ \E i \in 1 .. Len(pending'[j]) : enters(pending'[j][i], ip)
               PROVE  \E m \in 1 .. Len(pending'[j]) :
                        /\ clears(pending'[j][m], ip)
                        /\ \A i \in m + 1 .. Len(pending'[j]) : ~enters(pending'[j][i], ip)
    BY <2>1, Zenon DEF enters, clears
  <2>4. CASE j # k
    <3>1. j \notin claims[ip] /\ pending'[j] = pending[j]
      BY <2>1, <2>3, <2>4
    <3> QED
      BY <3>1
  <2>5. CASE j = k
    <3>1. /\ n \in Nat /\ Len(pending'[k]) = n + 1
          /\ \A i \in 1 .. n : pending'[k][i] = pending[k][i]
      BY <1>1, Operated
    <3>2. CASE k \in claims[ip]
      <4>1. clears(last, ip)
        BY <1>1, <2>2, <2>5, <3>2, Operated DEF clears, unclaims
      <4>2. n + 1 \in 1 .. Len(pending'[k]) /\ \A i \in n + 2 .. Len(pending'[k]) : FALSE
        BY <3>1
      <4> QED
        BY <2>5, <3>1, <4>1, <4>2
    <3>3. CASE k \notin claims[ip]
      <4>1. ~enters(last, ip)
        <5> SUFFICES ASSUME enters(last, ip) PROVE FALSE
          OBVIOUS
        <5>1. pods'[k] # Absent /\ ip \in pods'[k].podIPs
          BY <1>1, Operated DEF enters
        <5>2. ClaimsKept'
          BY ClaimsKeptNext
        <5> QED
          BY <2>5, <5>1, <5>2 DEF ClaimsKept
      <4>2. podIpIndex[ip] = k \/ \E i \in 1 .. n : enters(pending[k][i], ip)
        <5>1. CASE podIpIndex[ip] = k
          BY <5>1
        <5>2. CASE \E i \in 1 .. Len(pending'[k]) : enters(pending'[k][i], ip)
          <6>1. PICK i \in 1 .. Len(pending'[k]) : enters(pending'[k][i], ip)
            BY <5>2
          <6>2. i \in 1 .. n
            BY <3>1, <4>1, <6>1
          <6> QED
            BY <3>1, <6>1, <6>2
        <5> QED
          BY <2>5, <5>1, <5>2
      <4>3. PICK m \in 1 .. n : /\ clears(pending[k][m], ip)
                                /\ \A i \in m + 1 .. n : ~enters(pending[k][i], ip)
        BY <3>3, <4>2
      <4>4. ASSUME NEW i \in m + 1 .. Len(pending'[k]) PROVE ~enters(pending'[k][i], ip)
        <5>1. CASE i = n + 1
          BY <4>1, <5>1
        <5>2. CASE i # n + 1
          <6>1. i \in m + 1 .. n /\ i \in 1 .. n
            BY <3>1, <5>2
          <6> QED
            BY <3>1, <4>3, <6>1
        <5> QED
          BY <5>1, <5>2
      <4>5. m \in 1 .. Len(pending'[k]) /\ clears(pending'[k][m], ip)
        BY <3>1, <4>3
      <4> QED
        BY <2>5, <4>4, <4>5
    <3> QED
      BY <3>2, <3>3
  <2> QED
    BY <2>4, <2>5
<1>2. ASSUME NEW k \in PodKey, handles(k) PROVE UnclaimedAreCleared'
  <2>1. UNCHANGED claims
    BY <1>2 DEF handles, cluster, histories
  <2> DEFINE d == pending[k][1]
  <2>2. /\ Len(pending[k]) \in Nat \ {0} /\ Len(pending'[k]) = Len(pending[k]) - 1
        /\ \A i \in 1 .. Len(pending'[k]) : pending'[k][i] = pending[k][i + 1]
        /\ \A j \in PodKey \ {k} : pending'[j] = pending[j]
        /\ d.obj \in ClusterPod(k) /\ d.type \in DeltaType
    BY <1>2, Shortened
  <2>3. /\ d.type \in {"add", "update"} => \A ip \in PodIP : podIpIndex'[ip] = IF ip \in d.obj.podIPs THEN k ELSE podIpIndex[ip]
        /\ d.type = "delete" => \A ip \in PodIP : podIpIndex'[ip] = IF ip \in d.obj.podIPs THEN Absent ELSE podIpIndex[ip]
        /\ d.type = "tombstone" => podIpIndex' = podIpIndex
    <3>1. d.type = "delete" => podIndex[k] # Absent /\ podIndex[k].IPs = d.obj.podIPs
      <4>1. 1 \in 1 .. Len(pending[k])
        BY <2>2
      <4> QED
        BY <4>1 DEF DeletionsMatch
    <3>2. d.type \in {"add", "update"} => \A ip \in PodIP : podIpIndex'[ip] = IF ip \in d.obj.podIPs THEN k ELSE podIpIndex[ip]
      <4>1. d.type \in {"add", "update"} => handlePod(d.obj)
        BY <1>2, HandlerOf
      <4>2. d.obj \in ClusterPod(k)
        BY <2>2
      <4> HIDE DEF d
      <4> QED
        BY <4>1, <4>2, Entered
    <3>3. d.type = "delete" => \A ip \in PodIP : podIpIndex'[ip] = IF ip \in d.obj.podIPs THEN Absent ELSE podIpIndex[ip]
      BY <1>2, <2>2, <3>1, HandlerOf, Cleared
    <3>4. d.type = "tombstone" => podIpIndex' = podIpIndex
      BY <1>2, HandlerOf DEF vars
    <3> QED
      BY <3>2, <3>3, <3>4
  <2> HIDE DEF d
  <2> SUFFICES ASSUME NEW ip \in PodIP, NEW j \in PodKey \ claims[ip],
                      podIpIndex'[ip] = j \/ \E i \in 1 .. Len(pending'[j]) : enters(pending'[j][i], ip)
               PROVE  \E m \in 1 .. Len(pending'[j]) :
                        /\ clears(pending'[j][m], ip)
                        /\ \A i \in m + 1 .. Len(pending'[j]) : ~enters(pending'[j][i], ip)
    BY <2>1, Zenon DEF enters, clears
  <2>4. Absent \notin PodKey
    BY AbsentAssumption
  <2>5. CASE j # k
    <3>1. pending'[j] = pending[j]
      BY <2>2, <2>5
    <3>2. podIpIndex'[ip] = j => podIpIndex[ip] = j
      BY <2>2, <2>3, <2>4, <2>5 DEF DeltaType
    <3> QED
      BY <3>1, <3>2
  <2>6. CASE j = k
    <3>1. podIpIndex[ip] = k \/ \E i \in 1 .. Len(pending[k]) : enters(pending[k][i], ip)
      <4>1. ASSUME podIpIndex'[ip] = k, podIpIndex[ip] # k PROVE enters(pending[k][1], ip)
        BY <2>2, <2>3, <2>4, <4>1 DEF enters, DeltaType, d
      <4>2. ASSUME NEW i \in 1 .. Len(pending'[k]), enters(pending'[k][i], ip)
            PROVE  i + 1 \in 1 .. Len(pending[k]) /\ enters(pending[k][i + 1], ip)
        BY <2>2, <4>2
      <4>3. 1 \in 1 .. Len(pending[k])
        BY <2>2
      <4> QED
        BY <2>6, <4>1, <4>2, <4>3
    <3>2. PICK m \in 1 .. Len(pending[k]) :
            /\ clears(pending[k][m], ip)
            /\ \A i \in m + 1 .. Len(pending[k]) : ~enters(pending[k][i], ip)
      BY <2>6, <3>1
    <3>3. \A i \in m .. Len(pending'[k]) : i \in 1 .. Len(pending'[k]) => ~enters(pending'[k][i], ip)
      <4> SUFFICES ASSUME NEW i \in 1 .. Len(pending'[k]), i >= m PROVE ~enters(pending'[k][i], ip)
        OBVIOUS
      <4>1. i + 1 \in m + 1 .. Len(pending[k]) /\ pending'[k][i] = pending[k][i + 1]
        BY <2>2
      <4> QED
        BY <3>2, <4>1
    <3>4. m # 1
      <4> SUFFICES ASSUME m = 1 PROVE FALSE
        OBVIOUS
      <4>1. \A i \in 1 .. Len(pending'[k]) : ~enters(pending'[k][i], ip)
        BY <3>3
      <4>2. podIpIndex'[ip] = Absent
        BY <2>3, <3>2 DEF clears, d
      <4> QED
        BY <2>4, <2>6, <4>1, <4>2
    <3>5. /\ m - 1 \in 1 .. Len(pending'[k])
          /\ pending'[k][m - 1] = pending[k][m]
          /\ (m - 1) + 1 = m
      BY <2>2, <3>4
    <3>6. \A i \in m .. Len(pending'[k]) : ~enters(pending'[k][i], ip)
      BY <3>3
    <3> QED
      BY <2>6, <3>2, <3>5, <3>6
  <2> QED
    BY <2>5, <2>6
<1>3. CASE podsQuiet
  BY <1>3 DEF podsQuiet, enters, clears
<1> QED
  BY <1>1, <1>2, <1>3, StepsOnPods

\* Everything that keeps the address of a deleted pod from being given to it.
ReuseInv == PodsCatchUp /\ MissedAreGone /\ DeletionsMatch /\ ClaimsKept /\ UnclaimedAreCleared

\* Once the events are handled, traffic of a pod is never counted for another
\* pod that had its address before, if every former owner was seen to be deleted
\* with the address in its status: whatever order the queue delivered the old
\* pod's deletion and the new pod's creation in.
THEOREM ReuseIsClean == WSpec => []CleanReuse
<1>1. WInit => ReuseInv
  <2> SUFFICES ASSUME WInit PROVE ReuseInv
    OBVIOUS
  <2>1. /\ \A k \in PodKey : pending[k] = <<>> /\ podIndex[k] = Absent /\ pods[k] = Absent
        /\ \A ip \in IP : podIpIndex[ip] = Absent
    BY NothingPendingFirst
  <2>2. PodIP \subseteq IP /\ Absent \notin PodKey
    BY AddressAssumption, AbsentAssumption
  <2>3. PodsCatchUp /\ MissedAreGone
    BY <2>1 DEF PodsCatchUp, MissedAreGone, podInfo
  <2>4. DeletionsMatch
    BY <2>1 DEF DeletionsMatch
  <2>5. ClaimsKept
    BY <2>1 DEF WInit, ClaimsKept
  <2>6. UnclaimedAreCleared
    <3>1. \A k \in PodKey : \A i \in 1 .. Len(pending[k]) : FALSE
      BY <2>1
    <3>2. \A ip \in PodIP, k \in PodKey : podIpIndex[ip] # k
      BY <2>1, <2>2
    <3> QED
      BY <3>1, <3>2, Zenon DEF UnclaimedAreCleared
  <2> QED
    BY <2>3, <2>4, <2>5, <2>6 DEF ReuseInv
<1>2. WInv /\ ReuseInv /\ [WNext]_wvars => ReuseInv'
  BY PodsCatchUpNext, MissedAreGoneNext, DeletionsMatchNext, ClaimsKeptNext, UnclaimedAreClearedNext DEF ReuseInv
<1>3. WInv /\ ReuseInv => CleanReuse
  <2> SUFFICES ASSUME WInv, ReuseInv, Quiescent, NEW ip \in PodIP \ contested, holder[ip] # Absent
               PROVE  podIpIndex[ip] \in {holder[ip], Absent}
    BY DEF CleanReuse, ResolvesTo
  <2>1. \A k \in PodKey : pending[k] = <<>>
    BY Drained
  <2>2. \A k \in PodKey \ claims[ip] : podIpIndex[ip] # k
    <3>1. \A k \in PodKey : \A m \in 1 .. Len(pending[k]) : FALSE
      BY <2>1
    <3> QED
      BY <3>1, Zenon DEF ReuseInv, UnclaimedAreCleared
  <2>3. podIpIndex[ip] \in PodKey \cup {Absent}
    BY AddressAssumption DEF WInv, WTypeOK, TypeOK
  <2> QED
    BY <2>2, <2>3 DEF ReuseInv, ClaimsKept
<1> QED
  BY <1>1, <1>2, <1>3, WInvHolds, PTL DEF WSpec

-----------------------------------------------------------------------------
(***************************************************************************)
(* The first owner of an address.                                          *)
(***************************************************************************)

\* What an operation on a pod does to the address's holder and owners.
LEMMA OperatedAddresses ==
  ASSUME WInv, NEW k \in PodKey, PodOperation(k), NEW ip \in PodIP
  PROVE  /\ owners[ip] \subseteq owners'[ip] /\ owners'[ip] \subseteq owners[ip] \cup {k}
         /\ holder'[ip] \notin {k, Absent} => holder'[ip] = holder[ip]
         /\ pods'[k] # Absent /\ ip \in pods'[k].podIPs
              => k \in owners'[ip] \/ (pods[k] # Absent /\ ip \in pods[k].podIPs)
         /\ holder'[ip] = k => \/ pods'[k] # Absent /\ ip \in pods'[k].podIPs
                               \/ pods'[k] # Absent /\ holder[ip] = k
<1>1. /\ holder \in [PodIP -> PodKey \cup {Absent}]
      /\ owners \in [PodIP -> SUBSET PodKey]
      /\ pods \in [PodKey -> PodObject \cup {Absent}]
      /\ Absent \notin PodKey
  BY AbsentAssumption DEF WInv, WTypeOK
<1>2. /\ released(k)[ip] # k
      /\ released(k)[ip] # Absent => released(k)[ip] = holder[ip]
  BY <1>1 DEF released
<1>3. ASSUME NEW node \in Node, createPod(k, node)
      PROVE  /\ UNCHANGED <<owners, holder>> /\ pods'[k].podIPs = {} /\ pods'[k] # Absent
  <2>1. UNCHANGED <<owners, holder>> /\ pods'[k] = PodAt(k, node, {})
    BY <1>1, <1>3 DEF createPod, podChange
  <2>2. PodAt(k, node, {}) \in ClusterPod(k)
    BY MadePods
  <2>3. pods'[k] # Absent
    BY <2>1, <2>2, PodOfCluster
  <2> QED
    BY <2>1, <2>3 DEF PodAt
<1>4. ASSUME NEW x \in PodIP, startPod(k, x)
      PROVE  /\ owners'[ip] = IF ip = x THEN owners[ip] \cup {k} ELSE owners[ip]
             /\ holder'[ip] = IF ip = x THEN k ELSE released(k)[ip]
             /\ pods'[k].podIPs = {x} /\ pods'[k] # Absent
  <2>1. /\ owners' = [owners EXCEPT ![x] = @ \cup {k}]
        /\ holder' = [released(k) EXCEPT ![x] = k]
        /\ pods'[k] = PodAt(k, pods[k].node, {x})
        /\ pods[k] # Absent
    BY <1>1, <1>4 DEF startPod, podChange
  <2>2. pods[k].node \in Node
    BY <2>1, PodOfCluster DEF WInv, WellQueued
  <2>3. PodAt(k, pods[k].node, {x}) \in ClusterPod(k)
    BY <2>2, MadePods
  <2>4. pods'[k] # Absent
    BY <2>1, <2>3, PodOfCluster
  <2>5. pods'[k].podIPs = {x}
    BY <2>1 DEF PodAt
  <2>6. holder'[ip] = IF ip = x THEN k ELSE released(k)[ip]
    BY <2>1 DEF released
  <2>7. owners'[ip] = IF ip = x THEN owners[ip] \cup {k} ELSE owners[ip]
    BY <1>1, <2>1
  <2> QED
    BY <2>4, <2>5, <2>6, <2>7
<1>5. CASE startOnHost(k)
  <2>1. /\ UNCHANGED <<owners, holder>> /\ pods[k] # Absent
        /\ pods'[k] = PodAt(k, pods[k].node, {NodeIP[pods[k].node]})
    BY <1>1, <1>5 DEF startOnHost, podChange, histories
  <2>2. pods[k].node \in Node
    BY <2>1, PodOfCluster DEF WInv, WellQueued
  <2>3. PodAt(k, pods[k].node, {NodeIP[pods[k].node]}) \in ClusterPod(k)
    BY <2>2, MadePods
  <2>4. pods'[k] # Absent
    BY <2>1, <2>3, PodOfCluster
  <2>5. ip \notin pods'[k].podIPs
    BY <2>1, <2>2, AddressAssumption DEF PodAt
  <2> QED
    BY <1>1, <2>1, <2>4, <2>5
<1>6. CASE finishPod(k)
  <2>1. UNCHANGED owners /\ holder' = released(k) /\ pods'[k] = pods[k]
    BY <1>1, <1>6 DEF finishPod, podChange, histories
  <2> QED
    BY <1>2, <2>1
<1>7. CASE deletePod(k)
  <2>1. UNCHANGED owners /\ holder' = released(k) /\ pods'[k] = Absent
    BY <1>1, <1>7 DEF deletePod, podChange
  <2> QED
    BY <1>2, <2>1
<1>8. CASE \E node \in Node : createPod(k, node)
  BY <1>3, <1>8
<1>9. CASE \E x \in PodIP : startPod(k, x)
  BY <1>2, <1>4, <1>9
<1> QED
  BY <1>5, <1>6, <1>7, <1>8, <1>9 DEF PodOperation

\* Only its owners are known by an address.
LEMMA OwnersOnlyNext ==
  ASSUME WInv, OwnersOnly, [WNext]_wvars
  PROVE  OwnersOnly'
<1> USE DEF OwnersOnly
<1>1. ASSUME NEW k \in PodKey, PodOperation(k) PROVE OwnersOnly'
  <2>1. UNCHANGED <<podIpIndex, podIndex>>
    BY <1>1, Operated DEF vars
  <2> SUFFICES ASSUME NEW ip \in PodIP
               PROVE  /\ podIpIndex[ip] # Absent => podIpIndex[ip] \in owners'[ip]
                      /\ \A j \in PodKey \ owners'[ip] :
                           /\ podIndex[j] # Absent => ip \notin podIndex[j].IPs
                           /\ pods'[j] # Absent => ip \notin pods'[j].podIPs
                           /\ \A i \in 1 .. Len(pending'[j]) : ip \notin pending'[j][i].obj.podIPs
    BY <2>1
  <2>2. /\ owners[ip] \subseteq owners'[ip]
        /\ pods'[k] # Absent /\ ip \in pods'[k].podIPs
             => k \in owners'[ip] \/ (pods[k] # Absent /\ ip \in pods[k].podIPs)
    BY <1>1, OperatedAddresses
  <2>3. ASSUME NEW j \in PodKey \ owners'[ip]
        PROVE  /\ podIndex[j] # Absent => ip \notin podIndex[j].IPs
               /\ pods'[j] # Absent => ip \notin pods'[j].podIPs
               /\ \A i \in 1 .. Len(pending'[j]) : ip \notin pending'[j][i].obj.podIPs
    <3>1. j \notin owners[ip]
      BY <2>2
    <3>2. CASE j # k
      BY <1>1, <3>1, <3>2, Operated
    <3>3. CASE j = k
      <4>1. pods'[k] # Absent => ip \notin pods'[k].podIPs
        BY <2>2, <2>3, <3>1, <3>3
      <4>2. ip \notin pending'[k][Len(pending[k]) + 1].obj.podIPs
        BY <1>1, <3>1, <3>3, <4>1, Operated
      <4>3. \A i \in 1 .. Len(pending[k]) : ip \notin pending'[k][i].obj.podIPs
        BY <1>1, <3>1, <3>3, Operated
      <4>4. Len(pending[k]) \in Nat /\ Len(pending'[k]) = Len(pending[k]) + 1
        BY <1>1, Operated
      <4>5. \A i \in 1 .. Len(pending'[k]) : i \in 1 .. Len(pending[k]) \/ i = Len(pending[k]) + 1
        BY <4>4
      <4> QED
        BY <3>1, <3>3, <4>1, <4>2, <4>3, <4>5
    <3> QED
      BY <3>2, <3>3
  <2> QED
    BY <2>2, <2>3
<1>2. ASSUME NEW k \in PodKey, handles(k) PROVE OwnersOnly'
  <2>1. UNCHANGED <<owners, pods>>
    BY <1>2 DEF handles, cluster, histories
  <2> DEFINE d == pending[k][1]
  <2>2. /\ Len(pending[k]) \in Nat \ {0} /\ Len(pending'[k]) = Len(pending[k]) - 1
        /\ \A i \in 1 .. Len(pending'[k]) : pending'[k][i] = pending[k][i + 1]
        /\ \A j \in PodKey \ {k} : pending'[j] = pending[j]
        /\ d.obj \in ClusterPod(k) /\ d.type \in DeltaType /\ 1 \in 1 .. Len(pending[k])
    BY <1>2, Shortened
  <2>3. /\ d.type \in {"add", "update"} => handlePod(d.obj)
        /\ d.type = "delete" => onPodDelete(d.obj)
        /\ d.type = "tombstone" => UNCHANGED vars
        /\ \A j \in PodKey \ {k} : podIndex'[j] = podIndex[j]
    BY <1>2, HandlerOf
  <2>4. \A ip \in PodIP : k \notin owners[ip] => ip \notin d.obj.podIPs
    BY <2>2
  <2>5. ASSUME NEW j \in PodKey, NEW i \in 1 .. Len(pending'[j])
        PROVE  \E x \in 1 .. Len(pending[j]) : pending'[j][i] = pending[j][x]
    <3>1. CASE j = k
      <4>1. i + 1 \in 1 .. Len(pending[k]) /\ pending'[k][i] = pending[k][i + 1]
        BY <2>2, <3>1
      <4> QED
        BY <3>1, <4>1
    <3>2. CASE j # k
      BY <2>2, <3>2
    <3> QED
      BY <3>1, <3>2
  <2> HIDE DEF d
  <2>6. ASSUME NEW ip \in PodIP
        PROVE  /\ podIpIndex'[ip] # Absent => podIpIndex'[ip] \in owners[ip]
               /\ \A j \in PodKey \ owners[ip] : podIndex'[j] # Absent => ip \notin podIndex'[j].IPs
    <3>1. CASE d.type \in {"add", "update"}
      <4>1. /\ podIpIndex'[ip] = IF ip \in d.obj.podIPs THEN k ELSE podIpIndex[ip]
            /\ podIndex'[k] = [Node |-> d.obj.node, IPs |-> d.obj.podIPs]
        BY <2>2, <2>3, <3>1, Entered
      <4> QED
        BY <2>3, <2>4, <4>1
    <3>2. CASE d.type = "delete"
      <4>1. podIpIndex'[ip] \in {podIpIndex[ip], Absent} /\ podIndex'[k] = Absent
        BY <2>2, <2>3, <3>2, Cleared, AddressAssumption
      <4> QED
        BY <2>3, <4>1
    <3>3. CASE d.type = "tombstone"
      BY <2>3, <3>3 DEF vars
    <3> QED
      BY <2>2, <3>1, <3>2, <3>3 DEF DeltaType
  <2>7. ASSUME NEW ip \in PodIP, NEW j \in PodKey \ owners[ip], NEW i \in 1 .. Len(pending'[j])
        PROVE  ip \notin pending'[j][i].obj.podIPs
    BY <2>5
  <2> QED
    BY <2>1, <2>6, <2>7
<1>3. CASE podsQuiet
  BY <1>3 DEF podsQuiet
<1> QED
  BY <1>1, <1>2, <1>3, StepsOnPods

\* The only owner that an address has had gets to be known by it.
LEMMA FirstOwnerEnteredNext ==
  ASSUME WInv, OwnersOnly, FirstOwnerEntered, [WNext]_wvars
  PROVE  FirstOwnerEntered'
<1> USE DEF FirstOwnerEntered
<1>1. ASSUME NEW k \in PodKey, PodOperation(k) PROVE FirstOwnerEntered'
  <2>1. UNCHANGED podIpIndex /\ \A j \in PodKey \ {k} : pending'[j] = pending[j]
    BY <1>1, Operated DEF vars
  <2> SUFFICES ASSUME NEW ip \in PodIP, NEW j \in PodKey, holder'[ip] = j, owners'[ip] = {j}
               PROVE  \/ /\ podIpIndex[ip] = j
                         /\ \A i \in 1 .. Len(pending'[j]) : pending'[j][i].type # "delete"
                      \/ \E m \in 1 .. Len(pending'[j]) :
                           /\ enters(pending'[j][m], ip)
                           /\ \A i \in m + 1 .. Len(pending'[j]) : pending'[j][i].type # "delete"
    BY <2>1, Zenon DEF enters
  <2>2. holder[ip] \in PodKey => holder[ip] \in owners[ip]
    BY AbsentAssumption DEF OwnersOnly, WInv, HoldersShown
  <2>3. owners[ip] \subseteq {j} /\ j # Absent
    BY <1>1, OperatedAddresses, AbsentAssumption
  <2>4. CASE j # k
    <3>1. holder[ip] = j
      BY <1>1, <2>3, <2>4, OperatedAddresses
    <3>2. owners[ip] = {j}
      BY <2>2, <2>3, <3>1
    <3> QED
      BY <2>1, <2>4, <3>1, <3>2
  <2>5. CASE j = k
    <3> DEFINE n == Len(pending[k])
               last == pending'[k][n + 1]
    <3>1. /\ n \in Nat /\ Len(pending'[k]) = n + 1
          /\ \A i \in 1 .. n : pending'[k][i] = pending[k][i]
      BY <1>1, Operated
    <3>2. pods'[k] # Absent /\ (ip \in pods'[k].podIPs \/ holder[ip] = k)
      BY <1>1, <2>5, OperatedAddresses
    <3>3. last.type \in {"add", "update"} /\ last.obj = pods'[k]
      BY <1>1, <3>2, Operated
    <3> HIDE DEF n, last
    <3>4. pending'[k][n + 1] = last
      BY DEF last, n
    <3>5. CASE ip \in pods'[k].podIPs
      <4>1. n + 1 \in 1 .. Len(pending'[k]) /\ enters(pending'[k][n + 1], ip)
        BY <3>1, <3>3, <3>4, <3>5 DEF enters
      <4>2. \A i \in (n + 1) + 1 .. Len(pending'[k]) : FALSE
        BY <3>1
      <4> QED
        BY <2>5, <4>1, <4>2
    <3>6. CASE holder[ip] = k
      <4>1. owners[ip] = {k}
        BY <2>2, <2>3, <2>5, <3>6
      <4>2. \A i \in 1 .. Len(pending'[k]) : i \in 1 .. n \/ pending'[k][i] = last
        BY <3>1, <3>4
      <4>3. \A i \in 1 .. n : pending[k][i].type # "delete" => pending'[k][i].type # "delete"
        BY <3>1
      <4>4. CASE podIpIndex[ip] = k /\ \A i \in 1 .. n : pending[k][i].type # "delete"
        BY <2>5, <3>3, <4>2, <4>3, <4>4
      <4>5. CASE \E m \in 1 .. n : /\ enters(pending[k][m], ip)
                                   /\ \A i \in m + 1 .. n : pending[k][i].type # "delete"
        <5>1. PICK m \in 1 .. n : /\ enters(pending[k][m], ip)
                                  /\ \A i \in m + 1 .. n : pending[k][i].type # "delete"
          BY <4>5
        <5>2. m \in 1 .. Len(pending'[k]) /\ enters(pending'[k][m], ip)
          BY <3>1, <5>1
        <5>3. ASSUME NEW i \in m + 1 .. Len(pending'[k]) PROVE pending'[k][i].type # "delete"
          <6>1. (i \in m + 1 .. n /\ i \in 1 .. n) \/ i = n + 1
            BY <3>1
          <6> QED
            BY <3>3, <3>4, <4>3, <5>1, <6>1
        <5> QED
          BY <2>5, <5>2, <5>3
      <4> QED
        BY <3>6, <4>1, <4>4, <4>5 DEF n
    <3> QED
      BY <3>2, <3>5, <3>6
  <2> QED
    BY <2>4, <2>5
<1>2. ASSUME NEW k \in PodKey, handles(k) PROVE FirstOwnerEntered'
  <2>1. UNCHANGED <<owners, holder>>
    BY <1>2 DEF handles, cluster, histories
  <2> DEFINE d == pending[k][1]
  <2>2. /\ Len(pending[k]) \in Nat \ {0} /\ Len(pending'[k]) = Len(pending[k]) - 1
        /\ \A i \in 1 .. Len(pending'[k]) : pending'[k][i] = pending[k][i + 1]
        /\ \A j \in PodKey \ {k} : pending'[j] = pending[j]
        /\ d.obj \in ClusterPod(k) /\ d.type \in DeltaType /\ 1 \in 1 .. Len(pending[k])
    BY <1>2, Shortened
  <2>3. /\ d.type \in {"add", "update"} => handlePod(d.obj)
        /\ d.type = "delete" => onPodDelete(d.obj)
        /\ d.type = "tombstone" => UNCHANGED vars
    BY <1>2, HandlerOf
  <2>4. /\ \A ip \in PodIP : k \notin owners[ip] => ip \notin d.obj.podIPs
        /\ \A ip \in PodIP : k \notin owners[ip] /\ podIndex[k] # Absent => ip \notin podIndex[k].IPs
    BY <2>2 DEF OwnersOnly
  <2>5. pending[k][1] = d
    OBVIOUS
  <2> HIDE DEF d
  <2>6. ASSUME NEW ip \in PodIP, k \notin owners[ip] PROVE podIpIndex'[ip] = podIpIndex[ip]
    <3>1. CASE d.type \in {"add", "update"}
      <4>1. podIpIndex'[ip] = IF ip \in d.obj.podIPs THEN k ELSE podIpIndex[ip]
        <5>1. handlePod(d.obj) /\ d.obj \in ClusterPod(k)
          BY <2>2, <2>3, <3>1
        <5> QED
          BY <5>1, Entered
      <4> QED
        BY <2>4, <2>6, <4>1
    <3>2. CASE d.type = "delete"
      BY <2>2, <2>3, <2>4, <2>6, <3>2, Cleared
    <3>3. CASE d.type = "tombstone"
      BY <2>3, <3>3 DEF vars
    <3> QED
      BY <2>2, <3>1, <3>2, <3>3 DEF DeltaType
  <2>7. ASSUME NEW ip \in PodIP
        PROVE  /\ enters(d, ip) => podIpIndex'[ip] = k
               /\ d.type # "delete" /\ podIpIndex[ip] = k => podIpIndex'[ip] = k
    <3>1. CASE d.type \in {"add", "update"}
      <4>1. podIpIndex'[ip] = IF ip \in d.obj.podIPs THEN k ELSE podIpIndex[ip]
        <5>1. handlePod(d.obj) /\ d.obj \in ClusterPod(k)
          BY <2>2, <2>3, <3>1
        <5> QED
          BY <5>1, Entered
      <4> QED
        BY <3>1, <4>1 DEF enters
    <3>2. CASE d.type = "tombstone"
      BY <2>3, <3>2 DEF vars, enters
    <3> QED
      BY <2>2, <3>1, <3>2 DEF DeltaType, enters
  <2> SUFFICES ASSUME NEW ip \in PodIP, NEW j \in PodKey, holder[ip] = j, owners[ip] = {j}
               PROVE  \/ /\ podIpIndex'[ip] = j
                         /\ \A i \in 1 .. Len(pending'[j]) : pending'[j][i].type # "delete"
                      \/ \E m \in 1 .. Len(pending'[j]) :
                           /\ enters(pending'[j][m], ip)
                           /\ \A i \in m + 1 .. Len(pending'[j]) : pending'[j][i].type # "delete"
    BY <2>1, Zenon DEF enters
  <2>8. \/ /\ podIpIndex[ip] = j
           /\ \A i \in 1 .. Len(pending[j]) : pending[j][i].type # "delete"
        \/ \E m \in 1 .. Len(pending[j]) :
             /\ enters(pending[j][m], ip)
             /\ \A i \in m + 1 .. Len(pending[j]) : pending[j][i].type # "delete"
    BY Zenon
  <2>9. CASE j # k
    <3>1. pending'[j] = pending[j] /\ podIpIndex'[ip] = podIpIndex[ip]
      BY <2>2, <2>6, <2>9
    <3> DEFINE Kept(at, changes) ==
          \/ at = j /\ \A i \in 1 .. Len(changes) : changes[i].type # "delete"
          \/ \E m \in 1 .. Len(changes) :
               /\ enters(changes[m], ip)
               /\ \A i \in m + 1 .. Len(changes) : changes[i].type # "delete"
    <3>2. Kept(podIpIndex[ip], pending[j])
      BY <2>8, Zenon
    <3>3. Kept(podIpIndex'[ip], pending'[j])
      <4> HIDE DEF Kept
      <4> QED
        BY <3>2, <3>1
    <3> QED
      BY <3>3, Zenon
  <2>10. CASE j = k
    <3>1. CASE podIpIndex[ip] = k /\ \A i \in 1 .. Len(pending[k]) : pending[k][i].type # "delete"
      <4>1. podIpIndex'[ip] = k
        BY <2>2, <2>5, <2>7, <3>1
      <4>2. ASSUME NEW i \in 1 .. Len(pending'[k]) PROVE pending'[k][i].type # "delete"
        <5>1. i + 1 \in 1 .. Len(pending[k]) /\ pending'[k][i] = pending[k][i + 1]
          BY <2>2
        <5> QED
          BY <3>1, <5>1
      <4> QED
        BY <2>10, <4>1, <4>2
    <3>2. CASE \E m \in 1 .. Len(pending[k]) :
                 /\ enters(pending[k][m], ip)
                 /\ \A i \in m + 1 .. Len(pending[k]) : pending[k][i].type # "delete"
      <4>1. PICK m \in 1 .. Len(pending[k]) :
              /\ enters(pending[k][m], ip)
              /\ \A i \in m + 1 .. Len(pending[k]) : pending[k][i].type # "delete"
        BY <3>2
      <4>2. ASSUME NEW i \in 1 .. Len(pending'[k]), i >= m PROVE pending'[k][i].type # "delete"
        <5>1. i + 1 \in m + 1 .. Len(pending[k]) /\ pending'[k][i] = pending[k][i + 1]
          BY <2>2, <4>2
        <5> QED
          BY <4>1, <5>1
      <4>3. CASE m = 1
        <5>1. podIpIndex'[ip] = k
          BY <2>5, <2>7, <4>1, <4>3
        <5>2. \A i \in 1 .. Len(pending'[k]) : i >= m
          BY <4>3
        <5> QED
          BY <2>10, <4>2, <5>1, <5>2
      <4>4. CASE m # 1
        <5>1. /\ m - 1 \in 1 .. Len(pending'[k]) /\ pending'[k][m - 1] = pending[k][m]
              /\ \A i \in (m - 1) + 1 .. Len(pending'[k]) : i \in 1 .. Len(pending'[k]) /\ i >= m
          BY <2>2, <4>4
        <5> QED
          BY <2>10, <4>1, <4>2, <5>1
      <4> QED
        BY <4>3, <4>4
    <3> QED
      BY <2>10, <2>8, <3>1, <3>2, Zenon
  <2> QED
    BY <2>9, <2>10
<1>3. CASE podsQuiet
  <2>1. podIpIndex' = podIpIndex /\ pending' = pending /\ holder' = holder /\ owners' = owners
    BY <1>3 DEF podsQuiet
  <2> SUFFICES ASSUME NEW ip \in PodIP, NEW k \in PodKey, holder[ip] = k, owners[ip] = {k}
               PROVE  \/ /\ podIpIndex'[ip] = k
                         /\ \A i \in 1 .. Len(pending'[k]) : pending'[k][i].type # "delete"
                      \/ \E m \in 1 .. Len(pending'[k]) :
                           /\ enters(pending'[k][m], ip)
                           /\ \A i \in m + 1 .. Len(pending'[k]) : pending'[k][i].type # "delete"
    BY <2>1, Zenon DEF enters
  <2> DEFINE Kept(at, changes) ==
        \/ at = k /\ \A i \in 1 .. Len(changes) : changes[i].type # "delete"
        \/ \E m \in 1 .. Len(changes) :
             /\ enters(changes[m], ip)
             /\ \A i \in m + 1 .. Len(changes) : changes[i].type # "delete"
  <2>2. Kept(podIpIndex[ip], pending[k])
    BY Zenon
  <2>3. Kept(podIpIndex'[ip], pending'[k])
    <3> HIDE DEF Kept
    <3> QED
      BY <2>2, <2>1
  <2> QED
    BY <2>3, Zenon
<1> QED
  BY <1>1, <1>2, <1>3, StepsOnPods

\* Once the events are handled, the address of a running pod that no other pod
\* ever had resolves to the pod, whatever became of other pods, of the pod's
\* own restarts and earlier lives, and of deletions the watch missed.
THEOREM FirstOwnersResolve == WSpec => []FirstOwnerResolves
<1>1. WInit => OwnersOnly /\ FirstOwnerEntered
  <2> SUFFICES ASSUME WInit PROVE OwnersOnly /\ FirstOwnerEntered
    OBVIOUS
  <2>1. /\ \A k \in PodKey : pending[k] = <<>> /\ podIndex[k] = Absent /\ pods[k] = Absent
        /\ \A ip \in IP : podIpIndex[ip] = Absent
    BY NothingPendingFirst
  <2>2. /\ PodIP \subseteq IP
        /\ \A ip \in PodIP : holder[ip] = Absent /\ Absent \notin PodKey
    BY AddressAssumption, AbsentAssumption DEF WInit
  <2>3. \A k \in PodKey : \A i \in 1 .. Len(pending[k]) : FALSE
    BY <2>1
  <2>4. OwnersOnly
    BY <2>1, <2>2, <2>3, Zenon DEF OwnersOnly
  <2>5. FirstOwnerEntered
    BY <2>2 DEF FirstOwnerEntered
  <2> QED
    BY <2>4, <2>5
<1>2. WInv /\ OwnersOnly /\ FirstOwnerEntered /\ [WNext]_wvars => OwnersOnly' /\ FirstOwnerEntered'
  BY OwnersOnlyNext, FirstOwnerEnteredNext
<1>3. WInv /\ FirstOwnerEntered => FirstOwnerResolves
  <2> SUFFICES ASSUME WInv, FirstOwnerEntered, Quiescent, NEW ip \in PodIP,
                      owners[ip] = {holder[ip]}, holder[ip] # Absent
               PROVE  podIpIndex[ip] = holder[ip]
    BY DEF FirstOwnerResolves, ResolvesTo
  <2>1. holder[ip] \in PodKey
    BY DEF WInv, WTypeOK
  <2>2. \A m \in 1 .. Len(pending[holder[ip]]) : FALSE
    BY <2>1, Drained
  <2> QED
    BY <2>1, <2>2 DEF FirstOwnerEntered
<1> QED
  BY <1>1, <1>2, <1>3, WInvHolds, PTL DEF WSpec

-----------------------------------------------------------------------------
(***************************************************************************)
(* The addresses of nodes.                                                 *)
(***************************************************************************)

\* No pod gets to be known by a node's address.
LEMMA HostsAreNoPodsNext ==
  ASSUME WInv, HostsAreNoPods, [WNext]_wvars
  PROVE  HostsAreNoPods'
<1> USE DEF HostsAreNoPods
<1>1. ASSUME NEW k \in PodKey, PodOperation(k) PROVE HostsAreNoPods'
  BY <1>1, Operated DEF vars
<1>2. ASSUME NEW k \in PodKey, handles(k) PROVE HostsAreNoPods'
  <2> DEFINE d == pending[k][1]
  <2>1. /\ d.obj \in ClusterPod(k) /\ d.type \in DeltaType
        /\ d.type \in {"add", "update"} => handlePod(d.obj)
        /\ d.type = "delete" => onPodDelete(d.obj)
        /\ d.type = "tombstone" => UNCHANGED vars
    BY <1>2, Shortened, HandlerOf
  <2> HIDE DEF d
  <2>2. CASE d.type \in {"add", "update"}
    <3>1. handlePod(d.obj)
      BY <2>1, <2>2
    <3> QED
      BY <2>1, <3>1, Entered
  <2>3. CASE d.type = "delete"
    <3>1. onPodDelete(d.obj)
      BY <2>1, <2>3
    <3>2. \A ip \in IP : podIpIndex'[ip] \in {podIpIndex[ip], Absent}
      BY <2>1, <3>1, Cleared
    <3> QED
      BY <3>2
  <2>4. CASE d.type = "tombstone"
    BY <2>1, <2>4 DEF vars
  <2> QED
    BY <2>1, <2>2, <2>3, <2>4 DEF DeltaType
<1>3. CASE podsQuiet
  BY <1>3 DEF podsQuiet
<1> QED
  BY <1>1, <1>2, <1>3, StepsOnPods

\* A deletion is queued only for a node that is deleted.
LEMMA KeptNodesNext ==
  ASSUME WInv, KeptNodes, [WNext]_wvars
  PROVE  KeptNodes'
<1> USE DEF KeptNodes
<1>1. ASSUME NEW n \in Node, NodeOperation(n) PROVE KeptNodes'
  <2> SUFFICES ASSUME NEW m \in Node \ removed', NEW i \in 1 .. Len(nodeDeltas'[m])
               PROVE  nodeDeltas'[m][i].type \in {"add", "update"}
    OBVIOUS
  <2>1. m \notin removed
    BY <1>1, NodeOperated
  <2>2. CASE m # n
    BY <1>1, <2>1, <2>2, NodeOperated
  <2>3. CASE m = n
    <3>1. /\ Len(nodeDeltas[n]) \in Nat /\ Len(nodeDeltas'[n]) = Len(nodeDeltas[n]) + 1
          /\ \A x \in 1 .. Len(nodeDeltas[n]) : nodeDeltas'[n][x] = nodeDeltas[n][x]
          /\ nodeDeltas'[n][Len(nodeDeltas[n]) + 1].type \in {"add", "update"}
      BY <1>1, <2>3, NodeOperated
    <3>2. i \in 1 .. Len(nodeDeltas[n]) \/ i = Len(nodeDeltas[n]) + 1
      BY <2>3, <3>1
    <3> QED
      BY <2>1, <2>3, <3>1, <3>2
  <2> QED
    BY <2>2, <2>3
<1>2. ASSUME NEW n \in Node, watchNodes(n) PROVE KeptNodes'
  <2>1. UNCHANGED removed
    BY <1>2 DEF watchNodes, cluster, histories
  <2> SUFFICES ASSUME NEW m \in Node \ removed, NEW i \in 1 .. Len(nodeDeltas'[m])
               PROVE  nodeDeltas'[m][i].type \in {"add", "update"}
    BY <2>1
  <2>2. CASE m # n
    BY <1>2, <2>2, NodeShortened
  <2>3. CASE m = n
    <3>1. i + 1 \in 1 .. Len(nodeDeltas[n]) /\ nodeDeltas'[n][i] = nodeDeltas[n][i + 1]
      BY <1>2, <2>3, NodeShortened
    <3> QED
      BY <2>3, <3>1
  <2> QED
    BY <2>2, <2>3
<1>3. CASE nodesQuiet
  BY <1>3 DEF nodesQuiet
<1> QED
  BY <1>1, <1>2, <1>3, StepsOnNodes

\* A step that is none of a pod's, nor the handling of a node's change, leaves
\* nodeIpIndex alone.
LEMMA StepsOnHosts ==
  ASSUME WInv, [WNext]_wvars
  PROVE  \/ \E k \in PodKey : PodOperation(k) \/ handles(k)
         \/ \E n \in Node : watchNodes(n)
         \/ UNCHANGED <<pods, pending, nodeIpIndex>> /\ removed \subseteq removed'
<1>1. ASSUME NEW n \in Node, NodeOperation(n)
      PROVE  UNCHANGED <<pods, nodeIpIndex>> /\ removed \subseteq removed'
  BY <1>1, NodeOperated DEF vars
<1>2. CASE popPod
  BY <1>2, Popped DEF popPod, cluster, histories, vars
<1>3. CASE serve \/ UNCHANGED wvars
  <2>1. UNCHANGED indexes
    BY <1>3 DEF serve, handlePayload, rejectPayload, decodePayload, lockPayload, countEntry, unlockPayload,
                Collect, lockCollect, sendMetric, unlockCollect, wvars, vars, indexes
  <2>2. UNCHANGED <<cluster, watches>>
    BY <1>3 DEF serve, alone, wvars
  <2> QED
    BY <2>1, <2>2, StepsOnPods DEF podsQuiet, indexes, cluster, histories, watches, pending
<1>4. CASE watchPods
  BY <1>4, Handled DEF watchPods, handles
<1>5. podsQuiet => UNCHANGED pending
  BY DEF podsQuiet
<1>6. \/ \E k \in PodKey : PodOperation(k)
      \/ \E n \in Node : NodeOperation(n) \/ watchNodes(n)
      \/ popPod \/ watchPods \/ serve \/ UNCHANGED wvars
  BY DEF WNext, Cluster, PodOperation, NodeOperation
<1> QED
  BY <1>1, <1>2, <1>3, <1>4, <1>5, <1>6, StepsOnPods

\* A node with a hostNetwork pod gets to be known by its address and stays so.
LEMMA HostsEnteredNext ==
  ASSUME WInv, KeptNodes, HostsEntered, [WNext]_wvars
  PROVE  HostsEntered'
<1> USE DEF HostsEntered
<1>1. \A k \in PodKey : pods[k] # Absent => pods[k] \in ClusterPod(k) /\ pods[k].node \in Node
  BY PodOfCluster DEF WInv, WellQueued
<1>2. ASSUME NEW k \in PodKey, PodOperation(k) PROVE HostsEntered'
  <2>1. UNCHANGED <<nodeIpIndex, removed>>
    BY <1>2, Operated DEF vars
  <2> SUFFICES ASSUME NEW j \in PodKey, pods'[j] # Absent, onHost(j)', pods'[j].node \notin removed
               PROVE  \/ nodeIpIndex[NodeIP[pods'[j].node]] = pods'[j].node
                      \/ \E m \in 1 .. Len(pending'[j]) :
                           pending'[j][m].type \in {"add", "update"} /\ pending'[j][m].obj = pods'[j]
    BY <2>1
  <2>2. CASE j # k
    <3>1. pods'[j] = pods[j] /\ pending'[j] = pending[j]
      BY <1>2, <2>2, Operated
    <3> QED
      BY <3>1 DEF onHost
  <2>3. CASE j = k
    <3>1. /\ Len(pending[k]) \in Nat /\ Len(pending'[k]) = Len(pending[k]) + 1
          /\ pending'[k][Len(pending[k]) + 1].type \in {"add", "update"}
          /\ pending'[k][Len(pending[k]) + 1].obj = pods'[k]
      BY <1>2, <2>3, Operated
    <3>2. Len(pending[k]) + 1 \in 1 .. Len(pending'[k])
      BY <3>1
    <3> QED
      BY <2>3, <3>1, <3>2
  <2> QED
    BY <2>2, <2>3
<1>3. ASSUME NEW k \in PodKey, handles(k) PROVE HostsEntered'
  <2>1. UNCHANGED <<pods, removed>>
    BY <1>3 DEF handles, cluster, histories
  <2> DEFINE d == pending[k][1]
  <2>2. /\ Len(pending[k]) \in Nat \ {0} /\ Len(pending'[k]) = Len(pending[k]) - 1
        /\ \A i \in 1 .. Len(pending'[k]) : pending'[k][i] = pending[k][i + 1]
        /\ \A j \in PodKey \ {k} : pending'[j] = pending[j]
    BY <1>3, Shortened
  <2>3. /\ d.obj \in ClusterPod(k) /\ d.type \in DeltaType
        /\ d.type \in {"add", "update"} => handlePod(d.obj)
        /\ d.type = "delete" => onPodDelete(d.obj)
        /\ d.type = "tombstone" => UNCHANGED vars
    BY <1>3, Shortened, HandlerOf
  <2>4. pending[k][1] = d
    OBVIOUS
  <2> HIDE DEF d
  <2>5. d.obj.node \in Node
    BY <2>3, PodOfCluster
  <2>6. d.type \in {"add", "update"} =>
          \A ip \in IP : nodeIpIndex'[ip] = IF ip \in d.obj.podIPs /\ ip = NodeIP[d.obj.node]
                                            THEN d.obj.node ELSE nodeIpIndex[ip]
    <3> SUFFICES ASSUME handlePod(d.obj)
                 PROVE  \A ip \in IP : nodeIpIndex'[ip] = IF ip \in d.obj.podIPs /\ ip = NodeIP[d.obj.node]
                                                          THEN d.obj.node ELSE nodeIpIndex[ip]
      BY <2>3
    <3> QED
      BY <2>3, Entered
  <2>7. d.type \notin {"add", "update"} => nodeIpIndex' = nodeIpIndex
    <3>1. CASE d.type = "delete"
      <4>1. onPodDelete(d.obj)
        BY <2>3, <3>1
      <4> QED
        BY <2>3, <4>1, Cleared
    <3>2. CASE d.type = "tombstone"
      BY <2>3, <3>2 DEF vars
    <3> QED
      BY <2>3, <3>1, <3>2 DEF DeltaType
  <2>8. ASSUME NEW n \in Node, nodeIpIndex[NodeIP[n]] = n PROVE nodeIpIndex'[NodeIP[n]] = n
    <3>1. NodeIP[n] \in IP /\ (NodeIP[n] = NodeIP[d.obj.node] => n = d.obj.node)
      BY <2>5, AddressAssumption
    <3> QED
      BY <2>6, <2>7, <2>8, <3>1
  <2> SUFFICES ASSUME NEW j \in PodKey, pods[j] # Absent, onHost(j), pods[j].node \notin removed
               PROVE  \/ nodeIpIndex'[NodeIP[pods[j].node]] = pods[j].node
                      \/ \E m \in 1 .. Len(pending'[j]) :
                           pending'[j][m].type \in {"add", "update"} /\ pending'[j][m].obj = pods[j]
    BY <2>1 DEF onHost
  <2>9. CASE nodeIpIndex[NodeIP[pods[j].node]] = pods[j].node
    BY <1>1, <2>8, <2>9
  <2>10. CASE \E m \in 1 .. Len(pending[j]) :
                pending[j][m].type \in {"add", "update"} /\ pending[j][m].obj = pods[j]
    <3>1. PICK m \in 1 .. Len(pending[j]) :
            pending[j][m].type \in {"add", "update"} /\ pending[j][m].obj = pods[j]
      BY <2>10
    <3>2. CASE j # k
      BY <2>2, <3>1, <3>2
    <3>3. CASE j = k /\ m = 1
      <4>1. d.obj = pods[k] /\ d.type \in {"add", "update"}
        BY <2>4, <3>1, <3>3
      <4>2. NodeIP[pods[k].node] \in pods[k].podIPs /\ NodeIP[pods[k].node] \in IP
        BY <1>1, <3>3, AddressAssumption DEF onHost
      <4> QED
        BY <2>6, <3>3, <4>1, <4>2
    <3>4. CASE j = k /\ m # 1
      <4>1. m - 1 \in 1 .. Len(pending'[k]) /\ pending'[k][m - 1] = pending[k][m]
        BY <2>2, <3>1, <3>4
      <4> QED
        BY <3>1, <3>4, <4>1
    <3> QED
      BY <3>2, <3>3, <3>4
  <2> QED
    BY <2>9, <2>10
<1>4. ASSUME NEW n \in Node, watchNodes(n) PROVE HostsEntered'
  <2> DEFINE d == nodeDeltas[n][1]
  <2>1. /\ applyNode(d) /\ d.type \in DeltaType /\ d.obj.name = n
        /\ Len(nodeDeltas[n]) \in Nat \ {0}
    BY <1>4, NodeShortened
  <2>2. UNCHANGED <<pods, removed, pending>>
    BY <1>4 DEF watchNodes, cluster, histories, pending
  <2>3. n \notin removed => d.type \in {"add", "update"}
    <3>1. 1 \in 1 .. Len(nodeDeltas[n])
      BY <2>1
    <3> QED
      BY <3>1 DEF KeptNodes
  <2> HIDE DEF d
  <2>4. ASSUME NEW m \in Node \ removed, nodeIpIndex[NodeIP[m]] = m PROVE nodeIpIndex'[NodeIP[m]] = m
    <3>1. NodeIP[m] \in IP
      BY AddressAssumption
    <3>2. CASE d.type = "delete"
      <4>1. m # n
        BY <2>3, <2>4, <3>2
      <4> QED
        BY <2>1, <2>4, <3>1, <3>2, <4>1 DEF applyNode, onNodeDelete
    <3>3. CASE d.type # "delete"
      BY <2>1, <2>4, <3>3 DEF applyNode, onNodeAdd, onNodeUpdate, vars
    <3> QED
      BY <3>2, <3>3
  <2> SUFFICES ASSUME NEW j \in PodKey, pods[j] # Absent, onHost(j), pods[j].node \notin removed
               PROVE  \/ nodeIpIndex'[NodeIP[pods[j].node]] = pods[j].node
                      \/ \E m \in 1 .. Len(pending[j]) :
                           pending[j][m].type \in {"add", "update"} /\ pending[j][m].obj = pods[j]
    BY <2>2 DEF onHost
  <2> QED
    BY <1>1, <2>4
<1>5. CASE UNCHANGED <<pods, pending, nodeIpIndex>> /\ removed \subseteq removed'
  BY <1>5 DEF onHost
<1> QED
  BY <1>2, <1>3, <1>4, <1>5, StepsOnHosts

\* Once the events are handled, the address of a node with a hostNetwork pod
\* resolves to the node and to no pod, whichever of the node's pods are deleted,
\* unless the node itself was deleted.
THEOREM HostsResolve == WSpec => []HostIPsResolve
<1> DEFINE HInv == HostsAreNoPods /\ KeptNodes /\ HostsEntered
<1>1. WInit => HInv
  <2> SUFFICES ASSUME WInit PROVE HInv
    OBVIOUS
  <2>1. HostsAreNoPods /\ HostsEntered
    BY NothingPendingFirst DEF HostsAreNoPods, HostsEntered
  <2>2. KeptNodes
    BY NothingPendingFirst DEF KeptNodes
  <2> QED
    BY <2>1, <2>2
<1>2. WInv /\ HInv /\ [WNext]_wvars => HInv'
  BY HostsAreNoPodsNext, KeptNodesNext, HostsEnteredNext
<1>3. WInv /\ HInv => HostIPsResolve
  <2> SUFFICES ASSUME WInv, HInv, Quiescent, NEW k \in PodKey,
                      pods[k] # Absent, onHost(k), pods[k].node \notin removed
               PROVE  podIpIndex[pods[k].hostIP] = Absent /\ nodeIpIndex[pods[k].hostIP] = pods[k].node
    BY DEF HostIPsResolve
  <2>1. pods[k] \in ClusterPod(k)
    BY DEF WInv, WellQueued
  <2>2. pods[k].node \in Node /\ pods[k].hostIP = NodeIP[pods[k].node]
    BY <2>1 DEF ClusterPod
  <2>3. pods[k].hostIP \in IP \ PodIP
    BY <2>2, AddressAssumption
  <2>4. \A m \in 1 .. Len(pending[k]) : FALSE
    BY Drained
  <2> QED
    BY <2>2, <2>3, <2>4 DEF HostsAreNoPods, HostsEntered
<1> QED
  BY <1>1, <1>2, <1>3, WInvHolds, PTL DEF WSpec
==============================================================================
