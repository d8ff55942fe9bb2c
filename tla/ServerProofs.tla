---------------------------- MODULE ServerProofs ----------------------------
(***************************************************************************)
(* What holds of the server for every set of pods, nodes, addresses,       *)
(* requests and scrapes, and any number of events and payload entries.     *)
(***************************************************************************)
EXTENDS Server, TLAPS

USE IPAssumption, InputAssumption, Uint64Assumption

-----------------------------------------------------------------------------
(***************************************************************************)
(* Resolving an address.                                                   *)
(***************************************************************************)

\* An address that resolves has the key of a known pod, or a node's key.
LEMMA ResolvedSeries ==
  ASSUME TypeOK, NEW ip \in IP, resolves(ip)
  PROVE  /\ series(ip) \in SeriesKey
         /\ series(ip) \in PodKey => podIndex[series(ip)] # Absent
<1>1. nodeOf(ip) # Absent
  BY DEF resolves, zone
<1>2. CASE isPod(ip)
  <2>1. podIpIndex[ip] \in PodKey /\ series(ip) = podIpIndex[ip]
    BY <1>2 DEF TypeOK, isPod, series
  <2>2. podIndex[podIpIndex[ip]] # Absent
    BY <1>1, <1>2 DEF nodeOf
  <2> QED
    BY <2>1, <2>2 DEF SeriesKey
<1>3. CASE ~isPod(ip)
  <2>1. nodeOf(ip) \in NodeName /\ series(ip) = NodeKey(nodeOf(ip))
    BY <1>1, <1>3 DEF TypeOK, nodeOf, series
  <2>2. NodeKey(nodeOf(ip)) \notin PodKey
    BY NamespaceAssumption DEF NodeKey, PodKey
  <2> QED
    BY <2>1, <2>2 DEF SeriesKey
<1> QED
  BY <1>2, <1>3

\* Adding to a counter stays within its width.
LEMMA AddedInRange ==
  ASSUME TypeOK, NEW k \in SeriesKey, NEW n \in 0 .. Uint64 - 1
  PROVE  added(k, n) \in 0 .. Uint64 - 1
<1>1. (IF statistics[k] = Absent THEN 0 ELSE statistics[k]) \in Nat
  BY DEF TypeOK, Statistics
<1>2. \A m \in Nat : (m + n) % Uint64 \in 0 .. Uint64 - 1
  OBVIOUS
<1> QED
  BY <1>1, <1>2 DEF added

-----------------------------------------------------------------------------
(***************************************************************************)
(* Type correctness.                                                       *)
(***************************************************************************)

\* A pod event leaves every map well typed.
LEMMA PodEventTyped ==
  ASSUME TypeOK, PodEvent
  PROVE  TypeOK'
<1>1. PICK pod \in PodObject : onPodAdd(pod) \/ onPodUpdate(pod) \/ onPodDelete(pod)
  BY DEF PodEvent
<1>2. pod.key \in PodKey /\ pod.node \in NodeName /\ ips(pod) \in SUBSET IP
  BY DEF ips
<1>3. pod.key \in SeriesKey
  BY <1>2 DEF SeriesKey
<1>4. CASE handlePod(pod)
  <2>1. [Node |-> pod.node, IPs |-> ips(pod)] \in PodInfo
    BY <1>2 DEF PodInfo
  <2> QED
    BY <1>2, <1>4, <2>1 DEF TypeOK, handlePod
<1>5. CASE onPodDelete(pod)
  BY <1>2, <1>3, <1>5 DEF TypeOK, onPodDelete, Statistics
<1> QED
  BY <1>1, <1>4, <1>5 DEF onPodAdd, onPodUpdate

\* So does a node event: a node without a label is in the zone "unknown".
LEMMA NodeEventTyped ==
  ASSUME TypeOK, NodeEvent
  PROVE  TypeOK'
<1>1. PICK node \in NodeObject : onNodeAdd(node) \/ onNodeUpdate(node) \/ onNodeDelete(node)
  BY DEF NodeEvent
<1>2. node.name \in NodeName /\ zoneOf(node) \in ZoneName
  BY DEF NodeName, ZoneName, zoneOf
<1>3. CASE onNodeAdd(node) \/ onNodeUpdate(node)
  BY <1>2, <1>3 DEF TypeOK, onNodeAdd, onNodeUpdate
<1>4. CASE onNodeDelete(node)
  BY <1>2, <1>4 DEF TypeOK, onNodeDelete
<1> QED
  BY <1>1, <1>3, <1>4

\* What is logged of a uint64 is an int.
LEMMA FitsAnInt ==
  ASSUME NEW x \in 0 .. Uint64 - 1
  PROVE  int(x) \in Int64
  BY Uint64Assumption DEF int, Int64

\* So does every step of handlePayload.
LEMMA PayloadTyped ==
  ASSUME TypeOK, NEW r \in Request, handlePayload(r)
  PROVE  TypeOK'
<1>1. request \in [Request -> RequestState] /\ request[r] \in RequestState
  BY DEF TypeOK
<1>2. CASE rejectPayload(r)
  <2>1. PICK code \in Refusal \cup {"panic"} :
          request' = [request EXCEPT ![r].pc = "done", ![r].status = code]
    BY <1>2 DEF rejectPayload
  <2>2. request' \in [Request -> RequestState]
    BY <1>1, <2>1 DEF RequestState, Refusal
  <2> QED
    BY <1>2, <2>2 DEF TypeOK, rejectPayload, indexes
<1>3. CASE decodePayload(r)
  <2>1. PICK data \in Payload :
          request' = [request EXCEPT ![r].pc = "decoded", ![r].data = data]
    BY <1>3 DEF decodePayload
  <2>2. request' \in [Request -> RequestState]
    BY <1>1, <2>1 DEF RequestState
  <2> QED
    BY <1>3, <2>2 DEF TypeOK, decodePayload, indexes
<1>4. CASE lockPayload(r)
  <2>1. request' \in [Request -> RequestState]
    BY <1>1, <1>4 DEF lockPayload, RequestState
  <2> QED
    BY <1>4, <2>1 DEF TypeOK, lockPayload, indexes
<1>5. CASE countEntry(r)
  <2> DEFINE entry == Head(request[r].data)
             src   == series(entry.SrcIP)
             log   == [src |-> src, dst |-> series(entry.DstIP), bytes |-> int(entry.Traffic)]
  <2>1. entry \in Entry /\ Tail(request[r].data) \in Seq(Entry)
    BY <1>1, <1>5 DEF countEntry, RequestState
  <2>2. entry.SrcIP \in IP /\ entry.DstIP \in IP /\ entry.Traffic \in 0 .. Uint64 - 1
    BY <2>1 DEF Entry
  <2>3. CASE crossZone(entry)
    <3>1. resolves(entry.SrcIP) /\ resolves(entry.DstIP)
      BY <2>3 DEF crossZone
    <3>2. src \in SeriesKey /\ series(entry.DstIP) \in SeriesKey
      BY <2>2, <3>1, ResolvedSeries
    <3>3. added(src, entry.Traffic) \in 0 .. Uint64 - 1
      BY <2>2, <3>2, AddedInRange
    <3>4. /\ statistics' = [statistics EXCEPT ![src] = added(src, entry.Traffic)]
          /\ request' = [request EXCEPT ![r].data = Tail(@), ![r].flowLogs = Append(@, log)]
      BY <1>5, <2>3 DEF countEntry
    <3>5. log \in FlowLog
      BY <2>2, <3>2, FitsAnInt DEF FlowLog
    <3>6. Append(request[r].flowLogs, log) \in Seq(FlowLog)
      BY <1>1, <3>5 DEF RequestState
    <3>7. request' \in [Request -> RequestState]
      BY <1>1, <2>1, <3>4, <3>6 DEF RequestState
    <3>8. statistics' \in Statistics
      BY <3>3, <3>4 DEF TypeOK, Statistics
    <3> QED
      BY <1>5, <3>7, <3>8 DEF TypeOK, countEntry, indexes
  <2>4. CASE ~crossZone(entry)
    <3>1. request' = [request EXCEPT ![r].data = Tail(@)] /\ UNCHANGED statistics
      BY <1>5, <2>4 DEF countEntry
    <3>2. request' \in [Request -> RequestState]
      BY <1>1, <2>1, <3>1 DEF RequestState
    <3> QED
      BY <1>5, <3>1, <3>2 DEF TypeOK, countEntry, indexes
  <2> QED
    BY <2>3, <2>4
<1>6. CASE unlockPayload(r)
  <2>1. request' \in [Request -> RequestState]
    BY <1>1, <1>6 DEF unlockPayload, RequestState
  <2> QED
    BY <1>6, <2>1 DEF TypeOK, unlockPayload, indexes
<1> QED
  BY <1>2, <1>3, <1>4, <1>5, <1>6 DEF handlePayload

\* So does every step of Collect.
LEMMA CollectTyped ==
  ASSUME TypeOK, NEW s \in Scrape, Collect(s)
  PROVE  TypeOK'
<1>1. metrics \in [Scrape -> ScrapeState] /\ metrics[s] \in ScrapeState
  BY DEF TypeOK
<1>2. CASE lockCollect(s)
  <2>1. metrics' \in [Scrape -> ScrapeState]
    BY <1>1, <1>2 DEF lockCollect, ScrapeState
  <2> QED
    BY <1>2, <2>1 DEF TypeOK, lockCollect, indexes
<1>3. CASE sendMetric(s)
  <2>1. PICK k \in SeriesKey : metrics' = [metrics EXCEPT ![s].sent[k] = statistics[k]]
    BY <1>3 DEF sendMetric
  <2>2. [metrics[s].sent EXCEPT ![k] = statistics[k]] \in Statistics
    BY <1>1 DEF TypeOK, ScrapeState, Statistics
  <2>3. metrics' \in [Scrape -> ScrapeState]
    BY <1>1, <2>1, <2>2 DEF ScrapeState
  <2> QED
    BY <1>3, <2>3 DEF TypeOK, sendMetric, indexes
<1>4. CASE unlockCollect(s)
  <2>1. metrics' \in [Scrape -> ScrapeState]
    BY <1>1, <1>4 DEF unlockCollect, ScrapeState
  <2> QED
    BY <1>4, <2>1 DEF TypeOK, unlockCollect, indexes
<1> QED
  BY <1>2, <1>3, <1>4 DEF Collect

\* The maps of the server and the goroutines' local state are well typed in
\* every reachable state: no lookup of handlePayload or Collect leaves its map.
THEOREM Typed == Spec => []TypeOK
<1>1. Init => TypeOK
  <2> SUFFICES ASSUME Init PROVE TypeOK
    OBVIOUS
  <2>1. request \in [Request -> RequestState]
    BY DEF Init, RequestState
  <2>2. metrics \in [Scrape -> ScrapeState]
    BY DEF Init, ScrapeState, Statistics
  <2> QED
    BY <2>1, <2>2 DEF Init, TypeOK, Statistics
<1>2. TypeOK /\ [Next]_vars => TypeOK'
  <2> SUFFICES ASSUME TypeOK, [Next]_vars PROVE TypeOK'
    OBVIOUS
  <2>1. CASE PodEvent
    BY <2>1, PodEventTyped
  <2>2. CASE NodeEvent
    BY <2>2, NodeEventTyped
  <2>3. CASE \E r \in Request : handlePayload(r)
    BY <2>3, PayloadTyped
  <2>4. CASE \E s \in Scrape : Collect(s)
    BY <2>4, CollectTyped
  <2>5. CASE UNCHANGED vars
    BY <2>5 DEF TypeOK, vars
  <2> QED
    BY <2>1, <2>2, <2>3, <2>4, <2>5 DEF Next
<1> QED
  BY <1>1, <1>2, PTL DEF Spec

-----------------------------------------------------------------------------
(***************************************************************************)
(* Mutual exclusion.                                                       *)
(***************************************************************************)

\* The mutex is held by exactly the goroutine that is between Lock and Unlock,
\* so at most one payload or scrape is there at a time.
THEOREM Exclusive == Spec => []MutexHeld
<1> USE ThreadAssumption
<1>1. Init => MutexHeld
  BY DEF Init, MutexHeld
<1>2. TypeOK /\ MutexHeld /\ [Next]_vars => MutexHeld'
  <2> SUFFICES ASSUME TypeOK, MutexHeld, [Next]_vars PROVE MutexHeld'
    OBVIOUS
  <2> USE DEF MutexHeld
  <2>1. CASE PodEvent
    BY <2>1 DEF PodEvent, onPodAdd, onPodUpdate, onPodDelete, handlePod
  <2>2. CASE NodeEvent
    BY <2>2 DEF NodeEvent, onNodeAdd, onNodeUpdate, onNodeDelete
  <2>3. ASSUME NEW r \in Request, handlePayload(r) PROVE MutexHeld'
    <3> USE DEF TypeOK, RequestState
    <3>1. CASE rejectPayload(r)
      BY <3>1 DEF rejectPayload
    <3>2. CASE decodePayload(r)
      BY <3>2 DEF decodePayload
    <3>3. CASE lockPayload(r)
      BY <3>3 DEF lockPayload
    <3>4. CASE countEntry(r)
      BY <3>4 DEF countEntry
    <3>5. CASE unlockPayload(r)
      BY <3>5 DEF unlockPayload
    <3> QED
      BY <2>3, <3>1, <3>2, <3>3, <3>4, <3>5 DEF handlePayload
  <2>4. ASSUME NEW s \in Scrape, Collect(s) PROVE MutexHeld'
    <3> USE DEF TypeOK, ScrapeState
    <3>1. CASE lockCollect(s)
      BY <3>1 DEF lockCollect
    <3>2. CASE sendMetric(s)
      BY <3>2 DEF sendMetric
    <3>3. CASE unlockCollect(s)
      BY <3>3 DEF unlockCollect
    <3> QED
      BY <2>4, <3>1, <3>2, <3>3 DEF Collect
  <2>5. CASE UNCHANGED vars
    BY <2>5 DEF vars
  <2> QED
    BY <2>1, <2>2, <2>3, <2>4, <2>5 DEF Next
<1> QED
  BY <1>1, <1>2, Typed, PTL DEF Spec

\* No event touches the indexes between Lock and Unlock of handlePayload: every
\* entry of a payload is resolved against the same pods, nodes and zones.
THEOREM OneIndexPerPayload == Spec => PayloadSeesOneIndex
<1>1. MutexHeld /\ [Next]_vars
        => [\A r \in Request : request[r].pc = "locked" => UNCHANGED indexes]_vars
  <2> SUFFICES ASSUME MutexHeld, Next, NEW r \in Request, request[r].pc = "locked"
               PROVE  UNCHANGED indexes
    OBVIOUS
  <2>1. mutex # NoOne
    BY ThreadAssumption DEF MutexHeld
  <2>2. ~PodEvent
    BY <2>1 DEF PodEvent, onPodAdd, onPodUpdate, onPodDelete, handlePod
  <2>3. ~NodeEvent
    BY <2>1 DEF NodeEvent, onNodeAdd, onNodeUpdate, onNodeDelete
  <2>4. CASE \E p \in Request : handlePayload(p)
    BY <2>4 DEF handlePayload, rejectPayload, decodePayload, lockPayload, countEntry, unlockPayload
  <2>5. CASE \E s \in Scrape : Collect(s)
    BY <2>5 DEF Collect, lockCollect, sendMetric, unlockCollect
  <2> QED
    BY <2>2, <2>3, <2>4, <2>5 DEF Next
<1> QED
  BY <1>1, Exclusive, PTL DEF Spec, PayloadSeesOneIndex

-----------------------------------------------------------------------------
(***************************************************************************)
(* Deleted pods.                                                           *)
(***************************************************************************)

\* Once a pod is deleted its series is gone, and no payload brings it back
\* before the pod is known again, in whatever order events and payloads come.
THEOREM DeletedPodsStayGone == Spec => []NoSeriesForDeletedPod
<1> USE DEF NoSeriesForDeletedPod
<1>1. Init => NoSeriesForDeletedPod
  BY DEF Init, SeriesKey
<1>2. TypeOK /\ NoSeriesForDeletedPod /\ [Next]_vars => NoSeriesForDeletedPod'
  <2> SUFFICES ASSUME TypeOK, NoSeriesForDeletedPod, [Next]_vars PROVE NoSeriesForDeletedPod'
    OBVIOUS
  <2>1. CASE PodEvent
    <3>1. PICK pod \in PodObject : onPodAdd(pod) \/ onPodUpdate(pod) \/ onPodDelete(pod)
      BY <2>1 DEF PodEvent
    <3>2. pod.key \in PodKey /\ pod.key \in SeriesKey /\ pod.node \in NodeName /\ ips(pod) \in SUBSET IP
      BY DEF ips, SeriesKey
    <3>3. CASE handlePod(pod)
      <4>1. [Node |-> pod.node, IPs |-> ips(pod)] # Absent
        BY <3>2, AbsentAssumption DEF PodInfo
      <4> QED
        BY <3>2, <3>3, <4>1 DEF handlePod, TypeOK
    <3>4. CASE onPodDelete(pod)
      BY <3>2, <3>4 DEF onPodDelete, TypeOK, Statistics, SeriesKey
    <3> QED
      BY <3>1, <3>3, <3>4 DEF onPodAdd, onPodUpdate
  <2>2. CASE NodeEvent
    BY <2>2 DEF NodeEvent, onNodeAdd, onNodeUpdate, onNodeDelete
  <2>3. ASSUME NEW r \in Request, handlePayload(r) PROVE NoSeriesForDeletedPod'
    <3>1. CASE countEntry(r)
      <4> DEFINE entry == Head(request[r].data)
                 src   == series(entry.SrcIP)
      <4>1. CASE crossZone(entry)
        <5>1. entry \in Entry
          BY <3>1 DEF countEntry, TypeOK, RequestState
        <5>2. src \in SeriesKey /\ (src \in PodKey => podIndex[src] # Absent)
          BY <4>1, <5>1, ResolvedSeries DEF crossZone, Entry
        <5>3. statistics' = [statistics EXCEPT ![src] = added(src, entry.Traffic)] /\ UNCHANGED podIndex
          BY <3>1, <4>1 DEF countEntry, indexes
        <5> QED
          BY <5>2, <5>3 DEF TypeOK, Statistics, SeriesKey
      <4>2. CASE ~crossZone(entry)
        BY <3>1, <4>2 DEF countEntry, indexes
      <4> QED
        BY <4>1, <4>2
    <3>2. CASE rejectPayload(r) \/ decodePayload(r) \/ lockPayload(r) \/ unlockPayload(r)
      BY <3>2 DEF rejectPayload, decodePayload, lockPayload, unlockPayload, indexes
    <3> QED
      BY <2>3, <3>1, <3>2 DEF handlePayload
  <2>4. CASE \E s \in Scrape : Collect(s)
    BY <2>4 DEF Collect, lockCollect, sendMetric, unlockCollect, indexes
  <2>5. CASE UNCHANGED vars
    BY <2>5 DEF vars
  <2> QED
    BY <2>1, <2>2, <2>3, <2>4, <2>5 DEF Next
<1> QED
  BY <1>1, <1>2, Typed, PTL DEF Spec

-----------------------------------------------------------------------------
(***************************************************************************)
(* Scrapes.                                                                *)
(***************************************************************************)

\* What a scrape under way has sent is what `statistics' still holds.
SentIsCurrent ==
  \A s \in Scrape :
    /\ metrics[s].pc = "idle" => \A k \in SeriesKey : metrics[s].sent[k] = Absent
    /\ metrics[s].pc = "sending" =>
         \A k \in SeriesKey : metrics[s].sent[k] # Absent => metrics[s].sent[k] = statistics[k]

\* A step of another goroutine leaves `statistics' alone while a scrape holds
\* the mutex.
LEMMA StatisticsHeld ==
  ASSUME MutexHeld, NEW s \in Scrape, metrics[s].pc = "sending",
         PodEvent \/ NodeEvent \/ \E r \in Request : handlePayload(r)
  PROVE  UNCHANGED <<statistics, metrics>>
<1>1. mutex = s /\ mutex # NoOne /\ mutex \notin Request
  BY ThreadAssumption DEF MutexHeld
<1>2. ~PodEvent
  BY <1>1 DEF PodEvent, onPodAdd, onPodUpdate, onPodDelete, handlePod
<1>3. ~NodeEvent
  BY <1>1 DEF NodeEvent, onNodeAdd, onNodeUpdate, onNodeDelete
<1>4. ASSUME NEW r \in Request, handlePayload(r) PROVE UNCHANGED <<statistics, metrics>>
  <2>1. ~countEntry(r)
    BY <1>1 DEF MutexHeld, countEntry
  <2> QED
    BY <1>4, <2>1 DEF handlePayload, rejectPayload, decodePayload, lockPayload, unlockPayload
<1> QED
  BY <1>2, <1>3, <1>4

\* The invariant that makes a scrape a snapshot.
LEMMA SentStaysCurrent == Spec => []SentIsCurrent
<1> USE DEF SentIsCurrent
<1>1. Init => SentIsCurrent
  BY DEF Init
<1>2. TypeOK /\ MutexHeld /\ SentIsCurrent /\ [Next]_vars => SentIsCurrent'
  <2> SUFFICES ASSUME TypeOK, MutexHeld, SentIsCurrent, [Next]_vars PROVE SentIsCurrent'
    OBVIOUS
  <2>1. CASE PodEvent \/ NodeEvent \/ \E r \in Request : handlePayload(r)
    <3>1. UNCHANGED metrics
      BY <2>1 DEF PodEvent, onPodAdd, onPodUpdate, onPodDelete, handlePod,
                  NodeEvent, onNodeAdd, onNodeUpdate, onNodeDelete,
                  handlePayload, rejectPayload, decodePayload, lockPayload, countEntry, unlockPayload
    <3>2. \A s \in Scrape : metrics[s].pc = "sending" => UNCHANGED statistics
      BY <2>1, StatisticsHeld
    <3> QED
      BY <3>1, <3>2
  <2>2. ASSUME NEW p \in Scrape, Collect(p) PROVE SentIsCurrent'
    <3> USE DEF TypeOK, ScrapeState
    <3>1. CASE lockCollect(p)
      BY <3>1 DEF lockCollect
    <3>2. CASE sendMetric(p)
      <4>1. PICK k \in SeriesKey : metrics' = [metrics EXCEPT ![p].sent[k] = statistics[k]]
        BY <3>2 DEF sendMetric
      <4>2. UNCHANGED statistics /\ metrics[p].pc = "sending"
        BY <3>2 DEF sendMetric
      <4>3. /\ metrics'[p].pc = "sending"
            /\ metrics'[p].sent = [metrics[p].sent EXCEPT ![k] = statistics[k]]
            /\ \A s \in Scrape \ {p} : metrics'[s] = metrics[s]
        BY <4>1, <4>2
      <4>4. metrics[p].sent \in Statistics
        OBVIOUS
      <4>5. \A j \in SeriesKey : metrics[p].sent[j] # Absent => metrics[p].sent[j] = statistics[j]
        BY <4>2
      <4>6. \A j \in SeriesKey : metrics'[p].sent[j] # Absent => metrics'[p].sent[j] = statistics[j]
        BY <4>3, <4>4, <4>5 DEF Statistics
      <4>7. ASSUME NEW s \in Scrape \ {p}
            PROVE  /\ metrics'[s].pc = "idle" => \A j \in SeriesKey : metrics'[s].sent[j] = Absent
                   /\ metrics'[s].pc = "sending" =>
                        \A j \in SeriesKey : metrics'[s].sent[j] # Absent
                                             => metrics'[s].sent[j] = statistics'[j]
        BY <4>2, <4>3
      <4> QED
        BY <4>2, <4>3, <4>6, <4>7, Zenon
    <3>3. CASE unlockCollect(p)
      BY <3>3 DEF unlockCollect
    <3> QED
      BY <2>2, <3>1, <3>2, <3>3 DEF Collect
  <2>3. CASE UNCHANGED vars
    BY <2>3 DEF vars
  <2> QED
    BY <2>1, <2>2, <2>3 DEF Next
<1> QED
  BY <1>1, <1>2, Typed, Exclusive, PTL DEF Spec

\* A scrape hands Prometheus one consistent state of all counters: what it sent
\* is all of `statistics' at the moment it releases the mutex.
THEOREM ScrapesAreSnapshots == Spec => ScrapeIsSnapshot
<1>1. TypeOK /\ MutexHeld /\ SentIsCurrent /\ [Next]_vars
        => [\A s \in Scrape : metrics[s].pc = "sending" /\ metrics'[s].pc = "done"
                                => metrics'[s].sent = statistics]_vars
  <2> SUFFICES ASSUME TypeOK, MutexHeld, SentIsCurrent, Next, NEW s \in Scrape,
                      metrics[s].pc = "sending", metrics'[s].pc = "done"
               PROVE  metrics'[s].sent = statistics
    OBVIOUS
  <2> USE DEF TypeOK, ScrapeState
  <2>1. ~(PodEvent \/ NodeEvent \/ \E r \in Request : handlePayload(r))
    BY StatisticsHeld
  <2>2. PICK p \in Scrape : Collect(p)
    BY <2>1 DEF Next
  <2>3. unlockCollect(s)
    BY <2>2 DEF Collect, lockCollect, sendMetric, unlockCollect
  <2>4. metrics'[s].sent = metrics[s].sent
    BY <2>3 DEF unlockCollect
  <2>5. \A k \in SeriesKey : metrics[s].sent[k] = statistics[k]
    BY <2>3 DEF unlockCollect, SentIsCurrent
  <2>6. metrics[s].sent \in Statistics /\ statistics \in Statistics
    OBVIOUS
  <2> QED
    BY <2>4, <2>5, <2>6 DEF Statistics
<1> QED
  BY <1>1, Typed, Exclusive, SentStaysCurrent, PTL DEF Spec, ScrapeIsSnapshot
=============================================================================
