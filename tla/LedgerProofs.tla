---------------------------- MODULE LedgerProofs ----------------------------
(***************************************************************************)
(* The server implements the ledger, and its counters match its flow logs, *)
(* for any number of requests with payloads of any length.                 *)
(***************************************************************************)
EXTENDS ServerLedger, ServerLogs, ServerProofs, NumberProofs, FiniteSetTheorems

-----------------------------------------------------------------------------
(***************************************************************************)
(* Sums of postings.  What a recursive function computes is proved from    *)
(* its least counterexample.                                               *)
(***************************************************************************)

\* The ledgers after each of a sequence of postings, as Posted runs through them.
Run(ledger, ps, n, f) ==
  f = [i \in 0 .. n |-> IF i = 0 THEN ledger ELSE P!post(f[i - 1], ps[i])]

\* There is such a run of every length.
LEMMA Runs ==
  ASSUME NEW ledger, NEW ps
  PROVE  \A n \in Nat : \E f : Run(ledger, ps, n, f)
<1> DEFINE T == {n \in Nat : ~ \E f : Run(ledger, ps, n, f)}
<1> SUFFICES ASSUME T # {} PROVE FALSE
  OBVIOUS
<1>1. PICK n \in T : \A m \in T : n <= m
  BY LeastNumber
<1>2. CASE n = 0
  <2>1. Run(ledger, ps, 0, [i \in 0 .. 0 |-> ledger])
    BY DEF Run
  <2> QED
    BY <1>2, <2>1
<1>3. CASE n # 0
  <2>1. n - 1 \in Nat /\ n - 1 \notin T
    BY <1>1, <1>3
  <2>2. PICK f : Run(ledger, ps, n - 1, f)
    BY <2>1
  <2> DEFINE h == [i \in 0 .. n |-> IF i = n THEN P!post(f[n - 1], ps[n]) ELSE f[i]]
  <2>3. ASSUME NEW i \in 0 .. n PROVE h[i] = IF i = 0 THEN ledger ELSE P!post(h[i - 1], ps[i])
    <3>1. CASE i = 0
      BY <1>3, <2>2, <3>1 DEF Run
    <3>2. CASE i = n
      BY <1>3, <3>2
    <3>3. CASE i # 0 /\ i # n
      <4>1. h[i] = f[i] /\ h[i - 1] = f[i - 1] /\ i \in 0 .. n - 1
        BY <3>3
      <4> QED
        BY <2>2, <3>3, <4>1 DEF Run
    <3> QED
      BY <3>1, <3>2, <3>3
  <2>4. Run(ledger, ps, n, h)
    BY <2>3 DEF Run
  <2> QED
    BY <2>4
<1> QED
  BY <1>2, <1>3

\* Posted is the last ledger of a run.
LEMMA PostedRun ==
  ASSUME NEW ledger, NEW ps, Len(ps) \in Nat
  PROVE  \E f : Run(ledger, ps, Len(ps), f) /\ P!Posted(ledger, ps) = f[Len(ps)]
<1>1. \E f : Run(ledger, ps, Len(ps), f)
  BY Runs
<1> QED
  BY <1>1 DEF Run, P!Posted

\* No postings change nothing.
LEMMA PostedNothing ==
  ASSUME NEW ledger, NEW ps, Len(ps) = 0
  PROVE  P!Posted(ledger, ps) = ledger
<1>1. PICK f : Run(ledger, ps, Len(ps), f) /\ P!Posted(ledger, ps) = f[Len(ps)]
  BY PostedRun
<1> QED
  BY <1>1 DEF Run

\* The first posting can be made before the rest: what countEntry does.
LEMMA PostedFirst ==
  ASSUME NEW ledger, NEW ps, NEW rest, Len(ps) \in Nat, Len(rest) = Len(ps) - 1,
         Len(ps) # 0, \A i \in 1 .. Len(rest) : rest[i] = ps[i + 1]
  PROVE  P!Posted(ledger, ps) = P!Posted(P!post(ledger, ps[1]), rest)
<1> DEFINE n == Len(ps)
<1>1. PICK f : Run(ledger, ps, n, f) /\ P!Posted(ledger, ps) = f[n]
  BY PostedRun
<1>2. PICK h : Run(P!post(ledger, ps[1]), rest, n - 1, h)
               /\ P!Posted(P!post(ledger, ps[1]), rest) = h[n - 1]
  BY PostedRun
<1> DEFINE T == {i \in 0 .. n - 1 : h[i] # f[i + 1]}
<1>3. T = {}
  <2> SUFFICES ASSUME T # {} PROVE FALSE
    OBVIOUS
  <2>0. T \in SUBSET Nat
    OBVIOUS
  <2> HIDE DEF T
  <2>1. PICK i \in T : \A j \in T : i <= j
    BY <2>0, LeastNumber
  <2> USE DEF T
  <2>2. CASE i = 0
    <3>1. h[0] = P!post(ledger, ps[1])
      BY <1>2 DEF Run
    <3>2. 0 \in 0 .. n /\ 1 \in 0 .. n
      OBVIOUS
    <3>3. f[0] = ledger /\ f[1] = P!post(f[1 - 1], ps[1])
      BY <1>1, <3>2 DEF Run
    <3> QED
      BY <2>2, <3>1, <3>3
  <2>3. CASE i # 0
    <3>1. i - 1 \in 0 .. n - 1 /\ i \in 1 .. Len(rest) /\ i + 1 \in 0 .. n
      BY <2>3
    <3>2. h[i - 1] = f[i]
      <4>1. i - 1 \notin T
        BY <2>0, <2>1
      <4>2. (i - 1) + 1 = i
        OBVIOUS
      <4> QED
        BY <3>1, <4>1, <4>2
    <3>3. h[i] = P!post(h[i - 1], rest[i])
      BY <1>2, <2>3, <3>1 DEF Run
    <3>4. f[i + 1] = P!post(f[i], ps[i + 1])
      BY <1>1, <3>1 DEF Run
    <3> QED
      BY <3>1, <3>2, <3>3, <3>4
  <2> QED
    BY <2>2, <2>3
<1>4. n - 1 \in 0 .. n - 1
  OBVIOUS
<1> QED
  BY <1>1, <1>2, <1>3, <1>4

-----------------------------------------------------------------------------
(***************************************************************************)
(* The refinement mapping.                                                 *)
(***************************************************************************)

\* Postings correspond to entries one by one.
LEMMA PostingsOfEntries ==
  ASSUME NEW data \in Seq(Entry), NEW ps, ps = [i \in DOMAIN data |-> postingOf(data[i])]
  PROVE  /\ Len(ps) = Len(data) /\ Len(ps) \in Nat
         /\ \A i \in 1 .. Len(data) : ps[i] = postingOf(data[i])
<1>1. DOMAIN data = 1 .. Len(data) /\ Len(data) \in Nat
  OBVIOUS
<1>2. ps = [i \in 1 .. Len(data) |-> postingOf(data[i])]
  BY <1>1
<1> QED
  BY <1>1, <1>2

\* An address is at the same place for the ledger and for the server.
LEMMA PlaceTyped ==
  ASSUME TypeOK, NEW ip \in IP
  PROVE  /\ placeOf(ip) \in [account: SeriesKey, zone: ZoneName] \cup {Absent}
         /\ placeOf(ip) = Absent <=> ~resolves(ip)
<1>1. CASE resolves(ip)
  <2>1. series(ip) \in SeriesKey
    BY <1>1, ResolvedSeries
  <2>2. nodeOf(ip) # Absent
    BY <1>1 DEF resolves, zone
  <2>3. nodeOf(ip) \in NodeName
    BY <2>2 DEF nodeOf, isPod, TypeOK, PodInfo
  <2>4. zone(ip) \in ZoneName
    BY <1>1, <2>2, <2>3 DEF resolves, zone, TypeOK
  <2> QED
    BY <1>1, <2>1, <2>4, PlaceAssumption DEF placeOf
<1>2. CASE ~resolves(ip)
  BY <1>2 DEF placeOf
<1> QED
  BY <1>1, <1>2

\* The ledger and the server make the same posting of an entry.
LEMMA SamePosting ==
  ASSUME TypeOK, NEW entry \in Entry
  PROVE  L!posting(entry) = postingOf(entry)
<1>1. entry.SrcIP \in IP /\ entry.DstIP \in IP
  BY DEF Entry
<1>2. /\ placeOf(entry.SrcIP) = Absent <=> ~resolves(entry.SrcIP)
      /\ placeOf(entry.DstIP) = Absent <=> ~resolves(entry.DstIP)
  BY <1>1, PlaceTyped
<1>3. CASE resolves(entry.SrcIP) /\ resolves(entry.DstIP)
  <2>1. /\ placeOf(entry.SrcIP) = [account |-> series(entry.SrcIP), zone |-> zone(entry.SrcIP)]
        /\ placeOf(entry.DstIP) = [account |-> series(entry.DstIP), zone |-> zone(entry.DstIP)]
    BY <1>3 DEF placeOf
  <2> QED
    BY <1>1, <1>2, <1>3, <2>1 DEF L!posting, places, postingOf, crossZone
<1>4. CASE ~(resolves(entry.SrcIP) /\ resolves(entry.DstIP))
  BY <1>1, <1>2, <1>4 DEF L!posting, places, postingOf, crossZone
<1> QED
  BY <1>3, <1>4

\* What countEntry makes of `statistics' is the posting of the entry.
LEMMA CountingPosts ==
  ASSUME TypeOK, NEW r \in Request, countEntry(r)
  PROVE  statistics' = P!post(statistics, postingOf(Head(request[r].data)))
<1> DEFINE entry == Head(request[r].data)
<1>1. entry \in Entry
  BY DEF TypeOK, RequestState, countEntry
<1>2. CASE crossZone(entry)
  <2>1. series(entry.SrcIP) \in SeriesKey
    BY <1>1, <1>2, ResolvedSeries DEF crossZone, Entry
  <2>2. series(entry.SrcIP) # Absent
    BY <2>1, PlaceAssumption
  <2>3. statistics' = [statistics EXCEPT ![series(entry.SrcIP)] = added(series(entry.SrcIP), entry.Traffic)]
    BY <1>2 DEF countEntry
  <2>4. postingOf(entry) = [to |-> series(entry.SrcIP), bytes |-> entry.Traffic]
    BY <1>2 DEF postingOf
  <2> HIDE DEF entry
  <2>5. postingOf(entry).to = series(entry.SrcIP) /\ postingOf(entry).bytes = entry.Traffic
    BY <2>4
  <2>6. P!post(statistics, postingOf(entry))
          = [statistics EXCEPT ![series(entry.SrcIP)] = added(series(entry.SrcIP), entry.Traffic)]
    BY <2>2, <2>5 DEF P!post, added
  <2> QED
    BY <2>3, <2>6 DEF entry
<1>3. CASE ~crossZone(entry)
  BY <1>3 DEF countEntry, P!post, postingOf
<1> QED
  BY <1>2, <1>3

\* While no payload is being counted, what is in effect is `statistics'.
Alone == mutex \notin Request \/ request[mutex].data = <<>>

CurrentAlone == Alone => statisticsInEffect = statistics

\* That is so before a step and after it.
LEMMA InEffectAlone == CurrentAlone /\ CurrentAlone'
<1>1. CurrentAlone
  <2> SUFFICES ASSUME Alone PROVE statisticsInEffect = statistics
    BY DEF CurrentAlone
  <2>1. entriesLeft = <<>>
    BY DEF entriesLeft, Alone
  <2>2. <<>> \in Seq(Entry) /\ Len(<<>>) = 0
    OBVIOUS
  <2> QED
    BY <2>1, <2>2, PostingsOfEntries, PostedNothing DEF statisticsInEffect
<1> QED
  BY <1>1, PTL

\* A place is a series and a zone, and never that of a pod the server does not
\* know, before a step and after it.
PlacesKnown ==
  TypeOK => \A ip \in IP :
    /\ placeOf(ip) \in [account: SeriesKey, zone: ZoneName] \cup {Absent}
    /\ placeOf(ip) # Absent /\ placeOf(ip).account \in PodKey => podIndex[placeOf(ip).account] # Absent

\* ResolvedSeries, as the mapping uses it.
LEMMA PlacesAreKnown == PlacesKnown /\ PlacesKnown'
<1>1. PlacesKnown
  <2> SUFFICES ASSUME TypeOK, NEW ip \in IP
               PROVE  /\ placeOf(ip) \in [account: SeriesKey, zone: ZoneName] \cup {Absent}
                      /\ placeOf(ip) # Absent /\ placeOf(ip).account \in PodKey
                           => podIndex[placeOf(ip).account] # Absent
    BY DEF PlacesKnown
  <2>1. resolves(ip) => placeOf(ip).account = series(ip)
    BY DEF placeOf
  <2> QED
    BY <2>1, PlaceTyped, ResolvedSeries
<1> QED
  BY <1>1, PTL

-----------------------------------------------------------------------------
(***************************************************************************)
(* Every step of the server is a step of the ledger or none.               *)
(***************************************************************************)

\* While the indexes stay as they are, so does what addresses resolve to.
LEMMA ResolutionKept ==
  ASSUME UNCHANGED indexes
  PROVE  places' = places /\ \A entry : postingOf(entry)' = postingOf(entry)
BY DEF indexes, places, placeOf, postingOf, crossZone, resolves, zone, nodeOf, series, isPod

\* A step that leaves the requests alone changes no report.
LEMMA AwayFromRequests ==
  ASSUME UNCHANGED request
  PROVE  reports' = reports /\ contents' = contents
BY DEF reports, contents

\* A step that leaves the scrapes alone shows nobody anything.
LEMMA AwayFromScrapes ==
  ASSUME UNCHANGED metrics
  PROVE  shown' = shown
BY DEF shown

\* A pod or node event changes the view of the cluster, and drops at most the
\* counter of a pod that no address resolves to any more.
LEMMA EventWatches ==
  ASSUME TypeOK, TypeOK', PodEvent \/ NodeEvent
  PROVE  L!Watch
<1>1. mutex = NoOne /\ UNCHANGED <<mutex, request, metrics>>
  BY DEF PodEvent, onPodAdd, onPodUpdate, onPodDelete, handlePod, NodeEvent, onNodeAdd, onNodeUpdate, onNodeDelete
<1>2. statisticsInEffect = statistics /\ statisticsInEffect' = statistics'
  BY <1>1, InEffectAlone, ThreadAssumption DEF CurrentAlone, Alone
<1>3. places' \in [IP -> [account: SeriesKey, zone: ZoneName] \cup {Absent}]
  BY PlacesAreKnown DEF places, PlacesKnown
<1>4. \A k \in SeriesKey :
        \/ statistics'[k] = statistics[k]
        \/ k \in PodKey /\ statistics'[k] = Absent /\ podIndex'[k] = Absent
  <2>1. CASE NodeEvent
    BY <2>1 DEF NodeEvent, onNodeAdd, onNodeUpdate, onNodeDelete
  <2>2. ASSUME NEW pod \in PodObject, onPodAdd(pod) \/ onPodUpdate(pod)
        PROVE  UNCHANGED statistics
    BY <2>2 DEF onPodAdd, onPodUpdate, handlePod
  <2>3. ASSUME NEW pod \in PodObject, onPodDelete(pod)
        PROVE  \A k \in SeriesKey :
                 \/ statistics'[k] = statistics[k]
                 \/ k \in PodKey /\ statistics'[k] = Absent /\ podIndex'[k] = Absent
    BY <2>3 DEF onPodDelete, TypeOK, Statistics, SeriesKey
  <2> QED
    BY <2>1, <2>2, <2>3 DEF PodEvent
<1>5. \A k \in SeriesKey :
        \/ statistics'[k] = statistics[k]
        \/ /\ k \in PodKey /\ statistics'[k] = Absent
           /\ \A ip \in IP : places'[ip] = Absent \/ places'[ip].account # k
  <2>1. \A ip \in IP : places'[ip] = placeOf(ip)'
    BY DEF places
  <2> QED
    BY <1>4, <2>1, PlacesAreKnown DEF PlacesKnown
<1>6. UNCHANGED <<reports, contents, shown>>
  BY <1>1, AwayFromRequests, AwayFromScrapes
<1> QED
  BY <1>2, <1>3, <1>5, <1>6 DEF L!Watch, L!Place

\* A payload that is refused, and one that is decoded, is not credited yet.
LEMMA PayloadArrives ==
  ASSUME TypeOK, MutexHeld, NEW r \in Request
  PROVE  /\ rejectPayload(r) => L!Refuse(r)
         /\ decodePayload(r) => L!Receive(r)
<1>0. request \in [Request -> RequestState]
  BY DEF TypeOK
<1>1. ASSUME rejectPayload(r) \/ decodePayload(r)
      PROVE  UNCHANGED <<places, statisticsInEffect, shown>>
  <2>1. /\ request[r].pc = "idle" /\ UNCHANGED <<indexes, statistics, mutex, metrics>>
        /\ \A p \in Request \ {r} : request'[p] = request[p]
    BY <1>0, <1>1 DEF rejectPayload, decodePayload
  <2>2. mutex # r
    BY <2>1 DEF MutexHeld
  <2>3. entriesLeft' = entriesLeft
    BY <2>1, <2>2 DEF entriesLeft
  <2>4. statisticsInEffect' = statisticsInEffect
    BY <2>1, <2>3, ResolutionKept DEF statisticsInEffect
  <2> QED
    BY <2>1, <2>4, ResolutionKept, AwayFromScrapes
<1>2. ASSUME rejectPayload(r) PROVE L!Refuse(r)
  <2>1. PICK code \in Refusal \cup {"panic"} :
          request' = [request EXCEPT ![r].pc = "done", ![r].status = code]
    BY <1>2 DEF rejectPayload
  <2>2. /\ request[r].pc = "idle" /\ request'[r].pc = "done" /\ request'[r].status # "OK"
        /\ \A p \in Request \ {r} : request'[p] = request[p]
    BY <1>0, <1>2, <2>1 DEF rejectPayload, RequestState, Refusal
  <2>3. progress(request[r]) = "open" /\ progress(request'[r]) = "refused"
    BY <2>2 DEF progress
  <2>4. reports[r] = "open" /\ reports' = [reports EXCEPT ![r] = "refused"]
    BY <2>2, <2>3 DEF reports
  <2>5. contents' = contents
    BY <2>2 DEF contents
  <2> QED
    BY <1>1, <1>2, <2>4, <2>5 DEF L!Refuse
<1>3. ASSUME decodePayload(r) PROVE L!Receive(r)
  <2>1. PICK data \in Payload : request' = [request EXCEPT ![r].pc = "decoded", ![r].data = data]
    BY <1>3 DEF decodePayload
  <2>2. /\ request[r].pc = "idle" /\ request'[r].pc = "decoded" /\ request'[r].data = data
        /\ \A p \in Request \ {r} : request'[p] = request[p]
    BY <1>0, <1>3, <2>1 DEF decodePayload, RequestState
  <2>3. progress(request[r]) = "open" /\ progress(request'[r]) = "received"
    BY <2>2 DEF progress
  <2>4. reports[r] = "open" /\ reports' = [reports EXCEPT ![r] = "received"]
    BY <2>2, <2>3 DEF reports
  <2>5. contents' = [contents EXCEPT ![r] = data]
    BY <2>2 DEF contents
  <2> QED
    BY <1>1, <1>3, <2>4, <2>5 DEF L!Receive
<1> QED
  BY <1>2, <1>3

\* Taking the mutex credits the whole payload.
LEMMA LockCredits ==
  ASSUME TypeOK, NEW r \in Request, lockPayload(r)
  PROVE  L!Credit(r)
<1> DEFINE data == request[r].data
<1>1. request \in [Request -> RequestState] /\ data \in Seq(Entry)
  BY DEF TypeOK, RequestState
<1>2. /\ request[r].pc = "decoded" /\ request'[r].pc = "locked" /\ request'[r].data = data
      /\ mutex = NoOne /\ mutex' = r /\ UNCHANGED <<indexes, statistics, metrics>>
      /\ \A p \in Request \ {r} : request'[p] = request[p]
  BY <1>1 DEF lockPayload, RequestState
<1>3. progress(request[r]) = "received" /\ progress(request'[r]) = "credited"
  BY <1>2 DEF progress
<1>4. reports[r] = "received" /\ reports' = [reports EXCEPT ![r] = "credited"]
  BY <1>2, <1>3 DEF reports
<1>5. contents[r] = data /\ contents' = [contents EXCEPT ![r] = <<>>]
  BY <1>2 DEF contents
<1>6. statisticsInEffect = statistics
  BY <1>2, InEffectAlone, ThreadAssumption DEF CurrentAlone, Alone
<1>7. statisticsInEffect' = L!credit(data, statistics)
  <2> DEFINE ps == [i \in DOMAIN data |-> postingOf(data[i])]
  <2>1. entriesLeft' = data
    BY <1>2 DEF entriesLeft
  <2>2. statisticsInEffect' = P!Posted(statistics, ps)
    BY <1>2, <2>1, ResolutionKept DEF statisticsInEffect
  <2>3. \A i \in DOMAIN data : data[i] \in Entry
    BY <1>1
  <2>4. ps = [i \in DOMAIN data |-> L!posting(data[i])]
    BY <2>3, SamePosting
  <2> HIDE DEF ps
  <2>5. L!credit(data, statistics) = L!Posted(statistics, ps)
    BY <2>4 DEF L!credit
  <2>6. L!Posted(statistics, ps) = P!Posted(statistics, ps)
    BY DEF L!Posted, P!Posted, L!post, P!post
  <2> QED
    BY <2>2, <2>5, <2>6
<1>8. UNCHANGED <<places, shown>>
  BY <1>2, ResolutionKept, AwayFromScrapes
<1> HIDE DEF data
<1> QED
  BY <1>4, <1>5, <1>6, <1>7, <1>8 DEF L!Credit

\* Counting one entry moves it from what is still to be counted to `statistics'.
LEMMA CountingIsHidden ==
  ASSUME TypeOK, MutexHeld, NEW r \in Request, countEntry(r)
  PROVE  UNCHANGED L!vars
<1> DEFINE data == request[r].data
           ps   == [i \in DOMAIN data |-> postingOf(data[i])]
           rest == [i \in DOMAIN Tail(data) |-> postingOf(Tail(data)[i])]
<1>1. request \in [Request -> RequestState] /\ request[r] \in RequestState /\ data \in Seq(Entry)
  BY DEF TypeOK, RequestState
<1>2. /\ request[r].pc = "locked" /\ data # <<>>
      /\ UNCHANGED <<indexes, mutex, metrics>>
  BY DEF countEntry
<1>3. /\ request'[r].pc = "locked" /\ request'[r].data = Tail(data)
      /\ \A p \in Request \ {r} : request'[p] = request[p]
  BY <1>1, <1>2 DEF countEntry, RequestState
<1>4. mutex = r
  BY <1>2 DEF MutexHeld
<1>5. Tail(data) \in Seq(Entry) /\ Len(Tail(data)) = Len(data) - 1 /\ Len(data) # 0
  BY <1>1, <1>2
<1>6. statisticsInEffect = P!Posted(statistics, ps)
  BY <1>4 DEF statisticsInEffect, entriesLeft
<1>7. statisticsInEffect' = P!Posted(statistics', rest)
  <2>1. entriesLeft' = Tail(data)
    BY <1>2, <1>3, <1>4 DEF entriesLeft
  <2> QED
    BY <1>2, <2>1, ResolutionKept DEF statisticsInEffect
<1>8. statistics' = P!post(statistics, ps[1])
  <2>1. ps[1] = postingOf(Head(data))
    BY <1>1, <1>2
  <2> QED
    BY <2>1, CountingPosts
<1>9. /\ Len(ps) \in Nat /\ Len(ps) # 0 /\ Len(rest) = Len(ps) - 1
      /\ \A i \in 1 .. Len(rest) : rest[i] = ps[i + 1]
  <2>1. Len(ps) = Len(data) /\ Len(ps) \in Nat /\ \A i \in 1 .. Len(data) : ps[i] = postingOf(data[i])
    BY <1>1, PostingsOfEntries
  <2>2. Len(rest) = Len(Tail(data)) /\ \A i \in 1 .. Len(Tail(data)) : rest[i] = postingOf(Tail(data)[i])
    BY <1>5, PostingsOfEntries
  <2>3. \A i \in 1 .. Len(Tail(data)) : Tail(data)[i] = data[i + 1] /\ i + 1 \in 1 .. Len(data)
    BY <1>1, <1>5
  <2> HIDE DEF ps, rest, data
  <2> QED
    BY <1>5, <2>1, <2>2, <2>3
<1> HIDE DEF ps, rest
<1>10. statisticsInEffect' = statisticsInEffect
  BY <1>6, <1>7, <1>8, <1>9, PostedFirst
<1>11. progress(request'[r]) = progress(request[r])
  BY <1>2, <1>3 DEF progress
<1>12. reports' = reports /\ contents' = contents
  BY <1>2, <1>3, <1>11 DEF reports, contents
<1> QED
  BY <1>2, <1>10, <1>12, ResolutionKept, AwayFromScrapes DEF L!vars

\* Releasing the mutex is the answer.
LEMMA UnlockAnswers ==
  ASSUME TypeOK, MutexHeld, NEW r \in Request, unlockPayload(r)
  PROVE  L!Answer(r)
<1>1. request \in [Request -> RequestState]
  BY DEF TypeOK
<1>2. /\ request[r].pc = "locked" /\ request[r].data = <<>>
      /\ mutex' = NoOne /\ UNCHANGED <<indexes, statistics, metrics>>
  BY DEF unlockPayload
<1>3. /\ request'[r].pc = "done" /\ request'[r].status = "OK"
      /\ \A p \in Request \ {r} : request'[p] = request[p]
  BY <1>1 DEF unlockPayload, RequestState
<1>4. progress(request[r]) = "credited" /\ progress(request'[r]) = "answered"
  BY <1>2, <1>3 DEF progress
<1>5. reports[r] = "credited" /\ reports' = [reports EXCEPT ![r] = "answered"]
  BY <1>3, <1>4 DEF reports
<1>6. contents' = contents
  BY <1>2, <1>3 DEF contents
<1>7. mutex = r
  BY <1>2 DEF MutexHeld
<1>8. statisticsInEffect' = statisticsInEffect
  BY <1>2, <1>7, InEffectAlone, ThreadAssumption DEF CurrentAlone, Alone
<1> QED
  BY <1>2, <1>5, <1>6, <1>8, ResolutionKept, AwayFromScrapes DEF L!Answer

\* The end of a scrape is when the ledger is read; before that nothing is shown.
LEMMA CollectReads ==
  ASSUME TypeOK, MutexHeld, SentIsCurrent, NEW s \in Scrape
  PROVE  /\ lockCollect(s) \/ sendMetric(s) => UNCHANGED L!vars
         /\ unlockCollect(s) => L!Read(s)
<1>0. metrics \in [Scrape -> ScrapeState]
  BY DEF TypeOK
<1>1. ASSUME Collect(s)
      PROVE  UNCHANGED <<places, statisticsInEffect, reports, contents>> /\ statisticsInEffect = statistics
  <2>1. UNCHANGED <<indexes, statistics, request>> /\ mutex \in {NoOne, s} /\ mutex' \in {NoOne, s}
    BY <1>1 DEF Collect, lockCollect, sendMetric, unlockCollect, MutexHeld
  <2>2. mutex \notin Request /\ mutex' \notin Request
    BY <2>1, ThreadAssumption
  <2> QED
    BY <2>1, <2>2, InEffectAlone, ResolutionKept, AwayFromRequests DEF CurrentAlone, Alone
<1>2. ASSUME lockCollect(s) \/ sendMetric(s) PROVE UNCHANGED L!vars
  <2>1. /\ metrics[s].pc # "done" /\ metrics'[s].pc # "done"
        /\ \A p \in Scrape \ {s} : metrics'[p] = metrics[p]
    BY <1>0, <1>2 DEF lockCollect, sendMetric, ScrapeState
  <2>2. shown' = shown
    BY <2>1 DEF shown
  <2> QED
    BY <1>1, <1>2, <2>2 DEF L!vars, Collect
<1>3. ASSUME unlockCollect(s) PROVE L!Read(s)
  <2>1. /\ metrics[s].pc = "sending" /\ metrics'[s].pc = "done" /\ metrics'[s].sent = metrics[s].sent
        /\ \A p \in Scrape \ {s} : metrics'[p] = metrics[p]
    BY <1>0, <1>3 DEF unlockCollect, ScrapeState
  <2>2. metrics[s].sent = statistics
    <3>1. \A k \in SeriesKey : metrics[s].sent[k] = statistics[k]
      BY <1>3, <2>1 DEF unlockCollect, SentIsCurrent
    <3>2. metrics[s].sent \in Statistics /\ statistics \in Statistics
      BY <1>0 DEF TypeOK, ScrapeState
    <3> QED
      BY <3>1, <3>2 DEF Statistics
  <2>3. shown[s] = Absent /\ shown' = [shown EXCEPT ![s] = statistics]
    BY <2>1, <2>2 DEF shown
  <2> QED
    BY <1>1, <1>3, <2>3 DEF L!Read, Collect
<1> QED
  BY <1>2, <1>3

\* Five Go maps, a mutex and goroutines that interleave step by step are, to
\* those who send reports and read metrics, a ledger: a payload of any length
\* is credited at once, entirely and once, against one view of the cluster; a
\* scrape reads one state; only the series of a pod that no address resolves to
\* is ever dropped.
THEOREM ServerImplementsLedger == Spec => ImplementsLedger
<1>1. Init => L!Init
  <2> SUFFICES ASSUME Init PROVE L!Init
    OBVIOUS
  <2>1. \A ip \in IP : ~resolves(ip)
    BY DEF Init, resolves, zone, nodeOf, isPod
  <2>2. places = [ip \in IP |-> Absent]
    BY <2>1 DEF places, placeOf
  <2>3. statisticsInEffect = statistics
    BY InEffectAlone, ThreadAssumption DEF CurrentAlone, Alone, Init
  <2>4. reports = [r \in Request |-> "open"] /\ contents = [r \in Request |-> <<>>]
    BY DEF Init, reports, contents, progress
  <2>5. shown = [s \in Scrape |-> Absent]
    BY DEF Init, shown
  <2> QED
    BY <2>2, <2>3, <2>4, <2>5 DEF Init, L!Init
<1>2. TypeOK /\ TypeOK' /\ MutexHeld /\ SentIsCurrent /\ [Next]_vars => [L!Next]_(L!vars)
  <2> SUFFICES ASSUME TypeOK, TypeOK', MutexHeld, SentIsCurrent, [Next]_vars
               PROVE  [L!Next]_(L!vars)
    OBVIOUS
  <2>1. CASE PodEvent \/ NodeEvent
    BY <2>1, EventWatches DEF L!Next
  <2>2. ASSUME NEW r \in Request, handlePayload(r) PROVE [L!Next]_(L!vars)
    <3>1. L!Refuse(r) \/ L!Receive(r) \/ L!Credit(r) \/ L!Answer(r) => L!Next
      BY DEF L!Next
    <3> QED
      BY <2>2, <3>1, PayloadArrives, LockCredits, CountingIsHidden, UnlockAnswers DEF handlePayload
  <2>3. ASSUME NEW s \in Scrape, Collect(s) PROVE [L!Next]_(L!vars)
    BY <2>3, CollectReads DEF Collect, L!Next
  <2>4. CASE UNCHANGED vars
    <3>1. UNCHANGED <<indexes, statistics, mutex, request, metrics>>
      BY <2>4 DEF vars, indexes
    <3>2. statisticsInEffect' = statisticsInEffect
      BY <3>1, ResolutionKept DEF statisticsInEffect, entriesLeft
    <3> QED
      BY <3>1, <3>2, ResolutionKept, AwayFromRequests, AwayFromScrapes DEF L!vars
  <2> QED
    BY <2>1, <2>2, <2>3, <2>4 DEF Next
<1> QED
  BY <1>1, <1>2, Typed, Exclusive, SentStaysCurrent, PTL DEF Spec, ImplementsLedger, L!Spec

-----------------------------------------------------------------------------
(***************************************************************************)
(* Totals.                                                                 *)
(***************************************************************************)

\* The sums of the first numbers, as Total runs through them.
Sums(f, n, s) == s = [i \in 0 .. n |-> IF i = 0 THEN 0 ELSE s[i - 1] + f[i]]

\* They exist up to every number, and Total is the last of them.
LEMMA TotalIsLastSum ==
  ASSUME NEW f, NEW n \in Nat
  PROVE  \E s : Sums(f, n, s) /\ Total(f, n) = s[n]
<1>1. \A m \in Nat : \E s : Sums(f, m, s)
  <2> DEFINE T == {m \in Nat : ~ \E s : Sums(f, m, s)}
  <2> SUFFICES ASSUME T # {} PROVE FALSE
    OBVIOUS
  <2>1. PICK m \in T : \A j \in T : m <= j
    BY LeastNumber
  <2>2. CASE m = 0
    <3>1. Sums(f, 0, [i \in 0 .. 0 |-> 0])
      BY DEF Sums
    <3> QED
      BY <2>2, <3>1
  <2>3. CASE m # 0
    <3>1. m - 1 \in Nat /\ m - 1 \notin T
      BY <2>1, <2>3
    <3>2. PICK s : Sums(f, m - 1, s)
      BY <3>1
    <3> DEFINE h == [i \in 0 .. m |-> IF i = m THEN s[m - 1] + f[m] ELSE s[i]]
    <3>3. ASSUME NEW i \in 0 .. m PROVE h[i] = IF i = 0 THEN 0 ELSE h[i - 1] + f[i]
      <4>1. CASE i = 0
        BY <2>3, <3>2, <4>1 DEF Sums
      <4>2. CASE i = m
        BY <2>3, <4>2
      <4>3. CASE i # 0 /\ i # m
        <5>1. h[i] = s[i] /\ h[i - 1] = s[i - 1] /\ i \in 0 .. m - 1
          BY <4>3
        <5> QED
          BY <3>2, <4>3, <5>1 DEF Sums
      <4> QED
        BY <4>1, <4>2, <4>3
    <3>4. Sums(f, m, h)
      BY <3>3 DEF Sums
    <3> QED
      BY <3>4
  <2> QED
    BY <2>2, <2>3
<1>2. \E s : Sums(f, n, s)
  BY <1>1
<1> QED
  BY <1>2 DEF Sums, Total

\* What a sum is for one number more.
LEMMA NextSum ==
  ASSUME NEW f, NEW n \in Nat, NEW s, Sums(f, n, s)
  PROVE  s[0] = 0 /\ \A i \in 1 .. n : s[i] = s[i - 1] + f[i]
BY DEF Sums

\* A total of numbers is a number.
LEMMA TotalInNat ==
  ASSUME NEW n \in Nat, NEW f, \A i \in 1 .. n : f[i] \in Nat
  PROVE  Total(f, n) \in Nat
<1>1. PICK s : Sums(f, n, s) /\ Total(f, n) = s[n]
  BY TotalIsLastSum
<1>2. s[0] = 0 /\ \A i \in 1 .. n : s[i] = s[i - 1] + f[i]
  BY <1>1, NextSum
<1> DEFINE T == {i \in 0 .. n : s[i] \notin Nat}
<1>3. T = {}
  <2> SUFFICES ASSUME T # {} PROVE FALSE
    OBVIOUS
  <2>1. T \in SUBSET Nat
    OBVIOUS
  <2>2. PICK i \in T : \A m \in T : i <= m
    BY <2>1, LeastNumber
  <2>3. i # 0 /\ i - 1 \in 0 .. n /\ i \in 1 .. n /\ i - 1 \notin T
    BY <1>2, <2>2
  <2> QED
    BY <1>2, <2>3
<1> QED
  BY <1>1, <1>3

\* If one number changes, the total changes by as much.
LEMMA TotalChanges ==
  ASSUME NEW n \in Nat, NEW f, NEW g, NEW j \in 1 .. n,
         \A i \in 1 .. n : f[i] \in Nat /\ g[i] \in Nat /\ (i # j => g[i] = f[i])
  PROVE  Total(g, n) + f[j] = Total(f, n) + g[j]
<1>1. PICK s : Sums(f, n, s) /\ Total(f, n) = s[n]
  BY TotalIsLastSum
<1>2. PICK t : Sums(g, n, t) /\ Total(g, n) = t[n]
  BY TotalIsLastSum
<1>3. /\ s[0] = 0 /\ \A i \in 1 .. n : s[i] = s[i - 1] + f[i]
      /\ t[0] = 0 /\ \A i \in 1 .. n : t[i] = t[i - 1] + g[i]
  BY <1>1, <1>2, NextSum
<1> DEFINE Good(i) == /\ s[i] \in Nat /\ t[i] \in Nat
                      /\ IF i < j THEN t[i] = s[i] ELSE t[i] + f[j] = s[i] + g[j]
           T == {i \in 0 .. n : ~Good(i)}
<1>4. T = {}
  <2> SUFFICES ASSUME T # {} PROVE FALSE
    OBVIOUS
  <2>1. T \in SUBSET Nat
    OBVIOUS
  <2>2. PICK i \in T : \A m \in T : i <= m
    BY <2>1, LeastNumber
  <2>3. i \in 0 .. n /\ ~Good(i)
    OBVIOUS
  <2>4. CASE i = 0
    BY <1>3, <2>3, <2>4
  <2>5. CASE i # 0
    <3>1. i - 1 \in 0 .. n /\ i \in 1 .. n /\ i - 1 \notin T
      BY <2>2, <2>3, <2>5
    <3>2. Good(i - 1)
      BY <3>1
    <3>3. /\ s[i] = s[i - 1] + f[i] /\ t[i] = t[i - 1] + g[i]
          /\ f[i] \in Nat /\ g[i] \in Nat /\ (i # j => g[i] = f[i])
      BY <1>3, <3>1
    <3>4. s[i] \in Nat /\ t[i] \in Nat
      BY <3>2, <3>3
    <3>5. IF i < j THEN t[i] = s[i] ELSE t[i] + f[j] = s[i] + g[j]
      BY <3>1, <3>2, <3>3
    <3> QED
      BY <2>3, <3>4, <3>5
  <2> QED
    BY <2>4, <2>5
<1>5. Good(n)
  BY <1>4
<1> QED
  BY <1>1, <1>2, <1>5

\* A total of one number more.
LEMMA TotalOfOneMore ==
  ASSUME NEW n \in Nat, NEW f, NEW g, \A i \in 1 .. n : g[i] = f[i]
  PROVE  Total(g, n + 1) = Total(f, n) + g[n + 1]
<1>1. PICK s : Sums(f, n, s) /\ Total(f, n) = s[n]
  BY TotalIsLastSum
<1>2. PICK t : Sums(g, n + 1, t) /\ Total(g, n + 1) = t[n + 1]
  BY TotalIsLastSum
<1>3. /\ s[0] = 0 /\ \A i \in 1 .. n : s[i] = s[i - 1] + f[i]
      /\ t[0] = 0 /\ \A i \in 1 .. n + 1 : t[i] = t[i - 1] + g[i]
  BY <1>1, <1>2, NextSum
<1> DEFINE T == {i \in 0 .. n : t[i] # s[i]}
<1>4. T = {}
  <2> SUFFICES ASSUME T # {} PROVE FALSE
    OBVIOUS
  <2>1. T \in SUBSET Nat
    OBVIOUS
  <2>2. PICK i \in T : \A m \in T : i <= m
    BY <2>1, LeastNumber
  <2>3. i \in 0 .. n /\ t[i] # s[i]
    OBVIOUS
  <2>4. CASE i = 0
    BY <1>3, <2>3, <2>4
  <2>5. CASE i # 0
    <3>1. i - 1 \in 0 .. n /\ i \in 1 .. n /\ i \in 1 .. n + 1 /\ i - 1 \notin T
      BY <2>2, <2>3, <2>5
    <3> QED
      BY <1>3, <2>3, <3>1
  <2> QED
    BY <2>4, <2>5
<1>5. t[n] = s[n]
  BY <1>4
<1>6. n + 1 \in 1 .. n + 1 /\ (n + 1) - 1 = n
  OBVIOUS
<1> QED
  BY <1>1, <1>2, <1>3, <1>5, <1>6

\* A total of zeros.
LEMMA TotalOfZeros ==
  ASSUME NEW n \in Nat, NEW f, \A i \in 1 .. n : f[i] = 0
  PROVE  Total(f, n) = 0
<1>1. PICK s : Sums(f, n, s) /\ Total(f, n) = s[n]
  BY TotalIsLastSum
<1>2. s[0] = 0 /\ \A i \in 1 .. n : s[i] = s[i - 1] + f[i]
  BY <1>1, NextSum
<1> DEFINE T == {i \in 0 .. n : s[i] # 0}
<1>3. T = {}
  <2> SUFFICES ASSUME T # {} PROVE FALSE
    OBVIOUS
  <2>1. T \in SUBSET Nat
    OBVIOUS
  <2>2. PICK i \in T : \A m \in T : i <= m
    BY <2>1, LeastNumber
  <2>3. i # 0 /\ i - 1 \in 0 .. n /\ i \in 1 .. n /\ i - 1 \notin T
    BY <1>2, <2>2
  <2> QED
    BY <1>2, <2>3
<1> QED
  BY <1>1, <1>3

-----------------------------------------------------------------------------
(***************************************************************************)
(* Counting modulo a number.                                               *)
(***************************************************************************)

\* A counter that wraps at each addition is the sum, wrapped once.
LEMMA WrapsOnce ==
  ASSUME NEW w \in Nat \ {0}, NEW x \in Nat, NEW t \in Nat
  PROVE  ((x % w) + t) % w = (x + t) % w
<1> DEFINE q == x \div w
           r == x % w
           q1 == (r + t) \div w
           r1 == (r + t) % w
           q2 == (x + t) \div w
           r2 == (x + t) % w
<1>1. x = w * q + r /\ r \in 0 .. w - 1 /\ q \in Nat
  BY Divided
<1>2. r + t \in Nat /\ x + t \in Nat
  BY <1>1
<1>3. r + t = w * q1 + r1 /\ r1 \in 0 .. w - 1 /\ q1 \in Nat
  BY <1>2, Divided
<1>4. x + t = w * q2 + r2 /\ r2 \in 0 .. w - 1 /\ q2 \in Nat
  BY <1>2, Divided
<1> HIDE DEF q, r, q1, r1, q2, r2
<1>5. w * (q + q1) + r1 = w * q2 + r2
  <2>1. w * (q + q1) = w * q + w * q1
    BY <1>1, <1>3
  <2> QED
    BY <1>1, <1>3, <1>4, <2>1
<1>6. q + q1 \in Int /\ q2 \in Int
  BY <1>1, <1>3, <1>4
<1>7. r1 = r2
  BY <1>3, <1>4, <1>5, <1>6, OneRemainder
<1> QED
  BY <1>7 DEF r, r1, r2

-----------------------------------------------------------------------------
(***************************************************************************)
(* Flow logs.                                                              *)
(***************************************************************************)

\* Every request is somewhere in the order, once.
LEMMA Ordered ==
  /\ Cardinality(Request) \in Nat
  /\ inOrder \in [1 .. Cardinality(Request) -> Request]
  /\ \A i, j \in 1 .. Cardinality(Request) : inOrder[i] = inOrder[j] => i = j
  /\ \A r \in Request : \E i \in 1 .. Cardinality(Request) : inOrder[i] = r
<1> DEFINE n == Cardinality(Request)
<1>1. n \in Nat /\ ExistsBijection(1 .. n, Request)
  BY FiniteAssumption, FS_CardinalityType
<1>2. \E f \in [1 .. n -> Request] : IsInjective(f)
  BY <1>1 DEF ExistsBijection, Bijection, Injection
<1>3. inOrder \in [1 .. n -> Request] /\ IsInjective(inOrder)
  BY <1>2 DEF inOrder, SetToSeq
<1>4. inOrder \in Injection(1 .. n, Request)
  BY <1>3 DEF Injection
<1>5. Cardinality(1 .. n) = n
  BY <1>1, FS_Interval
<1>6. inOrder \in Surjection(1 .. n, Request)
  BY <1>4, <1>5, FiniteAssumption, FS_Injection
<1> QED
  BY <1>1, <1>3, <1>6 DEF IsInjective, Surjection

\* A log, read as a uint64.
LEMMA ReadAsUint64 ==
  ASSUME NEW x \in Int64
  PROVE  uint64(x) \in Nat
<1>1. x \in Int
  BY Uint64Assumption DEF Int64
<1> QED
  BY <1>1, Uint64Assumption DEF uint64

\* The bytes of an entry can be read from its log, although it may be negative.
LEMMA BackFromInt ==
  ASSUME NEW x \in 0 .. Uint64 - 1
  PROVE  uint64(int(x)) = x
<1> DEFINE w == Uint64
<1>1. w \in Nat \ {0} /\ x \in 0 .. w - 1
  BY Uint64Assumption
<1>2. CASE int(x) = x
  <2>1. x % w = x
    BY <1>1
  <2> QED
    BY <1>2, <2>1 DEF uint64
<1>3. CASE int(x) = x - w
  <2> DEFINE d == (x - w) \div w
             m == (x - w) % w
  <2>1. x - w = w * d + m /\ m \in 0 .. w - 1 /\ d \in Int
    BY <1>1
  <2> HIDE DEF d, m
  <2>2. w * d + m = w * (-1) + x
    BY <1>1, <2>1
  <2>3. m = x
    BY <1>1, <2>1, <2>2, OneRemainder
  <2> QED
    BY <1>3, <2>3 DEF uint64, m
<1> QED
  BY <1>2, <1>3 DEF int

\* The logs of a request give a series a number of bytes.
LEMMA LogsInNat ==
  ASSUME NEW logs \in Seq(FlowLog), NEW k
  PROVE  bytesIn(logs, k) \in Nat
<1> DEFINE n == Len(logs)
           f == [i \in DOMAIN logs |-> IF logs[i].src = k THEN uint64(logs[i].bytes) ELSE 0]
<1>1. n \in Nat /\ DOMAIN logs = 1 .. n /\ \A i \in 1 .. n : logs[i] \in FlowLog
  OBVIOUS
<1>2. \A i \in 1 .. n : f[i] \in Nat
  BY <1>1, ReadAsUint64 DEF FlowLog
<1>3. bytesIn(logs, k) = Total(f, n)
  BY DEF bytesIn
<1> HIDE DEF f, n
<1> QED
  BY <1>1, <1>2, <1>3, TotalInNat

\* One log more gives its series what the log says.
LEMMA OneLogMore ==
  ASSUME NEW logs \in Seq(FlowLog), NEW log \in FlowLog, NEW k
  PROVE  bytesIn(Append(logs, log), k) = bytesIn(logs, k) + (IF log.src = k THEN uint64(log.bytes) ELSE 0)
<1> DEFINE n == Len(logs)
           more == Append(logs, log)
           f == [i \in DOMAIN logs |-> IF logs[i].src = k THEN uint64(logs[i].bytes) ELSE 0]
           g == [i \in DOMAIN more |-> IF more[i].src = k THEN uint64(more[i].bytes) ELSE 0]
<1>1. n \in Nat /\ DOMAIN logs = 1 .. n
  OBVIOUS
<1>2. Len(more) = n + 1 /\ DOMAIN more = 1 .. n + 1 /\ more[n + 1] = log
      /\ \A i \in 1 .. n : more[i] = logs[i]
  OBVIOUS
<1>3. /\ \A i \in 1 .. n : g[i] = f[i]
      /\ g[n + 1] = IF log.src = k THEN uint64(log.bytes) ELSE 0
  BY <1>1, <1>2
<1>4. Total(g, n + 1) = Total(f, n) + g[n + 1]
  <2> HIDE DEF f, g, n
  <2> QED
    BY <1>1, <1>3, TotalOfOneMore
<1>5. bytesIn(logs, k) = Total(f, n) /\ bytesIn(more, k) = Total(g, n + 1)
  BY <1>2 DEF bytesIn
<1> HIDE DEF f, g
<1> QED
  BY <1>3, <1>4, <1>5

\* The logs of all requests give a series a number of bytes.
LEMMA LoggedInNat ==
  ASSUME TypeOK, NEW k
  PROVE  LoggedBytes(k) \in Nat
<1> DEFINE n == Cardinality(Request)
           f == [i \in 1 .. n |-> bytesIn(request[inOrder[i]].flowLogs, k)]
<1>1. n \in Nat
  BY Ordered
<1>2. ASSUME NEW i \in 1 .. n PROVE f[i] \in Nat
  <2>1. inOrder[i] \in Request
    BY Ordered
  <2>2. request[inOrder[i]].flowLogs \in Seq(FlowLog)
    BY <2>1 DEF TypeOK, RequestState
  <2> QED
    BY <2>2, LogsInNat
<1>3. LoggedBytes(k) = Total(f, n)
  BY DEF LoggedBytes
<1> HIDE DEF f, n
<1> QED
  BY <1>1, <1>2, <1>3, TotalInNat

\* Nothing logged, nothing added.
LEMMA LoggedKept ==
  ASSUME \A r \in Request : request'[r].flowLogs = request[r].flowLogs, NEW k
  PROVE  LoggedBytes(k)' = LoggedBytes(k)
<1>1. \A i \in 1 .. Cardinality(Request) :
        request'[inOrder[i]].flowLogs = request[inOrder[i]].flowLogs
  BY Ordered
<1> QED
  BY <1>1 DEF LoggedBytes

\* One log of one request adds what it says, to its series only.
LEMMA LoggedMore ==
  ASSUME TypeOK, NEW r \in Request, NEW log \in FlowLog, NEW k,
         request'[r].flowLogs = Append(request[r].flowLogs, log),
         \A p \in Request \ {r} : request'[p].flowLogs = request[p].flowLogs
  PROVE  LoggedBytes(k)' = LoggedBytes(k) + (IF log.src = k THEN uint64(log.bytes) ELSE 0)
<1> DEFINE n == Cardinality(Request)
           f == [i \in 1 .. n |-> bytesIn(request[inOrder[i]].flowLogs, k)]
           g == [i \in 1 .. n |-> bytesIn(request'[inOrder[i]].flowLogs, k)]
           d == IF log.src = k THEN uint64(log.bytes) ELSE 0
<1>1. n \in Nat /\ d \in Nat
  BY Ordered, ReadAsUint64 DEF FlowLog
<1>2. PICK j \in 1 .. n : inOrder[j] = r
  BY Ordered
<1>3. ASSUME NEW i \in 1 .. n PROVE f[i] \in Nat /\ g[i] = f[i] + (IF i = j THEN d ELSE 0)
  <2>1. inOrder[i] \in Request /\ (inOrder[i] = r <=> i = j)
    BY <1>2, Ordered
  <2>2. request[inOrder[i]].flowLogs \in Seq(FlowLog)
    BY <2>1 DEF TypeOK, RequestState
  <2>3. f[i] \in Nat
    BY <2>2, LogsInNat
  <2>4. CASE i = j
    <3>1. g[i] = bytesIn(Append(request[inOrder[i]].flowLogs, log), k)
      BY <2>1, <2>4
    <3> QED
      BY <2>2, <2>3, <2>4, <3>1, OneLogMore
  <2>5. CASE i # j
    <3>1. request'[inOrder[i]].flowLogs = request[inOrder[i]].flowLogs
      BY <2>1, <2>5
    <3>2. g[i] = f[i]
      BY <3>1
    <3> HIDE DEF f, g
    <3> QED
      BY <2>3, <2>5, <3>2
  <2> QED
    BY <2>3, <2>4, <2>5
<1>4. LoggedBytes(k) = Total(f, n) /\ LoggedBytes(k)' = Total(g, n)
  BY DEF LoggedBytes
<1>5. f[j] \in Nat /\ g[j] = f[j] + d
  BY <1>3
<1> HIDE DEF f, g, n
<1>6. \A i \in 1 .. n : f[i] \in Nat /\ g[i] \in Nat /\ (i # j => g[i] = f[i])
  BY <1>1, <1>3
<1>7. Total(g, n) + f[j] = Total(f, n) + g[j]
  <2>1. n \in Nat /\ j \in 1 .. n
    BY <1>1
  <2> HIDE DEF d
  <2>2. \A a, b : (\A i \in 1 .. n : a[i] \in Nat /\ b[i] \in Nat /\ (i # j => b[i] = a[i]))
                  => Total(b, n) + a[j] = Total(a, n) + b[j]
    BY <2>1, TotalChanges
  <2> QED
    BY <1>6, <2>2, Zenon
<1>8. Total(f, n) \in Nat /\ Total(g, n) \in Nat
  BY <1>1, <1>6, TotalInNat
<1>9. Total(g, n) = Total(f, n) + d
  <2> DEFINE t == Total(f, n)
             u == Total(g, n)
             x == f[j]
  <2>1. t \in Nat /\ u \in Nat /\ x \in Nat /\ d \in Nat
    BY <1>1, <1>5, <1>8, Zenon
  <2>2. u + x = t + (x + d)
    BY <1>5, <1>7, Zenon
  <2> HIDE DEF t, u, x, d
  <2>3. u = t + d
    BY <2>1, <2>2
  <2> QED
    BY <2>3 DEF t, u
<1> QED
  BY <1>4, <1>9

\* Before the first payload nothing is logged.
LEMMA NothingLogged ==
  ASSUME Init
  PROVE  CountersMatchLogs
<1>1. ASSUME NEW k PROVE LoggedBytes(k) = 0
  <2> DEFINE n == Cardinality(Request)
             f == [i \in 1 .. n |-> bytesIn(request[inOrder[i]].flowLogs, k)]
  <2>1. n \in Nat
    BY Ordered
  <2>2. bytesIn(<<>>, k) = 0
    <3>1. Len(<<>>) = 0
      OBVIOUS
    <3>2. \A h : Total(h, 0) = 0
      BY TotalOfZeros
    <3> QED
      BY <3>1, <3>2 DEF bytesIn
  <2>3. \A i \in 1 .. n : f[i] = 0
    BY <2>2, Ordered DEF Init
  <2>4. LoggedBytes(k) = Total(f, n)
    BY DEF LoggedBytes
  <2> HIDE DEF f, n
  <2> QED
    BY <2>1, <2>3, <2>4, TotalOfZeros
<1>2. \A n \in Node : NodeKey(n) \in SeriesKey
  BY DEF SeriesKey, NodeName
<1>3. \A k \in SeriesKey : statistics[k] = Absent
  BY DEF Init
<1>4. 0 % Uint64 = 0
  BY Uint64Assumption
<1>5. PodKey \subseteq SeriesKey
  BY DEF SeriesKey
<1> QED
  BY <1>1, <1>2, <1>3, <1>4, <1>5 DEF CountersMatchLogs

\* Counting an entry adds the same to a counter and to the logs.
LEMMA CountedAndLogged ==
  ASSUME TypeOK, CountersMatchLogs, NEW r \in Request, countEntry(r)
  PROVE  CountersMatchLogs'
<1> USE Uint64Assumption
<1> DEFINE entry == Head(request[r].data)
           src   == series(entry.SrcIP)
           log   == [src |-> src, dst |-> series(entry.DstIP), bytes |-> int(entry.Traffic)]
<1>1. request \in [Request -> RequestState] /\ request[r] \in RequestState /\ statistics \in Statistics
  BY DEF TypeOK
<1>2. entry \in Entry
  BY <1>1 DEF countEntry, RequestState
<1>3. entry.SrcIP \in IP /\ entry.DstIP \in IP /\ entry.Traffic \in 0 .. Uint64 - 1
  BY <1>2 DEF Entry
<1>4. CASE crossZone(entry)
  <2>1. src \in SeriesKey /\ series(entry.DstIP) \in SeriesKey
    BY <1>3, <1>4, ResolvedSeries DEF crossZone
  <2>2. log \in FlowLog /\ log.src = src /\ uint64(log.bytes) = entry.Traffic
    BY <1>3, <2>1, FitsAnInt, BackFromInt DEF FlowLog
  <2>3. /\ statistics' = [statistics EXCEPT ![src] = added(src, entry.Traffic)]
        /\ request' = [request EXCEPT ![r].data = Tail(@), ![r].flowLogs = Append(@, log)]
    BY <1>4 DEF countEntry
  <2>4. /\ request'[r].flowLogs = Append(request[r].flowLogs, log)
        /\ \A p \in Request \ {r} : request'[p].flowLogs = request[p].flowLogs
    BY <1>1, <2>3 DEF RequestState
  <2> DEFINE t == entry.Traffic
             old == IF statistics[src] = Absent THEN 0 ELSE statistics[src]
  <2>5. \A k : LoggedBytes(k)' = LoggedBytes(k) + (IF src = k THEN t ELSE 0)
    BY <2>2, <2>4, LoggedMore
  <2>6. \A k : LoggedBytes(k) \in Nat
    BY LoggedInNat
  <2>7. t \in Nat /\ t < Uint64 /\ old \in Nat
    BY <1>1, <1>3, <2>1 DEF Statistics
  <2>8. /\ statistics'[src] = (old + t) % Uint64
        /\ \A k \in SeriesKey \ {src} : statistics'[k] = statistics[k]
    BY <1>1, <2>1, <2>3 DEF added, Statistics
  <2>9. statistics'[src] # Absent
    BY <2>1, <2>3, <1>1, <1>3, AddedInRange, AbsentAssumption DEF Statistics
  <2> HIDE DEF entry, src, log, t, old
  <2>10. ASSUME NEW n \in Node
         PROVE  (IF statistics'[NodeKey(n)] = Absent THEN 0 ELSE statistics'[NodeKey(n)])
                  = LoggedBytes(NodeKey(n))' % Uint64
    <3>1. NodeKey(n) \in SeriesKey
      BY DEF SeriesKey, NodeName
    <3>2. (IF statistics[NodeKey(n)] = Absent THEN 0 ELSE statistics[NodeKey(n)])
            = LoggedBytes(NodeKey(n)) % Uint64
      BY DEF CountersMatchLogs
    <3>3. CASE NodeKey(n) = src
      <4>1. old = LoggedBytes(src) % Uint64
        BY <3>2, <3>3 DEF old
      <4>2. ((LoggedBytes(src) % Uint64) + t) % Uint64 = (LoggedBytes(src) + t) % Uint64
        BY <2>6, <2>7, WrapsOnce
      <4> QED
        BY <2>5, <2>8, <2>9, <3>3, <4>1, <4>2
    <3>4. CASE NodeKey(n) # src
      <4>1. LoggedBytes(NodeKey(n))' = LoggedBytes(NodeKey(n))
        BY <2>5, <2>6, <3>4
      <4> QED
        BY <2>8, <3>1, <3>2, <3>4, <4>1
    <3> QED
      BY <3>3, <3>4
  <2>11. ASSUME NEW k \in PodKey, statistics'[k] # Absent, LoggedBytes(k)' < Uint64
         PROVE  statistics'[k] <= LoggedBytes(k)'
    <3>1. k \in SeriesKey
      BY DEF SeriesKey
    <3>2. CASE k = src
      <4>1. LoggedBytes(k)' = LoggedBytes(k) + t /\ LoggedBytes(k) < Uint64
        BY <2>5, <2>6, <2>7, <2>11, <3>2
      <4>2. old <= LoggedBytes(k)
        BY <2>6, <3>2, <4>1 DEF CountersMatchLogs, old
      <4>3. old + t <= LoggedBytes(k) + t /\ old + t < Uint64
        BY <2>6, <2>7, <2>11, <4>1, <4>2
      <4>4. (old + t) % Uint64 = old + t
        BY <2>7, <4>3
      <4> QED
        BY <2>8, <3>2, <4>1, <4>3, <4>4
    <3>3. CASE k # src
      <4>1. LoggedBytes(k)' = LoggedBytes(k)
        BY <2>5, <2>6, <3>3
      <4> QED
        BY <2>8, <2>11, <3>1, <3>3, <4>1 DEF CountersMatchLogs
    <3> QED
      BY <3>2, <3>3
  <2> QED
    BY <2>10, <2>11 DEF CountersMatchLogs
<1>5. CASE ~crossZone(entry)
  <2>1. request' = [request EXCEPT ![r].data = Tail(@)] /\ UNCHANGED statistics
    BY <1>5 DEF countEntry
  <2>2. \A p \in Request : request'[p].flowLogs = request[p].flowLogs
    BY <1>1, <2>1 DEF RequestState
  <2>3. \A k : LoggedBytes(k)' = LoggedBytes(k)
    BY <2>2, LoggedKept
  <2> QED
    BY <2>1, <2>3 DEF CountersMatchLogs
<1> QED
  BY <1>4, <1>5

\* The metrics and the flow logs never part: the counter of a node is the sum
\* of what all flow logs give it, wrapped once, for any number of payloads of any
\* length and however often it has wrapped, and a pod's, which a deletion resets,
\* never exceeds it.
THEOREM CountersAlwaysMatchLogs == Spec => []CountersMatchLogs
<1>1. Init => CountersMatchLogs
  BY NothingLogged
<1>2. TypeOK /\ CountersMatchLogs /\ [Next]_vars => CountersMatchLogs'
  <2> SUFFICES ASSUME TypeOK, CountersMatchLogs, [Next]_vars PROVE CountersMatchLogs'
    OBVIOUS
  <2>1. ASSUME UNCHANGED <<statistics, request>> PROVE CountersMatchLogs'
    <3>1. \A k : LoggedBytes(k)' = LoggedBytes(k)
      BY <2>1, LoggedKept
    <3> QED
      BY <2>1, <3>1 DEF CountersMatchLogs
  <2>2. CASE PodEvent
    <3>1. PICK pod \in PodObject : onPodAdd(pod) \/ onPodUpdate(pod) \/ onPodDelete(pod)
      BY <2>2 DEF PodEvent
    <3>2. CASE onPodAdd(pod) \/ onPodUpdate(pod)
      BY <2>1, <3>2 DEF onPodAdd, onPodUpdate, handlePod
    <3>3. CASE onPodDelete(pod)
      <4>1. pod.key \in PodKey
        BY InputAssumption
      <4>2. UNCHANGED request /\ statistics' = [statistics EXCEPT ![pod.key] = Absent]
        BY <3>3 DEF onPodDelete
      <4>3. \A k : LoggedBytes(k)' = LoggedBytes(k)
        BY <4>2, LoggedKept
      <4>4. \A n \in Node : NodeKey(n) \in SeriesKey /\ NodeKey(n) # pod.key
        BY <4>1, NamespaceAssumption DEF SeriesKey, NodeKey, NodeName, PodKey
      <4>5. \A k \in SeriesKey : statistics'[k] = IF k = pod.key THEN Absent ELSE statistics[k]
        BY <4>2 DEF TypeOK, Statistics
      <4>6. PodKey \subseteq SeriesKey
        BY DEF SeriesKey
      <4> QED
        BY <4>3, <4>4, <4>5, <4>6 DEF CountersMatchLogs
    <3> QED
      BY <3>1, <3>2, <3>3
  <2>3. CASE NodeEvent
    BY <2>1, <2>3 DEF NodeEvent, onNodeAdd, onNodeUpdate, onNodeDelete
  <2>4. ASSUME NEW r \in Request, handlePayload(r) PROVE CountersMatchLogs'
    <3>1. CASE countEntry(r)
      BY <3>1, CountedAndLogged
    <3>2. CASE rejectPayload(r) \/ decodePayload(r) \/ lockPayload(r) \/ unlockPayload(r)
      <4>1. UNCHANGED statistics
        BY <3>2 DEF rejectPayload, decodePayload, lockPayload, unlockPayload
      <4>2. \A p \in Request : request'[p].flowLogs = request[p].flowLogs
        <5>1. request \in [Request -> RequestState]
          BY DEF TypeOK
        <5>2. CASE rejectPayload(r)
          BY <5>1, <5>2 DEF rejectPayload, RequestState
        <5>3. CASE decodePayload(r)
          BY <5>1, <5>3 DEF decodePayload, RequestState
        <5>4. CASE lockPayload(r)
          BY <5>1, <5>4 DEF lockPayload, RequestState
        <5>5. CASE unlockPayload(r)
          BY <5>1, <5>5 DEF unlockPayload, RequestState
        <5> QED
          BY <3>2, <5>2, <5>3, <5>4, <5>5
      <4>3. \A k : LoggedBytes(k)' = LoggedBytes(k)
        BY <4>2, LoggedKept
      <4> QED
        BY <4>1, <4>3 DEF CountersMatchLogs
    <3> QED
      BY <2>4, <3>1, <3>2 DEF handlePayload
  <2>5. CASE \E s \in Scrape : Collect(s)
    BY <2>1, <2>5 DEF Collect, lockCollect, sendMetric, unlockCollect
  <2>6. CASE UNCHANGED vars
    BY <2>1, <2>6 DEF vars
  <2> QED
    BY <2>2, <2>3, <2>4, <2>5, <2>6 DEF Next
<1> QED
  BY <1>1, <1>2, Typed, PTL DEF Spec
==============================================================================
