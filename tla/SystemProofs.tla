----------------------------- MODULE SystemProofs -----------------------------
(***************************************************************************)
(* From a packet to the server's counters at most once, for any number of  *)
(* nodes, packets, flows and slots, with agents that end and start again,  *)
(* stale stores and lost answers.                                          *)
(***************************************************************************)
EXTENDS System, FiniteSetTheorems, TLAPS

USE AgentAssumption

Table == [Flow -> SUBSET Packet]

\* What a hook makes of a table is a table, with no packet more than its own.
LEMMA AfterAdds ==
  ASSUME NEW t \in Table, NEW p \in Packet, NEW u \in after(t, p)
  PROVE  u \in Table /\ \A f \in Flow : u[f] \subseteq t[f] \cup {p}
<1>1. CASE u = t
  BY <1>1
<1>2. CASE u = [t EXCEPT ![flowOf[p]] = {p}]
  BY <1>2 DEF Table
<1>3. CASE \E f \in Flow : u = [t EXCEPT ![f] = @ \cup {p}]
  BY <1>3 DEF Table
<1> QED
  BY <1>1, <1>2, <1>3 DEF after

\* What a flush has read are entries.
LEMMA BatchTyped ==
  ASSUME TypeOK, \A n \in Node : \A i \in 1 .. filled[n] : keys[n][i] \in Entry, NEW n \in Node
  PROVE  batch(n) \subseteq Entry
BY DEF batch

\* What a step of an agent leaves of its slots.
LEMMA BatchKept ==
  ASSUME TypeOK, NEW n \in Node,
         \/ UNCHANGED <<keys, filled>>
         \/ filled' = [filled EXCEPT ![n] = 0] /\ \A m \in Node \ {n} : keys'[m] = keys[m]
  PROVE  \A m \in Node : batch(m)' \subseteq batch(m)
<1>1. CASE UNCHANGED <<keys, filled>>
  BY <1>1 DEF batch
<1>2. CASE filled' = [filled EXCEPT ![n] = 0] /\ \A m \in Node \ {n} : keys'[m] = keys[m]
  <2>1. filled'[n] = 0 /\ \A m \in Node \ {n} : filled'[m] = filled[m]
    BY <1>2 DEF TypeOK
  <2>2. batch(n)' = {}
    BY <2>1 DEF batch
  <2>3. \A m \in Node \ {n} : batch(m)' = batch(m)
    BY <1>2, <2>1 DEF batch
  <2> QED
    BY <2>2, <2>3
<1> QED
  BY <1>1, <1>2

\* Reading a flow moves it from the map to the slots.
LEMMA ReadMoves ==
  ASSUME TypeOK, NEW n \in Node, NEW f \in Flow, readFlow(n, f)
  PROVE  /\ \A m \in Node : batch(m)' \subseteq
              batch(m) \cup {e \in {[flow |-> f, packets |-> tally[n][f]]} : m = n}
         /\ \A m \in Node : \A g \in Flow :
              tally'[m][g] = IF m = n /\ g = f THEN {} ELSE tally[m][g]
<1> DEFINE e == [flow |-> f, packets |-> tally[n][f]]
<1>1. /\ keys' = [keys EXCEPT ![n][filled[n] + 1] = e]
      /\ filled' = [filled EXCEPT ![n] = @ + 1]
      /\ tally' = [tally EXCEPT ![n] = without(@, {f})]
      /\ filled[n] < Size
  BY DEF readFlow
<1> HIDE DEF e
<1>2. /\ filled'[n] = filled[n] + 1
      /\ \A i \in 1 .. filled[n] : keys'[n][i] = keys[n][i]
      /\ keys'[n][filled[n] + 1] = e
  BY <1>1 DEF TypeOK
<1>3. \A m \in Node \ {n} : filled'[m] = filled[m] /\ keys'[m] = keys[m]
  BY <1>1 DEF TypeOK
<1>4. batch(n)' \subseteq batch(n) \cup {e}
  <2>1. \A i \in 1 .. filled[n] + 1 : i \in 1 .. filled[n] \/ i = filled[n] + 1
    BY DEF TypeOK
  <2> QED
    BY <1>2, <2>1 DEF batch
<1>5. \A m \in Node \ {n} : batch(m)' = batch(m)
  BY <1>3 DEF batch
<1>6. \A m \in Node : \A g \in Flow :
        tally'[m][g] = IF m = n /\ g = f THEN {} ELSE tally[m][g]
  BY <1>1 DEF TypeOK, without
<1> QED
  BY <1>4, <1>5, <1>6 DEF e

-----------------------------------------------------------------------------
(***************************************************************************)
(* Type correctness.  The slots up to n hold entries.                      *)
(***************************************************************************)

SlotsFilled == \A n \in Node : \A i \in 1 .. filled[n] : keys[n][i] \in Entry

\* The entries of a flush, and those of a report, are finitely many and of
\* different flows.
OneEach(es) == IsFiniteSet(es) /\ \A d, e \in es : d.flow = e.flow => d = e

EntriesApart ==
  /\ \A n \in Node : OneEach(batch(n))
  /\ \A r \in net : OneEach(r.entries)

TInv == TypeOK /\ SlotsFilled /\ EntriesApart

\* So are some of them.
LEMMA OneEachOfSome ==
  ASSUME NEW es, OneEach(es), NEW fs \in SUBSET es
  PROVE  OneEach(fs)
<1>1. IsFiniteSet(fs)
  BY FS_Subset DEF OneEach
<1> QED
  BY <1>1 DEF OneEach

\* The slots that no step fills stay as they are, or are given up.
LEMMA ApartUnlessRead ==
  ASSUME EntriesApart, \A n \in Node : batch(n)' \subseteq batch(n), net' \subseteq net
  PROVE  EntriesApart'
<1>1. ASSUME NEW n \in Node PROVE OneEach(batch(n)')
  BY OneEachOfSome DEF EntriesApart
<1>2. \A r \in net' : OneEach(r.entries)
  BY DEF EntriesApart
<1> QED
  BY <1>1, <1>2 DEF EntriesApart, OneEach

\* A flow that is read is not among those of the slots.
LEMMA ApartAfterRead ==
  ASSUME TypeOK, EntriesApart, NEW n \in Node, NEW f \in Flow, readFlow(n, f)
  PROVE  EntriesApart'
<1> DEFINE e == [flow |-> f, packets |-> tally[n][f]]
<1>1. \A m \in Node : batch(m)' \subseteq batch(m) \cup {x \in {e} : m = n}
  BY ReadMoves
<1>2. net' = net /\ e.flow = f /\ \A d \in batch(n) : d.flow # f
  BY DEF readFlow
<1> HIDE DEF e
<1>3. OneEach(batch(n) \cup {e})
  <2>1. IsFiniteSet(batch(n) \cup {e})
    BY FS_AddElement DEF EntriesApart, OneEach
  <2> QED
    BY <1>2, <2>1 DEF EntriesApart, OneEach
<1>4. ASSUME NEW m \in Node PROVE OneEach(batch(m)')
  <2>1. CASE m = n
    <3>1. batch(m)' \in SUBSET (batch(n) \cup {e})
      BY <1>1, <2>1
    <3> QED
      BY <1>3, <3>1, OneEachOfSome
  <2>2. CASE m # n
    <3>1. batch(m)' \in SUBSET batch(m)
      BY <1>1, <2>2
    <3> QED
      BY <3>1, OneEachOfSome DEF EntriesApart
  <2> QED
    BY <2>1, <2>2
<1>5. \A r \in net' : OneEach(r.entries)
  BY <1>2 DEF EntriesApart
<1> QED
  BY <1>4, <1>5 DEF EntriesApart, OneEach

\* A report has some of the entries of its flush.
LEMMA ApartAfterSend ==
  ASSUME TypeOK, EntriesApart, NEW n \in Node, send(n)
  PROVE  EntriesApart'
<1>1. PICK final \in SUBSET batch(n) :
        net' = IF final = {} THEN net ELSE net \cup {[from |-> n, entries |-> final]}
  BY DEF send, sendDataToServer, filterSrcIpOnCurrentHost
<1>2. filled' = [filled EXCEPT ![n] = 0] /\ UNCHANGED keys
  BY DEF send, sendDataToServer, nextIteration
<1>3. ASSUME NEW m \in Node PROVE OneEach(batch(m)')
  <2>1. batch(m)' \in SUBSET batch(m)
    BY <1>2, BatchKept
  <2> QED
    BY <2>1, OneEachOfSome DEF EntriesApart
<1>4. OneEach(final)
  BY <1>1, OneEachOfSome DEF EntriesApart
<1>5. \A r \in net' : OneEach(r.entries)
  BY <1>1, <1>4 DEF EntriesApart
<1> QED
  BY <1>3, <1>5 DEF EntriesApart, OneEach

\* Every step keeps the entries apart.
LEMMA ApartKept ==
  ASSUME TypeOK, EntriesApart, [Next]_vars
  PROVE  EntriesApart'
<1>1. ASSUME NEW n \in Node, Loop(n) PROVE EntriesApart'
  <2>1. CASE send(n)
    BY <2>1, ApartAfterSend
  <2>2. CASE \E f \in Flow : readFlow(n, f)
    BY <2>2, ApartAfterRead
  <2>3. CASE ~(send(n) \/ \E f \in Flow : readFlow(n, f))
    <3>1. /\ net' = net
          /\ \/ UNCHANGED <<keys, filled>>
             \/ /\ filled' = [filled EXCEPT ![n] = 0]
                /\ keys' = keys \/ keys' = [keys EXCEPT ![n] = NoEntries]
      BY <1>1, <2>3 DEF Loop, start, terminate, exit, kill, ends, onTick, noData, readError,
                        nextIteration, postEnds, informer
    <3>2. \A m \in Node : batch(m)' \subseteq batch(m)
      BY <3>1, BatchKept DEF TypeOK
    <3> QED
      BY <3>1, <3>2, ApartUnlessRead
  <2> QED
    BY <2>1, <2>2, <2>3
<1>2. CASE UNCHANGED <<keys, filled>> /\ net' \subseteq net
  <2>1. \A m \in Node : batch(m)' \subseteq batch(m)
    BY <1>2 DEF batch
  <2> QED
    BY <1>2, <2>1, ApartUnlessRead
<1>3. ASSUME NEW p \in Packet, pass(p) PROVE EntriesApart'
  BY <1>2, <1>3 DEF pass, hook, agentVars
<1>4. ASSUME NEW r \in net, handlePayload(r) \/ lose(r) PROVE EntriesApart'
  BY <1>2, <1>4 DEF handlePayload, lose
<1>5. CASE UNCHANGED vars
  BY <1>2, <1>5 DEF vars, agentVars
<1> QED
  BY <1>1, <1>3, <1>4, <1>5 DEF Next, agent

\* How many entries of a report have a packet is a number, not zero if one does.
LEMMA EntriesWith ==
  ASSUME EntriesApart, NEW r \in net, NEW known \in SUBSET r.entries, NEW p
  PROVE  /\ Cardinality({e \in known : p \in e.packets}) \in Nat
         /\ Cardinality({e \in known : p \in e.packets}) = 0 <=> p \notin inEntries(known)
<1> DEFINE with == {e \in known : p \in e.packets}
<1>1. IsFiniteSet(with)
  <2>1. with \in SUBSET r.entries /\ IsFiniteSet(r.entries)
    BY DEF EntriesApart, OneEach
  <2> HIDE DEF with
  <2> QED
    BY <2>1, FS_Subset
<1>2. with = {} <=> p \notin inEntries(known)
  BY DEF inEntries
<1> HIDE DEF with
<1>3. Cardinality(with) \in Nat
  BY <1>1, FS_CardinalityType
<1>4. Cardinality(with) = 0 <=> with = {}
  BY <1>1, FS_EmptySet
<1> QED
  BY <1>2, <1>3, <1>4 DEF with

\* At the start no slot is filled and nothing is under way.
LEMMA StartsTyped == Init => TInv
<1> SUFFICES ASSUME Init PROVE TInv
  OBVIOUS
<1>1. TypeOK /\ SlotsFilled
  BY DEF Init, AInit, TypeOK, SlotsFilled, NoEntries, Empty
<1>2. net = {} /\ \A n \in Node : batch(n) = {}
  BY DEF Init, AInit, batch
<1>3. OneEach({})
  BY FS_EmptySet DEF OneEach
<1> QED
  BY <1>1, <1>2, <1>3 DEF TInv, EntriesApart

\* Every step keeps the types, and the slots up to n filled.
LEMMA TypesKept ==
  ASSUME TypeOK, SlotsFilled, EntriesApart, [Next]_vars
  PROVE  TypeOK' /\ SlotsFilled'
<1>0. \A r \in net : \A known \in SUBSET r.entries : \A p \in Packet :
        Cardinality({e \in known : p \in e.packets}) \in Nat
  <2> SUFFICES ASSUME NEW r \in net, NEW known \in SUBSET r.entries, NEW p \in Packet
               PROVE  Cardinality({e \in known : p \in e.packets}) \in Nat
    OBVIOUS
  <2>1. /\ Cardinality({e \in known : p \in e.packets}) \in Nat
        /\ Cardinality({e \in known : p \in e.packets}) = 0 <=> p \notin inEntries(known)
    BY EntriesWith
  <2> QED
    BY <2>1
<1> USE DEF TypeOK
<1>1. ASSUME NEW n \in Node, start(n), UNCHANGED outside PROVE TypeOK' /\ SlotsFilled'
  BY <1>1 DEF start, goto, outside, SlotsFilled
<1>2. ASSUME NEW n \in Node, terminate(n), UNCHANGED outside PROVE TypeOK' /\ SlotsFilled'
  BY <1>2 DEF terminate, outside, SlotsFilled
<1>3. ASSUME NEW n \in Node, exit(n) \/ kill(n), UNCHANGED outside PROVE TypeOK' /\ SlotsFilled'
  <2>1. PICK ps : ends(n, ps) /\ ps \subseteq Packet
    <3>1. inEntries(batch(n)) \subseteq Packet
      BY BatchTyped DEF inEntries, Entry, SlotsFilled
    <3> QED
      BY <1>3, <3>1 DEF exit, kill
  <2>2. packets(tally[n]) \subseteq Packet
    BY DEF packets
  <2>3. lost' \in [Node -> SUBSET Packet]
    BY <2>1, <2>2 DEF ends, givesUp
  <2>4. /\ run' \in [Node -> {"down", "select", "reading", "posting"}]
        /\ tally' \in [Node -> [Flow -> SUBSET Packet]]
        /\ keys' \in [Node -> [1 .. Size -> Entry \cup {NoEntry}]]
        /\ filled' \in [Node -> 0 .. Size]
        /\ store' \in [Node -> SUBSET IP]
        /\ stop' \in [Node -> BOOLEAN]
        /\ asked' \in [Node -> BOOLEAN]
    BY <2>1 DEF ends, goto, Empty, NoEntries
  <2>5. SlotsFilled'
    BY <2>1 DEF ends, SlotsFilled
  <2> QED
    BY <1>3, <2>1, <2>3, <2>4, <2>5 DEF ends, outside
<1>4. ASSUME NEW n \in Node, onTick(n) \/ noData(n) \/ postEnds(n), UNCHANGED outside PROVE TypeOK' /\ SlotsFilled'
  BY <1>4 DEF onTick, noData, postEnds, goto, outside, SlotsFilled
<1>5. ASSUME NEW n \in Node, readError(n), UNCHANGED outside PROVE TypeOK' /\ SlotsFilled'
  <2>1. inEntries(batch(n)) \subseteq Packet
    BY BatchTyped DEF inEntries, Entry, SlotsFilled
  <2> QED
    BY <1>5, <2>1 DEF readError, goto, nextIteration, givesUp, outside, SlotsFilled
<1>6. ASSUME NEW n \in Node, send(n), UNCHANGED outside PROVE TypeOK' /\ SlotsFilled'
  <2> DEFINE final == IF SendData THEN filterSrcIpOnCurrentHost(n, batch(n)) ELSE {}
  <2>1. batch(n) \subseteq Entry
    BY BatchTyped DEF SlotsFilled
  <2>2. final \subseteq Entry
    BY <2>1 DEF filterSrcIpOnCurrentHost
  <2>3. inEntries(batch(n) \ final) \subseteq Packet
    BY <2>1 DEF inEntries, Entry
  <2>4. /\ run' = [run EXCEPT ![n] = IF final = {} THEN "select" ELSE "posting"]
        /\ net' = IF final = {} THEN net ELSE net \cup {[from |-> n, entries |-> final]}
        /\ filled' = [filled EXCEPT ![n] = 0]
        /\ lost' = [lost EXCEPT ![n] = @ \cup inEntries(batch(n) \ final)]
        /\ UNCHANGED <<tally, keys, store, stop, asked, strayed>>
    BY <1>6 DEF send, sendDataToServer, goto, nextIteration, givesUp
  <2> HIDE DEF final
  <2>5. net' \subseteq Report
    BY <2>2, <2>4 DEF Report
  <2>6. lost' \in [Node -> SUBSET Packet]
    BY <2>3, <2>4
  <2>7. run' \in [Node -> {"down", "select", "reading", "posting"}]
    BY <2>4
  <2>8. filled' \in [Node -> 0 .. Size] /\ SlotsFilled'
    BY <2>4 DEF SlotsFilled
  <2> QED
    BY <1>6, <2>4, <2>5, <2>6, <2>7, <2>8 DEF outside
<1>7. ASSUME NEW n \in Node, NEW f \in Flow, readFlow(n, f), UNCHANGED outside PROVE TypeOK' /\ SlotsFilled'
  <2> DEFINE e == [flow |-> f, packets |-> tally[n][f]]
  <2>1. e \in Entry /\ filled[n] + 1 \in 1 .. Size
    BY <1>7 DEF Entry, readFlow
  <2>2. /\ keys' = [keys EXCEPT ![n][filled[n] + 1] = e]
        /\ filled' = [filled EXCEPT ![n] = @ + 1]
        /\ tally' = [tally EXCEPT ![n] = without(@, {f})]
        /\ UNCHANGED <<run, store, stop, asked, net, lost, strayed>>
    BY <1>7 DEF readFlow
  <2> HIDE DEF e
  <2>3. keys' \in [Node -> [1 .. Size -> Entry \cup {NoEntry}]]
    BY <2>1, <2>2
  <2>4. tally' \in [Node -> [Flow -> SUBSET Packet]]
    BY <2>2 DEF without
  <2>5. filled' \in [Node -> 0 .. Size]
    BY <2>1, <2>2
  <2>6. SlotsFilled'
    BY <2>1, <2>2 DEF SlotsFilled
  <2> QED
    BY <1>7, <2>2, <2>3, <2>4, <2>5, <2>6 DEF outside
<1>8. ASSUME NEW n \in Node, informer(n), UNCHANGED outside PROVE TypeOK' /\ SlotsFilled'
  BY <1>8 DEF informer, outside, SlotsFilled
<1>9. ASSUME NEW p \in Packet, pass(p) PROVE TypeOK' /\ SlotsFilled'
  <2>1. next(p) \in Node
    BY DEF next, source, destination
  <2>2. trip' \in [Packet -> {"source", "destination", "done"}] /\ UNCHANGED credits
    BY <1>9 DEF pass
  <2>3. CASE hook(next(p), p)
    <3>1. PICK t \in after(tally[next(p)], p) :
            /\ tally' = [tally EXCEPT ![next(p)] = t]
            /\ givesUp(next(p), (packets(tally[next(p)]) \cup {p}) \ packets(t))
      BY <2>3 DEF hook
    <3>2. t \in Table
      BY <2>1, <3>1, AfterAdds DEF Table
    <3>3. tally' \in [Node -> [Flow -> SUBSET Packet]]
      BY <3>1, <3>2 DEF Table
    <3>4. packets(tally[next(p)]) \subseteq Packet
      BY <2>1 DEF packets
    <3>5. lost' \in [Node -> SUBSET Packet]
      BY <3>1, <3>4 DEF givesUp
    <3>6. strayed' \subseteq Packet
      BY <2>3 DEF hook
    <3> QED
      BY <2>2, <2>3, <3>3, <3>5, <3>6 DEF hook, SlotsFilled
  <2>4. CASE UNCHANGED agentVars
    BY <2>2, <2>4 DEF agentVars, SlotsFilled
  <2> QED
    BY <1>9, <2>3, <2>4 DEF pass
<1>10. ASSUME NEW r \in net, handlePayload(r) \/ lose(r) PROVE TypeOK' /\ SlotsFilled'
  <2>1. r.from \in Node /\ r.entries \subseteq Entry
    BY DEF Report
  <2>2. PICK es \in SUBSET r.entries : givesUp(r.from, inEntries(es))
    BY <1>10 DEF handlePayload, lose
  <2>3. inEntries(es) \subseteq Packet
    BY <2>1, <2>2 DEF inEntries, Entry
  <2>4. lost' \in [Node -> SUBSET Packet]
    BY <2>2, <2>3 DEF givesUp
  <2>5. credits' \in [Packet -> Nat]
    <3>1. CASE handlePayload(r)
      <4>1. PICK known \in SUBSET r.entries :
              credits' = [p \in Packet |-> credits[p] + Cardinality({e \in known : p \in e.packets})]
        BY <3>1 DEF handlePayload
      <4>2. \A p \in Packet : Cardinality({e \in known : p \in e.packets}) \in Nat
        BY <1>0, <1>10, <4>1
      <4>3. ASSUME NEW p \in Packet
            PROVE  credits[p] + Cardinality({e \in known : p \in e.packets}) \in Nat
        <5>1. credits[p] \in Nat /\ Cardinality({e \in known : p \in e.packets}) \in Nat
          BY <4>2
        <5> QED
          BY ONLY <5>1
      <4> QED
        BY <4>1, <4>3
    <3>2. CASE lose(r)
      BY <3>2 DEF lose, outside
    <3> QED
      BY <1>10, <3>1, <3>2
  <2> QED
    BY <1>10, <2>4, <2>5 DEF handlePayload, lose, outside, SlotsFilled
<1>11. CASE UNCHANGED vars
  BY <1>11 DEF vars, agentVars, outside, SlotsFilled
<1> QED
  BY <1>1, <1>2, <1>3, <1>4, <1>5, <1>6, <1>7, <1>8, <1>9, <1>10, <1>11 DEF Next, agent, Loop

\* Types, slots and entries of every reachable state.
LEMMA AlwaysTInv == Spec => []TInv
<1>1. TInv /\ [Next]_vars => TInv'
  BY ApartKept, TypesKept DEF TInv
<1> QED
  BY <1>1, StartsTyped, PTL DEF Spec

\* Loops, slots, reports and counters stay well typed, and a flush only hands on
\* slots it has filled.
THEOREM Typed == Spec => [](TypeOK /\ SlotsFilled)
<1>1. TInv => TypeOK /\ SlotsFilled
  BY DEF TInv
<1> QED
  BY <1>1, AlwaysTInv, PTL

-----------------------------------------------------------------------------
(***************************************************************************)
(* A packet is in one place on its way from the map of its source node to  *)
(* the server: in the map, in the slots of a flush, in a report, or        *)
(* counted.  It is in no other agent's reports, because a store only has   *)
(* addresses of its node.                                                  *)
(***************************************************************************)

StoresLocal == \A n \in Node : \A ip \in store[n] : home[ip] = n

TwoHooks == \A p \in Packet : trip[p] = "destination" => source(p) # destination(p)

Carries(r, p) == \E e \in r.entries : p \in e.packets

AtMap(p) == \E f \in Flow : p \in tally[source(p)][f]

Read(p) == \E e \in batch(source(p)) : p \in e.packets

Unsent(p) == credits[p] = 0 /\ \A r \in net : ~Carries(r, p)

\* A packet that did not stray is only found under its flow, and under way only
\* in reports of its source node.
Own(p) ==
  /\ \A n \in Node : \A f \in Flow : p \in tally[n][f] => f = flowOf[p]
  /\ \A n \in Node : \A e \in batch(n) : p \in e.packets => e.flow = flowOf[p]
  /\ \A r \in net : Carries(r, p) => r.from = source(p)
  /\ \A r \in net : \A e \in r.entries : p \in e.packets => e.flow = flowOf[p]

\* It is in at most one place.
Once(p) ==
  /\ trip[p] = "source" => ~AtMap(p) /\ ~Read(p) /\ Unsent(p)
  /\ AtMap(p) => ~Read(p) /\ Unsent(p)
  /\ Read(p) => Unsent(p)
  /\ \A r, s \in net : Carries(r, p) /\ Carries(s, p) => r = s /\ credits[p] = 0
  /\ credits[p] <= 1

CInv ==
  /\ TInv
  /\ StoresLocal
  /\ TwoHooks
  /\ \A p \in Packet \ strayed : Own(p) /\ Once(p)

\* A step that takes a packet nowhere it was not keeps it where it may be.
LEMMA Stays ==
  ASSUME NEW p \in Packet, Own(p), Once(p),
         \A n \in Node : \A f \in Flow : p \in tally'[n][f] => p \in tally[n][f],
         \A n \in Node : batch(n)' \subseteq batch(n),
         net' \subseteq net,
         credits'[p] = credits[p],
         trip'[p] = "source" => trip[p] = "source"
  PROVE  Own(p)' /\ Once(p)'
<1>1. source(p) \in Node
  BY DEF source
<1>2. AtMap(p)' => AtMap(p)
  BY <1>1 DEF AtMap, source
<1>3. Read(p)' => Read(p)
  BY <1>1 DEF Read, source
<1>4. Unsent(p) => Unsent(p)'
  BY DEF Unsent, Carries
<1>5. Own(p)'
  BY DEF Own, Carries, source
<1>6. Once(p)'
  BY <1>2, <1>3, <1>4 DEF Once, Carries
<1> QED
  BY <1>5, <1>6

\* A report that is sent takes the packets it carries out of the slots.
LEMMA SendMoves ==
  ASSUME CInv, NEW n \in Node, send(n), UNCHANGED outside, NEW p \in Packet \ strayed
  PROVE  Own(p)' /\ Once(p)'
<1> DEFINE final == IF SendData THEN filterSrcIpOnCurrentHost(n, batch(n)) ELSE {}
           r == [from |-> n, entries |-> final]
<1>1. Own(p) /\ Once(p) /\ TypeOK /\ source(p) \in Node
  BY DEF CInv, TInv, source
<1>2. /\ net' = IF final = {} THEN net ELSE net \cup {r}
      /\ filled' = [filled EXCEPT ![n] = 0]
      /\ UNCHANGED <<tally, keys, trip, credits>>
  BY DEF send, sendDataToServer, nextIteration, outside
<1>3. \A e \in final : e \in batch(n) /\ srcIP[e.flow] \in store[n]
  BY DEF filterSrcIpOnCurrentHost
<1>4. Carries(r, p) => Read(p) /\ n = source(p)
  <2> SUFFICES ASSUME NEW e \in final, p \in e.packets PROVE Read(p) /\ n = source(p)
    BY DEF Carries
  <2>1. e.flow = flowOf[p]
    BY <1>1, <1>3 DEF Own
  <2>2. n = source(p)
    BY <1>3, <2>1 DEF CInv, StoresLocal, source
  <2> QED
    BY <1>3, <2>2 DEF Read
<1>5. r.from = n /\ \A e \in r.entries : p \in e.packets => e.flow = flowOf[p]
  BY <1>1, <1>3 DEF Own
<1> HIDE DEF final, r
<1>6. \A m \in Node : batch(m)' \subseteq batch(m)
  BY <1>1, <1>2, BatchKept
<1>7. CASE net' = net \/ ~Carries(r, p)
  <2>1. ~Carries(r, p) => \A s \in net' : Carries(s, p) => s \in net
    BY <1>2
  <2>2. \A s \in net' : Carries(s, p) => s \in net
    BY <1>7, <2>1
  <2>3. Own(p)'
    BY <1>1, <1>2, <1>6, <2>2 DEF Own, Carries, source
  <2>4. (AtMap(p)' => AtMap(p)) /\ (Read(p)' => Read(p)) /\ (Unsent(p) => Unsent(p)')
    BY <1>1, <1>2, <1>6, <2>2 DEF AtMap, Read, Unsent, Carries, source
  <2>5. Once(p)'
    BY <1>1, <1>2, <2>2, <2>4 DEF Once, Carries
  <2> QED
    BY <2>3, <2>5
<1>8. CASE net' = net \cup {r} /\ Carries(r, p)
  <2>1. Read(p) /\ n = source(p)
    BY <1>4, <1>8
  <2>2. Unsent(p) /\ ~AtMap(p) /\ trip[p] # "source"
    BY <1>1, <2>1 DEF Once
  <2>3. batch(n)' = {}
    BY <1>1, <1>2 DEF batch, TypeOK
  <2>4. ~Read(p)' /\ ~AtMap(p)'
    BY <1>2, <2>1, <2>2, <2>3 DEF Read, AtMap, source
  <2>5. \A s \in net' : Carries(s, p) => s = r
    BY <1>8, <2>2 DEF Unsent
  <2>6. Own(p)'
    BY <1>1, <1>2, <1>5, <1>6, <2>1, <2>5 DEF Own, Carries, source
  <2>7. Once(p)'
    BY <1>2, <2>2, <2>4, <2>5 DEF Once, Unsent, Carries
  <2> QED
    BY <2>6, <2>7
<1> QED
  BY <1>2, <1>7, <1>8

\* So does reading take them out of the map.
LEMMA ReadKeepsPlaces ==
  ASSUME CInv, NEW n \in Node, NEW f \in Flow, readFlow(n, f), UNCHANGED outside,
         NEW p \in Packet \ strayed
  PROVE  Own(p)' /\ Once(p)'
<1> DEFINE e == [flow |-> f, packets |-> tally[n][f]]
<1>1. Own(p) /\ Once(p) /\ TypeOK /\ source(p) \in Node
  BY DEF CInv, TInv, source
<1>2. UNCHANGED <<net, trip, credits>>
  BY DEF readFlow, outside
<1>3. \A m \in Node : batch(m)' \subseteq batch(m) \cup {x \in {e} : m = n}
  BY <1>1, ReadMoves
<1>4. \A m \in Node : \A g \in Flow :
        tally'[m][g] = IF m = n /\ g = f THEN {} ELSE tally[m][g]
  BY <1>1, ReadMoves
<1>5. e.flow = f /\ e.packets = tally[n][f]
  OBVIOUS
<1> HIDE DEF e
<1>6. Own(p)'
  <2>1. \A m \in Node : \A x \in batch(m)' : p \in x.packets => x.flow = flowOf[p]
    BY <1>1, <1>3, <1>5 DEF Own
  <2>2. \A m \in Node : \A g \in Flow : p \in tally'[m][g] => g = flowOf[p]
    BY <1>1, <1>4 DEF Own
  <2> QED
    BY <1>1, <1>2, <2>1, <2>2 DEF Own, Carries, source
<1>7. AtMap(p)' => AtMap(p) /\ ~(n = source(p) /\ p \in tally[n][f])
  BY <1>1, <1>4 DEF AtMap, Own, source
<1>8. Read(p)' => Read(p) \/ (n = source(p) /\ p \in tally[n][f])
  BY <1>1, <1>3, <1>5 DEF Read, source
<1>9. n = source(p) /\ p \in tally[n][f] => AtMap(p)
  BY DEF AtMap
<1>10. Unsent(p)' <=> Unsent(p)
  BY <1>2 DEF Unsent, Carries
<1>11. Once(p)'
  BY <1>1, <1>2, <1>7, <1>8, <1>9, <1>10 DEF Once, Carries
<1> QED
  BY <1>6, <1>11

\* A packet that comes to the hook of its source node was in no place before; at
\* the hook of its destination it does not come to the map of its source.
LEMMA PassKeepsPlaces ==
  ASSUME CInv, NEW q \in Packet, pass(q), NEW p \in Packet \ strayed'
  PROVE  p \notin strayed /\ Own(p)' /\ Once(p)'
<1>1. /\ TypeOK /\ next(q) \in Node /\ source(p) \in Node
      /\ UNCHANGED credits
      /\ trip' = [trip EXCEPT ![q] = IF @ = "source" /\ source(q) # destination(q)
                                     THEN "destination" ELSE "done"]
  BY DEF CInv, TInv, next, source, destination, pass
<1>2. \A x \in Packet : trip'[x] = "source" => trip[x] = "source" /\ x # q
  BY <1>1 DEF TypeOK
<1>3. CASE hook(next(q), q)
  <2>1. PICK t \in after(tally[next(q)], q) :
          /\ tally' = [tally EXCEPT ![next(q)] = t]
          /\ strayed' = strayed \cup {x \in {q} : \E f \in Flow \ {flowOf[q]} : q \in t[f]}
    BY <1>3 DEF hook
  <2>2. UNCHANGED <<keys, filled, net>>
    BY <1>3 DEF hook
  <2>3. p \notin strayed
    BY <2>1
  <2>4. Own(p) /\ Once(p)
    BY <2>3 DEF CInv
  <2>5. t \in Table /\ \A f \in Flow : t[f] \subseteq tally[next(q)][f] \cup {q}
    BY <1>1, <2>1, AfterAdds DEF Table, TypeOK
  <2>6. \A m \in Node : \A f \in Flow :
          p \in tally'[m][f] => p \in tally[m][f] \/ (m = next(q) /\ p = q /\ f = flowOf[p])
    BY <1>1, <2>1, <2>5 DEF TypeOK, Table
  <2>7. CASE p # q
    BY <1>1, <1>2, <2>2, <2>4, <2>6, <2>3, <2>7, BatchKept, Stays
  <2>8. CASE p = q
    <3>1. Own(p)'
      BY <2>2, <2>4, <2>6 DEF Own, batch, Carries, source
    <3>2. UNCHANGED <<batch(source(p)), net, credits>> /\ trip'[p] # "source"
      BY <1>1, <1>2, <2>2, <2>8 DEF batch
    <3>3. (Read(p)' <=> Read(p)) /\ (Unsent(p)' <=> Unsent(p))
      BY <3>2 DEF Read, Unsent, Carries, source
    <3>4. AtMap(p)' => AtMap(p) \/ next(p) = source(p)
      BY <1>1, <2>6, <2>8 DEF AtMap, source
    <3>5. next(p) = source(p) => trip[p] = "source"
      <4>1. trip[p] \in {"source", "destination"}
        BY <1>1, <2>8 DEF pass, TypeOK
      <4> QED
        BY <4>1 DEF CInv, TwoHooks, next
    <3>6. Once(p)'
      BY <2>4, <3>2, <3>3, <3>4, <3>5 DEF Once, Carries
    <3> QED
      BY <2>3, <3>1, <3>6
  <2> QED
    BY <2>7, <2>8
<1>4. CASE UNCHANGED agentVars
  <2>1. UNCHANGED <<tally, keys, filled, net, strayed>>
    BY <1>4 DEF agentVars
  <2>2. Own(p) /\ Once(p)
    BY <2>1 DEF CInv
  <2> QED
    BY <1>1, <1>2, <2>1, <2>2, BatchKept, Stays
<1> QED
  BY <1>3, <1>4 DEF pass

\* A report that the server handles is the only one with a packet it counts.
LEMMA HandleKeepsPlaces ==
  ASSUME CInv, NEW r \in net, handlePayload(r), NEW p \in Packet \ strayed
  PROVE  Own(p)' /\ Once(p)'
<1>1. Own(p) /\ Once(p) /\ TypeOK
  BY DEF CInv, TInv
<1>2. PICK known \in SUBSET r.entries :
        credits' = [x \in Packet |-> credits[x] + Cardinality({e \in known : x \in e.packets})]
  BY DEF handlePayload
<1>3. net' = net \ {r} /\ UNCHANGED <<tally, keys, filled, trip>>
  BY DEF handlePayload
<1>4. CASE p \notin inEntries(known)
  <2>1. credits'[p] = credits[p]
    <3>1. Cardinality({e \in known : p \in e.packets}) = 0
      BY <1>2, <1>4, EntriesWith DEF CInv, TInv
    <3>2. credits'[p] = credits[p] + Cardinality({e \in known : p \in e.packets})
      BY <1>2
    <3> QED
      BY <1>1, <3>1, <3>2 DEF TypeOK
  <2>2. \A n \in Node : batch(n)' \subseteq batch(n)
    BY <1>3 DEF batch
  <2> QED
    BY <1>1, <1>3, <2>1, <2>2, Stays
<1>5. CASE p \in inEntries(known)
  <2>1. Carries(r, p)
    BY <1>2, <1>5 DEF inEntries, Carries
  <2>2. credits[p] = 0 /\ \A s \in net' : ~Carries(s, p)
    BY <1>1, <1>3, <2>1 DEF Once
  <2>3. ~AtMap(p) /\ ~Read(p) /\ trip[p] # "source"
    BY <1>1, <2>1 DEF Once, Unsent
  <2>4. credits'[p] = 1
    <3>1. PICK e \in known : p \in e.packets
      BY <1>5 DEF inEntries
    <3>2. \A d \in known : p \in d.packets => d = e
      <4>1. \A d \in known : p \in d.packets => d.flow = flowOf[p]
        BY <1>1, <1>2 DEF Own
      <4>2. OneEach(r.entries)
        BY DEF CInv, TInv, EntriesApart
      <4> QED
        BY <1>2, <3>1, <4>1, <4>2 DEF OneEach
    <3>3. {d \in known : p \in d.packets} = {e}
      BY <3>1, <3>2
    <3>4. Cardinality({e}) = 1
      BY FS_Singleton
    <3>5. credits'[p] = credits[p] + Cardinality({d \in known : p \in d.packets})
      BY <1>2
    <3>6. credits'[p] = 0 + 1
      BY <2>2, <3>3, <3>4, <3>5, Zenon
    <3> QED
      BY <3>6
  <2>5. ~AtMap(p)' /\ ~Read(p)' /\ trip'[p] # "source"
    BY <1>3, <2>3 DEF AtMap, Read, batch, source
  <2>6. Own(p)'
    BY <1>1, <1>3 DEF Own, batch, Carries, source
  <2>7. Once(p)'
    BY <2>2, <2>4, <2>5 DEF Once, Carries
  <2> QED
    BY <2>6, <2>7
<1> QED
  BY <1>4, <1>5

\* Every step keeps every packet in one place.
LEMMA PlacesKept ==
  ASSUME CInv, [Next]_vars, NEW p \in Packet \ strayed'
  PROVE  Own(p)' /\ Once(p)'
<1>1. TypeOK /\ (p \notin strayed => Own(p) /\ Once(p))
  BY DEF CInv, TInv
<1>2. ASSUME NEW n \in Node, Loop(n), UNCHANGED outside PROVE Own(p)' /\ Once(p)'
  <2>1. p \notin strayed
    BY <1>2 DEF Loop, start, terminate, exit, kill, ends, onTick, noData, readError, send,
                sendDataToServer, postEnds, readFlow, informer
  <2>2. CASE send(n)
    BY <1>2, <2>1, <2>2, SendMoves
  <2>3. CASE \E f \in Flow : readFlow(n, f)
    BY <1>2, <2>1, <2>3, ReadKeepsPlaces
  <2>4. CASE ~(send(n) \/ \E f \in Flow : readFlow(n, f))
    <3>1. /\ net' = net
          /\ tally' = tally \/ tally' = [tally EXCEPT ![n] = Empty]
          /\ \/ UNCHANGED <<keys, filled>>
             \/ /\ filled' = [filled EXCEPT ![n] = 0]
                /\ keys' = keys \/ keys' = [keys EXCEPT ![n] = NoEntries]
      BY <1>2, <2>4 DEF Loop, start, terminate, exit, kill, ends, onTick, noData, readError,
                        nextIteration, postEnds, informer
    <3>2. \A m \in Node : batch(m)' \subseteq batch(m)
      BY <1>1, <3>1, BatchKept DEF TypeOK
    <3>3. \A m \in Node : \A f \in Flow : p \in tally'[m][f] => p \in tally[m][f]
      <4>1. CASE tally' = tally
        BY <4>1
      <4>2. CASE tally' = [tally EXCEPT ![n] = Empty]
        <5>1. tally'[n] = Empty /\ \A m \in Node \ {n} : tally'[m] = tally[m]
          BY <1>1, <4>2 DEF TypeOK
        <5> QED
          BY <5>1 DEF Empty
      <4> QED
        BY <3>1, <4>1, <4>2
    <3>4. UNCHANGED <<trip, credits>>
      BY <1>2 DEF outside
    <3> QED
      BY <1>1, <2>1, <3>1, <3>2, <3>3, <3>4, Stays
  <2> QED
    BY <2>2, <2>3, <2>4
<1>3. ASSUME NEW q \in Packet, pass(q) PROVE Own(p)' /\ Once(p)'
  BY <1>3, PassKeepsPlaces
<1>4. ASSUME NEW r \in net, handlePayload(r) PROVE Own(p)' /\ Once(p)'
  BY <1>4, HandleKeepsPlaces DEF handlePayload
<1>5. ASSUME NEW r \in net, lose(r) PROVE Own(p)' /\ Once(p)'
  <2>1. net' \subseteq net /\ UNCHANGED <<tally, keys, filled, strayed, trip, credits>>
    BY <1>5 DEF lose, outside
  <2>2. \A n \in Node : batch(n)' \subseteq batch(n)
    BY <2>1 DEF batch
  <2> QED
    BY <1>1, <2>1, <2>2, Stays
<1>6. CASE UNCHANGED vars
  <2>1. UNCHANGED <<tally, keys, filled, net, strayed, trip, credits>>
    BY <1>6 DEF vars, agentVars, outside
  <2>2. \A n \in Node : batch(n)' \subseteq batch(n)
    BY <2>1 DEF batch
  <2> QED
    BY <1>1, <2>1, <2>2, Stays
<1> QED
  BY <1>2, <1>3, <1>4, <1>5, <1>6 DEF Next, agent

\* Stores only get addresses of their node, and only packets between nodes have
\* a second hook before them.
LEMMA SurroundingsKept ==
  ASSUME CInv, [Next]_vars
  PROVE  StoresLocal' /\ TwoHooks'
<1>1. TypeOK /\ StoresLocal /\ TwoHooks
  BY DEF CInv, TInv
<1>2. ASSUME NEW n \in Node, Loop(n), UNCHANGED outside PROVE StoresLocal' /\ TwoHooks'
  <2>1. \/ store' = store
        \/ store' = [store EXCEPT ![n] = {}]
        \/ informer(n)
    BY <1>2 DEF Loop, start, terminate, exit, kill, ends, onTick, noData, readError, send,
                sendDataToServer, postEnds, readFlow
  <2>2. CASE informer(n)
    <3>1. PICK ip \in IP :
            /\ home[ip] = n
            /\ store' = [store EXCEPT ![n] = IF ip \in @ THEN @ \ {ip} ELSE @ \cup {ip}]
      BY <2>2 DEF informer
    <3>2. store'[n] \subseteq store[n] \cup {ip} /\ \A m \in Node \ {n} : store'[m] = store[m]
      BY <1>1, <3>1 DEF TypeOK
    <3> QED
      BY <1>1, <1>2, <3>1, <3>2 DEF StoresLocal, TwoHooks, outside, source, destination
  <2> QED
    BY <1>1, <1>2, <2>1, <2>2 DEF StoresLocal, TwoHooks, outside, source, destination, TypeOK
<1>3. ASSUME NEW p \in Packet, pass(p) PROVE StoresLocal' /\ TwoHooks'
  <2>1. store' = store
    BY <1>3 DEF pass, hook, agentVars
  <2>2. trip' = [trip EXCEPT ![p] = IF @ = "source" /\ source(p) # destination(p)
                                    THEN "destination" ELSE "done"]
    BY <1>3 DEF pass
  <2>3. TwoHooks'
    BY <1>1, <2>2 DEF TwoHooks, TypeOK, source, destination
  <2> QED
    BY <1>1, <2>1, <2>3 DEF StoresLocal
<1>4. ASSUME NEW r \in net, handlePayload(r) \/ lose(r) PROVE StoresLocal' /\ TwoHooks'
  BY <1>1, <1>4 DEF handlePayload, lose, outside, StoresLocal, TwoHooks, source, destination
<1>5. CASE UNCHANGED vars
  BY <1>1, <1>5 DEF vars, agentVars, outside, StoresLocal, TwoHooks, source, destination
<1> QED
  BY <1>2, <1>3, <1>4, <1>5 DEF Next, agent

\* The server counts no packet twice, and none from an agent that is not that of
\* its source, for any number of nodes, packets and slots (CreditedOnce).
THEOREM CountedOnce == Spec => []CreditedOnce
<1>1. Init => CInv
  <2> SUFFICES ASSUME Init PROVE CInv
    OBVIOUS
  <2>1. TInv
    BY StartsTyped
  <2>2. StoresLocal /\ TwoHooks
    BY DEF Init, AInit, StoresLocal, TwoHooks
  <2>3. \A n \in Node : batch(n) = {}
    BY DEF Init, AInit, batch
  <2>4. ASSUME NEW p \in Packet PROVE Own(p) /\ Once(p)
    <3>1. source(p) \in Node
      BY DEF source
    <3>2. ~AtMap(p) /\ ~Read(p) /\ Unsent(p) /\ net = {} /\ credits[p] = 0
      BY <2>3, <3>1 DEF Init, AInit, AtMap, Read, Unsent, Empty
    <3>3. Once(p)
      BY <3>2 DEF Once
    <3>4. Own(p)
      BY <2>3, <3>2 DEF Own, Init, AInit, Empty
    <3> QED
      BY <3>3, <3>4
  <2> QED
    BY <2>1, <2>2, <2>4 DEF CInv
<1>2. CInv /\ TInv' /\ [Next]_vars => CInv'
  <2> SUFFICES ASSUME CInv, TInv', [Next]_vars PROVE CInv'
    OBVIOUS
  <2>1. StoresLocal' /\ TwoHooks'
    BY SurroundingsKept
  <2>2. \A p \in Packet \ strayed' : Own(p)' /\ Once(p)'
    BY PlacesKept
  <2> QED
    BY <2>1, <2>2 DEF CInv
<1>3. CInv => CreditedOnce
  <2> SUFFICES ASSUME CInv, NEW p \in Packet \ strayed
               PROVE  /\ credits[p] <= 1
                      /\ \A r \in net : p \in inEntries(r.entries) =>
                                         r.from = source(p) /\ credits[p] = 0
    BY DEF CreditedOnce
  <2>1. Own(p) /\ Once(p)
    BY DEF CInv
  <2>2. \A r \in net : p \in inEntries(r.entries) => Carries(r, p)
    BY DEF inEntries, Carries
  <2> QED
    BY <2>1, <2>2 DEF Own, Once
<1> QED
  BY <1>1, <1>2, <1>3, AlwaysTInv, PTL DEF Spec

-----------------------------------------------------------------------------
(***************************************************************************)
(* Nothing that an agent has counted vanishes.  Slots are filled only      *)
(* while a flush reads, so a loop that ends in its select has none.        *)
(***************************************************************************)

IdleIsEmpty == \A n \in Node : run[n] # "reading" => filled[n] = 0

\* A step that changes nothing of an agent's, and forgets nothing, keeps it
\* answerable.
LEMMA StillTracked ==
  ASSUME NEW m \in Node, NEW p \in Packet, tracked(m, p),
         tally'[m] = tally[m], keys'[m] = keys[m], filled'[m] = filled[m],
         net \subseteq net', credits'[p] = credits[p], lost[m] \subseteq lost'[m]
  PROVE  tracked(m, p)'
<1>1. batch(m)' = batch(m)
  BY DEF batch
<1>2. CASE p \in packets(tally[m]) \/ p \in inEntries(batch(m))
  BY <1>1, <1>2 DEF tracked, packets, inEntries
<1>3. CASE \E r \in net : r.from = m /\ p \in inEntries(r.entries)
  BY <1>3 DEF tracked, inEntries
<1>4. CASE credits[p] > 0 \/ p \in lost[m]
  BY <1>4 DEF tracked
<1> QED
  BY <1>2, <1>3, <1>4 DEF tracked

\* What is given up is in `lost', with all that was there.
LEMMA GivenUp ==
  ASSUME TypeOK, NEW n \in Node, NEW ps, givesUp(n, ps)
  PROVE  lost'[n] = lost[n] \cup ps /\ \A m \in Node \ {n} : lost'[m] = lost[m]
  BY DEF TypeOK, givesUp

\* The end of a process gives up what is in its map and in its slots.
LEMMA EndTracked ==
  ASSUME TInv, NEW n \in Node, NEW ps, ends(n, ps), inEntries(batch(n)) \subseteq ps, UNCHANGED credits,
         NEW m \in Node, NEW p \in Packet, tracked(m, p)
  PROVE  tracked(m, p)'
<1>1. /\ net' = net /\ givesUp(n, packets(tally[n]) \cup ps)
      /\ tally' = [tally EXCEPT ![n] = Empty]
      /\ keys' = [keys EXCEPT ![n] = NoEntries]
      /\ filled' = [filled EXCEPT ![n] = 0]
  BY DEF ends
<1>2. /\ lost'[n] = lost[n] \cup (packets(tally[n]) \cup ps)
      /\ \A k \in Node \ {n} : lost'[k] = lost[k]
  BY <1>1, GivenUp DEF TInv
<1>3. CASE m = n
  <2>1. CASE p \in packets(tally[m]) \/ p \in inEntries(batch(m)) \/ p \in lost[m]
    <3>1. p \in lost'[m]
      BY <1>2, <1>3, <2>1
    <3> QED
      BY <3>1 DEF tracked
  <2>2. CASE (\E r \in net : r.from = m /\ p \in inEntries(r.entries)) \/ credits[p] > 0
    BY <1>1, <2>2 DEF tracked, inEntries
  <2> QED
    BY <2>1, <2>2 DEF tracked
<1>4. CASE m # n
  <2>1. tally'[m] = tally[m] /\ keys'[m] = keys[m] /\ filled'[m] = filled[m]
    BY <1>1, <1>4 DEF TInv, TypeOK
  <2>2. lost[m] \subseteq lost'[m] /\ net \subseteq net' /\ credits'[p] = credits[p]
    BY <1>1, <1>2, <1>4
  <2> QED
    BY <2>1, <2>2, StillTracked
<1> QED
  BY <1>3, <1>4

\* A hook gives up what it drops from the map.
LEMMA HookTracked ==
  ASSUME TInv, NEW n \in Node, NEW q \in Packet, hook(n, q), UNCHANGED credits,
         NEW m \in Node, NEW p \in Packet, tracked(m, p)
  PROVE  tracked(m, p)'
<1>1. PICK t \in after(tally[n], q) :
        /\ tally' = [tally EXCEPT ![n] = t]
        /\ givesUp(n, (packets(tally[n]) \cup {q}) \ packets(t))
  BY DEF hook
<1>2. UNCHANGED <<keys, filled, net>>
  BY DEF hook
<1>3. /\ lost'[n] = lost[n] \cup ((packets(tally[n]) \cup {q}) \ packets(t))
      /\ \A k \in Node \ {n} : lost'[k] = lost[k]
  BY <1>1, GivenUp DEF TInv
<1>4. tally'[n] = t /\ \A k \in Node \ {n} : tally'[k] = tally[k]
  BY <1>1 DEF TInv, TypeOK
<1>5. lost[m] \subseteq lost'[m]
  BY <1>3
<1>6. CASE m = n /\ p \in packets(tally[m])
  <2>1. p \in packets(t) \/ p \in lost'[m]
    BY <1>3, <1>6
  <2>2. packets(tally[m])' = packets(t)
    BY <1>4, <1>6 DEF packets
  <2> QED
    BY <2>1, <2>2 DEF tracked
<1>7. CASE m # n
  BY <1>2, <1>4, <1>5, <1>7, StillTracked
<1>8. CASE p \notin packets(tally[m])
  BY <1>2, <1>5, <1>8 DEF tracked, batch, inEntries
<1> QED
  BY <1>6, <1>7, <1>8

\* A flow that is read is in the slots, beside all that were there.
LEMMA ReadTracked ==
  ASSUME TInv, NEW n \in Node, NEW f \in Flow, readFlow(n, f), UNCHANGED credits,
         NEW m \in Node, NEW p \in Packet, tracked(m, p)
  PROVE  tracked(m, p)'
<1> DEFINE e == [flow |-> f, packets |-> tally[n][f]]
<1>1. /\ keys' = [keys EXCEPT ![n][filled[n] + 1] = e]
      /\ filled' = [filled EXCEPT ![n] = @ + 1]
      /\ filled[n] < Size
      /\ UNCHANGED <<net, lost>>
  BY DEF readFlow
<1>2. \A k \in Node : \A g \in Flow : tally'[k][g] = IF k = n /\ g = f THEN {} ELSE tally[k][g]
  BY ReadMoves DEF TInv
<1>3. e.packets = tally[n][f]
  OBVIOUS
<1> HIDE DEF e
<1>4. CASE m # n
  <2>1. tally'[m] = tally[m] /\ keys'[m] = keys[m] /\ filled'[m] = filled[m]
    BY <1>1, <1>4 DEF TInv, TypeOK, readFlow
  <2> QED
    BY <1>1, <2>1, StillTracked
<1>5. CASE m = n
  <2>1. /\ filled'[n] = filled[n] + 1 /\ filled[n] \in Nat
        /\ \A i \in 1 .. filled[n] : keys'[n][i] = keys[n][i]
        /\ keys'[n][filled[n] + 1] = e
    BY <1>1 DEF TInv, TypeOK
  <2>2. batch(n) \subseteq batch(n)' /\ e \in batch(n)'
    <3>1. /\ \A i \in 1 .. filled[n] : i \in 1 .. filled[n] + 1
          /\ filled[n] + 1 \in 1 .. filled[n] + 1
      BY <2>1
    <3> QED
      BY <2>1, <3>1 DEF batch
  <2>3. CASE p \in packets(tally[m])
    <3>1. PICK g \in Flow : p \in tally[n][g]
      BY <1>5, <2>3 DEF packets
    <3>2. CASE g = f
      <4>1. p \in inEntries(batch(n)')
        BY <1>3, <2>2, <3>1, <3>2 DEF inEntries
      <4> QED
        BY <1>5, <4>1 DEF tracked, inEntries
    <3>3. CASE g # f
      <4>1. p \in packets(tally'[n])
        BY <1>2, <3>1, <3>3 DEF packets
      <4> QED
        BY <1>5, <4>1 DEF tracked, packets
    <3> QED
      BY <3>2, <3>3
  <2>4. CASE p \in inEntries(batch(m))
    <3>1. p \in inEntries(batch(n)')
      BY <1>5, <2>2, <2>4 DEF inEntries
    <3> QED
      BY <1>5, <3>1 DEF tracked, inEntries
  <2>5. CASE (\E r \in net : r.from = m /\ p \in inEntries(r.entries)) \/ credits[p] > 0 \/ p \in lost[m]
    BY <1>1, <2>5 DEF tracked, inEntries
  <2> QED
    BY <2>3, <2>4, <2>5 DEF tracked
<1> QED
  BY <1>4, <1>5

\* The end of a flush gives up its slots, or sends them.
LEMMA FlushTracked ==
  ASSUME TInv, NEW n \in Node, readError(n) \/ send(n), UNCHANGED credits,
         NEW m \in Node, NEW p \in Packet, tracked(m, p)
  PROVE  tracked(m, p)'
<1>1. PICK final \in SUBSET batch(n) :
        /\ givesUp(n, inEntries(batch(n) \ final))
        /\ net' = IF final = {} THEN net ELSE net \cup {[from |-> n, entries |-> final]}
  <2>1. CASE readError(n)
    <3>1. batch(n) \ {} = batch(n)
      OBVIOUS
    <3> QED
      BY <2>1, <3>1 DEF readError
  <2>2. CASE send(n)
    BY <2>2 DEF send, sendDataToServer, filterSrcIpOnCurrentHost
  <2> QED
    BY <2>1, <2>2
<1>2. UNCHANGED <<tally, keys>> /\ filled' = [filled EXCEPT ![n] = 0]
  BY DEF readError, send, sendDataToServer, nextIteration
<1>3. /\ lost'[n] = lost[n] \cup inEntries(batch(n) \ final)
      /\ \A k \in Node \ {n} : lost'[k] = lost[k]
  BY <1>1, GivenUp DEF TInv
<1>4. net \subseteq net' /\ lost[m] \subseteq lost'[m]
  BY <1>1, <1>3
<1>5. CASE m = n /\ p \in inEntries(batch(m))
  <2>1. PICK e \in batch(n) : p \in e.packets
    BY <1>5 DEF inEntries
  <2>2. CASE e \in final
    <3>1. [from |-> n, entries |-> final] \in net'
      BY <1>1, <2>2
    <3>2. p \in inEntries(final)
      BY <2>1, <2>2 DEF inEntries
    <3>3. \E r \in net' : r.from = m /\ p \in inEntries(r.entries)
      BY <1>5, <3>1, <3>2
    <3> QED
      BY <3>3 DEF tracked, inEntries
  <2>3. CASE e \notin final
    <3>1. p \in lost'[m]
      BY <1>3, <1>5, <2>1, <2>3 DEF inEntries
    <3> QED
      BY <3>1 DEF tracked
  <2> QED
    BY <2>2, <2>3
<1>6. CASE m # n
  <2>1. filled'[m] = filled[m]
    BY <1>2, <1>6 DEF TInv, TypeOK
  <2> QED
    BY <1>2, <1>4, <2>1, StillTracked
<1>7. CASE p \notin inEntries(batch(m))
  <2>1. CASE p \in packets(tally[m])
    BY <1>2, <2>1 DEF tracked, packets
  <2>2. CASE \E r \in net : r.from = m /\ p \in inEntries(r.entries)
    BY <1>4, <2>2 DEF tracked, inEntries
  <2>3. CASE credits[p] > 0 \/ p \in lost[m]
    BY <1>4, <2>3 DEF tracked
  <2> QED
    BY <1>7, <2>1, <2>2, <2>3 DEF tracked
<1> QED
  BY <1>5, <1>6, <1>7

\* A report that is handled or lost is counted or given up, entry by entry.
LEMMA ReportTracked ==
  ASSUME TInv, NEW r \in net, handlePayload(r) \/ lose(r),
         NEW m \in Node, NEW p \in Packet, tracked(m, p)
  PROVE  tracked(m, p)'
<1>0. r.from \in Node
  BY DEF TInv, TypeOK, Report
<1>1. PICK known \in SUBSET r.entries :
        /\ credits'[p] = credits[p] + Cardinality({e \in known : p \in e.packets})
        /\ givesUp(r.from, inEntries(r.entries \ known))
  <2>1. CASE handlePayload(r)
    BY <2>1 DEF handlePayload
  <2>2. CASE lose(r)
    <3>1. r.entries \ {} = r.entries /\ inEntries({}) = {} /\ {} \in SUBSET r.entries
      BY DEF inEntries
    <3>2. {e \in {} : p \in e.packets} = {} /\ Cardinality({}) = 0
      BY FS_EmptySet
    <3>3. credits'[p] = credits[p] + Cardinality({e \in {} : p \in e.packets})
      BY <2>2, <3>2 DEF lose, outside, TInv, TypeOK
    <3>4. givesUp(r.from, inEntries(r.entries \ {}))
      BY <2>2, <3>1 DEF lose
    <3> QED
      BY <3>1, <3>3, <3>4
  <2> QED
    BY <2>1, <2>2
<1>2. net' = net \ {r} /\ UNCHANGED <<tally, keys, filled>>
  BY DEF handlePayload, lose
<1>3. /\ lost'[r.from] = lost[r.from] \cup inEntries(r.entries \ known)
      /\ \A k \in Node \ {r.from} : lost'[k] = lost[k]
  BY <1>0, <1>1, GivenUp DEF TInv
<1>4. lost[m] \subseteq lost'[m]
  BY <1>3
<1>5. /\ credits'[p] >= credits[p] /\ credits[p] \in Nat /\ credits'[p] \in Nat
      /\ p \in inEntries(known) => credits'[p] > 0
  <2>1. /\ Cardinality({e \in known : p \in e.packets}) \in Nat
        /\ Cardinality({e \in known : p \in e.packets}) = 0 <=> p \notin inEntries(known)
    BY <1>1, EntriesWith DEF TInv
  <2>2. credits[p] \in Nat
    BY DEF TInv, TypeOK
  <2> QED
    BY <1>1, <2>1, <2>2
<1>6. CASE r.from = m /\ p \in inEntries(r.entries)
  <2>1. PICK e \in r.entries : p \in e.packets
    BY <1>6 DEF inEntries
  <2>2. CASE e \in known
    <3>1. p \in inEntries(known)
      BY <2>1, <2>2 DEF inEntries
    <3>2. credits'[p] > 0
      BY <1>5, <3>1
    <3> QED
      BY <3>2 DEF tracked
  <2>3. CASE e \notin known
    <3>1. p \in lost'[m]
      BY <1>3, <1>6, <2>1, <2>3 DEF inEntries
    <3> QED
      BY <3>1 DEF tracked
  <2> QED
    BY <2>2, <2>3
<1>7. CASE ~(r.from = m /\ p \in inEntries(r.entries))
  <2>1. CASE p \in packets(tally[m]) \/ p \in inEntries(batch(m))
    BY <1>2, <2>1 DEF tracked, packets, batch, inEntries
  <2>2. CASE \E s \in net : s.from = m /\ p \in inEntries(s.entries)
    <3>1. PICK s \in net : s.from = m /\ p \in inEntries(s.entries)
      BY <2>2
    <3>2. s \in net'
      BY <1>2, <1>7, <3>1
    <3> QED
      BY <3>1, <3>2 DEF tracked, inEntries
  <2>3. CASE credits[p] > 0
    <3>1. credits'[p] > 0
      BY <1>5, <2>3
    <3> QED
      BY <3>1 DEF tracked
  <2>4. CASE p \in lost[m]
    BY <1>4, <2>4 DEF tracked
  <2> QED
    BY <2>1, <2>2, <2>3, <2>4 DEF tracked
<1> QED
  BY <1>6, <1>7

\* A packet that an agent has counted stays in the map, the slots, a report, the
\* counters or what was given up, in every step of every actor, for any number of
\* nodes, packets and slots (NeverVanishes).
THEOREM NothingVanishes == Spec => NeverVanishes
<1>1. Init => IdleIsEmpty
  BY DEF Init, AInit, IdleIsEmpty
<1>2. TInv /\ IdleIsEmpty /\ [Next]_vars => IdleIsEmpty'
  <2> SUFFICES ASSUME TInv, IdleIsEmpty, [Next]_vars PROVE IdleIsEmpty'
    OBVIOUS
  <2> USE DEF IdleIsEmpty, TInv, TypeOK
  <2>1. ASSUME NEW n \in Node, Loop(n) PROVE IdleIsEmpty'
    BY <2>1 DEF Loop, start, terminate, exit, kill, ends, onTick, noData, readError, send,
                sendDataToServer, nextIteration, postEnds, readFlow, informer, goto
  <2>2. ASSUME NEW p \in Packet, pass(p) PROVE IdleIsEmpty'
    BY <2>2 DEF pass, hook, agentVars
  <2>3. ASSUME NEW r \in net, handlePayload(r) \/ lose(r) PROVE IdleIsEmpty'
    BY <2>3 DEF handlePayload, lose
  <2>4. CASE UNCHANGED vars
    BY <2>4 DEF vars, agentVars
  <2> QED
    BY <2>1, <2>2, <2>3, <2>4 DEF Next, agent
<1>3. TInv /\ IdleIsEmpty /\ [Next]_vars =>
        [\A n \in Node, p \in Packet : tracked(n, p) => tracked(n, p)']_vars
  <2> SUFFICES ASSUME TInv, IdleIsEmpty, Next, NEW m \in Node, NEW p \in Packet, tracked(m, p)
               PROVE  tracked(m, p)'
    OBVIOUS
  <2>1. CASE UNCHANGED <<tally, keys, filled, net, lost, credits>>
    BY <2>1, StillTracked
  <2>2. ASSUME NEW n \in Node, Loop(n), UNCHANGED outside PROVE tracked(m, p)'
    <3>0. credits' = credits
      BY <2>2 DEF outside
    <3>1. CASE start(n) \/ terminate(n) \/ onTick(n) \/ noData(n) \/ postEnds(n) \/ informer(n)
      BY <2>1, <3>0, <3>1 DEF start, terminate, onTick, noData, postEnds, informer
    <3>2. CASE exit(n)
      <4>1. filled[n] = 0
        BY <3>2 DEF exit, IdleIsEmpty
      <4>2. inEntries(batch(n)) \subseteq {}
        BY <4>1 DEF batch, inEntries
      <4> QED
        BY <3>0, <3>2, <4>2, EndTracked DEF exit
    <3>3. CASE kill(n)
      BY <3>0, <3>3, EndTracked DEF kill
    <3>4. CASE readError(n) \/ send(n)
      BY <3>0, <3>4, FlushTracked
    <3>5. CASE \E f \in Flow : readFlow(n, f)
      BY <3>0, <3>5, ReadTracked
    <3> QED
      BY <2>2, <3>1, <3>2, <3>3, <3>4, <3>5 DEF Loop
  <2>3. ASSUME NEW q \in Packet, pass(q) PROVE tracked(m, p)'
    <3>1. credits' = credits
      BY <2>3 DEF pass
    <3>2. next(q) \in Node
      BY DEF next, source, destination
    <3>3. CASE hook(next(q), q)
      BY <3>1, <3>2, <3>3, HookTracked
    <3>4. CASE UNCHANGED agentVars
      BY <2>1, <3>1, <3>4 DEF agentVars
    <3> QED
      BY <2>3, <3>3, <3>4 DEF pass
  <2>4. ASSUME NEW r \in net, handlePayload(r) \/ lose(r) PROVE tracked(m, p)'
    BY <2>4, ReportTracked
  <2> QED
    BY <2>2, <2>3, <2>4 DEF Next, agent
<1> QED
  BY <1>1, <1>2, <1>3, AlwaysTInv, PTL DEF Spec, NeverVanishes
==============================================================================
