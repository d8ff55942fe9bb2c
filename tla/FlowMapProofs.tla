---------------------------- MODULE FlowMapProofs ----------------------------
(***************************************************************************)
(* Counting at most once, for any number of packets, flows, elements and   *)
(* buckets and with all hooks running at once.                             *)
(***************************************************************************)
EXTENDS FlowMapTally, TLAPS

USE HeaderAssumption, ElemAssumption, MapAssumption

\* An element is linked for one key only, or it is free, or it is a spare one.
Partition ==
  /\ \A k, j \in Key : k # j /\ table[k] # NoElem => table[k] # table[j]
  /\ \A k \in Key : table[k] \notin free /\ table[k] \notin spare
  /\ free \cap spare = {}

\* A packet whose hook is under way is in no entry yet.
NotCountedYet ==
  \A p \in Packet : hook[p].pc # "accepted" =>
    \A k \in Key : p \notin recorded(k) /\ p \notin batch[k] /\ p \notin reported[k]

\* The hook is between its lookup and the add or the update.
InHook(p) == hook[p].pc \in {"found", "missing"}

\* The hook comes to the map only with packets that count.
OnlyCountedInHook == \A p \in Packet : InHook(p) => counts(p)

\* AtMostOnce alone is not inductive: a late add must not hit an element that is
\* linked twice, and must not bring a packet that is counted already.
IInv == TypeOK /\ OnlyCountedInHook /\ Partition /\ NotCountedYet /\ AtMostOnce

\* The key of a counted packet is a key of the map.
LEMMA KeyInMap ==
  ASSUME NEW p \in Packet, counts(p)
  PROVE  key(p) \in Key
BY DEF Key

-----------------------------------------------------------------------------
(***************************************************************************)
(* Type correctness.                                                       *)
(***************************************************************************)

\* The null pointer is never added to, and the hook, the map and the flush stay
\* well typed.
THEOREM Typed == Spec => [](TypeOK /\ OnlyCountedInHook)
<1> DEFINE TInv == TypeOK /\ OnlyCountedInHook
<1> USE DEF OnlyCountedInHook, InHook
<1>1. Init => TInv
  BY DEF Init, TypeOK, NoPackets
<1>2. TInv /\ [Next]_vars => TInv'
  <2> SUFFICES ASSUME TInv, [Next]_vars PROVE TInv'
    OBVIOUS
  <2> USE DEF TypeOK
  <2>1. ASSUME NEW p \in Packet, lookup(p) PROVE TInv'
    <3> DEFINE Local == [pc: {"start", "found", "missing", "accepted"}, elem: Elem \cup {NoElem}]
    <3>1. PICK h : /\ hook' = [hook EXCEPT ![p] = h]
                   /\ h \in Local
                   /\ h.pc = "found" => h.elem \in Elem
                   /\ h.pc \in {"found", "missing"} => counts(p)
      <4>1. CASE ~counts(p)
        <5> WITNESS [pc |-> "accepted", elem |-> NoElem]
        <5> QED
          BY <2>1, <4>1 DEF lookup
      <4>2. CASE counts(p) /\ table[key(p)] # NoElem
        <5>1. table[key(p)] \in Elem
          BY <4>2, KeyInMap
        <5> WITNESS [pc |-> "found", elem |-> table[key(p)]]
        <5> QED
          BY <2>1, <4>2, <5>1 DEF lookup
      <4>3. CASE counts(p) /\ table[key(p)] = NoElem
        <5> WITNESS [pc |-> "missing", elem |-> NoElem]
        <5> QED
          BY <2>1, <4>3 DEF lookup
      <4> QED
        BY <4>1, <4>2, <4>3
    <3>2. hook' \in [Packet -> Local]
      BY <3>1
    <3>3. \A q \in Packet : hook'[q] = IF q = p THEN h ELSE hook[q]
      BY <3>1
    <3>4. \A q \in Packet : /\ hook'[q].pc = "found" => hook'[q].elem \in Elem
                            /\ hook'[q].pc \in {"found", "missing"} => counts(q)
      BY <3>1, <3>3
    <3>5. UNCHANGED <<table, value, free, spare, flush, batch, reported, dropped, unlinked>>
      BY <2>1 DEF lookup
    <3> QED
      BY <3>2, <3>4, <3>5
  <2>2. ASSUME NEW p \in Packet, add(p) PROVE TInv'
    BY <2>2 DEF add, accept, Loss
  <2>3. ASSUME NEW p \in Packet, update(p) PROVE TInv'
    <3>1. key(p) \in Key
      BY <2>3, KeyInMap DEF update
    <3>2. CASE replaceEntry(p)
      <4>1. PICK e \in spare : /\ table' = [table EXCEPT ![key(p)] = e]
                               /\ value' = [value EXCEPT ![e] = {p}]
                               /\ spare' = (spare \ {e}) \cup {table[key(p)]}
        BY <3>2 DEF replaceEntry
      <4>2. table[key(p)] \in Elem /\ UNCHANGED free
        BY <3>1, <3>2 DEF replaceEntry
      <4>3. dropped' \in [Loss -> SUBSET Packet] /\ unlinked' \subseteq Packet
        BY <3>1, <3>2, <4>2 DEF replaceEntry, Loss, holding
      <4> QED
        BY <2>3, <4>1, <4>2, <4>3 DEF update, accept
    <3>3. CASE newEntry(p)
      <4>1. PICK e \in free : /\ table' = [table EXCEPT ![key(p)] = e]
                              /\ value' = [value EXCEPT ![e] = {p}]
                              /\ free' = free \ {e}
        BY <3>3 DEF newEntry
      <4>2. UNCHANGED <<spare, dropped, unlinked>>
        BY <3>3 DEF newEntry
      <4> QED
        BY <2>3, <4>1, <4>2 DEF update, accept
    <3>4. CASE mapFull(p)
      BY <2>3, <3>4 DEF update, accept, mapFull, Loss
    <3> QED
      BY <2>3, <3>2, <3>3, <3>4 DEF update
  <2>4. CASE tick
    BY <2>4 DEF tick
  <2>5. CASE readBucket
    <3>1. \A k \in InBucket(flush.cursor) : k \in Key /\ table[k] \in Elem
      BY DEF InBucket
    <3> QED
      BY <2>5, <3>1 DEF readBucket, holding
  <2>6. CASE handOver
    BY <2>6 DEF handOver, NoPackets
  <2>7. CASE failedRead
    BY <2>7 DEF failedRead, NoPackets, Loss
  <2>8. CASE UNCHANGED vars
    BY <2>8 DEF vars
  <2> QED
    BY <2>1, <2>2, <2>3, <2>4, <2>5, <2>6, <2>7, <2>8 DEF Next, Flush, nf_postrouting_hook
<1> QED
  BY <1>1, <1>2, PTL DEF Spec

-----------------------------------------------------------------------------
(***************************************************************************)
(* At most once.                                                           *)
(***************************************************************************)

\* Linking a free or spare element gives its key the new value and leaves the
\* other entries alone.
LEMMA Linked ==
  ASSUME TypeOK, Partition, NEW p \in Packet, key(p) \in Key, NEW e \in free \cup spare,
         table' = [table EXCEPT ![key(p)] = e],
         value' = [value EXCEPT ![e] = {p}]
  PROVE  \A k \in Key : recorded(k)' = IF k = key(p) THEN {p} ELSE recorded(k)
<1>1. e \in Elem /\ \A k \in Key : table[k] # e
  BY DEF TypeOK, Partition
<1> QED
  BY <1>1 DEF recorded, TypeOK

\* An add changes the entry its element is in, if it is in one.
LEMMA AddEffect ==
  ASSUME TypeOK, NEW p \in Packet, add(p)
  PROVE  \A k \in Key : recorded(k)' = IF table[k] = hook[p].elem THEN recorded(k) \cup {p}
                                       ELSE recorded(k)
<1>1. hook[p].elem \in Elem /\ UNCHANGED table
      /\ value' = [value EXCEPT ![hook[p].elem] = @ \cup {p}]
  BY DEF add, TypeOK
<1> QED
  BY <1>1 DEF recorded, TypeOK

\* An update that finds an element leaves the packet alone in its entry.
LEMMA UpdateEffect ==
  ASSUME TypeOK, Partition, NEW p \in Packet, key(p) \in Key, replaceEntry(p) \/ newEntry(p)
  PROVE  \A k \in Key : recorded(k)' = IF k = key(p) THEN {p} ELSE recorded(k)
<1>1. PICK e \in free \cup spare : /\ table' = [table EXCEPT ![key(p)] = e]
                                   /\ value' = [value EXCEPT ![e] = {p}]
  BY DEF replaceEntry, newEntry
<1> QED
  BY <1>1, Linked

\* Reading a bucket empties its entries.
LEMMA ReadEffect ==
  ASSUME TypeOK, readBucket
  PROVE  /\ \A k \in Key : recorded(k)' = IF k \in InBucket(flush.cursor) THEN {} ELSE recorded(k)
         /\ batch' = [k \in Key |-> IF k \in InBucket(flush.cursor) THEN recorded(k) ELSE batch[k]]
<1> DEFINE B == InBucket(flush.cursor)
<1>1. /\ batch' = [k \in Key |-> IF k \in B THEN value[table[k]] ELSE batch[k]]
      /\ table' = [k \in Key |-> IF k \in B THEN NoElem ELSE table[k]]
      /\ UNCHANGED value
  BY DEF readBucket
<1>2. \A k \in B : table[k] # NoElem
  BY DEF InBucket
<1> HIDE DEF B
<1>3. \A k \in Key : recorded(k)' = IF k \in B THEN {} ELSE recorded(k)
  BY <1>1 DEF recorded
<1>4. batch' = [k \in Key |-> IF k \in B THEN recorded(k) ELSE batch[k]]
  BY <1>1, <1>2 DEF recorded
<1> QED
  BY <1>3, <1>4 DEF B

\* If a hook ends and its packet shows up in at most one entry, or nowhere, then
\* every packet is still counted at most once.
LEMMA CountedOnce ==
  ASSUME NotCountedYet, AtMostOnce, NEW p \in Packet, hook[p].pc # "accepted", accept(p),
         hook \in [Packet -> [pc: {"start", "found", "missing", "accepted"}, elem: Elem \cup {NoElem}]],
         UNCHANGED <<batch, reported>>,
         \A k \in Key : recorded(k)' \subseteq recorded(k) \cup {p},
         \A k, j \in Key : p \in recorded(k)' /\ p \in recorded(j)' => k = j
  PROVE  NotCountedYet' /\ AtMostOnce'
<1>1. \A k \in Key : p \notin recorded(k) /\ p \notin batch[k] /\ p \notin reported[k]
  BY DEF NotCountedYet
<1>2. NotCountedYet'
  <2> SUFFICES ASSUME NEW q \in Packet, hook'[q].pc # "accepted", NEW k \in Key
               PROVE  q \notin recorded(k)' /\ q \notin batch[k] /\ q \notin reported[k]
    BY DEF NotCountedYet
  <2>1. q # p /\ hook'[q] = hook[q]
    BY DEF accept
  <2> QED
    BY <2>1 DEF NotCountedYet
<1>3. AtMostOnce'
  BY <1>1 DEF AtMostOnce
<1> QED
  BY <1>2, <1>3

\* Every step keeps the inductive invariant.
LEMMA StepKeepsIInv ==
  ASSUME IInv, [Next]_vars, TypeOK', OnlyCountedInHook'
  PROVE  IInv'
<1> USE DEF IInv
<1> SUFFICES Partition' /\ NotCountedYet' /\ AtMostOnce'
  OBVIOUS
<1>1. ASSUME NEW p \in Packet, lookup(p) PROVE Partition' /\ NotCountedYet' /\ AtMostOnce'
  <2>1. UNCHANGED <<table, value, free, spare, batch, reported>> /\ hook[p].pc = "start"
    BY <1>1 DEF lookup
  <2>2. \A q \in Packet : hook[q].pc = "accepted" => hook'[q].pc = "accepted"
    BY <1>1, <2>1 DEF lookup, TypeOK
  <2>3. \A k \in Key : recorded(k)' = recorded(k)
    BY <2>1 DEF recorded
  <2>4. NotCountedYet'
    BY <2>1, <2>2, <2>3 DEF NotCountedYet
  <2>5. AtMostOnce'
    BY <2>1, <2>3 DEF AtMostOnce
  <2> QED
    BY <2>1, <2>4, <2>5 DEF Partition
<1>2. ASSUME NEW p \in Packet, add(p) PROVE Partition' /\ NotCountedYet' /\ AtMostOnce'
  <2> DEFINE e == hook[p].elem
  <2>1. /\ hook[p].pc = "found" /\ e \in Elem /\ accept(p)
        /\ value' = [value EXCEPT ![e] = @ \cup {p}]
        /\ UNCHANGED <<table, free, spare, batch, reported>>
    BY <1>2 DEF add, TypeOK
  <2>2. \A k \in Key : recorded(k)' = IF table[k] = e THEN recorded(k) \cup {p} ELSE recorded(k)
    BY <1>2, AddEffect
  <2>3. \A k \in Key : p \notin recorded(k)
    BY <2>1 DEF NotCountedYet
  <2>4. \A k, j \in Key : p \in recorded(k)' /\ p \in recorded(j)' => k = j
    BY <2>1, <2>2, <2>3 DEF Partition
  <2>5. NotCountedYet' /\ AtMostOnce'
    BY <2>1, <2>2, <2>4, CountedOnce DEF TypeOK
  <2> QED
    BY <2>1, <2>5 DEF Partition
<1>3. ASSUME NEW p \in Packet, update(p) PROVE Partition' /\ NotCountedYet' /\ AtMostOnce'
  <2>1. hook[p].pc = "missing" /\ accept(p) /\ UNCHANGED <<batch, reported>>
    BY <1>3 DEF update
  <2>2. key(p) \in Key
    BY <2>1, KeyInMap DEF OnlyCountedInHook, InHook
  <2>3. \A k \in Key : p \notin recorded(k)
    BY <2>1 DEF NotCountedYet
  <2>4. CASE replaceEntry(p)
    <3>1. PICK e \in spare : /\ table' = [table EXCEPT ![key(p)] = e]
                             /\ value' = [value EXCEPT ![e] = {p}]
                             /\ spare' = (spare \ {e}) \cup {table[key(p)]}
      BY <2>4 DEF replaceEntry
    <3>2. UNCHANGED free /\ table[key(p)] # NoElem
      BY <2>4 DEF replaceEntry
    <3>3. \A k \in Key : recorded(k)' = IF k = key(p) THEN {p} ELSE recorded(k)
      BY <2>2, <2>4, UpdateEffect
    <3>4. /\ \A k \in Key : recorded(k)' \subseteq recorded(k) \cup {p}
          /\ \A k, j \in Key : p \in recorded(k)' /\ p \in recorded(j)' => k = j
      BY <2>3, <3>3
    <3>5. NotCountedYet' /\ AtMostOnce'
      BY <2>1, <3>4, CountedOnce DEF TypeOK
    <3>6. Partition'
      BY <2>2, <3>1, <3>2 DEF Partition, TypeOK
    <3> QED
      BY <3>5, <3>6
  <2>5. CASE newEntry(p)
    <3>1. PICK e \in free : /\ table' = [table EXCEPT ![key(p)] = e]
                            /\ value' = [value EXCEPT ![e] = {p}]
                            /\ free' = free \ {e}
      BY <2>5 DEF newEntry
    <3>2. UNCHANGED spare
      BY <2>5 DEF newEntry
    <3>3. \A k \in Key : recorded(k)' = IF k = key(p) THEN {p} ELSE recorded(k)
      BY <2>2, <2>5, UpdateEffect
    <3>4. /\ \A k \in Key : recorded(k)' \subseteq recorded(k) \cup {p}
          /\ \A k, j \in Key : p \in recorded(k)' /\ p \in recorded(j)' => k = j
      BY <2>3, <3>3
    <3>5. NotCountedYet' /\ AtMostOnce'
      BY <2>1, <3>4, CountedOnce DEF TypeOK
    <3>6. Partition'
      BY <2>2, <3>1, <3>2 DEF Partition, TypeOK
    <3> QED
      BY <3>5, <3>6
  <2>6. CASE mapFull(p)
    <3>1. UNCHANGED <<table, value, free, spare>>
      BY <2>6 DEF mapFull
    <3>2. \A k \in Key : recorded(k)' = recorded(k)
      BY <3>1 DEF recorded
    <3>3. NotCountedYet' /\ AtMostOnce'
      BY <2>1, <2>3, <3>2, CountedOnce DEF TypeOK
    <3> QED
      BY <3>1, <3>3 DEF Partition
  <2> QED
    BY <1>3, <2>4, <2>5, <2>6 DEF update
<1>4. CASE readBucket
  <2> DEFINE B == InBucket(flush.cursor)
  <2>1. /\ batch' = [k \in Key |-> IF k \in B THEN value[table[k]] ELSE batch[k]]
        /\ table' = [k \in Key |-> IF k \in B THEN NoElem ELSE table[k]]
        /\ free' = free \cup {table[k] : k \in B}
        /\ UNCHANGED <<value, spare, hook, reported>>
    BY <1>4 DEF readBucket
  <2>2. \A k \in B : k \in Key /\ table[k] # NoElem /\ table[k] \in Elem
    BY DEF InBucket, TypeOK
  <2> HIDE DEF B
  <2>3. \A k \in Key : recorded(k)' = IF k \in B THEN {} ELSE recorded(k)
    BY <1>4, ReadEffect DEF B
  <2>4. \A k \in Key : batch'[k] = IF k \in B THEN recorded(k) ELSE batch[k]
    BY <1>4, ReadEffect DEF B
  <2>5. NotCountedYet'
    BY <2>1, <2>3, <2>4 DEF NotCountedYet
  <2>6. AtMostOnce'
    BY <2>1, <2>3, <2>4 DEF AtMostOnce
  <2>7. Partition'
    BY <2>1, <2>2 DEF Partition, TypeOK
  <2> QED
    BY <2>5, <2>6, <2>7
<1>5. CASE handOver
  <2>1. /\ reported' = [k \in Key |-> reported[k] \cup batch[k]]
        /\ batch' = [k \in Key |-> {}]
        /\ UNCHANGED <<table, value, free, spare, hook>>
    BY <1>5 DEF handOver, NoPackets
  <2>2. \A k \in Key : recorded(k)' = recorded(k)
    BY <2>1 DEF recorded
  <2>3. NotCountedYet'
    BY <2>1, <2>2 DEF NotCountedYet
  <2>4. AtMostOnce'
    BY <2>1, <2>2 DEF AtMostOnce
  <2> QED
    BY <2>1, <2>3, <2>4 DEF Partition
<1>6. CASE failedRead \/ tick \/ UNCHANGED vars
  <2>1. /\ batch' = batch \/ batch' = [k \in Key |-> {}]
        /\ UNCHANGED <<table, value, free, spare, hook, reported>>
    BY <1>6 DEF failedRead, tick, vars, NoPackets
  <2>2. \A k \in Key : recorded(k)' = recorded(k)
    BY <2>1 DEF recorded
  <2>3. NotCountedYet'
    BY <2>1, <2>2 DEF NotCountedYet
  <2>4. AtMostOnce'
    BY <2>1, <2>2 DEF AtMostOnce
  <2> QED
    BY <2>1, <2>3, <2>4 DEF Partition
<1> QED
  BY <1>1, <1>2, <1>3, <1>4, <1>5, <1>6 DEF Next, Flush, nf_postrouting_hook

\* The inductive invariant holds from the start.
LEMMA Inductive == Spec => []IInv
<1>1. Init => IInv
  <2> SUFFICES ASSUME Init PROVE IInv
    OBVIOUS
  <2>1. \A k \in Key : recorded(k) = {} /\ batch[k] = {} /\ reported[k] = {}
    BY DEF Init, recorded, NoPackets
  <2>2. TypeOK /\ OnlyCountedInHook
    BY DEF Init, TypeOK, NoPackets, OnlyCountedInHook, InHook
  <2>3. Partition
    BY DEF Init, Partition
  <2> QED
    BY <2>1, <2>2, <2>3 DEF IInv, NotCountedYet, AtMostOnce
<1>2. IInv /\ [Next]_vars /\ (TypeOK /\ OnlyCountedInHook)' => IInv'
  BY StepKeepsIInv
<1> QED
  BY <1>1, <1>2, Typed, PTL DEF Spec

\* However hooks and flushes overlap, no packet is counted twice: not in two
\* entries of ip_map, not by two flushes.
THEOREM PacketsCountOnce == Spec => []AtMostOnce
<1>1. IInv => AtMostOnce
  BY DEF IInv
<1> QED
  BY <1>1, Inductive, PTL

-----------------------------------------------------------------------------
(***************************************************************************)
(* No packet is lost but in the four ways.                                 *)
(***************************************************************************)

\* A key that this flush has read is in a bucket before the cursor, and between
\* two flushes nothing is kept: a bucket that is read overwrites nothing.
BatchBehind ==
  \A k \in Key : batch[k] # {} => flush.pc = "reading" /\ jhash[k] < flush.cursor

\* Reading goes on behind the cursor.
LEMMA Behind == Spec => []BatchBehind
<1>1. Init => BatchBehind
  BY DEF Init, BatchBehind, NoPackets
<1>2. TypeOK /\ BatchBehind /\ [Next]_vars => BatchBehind'
  <2> SUFFICES ASSUME TypeOK, BatchBehind, [Next]_vars PROVE BatchBehind'
    OBVIOUS
  <2>1. ASSUME NEW p \in Packet, nf_postrouting_hook(p) PROVE BatchBehind'
    BY <2>1 DEF nf_postrouting_hook, lookup, add, update, BatchBehind
  <2>2. CASE readBucket
    <3>1. flush' = [flush EXCEPT !.cursor = @ + 1] /\ flush.pc = "reading"
      BY <2>2 DEF readBucket
    <3>2. flush'.pc = "reading" /\ flush'.cursor = flush.cursor + 1 /\ flush.cursor \in Nat
      BY <3>1 DEF TypeOK
    <3>3. \A k \in Key : batch'[k] # {} => jhash[k] = flush.cursor \/ batch[k] # {}
      BY <2>2, ReadEffect DEF InBucket
    <3>4. \A k \in Key : jhash[k] \in Nat
      OBVIOUS
    <3> QED
      BY <3>2, <3>3, <3>4 DEF BatchBehind
  <2>3. CASE handOver \/ failedRead
    BY <2>3 DEF handOver, failedRead, NoPackets, BatchBehind
  <2>4. CASE tick
    BY <2>4 DEF tick, BatchBehind
  <2>5. CASE UNCHANGED vars
    BY <2>5 DEF vars, BatchBehind
  <2> QED
    BY <2>1, <2>2, <2>3, <2>4, <2>5 DEF Next, Flush
<1> QED
  BY <1>1, <1>2, Typed, PTL DEF Spec

\* Every step keeps track of every packet.
LEMMA StepKeepsAccounted ==
  ASSUME IInv, BatchBehind, Accounted, [Next]_vars
  PROVE  Accounted'
<1> DEFINE Safe(p) == Counted(p) \/ \E l \in Loss : p \in dropped[l]
<1> SUFFICES ASSUME NEW q \in Packet, hook'[q].pc = "accepted", counts(q)
             PROVE  Safe(q)'
  BY DEF Accounted
<1> USE DEF IInv
<1>1. hook[q].pc = "accepted" => Safe(q)
  BY DEF Accounted
<1>2. ASSUME NEW p \in Packet, lookup(p) PROVE Safe(q)'
  <2>1. UNCHANGED <<table, value, batch, reported, dropped>>
    BY <1>2 DEF lookup
  <2>2. hook[q].pc = "accepted"
    <3>1. CASE q # p
      BY <1>2, <3>1 DEF lookup, TypeOK
    <3>2. CASE q = p
      <4>1. hook'[q].pc \in {"found", "missing"}
        BY <1>2, <3>2 DEF lookup, TypeOK
      <4> QED
        BY <4>1
    <3> QED
      BY <3>1, <3>2
  <2> QED
    BY <1>1, <2>1, <2>2 DEF Counted, recorded
<1>3. ASSUME NEW p \in Packet, add(p) PROVE Safe(q)'
  <2>1. UNCHANGED <<table, batch, reported>> /\ accept(p)
    BY <1>3 DEF add
  <2>2. \A k \in Key : recorded(k) \subseteq recorded(k)'
    BY <1>3, AddEffect
  <2>3. dropped \in [Loss -> SUBSET Packet] /\ \A l \in Loss : dropped[l] \subseteq dropped'[l]
    BY <1>3 DEF add, TypeOK
  <2>4. CASE q # p
    <3>1. hook[q].pc = "accepted"
      BY <2>1, <2>4 DEF accept, TypeOK
    <3> QED
      BY <1>1, <2>1, <2>2, <2>3, <3>1 DEF Counted
  <2>5. CASE q = p
    <3>1. CASE \E k \in Key : table[k] = hook[p].elem
      <4>1. \E k \in Key : q \in recorded(k)'
        BY <1>3, <2>5, <3>1, AddEffect
      <4> QED
        BY <4>1 DEF Counted
    <3>2. CASE ~ \E k \in Key : table[k] = hook[p].elem
      <4>1. q \in dropped'["unlinked"]
        BY <1>3, <2>3, <2>5, <3>2 DEF add, Loss
      <4> QED
        BY <4>1 DEF Loss
    <3> QED
      BY <3>1, <3>2
  <2> QED
    BY <2>4, <2>5
<1>4. ASSUME NEW p \in Packet, update(p) PROVE Safe(q)'
  <2>1. hook[p].pc = "missing" /\ accept(p) /\ UNCHANGED <<batch, reported>>
    BY <1>4 DEF update
  <2>2. key(p) \in Key
    BY <2>1, KeyInMap DEF OnlyCountedInHook, InHook
  <2>3. q # p => hook[q].pc = "accepted"
    BY <2>1 DEF accept, TypeOK
  <2>4. CASE replaceEntry(p)
    <3>1. \A k \in Key : recorded(k)' = IF k = key(p) THEN {p} ELSE recorded(k)
      BY <2>2, <2>4, UpdateEffect
    <3>2. recorded(key(p)) = value[table[key(p)]]
      BY <2>4 DEF replaceEntry, recorded
    <3>3. /\ \A l \in Loss : dropped[l] \subseteq dropped'[l]
          /\ recorded(key(p)) \subseteq dropped'["replaced"]
      BY <2>4, <3>2 DEF replaceEntry, Loss, TypeOK
    <3> QED
      BY <1>1, <2>1, <2>2, <2>3, <3>1, <3>3 DEF Counted, Loss
  <2>5. CASE newEntry(p)
    <3>1. \A k \in Key : recorded(k)' = IF k = key(p) THEN {p} ELSE recorded(k)
      BY <2>2, <2>5, UpdateEffect
    <3>2. recorded(key(p)) = {} /\ UNCHANGED dropped
      BY <2>5 DEF newEntry, recorded
    <3> QED
      BY <1>1, <2>1, <2>2, <2>3, <3>1, <3>2 DEF Counted
  <2>6. CASE mapFull(p)
    <3>1. UNCHANGED <<table, value>>
      BY <2>6 DEF mapFull
    <3>2. \A k \in Key : recorded(k)' = recorded(k)
      BY <3>1 DEF recorded
    <3>3. /\ \A l \in Loss : dropped[l] \subseteq dropped'[l]
          /\ p \in dropped'["full"]
      BY <2>6 DEF mapFull, Loss, TypeOK
    <3> QED
      BY <1>1, <2>1, <2>3, <3>2, <3>3 DEF Counted, Loss
  <2> QED
    BY <1>4, <2>4, <2>5, <2>6 DEF update
<1>5. CASE readBucket
  <2> DEFINE B == InBucket(flush.cursor)
  <2>1. \A k \in B : batch[k] = {}
    <3>1. \A k \in B : k \in Key /\ jhash[k] = flush.cursor /\ jhash[k] \in Nat
      BY DEF InBucket
    <3> QED
      BY <3>1 DEF BatchBehind
  <2>2. /\ \A k \in Key : recorded(k)' = IF k \in B THEN {} ELSE recorded(k)
        /\ \A k \in Key : batch'[k] = IF k \in B THEN recorded(k) ELSE batch[k]
    BY <1>5, ReadEffect
  <2>3. UNCHANGED <<hook, reported, dropped>>
    BY <1>5 DEF readBucket
  <2> HIDE DEF B
  <2>4. \A k \in Key : recorded(k) \cup batch[k] \subseteq recorded(k)' \cup batch'[k]
    BY <2>1, <2>2
  <2> QED
    BY <1>1, <2>3, <2>4 DEF Counted
<1>6. CASE handOver
  <2>1. /\ \A k \in Key : reported'[k] = reported[k] \cup batch[k]
        /\ UNCHANGED <<table, value, hook, dropped>>
    BY <1>6 DEF handOver
  <2>2. \A k \in Key : recorded(k)' = recorded(k)
    BY <2>1 DEF recorded
  <2> QED
    BY <1>1, <2>1, <2>2 DEF Counted
<1>7. CASE failedRead
  <2>1. UNCHANGED <<table, value, hook, reported>>
    BY <1>7 DEF failedRead
  <2>2. \A k \in Key : recorded(k)' = recorded(k)
    BY <2>1 DEF recorded
  <2>3. /\ \A l \in Loss : dropped[l] \subseteq dropped'[l]
        /\ \A k \in Key : batch[k] \subseteq dropped'["failedRead"]
    BY <1>7 DEF failedRead, Loss, TypeOK
  <2> QED
    BY <1>1, <2>1, <2>2, <2>3 DEF Counted, Loss
<1>8. CASE tick \/ UNCHANGED vars
  <2>1. UNCHANGED <<table, value, hook, batch, reported, dropped>>
    BY <1>8 DEF tick, vars
  <2> QED
    BY <1>1, <2>1 DEF Counted, recorded
<1> QED
  BY <1>2, <1>3, <1>4, <1>5, <1>6, <1>7, <1>8 DEF Next, Flush, nf_postrouting_hook

\* Every pod-to-pod packet that has passed is in the map, or was read by a
\* flush, or was lost to a full map, a failed read, a racing insert or a freed
\* element.
THEOREM NothingElseIsLost == Spec => []Accounted
<1>1. Init => Accounted
  BY DEF Init, Accounted
<1>2. IInv /\ BatchBehind /\ Accounted /\ [Next]_vars => Accounted'
  BY StepKeepsAccounted
<1> QED
  BY <1>1, <1>2, Inductive, Behind, PTL DEF Spec

-----------------------------------------------------------------------------
(***************************************************************************)
(* Only a freed element brings a packet to another flow.                   *)
(***************************************************************************)

\* A hook whose element was not freed under it points to the entry of its key.
PointsToItsEntry ==
  \A p \in Packet : hook[p].pc = "found" /\ p \notin unlinked => table[key(p)] = hook[p].elem

OwnInv == PointsToItsEntry /\ OwnFlowUnlessUnlinked

\* Every step keeps the pointers and the packets where they belong.
LEMMA StepKeepsOwnFlow ==
  ASSUME IInv, OwnInv, [Next]_vars
  PROVE  OwnInv'
<1> DEFINE Held(k) == recorded(k) \cup batch[k] \cup reported[k]
<1> USE DEF IInv
<1>1. ASSUME NEW p \in Packet, lookup(p) PROVE OwnInv'
  <2>1. UNCHANGED <<table, value, batch, reported, unlinked>>
    BY <1>1 DEF lookup
  <2>2. \A k \in Key : Held(k)' = Held(k)
    BY <2>1 DEF recorded
  <2>3. OwnFlowUnlessUnlinked'
    BY <2>1, <2>2 DEF OwnInv, OwnFlowUnlessUnlinked
  <2>4. \A q \in Packet : q # p => hook'[q] = hook[q]
    BY <1>1 DEF lookup, TypeOK
  <2>5. hook'[p].pc = "found" => hook'[p].elem = table[key(p)]
    <3>1. p \in DOMAIN hook
      BY DEF TypeOK
    <3>2. hook'[p] = IF ~counts(p) THEN [pc |-> "accepted", elem |-> NoElem]
                     ELSE IF table[key(p)] # NoElem THEN [pc |-> "found", elem |-> table[key(p)]]
                     ELSE [pc |-> "missing", elem |-> NoElem]
      BY <1>1, <3>1 DEF lookup
    <3> QED
      BY <3>2
  <2>6. PointsToItsEntry'
    BY <2>1, <2>4, <2>5 DEF OwnInv, PointsToItsEntry
  <2> QED
    BY <2>3, <2>6 DEF OwnInv
<1>2. ASSUME NEW p \in Packet, add(p) PROVE OwnInv'
  <2>1. hook[p].pc = "found" /\ accept(p) /\ UNCHANGED <<table, batch, reported, unlinked>>
    BY <1>2 DEF add
  <2>2. PointsToItsEntry'
    BY <2>1 DEF OwnInv, PointsToItsEntry, accept, TypeOK
  <2>3. key(p) \in Key /\ hook[p].elem \in Elem
    BY <2>1, KeyInMap DEF OnlyCountedInHook, InHook, TypeOK
  <2>4. \A k \in Key : p \in unlinked \/ table[k] # hook[p].elem \/ k = key(p)
    BY <2>1, <2>3 DEF OwnInv, PointsToItsEntry, Partition
  <2>5. \A k \in Key : \A q \in Held(k)' : q \in Held(k) \/ (q = p /\ table[k] = hook[p].elem)
    BY <1>2, <2>1, AddEffect
  <2>6. OwnFlowUnlessUnlinked'
    BY <2>1, <2>4, <2>5 DEF OwnInv, OwnFlowUnlessUnlinked
  <2> QED
    BY <2>2, <2>6 DEF OwnInv
<1>3. ASSUME NEW p \in Packet, update(p) PROVE OwnInv'
  <2>1. hook[p].pc = "missing" /\ accept(p) /\ UNCHANGED <<batch, reported>>
    BY <1>3 DEF update
  <2>2. key(p) \in Key
    BY <2>1, KeyInMap DEF OnlyCountedInHook, InHook
  <2>3. \A q \in Packet : hook'[q].pc = "found" => hook[q] = hook'[q]
    BY <2>1 DEF accept, TypeOK
  <2>4. CASE replaceEntry(p) \/ newEntry(p)
    <3>1. PICK e : table' = [table EXCEPT ![key(p)] = e]
      BY <2>4 DEF replaceEntry, newEntry
    <3>2. /\ unlinked \subseteq unlinked'
          /\ table[key(p)] # NoElem => holding({table[key(p)]}) \subseteq unlinked'
      BY <2>4 DEF replaceEntry, newEntry
    <3>3. \A k \in Key : \A q \in Held(k)' : q \in Held(k) \/ (q = p /\ k = key(p))
      BY <2>1, <2>2, <2>4, UpdateEffect
    <3>4. OwnFlowUnlessUnlinked'
      BY <3>2, <3>3 DEF OwnInv, OwnFlowUnlessUnlinked
    <3>5. ASSUME NEW q \in Packet, hook'[q].pc = "found", q \notin unlinked'
          PROVE  table'[key(q)] = hook'[q].elem
      <4>1. hook[q].pc = "found" /\ hook[q].elem \in Elem /\ table[key(q)] = hook[q].elem
        BY <2>3, <3>2, <3>5 DEF OwnInv, PointsToItsEntry, TypeOK
      <4>2. key(q) # key(p)
        BY <3>2, <3>5, <4>1 DEF holding
      <4> QED
        BY <2>2, <2>3, <3>1, <3>5, <4>1, <4>2 DEF TypeOK
    <3> QED
      BY <3>4, <3>5 DEF OwnInv, PointsToItsEntry
  <2>5. CASE mapFull(p)
    <3>1. UNCHANGED <<table, value, unlinked>>
      BY <2>5 DEF mapFull
    <3>2. \A k \in Key : Held(k)' = Held(k)
      BY <2>1, <3>1 DEF recorded
    <3> QED
      BY <2>3, <3>1, <3>2 DEF OwnInv, PointsToItsEntry, OwnFlowUnlessUnlinked
  <2> QED
    BY <1>3, <2>4, <2>5 DEF update
<1>4. CASE readBucket
  <2> DEFINE B == InBucket(flush.cursor)
  <2>1. /\ table' = [k \in Key |-> IF k \in B THEN NoElem ELSE table[k]]
        /\ unlinked' = unlinked \cup holding({table[k] : k \in B})
        /\ UNCHANGED <<hook, reported>>
    BY <1>4 DEF readBucket
  <2>2. \A k \in Key : Held(k)' \subseteq Held(k)
    BY <1>4, <2>1, ReadEffect
  <2> HIDE DEF B
  <2>3. OwnFlowUnlessUnlinked'
    BY <2>1, <2>2 DEF OwnInv, OwnFlowUnlessUnlinked
  <2>4. ASSUME NEW q \in Packet, hook[q].pc = "found", q \notin unlinked'
        PROVE  table'[key(q)] = hook[q].elem
    <3>1. key(q) \in Key
      BY <2>4, KeyInMap DEF OnlyCountedInHook, InHook
    <3>2. table[key(q)] = hook[q].elem
      BY <2>1, <2>4 DEF OwnInv, PointsToItsEntry
    <3>3. key(q) \notin B
      BY <2>1, <2>4, <3>2 DEF holding
    <3> QED
      BY <2>1, <3>1, <3>2, <3>3
  <2>5. PointsToItsEntry'
    BY <2>1, <2>4 DEF PointsToItsEntry
  <2> QED
    BY <2>3, <2>5 DEF OwnInv
<1>5. CASE handOver \/ failedRead \/ tick \/ UNCHANGED vars
  <2>1. UNCHANGED <<table, value, hook, unlinked>>
    BY <1>5 DEF handOver, failedRead, tick, vars
  <2>2. \A k \in Key : recorded(k)' = recorded(k)
    BY <2>1 DEF recorded
  <2>3. \A k \in Key : batch'[k] \cup reported'[k] \subseteq batch[k] \cup reported[k]
    BY <1>5 DEF handOver, failedRead, tick, vars, NoPackets
  <2> QED
    BY <2>1, <2>2, <2>3 DEF OwnInv, PointsToItsEntry, OwnFlowUnlessUnlinked
<1> QED
  BY <1>1, <1>2, <1>3, <1>4, <1>5 DEF Next, Flush, nf_postrouting_hook

\* A packet is counted for another flow only if the element its hook had found
\* was freed before the hook added to it.
THEOREM OnlyFreedElementsStray == Spec => []OwnFlowUnlessUnlinked
<1>1. Init => OwnInv
  <2> SUFFICES ASSUME Init PROVE OwnInv
    OBVIOUS
  <2>1. \A k \in Key : recorded(k) = {} /\ batch[k] = {} /\ reported[k] = {}
    BY DEF Init, recorded, NoPackets
  <2> QED
    BY <2>1 DEF Init, OwnInv, PointsToItsEntry, OwnFlowUnlessUnlinked
<1>2. IInv /\ OwnInv /\ [Next]_vars => OwnInv'
  BY StepKeepsOwnFlow
<1>3. OwnInv => OwnFlowUnlessUnlinked
  BY DEF OwnInv
<1> QED
  BY <1>1, <1>2, <1>3, Inductive, PTL DEF Spec

-----------------------------------------------------------------------------
(***************************************************************************)
(* The map with its elements, buckets and pointers implements the table of *)
(* flows of module Tally.                                                  *)
(***************************************************************************)

\* The table that Tally sees.
Seen == [k \in Key |-> recorded(k)]

PassedHere == {p \in CountedPacket : hook[p].pc = "accepted"}

\* No entry is empty: a hook that adds to an entry finds packets in it.
EntriesHold == \A k \in Key : table[k] # NoElem => value[table[k]] # {}

\* An entry is made with a packet and only grows.
LEMMA EntriesHoldAlways == Spec => []EntriesHold
<1>1. Init => EntriesHold
  BY DEF Init, EntriesHold
<1>2. IInv /\ EntriesHold /\ [Next]_vars => EntriesHold'
  <2> SUFFICES ASSUME IInv, EntriesHold, [Next]_vars PROVE EntriesHold'
    OBVIOUS
  <2> USE DEF IInv
  <2>1. ASSUME NEW p \in Packet, lookup(p) PROVE EntriesHold'
    BY <2>1 DEF lookup, EntriesHold
  <2>2. ASSUME NEW p \in Packet, add(p) PROVE EntriesHold'
    BY <2>2 DEF add, EntriesHold, TypeOK
  <2>3. ASSUME NEW p \in Packet, update(p) PROVE EntriesHold'
    <3>1. key(p) \in Key
      BY <2>3, KeyInMap DEF update, OnlyCountedInHook, InHook
    <3>2. CASE replaceEntry(p) \/ newEntry(p)
      <4>1. PICK e \in free \cup spare : /\ table' = [table EXCEPT ![key(p)] = e]
                                         /\ value' = [value EXCEPT ![e] = {p}]
        BY <3>2 DEF replaceEntry, newEntry
      <4>2. e \in Elem /\ \A k \in Key : table[k] # e
        BY DEF Partition, TypeOK
      <4> QED
        BY <3>1, <4>1, <4>2 DEF EntriesHold, TypeOK
    <3>3. CASE mapFull(p)
      BY <3>3 DEF mapFull, EntriesHold
    <3> QED
      BY <2>3, <3>2, <3>3 DEF update
  <2>4. CASE readBucket
    BY <2>4 DEF readBucket, EntriesHold
  <2>5. CASE handOver \/ failedRead \/ tick \/ UNCHANGED vars
    BY <2>5 DEF handOver, failedRead, tick, vars, EntriesHold
  <2> QED
    BY <2>1, <2>2, <2>3, <2>4, <2>5 DEF Next, Flush, nf_postrouting_hook
<1> QED
  BY <1>1, <1>2, Inductive, PTL DEF Spec

\* The end of a hook is one pass.
LEMMA HookEnds ==
  ASSUME TypeOK, NEW p \in Packet, counts(p), hook[p].pc # "accepted", accept(p),
         UNCHANGED <<batch, reported>>,
         Seen' \in T!after(Seen, p)
  PROVE  T!Pass(p)
<1>1. p \in CountedPacket /\ p \notin PassedHere
  BY DEF CountedPacket, PassedHere
<1>2. PassedHere' = PassedHere \cup {p}
  BY <1>1 DEF PassedHere, CountedPacket, accept, TypeOK
<1> QED
  BY <1>1, <1>2 DEF T!Pass, PassedHere, Seen

\* Every step of the map is a step of Tally or changes nothing there.
LEMMA StepImplements ==
  ASSUME IInv, BatchBehind, EntriesHold, [Next]_vars
  PROVE  [T!Next]_(T!vars)
<1> USE DEF IInv
<1>1. ASSUME NEW p \in Packet, lookup(p) PROVE UNCHANGED T!vars
  <2>1. UNCHANGED <<table, value, batch, reported>>
    BY <1>1 DEF lookup
  <2>2. Seen' = Seen
    BY <2>1 DEF Seen, recorded
  <2>3. \A q \in CountedPacket : hook[q].pc = "accepted" <=> hook'[q].pc = "accepted"
    <3> SUFFICES ASSUME NEW q \in CountedPacket
                 PROVE  hook[q].pc = "accepted" <=> hook'[q].pc = "accepted"
      OBVIOUS
    <3>1. CASE q # p
      BY <1>1, <3>1 DEF lookup, TypeOK, CountedPacket
    <3>2. CASE q = p
      BY <1>1, <3>2 DEF lookup, TypeOK, CountedPacket
    <3> QED
      BY <3>1, <3>2
  <2>4. PassedHere' = PassedHere
    BY <2>3 DEF PassedHere
  <2> QED
    BY <2>1, <2>2, <2>4 DEF T!vars, Seen, PassedHere
<1>2. ASSUME NEW p \in Packet, add(p) PROVE T!Pass(p)
  <2>1. /\ hook[p].pc = "found" /\ accept(p) /\ counts(p) /\ hook[p].elem \in Elem
        /\ UNCHANGED <<batch, reported>>
    BY <1>2 DEF add, OnlyCountedInHook, InHook, TypeOK
  <2>2. \A k \in Key : recorded(k)' = IF table[k] = hook[p].elem THEN recorded(k) \cup {p}
                                      ELSE recorded(k)
    BY <1>2, AddEffect
  <2>3. CASE \E k \in Key : table[k] = hook[p].elem
    <3>1. PICK k \in Key : table[k] = hook[p].elem
      BY <2>3
    <3>2. \A j \in Key : table[j] = hook[p].elem <=> j = k
      BY <2>1, <3>1 DEF Partition
    <3>3. Seen' = [Seen EXCEPT ![k] = @ \cup {p}]
      BY <2>2, <3>2 DEF Seen
    <3>4. Seen[k] # {}
      BY <2>1, <3>1 DEF Seen, recorded, EntriesHold
    <3>5. Seen' \in T!after(Seen, p)
      BY <3>3, <3>4 DEF T!after
    <3> QED
      BY <2>1, <3>5, HookEnds
  <2>4. CASE ~ \E k \in Key : table[k] = hook[p].elem
    <3>1. Seen' = Seen
      BY <2>2, <2>4 DEF Seen
    <3>2. Seen' \in T!after(Seen, p)
      BY <3>1 DEF T!after
    <3> QED
      BY <2>1, <3>2, HookEnds
  <2> QED
    BY <2>3, <2>4
<1>3. ASSUME NEW p \in Packet, update(p) PROVE T!Pass(p)
  <2>1. /\ hook[p].pc = "missing" /\ accept(p) /\ counts(p)
        /\ UNCHANGED <<batch, reported>>
    BY <1>3 DEF update, OnlyCountedInHook, InHook
  <2>2. key(p) \in Key /\ p \in CountedPacket
    BY <2>1, KeyInMap DEF CountedPacket
  <2>3. CASE replaceEntry(p) \/ newEntry(p)
    <3>1. \A k \in Key : recorded(k)' = IF k = key(p) THEN {p} ELSE recorded(k)
      BY <2>2, <2>3, UpdateEffect
    <3>2. Seen' = [Seen EXCEPT ![key(p)] = {p}]
      BY <3>1 DEF Seen
    <3>3. Seen' \in T!after(Seen, p)
      BY <2>2, <3>2 DEF T!after
    <3> QED
      BY <2>1, <3>3, HookEnds
  <2>4. CASE mapFull(p)
    <3>1. UNCHANGED <<table, value>>
      BY <2>4 DEF mapFull
    <3>2. Seen' = Seen
      BY <3>1 DEF Seen, recorded
    <3>3. Seen' \in T!after(Seen, p)
      BY <3>2 DEF T!after
    <3> QED
      BY <2>1, <3>3, HookEnds
  <2> QED
    BY <1>3, <2>3, <2>4 DEF update
<1>4. ASSUME readBucket PROVE T!Read(InBucket(flush.cursor))
  <2> DEFINE B == InBucket(flush.cursor)
  <2>1. /\ \A k \in Key : recorded(k)' = IF k \in B THEN {} ELSE recorded(k)
        /\ batch' = [k \in Key |-> IF k \in B THEN recorded(k) ELSE batch[k]]
    BY <1>4, ReadEffect
  <2>2. \A k \in B : batch[k] = {}
    <3>1. \A k \in B : k \in Key /\ jhash[k] = flush.cursor /\ jhash[k] \in Nat
      BY DEF InBucket
    <3> QED
      BY <3>1 DEF BatchBehind
  <2>3. UNCHANGED <<hook, reported>>
    BY <1>4 DEF readBucket
  <2> HIDE DEF B
  <2>4. Seen' = T!without(Seen, B)
    BY <2>1 DEF Seen, T!without
  <2>5. batch' = [k \in Key |-> IF k \in B THEN Seen[k] ELSE batch[k]]
    BY <2>1 DEF Seen
  <2>6. PassedHere' = PassedHere
    BY <2>3 DEF PassedHere
  <2>7. T!Read(B)
    BY <2>2, <2>3, <2>4, <2>5, <2>6 DEF T!Read, Seen, PassedHere
  <2> QED
    BY <2>7 DEF B
<1>5. ASSUME handOver PROVE T!HandOver
  <2>1. UNCHANGED <<table, value, hook>>
    BY <1>5 DEF handOver
  <2>2. Seen' = Seen /\ PassedHere' = PassedHere
    BY <2>1 DEF Seen, recorded, PassedHere
  <2> QED
    BY <1>5, <2>2 DEF handOver, NoPackets, T!HandOver, T!Empty, Seen, PassedHere
<1>6. ASSUME failedRead PROVE T!Fail
  <2>1. UNCHANGED <<table, value, hook>>
    BY <1>6 DEF failedRead
  <2>2. Seen' = Seen /\ PassedHere' = PassedHere
    BY <2>1 DEF Seen, recorded, PassedHere
  <2> QED
    BY <1>6, <2>2 DEF failedRead, NoPackets, T!Fail, T!Empty, Seen, PassedHere
<1>7. ASSUME tick \/ UNCHANGED vars PROVE UNCHANGED T!vars
  <2>1. UNCHANGED <<table, value, hook, batch, reported>>
    BY <1>7 DEF tick, vars
  <2>2. Seen' = Seen /\ PassedHere' = PassedHere
    BY <2>1 DEF Seen, recorded, PassedHere
  <2> QED
    BY <2>1, <2>2 DEF T!vars, Seen, PassedHere
<1>8. ASSUME NEW p \in Packet, T!Pass(p) PROVE T!Next
  <2>1. CASE p \in CountedPacket
    BY <1>8, <2>1 DEF T!Next
  <2>2. CASE p \notin CountedPacket
    BY <1>8, <2>2 DEF T!Pass
  <2> QED
    BY <2>1, <2>2
<1> QED
  BY <1>1, <1>2, <1>3, <1>4, <1>5, <1>6, <1>7, <1>8
  DEF Next, Flush, nf_postrouting_hook, T!Next, InBucket

\* ip_map with its hooks and its flush does to the table of flows what Tally
\* allows, however hooks, frees and reads interleave.
THEOREM MapImplementsTally == Spec => ImplementsTally
<1>1. Init => T!Init
  <2> SUFFICES ASSUME Init PROVE T!Init
    OBVIOUS
  <2>1. \A k \in Key : recorded(k) = {}
    BY DEF Init, recorded
  <2>2. {p \in CountedPacket : hook[p].pc = "accepted"} = {}
    BY DEF Init, CountedPacket
  <2> QED
    BY <2>1, <2>2 DEF Init, T!Init, T!Empty, NoPackets
<1>2. IInv /\ BatchBehind /\ EntriesHold /\ [Next]_vars => [T!Next]_(T!vars)
  BY StepImplements
<1> QED
  BY <1>1, <1>2, Inductive, Behind, EntriesHoldAlways, PTL DEF Spec, ImplementsTally, T!Spec
==============================================================================
