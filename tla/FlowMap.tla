------------------------------- MODULE FlowMap -------------------------------
(***************************************************************************)
(* The agent's kernel side: the netfilter hook of src/agent/kubezonnet.c,  *)
(* which adds the size of every packet between two pods to an entry of     *)
(* ip_map, and the flush of src/agent/agent.go, which reads and empties    *)
(* the map at every tick.                                                  *)
(*                                                                         *)
(* Hooks run on all CPUs at once, and beside the flush.  A hook keeps the  *)
(* pointer that bpf_map_lookup_elem returned and adds through it later; by *)
(* then the element may have been read, freed and used for another key.    *)
(* BPF_MAP_TYPE_HASH (not in src/) preallocates its elements and reuses a  *)
(* freed one at once; its updates, and the batch operation on one bucket,  *)
(* are atomic.                                                             *)
(*                                                                         *)
(* packet_size adds up the tot_len of packets, so here it is the set of    *)
(* packets that were added up.                                             *)
(***************************************************************************)
EXTENDS Naturals, FiniteSets

CONSTANTS
  Packet,        \* packets that pass the hook, each once
  header,        \* packet -> what the hook reads of it, see Header
  IPv4, Port,    \* addresses and port numbers
  Subnet,        \* the addresses with (addr & subnet_mask) == subnet_prefix
  Elem,          \* the preallocated elements of ip_map
  NoElem,        \* the null pointer
  MaxEntries,    \* 1024
  Buckets,       \* the number of hash buckets
  jhash          \* key -> bucket

Header == [protocol: {"ETH_P_IP", "ETH_P_IPV6", "other"},
           readable: BOOLEAN,                        \* dynptr and IP header can be had
           saddr: IPv4, daddr: IPv4,
           l4: {"TCP", "UDP", "other"},
           ports: (Port \X Port) \cup {<<>>}]        \* the 4 bytes after the IP header, if there

\* The hook counts IPv4 packets from a pod to a pod.
counts(p) ==
  /\ header[p].protocol = "ETH_P_IP"
  /\ header[p].readable
  /\ header[p].saddr \in Subnet
  /\ header[p].daddr \in Subnet

hasPorts(p) == header[p].l4 \in {"TCP", "UDP"} /\ header[p].ports # <<>>

\* In a fragment that is not the first the 4 bytes are payload; they are taken
\* for ports all the same.
key(p) == [src_ip    |-> header[p].saddr,
           dest_ip   |-> header[p].daddr,
           src_port  |-> IF hasPorts(p) THEN header[p].ports[1] ELSE 0,
           dest_port |-> IF hasPorts(p) THEN header[p].ports[2] ELSE 0]

Key == {key(p) : p \in {q \in Packet : counts(q)}}

ASSUME HeaderAssumption == header \in [Packet -> Header]

ASSUME ElemAssumption == NoElem \notin Elem

ASSUME MapAssumption ==
  /\ MaxEntries \in Nat
  /\ Buckets \in Nat
  /\ jhash \in [Key -> 0 .. Buckets - 1]

VARIABLES
  table,      \* key -> the element linked for it, or NoElem
  value,      \* element -> the packets in its packet_size
  free,       \* elements on the free list
  spare,      \* elements kept to replace a linked one, one per CPU
  hook,       \* packet -> where its hook is, and the pointer it holds
  flush,      \* where the flush is, and its cursor
  batch,      \* key -> packets read by this flush
  reported,   \* key -> packets handed to the agent by the flushes so far
  dropped,    \* history: packets that were lost, by the way they were
  unlinked    \* history: packets whose hook held an element when it was freed

vars == <<table, value, free, spare, hook, flush, batch, reported, dropped, unlinked>>

NoPackets == [k \in Key |-> {}]

\* How a packet can be lost: the map is full, a read fails, another hook replaces
\* the entry, or the hook adds to an element that is in no entry any more.
Loss == {"full", "failedRead", "replaced", "unlinked"}

Init ==
  /\ table = [k \in Key |-> NoElem]
  /\ value = [e \in Elem |-> {}]
  /\ free \in {s \in SUBSET Elem : Cardinality(s) = MaxEntries}
  /\ spare = Elem \ free
  /\ hook = [p \in Packet |-> [pc |-> "start", elem |-> NoElem]]
  /\ flush = [pc |-> "idle", cursor |-> 0]
  /\ batch = NoPackets
  /\ reported = NoPackets
  /\ dropped = [l \in Loss |-> {}]
  /\ unlinked = {}

-----------------------------------------------------------------------------
(***************************************************************************)
(* The hook.                                                               *)
(***************************************************************************)

\* The hooks that hold a pointer to one of these elements.
holding(elems) == {p \in Packet : hook[p].pc = "found" /\ hook[p].elem \in elems}

\* Fault: the result of the lookup is not checked.
lookup_unchecked(p) ==
  /\ hook[p].pc = "start"
  /\ hook' = [hook EXCEPT ![p] =
       IF counts(p) THEN [pc |-> "found", elem |-> table[key(p)]]
       ELSE [pc |-> "accepted", elem |-> NoElem]]
  /\ UNCHANGED <<table, value, free, spare, flush, batch, reported, dropped, unlinked>>

\* Fault: the ports are filled in after the lookup.
lookup_beforePorts(p) ==
  LET k == [key(p) EXCEPT !.src_port = 0, !.dest_port = 0]
      e == IF k \in Key THEN table[k] ELSE NoElem
  IN
  /\ hook[p].pc = "start"
  /\ hook' = [hook EXCEPT ![p] =
       IF ~counts(p) THEN [pc |-> "accepted", elem |-> NoElem]
       ELSE IF e # NoElem THEN [pc |-> "found", elem |-> e]
       ELSE [pc |-> "missing", elem |-> NoElem]]
  /\ UNCHANGED <<table, value, free, spare, flush, batch, reported, dropped, unlinked>>

\* Everything up to bpf_map_lookup_elem.
lookup(p) ==
  /\ hook[p].pc = "start"
  /\ hook' = [hook EXCEPT ![p] =
       IF ~counts(p) THEN [pc |-> "accepted", elem |-> NoElem]
       ELSE IF table[key(p)] # NoElem THEN [pc |-> "found", elem |-> table[key(p)]]
       ELSE [pc |-> "missing", elem |-> NoElem]]
  /\ UNCHANGED <<table, value, free, spare, flush, batch, reported, dropped, unlinked>>

accept(p) == hook' = [hook EXCEPT ![p] = [pc |-> "accepted", elem |-> NoElem]]

\* __sync_fetch_and_add, whatever the element is used for by now.
add(p) ==
  /\ hook[p].pc = "found"
  /\ value' = [value EXCEPT ![hook[p].elem] = @ \cup {p}]
  /\ dropped' = IF \E k \in Key : table[k] = hook[p].elem THEN dropped
                ELSE [dropped EXCEPT !["unlinked"] = @ \cup {p}]
  /\ accept(p)
  /\ UNCHANGED <<table, free, spare, flush, batch, reported, unlinked>>

\* bpf_map_update_elem with BPF_ANY.  It replaces the entry that another hook
\* may have made since the lookup, takes a free element if there is none, and
\* fails, which the hook does not look at, if no element is free.
replaceEntry(p) ==
  /\ table[key(p)] # NoElem
  /\ \E e \in spare :
       /\ table' = [table EXCEPT ![key(p)] = e]
       /\ value' = [value EXCEPT ![e] = {p}]
       /\ spare' = (spare \ {e}) \cup {table[key(p)]}
  /\ dropped' = [dropped EXCEPT !["replaced"] = @ \cup value[table[key(p)]]]
  /\ unlinked' = unlinked \cup holding({table[key(p)]})
  /\ UNCHANGED free

newEntry(p) ==
  /\ table[key(p)] = NoElem
  /\ \E e \in free :
       /\ table' = [table EXCEPT ![key(p)] = e]
       /\ value' = [value EXCEPT ![e] = {p}]
       /\ free' = free \ {e}
  /\ UNCHANGED <<spare, dropped, unlinked>>

\* Fault: a full map evicts another entry, as BPF_MAP_TYPE_LRU_HASH does.
mapFull_evicts(p) ==
  /\ table[key(p)] = NoElem
  /\ free = {}
  /\ \E k \in Key : /\ table[k] # NoElem
                    /\ table' = [table EXCEPT ![k] = NoElem, ![key(p)] = table[k]]
                    /\ value' = [value EXCEPT ![table[k]] = {p}]
                    /\ dropped' = [dropped EXCEPT !["full"] = @ \cup value[table[k]]]
                    /\ unlinked' = unlinked \cup holding({table[k]})
  /\ UNCHANGED <<free, spare>>

mapFull(p) ==
  /\ table[key(p)] = NoElem
  /\ free = {}
  /\ dropped' = [dropped EXCEPT !["full"] = @ \cup {p}]
  /\ UNCHANGED <<table, value, free, spare, unlinked>>

update(p) ==
  /\ hook[p].pc = "missing"
  /\ replaceEntry(p) \/ newEntry(p) \/ mapFull(p)
  /\ accept(p)
  /\ UNCHANGED <<flush, batch, reported>>

nf_postrouting_hook(p) == lookup(p) \/ add(p) \/ update(p)

-----------------------------------------------------------------------------
(***************************************************************************)
(* The flush: BatchLookupAndDelete from a fresh cursor, bucket by bucket.  *)
(***************************************************************************)

\* Fault: the cursor of the last flush is used again.
tick_keepsCursor ==
  /\ flush.pc = "idle"
  /\ flush' = [flush EXCEPT !.pc = "reading"]
  /\ UNCHANGED <<table, value, free, spare, hook, batch, reported, dropped, unlinked>>

tick ==
  /\ flush.pc = "idle"
  /\ flush' = [pc |-> "reading", cursor |-> 0]
  /\ UNCHANGED <<table, value, free, spare, hook, batch, reported, dropped, unlinked>>

InBucket(b) == {k \in Key : jhash[k] = b /\ table[k] # NoElem}

read == {k \in Key : batch[k] # {}}

\* The agent's buffers hold MaxEntries entries; a bucket that does not fit is
\* left for the next flush, and so are those after it.
fits(b) == Cardinality(read) + Cardinality(InBucket(b)) <= MaxEntries

\* Fault: BatchLookup, without the deletion.
readBucket_keeps ==
  /\ flush.pc = "reading"
  /\ flush.cursor < Buckets
  /\ fits(flush.cursor)
  /\ batch' = [k \in Key |-> IF k \in InBucket(flush.cursor) THEN value[table[k]] ELSE batch[k]]
  /\ flush' = [flush EXCEPT !.cursor = @ + 1]
  /\ UNCHANGED <<table, value, free, spare, hook, reported, dropped, unlinked>>

readBucket ==
  /\ flush.pc = "reading"
  /\ flush.cursor < Buckets
  /\ fits(flush.cursor)
  /\ batch' = [k \in Key |-> IF k \in InBucket(flush.cursor) THEN value[table[k]] ELSE batch[k]]
  /\ table' = [k \in Key |-> IF k \in InBucket(flush.cursor) THEN NoElem ELSE table[k]]
  /\ free' = free \cup {table[k] : k \in InBucket(flush.cursor)}
  /\ flush' = [flush EXCEPT !.cursor = @ + 1]
  /\ unlinked' = unlinked \cup holding({table[k] : k \in InBucket(flush.cursor)})
  /\ UNCHANGED <<value, spare, hook, reported, dropped>>

\* Fault: ErrKeyNotExist is taken for a failure.
handOver_notAtEnd ==
  /\ flush.pc = "reading"
  /\ flush.cursor = Buckets \/ ~fits(flush.cursor)
  /\ reported' = [k \in Key |-> IF flush.cursor = Buckets THEN reported[k] ELSE reported[k] \cup batch[k]]
  /\ batch' = NoPackets
  /\ flush' = [flush EXCEPT !.pc = "idle"]
  /\ UNCHANGED <<table, value, free, spare, hook, dropped, unlinked>>

\* The end of the map (ErrKeyNotExist) or of the buffers.
handOver ==
  /\ flush.pc = "reading"
  /\ flush.cursor = Buckets \/ ~fits(flush.cursor)
  /\ reported' = [k \in Key |-> reported[k] \cup batch[k]]
  /\ batch' = NoPackets
  /\ flush' = [flush EXCEPT !.pc = "idle"]
  /\ UNCHANGED <<table, value, free, spare, hook, dropped, unlinked>>

\* Any other error: what was read, and deleted, is not used.
failedRead ==
  /\ flush.pc = "reading"
  /\ dropped' = [dropped EXCEPT !["failedRead"] = @ \cup UNION {batch[k] : k \in Key}]
  /\ batch' = NoPackets
  /\ flush' = [flush EXCEPT !.pc = "idle"]
  /\ UNCHANGED <<table, value, free, spare, hook, reported, unlinked>>

Flush == tick \/ readBucket \/ handOver \/ failedRead

-----------------------------------------------------------------------------

Next == Flush \/ \E p \in Packet : nf_postrouting_hook(p)

Spec == Init /\ [][Next]_vars

(***************************************************************************)
(* The kernel finishes a hook and a batch operation it has started, and    *)
(* reading a bucket does not fail every time.  The ticker fires again and  *)
(* again; that the loop of Run is there to take the tick assumes that      *)
(* every POST of sendDataToServer comes to an end.                         *)
(***************************************************************************)
Fairness ==
  /\ \A p \in Packet : WF_vars(add(p) \/ update(p))
  /\ WF_vars(tick)
  /\ \A b \in 0 .. Buckets - 1 : SF_vars(flush.cursor = b /\ readBucket)
  /\ WF_vars(handOver)

FairSpec == Spec /\ Fairness

-----------------------------------------------------------------------------
(***************************************************************************)
(* Properties.                                                             *)
(***************************************************************************)

\* The packets in the entry of a key.
recorded(k) == IF table[k] = NoElem THEN {} ELSE value[table[k]]

\* The map, the hooks' pointers and the flush hold values of their types; above
\* all, a hook that goes on to __sync_fetch_and_add has a non-null pointer.
TypeOK ==
  /\ table \in [Key -> Elem \cup {NoElem}]
  /\ value \in [Elem -> SUBSET Packet]
  /\ free \subseteq Elem
  /\ spare \subseteq Elem
  /\ hook \in [Packet -> [pc: {"start", "found", "missing", "accepted"}, elem: Elem \cup {NoElem}]]
  /\ \A p \in Packet : hook[p].pc = "found" => hook[p].elem \in Elem
  /\ flush \in [pc: {"idle", "reading"}, cursor: 0 .. Buckets]
  /\ batch \in [Key -> SUBSET Packet]
  /\ reported \in [Key -> SUBSET Packet]
  /\ dropped \in [Loss -> SUBSET Packet]
  /\ unlinked \subseteq Packet

\* A packet is counted at most once: no packet is in two entries, and none that
\* a flush has read is still in the map or read again, whatever the hooks do to
\* elements that are read, freed and reused meanwhile.
AtMostOnce ==
  /\ \A k, j \in Key : /\ recorded(k) \cap batch[j] = {}
                       /\ recorded(k) \cap reported[j] = {}
                       /\ batch[k] \cap reported[j] = {}
  /\ \A k, j \in Key : k # j => /\ recorded(k) \cap recorded(j) = {}
                                /\ batch[k] \cap batch[j] = {}
                                /\ reported[k] \cap reported[j] = {}

Counted(p) == \E k \in Key : p \in recorded(k) \cup batch[k] \cup reported[k]

\* No packet vanishes for any other reason: one that counts and has passed is in
\* the map, or in what the flushes have read, or was lost in one of four ways
\* (kubezonnet.c:77-85, agent.go:138-146).
Accounted ==
  \A p \in Packet : hook[p].pc = "accepted" /\ counts(p) => Counted(p) \/ \E l \in Loss : p \in dropped[l]

\* A packet is counted for its own flow, unless the element its hook had found
\* was freed under the hook (kubezonnet.c:77-80).
OwnFlowUnlessUnlinked ==
  \A k \in Key : \A p \in recorded(k) \cup batch[k] \cup reported[k] : key(p) = k \/ p \in unlinked

\* The hook's sizes add up: a pod-to-pod packet that passed is in the map, or in
\* what the flushes have read, or was dropped by a full map or a failed read
\* (kubezonnet.c:30, "cumulative packet sizes").
NoPacketLost ==
  \A p \in Packet : hook[p].pc = "accepted" /\ counts(p)
                      => Counted(p) \/ p \in dropped["full"] \cup dropped["failedRead"]

\* What is in the map is read sooner or later, by a flush that starts from the
\* first bucket again.
Drains ==
  \A p \in Packet : (\E k \in Key : p \in recorded(k)) ~> (\A k \in Key : p \notin recorded(k))
==============================================================================
