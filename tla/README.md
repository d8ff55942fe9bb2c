# A TLA+ model of kubezonnet

kubezonnet measures the bytes that Kubernetes pods send across zones. An agent on
every node counts packets in an eBPF map and sends the counts to a server; the
server knows the cluster's pods, nodes and zones and exposes one Prometheus counter
per pod. This directory holds a TLA+ model of the program, the TLC runs that check
it on small instances and TLAPS proofs of its safety properties.

`PROJECT.json` lists the components, the runs, the source lines behind every
definition, the hazards and the theorems.

    tlc -workers 2 -config MCServer.cfg MCServer     # a run
    tlapm ServerProofs.tla                           # a proof module

## The system

| Component | Source | State | Operations |
|---|---|---|---|
| netfilter hook | `agent/kubezonnet.c` | `ip_map` (hash, 1024 entries): addresses and ports -> bytes | classify a packet, look its key up, add or insert |
| map flush | `agent/agent.go` `Run` | buffers for one batch, used again by the next | at each tick, `BatchLookupAndDelete` the map |
| loop, filter, sender | `agent/agent.go` | pod store of an informer for its own node, ticker, signals | keep the entries whose source is a pod here, encode, POST |
| encoding | `payload/`, `byteorder/` | none | `Encode`, `Decode`, `Htonl`, `Ntohl` |
| event handlers | `cmd/server/main.go` | `podIpIndex`, `nodeIpIndex`, `podIndex`, `nodeIndex` | pod and node added, updated, deleted |
| payload handler | `cmd/server/main.go` | `statistics` | decode, resolve, add, print flow logs |
| collector | `cmd/server/main.go` | none of its own | send every counter to Prometheus |
| informers | client-go, used by `watchPods`, `watchNodes` | a DeltaFIFO each | deliver the cluster's changes to the handlers |

How the parts meet. Hooks run on all CPUs at once and share `ip_map` with the flush,
without a lock. The flush hands its entries to the filter, the filter to one POST.
A packet between two nodes passes a postrouting hook on each of them. In the server
every handler, every POST and every scrape runs in a goroutine of its own, and all
of them share five Go maps behind one mutex. Pods and nodes come from two informers
that nothing orders with respect to each other.

What is hard to get right, and which property is about it (`hazards` in
`PROJECT.json` has the list with lines):

* two agents see one packet, agents end and start again, buffers are used again,
  answers get lost: a packet must be counted at most once (`CreditedOnce`), no step
  may leave one out without a reason (`NeverVanishes`), and what is not given up must
  be counted some time (`Delivered`);
* the mutex is all that separates a half-counted payload from a scrape, and a
  half-resolved payload from a pod event (`MutexHeld`, `PayloadSeesOneIndex`,
  `ScrapeIsSnapshot`, `ImplementsLedger`);
* the five maps are indexes of one another and have to stay consistent while events
  come in any order or are missed (`NoSeriesForDeletedPod`, `IndexMirrorsCluster`);
* addresses move: to another pod, from a pod to none, between hostNetwork pods that
  share a node's (`FirstOwnerResolves`, `CleanReuse`, `HostIPsResolve`);
* hooks use a pointer into a map that a flush empties meanwhile (`AtMostOnce`,
  `Accounted`, `OwnFlowUnlessUnlinked`, `Drains`, `ImplementsTally`);
* addresses change byte order four times between a packet and the server's index
  (`CountsTheSubnet`, `ServerSeesAddresses`), and the length of a report is computed
  twice, in different widths (`NeverRefused`);
* waiting: for the mutex, for the informers, for a flush that reaches the last
  bucket, for a loop that is busy when the signal comes (`EveryPayloadAnswered`,
  `Converges`, `Drains`, `StopsWhenAsked`).

## The modules

**Server** is `cmd/server/main.go` without its informers: any event may come at any
time, so that what holds here holds whatever Kubernetes does. A Go map is a function
with the value `Absent` where a key is missing. A pod or node handler locks, changes
the maps and unlocks, and what it does before that reads only its argument, so it is
one action (`handlePod`, `onPodDelete`, `onNodeAdd`, ...) that is enabled when nobody
holds the mutex. `handlePayload` and `Collect` hold the mutex for many steps and are
split: `rejectPayload` (wrong method, unreadable or malformed body, or a body whose
count overflows the length that `Decode` expects, which ends in a panic that net/http
recovers), `decodePayload`, `lockPayload`, `countEntry` once per entry,
`unlockPayload`; `lockCollect`, `sendMetric` once per series in any order,
`unlockCollect`. Counters are modulo `Uint64`; a flow log has its bytes as a signed
`int`, so that an entry from half of `Uint64` on is logged as a negative number.
`series`, `zone` and `crossZone` are the resolution of an entry, including that an
address in `podIpIndex` is never looked up in `nodeIpIndex`.

**Ledger** says what the server promises, without maps, mutex and goroutines: a
report is credited as a whole and once against one view of the cluster, a reader sees
one state of the whole ledger, and only the account of a pod that no address belongs
to is closed. **Postings** is how entries add up in balances, a recursive function on
the entries left; Ledger and the mapping share it. **ServerLedger** maps the server to
Ledger. A payload takes effect when its goroutine takes the mutex, so the abstract
balance is `statistics` with the entries still to be counted posted to it
(`statisticsInEffect`). **ServerLogs** compares the counters with the flow logs of all
payloads, the one included that is being counted and those not yet printed (the code
collects them under the mutex and prints them after it). What it adds up is a log's
bytes read back as a `uint64`: a node's counter is that sum modulo `Uint64`, a pod's is
at most that sum unless the sum itself is `Uint64` or more.

**WatchedServer** feeds the same handlers from a cluster. The cluster, its allocation
of addresses and client-go's queue are external; they are modelled as the code uses
them. `cache.NewInformer` drains a DeltaFIFO: keys are in the order in which they
were first queued, so a change of an object that is already queued overtakes changes
of objects queued after it. An address is given to any pod once no running pod has
it. The constant `Happens` says what else befalls pods and watches: `"restart"` (a
pod gets a new sandbox with another address), `"finish"` (a pod runs to completion:
its address is free, its status goes on to show it), `"gap"` (a pod or node is
deleted while the watch is down, which is delivered as a `DeletedFinalStateUnknown`,
here a `tombstone`). The history variables `owners`, `claims`, `contested`, `missed`
and `removed` record which addresses and nodes the server could still get right from
the events it was sent; no action reads them.

**FlowMap** is the hook and the flush around `ip_map`. `lookup`, `add` and `update`
are the steps of a hook between which other CPUs may run. The map is
`BPF_MAP_TYPE_HASH`, external: elements are preallocated, a freed one is reused at
once, an update of a linked key swaps in a spare element, and reading and deleting
one bucket is atomic. A hook's pointer is the element itself, so an add after the
element was freed lands wherever the element is by then. `packet_size` is a sum over
packets and is modelled as the set of packets that were added. `dropped` and
`unlinked` are histories: the packets lost, by how they were, and the packets whose
hook held an element while it was freed.

**FlowTable** is `ip_map` as its users see it: for every flow the packets it adds up,
what one hook may make of that (`after`) and what a read leaves (`without`).
**Tally** is the abstract specification around it, without elements, pointers,
buckets and limits: each packet changes the table once, entries leave the table as
they are read, a batch is handed over or lost as a whole. **FlowMapTally** maps
FlowMap to it.

**Agent** is `Run` of every node: `start`, the select with `onTick` and `exit`, the
flush entry by entry (`readFlow`, so that hooks, a signal and a kill come in
between), its three ends (`noData`, `readError`, `send`), the filter on the store of
the pod informer, the POST and its end. Its map is a FlowTable, so `hook` and
`readFlow` are what the refinement of Tally justifies. `keys` keeps the contents of
earlier flushes beyond `filled`, as the buffers of the code do. `kill` is any end of
the process that the code has no part in. `informer` adds and removes addresses of
the node's pods at any time, which covers a store that was never filled or is stale.

**System** composes the agents with packets that pass the hook of their source node
and then that of their destination, and with a server that counts any of the entries
of a report. What the server makes of a report is Server's and Ledger's business;
here a packet is counted as often as entries with it are. A report is under way
independently of the agent that waits for its answer, so it can be counted after the
agent has given up or ended. Pod CIDRs are per node (`home`), so an address is of one
node's pods, and the informer's selector (`spec.nodeName`) keeps those of other nodes
out of a store.

**Wire** follows the addresses, the ports and the length of a packet to the server:
the constants that `Run` writes into the eBPF program, `handle_v4`'s test, the filter,
`Encode`, `Decode` and both copies of `ipToUint32`. A packet has the bytes of its
headers. The hook loads them as a little-endian CPU does (`load`, `load16`), keeps
addresses in network order, swaps the bytes of ports and length (`bpf_ntohs`) and
widens the length to 64 bits. A word is a function from bit positions to
bits, so shifts, masks and the order of bytes are what they are in a register, and
every conversion is computed. A byte has `Bits` bits: 8 in the code, 2 in the runs,
any number in the proofs. The lengths that `Encode` writes and `Decode` compares
are numbers that are turned into words of 32 bits, and lose what does not fit. The
filter's loop is `inOrder`, the indexes it keeps one after the other.

The modules that end in **Proofs** hold the proofs: ServerProofs and LedgerProofs
about the server, WatchedProofs and WatchedAddressProofs (which extends it) about the
server and its informers, FlowMapProofs about the eBPF map, SystemProofs about the
agents, WireProofs about words and reports; NumberProofs has the facts about numbers
and recursive functions that several of them need. The **MC** modules define the
constants of the runs. Definitions marked
`Fault:` are deliberate mistakes, at least one per property, that are not used by any
specification: put in place of the definition they are named after, they make the
property fail.

## The runs

| Run | Checks | Instance |
|---|---|---|
| `server` | `TypeOK`, `MutexHeld`, `NoSeriesForDeletedPod`, `CountersMatchLogs`, `ScrapeIsSnapshot`, `PayloadSeesOneIndex`, `ImplementsLedger` | 2 pods with 5 different objects, 2 nodes, 2 addresses, 2 POSTs of 2 entries, 1 scrape, unbounded events |
| `watched` | `WTypeOK`, `IndexMirrorsCluster`, `FirstOwnerResolves`, `CleanReuse`, `HostIPsResolve` | 2 pods, 2 pod addresses, a node; restarts, completions, missed deletions; 6 pod and 2 node changes |
| `watched_live` | `Converges`, `EveryPayloadAnswered` | 3 pod changes and 1 node change, beside a POST and a scrape |
| `watched_reuse_loss` | `PodIPsResolve` fails | one address, reused after a deletion |
| `watched_finished` | `NeverWrongPod` fails | one address, reused after a completion |
| `flowmap` | `TypeOK`, `AtMostOnce`, `Accounted`, `OwnFlowUnlessUnlinked`, `Drains`, `ImplementsTally` | 4 packets of 3 flows, 2 entries, 3 elements, 2 buckets |
| `flowmap_lost` | `NoPacketLost` fails | 2 packets of one flow |
| `system` | `TypeOK`, `CreditedOnce`, `NeverVanishes` | 2 nodes, a packet there and one back |
| `system_one_node` | `CreditedOnce`, `Delivered`, `StopsWhenAsked` | 1 node, 2 pods, 3 packets of 2 flows |
| `system_unlisted` | `SendsAllPodTraffic` fails | 2 nodes, one packet |
| `wire` | `CountsTheSubnet`, `ServerSeesAddresses`, `NeverRefused` | 8 CIDRs, 4 addresses, reports of up to 2 flows |
| `wire_host_bits` | `CountsTheSubnet` fails | a CIDR with host bits set |

Why the bounds are enough. In `server` the two pods and two nodes share two
addresses, so an address passes from pod to pod, from pod to node and back; one pod
has no address, an IPv4 beside an IPv6 one, and another one later; `Uint64` is 4
and a payload has entries of 1 and 2 bytes, so that the second is logged as a negative
number and two payloads wrap its counter. The number of events is not bounded. In `watched` 6
changes are two full lives of a pod (created, started, deleted), or one and a
restart, a completion or a missed deletion of the other, with every order in which
the queues can deliver them; 2 node changes are a deletion and a return. The failing
runs need at most 5 pod changes. `CHECK_DEADLOCK FALSE` is there because a cluster
that has used up its changes stops. In `flowmap` two hooks of one flow, one of a
second that shares its bucket with a third, and room for two entries reach all of:
two inserts of one key, reuse of a freed element, a full map and a bucket that does
not fit the buffers. In `system` each packet passes both agents; agents restart any
number of times. `system_one_node` has a second packet of one flow, so that a flush
can come between the two and leave an old entry in the buffers. `wire` stops after
one report; its ports and lengths have two different bytes, so that their order shows.

Symmetry: pods are interchangeable in the safety runs of WatchedServer. Liveness
runs use none.

### What the conditions of properties leave out

Some properties hold only where the events let the server know. What they leave out
is excluded by the history, not by restricting the cluster, and fails without it:

* `CleanReuse` is about addresses that are not `contested`: given to a pod while a
  former owner had not been seen deleted with that address in its status. That
  happens after a restart (`handlePod` never removes an address that a pod no longer
  has), a completion (`watched_finished`) or a missed deletion (`onPodDelete` ignores
  the tombstone). For such an address the former owner may keep or take the entry.
* `FirstOwnerResolves` is about addresses that one pod only has had; for others the
  entry may be missing (`watched_reuse_loss`).
* `HostIPsResolve` leaves out nodes that were deleted and came back: `onNodeDelete`
  drops `nodeIpIndex` entries that only a pod event can bring back, and a hostNetwork
  pod's update may have been handled before.
* `IndexMirrorsCluster` leaves out the objects whose deletion the watch missed, until
  they are back.
* `CountersMatchLogs` says nothing of a pod whose logs add up to `Uint64` or more: its
  counter may have wrapped, and may also have been dropped with the pod since.
* `NeverRefused` is about the reports of agents, which are far below 2^32 bytes.
* `Delivered` counts as given up what the server does not know, also before its
  informers have listed the cluster; `Delivered` and `StopsWhenAsked` assume that every
  POST ends. Hazards that only such an assumption keeps away have a note instead of a
  property in `PROJECT.json`.
* `OwnFlowUnlessUnlinked` and `CreditedOnce` leave out packets whose hook added to an
  element that had been freed, and maybe reused for another flow.

## Fairness

* Server. A goroutine inside its critical section keeps running, and the Prometheus
  registry drains the channel of `Collect`: weak fairness. A Go mutex is handed to a
  waiter that has waited for a millisecond (starvation mode), so a goroutine that
  finds it free again and again gets it: strong fairness for taking it, the informers
  included. Nothing is assumed of the cluster or of who sends requests.
* FlowMap. The kernel finishes a hook and a batch operation; reading a given bucket
  does not fail every time it is tried (strong fairness for each bucket, the weakest
  assumption under which a later bucket is ever reached); the ticker fires.
* System. A select with two ready cases picks one at random, so `exit` is taken if it
  is ready again and again: strong fairness. A flush does not miss the same flow
  every time: strong fairness of `readFlow`, which is what `Drains` shows of FlowMap.
  The loop goes on and the ticker fires: weak fairness. A report is handled or lost
  some time, and a POST ends: weak fairness, the latter an assumption about the
  network and not about the code, since `http.DefaultClient` has no timeout. Nothing
  is assumed of packets, signals, kills, restarts or informers.

## What is proved

For every value of the constants that satisfies the named assumptions:

* `Server`: `IP` is part of `Addr`, `_node_` is no namespace, `Absent` and `NoOne`
  differ from real values, the objects delivered are well formed;
* `ServerLedger`: `Absent` is neither a series nor a series with a zone;
* `ServerLogs`: there are finitely many requests (a sum over all of them is taken);
* `WatchedServer`: nodes have addresses of their own, which are no pod's; the objects
  of the cluster are ones that the handlers accept; `Absent` is no object and no
  label; pod keys and node names differ (`queued` is over both);
* `FlowMap`: the hash maps keys to buckets and the null pointer is no element;
* `Agent`: flows have addresses and addresses a node, an unfilled slot is no entry;
* `Wire`: a byte has at least one bit, and the length of the largest report fits a
  `uint32` (`ip_map` has 1024 entries, so it is 20,484 bytes).

Two theorems about Wire have a hypothesis beside that, written before their
statement: every `-subnet-cidr` is the network address of its subnet (`isNetwork`).
`wire_host_bits` shows that they fail without it.

| Theorem | Statement |
|---|---|
| `ServerProofs!Typed` | `Spec => []TypeOK` |
| `ServerProofs!Exclusive` | `Spec => []MutexHeld` |
| `ServerProofs!OneIndexPerPayload` | `Spec => PayloadSeesOneIndex` |
| `ServerProofs!DeletedPodsStayGone` | `Spec => []NoSeriesForDeletedPod` |
| `ServerProofs!ScrapesAreSnapshots` | `Spec => ScrapeIsSnapshot` |
| `LedgerProofs!ServerImplementsLedger` | `Spec => ImplementsLedger` |
| `LedgerProofs!CountersAlwaysMatchLogs` | `Spec => []CountersMatchLogs` |
| `WatchedProofs!WTyped` | `WSpec => []WTypeOK` |
| `WatchedProofs!WatchedServerIsServer` | `WSpec => Spec` |
| `WatchedProofs!IndexesMirror` | `WSpec => []IndexMirrorsCluster` |
| `WatchedAddressProofs!ReuseIsClean` | `WSpec => []CleanReuse` |
| `WatchedAddressProofs!FirstOwnersResolve` | `WSpec => []FirstOwnerResolves` |
| `WatchedAddressProofs!HostsResolve` | `WSpec => []HostIPsResolve` |
| `FlowMapProofs!Typed` | `Spec => [](TypeOK /\ OnlyCountedInHook)` |
| `FlowMapProofs!PacketsCountOnce` | `Spec => []AtMostOnce` |
| `FlowMapProofs!NothingElseIsLost` | `Spec => []Accounted` |
| `FlowMapProofs!OnlyFreedElementsStray` | `Spec => []OwnFlowUnlessUnlinked` |
| `FlowMapProofs!MapImplementsTally` | `Spec => ImplementsTally` |
| `SystemProofs!Typed` | `Spec => [](TypeOK /\ SlotsFilled)` |
| `SystemProofs!CountedOnce` | `Spec => []CreditedOnce` |
| `SystemProofs!NothingVanishes` | `Spec => NeverVanishes` |
| `WireProofs!SubnetCounted` | `(\A c \in Cidr : isNetwork(c)) => (Spec => []CountsTheSubnet)` |
| `WireProofs!ServerGetsTheFlows` | `(\A c \in Cidr : isNetwork(c)) => (Spec => []ServerSeesAddresses)` |
| `WireProofs!NoReportRefused` | `Spec => []NeverRefused` |

`TypeOK` and `MutexHeld` of Server are inductive, the second relative to the first.
`PayloadSeesOneIndex` follows: the holder of the mutex is the request, so no handler
is enabled. `NoSeriesForDeletedPod` is inductive relative to `TypeOK`, because
`countEntry` adds only to the series of an address that resolves and an address that
resolves to a pod resolves to one in `podIndex` (`ResolvedSeries`). A snapshot needs
a strengthening: `SentIsCurrent`, that what a scrape under way has sent is still what
`statistics` holds; it is preserved because the scrape has the mutex.

The refinement of Ledger goes action by action. `lockPayload` is where a report is
credited: from there on `statisticsInEffect` has all its entries. `countEntry` is a
stutter, because posting the first of the entries left and then the others is posting
all of them (`PostedFirst`), and because nothing that decides where an entry goes
changes while the payload has the mutex. A scrape reads when it takes the mutex;
`SentIsCurrent` makes what it sends that reading. An event only closes accounts of
pods that no address resolves to. `CountersMatchLogs` is inductive relative to
`TypeOK`: a step of `countEntry` adds the same number to one counter and to one sum
over the flow logs (`CountedAndLogged`; an `int` read back as a `uint64` is the number
that was converted, `BackFromInt`), a node's counter is never dropped, and a
remainder plus a size is the remainder of the sum (`WrapsOnce`).

Both need facts about recursive functions for payloads and logs of any length:
`Posted` over entries, `Total` over lines of a log. Induction rules with an operator
as parameter are not at hand, so these lemmas take a least counterexample instead
(`LeastNumber`, from the well-foundedness of `<`), and that the recursive functions
satisfy their equations comes from the runs that compute them (`Runs`, `Sums`).

The theorems about WatchedServer start with its steps being steps of Server or leaving
its variables alone (`WatchedServerIsServer`), so that all of the above holds of the
server in a cluster too. This needs `WellQueued`: what is queued for a pod are objects
of this pod that the handlers accept. The others are about the state after the last
event has been handled, but hold at the end only because of what they say on the way,
so each invariant relates the maps to the changes that are still to be handled for one
pod (`pending`: the popped ones, then the queued ones). The overtaking in the DeltaFIFO
concerns different objects only, so one object's changes are a queue.

* `IndexMirrorsCluster`: the last pending change of an object is its present state, or
  nothing is pending and the index has it (`PodsCatchUp`, `NodesCatchUp`).
* `CleanReuse`: a pod that has no claim to an address any more is not in the index
  under it, or a pending deletion takes the address away and nothing enters it again
  after that (`UnclaimedAreCleared`). A deletion takes away what `podIndex` has and not
  what the deleted object shows, so it has to be known that the two agree when the
  deletion is handled (`DeletionsMatch`); that a pod missed by the watch is gone
  (`MissedAreGone`); and that an address nobody contested has one claim (`ClaimsKept`).
* `FirstOwnerResolves`: the only owner of an address is in the index under it and no
  pending change is a deletion, or a pending change enters it and no deletion comes
  later (`FirstOwnerEntered`); and nobody else can take it away, because only owners
  ever show an address, in the cluster, in a queue or in an index (`OwnersOnly`).
* `HostIPsResolve`: the same for the address of a node (`HostsEntered`), which no pod
  can shadow in `podIpIndex` (`HostsAreNoPods`) and no deletion of the node drops
  unless the node was deleted (`KeptNodes`).

`AtMostOnce` is not inductive: from an arbitrary state a late add could hit an
element that is linked for two keys, or bring a packet that is counted already. The
invariant `IInv` adds that every element is linked for at most one key, or free, or
spare (`Partition`), that a packet whose hook has not ended is nowhere
(`NotCountedYet`), and that only packets that count get as far as the map. Under it
three lemmas say what an add, an update and a read do to the entries (`AddEffect`,
`UpdateEffect`, `ReadEffect`), and the other theorems about FlowMap build on them.
`OwnFlowUnlessUnlinked` also needs that a hook whose element was not freed still
points to the entry of its key (`PointsToItsEntry`). For the refinement, `add` and
`update` are the steps of Tally that count, `readBucket` reads a set of flows, and a
flow is not read twice by a flush because the batch only has flows of buckets before
the cursor (`BatchBehind`).

`CreditedOnce` speaks of reports and counters only, so its invariant `CInv` follows a
packet that did not stray all the way: in the map of its source node, in the slots of
a flush there, in one report, or counted, and never in two of these places (`Once`);
under its own flow in every place, and in no report of another node (`Own`). The last
part holds because a store has only addresses of its node (`StoresLocal`), which is
what makes the filter enough; that a packet comes to the map of its source once
because only packets between nodes pass a second hook (`TwoHooks`). That a flush
hands on no old slots is `SlotsFilled` and the lemma `BatchKept`. The server counts
every entry of a report with the packet in it; there is only one, because the entries
of a flush, and so those of a report, are of different flows (`EntriesApart`).

`NeverVanishes` is the safety half of `Delivered`, action by action: a hook gives up
what it drops from the map, a flow that is read is in a slot that was not in use, a
report takes all slots or gives them up, and the server counts an entry or gives it
up. It needs one invariant: slots are filled only while a flush reads
(`IdleIsEmpty`). An agent that stops in its select gives up its map alone, and
without the invariant there could be slots that nobody accounts for.

Wire is proved from the bits up, for bytes of any size:

* A position of a word is a byte and a bit of it (`BitOfByte`, division with
  remainder), and `Htonl` reverses the bytes (`HtonlReverses`). A little-endian load of
  an address is therefore the reverse of `ipToUint32` (`SameAddress`), which no two
  addresses share (`OneWordEach`).
* A little-endian load of two bytes of a header, its bytes swapped, is the number that
  stands there (`HeaderNumber`), also in 64 bits (`WidenedNumber`), and different bytes
  are different numbers (`OneNumberEach`).
* A mask has a 1 for each leading bit (`MaskBits`), and `&` and `=` on reversed words
  are `&` and `=` on the words (`TestInHostOrder`), so the hook's test compares leading
  bits (`TestIsMembership`). Here `isNetwork` is needed, and nowhere else.
* A word that is put byte by byte and read back is the same word (`GetPut`); the five
  fields of an entry are at the offsets where they are read (`EntryFields`), entry `i`
  is at `4 + 20 * (i - 1)` (`ReportBytes`), and a number below 2^32 survives its
  conversion to a word (`NumberComesBack`: halving and doubling are inverse as long as
  nothing is left over). Together: `Decode` takes what `Encode` makes and gives the
  entries back (`DecodedReport`).
* The filter's loop keeps each index of the set once (`InOrderLists`).
* The invariant `WireInv` says that the map has the packets that pass the hook's test,
  each key once and beside its value (`MapHolds`), that the body is the encoding of
  the filtered map and that what the server has is its decoding. TLC has checked it
  on the instance of `wire`.

The words and the filter are recursive functions. That they satisfy their equations
is proved from the existence of a function that makes each value from the one before
(`Iterated`), and facts about all their values from `UpTo`, induction up to a number
for the members of a set; both rest on `LeastNumber`.

Only model-checked: liveness (`Converges`, `EveryPayloadAnswered`, `Drains`,
`Delivered`, `StopsWhenAsked`), which needs ENABLED and fairness. Every invariant and
every action property of the passing runs is proved, and so are both refinements.

## What the checks found

Each of these has a run that ends in a counterexample; `findings` in `PROJECT.json`
has the lines.

* `onPodDelete` deletes `podIpIndex[ip]` without looking whose it is by now. When the
  update that gives the address to its next owner is handled before the delete of the
  former one, the new owner's traffic resolves to nobody (`watched_reuse_loss`).
* `handlePod` does not look at a pod's phase. A pod that ran to completion keeps its
  address in the index, and its next event takes it from the running pod that has it
  by then, whose traffic is counted for the completed one (`watched_finished`).
* Two hooks that both miss a new flow both insert it, and the second insert replaces
  the first (`flowmap_lost`).
* `Run` does not wait for its pod informer. A flush before the first list drops the
  traffic of all pods of the node (`system_unlisted`).
* `Run` takes the prefix from the address of the CIDR and not from its network: with
  host bits set nothing is counted (`wire_host_bits`).

Two places where `README.md` of the repository differs from the code and no run is
needed to see it: entries are per pair of addresses *and ports*
(`agent/kubezonnet.c:69`), not "per source and destination IP"; and the size counted
is `tot_len` (`agent/kubezonnet.c:74`), which includes the IP header that the
limitations say is skipped.

## Not modelled

* `agent/vmlinux.h` is generated from the kernel's type information: 124,000 lines of
  declarations without behaviour, nearly all the C of the repository. The hook
  itself, `kubezonnet.c`, is modelled from its first condition to its last.
* The generated bindings, the command lines (flags are checked before anything runs),
  the HTTP request counters of `instrumentHandler`, the test workload, the manifests.
* `attachToInterface` and the structs after it in `agent.go`, which nothing uses; the
  case of `ctx.Done()` in the loop, which is never ready before `Run` returns.
* Wording of logs and errors, debug output, float64 rounding of counters above 2^53 in
  `Collect`, IPv6 beyond being skipped, errors while the eBPF program is loaded (the
  agent does not start).
* Restarts of the server: it keeps nothing on disk, so a restart is `Init`, and
  Prometheus handles the reset of its counters.
* Clusters whose pod addresses are not tied to nodes: `home` is fixed. There an
  address that moves between nodes could be in two stores for a while.

## What could come next

* `Agent`'s map is a FlowTable by definition, so `hook` and `readFlow` do to it what
  Tally's steps do; a refinement of Tally by one node's agent would need histories for
  the packets that have passed and those handed over.
* An assumption for `Delivered` that is weaker than the end of every POST, should the
  agent's HTTP client get a timeout.
