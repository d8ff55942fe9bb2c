-------------------------------- MODULE Agent --------------------------------
(***************************************************************************)
(* The agents of all nodes: the loop of Run in src/agent/agent.go from the *)
(* attached hook to its end, with the ticker, the signals, the flush, the  *)
(* filter on the informer's store and the POST.  ip_map is the table of    *)
(* module FlowTable, which FlowMap is shown to implement.                  *)
(*                                                                         *)
(* The case of ctx.Done() in Run's select is never taken: the context is   *)
(* cancelled by Run's own deferred cancel.  A POST that fails is logged    *)
(* and forgotten, so for the loop every POST just ends.  A POST is sent    *)
(* once: net/http does not repeat a request that is not idempotent.        *)
(***************************************************************************)
EXTENDS Naturals, FlowTable

CONSTANTS
  Node,       \* nodes, each with an agent
  IP,         \* addresses of pods
  home,       \* address -> the node whose pods get it: pod CIDRs are per node
  srcIP,      \* flow -> its source address
  dstIP,      \* flow -> its destination address
  Size,       \* the length of keys and values, the map's max_entries
  NoEntry,    \* a slot that was never filled
  SendData    \* the flag of that name

Entry == [flow: Flow, packets: SUBSET Packet]

Report == [from: Node, entries: (SUBSET Entry) \ {{}}]

ASSUME AgentAssumption ==
  /\ flowOf \in [Packet -> Flow]
  /\ home \in [IP -> Node]
  /\ srcIP \in [Flow -> IP] /\ dstIP \in [Flow -> IP]
  /\ Size \in Nat
  /\ SendData \in BOOLEAN
  /\ NoEntry \notin Entry

VARIABLES
  run,        \* node -> where Run is
  tally,      \* node -> its ip_map
  keys,       \* node -> the slots of keys and values, old contents included
  filled,     \* node -> n, the slots that this flush has filled
  store,      \* node -> the addresses in the pod informer's store
  stop,       \* node -> is there a signal in the channel?
  asked,      \* history: node -> was this agent sent a signal?
  net,        \* reports under way
  lost,       \* history: node -> packets its agent counted and gave up
  strayed     \* history: packets added to another flow

agentVars == <<run, tally, keys, filled, store, stop, asked, net, lost, strayed>>

NoEntries == [i \in 1 .. Size |-> NoEntry]

AInit ==
  /\ run = [n \in Node |-> "down"]
  /\ tally = [n \in Node |-> Empty]
  /\ keys = [n \in Node |-> NoEntries]
  /\ filled = [n \in Node |-> 0]
  /\ store = [n \in Node |-> {}]
  /\ stop = [n \in Node |-> FALSE]
  /\ asked = [n \in Node |-> FALSE]
  /\ net = {}
  /\ lost = [n \in Node |-> {}]
  /\ strayed = {}

\* Run goes on at pc.
goto(n, pc) == run' = [run EXCEPT ![n] = pc]

givesUp(n, ps) == lost' = [lost EXCEPT ![n] = @ \cup ps]

\* The packets of a set of entries.
inEntries(es) == UNION {e.packets : e \in es}

\* What this flush has read, keys[:n].
batch(n) == {keys[n][i] : i \in 1 .. filled[n]}

-----------------------------------------------------------------------------
(***************************************************************************)
(* Start and end.                                                          *)
(***************************************************************************)

\* Everything of Run before the loop.  Nobody waits for the informer's store.
start(n) ==
  /\ run[n] = "down"
  /\ goto(n, "select")
  /\ UNCHANGED <<tally, keys, filled, store, stop, asked, net, lost, strayed>>

\* Fault: the channel has no buffer, so a signal is only heard in the select.
terminate_unbuffered(n) ==
  /\ run[n] # "down"
  /\ stop' = [stop EXCEPT ![n] = @ \/ run[n] = "select"]
  /\ asked' = [asked EXCEPT ![n] = TRUE]
  /\ UNCHANGED <<run, tally, keys, filled, store, net, lost, strayed>>

\* SIGTERM or SIGINT.  The channel holds one; more of them change nothing.
terminate(n) ==
  /\ run[n] # "down"
  /\ stop' = [stop EXCEPT ![n] = TRUE]
  /\ asked' = [asked EXCEPT ![n] = TRUE]
  /\ UNCHANGED <<run, tally, keys, filled, store, net, lost, strayed>>

\* The process ends: its memory is gone, and so is its map.
ends(n, ps) ==
  /\ goto(n, "down")
  /\ tally' = [tally EXCEPT ![n] = Empty]
  /\ keys' = [keys EXCEPT ![n] = NoEntries]
  /\ filled' = [filled EXCEPT ![n] = 0]
  /\ store' = [store EXCEPT ![n] = {}]
  /\ stop' = [stop EXCEPT ![n] = FALSE]
  /\ asked' = [asked EXCEPT ![n] = FALSE]
  /\ givesUp(n, packets(tally[n]) \cup ps)
  /\ UNCHANGED <<net, strayed>>

\* case <-stop: there is no last flush.
exit(n) ==
  /\ run[n] = "select"
  /\ stop[n]
  /\ ends(n, {})

\* The process is killed, wherever it is; a report it has sent stays sent.
kill(n) ==
  /\ run[n] # "down"
  /\ ends(n, inEntries(batch(n)))

-----------------------------------------------------------------------------
(***************************************************************************)
(* The hook and the flush.                                                 *)
(***************************************************************************)

\* A packet passes the hook of a node.
hook(n, p) ==
  /\ run[n] # "down"
  /\ \E t \in after(tally[n], p) :
       /\ tally' = [tally EXCEPT ![n] = t]
       /\ givesUp(n, (packets(tally[n]) \cup {p}) \ packets(t))
       /\ strayed' = strayed \cup {q \in {p} : \E f \in Flow \ {flowOf[p]} : p \in t[f]}
  /\ UNCHANGED <<run, keys, filled, store, stop, asked, net>>

onTick(n) ==
  /\ run[n] = "select"
  /\ goto(n, "reading")
  /\ UNCHANGED <<tally, keys, filled, store, stop, asked, net, lost, strayed>>

\* BatchLookupAndDelete fills the slots one entry after the other and comes to
\* every flow at most once.
readFlow(n, f) ==
  /\ run[n] = "reading"
  /\ filled[n] < Size
  /\ tally[n][f] # {}
  /\ \A e \in batch(n) : e.flow # f
  /\ keys' = [keys EXCEPT ![n][filled[n] + 1] = [flow |-> f, packets |-> tally[n][f]]]
  /\ filled' = [filled EXCEPT ![n] = @ + 1]
  /\ tally' = [tally EXCEPT ![n] = without(@, {f})]
  /\ UNCHANGED <<run, store, stop, asked, net, lost, strayed>>

\* keys and values keep their contents, n is of one iteration.
nextIteration(n) == filled' = [filled EXCEPT ![n] = 0]

noData(n) ==
  /\ run[n] = "reading"
  /\ filled[n] = 0
  /\ goto(n, "select")
  /\ UNCHANGED <<tally, keys, filled, store, stop, asked, net, lost, strayed>>

\* BatchLookupAndDelete fails: with n = 0 the code says that there is no data,
\* otherwise that it failed.  What was read is gone from the map either way, and
\* is not used.
readError(n) ==
  /\ run[n] = "reading"
  /\ filled[n] > 0
  /\ goto(n, "select")
  /\ nextIteration(n)
  /\ givesUp(n, inEntries(batch(n)))
  /\ UNCHANGED <<tally, keys, store, stop, asked, net, strayed>>

\* Fault: traffic to a pod on this host passes too.
filter_bothEnds(n, es) == {e \in es : {srcIP[e.flow], dstIP[e.flow]} \cap store[n] # {}}

filterSrcIpOnCurrentHost(n, es) == {e \in es : srcIP[e.flow] \in store[n]}

\* Fault: a report is sent even if it is empty.
send_evenEmpty(n, es) ==
  LET final == IF SendData THEN filterSrcIpOnCurrentHost(n, es) ELSE {} IN
  /\ run[n] = "reading"
  /\ filled[n] > 0
  /\ goto(n, "posting")
  /\ net' = net \cup {[from |-> n, entries |-> final]}
  /\ nextIteration(n)
  /\ givesUp(n, inEntries(es \ final))
  /\ UNCHANGED <<tally, keys, store, stop, asked, strayed>>

\* The read ends well with these entries: the ones that pass the filter go into
\* one POST.
sendDataToServer(n, es) ==
  LET final == IF SendData THEN filterSrcIpOnCurrentHost(n, es) ELSE {} IN
  /\ run[n] = "reading"
  /\ filled[n] > 0
  /\ goto(n, IF final = {} THEN "select" ELSE "posting")
  /\ net' = IF final = {} THEN net ELSE net \cup {[from |-> n, entries |-> final]}
  /\ nextIteration(n)
  /\ givesUp(n, inEntries(es \ final))
  /\ UNCHANGED <<tally, keys, store, stop, asked, strayed>>

\* Fault: the slots beyond n are not cut off.
send_staleSlots(n) == sendDataToServer(n, {keys[n][i] : i \in 1 .. Size} \ {NoEntry})

\* Fault: the last entry is cut off too.
send_cutShort(n) == sendDataToServer(n, {keys[n][i] : i \in 1 .. filled[n] - 1})

send(n) == sendDataToServer(n, batch(n))

\* An answer of any status, or an error.
postEnds(n) ==
  /\ run[n] = "posting"
  /\ goto(n, "select")
  /\ UNCHANGED <<tally, keys, filled, store, stop, asked, net, lost, strayed>>

\* The informer that Run starts.  Its selector is spec.nodeName, so the store has
\* addresses of this node's pods only; client-go puts one in when the pod is
\* listed or seen and takes it out when its deletion is.
informer(n) ==
  /\ run[n] # "down"
  /\ \E ip \in IP : /\ home[ip] = n
                    /\ store' = [store EXCEPT ![n] = IF ip \in @ THEN @ \ {ip} ELSE @ \cup {ip}]
  /\ UNCHANGED <<run, tally, keys, filled, stop, asked, net, lost, strayed>>

Loop(n) ==
  \/ start(n) \/ terminate(n) \/ exit(n) \/ kill(n)
  \/ onTick(n) \/ noData(n) \/ readError(n) \/ send(n) \/ postEnds(n)
  \/ \E f \in Flow : readFlow(n, f)
  \/ informer(n)
==============================================================================
