------------------------------- MODULE System -------------------------------
(***************************************************************************)
(* The agents of all nodes and the server, around packets that travel      *)
(* between them.  A packet between two nodes passes a postrouting hook on  *)
(* each of them, that of its source and, forwarded to the pod, that of its *)
(* destination; the filter keeps the second agent from reporting it too.   *)
(*                                                                         *)
(* The server counts the entries of a report that it can resolve and that  *)
(* cross zones, as modules Server and Ledger say; here any of them.        *)
(***************************************************************************)
EXTENDS Agent, FiniteSets

VARIABLES
  trip,      \* packet -> whose hook it passes next: its source's, its destination's
  credits    \* packet -> how often the server has counted it

outside == <<trip, credits>>
vars == <<agentVars, outside>>

source(p) == home[srcIP[flowOf[p]]]

destination(p) == home[dstIP[flowOf[p]]]

Init ==
  /\ AInit
  /\ trip = [p \in Packet |-> "source"]
  /\ credits = [p \in Packet |-> 0]

\* The node whose hook a packet passes next.
next(p) == IF trip[p] = "source" THEN source(p) ELSE destination(p)

\* A packet passes the next hook, if an agent is there to have one attached.
pass(p) ==
  /\ trip[p] # "done"
  /\ trip' = [trip EXCEPT ![p] = IF @ = "source" /\ source(p) # destination(p)
                                 THEN "destination" ELSE "done"]
  /\ \/ hook(next(p), p)
     \/ run[next(p)] = "down" /\ UNCHANGED agentVars
  /\ UNCHANGED credits

\* The server handles a report, whether or not the agent still waits for it.
\* Each entry is counted for itself; one that it cannot resolve, or that stays
\* in its zone, is gone.
handlePayload(r) ==
  \E known \in SUBSET r.entries :
    /\ credits' = [p \in Packet |-> credits[p] + Cardinality({e \in known : p \in e.packets})]
    /\ givesUp(r.from, inEntries(r.entries \ known))
    /\ net' = net \ {r}
    /\ UNCHANGED <<run, tally, keys, filled, store, stop, asked, strayed, trip>>

\* The POST does not reach the server, or is refused.
lose(r) ==
  /\ net' = net \ {r}
  /\ givesUp(r.from, inEntries(r.entries))
  /\ UNCHANGED <<run, tally, keys, filled, store, stop, asked, strayed, outside>>

agent(n) == Loop(n) /\ UNCHANGED outside

Next ==
  \/ \E n \in Node : agent(n)
  \/ \E p \in Packet : pass(p)
  \/ \E r \in net : handlePayload(r) \/ lose(r)

Spec == Init /\ [][Next]_vars

(***************************************************************************)
(* A select with two ready cases picks one at random, so stop is taken     *)
(* some time; a flush does not miss the same flow every time (Drains of    *)
(* FlowMap); a report is handled or lost some time.  That every POST ends  *)
(* is an assumption about the network: http.DefaultClient has no timeout.  *)
(* Nothing is assumed of packets, signals, crashes, restarts or informers. *)
(***************************************************************************)
Fairness ==
  /\ \A n \in Node :
       /\ WF_vars(onTick(n) /\ UNCHANGED outside)
       /\ SF_vars(exit(n) /\ UNCHANGED outside)
       /\ \A f \in Flow : SF_vars(readFlow(n, f) /\ UNCHANGED outside)
       /\ WF_vars((noData(n) \/ send(n)) /\ UNCHANGED outside)
       /\ WF_vars(postEnds(n) /\ UNCHANGED outside)
  /\ WF_vars(\E r \in net : handlePayload(r) \/ lose(r))

FairSpec == Spec /\ Fairness

-----------------------------------------------------------------------------
(***************************************************************************)
(* Properties.                                                             *)
(***************************************************************************)

\* The loops, the slots and the reports hold values of their types: no flush
\* fills more slots than there are, and no report is empty.
TypeOK ==
  /\ run \in [Node -> {"down", "select", "reading", "posting"}]
  /\ tally \in [Node -> [Flow -> SUBSET Packet]]
  /\ keys \in [Node -> [1 .. Size -> Entry \cup {NoEntry}]]
  /\ filled \in [Node -> 0 .. Size]
  /\ store \in [Node -> SUBSET IP]
  /\ stop \in [Node -> BOOLEAN]
  /\ asked \in [Node -> BOOLEAN]
  /\ net \subseteq Report
  /\ lost \in [Node -> SUBSET Packet]
  /\ strayed \subseteq Packet
  /\ trip \in [Packet -> {"source", "destination", "done"}]
  /\ credits \in [Packet -> Nat]

\* The server counts a packet at most once, and never from the agent of its
\* destination, although two agents see it, agents restart, stores are stale,
\* slots are used again and answers get lost; except for a packet that a hook
\* added to another flow (agent.go:204, filterSrcIpOnCurrentHost).
CreditedOnce ==
  \A p \in Packet \ strayed :
    /\ credits[p] <= 1
    /\ \A r \in net : p \in inEntries(r.entries) => r.from = source(p) /\ credits[p] = 0

\* What the map of the source node holds is counted by the server some time, or
\* given up for one of the reasons the code has: the map loses it, the read
\* fails, the filter or the server does not know the pod, it stays in its zone,
\* the POST fails, data is not to be sent, or the agent ends.
Delivered ==
  \A p \in Packet :
    (\E f \in Flow : p \in tally[source(p)][f]) ~> (credits[p] > 0 \/ p \in lost[source(p)])

\* Is a packet where an agent is answerable for it: in the map, in the slots of
\* this flush, in a report under way, counted by the server, or given up?
tracked(n, p) ==
  \/ p \in packets(tally[n])
  \/ p \in inEntries(batch(n))
  \/ \E r \in net : r.from = n /\ p \in inEntries(r.entries)
  \/ credits[p] > 0
  \/ p \in lost[n]

\* A packet that an agent has counted does not vanish: from the map to the report
\* no step of a hook, a flush, the filter, the end of the process or the server
\* leaves it out without one of the reasons above (agent.go:128-171).
NeverVanishes == [][\A n \in Node, p \in Packet : tracked(n, p) => tracked(n, p)']_vars

\* An agent that is told to stop stops, also if the signal comes in the middle
\* of a flush or a POST (agent.go:117-127).
StopsWhenAsked == \A n \in Node : asked[n] ~> run[n] = "down"

\* The agent sends what its node's pods sent: no flush that ends well leaves out
\* an entry whose source address is of this node (README.md:35, "about all Pod
\* network traffic and sends the statistics to the server").
SendsAllPodTraffic ==
  [][\A n \in Node : send(n) =>
       \A e \in batch(n) : home[srcIP[e.flow]] = n => \E r \in net' : e \in r.entries]_vars
==============================================================================
