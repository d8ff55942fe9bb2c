------------------------------ MODULE FlowTable ------------------------------
(***************************************************************************)
(* ip_map as those who use it see it: for every flow the packets that its  *)
(* packet_size adds up, and none for a flow without an entry.  What a hook *)
(* may do to it is all that can happen when hooks of other packets and a   *)
(* flush run beside it; module FlowMapTally shows that the map does no     *)
(* more than that.                                                         *)
(***************************************************************************)
CONSTANTS
  Packet,
  Flow,      \* the keys of the map
  flowOf     \* packet -> the flow it is of

Empty == [f \in Flow |-> {}]

packets(t) == UNION {t[f] : f \in Flow}

\* What handle_v4 may make of table t: nothing (the map is full, or the element
\* it found is in no entry any more), an entry with this packet alone (a new
\* one, or in place of one that another hook made meanwhile), or an addition to
\* an entry, not always that of the packet's own flow.
after(t, p) ==
  {t} \cup {[t EXCEPT ![flowOf[p]] = {p}]}
      \cup {[t EXCEPT ![f] = @ \cup {p}] : f \in {g \in Flow : t[g] # {}}}

\* The table once the entries of these flows are read and deleted.
without(t, flows) == [f \in Flow |-> IF f \in flows THEN {} ELSE t[f]]
==============================================================================
