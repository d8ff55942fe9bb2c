-------------------------------- MODULE Tally --------------------------------
(***************************************************************************)
(* What ip_map and its flush promise to the agent: a table of flows that   *)
(* every packet changes once, entries that leave the table as they are     *)
(* read, and a batch that is handed over as a whole or lost as a whole.    *)
(* No elements, no pointers, no buckets and no limit.                      *)
(***************************************************************************)
EXTENDS FlowTable

VARIABLES
  passed,    \* packets whose hook has ended
  table,     \* flow -> packets in its entry
  batch,     \* flow -> packets read by the flush under way
  handed     \* flow -> packets handed to the agent

vars == <<passed, table, batch, handed>>

Init ==
  /\ passed = {}
  /\ table = Empty
  /\ batch = Empty
  /\ handed = Empty

Pass(p) ==
  /\ p \notin passed
  /\ passed' = passed \cup {p}
  /\ table' \in after(table, p)
  /\ UNCHANGED <<batch, handed>>

\* Some flows are read, each at most once by a flush.
Read(flows) ==
  /\ \A f \in flows : batch[f] = {}
  /\ batch' = [f \in Flow |-> IF f \in flows THEN table[f] ELSE batch[f]]
  /\ table' = without(table, flows)
  /\ UNCHANGED <<passed, handed>>

HandOver ==
  /\ handed' = [f \in Flow |-> handed[f] \cup batch[f]]
  /\ batch' = Empty
  /\ UNCHANGED <<passed, table>>

Fail ==
  /\ batch' = Empty
  /\ UNCHANGED <<passed, table, handed>>

Next ==
  \/ \E p \in Packet : Pass(p)
  \/ \E flows \in SUBSET Flow : Read(flows)
  \/ HandOver
  \/ Fail

Spec == Init /\ [][Next]_vars
==============================================================================
