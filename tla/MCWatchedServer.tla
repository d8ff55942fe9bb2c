--------------------------- MODULE MCWatchedServer ---------------------------
(***************************************************************************)
(* Small clusters for WatchedServer: two pods on a node, and no more pod   *)
(* addresses than pods, so that they change hands.                         *)
(***************************************************************************)
EXTENDS WatchedServer, TLC

CONSTANTS ns, n1, x1, x2, y1, z1

MCNodeIP == [node \in Node |-> y1]

MCPodObject ==
  { PodAt(k, node, {}) : k \in PodKey, node \in Node } \cup
  { PodAt(k, node, {ip}) : k \in PodKey, node \in Node, ip \in IP }

MCNodeObject == [name: Node, zone: Zone \cup {NoLabel}]

MCPayload == { <<[SrcIP |-> x1, DstIP |-> y1, Traffic |-> 1]>> }

Symmetry == Permutations(PodName)
==============================================================================
