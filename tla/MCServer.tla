------------------------------ MODULE MCServer ------------------------------
(***************************************************************************)
(* Small instances of Server: two pods and two nodes that share two IPv4   *)
(* addresses, so that an address moves between pods, and between a pod and *)
(* a node, in every order.                                                 *)
(***************************************************************************)
EXTENDS ServerLedger, ServerLogs

CONSTANTS ns, a, b, n1, n2, i1, i2, v6, z1

MCPod(name, node, host, addrs) ==
  [key |-> [namespace |-> ns, name |-> name], node |-> node, hostIP |-> host, podIPs |-> addrs]

\* Pod a has no address, then i1 (beside an IPv6 one), then i2; pod b takes i1
\* while its status holds an IPv6 host address, or runs on n2's host network.
MCPodObject ==
  { MCPod(a, NoNode, v6, {}),
    MCPod(a, n1, v6, {i1, v6}),
    MCPod(a, n1, i1, {i2}),
    MCPod(b, n2, v6, {i1}),
    MCPod(b, n2, i2, {i2}) }

MCNodeObject ==
  { [name |-> n1, zone |-> z1], [name |-> n2, zone |-> NoLabel], [name |-> n2, zone |-> z1] }

MCEntry(src, dst, traffic) == [SrcIP |-> src, DstIP |-> dst, Traffic |-> traffic]

\* Two flows; which of them cross zones, and whose they are, is up to the events.
MCPayload == { <<MCEntry(i1, i2, 1), MCEntry(i2, i1, 2)>> }
=============================================================================
