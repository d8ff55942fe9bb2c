------------------------------ MODULE MCSystem ------------------------------
(***************************************************************************)
(* Two nodes with a pod each and a packet there and one back; or one node  *)
(* with two pods, and more packets between them.                           *)
(***************************************************************************)
EXTENDS System, TLC

CONSTANTS a, b, ab, ba, p1, p2, q1

MCSrc == (ab :> a) @@ (ba :> b)
MCDst == (ab :> b) @@ (ba :> a)
MCFlowOf == [p \in Packet |-> IF p = q1 THEN ba ELSE ab]

\* The nodes of the addresses, which are the only constants a node's name is
\* needed for: a and b are on different nodes if there are two.
MCHome == CHOOSE h \in [IP -> Node] : {h[ip] : ip \in IP} = Node
=============================================================================
