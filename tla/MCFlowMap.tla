------------------------------ MODULE MCFlowMap ------------------------------
(***************************************************************************)
(* A small ip_map: two buckets, two entries and a spare element, for       *)
(* packets of three flows of one pair of pods.                             *)
(***************************************************************************)
EXTENDS FlowMapTally

CONSTANTS x, y, p1, p2, q1, f1

Ip(src, dst, l4, ports) ==
  [protocol |-> "ETH_P_IP", readable |-> TRUE, saddr |-> src, daddr |-> dst,
   l4 |-> l4, ports |-> ports]

\* p1 and p2 are of one flow, q1 of another; f1 is ICMP and falls in the entry
\* without ports.
MCHeader ==
  [p \in Packet |->
     CASE p \in {p1, p2} -> Ip(x, y, "TCP", <<80, 8080>>)
       [] p = q1         -> Ip(x, y, "UDP", <<8080, 80>>)
       [] p = f1         -> Ip(x, y, "other", <<>>)]

MCHash == [k \in Key |-> IF k.src_port = 80 THEN 0 ELSE 1]
==============================================================================
