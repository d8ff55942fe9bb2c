---------------------------- MODULE FlowMapTally ----------------------------
(***************************************************************************)
(* FlowMap implements Tally: the hook that ends is the step that counts,   *)
(* and a bucket is read as a whole.                                        *)
(***************************************************************************)
EXTENDS FlowMap

CountedPacket == {p \in Packet : counts(p)}

T == INSTANCE Tally WITH
  Packet <- CountedPacket,
  Flow   <- Key,
  flowOf <- [p \in CountedPacket |-> key(p)],
  passed <- {p \in CountedPacket : hook[p].pc = "accepted"},
  table  <- [k \in Key |-> recorded(k)],
  batch  <- batch,
  handed <- reported

\* Whatever the hooks and the flush do to elements, pointers and buckets, they
\* change the table of flows as Tally allows: one change for each packet, and an
\* entry leaves the map only into the batch that reads it (kubezonnet.c:77-85,
\* agent.go:131-148).
ImplementsTally == T!Spec
==============================================================================
