----------------------------- MODULE ServerLogs -----------------------------
(***************************************************************************)
(* The two outputs of handlePayload, the counters and the flow logs,       *)
(* compared.                                                               *)
(***************************************************************************)
EXTENDS Server, SequencesExt

\* A server answers finitely many POSTs.
ASSUME FiniteAssumption == IsFiniteSet(Request)

\* f[1] + ... + f[n], as a recursive function, so that proofs can unfold it.
Total(f, n) ==
  LET upTo[i \in 0 .. n] == IF i = 0 THEN 0 ELSE upTo[i - 1] + f[i]
  IN upTo[n]

\* The bytes of a flow log, which is negative if they do not fit an int.
uint64(x) == x % Uint64

\* The bytes that flow logs give to a series.
bytesIn(logs, k) ==
  Total([i \in DOMAIN logs |-> IF logs[i].src = k THEN uint64(logs[i].bytes) ELSE 0], Len(logs))

\* The requests in some order.
inOrder == SetToSeq(Request)

\* The bytes that the flow logs of all requests give to a series, those included
\* that a request has still to print, once it has released the mutex.
LoggedBytes(k) ==
  Total([i \in 1 .. Cardinality(Request) |-> bytesIn(request[inOrder[i]].flowLogs, k)],
        Cardinality(Request))

\* The metrics and the flow logs tell the same story, although a counter is a
\* uint64 and a log an int: the counter of a node is what the logs of all payloads
\* together give it, modulo 2^64, and the counter of a pod, which starts again
\* when the pod is deleted, is part of it, unless that sum wraps (main.go:394-401).
CountersMatchLogs ==
  /\ \A n \in Node : (IF statistics[NodeKey(n)] = Absent THEN 0 ELSE statistics[NodeKey(n)])
                       = LoggedBytes(NodeKey(n)) % Uint64
  /\ \A k \in PodKey : statistics[k] # Absent /\ LoggedBytes(k) < Uint64
                         => statistics[k] <= LoggedBytes(k)
=============================================================================
