------------------------------ MODULE Postings ------------------------------
(***************************************************************************)
(* How the entries of a report add up to counters.  A posting is what one  *)
(* entry does to a ledger: it adds bytes to an account, or, if `to' is     *)
(* Absent, nothing.  The sum is a recursive function, so that proofs can   *)
(* unfold it.                                                              *)
(***************************************************************************)
EXTENDS Naturals, Sequences

CONSTANTS Uint64, Absent

\* A ledger with one more posting; an account that is not there counts from 0.
post(ledger, p) ==
  IF p.to = Absent THEN ledger
  ELSE [ledger EXCEPT ![p.to] = ((IF @ = Absent THEN 0 ELSE @) + p.bytes) % Uint64]

\* The ledger after all of a sequence of postings, the first one first.
Posted(ledger, ps) ==
  LET upTo[n \in 0 .. Len(ps)] == IF n = 0 THEN ledger ELSE post(upTo[n - 1], ps[n])
  IN upTo[Len(ps)]
=============================================================================
