---------------------------- MODULE ServerLedger ----------------------------
(***************************************************************************)
(* The server of module Server implements the ledger of module Ledger.     *)
(***************************************************************************)
EXTENDS Server

\* The entries that the goroutine in its critical section has still to count.
entriesLeft == IF mutex \in Request THEN request[mutex].data ELSE <<>>

\* No series and no resolved address looks like a lookup that found nothing.
ASSUME PlaceAssumption == Absent \notin SeriesKey \cup [account: SeriesKey, zone: ZoneName]

placeOf(ip) == IF resolves(ip) THEN [account |-> series(ip), zone |-> zone(ip)] ELSE Absent

\* What countEntry does with an entry.
postingOf(entry) == [to    |-> IF crossZone(entry) THEN series(entry.SrcIP) ELSE Absent,
                     bytes |-> entry.Traffic]

P == INSTANCE Postings

\* `statistics' with the entries that are still to be counted.
statisticsInEffect ==
  P!Posted(statistics, [i \in DOMAIN entriesLeft |-> postingOf(entriesLeft[i])])

progress(r) ==
  CASE r.pc = "idle" -> "open"
    [] r.pc = "decoded" -> "received"
    [] r.pc = "locked" -> "credited"
    [] r.pc = "done" -> IF r.status = "OK" THEN "answered" ELSE "refused"

places   == [ip \in IP |-> placeOf(ip)]
reports  == [r \in Request |-> progress(request[r])]
contents == [r \in Request |-> IF request[r].pc = "decoded" THEN request[r].data ELSE <<>>]
shown    == [s \in Scrape |-> IF metrics[s].pc = "done" THEN metrics[s].sent ELSE Absent]

\* A payload takes effect when its goroutine takes the mutex: from then on
\* nobody sees `statistics' without all of its entries.
L == INSTANCE Ledger WITH
       Address    <- IP,
       Account    <- SeriesKey,
       PodAccount <- PodKey,
       place      <- places,
       balance    <- statisticsInEffect,
       report     <- reports,
       content    <- contents,
       seen       <- shown

\* The server's maps, mutex and goroutines implement the ledger: payloads are
\* credited atomically and once, scrapes are snapshots, and only the series of
\* a pod that no address resolves to is dropped.
ImplementsLedger == L!Spec
=============================================================================
