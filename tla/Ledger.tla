------------------------------- MODULE Ledger -------------------------------
(***************************************************************************)
(* What the kubezonnet server promises, without its maps, its mutex and    *)
(* its goroutines: a ledger of cross-zone bytes.  A report is credited as  *)
(* a whole, once, against one view of the cluster, or not at all; a reader *)
(* sees one state of the whole ledger; only the account of a pod that is   *)
(* gone is ever closed, and it starts again from nothing.                  *)
(***************************************************************************)
EXTENDS Postings

CONSTANTS
  Address,    \* IPv4 addresses
  Account,    \* pods, and nodes for their hostNetwork pods
  PodAccount, \* the accounts that may be closed
  ZoneName,
  Request, Scrape,
  Payload     \* reports: sequences of [SrcIP, DstIP, Traffic]

VARIABLES
  place,      \* address -> whose it is and the zone it is in
  balance,    \* account -> bytes
  report,     \* request -> open, received, refused, credited or answered
  content,    \* request -> the report it brought, until that is credited
  seen        \* scrape -> the ledger it was shown

vars == <<place, balance, report, content, seen>>

Place == [account: Account, zone: ZoneName] \cup {Absent}

Init ==
  /\ place = [ip \in Address |-> Absent]
  /\ balance = [a \in Account |-> Absent]
  /\ report = [r \in Request |-> "open"]
  /\ content = [r \in Request |-> <<>>]
  /\ seen = [s \in Scrape |-> Absent]

\* What an entry of a report adds, and to which account.
posting(entry) ==
  LET src == place[entry.SrcIP]
      dst == place[entry.DstIP]
  IN [to    |-> IF src = Absent \/ dst = Absent \/ src.zone = dst.zone THEN Absent ELSE src.account,
      bytes |-> entry.Traffic]

credit(data, ledger) == Posted(ledger, [i \in DOMAIN data |-> posting(data[i])])

\* The view of the cluster changes.  An account is closed only if it is a pod's
\* and no address is the pod's any more.
Watch ==
  /\ place' \in [Address -> Place]
  /\ \A a \in Account :
       \/ balance'[a] = balance[a]
       \/ /\ a \in PodAccount /\ balance'[a] = Absent
          /\ \A ip \in Address : place'[ip] = Absent \/ place'[ip].account # a
  /\ UNCHANGED <<report, content, seen>>

Refuse(r) ==
  /\ report[r] = "open"
  /\ report' = [report EXCEPT ![r] = "refused"]
  /\ UNCHANGED <<place, balance, content, seen>>

Receive(r) ==
  /\ report[r] = "open"
  /\ report' = [report EXCEPT ![r] = "received"]
  /\ \E data \in Payload : content' = [content EXCEPT ![r] = data]
  /\ UNCHANGED <<place, balance, seen>>

\* All of the report at once.
Credit(r) ==
  /\ report[r] = "received"
  /\ balance' = credit(content[r], balance)
  /\ report' = [report EXCEPT ![r] = "credited"]
  /\ content' = [content EXCEPT ![r] = <<>>]
  /\ UNCHANGED <<place, seen>>

Answer(r) ==
  /\ report[r] = "credited"
  /\ report' = [report EXCEPT ![r] = "answered"]
  /\ UNCHANGED <<place, balance, content, seen>>

Read(s) ==
  /\ seen[s] = Absent
  /\ seen' = [seen EXCEPT ![s] = balance]
  /\ UNCHANGED <<place, balance, report, content>>

Next ==
  \/ Watch
  \/ \E r \in Request : Refuse(r) \/ Receive(r) \/ Credit(r) \/ Answer(r)
  \/ \E s \in Scrape : Read(s)

Spec == Init /\ [][Next]_vars
=============================================================================
