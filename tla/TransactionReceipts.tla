-------------------------- MODULE TransactionReceipts --------------------------
(***************************************************************************)
(* How the transactional store discloses receipts (server/src/transaction- *)
(* store.ts, readReceipt and readReceiptPage): a completed receipt is read  *)
(* by its prefix and by pages of a plan that was made with it, while time   *)
(* passes, receipts expire, the view of readers is restricted and the owner *)
(* starts again.                                                           *)
(***************************************************************************)
EXTENDS Integers, Sequences, FiniteSets

CONSTANTS
  Keys, Principals, Readers,
  OwnerOf,      \* the principal of each key
  ReaderFor,    \* the principal of each reader
  Results,      \* what may come out: sequences of "resource" and "plain"
  Maximum,      \* receiptMaximumItems
  Retention, MaxTime, MaxReceipts,
  None

VARIABLES
  row,       \* of each key: None or its receipt
  plan,      \* of each receipt with pages: [entries, pages]
  now, policy,
  issued,    \* how many receipts there have been; their number is their name
  made,      \* what came out of each receipt that was completed
  walk       \* of each reader: the receipt, what was read, and what is next

vars == <<row, plan, now, policy, issued, made, walk>>
store == <<row, plan>>

Least(a, b) == IF a <= b THEN a ELSE b
-----------------------------------------------------------------------------
(* Receipts and their pages. *)

\* The pages after the prefix.
Pages(n) ==
  [i \in 1..((n + Maximum - 1) \div Maximum - 1) |->
     [start |-> i * Maximum, end |-> Least((i + 1) * Maximum, n)]]

\* A plan whose pages do not follow each other up to the last entry is a fault.
Sound(r) ==
  /\ r.id \in DOMAIN plan
  /\ LET p == plan[r.id] IN
     /\ p.entries >= 1
     /\ r.detail = "available" => Len(r.results) = p.entries
     /\ \A i \in DOMAIN p.pages :
          /\ p.pages[i].start = (IF i = 1 THEN Maximum ELSE p.pages[i - 1].end)
          /\ p.pages[i].start < p.entries
          /\ p.pages[i].end = Least(p.pages[i].start + Maximum, p.entries)
     /\ IF p.pages = <<>> THEN p.entries <= Maximum ELSE p.pages[Len(p.pages)].end = p.entries

Receipt(id, status, results) ==
  [id |-> id, status |-> status, detail |-> IF status = "pending" THEN "none" ELSE "available",
   results |-> results, expires |-> now + Retention]

Admit(k) ==
  /\ row[k] = None /\ issued < MaxReceipts /\ issued' = issued + 1
  /\ row' = [row EXCEPT ![k] = Receipt(issued', "pending", <<>>)]
  /\ UNCHANGED <<plan, now, policy, made, walk>>

\* The receipt and the plan of its pages are one commit.
Complete(k) ==
  /\ row[k] # None /\ row[k].status = "pending"
  /\ \E results \in Results :
     /\ row' = [row EXCEPT ![k] = Receipt(row[k].id, "completed", results)]
     /\ made' = [id \in DOMAIN made \cup {row[k].id} |-> IF id = row[k].id THEN results ELSE made[id]]
     /\ plan' = [id \in DOMAIN plan \cup {row[k].id} |->
                   IF id = row[k].id THEN [entries |-> Len(results), pages |-> Pages(Len(results))]
                   ELSE plan[id]]
  /\ UNCHANGED <<now, policy, issued, walk>>

Fail(k) ==
  /\ row[k] # None /\ row[k].status = "pending"
  /\ row' = [row EXCEPT ![k] = Receipt(row[k].id, "failed", <<>>)]
  /\ UNCHANGED <<plan, now, policy, issued, made, walk>>

\* Mutant: a receipt ends at the instant up to which it was promised.
Due_at(r) == r.detail = "available" /\ now >= r.expires

\* It is promised through this instant.
Due(r) == r.detail = "available" /\ now > r.expires

\* A failed receipt is forgotten, a completed one is reduced to what it allocated.
Expired(r) ==
  IF r = None \/ ~Due(r) THEN r
  ELSE IF r.status = "failed" THEN None ELSE [r EXCEPT !.detail = "expired"]

Sweep(rows) == [k \in Keys |-> Expired(rows[k])]

Maintain == row' = Sweep(row) /\ UNCHANGED <<plan, now, policy, issued, made, walk>>

Retracted == [k \in Keys |-> IF row[k] # None /\ row[k].status = "pending" THEN None ELSE row[k]]

\* Pending receipts are retracted before anything is read; readers go on.
Restart == row' = Sweep(Retracted) /\ UNCHANGED <<plan, now, policy, issued, made, walk>>

Tick == now < MaxTime /\ now' = now + 1 /\ UNCHANGED <<store, policy, issued, made, walk>>

Restrict == policy = "all-visible" /\ policy' = "empty" /\ UNCHANGED <<store, now, issued, made, walk>>
-----------------------------------------------------------------------------
(* Reading. *)

\* A view that sees nothing is told that there was a resource, not which.
Shown(entry) == IF policy = "empty" /\ entry = "resource" THEN "withheld" ELSE entry

Entries(r, from, to) == [i \in 1..(to - from) |-> [at |-> from + i, as |-> Shown(r.results[from + i])]]

\* A completed receipt of which nothing may be seen tells neither pages nor time.
AllWithheld(r) == policy = "empty" /\ \A i \in DOMAIN r.results : r.results[i] = "resource"

Allocates(r) == \E i \in DOMAIN r.results : r.results[i] = "resource"

Walk(id, k, got, next, told) == [id |-> id, key |-> k, got |-> got, next |-> next, told |-> told]

Mine(p, k) == row[k] # None /\ OwnerOf[k] = p

\* A minimum that is not supported or not reached ends a read before retention.
Refused(minimum) == minimum # "none"

Told(r) ==
  CASE r = None -> "missing"
    [] r.status = "pending" -> "pending"
    [] r.status = "failed" -> "failed"
    [] ~Sound(r) /\ r.detail = "available" -> "fault"
    [] r.detail = "available" -> IF AllWithheld(r) THEN "withheld" ELSE "page"
    [] r.detail = "expired" -> IF policy = "empty" /\ Allocates(r) THEN "withheld" ELSE "expired"

Prefix(r, k) ==
  IF Told(r) # "page" THEN Walk(0, k, <<>>, 0, Told(r))
  ELSE Walk(r.id, k, Entries(r, 0, Least(Maximum, Len(r.results))),
            IF Len(plan[r.id].pages) = 0 THEN 0 ELSE 1, "page")

ReadReceipt(reader, k, minimum) ==
  LET r == Expired(row[k]) IN
  /\ IF ~Mine(ReaderFor[reader], k)
     THEN walk' = [walk EXCEPT ![reader] = Walk(0, k, <<>>, 0, "missing")] /\ UNCHANGED row
     ELSE IF Refused(minimum)
     THEN walk' = [walk EXCEPT ![reader] = Walk(0, k, <<>>, 0, "refused")] /\ UNCHANGED row
     ELSE row' = [row EXCEPT ![k] = r] /\ walk' = [walk EXCEPT ![reader] = Prefix(r, k)]
  /\ UNCHANGED <<plan, now, policy, issued, made>>

Between(page) == [from |-> page.start, to |-> page.end]

Paged(w, r) ==
  LET page == plan[r.id].pages[w.next]
      following == IF w.next < Len(plan[r.id].pages) THEN w.next + 1 ELSE 0
  IN [w EXCEPT !.got = @ \o Entries(r, Between(page).from, Between(page).to), !.next = following]

\* A reader follows the token that it was given; another principal is told nothing.
ReadPage(reader, as, minimum) ==
  LET w == walk[reader]  k == w.key  r == Expired(row[k]) IN
  /\ w.next > 0 /\ w.told = "page"
  /\ CASE as # OwnerOf[k] -> walk' = [walk EXCEPT ![reader].next = 0, ![reader].told = "missing"] /\ UNCHANGED row
       [] as = OwnerOf[k] /\ (row[k] = None \/ ~Sound(row[k])) ->
            walk' = [walk EXCEPT ![reader].told = "fault"] /\ UNCHANGED row
       [] as = OwnerOf[k] /\ row[k] # None /\ Sound(row[k]) /\ Refused(minimum) -> UNCHANGED <<row, walk>>
       [] OTHER -> /\ row' = [row EXCEPT ![k] = r]
                   /\ walk' = [walk EXCEPT ![reader] =
                        IF r.detail = "expired" THEN [w EXCEPT !.told = "expired"] ELSE Paged(w, r)]
  /\ UNCHANGED <<plan, now, policy, issued, made>>
-----------------------------------------------------------------------------
Init ==
  /\ row = [k \in Keys |-> None] /\ plan = [id \in {} |-> None]
  /\ now = 0 /\ policy = "all-visible" /\ issued = 0 /\ made = [id \in {} |-> <<>>]
  /\ walk = [r \in Readers |-> Walk(0, CHOOSE k \in Keys : TRUE, <<>>, 0, "nothing")]

Minimums == {"none", "unreached"}

Next ==
  \/ \E k \in Keys : Admit(k) \/ Complete(k) \/ Fail(k)
  \/ \E r \in Readers, k \in Keys, m \in Minimums : ReadReceipt(r, k, m)
  \/ \E r \in Readers, p \in Principals, m \in Minimums : ReadPage(r, p, m)
  \/ Maintain \/ Restart \/ Tick \/ Restrict

Spec == Init /\ [][Next]_vars
-----------------------------------------------------------------------------
(* Correctness. *)

\* Who has followed the tokens of a receipt to the end has each of its entries
\* once and in order, whole or withheld, whatever happened between the pages.
WalkIsWhole ==
  \A r \in Readers : LET w == walk[r] IN
    w.told = "page" /\ w.next = 0 =>
      /\ Len(w.got) = Len(made[w.id])
      /\ \A i \in DOMAIN w.got : w.got[i].at = i /\ w.got[i].as \in {"withheld", made[w.id][i]}

\* A token that was given stands for a page or for its expiry: no retention, crash
\* or restriction makes it a fault; nor is a completed receipt ever one.
TokensStand == \A r \in Readers : walk[r].told # "fault"

\* What a reader was told by a step.
Fresh(r) ==
  IF walk'[r] = walk[r] \/ walk'[r].told # "page" THEN {}
  ELSE IF walk'[r].id = walk[r].id /\ Len(walk'[r].got) > Len(walk[r].got)
  THEN (Len(walk[r].got) + 1)..Len(walk'[r].got) ELSE DOMAIN walk'[r].got

Restricted == policy = "empty"

\* After a restriction nobody is told a resource, wherever in a receipt he was.
NothingMoreIsShown ==
  Restricted => \A r \in Readers : \A i \in Fresh(r) : walk'[r].got[i].as # "resource"

Early(r) == r # None /\ r.status # "pending" /\ now <= r.expires

\* A receipt is there through the instant that it names, and each reader is told so.
KeptAsPromised ==
  \A k \in Keys : Early(row[k]) => row'[k] = row[k]
===============================================================================
