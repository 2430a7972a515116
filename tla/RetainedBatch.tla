----------------------------- MODULE RetainedBatch -----------------------------
(***************************************************************************)
(* Atomic batches of the reference store, format 6: applyBatch of          *)
(* retained-v01/store.ts, the comparison of batch-contract.ts and the      *)
(* working graph of batch-evaluate.ts.  A batch decides its members one    *)
(* after the other on a copy of the Resources and publishes, for every     *)
(* Resource they touched, the difference that is left at the end: all of   *)
(* it with one decision, or nothing but a refusal.                         *)
(*                                                                         *)
(* Singleton requests share the tables and the keys (RetainedStore).       *)
(***************************************************************************)
EXTENDS RetainedStore

CONSTANTS
  Batches,            \* the prepared batches that are submitted
  MaximumOperations,  \* members of a batch
  Order               \* the Uris in the order of their text

(***************************************************************************)
(* A member is a request, the fields that name what an earlier member      *)
(* creates (handles: field -> that member), and its attribution.  Labels   *)
(* only choose the handles; they are no part of the decision.              *)
(***************************************************************************)
KindOf(op) == IF op \in {"createBead", "updateBead", "deleteBead"} THEN "bead" ELSE "link"
VerbOf(op) ==
  IF op \in {"createBead", "createLink"} THEN "create"
  ELSE IF op \in {"updateBead", "updateLink"} THEN "update" ELSE "delete"

Creates(B, n) == VerbOf(B[n].request.op) = "create"

ASSUME BatchesAssumption ==
  /\ ~Historical
  /\ MaximumOperations \in Nat \ {0}
  /\ Order \in Seq(Uris)
  /\ \A uri \in Uris : \E n \in 1..Len(Order) : Order[n] = uri
  /\ \A m, n \in 1..Len(Order) : m # n => Order[m] # Order[n]
  /\ \A B \in Batches : B # <<>> /\ B \in Seq({B[n] : n \in 1..Len(B)})
  /\ \A B \in Batches : \A n \in 1..Len(B) :
       /\ B[n].request \in Invocation /\ B[n].request.from = 0
       /\ B[n].request.op \in Operations \ {"putAlias", "deleteAlias"}
       /\ Creates(B, n) => B[n].request.expected = 0
       /\ \A s \in DOMAIN B[n].handles :
            LET m == B[n].handles[s] IN
            /\ m \in 1..(n - 1) /\ Creates(B, m)
            /\ KindOf(B[m].request.op) = IF s = "id" THEN KindOf(B[n].request.op) ELSE "bead"
-----------------------------------------------------------------------------
(* References of the members. *)

\* The addresses members before the n-th create by name.
Explicit(B, n) == {B[m].request.id : m \in {m \in 1..(n - 1) : Creates(B, m)}} \ {None}

\* The fields that can go through the alias table, unless a handle fills them.
OpenSlots(B, n) == Slots(B[n].request) \ DOMAIN B[n].handles

\* Mutant: every address is compared as the tables have it.
Compared_tables(B, n, s, witnesses) == Resolve(B[n].request[s], witnesses)

\* An address created earlier in the batch is that Resource, not an alias.
Compared(B, n, s, witnesses) ==
  LET uri == B[n].request[s] IN
  IF uri \in Explicit(B, n) THEN Bound(uri) ELSE Resolve(uri, witnesses)

BatchWitnesses(B) ==
  LET looked == UNION {{B[n].request[s] : s \in OpenSlots(B, n)} \ Explicit(B, n)
                         : n \in 1..Len(B)} IN
  [uri \in {u \in looked : ~IsDirect(u)} |-> AliasTarget(uri)]

BatchIdentity(B, witnesses) ==
  [n \in 1..Len(B) |->
     [request |-> [f \in DOMAIN B[n].request \ Slots(B[n].request) |-> B[n].request[f]],
      slots |-> [s \in OpenSlots(B, n) |-> Compared(B, n, s, witnesses)],
      handles |-> B[n].handles, provenance |-> B[n].provenance]]
-----------------------------------------------------------------------------
(***************************************************************************)
(* The working graph: the live Resources, the identities allocated so far, *)
(* the Resource of every member, and the first refusal.                    *)
(***************************************************************************)
InitialGraph ==
  [live |-> [id \in DOMAIN resources |-> [kind |-> identities[id], body |-> resources[id]]],
   allocated |-> {}, ids |-> <<>>, code |-> "none"]

Has(m, s) == s \in DOMAIN m.handles \/ m.request[s] # None

Reference(g, B, n, s) ==
  IF s \in DOMAIN B[n].handles THEN Bound(g.ids[B[n].handles[s]])
  ELSE IF s \in OpenSlots(B, n) THEN Compared(B, n, s, BatchWitnesses(B))
  ELSE Bound(B[n].request[s])

\* Mutant: a Link may end at a Link.
EndpointCode_anyKind(g, kind, body) ==
  IF kind = "bead" THEN "none"
  ELSE IF \E uri \in LocalEndpoints(body) : uri \notin DOMAIN g.live THEN "resource-not-found"
  ELSE IF LocalEndpoints(body) = {} THEN "validation-failed" ELSE "none"

EndpointCode(g, kind, body) ==
  LET local == LocalEndpoints(body) IN
  IF kind = "bead" THEN "none"
  ELSE IF \E uri \in local : uri \notin DOMAIN g.live THEN "resource-not-found"
  ELSE IF local = {} \/ \E uri \in local : g.live[uri].kind # "bead" THEN "validation-failed"
  ELSE "none"

\* The document and endpoints a member leaves; old is the body before, if any.
Staged(g, B, n, old, data) ==
  LET end(s) == IF Has(B[n], s) THEN Reference(g, B, n, s).uri ELSE old[s] IN
  Body(old.revision, data, end("source"), end("target"))

EndpointsBound(g, B, n) ==
  \A s \in {"source", "target"} : Has(B[n], s) => Reference(g, B, n, s).bound

CreateCode(g, B, n, id, body) ==
  IF id \in g.allocated \cup DOMAIN identities \cup Reserved THEN "identity-taken"
  ELSE IF id \in DOMAIN aliases THEN "alias-path-taken"
  ELSE IF ~EndpointsBound(g, B, n) THEN "resource-not-found"
  ELSE EndpointCode(g, KindOf(B[n].request.op), body)

\* Mutant: a Resource an earlier member touched is not guarded.
GuardHolds_first(g, i, id) ==
  \/ i.expected = 0 \/ \E m \in 1..Len(g.ids) : g.ids[m] = id
  \/ id \in DOMAIN resources /\ i.expected = resources[id].revision

\* Guards name a revision from before the batch, whatever earlier members did.
GuardHolds(g, i, id) ==
  \/ i.expected = 0
  \/ id \in DOMAIN resources /\ i.expected = resources[id].revision

Incidents(g, id) ==
  {link \in DOMAIN g.live : g.live[link].kind = "link"
                              /\ id \in {g.live[link].body.source, g.live[link].body.target}}

\* The refusal of an update or deletion, or the data it leaves.
ChangeCode(g, B, n, kind) ==
  LET i == B[n].request
      id == Reference(g, B, n, "id").uri
      old == g.live[id].body IN
  IF ~Reference(g, B, n, "id").bound \/ id \notin DOMAIN g.live THEN "resource-not-found"
  ELSE IF g.live[id].kind # kind THEN "resource-not-found"
  ELSE IF ~GuardHolds(g, i, id) THEN "revision-mismatch"
  ELSE IF VerbOf(i.op) = "delete"
  THEN IF kind = "bead" /\ Incidents(g, id) # {} THEN "incident-links-exist" ELSE "none"
  ELSE IF i.data \in Oversize THEN "limit-exceeded"
  ELSE IF Edit[i.data][old.data] = Invalid THEN "validation-failed"
  ELSE IF ~EndpointsBound(g, B, n) THEN "resource-not-found"
  ELSE EndpointCode(g, kind, Staged(g, B, n, old, Edit[i.data][old.data]))

\* One member.  chosen is the address the server draws for one without a name;
\* None when it draws none that is free.
Member(g, B, n, chosen) ==
  LET i == B[n].request
      kind == KindOf(i.op)
      drawn == Creates(B, n) /\ i.id = None
      id == IF drawn THEN chosen[n] ELSE IF Creates(B, n) THEN i.id
            ELSE Reference(g, B, n, "id").uri
      fresh == Staged(g, B, n, Body(0, None, None, None), i.data)
      code == IF i.refused THEN "validation-failed"
              ELSE IF drawn /\ id = None THEN "temporarily-unavailable"
              ELSE IF Creates(B, n) THEN CreateCode(g, B, n, id, fresh)
              ELSE ChangeCode(g, B, n, kind)
      live == CASE VerbOf(i.op) = "create" -> Put(g.live, id, [kind |-> kind, body |-> fresh])
                [] VerbOf(i.op) = "delete" -> Drop(g.live, id)
                [] OTHER -> LET old == g.live[id].body IN
                     Put(g.live, id, [kind |-> kind,
                       body |-> Staged(g, B, n, old, Edit[i.data][old.data])]) IN
  IF g.code # "none" THEN g
  ELSE IF code # "none" THEN [g EXCEPT !.code = code]
  ELSE [live |-> live, ids |-> Append(g.ids, id), code |-> "none",
        allocated |-> g.allocated \cup IF Creates(B, n) THEN {id} ELSE {}]

\* The graph after each of the members.
Graphs(B, chosen) ==
  LET graph[n \in 0..Len(B)] ==
        IF n = 0 THEN InitialGraph ELSE Member(graph[n - 1], B, n, chosen) IN
  graph

WorkingGraph(B, chosen) == Graphs(B, chosen)[Len(B)]
-----------------------------------------------------------------------------
(* What is left of the members. *)

Outcome(g, id) ==
  IF id \notin DOMAIN g.live
  THEN IF id \in DOMAIN resources THEN "deleted" ELSE "allocated"
  ELSE IF id \notin DOMAIN resources THEN "created"
  ELSE IF g.live[id].body = resources[id] THEN "unchanged" ELSE "updated"

\* The addresses in S, in the order of their text.
InOrder(S) ==
  LET some[n \in 0..Len(Order)] ==
        IF n = 0 THEN <<>>
        ELSE IF Order[n] \in S THEN Append(some[n - 1], Order[n]) ELSE some[n - 1] IN
  some[Len(Order)]

TouchedIds(g) == {g.ids[n] : n \in 1..Len(g.ids)}
Touched(g) == InOrder(TouchedIds(g))

\* The Resources of which a version begins or ends: each has one event.
Effects(g) ==
  InOrder({id \in TouchedIds(g) : Outcome(g, id) \in {"created", "updated", "deleted"}})

Position(g, id) ==
  Len(events) + (CHOOSE n \in 1..Len(Effects(g)) : Effects(g)[n] = id)

Published(g, id) ==
  CASE Outcome(g, id) \in {"created", "updated"} ->
         [g.live[id].body EXCEPT !.revision = Position(g, id)]
    [] Outcome(g, id) = "allocated" -> None
    [] OTHER -> resources[id]

\* Attributions of one new version that contradict each other.
Conflict(g, B) ==
  \E m, n \in 1..Len(B) :
    /\ g.ids[m] = g.ids[n] /\ Outcome(g, g.ids[m]) \in {"created", "updated"}
    /\ B[m].provenance # None /\ B[n].provenance # None
    /\ B[m].provenance # B[n].provenance

TooLarge(g) ==
  \E n \in 1..Len(g.ids) : Outcome(g, g.ids[n]) \in {"created", "updated"}
                             /\ g.live[g.ids[n]].body.data \in Oversize

BatchCode(B, g) ==
  IF Len(B) > MaximumOperations THEN "limit-exceeded"
  ELSE IF g.code # "none" THEN g.code
  ELSE IF Conflict(g, B) THEN "validation-failed"
  ELSE IF TooLarge(g) THEN "limit-exceeded"
  ELSE "none"

KindAfter(g, id, B) == KindOf(B[CHOOSE n \in 1..Len(B) : g.ids[n] = id].request.op)

Row(g, id, B) ==
  [id |-> id, kind |-> KindAfter(g, id, B), outcome |-> Outcome(g, id),
   body |-> Published(g, id)]

\* Mutant: a Link's event concerns only the Beads it joins now.
BatchEvent_after(g, id, B) ==
  LET kind == KindAfter(g, id, B) IN
  [subject |-> id, kind |-> kind,
   verb |-> CASE Outcome(g, id) = "created" -> "create"
              [] Outcome(g, id) = "updated" -> "update" [] OTHER -> "delete",
   revision |-> Published(g, id).revision, body |-> Published(g, id),
   previous |-> IF Outcome(g, id) = "updated" THEN resources[id].revision ELSE 0,
   incident |-> IF kind = "link" /\ Outcome(g, id) # "deleted"
                THEN LocalEndpoints(Published(g, id)) ELSE {}]

BatchEvent(g, id, B) ==
  LET verb == CASE Outcome(g, id) = "created" -> "create"
                [] Outcome(g, id) = "updated" -> "update" [] OTHER -> "delete" IN
  [subject |-> id, kind |-> KindAfter(g, id, B), verb |-> verb,
   revision |-> Published(g, id).revision, body |-> Published(g, id),
   previous |-> IF verb = "update" THEN resources[id].revision ELSE 0,
   incident |-> Incident(KindAfter(g, id, B), verb, id, Published(g, id))]
-----------------------------------------------------------------------------
(* The steps. *)

BatchRow(p, k, B, response, facts) ==
  outcomes' = Append(outcomes,
    [principal |-> p, key |-> k, op |-> "batch", identity |-> BatchIdentity(B, BatchWitnesses(B)),
     witnesses |-> BatchWitnesses(B), response |-> response, facts |-> facts,
     position |-> IF facts = {} THEN 0 ELSE Len(events) + 1, request |-> B])

Publish(p, k, B, g) ==
  LET n == Len(Effects(g)) IN
  /\ identities' = [id \in DOMAIN identities \cup g.allocated |->
       IF id \in g.allocated THEN KindAfter(g, id, B) ELSE identities[id]]
  /\ resources' = [id \in DOMAIN g.live |->
       IF id \in TouchedIds(g) THEN Published(g, id) ELSE resources[id]]
  /\ events' = events \o [m \in 1..n |-> BatchEvent(g, Effects(g)[m], B)]
  /\ BatchRow(p, k, B,
       [result |-> "applied", ids |-> g.ids,
        rows |-> [m \in 1..Len(Touched(g)) |-> Row(g, Touched(g)[m], B)]],
       (Len(events) + 1)..(Len(events) + n))
  /\ UNCHANGED <<aliases, versions>>

\* The addresses the server may draw: free ones, each once.
Drawn(B) ==
  LET nameless == {n \in 1..Len(B) : Creates(B, n) /\ B[n].request.id = None} IN
  {f \in [nameless -> (Unused \ Explicit(B, Len(B) + 1)) \cup {None}] :
     \A m, n \in nameless : f[m] = f[n] => m = n \/ f[m] = None}

ApplyBatch(p, k, B) ==
  /\ mode = "open"
  /\ Len(outcomes) < MaxDecisions
  /\ Claim(p, k) = {}
  /\ \E chosen \in Drawn(B) :
     LET g == WorkingGraph(B, chosen) IN
       \/ BatchCode(B, g) = "none" /\ Publish(p, k, B, g)
       \/ /\ BatchCode(B, g) # "none"
          /\ BatchRow(p, k, B, Refusal(BatchCode(B, g)), {})
          /\ UNCHANGED <<identities, resources, aliases, events, versions>>
  /\ Committed(p, k)

SameBatch(B, o) == o.op = "batch" /\ BatchIdentity(B, o.witnesses) = o.identity

\* A known key: the stored answer, with the labels of this request.
ReplayBatch(p, k, B) ==
  /\ mode = "open"
  /\ \E d \in Claim(p, k) :
       /\ SameBatch(B, outcomes[d])
       /\ acked' = acked \cup
            {[principal |-> p, key |-> k, response |-> outcomes[d].response]}
  /\ UNCHANGED <<tables, mode, faults>>
=============================================================================
