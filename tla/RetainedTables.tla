---------------------------- MODULE RetainedTables ----------------------------
(***************************************************************************)
(* The durable tables of the retained reference store                      *)
(* (packages/server/src/retained-v01/store.ts) and the reading of alias    *)
(* References against them (alias-witness.ts, reference-comparison.ts).    *)
(*                                                                         *)
(* A table keyed by a URI is a function whose domain is the set of its     *)
(* keys; a table keyed by a dense position is a sequence.  A revision is a *)
(* random UUID in the code; here it is the position of the event that      *)
(* introduced it, which is as fresh, and 0 stands for an absent revision.  *)
(***************************************************************************)
EXTENDS Naturals, Sequences, FiniteSets

CONSTANTS
  Uris,            \* canonical in-Scope URIs that requests can name
  External,        \* URIs outside the Scope, admitted as Link endpoints
  AliasNamespace,  \* the Uris an alias locator may use
  Reserved,        \* the Uris of the service's own navigation
  Values,          \* Resource documents: properties and metadata together
  Changes,         \* edits of a document, replacement included
  Edit,            \* Edit[c][v]: document v under edit c, or Invalid
  Invalid,         \* the edit does not apply to the document
  Oversize,        \* edits and documents beyond the size limits
  Principals, Keys,\* whose invocation it is, and its idempotency key
  Invocations,     \* the prepared requests that are submitted
  Historical,      \* store format 7 (historicalUpdate) instead of format 5
  None             \* an absent value

Kinds == {"bead", "link"}
Operations == {"createBead", "updateBead", "deleteBead", "createLink",
               "updateLink", "deleteLink", "putAlias", "deleteAlias"}

(***************************************************************************)
(* A prepared request.  id is the Resource or alias the request names      *)
(* (None: the server chooses), source and target a Link's endpoints or     *)
(* target an alias's, data the new document or the edit, expected the      *)
(* revision guard, from the historical source version, and refused says    *)
(* that preparation rejected its numbers.                                  *)
(***************************************************************************)
Invocation ==
  [op : Operations, id : Uris \cup {None},
   source : Uris \cup External \cup {None},
   target : Uris \cup External \cup {None},
   data : Values \cup Changes \cup {None},
   expected : Nat, from : Nat, refused : BOOLEAN]

ASSUME UrisAssumption ==
  /\ AliasNamespace \subseteq Uris
  /\ Reserved \subseteq Uris
  /\ None \notin Uris \cup External \cup Values \cup Changes
  /\ Uris \cap External = {}

ASSUME ValuesAssumption ==
  /\ Edit \in [Changes -> [Values -> Values \cup {Invalid}]]
  /\ Invalid \notin Values
  /\ Historical \in BOOLEAN

ASSUME InvocationsAssumption ==
  /\ Invocations \subseteq Invocation
  /\ \A i \in Invocations :
       /\ i.op # "createBead" /\ i.op # "createLink" => i.id # None
       /\ i.op \in {"createBead", "createLink"} => i.data \in Values /\ i.expected = 0
       /\ i.op \in {"updateBead", "updateLink"} => i.data \in Changes
       /\ i.op = "createLink" => i.source # None /\ i.target # None
       /\ i.op = "putAlias" => i.target # None
       /\ i.from # 0 => i.op = "updateBead"

VARIABLES
  identities,  \* URI -> kind, never deleted from
  resources,   \* URI -> current body, of the live Resources
  aliases,     \* locator -> target
  events,      \* the lifecycle facts, by position (with their incidence)
  versions,    \* format 7: the retained versions of every Bead
  outcomes     \* the decisions, by decision number

tables == <<identities, resources, aliases, events, versions, outcomes>>

Put(f, k, v) == [x \in DOMAIN f \cup {k} |-> IF x = k THEN v ELSE f[x]]
Drop(f, k) == [x \in DOMAIN f \ {k} |-> f[x]]

\* The row with the highest position, 0 when there is none.
Last(S) == IF S = {} THEN 0 ELSE CHOOSE n \in S : \A m \in S : m <= n

IsLive(id, kind) == id \in DOMAIN resources /\ identities[id] = kind

LocalEndpoints(body) == {body.source, body.target} \cap Uris

-----------------------------------------------------------------------------
(* Alias References. *)

\* A locator that is a Resource or the service's own is never an alias, even
\* inside the namespace; outside the namespace a URI stands for itself.
IsDirect(uri) ==
  \/ uri \in DOMAIN identities \cup Reserved
  \/ uri \notin DOMAIN aliases \cup AliasNamespace

AliasTarget(uri) == IF uri \in DOMAIN aliases THEN aliases[uri] ELSE None

\* The request fields an alias may stand in for.
Slots(i) ==
  CASE i.op \in {"updateBead", "deleteBead"} -> {"id"}
    [] i.op \in {"createLink", "updateLink"} ->
         {s \in {"source", "target"} : i[s] # None}
    [] OTHER -> {}

\* Mutant: every Reference is stored, looked up in the alias table or not.
Witnesses_all(i) == [uri \in {i[s] : s \in Slots(i)} |-> AliasTarget(uri)]

\* What is stored with a new decision: every locator that went through the
\* alias table, with the target it had (None when it had none).
Witnesses(i) ==
  [uri \in {i[s] : s \in Slots(i)} \ {u \in Uris \cup External : IsDirect(u)}
     |-> AliasTarget(uri)]

Bound(uri) == [bound |-> TRUE, uri |-> uri]
Missing(uri) == [bound |-> FALSE, uri |-> uri]

\* Mutant: a retry is compared under the current alias table.
Resolve_current(uri, witnesses) ==
  IF IsDirect(uri) THEN Bound(uri)
  ELSE IF AliasTarget(uri) = None THEN Missing(uri) ELSE Bound(AliasTarget(uri))

\* A Reference under stored witnesses, which win over the current table.
Resolve(uri, witnesses) ==
  IF uri \in DOMAIN witnesses
  THEN IF witnesses[uri] = None THEN Missing(uri) ELSE Bound(witnesses[uri])
  ELSE IF IsDirect(uri) THEN Bound(uri)
  ELSE IF AliasTarget(uri) = None THEN Missing(uri) ELSE Bound(AliasTarget(uri))

\* The semantic identity of an invocation: the request with its alias
\* References replaced by what they resolve to.
Identity(i, witnesses) ==
  [request |-> [f \in DOMAIN i \ Slots(i) |-> i[f]],
   slots |-> [s \in Slots(i) |-> Resolve(i[s], witnesses)]]
-----------------------------------------------------------------------------
(***************************************************************************)
(* The consistency check a retained store passes before it opens           *)
(* (verifySingletonRecovery of retained-v01/recovery.ts).  The code        *)
(* replays the events, then the decisions, with maps for the state reached *)
(* so far; here the state after the first n rows is a function of n, and   *)
(* each row is judged against the state just before it.                    *)
(***************************************************************************)

(* The replayed event chain. *)

LastEvent(id, n) == Last({q \in 1..n : events[q].subject = id})

LiveAt(id, n) == LastEvent(id, n) # 0 /\ events[LastEvent(id, n)].verb # "delete"
GoneAt(id, n) == LastEvent(id, n) # 0 /\ events[LastEvent(id, n)].verb = "delete"

BodyAt(id, n) == events[LastEvent(id, n)].body
KindAt(id, n) == events[LastEvent(id, n)].kind

IncidentLinkAt(id, n) ==
  \E link \in DOMAIN identities :
    LiveAt(link, n) /\ KindAt(link, n) = "link"
      /\ id \in {BodyAt(link, n).source, BodyAt(link, n).target}

AdmissibleEndpointsAt(body, n) ==
  /\ LocalEndpoints(body) # {}
  /\ \A uri \in LocalEndpoints(body) : LiveAt(uri, n) /\ KindAt(uri, n) = "bead"

RevisionsAt(id, n) == {events[q].revision : q \in {q \in 1..n : events[q].subject = id}}

\* Only a Bead of a format 7 store has version rows, and an event of it has one.
VersionOf(n, v) ==
  LET e == events[n] IN
  /\ v.position = n
  /\ v.id = e.subject
  /\ v.state = IF e.verb = "delete" THEN "deleted" ELSE "live"
  /\ v.revision = e.revision
  /\ IF e.verb = "delete"
     THEN v.body = None /\ v.from = 0 /\ v.previous = e.previous
     ELSE v.body = e.body

\* A selected historical source is an earlier live version of the same Bead.
VersionContext(n, v) ==
  LET e == events[n] IN
  v.from # 0 =>
    /\ e.verb = "update"
    /\ \E q \in 1..(n - 1) :
         events[q].subject = e.subject /\ events[q].verb # "delete"
           /\ events[q].revision = v.from
    /\ v.previous = events[LastEvent(e.subject, n - 1)].revision

VerifiedVersion(n) ==
  LET rows == {v \in versions : v.position = n} IN
  IF Historical /\ events[n].kind = "bead"
  THEN \E v \in rows :
         /\ rows = {v}
         /\ VersionOf(n, v)
         /\ VersionContext(n, v)
         /\ events[n].verb # "delete" /\ GoneAt(events[n].subject, n - 1) => v.from # 0
  ELSE rows = {}

VerifiedDeletion(n) ==
  LET e == events[n]
      last == BodyAt(e.subject, n - 1)
      terminal == Historical /\ e.kind = "bead" IN
  /\ LiveAt(e.subject, n - 1) /\ KindAt(e.subject, n - 1) = e.kind
  /\ e.body = last
  /\ IF terminal
     THEN e.previous = last.revision /\ e.revision \notin RevisionsAt(e.subject, n - 1)
     ELSE e.previous = 0 /\ e.revision = last.revision
  /\ e.kind = "bead" => ~IncidentLinkAt(e.subject, n - 1)

VerifiedPostimage(n) ==
  LET e == events[n]
      last == LastEvent(e.subject, n - 1) IN
  /\ GoneAt(e.subject, n - 1) => Historical /\ e.kind = "bead"
  /\ e.verb = IF last = 0 THEN "create" ELSE "update"
  /\ last # 0 => events[last].kind = e.kind
  /\ e.revision = e.body.revision
  /\ e.previous = IF last = 0 THEN 0 ELSE events[last].revision
  /\ e.revision \notin RevisionsAt(e.subject, n - 1)
  /\ e.kind = "link" => AdmissibleEndpointsAt(e.body, n - 1)

\* The Beads an event is incident to: the endpoints of the Link it changes,
\* before and after the change.
IncidenceAt(n) ==
  LET e == events[n] IN
  IF e.kind # "link" THEN {}
  ELSE (IF LiveAt(e.subject, n - 1) THEN LocalEndpoints(BodyAt(e.subject, n - 1)) ELSE {})
         \cup (IF e.verb = "delete" THEN {} ELSE LocalEndpoints(e.body))

ResultOf(verb) ==
  CASE verb = "create" -> "created" [] verb = "update" -> "updated" [] OTHER -> "deleted"

OperationOf(verb, kind) ==
  CASE kind = "bead" /\ verb = "create" -> "createBead"
    [] kind = "bead" /\ verb = "update" -> "updateBead"
    [] kind = "bead" /\ verb = "delete" -> "deleteBead"
    [] kind = "link" /\ verb = "create" -> "createLink"
    [] kind = "link" /\ verb = "update" -> "updateLink"
    [] OTHER -> "deleteLink"

VerifiedTransition(n) ==
  LET e == events[n] IN
  \E d \in 1..Len(outcomes) :
    LET o == outcomes[d] IN
    /\ o.position = n
    /\ o.op = OperationOf(e.verb, e.kind)
    /\ o.response.result = ResultOf(e.verb)
    /\ o.response.id = e.subject
    /\ o.response.body = e.body
    /\ \A v \in versions : v.position = n /\ e.verb # "delete" => o.response.from = v.from

VerifiedEvent(n) ==
  /\ VerifiedVersion(n)
  /\ IF events[n].verb = "delete" THEN VerifiedDeletion(n) ELSE VerifiedPostimage(n)
  /\ events[n].incident = IncidenceAt(n)
  /\ VerifiedTransition(n)

\* The current tables are the final state of the chain.
VerifiedCurrent ==
  LET n == Len(events)
      touched == {events[q].subject : q \in 1..n} IN
  /\ DOMAIN identities = touched
  /\ DOMAIN resources = {id \in touched : LiveAt(id, n)}
  /\ \A id \in DOMAIN resources : resources[id] = BodyAt(id, n)
  /\ \A id \in touched : identities[id] = KindAt(id, n)
  /\ \A v \in versions : v.position \in 1..n
-----------------------------------------------------------------------------
(* The replayed decisions. *)

Succeeded(d) == outcomes[d].response.result \in {"created", "updated", "unchanged", "deleted"}

LastAlias(locator, d) ==
  Last({c \in 1..d : outcomes[c].op \in {"putAlias", "deleteAlias"}
                       /\ Succeeded(c) /\ outcomes[c].response.id = locator})

AliasedAt(locator, d) ==
  LastAlias(locator, d) # 0 /\ outcomes[LastAlias(locator, d)].op = "putAlias"

TargetAt(locator, d) == outcomes[LastAlias(locator, d)].response.target

\* The number of transitions the first d decisions made.
TransitionsAt(d) == Cardinality({c \in 1..d : outcomes[c].position # 0})

CreatedAt(id, d) ==
  \E c \in 1..d : outcomes[c].op \in {"createBead", "createLink"}
                    /\ Succeeded(c) /\ outcomes[c].response.id = id

VerifiedWitnesses(d) ==
  LET o == outcomes[d] IN
  /\ Cardinality(DOMAIN o.witnesses) <=
       CASE o.op \in {"createBead", "deleteLink", "putAlias", "deleteAlias"} -> 0
         [] o.op \in {"updateBead", "deleteBead"} -> 1
         [] OTHER -> 2
  /\ \A uri \in DOMAIN o.witnesses :
       /\ uri \in AliasNamespace \ Reserved
       /\ ~CreatedAt(uri, d - 1)
       /\ IF o.witnesses[uri] = None THEN ~AliasedAt(uri, d - 1)
          ELSE /\ AliasedAt(uri, d - 1)
               /\ TargetAt(uri, d - 1) = o.witnesses[uri]
               /\ CreatedAt(o.witnesses[uri], d - 1)
               /\ KindAt(o.witnesses[uri], TransitionsAt(d - 1)) = "bead"

VerifiedAliasDecision(d) ==
  LET r == outcomes[d].response
      before == TransitionsAt(d - 1) IN
  /\ DOMAIN outcomes[d].witnesses = {}
  /\ outcomes[d].position = 0
  /\ r.id \in AliasNamespace \ Reserved
  /\ IF outcomes[d].op = "putAlias"
     THEN /\ ~CreatedAt(r.id, d - 1)
          /\ LiveAt(r.target, before) /\ KindAt(r.target, before) = "bead"
          /\ ~AliasedAt(r.target, d - 1)
          /\ r.result = IF AliasedAt(r.id, d - 1) THEN "updated" ELSE "created"
     ELSE AliasedAt(r.id, d - 1) /\ r.result = "deleted"

\* Format 7: what a historical update reports is what its version row retained.
VerifiedHistorical(d) ==
  LET o == outcomes[d]
      r == o.response
      before == TransitionsAt(d - 1)
      from == o.identity.request.from
      guard == o.identity.request.expected IN
  Historical /\ o.op = "updateBead" /\ from # 0 =>
    /\ \E q \in 1..before : events[q].subject = r.id /\ events[q].verb # "delete"
                              /\ events[q].revision = from
    /\ \E v \in versions :
         /\ v.id = r.id /\ v.revision = r.body.revision /\ v.state = "live"
         /\ r.from = v.from /\ r.previous = v.previous
    /\ IF o.position # 0
       THEN r.from = from /\ guard \in {0, r.previous}
       ELSE guard \in {0, BodyAt(r.id, before).revision}

VerifiedResourceDecision(d) ==
  LET o == outcomes[d]
      r == o.response
      before == TransitionsAt(d - 1)
      kind == IF o.op \in {"createBead", "updateBead", "deleteBead"} THEN "bead" ELSE "link" IN
  /\ VerifiedHistorical(d)
  /\ r.result # "unchanged" => o.position = before + 1
  /\ CASE r.result = "created" ->
            /\ o.op = OperationOf("create", kind)
            /\ ~LiveAt(r.id, before) /\ ~CreatedAt(r.id, d - 1)
            /\ ~AliasedAt(r.id, d - 1)
       [] r.result = "updated" ->
            /\ o.op = OperationOf("update", kind)
            /\ \/ LiveAt(r.id, before) /\ KindAt(r.id, before) = kind
               \/ Historical /\ kind = "bead" /\ r.from # 0 /\ CreatedAt(r.id, d - 1)
       [] r.result = "unchanged" ->
            /\ o.op = OperationOf("update", kind)
            /\ o.position = 0
            /\ LiveAt(r.id, before) /\ KindAt(r.id, before) = kind
            /\ r.body = BodyAt(r.id, before)
       [] OTHER ->
            /\ o.op = OperationOf("delete", kind)
            /\ LiveAt(r.id, before) /\ r.body = BodyAt(r.id, before)

VerifiedDecision(d) ==
  /\ outcomes[d].op = outcomes[d].identity.request.op
  /\ VerifiedWitnesses(d)
  /\ IF ~Succeeded(d) THEN outcomes[d].position = 0
     ELSE IF outcomes[d].op \in {"putAlias", "deleteAlias"} THEN VerifiedAliasDecision(d)
     ELSE VerifiedResourceDecision(d)

VerifiedAliases ==
  LET d == Len(outcomes) IN
  /\ \A uri \in Uris : uri \in DOMAIN aliases <=> AliasedAt(uri, d)
  /\ \A uri \in DOMAIN aliases : aliases[uri] = TargetAt(uri, d) /\ ~CreatedAt(uri, d)

\* What openPrivateRetainedStore demands of the tables before it serves.
VerifySingletonRecovery ==
  /\ \A n \in 1..Len(events) : VerifiedEvent(n)
  /\ VerifiedCurrent
  /\ \A d \in 1..Len(outcomes) : VerifiedDecision(d)
  /\ VerifiedAliases
  /\ TransitionsAt(Len(outcomes)) = Len(events)
===============================================================================
