-------------------------- MODULE RetainedStore_proofs --------------------------
(***************************************************************************)
(* Proofs about the retained store, for every set of addresses, requests   *)
(* and keys and both store formats.                                        *)
(*                                                                         *)
(* A decided request changes the tables in one of six ways (TableStep); a  *)
(* lemma per way shows what it preserves, so that the invariants do not    *)
(* return to the requests.  The recovery check is last, with what it reads *)
(* of the log: an invariant per part, and one lemma for the decisions that *)
(* make a transition and one for those that make none.                     *)
(***************************************************************************)
EXTENDS RetainedStore, FiniteSetTheorems, TLAPS

(* Where addresses may stand. *)
Placed ==
  /\ DOMAIN identities \subseteq Uris
  /\ \A id \in DOMAIN identities : identities[id] \in Kinds
  /\ DOMAIN resources \subseteq DOMAIN identities
  /\ DOMAIN aliases \subseteq AliasNamespace \ Reserved
  /\ DOMAIN aliases \cap DOMAIN identities = {}
  /\ \A uri \in DOMAIN aliases :
       aliases[uri] \in DOMAIN identities /\ identities[aliases[uri]] = "bead"
  /\ \A v \in versions : v.id \in DOMAIN identities /\ identities[v.id] = "bead"

(* A Reference that had no alias when its decision was taken never will. *)
NeverAlias(uri) == uri \in DOMAIN identities \cup Reserved \/ uri \notin AliasNamespace

Stored(uri, witnesses) ==
  IF uri \notin DOMAIN witnesses THEN Bound(uri)
  ELSE IF witnesses[uri] = None THEN Missing(uri) ELSE Bound(witnesses[uri])

Settled(o) ==
  /\ o.op = o.request.op
  /\ o.identity =
       [request |-> [f \in DOMAIN o.request \ Slots(o.request) |-> o.request[f]],
        slots |-> [s \in Slots(o.request) |-> Stored(o.request[s], o.witnesses)]]
  /\ \A s \in Slots(o.request) :
       o.request[s] \notin DOMAIN o.witnesses => NeverAlias(o.request[s])

IsSequence(s) == \E S : s \in Seq(S)

SettledAll ==
  /\ IsSequence(outcomes)
  /\ \A d \in 1..Len(outcomes) : Settled(outcomes[d])

IInv == Placed /\ LinkEndpointsLive /\ SettledAll /\ IsSequence(events)
-----------------------------------------------------------------------------
(* The ways a decision changes the tables. *)

VersionStep(id, kind) == \A v \in versions' : v \in versions \/ (v.id = id /\ kind = "bead")

KeepStep == UNCHANGED <<identities, resources, aliases, versions>>

CreateStep ==
  \E id \in Uris, kind \in Kinds : \E body :
    /\ id \notin DOMAIN identities \cup DOMAIN aliases
    /\ EndpointRefusal(kind, body) = "none"
    /\ identities' = Put(identities, id, kind)
    /\ resources' = Put(resources, id, body)
    /\ aliases' = aliases
    /\ VersionStep(id, kind)

UpdateStep ==
  \E id \in DOMAIN identities : \E body :
    /\ EndpointRefusal(identities[id], body) = "none"
    /\ identities' = identities
    /\ resources' = Put(resources, id, body)
    /\ aliases' = aliases
    /\ VersionStep(id, identities[id])

DeleteStep ==
  \E id \in DOMAIN resources :
    /\ identities[id] = "bead" => IncidentLinks(id) = {}
    /\ identities' = identities
    /\ resources' = Drop(resources, id)
    /\ aliases' = aliases
    /\ VersionStep(id, identities[id])

AliasStep ==
  \E uri \in AliasNamespace \ Reserved, target \in DOMAIN resources :
    /\ uri \notin DOMAIN identities
    /\ identities[target] = "bead"
    /\ aliases' = Put(aliases, uri, target)
    /\ UNCHANGED <<identities, resources, versions>>

UnaliasStep ==
  \E uri : aliases' = Drop(aliases, uri) /\ UNCHANGED <<identities, resources, versions>>

TableStep == KeepStep \/ CreateStep \/ UpdateStep \/ DeleteStep \/ AliasStep \/ UnaliasStep

EventStep == events' = events \/ (\E e : events' = Append(events, e))

Decided(p, k, i) ==
  EventStep /\ (\E response, position : Decide(p, k, i, response, position))

LEMMA AppendFacts ==
  ASSUME NEW s, IsSequence(s), NEW e
  PROVE  /\ IsSequence(Append(s, e))
         /\ Len(s) \in Nat
         /\ Len(Append(s, e)) = Len(s) + 1
         /\ \A n \in 1..Len(s) : Append(s, e)[n] = s[n]
         /\ Append(s, e)[Len(s) + 1] = e
<1>1. PICK S : s \in Seq(S)
  BY DEF IsSequence
<1>2. s \in Seq(S \cup {e}) /\ e \in S \cup {e}
  BY <1>1
<1>3. Append(s, e) \in Seq(S \cup {e})
  BY <1>2
<1> QED BY <1>2, <1>3 DEF IsSequence

(* Completing a transition is a create, update or delete step. *)
LEMMA CompleteVersions ==
  ASSUME NEW p, NEW k, NEW i, NEW kind, NEW verb, NEW id, NEW body, NEW from, NEW previous,
         Complete(p, k, i, kind, verb, id, body, from, previous)
  PROVE  VersionStep(id, kind) /\ Decided(p, k, i) /\ aliases' = aliases
BY DEF Complete, VersionStep, Decided, EventStep

LEMMA CreateEffect ==
  ASSUME NEW p, NEW k, NEW i \in Invocations, NEW kind \in Kinds, NEW source, NEW target,
         PerformCreate(p, k, i, kind, source, target),
         i.op \in {"createBead", "createLink"}
  PROVE  TableStep /\ Decided(p, k, i)
<1> DEFINE body == Body(Revision, i.data, source, target)
<1>1. PICK id \in IF i.id = None THEN Unused ELSE {i.id} :
        \/ Refuse(p, k, i, CreateRefusal(i, kind, id, body))
        \/ CreateRefusal(i, kind, id, body) = "none"
             /\ Complete(p, k, i, kind, "create", id, body, 0, 0)
  BY Zenon DEF PerformCreate
<1>2. CASE Refuse(p, k, i, CreateRefusal(i, kind, id, body))
  BY <1>2 DEF Refuse, TableStep, KeepStep, Decided, EventStep
<1>3. CASE CreateRefusal(i, kind, id, body) = "none"
             /\ Complete(p, k, i, kind, "create", id, body, 0, 0)
  <2>1. id \in Uris
    BY InvocationsAssumption DEF Unused, Invocation
  <2>2. id \notin DOMAIN identities \cup DOMAIN aliases /\ EndpointRefusal(kind, body) = "none"
    BY <1>3 DEF CreateRefusal
  <2>3. identities' = Put(identities, id, kind) /\ resources' = Put(resources, id, body)
    BY <1>3 DEF Complete
  <2>4. VersionStep(id, kind) /\ Decided(p, k, i) /\ aliases' = aliases
    BY <1>3, CompleteVersions
  <2>5. CreateStep
    BY <2>1, <2>2, <2>3, <2>4 DEF CreateStep
  <2> QED BY <2>4, <2>5 DEF TableStep
<1> QED BY <1>1, <1>2, <1>3

LEMMA UpdateEffect ==
  ASSUME Placed, NEW p, NEW k, NEW i \in Invocations, NEW kind \in Kinds, NEW id,
         NEW source, NEW target, i.from # 0 => kind = "bead",
         PerformUpdate(p, k, i, kind, id, source, target)
  PROVE  TableStep /\ Decided(p, k, i)
<1> DEFINE refusal == UpdateRefusal(i, kind, id, source, target)
           next == Candidate(i, kind, id, source, target)
           body == [next EXCEPT !.revision = Revision]
<1>1. CASE \E code : Refuse(p, k, i, code)
  BY <1>1 DEF Refuse, TableStep, KeepStep, Decided, EventStep
<1>2. CASE Unchanged(p, k, i, kind, id)
  BY <1>2 DEF Unchanged, TableStep, KeepStep, Decided, EventStep
<1>3. CASE refusal = "none"
             /\ Complete(p, k, i, kind, "update", id, body, i.from, Predecessor(i, kind, id))
  <2>1. IsLive(id, kind) \/ Recovering(i, kind, id)
    BY <1>3 DEF UpdateRefusal
  <2>2. id \in DOMAIN identities /\ identities[id] = kind
    <3>1. CASE IsLive(id, kind)
      BY <3>1 DEF IsLive, Placed
    <3>2. CASE Recovering(i, kind, id)
      <4>1. PICK v \in versions : v.id = id
        BY <3>2 DEF Recovering, VersionRows
      <4> QED BY <3>2, <4>1 DEF Recovering, Placed
    <3> QED BY <2>1, <3>1, <3>2
  <2>3. EndpointRefusal(kind, next) = "none"
    BY <1>3 DEF UpdateRefusal
  <2>4. body.source = next.source /\ body.target = next.target
    BY DEF Candidate, Body
  <2>5. EndpointRefusal(kind, body) = "none"
    BY <2>3, <2>4 DEF EndpointRefusal, LocalEndpoints
  <2>6. identities' = identities /\ resources' = Put(resources, id, body)
    BY <1>3 DEF Complete
  <2>7. VersionStep(id, kind) /\ Decided(p, k, i) /\ aliases' = aliases
    BY <1>3, CompleteVersions
  <2>8. UpdateStep
    BY <2>2, <2>5, <2>6, <2>7 DEF UpdateStep
  <2> QED BY <2>7, <2>8 DEF TableStep
<1> QED BY <1>1, <1>2, <1>3, Zenon DEF PerformUpdate

LEMMA DeleteEffect ==
  ASSUME NEW p, NEW k, NEW i \in Invocations, NEW kind \in Kinds, NEW id,
         PerformDelete(p, k, i, kind, id)
  PROVE  TableStep /\ Decided(p, k, i)
<1>1. CASE Refuse(p, k, i, DeleteRefusal(i, kind, id))
  BY <1>1 DEF Refuse, TableStep, KeepStep, Decided, EventStep
<1>2. CASE DeleteRefusal(i, kind, id) = "none"
             /\ Complete(p, k, i, kind, "delete", id, resources[id], 0, resources[id].revision)
  <2>1. IsLive(id, kind) /\ (kind = "bead" => IncidentLinks(id) = {})
    BY <1>2 DEF DeleteRefusal
  <2>2. identities' = identities /\ resources' = Drop(resources, id)
    BY <1>2 DEF Complete
  <2>3. VersionStep(id, kind) /\ Decided(p, k, i) /\ aliases' = aliases
    BY <1>2, CompleteVersions
  <2>4. DeleteStep
    BY <2>1, <2>2, <2>3 DEF DeleteStep, IsLive
  <2> QED BY <2>3, <2>4 DEF TableStep
<1> QED BY <1>1, <1>2 DEF PerformDelete

LEMMA ExecuteEffect ==
  ASSUME Placed, NEW p, NEW k, NEW i \in Invocations, Execute(p, k, i)
  PROVE  TableStep /\ Decided(p, k, i)
<1>0. ASSUME NEW code, Refuse(p, k, i, code) PROVE TableStep /\ Decided(p, k, i)
  BY <1>0 DEF Refuse, TableStep, KeepStep, Decided, EventStep
<1>a. i.from # 0 => i.op = "updateBead"
  BY InvocationsAssumption
<1>1. CASE CreateBead(p, k, i)
  BY <1>0, <1>1, CreateEffect DEF CreateBead, Kinds
<1>2. CASE UpdateBead(p, k, i)
  BY <1>0, <1>2, UpdateEffect DEF UpdateBead, Kinds
<1>3. CASE DeleteBead(p, k, i)
  BY <1>0, <1>3, DeleteEffect DEF DeleteBead, Kinds
<1>4. CASE CreateLink(p, k, i)
  BY <1>0, <1>4, CreateEffect DEF CreateLink, LinkRefused, Kinds
<1>5. CASE UpdateLink(p, k, i)
  BY <1>0, <1>5, <1>a, UpdateEffect DEF UpdateLink, LinkRefused, Kinds
<1>6. CASE DeleteLink(p, k, i)
  BY <1>0, <1>6, DeleteEffect DEF DeleteLink, Kinds
<1>7. CASE PutAlias(p, k, i)
  <2>1. CASE Refuse(p, k, i, PutAliasRefusal(i))
    BY <2>1, <1>0
  <2>2. CASE PutAliasRefusal(i) = "none" /\ ~Refuse(p, k, i, PutAliasRefusal(i))
    <3>1. i.id \in AliasNamespace \ Reserved /\ i.id \notin DOMAIN identities
            /\ i.target \in DOMAIN resources /\ identities[i.target] = "bead"
      BY <2>2 DEF PutAliasRefusal, Placed
    <3>2. aliases' = Put(aliases, i.id, i.target)
            /\ UNCHANGED <<identities, resources, versions>> /\ Decided(p, k, i)
      BY <1>7, <2>2 DEF PutAlias, Decided, EventStep
    <3>3. AliasStep
      BY <3>1, <3>2 DEF AliasStep
    <3> QED BY <3>2, <3>3 DEF TableStep
  <2> QED BY <1>7, <2>1, <2>2 DEF PutAlias
<1>8. CASE DeleteAlias(p, k, i)
  BY <1>0, <1>8 DEF DeleteAlias, TableStep, UnaliasStep, Decided, EventStep
<1> QED BY <1>1, <1>2, <1>3, <1>4, <1>5, <1>6, <1>7, <1>8 DEF Execute
-----------------------------------------------------------------------------
(* What each way preserves. *)

LEMMA PlacedStep ==
  ASSUME Placed, TableStep
  PROVE  Placed'
<1>1. CASE KeepStep
  BY <1>1 DEF KeepStep, Placed
<1>2. CASE CreateStep
  <2>1. PICK id \in Uris, kind \in Kinds :
          /\ id \notin DOMAIN identities \cup DOMAIN aliases
          /\ identities' = Put(identities, id, kind)
          /\ \E body : resources' = Put(resources, id, body)
          /\ aliases' = aliases
          /\ VersionStep(id, kind)
    BY <1>2 DEF CreateStep
  <2>2. DOMAIN identities' = DOMAIN identities \cup {id} /\ identities'[id] = kind
          /\ \A x \in DOMAIN identities : identities'[x] = identities[x]
    BY <2>1 DEF Put
  <2>3. DOMAIN resources' = DOMAIN resources \cup {id}
    BY <2>1 DEF Put
  <2>4. \A v \in versions' : v.id \in DOMAIN identities' /\ identities'[v.id] = "bead"
    BY <2>1, <2>2 DEF Placed, VersionStep
  <2> QED BY <2>1, <2>2, <2>3, <2>4 DEF Placed
<1>3. CASE UpdateStep
  <2>1. PICK id \in DOMAIN identities :
          /\ identities' = identities
          /\ \E body : resources' = Put(resources, id, body)
          /\ aliases' = aliases
          /\ VersionStep(id, identities[id])
    BY <1>3 DEF UpdateStep
  <2>2. DOMAIN resources' = DOMAIN resources \cup {id}
    BY <2>1 DEF Put
  <2> QED BY <2>1, <2>2 DEF Placed, VersionStep
<1>4. CASE DeleteStep
  <2>1. PICK id \in DOMAIN resources :
          /\ identities' = identities
          /\ resources' = Drop(resources, id)
          /\ aliases' = aliases
          /\ VersionStep(id, identities[id])
    BY <1>4 DEF DeleteStep
  <2>2. DOMAIN resources' = DOMAIN resources \ {id}
    BY <2>1 DEF Drop
  <2> QED BY <2>1, <2>2 DEF Placed, VersionStep
<1>5. CASE AliasStep
  <2>1. PICK uri \in AliasNamespace \ Reserved, target \in DOMAIN resources :
          /\ uri \notin DOMAIN identities
          /\ identities[target] = "bead"
          /\ aliases' = Put(aliases, uri, target)
          /\ UNCHANGED <<identities, resources, versions>>
    BY <1>5 DEF AliasStep
  <2>2. DOMAIN aliases' = DOMAIN aliases \cup {uri} /\ aliases'[uri] = target
          /\ \A x \in DOMAIN aliases : x # uri => aliases'[x] = aliases[x]
    BY <2>1 DEF Put
  <2> QED BY <2>1, <2>2 DEF Placed
<1>6. CASE UnaliasStep
  BY <1>6 DEF UnaliasStep, Placed, Drop
<1> QED BY <1>1, <1>2, <1>3, <1>4, <1>5, <1>6 DEF TableStep

LEMMA IdentitiesGrow ==
  ASSUME TableStep
  PROVE  \A id \in DOMAIN identities :
           id \in DOMAIN identities' /\ identities'[id] = identities[id]
<1>1. CASE CreateStep
  BY <1>1 DEF CreateStep, Put
<1>2. CASE ~CreateStep
  BY <1>2 DEF TableStep, KeepStep, UpdateStep, DeleteStep, AliasStep, UnaliasStep
<1> QED BY <1>1, <1>2

(* An admitted Link body names live Beads, and at least one. *)
LEMMA AdmittedEndpoints ==
  ASSUME NEW body, EndpointRefusal("link", body) = "none"
  PROVE  /\ LocalEndpoints(body) # {}
         /\ \A uri \in LocalEndpoints(body) : IsLive(uri, "bead")
BY DEF EndpointRefusal, IsLive

(* Links stay well joined when one Resource is replaced by an admitted body. *)
LEMMA LinksAfterPut ==
  ASSUME Placed, LinkEndpointsLive, NEW id, NEW body,
         id \in DOMAIN identities',
         EndpointRefusal(identities'[id], body) = "none",
         resources' = Put(resources, id, body),
         \A x \in DOMAIN identities : x \in DOMAIN identities' /\ identities'[x] = identities[x],
         identities'[id] \in Kinds
  PROVE  LinkEndpointsLive'
<1>1. DOMAIN resources' = DOMAIN resources \cup {id} /\ resources'[id] = body
        /\ \A x \in DOMAIN resources : x # id => resources'[x] = resources[x]
  BY DEF Put
<1>2. \A uri : IsLive(uri, "bead") => IsLive(uri, "bead")'
  BY <1>1 DEF IsLive, Placed
<1>3. SUFFICES ASSUME NEW link \in DOMAIN resources', identities'[link] = "link"
               PROVE  /\ LocalEndpoints(resources'[link]) # {}
                      /\ \A uri \in LocalEndpoints(resources'[link]) : IsLive(uri, "bead")'
  BY DEF LinkEndpointsLive, LocalEndpoints
<1>4. CASE link = id
  BY <1>1, <1>2, <1>3, <1>4, AdmittedEndpoints
<1>5. CASE link # id
  BY <1>1, <1>2, <1>3, <1>5 DEF LinkEndpointsLive, Placed
<1> QED BY <1>4, <1>5

LEMMA LinksStep ==
  ASSUME Placed, LinkEndpointsLive, TableStep
  PROVE  LinkEndpointsLive'
<1>1. CASE UNCHANGED <<identities, resources>>
  BY <1>1 DEF LinkEndpointsLive, LocalEndpoints, IsLive
<1>2. CASE CreateStep
  <2>0. PICK id \in Uris, kind \in Kinds : \E body :
          /\ EndpointRefusal(kind, body) = "none"
          /\ identities' = Put(identities, id, kind)
          /\ resources' = Put(resources, id, body)
    BY <1>2 DEF CreateStep
  <2>1. PICK body :
          /\ EndpointRefusal(kind, body) = "none"
          /\ identities' = Put(identities, id, kind)
          /\ resources' = Put(resources, id, body)
    BY <2>0
  <2>2. id \in DOMAIN identities' /\ identities'[id] = kind
    BY <2>1 DEF Put
  <2> QED BY <2>1, <2>2, IdentitiesGrow, LinksAfterPut
<1>3. CASE UpdateStep
  <2>0. PICK id \in DOMAIN identities : \E body :
          /\ EndpointRefusal(identities[id], body) = "none"
          /\ identities' = identities
          /\ resources' = Put(resources, id, body)
    BY <1>3 DEF UpdateStep
  <2>1. PICK body :
          /\ EndpointRefusal(identities[id], body) = "none"
          /\ identities' = identities
          /\ resources' = Put(resources, id, body)
    BY <2>0
  <2> QED BY <2>1, LinksAfterPut DEF Placed
<1>4. CASE DeleteStep
  <2>1. PICK id \in DOMAIN resources :
          /\ identities[id] = "bead" => IncidentLinks(id) = {}
          /\ identities' = identities
          /\ resources' = Drop(resources, id)
    BY <1>4 DEF DeleteStep
  <2>2. DOMAIN resources' = DOMAIN resources \ {id}
          /\ \A x \in DOMAIN resources : x # id => resources'[x] = resources[x]
    BY <2>1 DEF Drop
  <2>3. SUFFICES ASSUME NEW link \in DOMAIN resources', identities'[link] = "link"
                 PROVE  /\ LocalEndpoints(resources'[link]) # {}
                        /\ \A uri \in LocalEndpoints(resources'[link]) : IsLive(uri, "bead")'
    BY DEF LinkEndpointsLive, LocalEndpoints
  <2>4. link \in DOMAIN resources /\ identities[link] = "link"
          /\ resources'[link] = resources[link]
    BY <2>1, <2>2, <2>3
  <2>5. \A uri \in LocalEndpoints(resources[link]) : uri # id
    BY <2>1, <2>4 DEF IncidentLinks, LocalEndpoints, LinkEndpointsLive, IsLive
  <2> QED BY <2>1, <2>2, <2>4, <2>5 DEF LinkEndpointsLive, IsLive
<1> QED BY <1>1, <1>2, <1>3, <1>4 DEF TableStep, KeepStep, AliasStep, UnaliasStep

(* A Reference outside the stored witnesses resolved to itself, and has to. *)
LEMMA DirectIsNeverAlias ==
  ASSUME Placed, NEW uri, IsDirect(uri)
  PROVE  NeverAlias(uri)
BY DEF IsDirect, NeverAlias

LEMMA NeverAliasIsDirect ==
  ASSUME Placed, NEW uri, NeverAlias(uri)
  PROVE  IsDirect(uri)
BY DEF IsDirect, NeverAlias, Placed

LEMMA SlotsAreUris ==
  ASSUME NEW i \in Invocations, NEW s \in Slots(i)
  PROVE  i[s] \in Uris \cup External
<1>1. i \in Invocation
  BY InvocationsAssumption
<1>2. CASE i.op \in {"updateBead", "deleteBead"}
  <2>1. s = "id" /\ i.id # None
    BY <1>2, InvocationsAssumption DEF Slots
  <2> QED BY <1>1, <2>1 DEF Invocation
<1>3. CASE i.op \in {"createLink", "updateLink"}
  <2>1. s \in {"source", "target"} /\ i[s] # None
    BY <1>3 DEF Slots
  <2> QED BY <1>1, <2>1 DEF Invocation
<1>4. CASE i.op \notin {"updateBead", "deleteBead", "createLink", "updateLink"}
  BY <1>4 DEF Slots
<1> QED BY <1>2, <1>3, <1>4

LEMMA NewDecisionSettled ==
  ASSUME Placed, NEW i \in Invocations, NEW o,
         o.op = i.op, o.request = i,
         o.identity = Identity(i, Witnesses(i)), o.witnesses = Witnesses(i)
  PROVE  Settled(o)
<1>1. \A s \in Slots(i) :
        /\ i[s] \notin DOMAIN Witnesses(i) => IsDirect(i[s])
        /\ Resolve(i[s], Witnesses(i)) = Stored(i[s], Witnesses(i))
  <2> TAKE s \in Slots(i)
  <2>1. i[s] \notin DOMAIN Witnesses(i) => IsDirect(i[s])
    BY SlotsAreUris DEF Witnesses
  <2> QED BY <2>1 DEF Resolve, Stored
<1>2. Identity(i, Witnesses(i)) =
        [request |-> [f \in DOMAIN i \ Slots(i) |-> i[f]],
         slots |-> [s \in Slots(i) |-> Stored(i[s], Witnesses(i))]]
  BY <1>1 DEF Identity
<1> QED BY <1>1, <1>2, DirectIsNeverAlias DEF Settled

LEMMA SettledIsRecognised ==
  ASSUME Placed, NEW o, Settled(o)
  PROVE  SameInvocation(o.request, o)
<1>1. \A s \in Slots(o.request) :
        Resolve(o.request[s], o.witnesses) = Stored(o.request[s], o.witnesses)
  BY NeverAliasIsDirect DEF Settled, Resolve, Stored
<1>2. Identity(o.request, o.witnesses) = o.identity
  BY <1>1 DEF Identity, Settled
<1> QED BY <1>2 DEF SameInvocation, Settled

LEMMA EventsStep ==
  ASSUME IsSequence(events), EventStep
  PROVE  IsSequence(events') /\ Extends(events', events)
<1>1. CASE events' = events
  <2>1. PICK S : events \in Seq(S)
    BY DEF IsSequence
  <2> QED BY <1>1, <2>1 DEF IsSequence, Extends
<1>2. CASE \E e : events' = Append(events, e)
  BY <1>2, AppendFacts DEF Extends
<1> QED BY <1>1, <1>2 DEF EventStep

LEMMA SettledKept ==
  ASSUME \A id \in DOMAIN identities : id \in DOMAIN identities', NEW r, Settled(r)
  PROVE  Settled(r)'
BY DEF Settled, NeverAlias, Slots, Stored, Bound, Missing

LEMMA SettledStep ==
  ASSUME Placed, SettledAll, TableStep, NEW p, NEW k, NEW i \in Invocations, Decided(p, k, i)
  PROVE  SettledAll'
<1>1. PICK o :
        /\ outcomes' = Append(outcomes, o)
        /\ o.op = i.op /\ o.request = i
        /\ o.identity = Identity(i, Witnesses(i)) /\ o.witnesses = Witnesses(i)
  BY DEF Decided, Decide
<1>2. /\ IsSequence(outcomes')
      /\ Len(outcomes) \in Nat /\ Len(outcomes') = Len(outcomes) + 1
      /\ \A d \in 1..Len(outcomes) : outcomes'[d] = outcomes[d]
      /\ outcomes'[Len(outcomes) + 1] = o
  BY <1>1, AppendFacts DEF SettledAll
<1>3. ASSUME NEW r, Settled(r) PROVE Settled(r)'
  BY <1>3, IdentitiesGrow, SettledKept
<1>4. ASSUME NEW d \in 1..Len(outcomes') PROVE Settled(outcomes[d])'
  <2>1. PICK r : r = outcomes'[d]
    OBVIOUS
  <2>2. Settled(r)
    BY <1>1, <1>2, <2>1, NewDecisionSettled DEF SettledAll
  <2>3. Settled(r)'
    BY <1>3, <2>2
  <2> QED BY <2>1, <2>3 DEF Settled, NeverAlias, Slots, Stored, Bound, Missing
<1> QED BY <1>2, <1>4 DEF SettledAll, IsSequence
-----------------------------------------------------------------------------
(* The invariant. *)

LEMMA InitIInv == Init => IInv
<1> SUFFICES ASSUME Init PROVE IInv
  OBVIOUS
<1>1. outcomes \in Seq({}) /\ events \in Seq({}) /\ Len(outcomes) = 0
  BY DEF Init
<1> QED BY <1>1 DEF Init, NoRow, IInv, Placed, LinkEndpointsLive, SettledAll, IsSequence

LEMMA NextIInv == IInv /\ [Next]_vars => IInv'
<1> SUFFICES ASSUME IInv, [Next]_vars PROVE IInv'
  OBVIOUS
<1> USE DEF IInv
<1>1. ASSUME NEW p \in Principals, NEW k \in Keys, NEW i \in Invocations, Apply(p, k, i)
      PROVE IInv'
  <2>1. TableStep /\ Decided(p, k, i)
    BY <1>1, ExecuteEffect DEF Apply
  <2>2. IsSequence(events)'
    BY <2>1, EventsStep DEF Decided, IsSequence
  <2> QED BY <2>1, <2>2, PlacedStep, LinksStep, SettledStep
<1>2. CASE UNCHANGED tables
  <2>1. Placed'
    BY <1>2 DEF tables, Placed
  <2>2. LinkEndpointsLive'
    BY <1>2 DEF tables, LinkEndpointsLive, LocalEndpoints, IsLive
  <2>3. SettledAll'
    <3>1. ASSUME NEW d \in 1..Len(outcomes') PROVE Settled(outcomes[d])'
      <4>1. PICK r : r = outcomes'[d]
        OBVIOUS
      <4>2. Settled(r)'
        BY <1>2, <4>1, SettledKept DEF tables, SettledAll
      <4> QED BY <4>1, <4>2 DEF Settled, NeverAlias, Slots, Stored, Bound, Missing
    <3> QED BY <1>2, <3>1 DEF tables, SettledAll, IsSequence
  <2>4. IsSequence(events)'
    BY <1>2 DEF tables, IsSequence
  <2> QED BY <2>1, <2>2, <2>3, <2>4
<1> QED BY <1>1, <1>2 DEF Next, Replay, Fail, Stop, Open, vars

THEOREM Invariance == Spec => []IInv
BY InitIInv, NextIInv, PTL DEF Spec

(* Decisions, events and identities only grow: HistoryIsPermanent for every
   instance, whatever stops and failures a behaviour has. *)
THEOREM HistoryStays == Spec => HistoryIsPermanent
<1> DEFINE Grows ==
      /\ Extends(outcomes', outcomes)
      /\ Extends(events', events)
      /\ \A id \in DOMAIN identities : id \in DOMAIN identities' /\ identities'[id] = identities[id]
<1>1. IInv /\ [Next]_vars => [Grows]_vars
  <2> SUFFICES ASSUME IInv, [Next]_vars PROVE Grows \/ UNCHANGED vars
    OBVIOUS
  <2>1. ASSUME NEW p \in Principals, NEW k \in Keys, NEW i \in Invocations, Apply(p, k, i)
        PROVE Grows
    <3>1. TableStep /\ Decided(p, k, i)
      BY <2>1, ExecuteEffect DEF Apply, IInv
    <3>2. PICK o : outcomes' = Append(outcomes, o)
      BY <3>1 DEF Decided, Decide
    <3>3. Extends(outcomes', outcomes)
      BY <3>2, AppendFacts DEF IInv, SettledAll, Extends
    <3> QED BY <3>1, <3>3, EventsStep, IdentitiesGrow DEF IInv, Decided
  <2>2. CASE UNCHANGED tables
    <3>1. Len(outcomes) \in Nat /\ Len(events) \in Nat
      BY DEF IInv, SettledAll, IsSequence
    <3> QED BY <2>2, <3>1 DEF tables, Extends
  <2> QED BY <2>1, <2>2 DEF Next, Replay, Fail, Stop, Open, vars
<1> QED BY <1>1, Invariance, PTL DEF Spec, HistoryIsPermanent

(* Live Links always join live Beads: LinkEndpointsLive for every instance. *)
THEOREM LinksAreLive == Spec => []LinkEndpointsLive
<1>1. IInv => LinkEndpointsLive
  BY DEF IInv
<1> QED BY <1>1, Invariance, PTL

(* No address is both an alias and an identity, and no alias chains. *)
THEOREM AliasesStayPlaced == Spec => []AliasesWellPlaced
<1>1. IInv => AliasesWellPlaced
  BY DEF IInv, Placed, AliasesWellPlaced
<1> QED BY <1>1, Invariance, PTL

(* The original request of a decision is recognised for ever. *)
THEOREM RetriesAreRecognised == Spec => []RetryIsRecognised
<1>1. IInv => RetryIsRecognised
  BY SettledIsRecognised DEF IInv, SettledAll, RetryIsRecognised
<1> QED BY <1>1, Invariance, PTL
-----------------------------------------------------------------------------
(* The refinement of the decision ledger. *)

OncePerClaim(log) ==
  \A c, d \in 1..Len(log) : ClaimOf(log[c]) = ClaimOf(log[d]) => c = d

LInv == IsSequence(outcomes) /\ OncePerClaim(outcomes)

LEMMA DecisionAt ==
  ASSUME NEW log, OncePerClaim(log), NEW d \in 1..Len(log)
  PROVE  DecisionsOf(log)[ClaimOf(log[d])] = log[d].response
<1> DEFINE c == CHOOSE c \in 1..Len(log) : ClaimOf(log[c]) = ClaimOf(log[d])
<1>1. c \in 1..Len(log) /\ ClaimOf(log[c]) = ClaimOf(log[d])
  OBVIOUS
<1>2. c = d
  BY <1>1 DEF OncePerClaim
<1>3. ClaimOf(log[d]) \in ClaimsOf(log)
  BY DEF ClaimsOf
<1> QED BY <1>2, <1>3 DEF DecisionsOf

LEMMA ToldAfter ==
  ASSUME NEW answers, NEW a
  PROVE  ToldOf(answers \cup {a}) = ToldOf(answers) \cup {<<ClaimOf(a), a.response>>}
BY DEF ToldOf

LEMMA InitLedger == Init => LInv /\ Ledger!Init
<1> SUFFICES ASSUME Init PROVE LInv /\ Ledger!Init
  OBVIOUS
<1>1. outcomes \in Seq({}) /\ Len(outcomes) = 0 /\ acked = {}
  BY DEF Init
<1>2. LInv
  BY <1>1 DEF LInv, IsSequence, OncePerClaim
<1>3. DOMAIN DecisionsOf(outcomes) = {} /\ ToldOf(acked) = {}
  BY <1>1 DEF DecisionsOf, ClaimsOf, ToldOf
<1> QED BY <1>2, <1>3 DEF Ledger!Init

(* A new decision is a step of the ledger, told or not. *)
LEMMA RecordLedger ==
  ASSUME LInv, NEW p, NEW k, NEW o, outcomes' = Append(outcomes, o), ClaimOf(o) = <<p, k>>,
         Claim(p, k) = {}, Committed(p, k)
  PROVE  LInv' /\ Ledger!Decide(<<p, k>>)
<1> DEFINE n == Len(outcomes)
           claim == <<p, k>>
<1>1. outcomes' = Append(outcomes, o) /\ ClaimOf(o) = claim
  OBVIOUS
<1>2. /\ IsSequence(outcomes') /\ n \in Nat /\ Len(outcomes') = n + 1
      /\ \A d \in 1..n : outcomes'[d] = outcomes[d]
      /\ outcomes'[n + 1] = o
  BY <1>1, AppendFacts DEF LInv
<1>3. \A d \in 1..n : ClaimOf(outcomes[d]) # claim
  BY DEF Claim, ClaimOf
<1>4. OncePerClaim(outcomes')
  <2> SUFFICES ASSUME NEW c \in 1..(n + 1), NEW d \in 1..(n + 1),
                      ClaimOf(outcomes'[c]) = ClaimOf(outcomes'[d])
               PROVE  c = d
    BY <1>2 DEF OncePerClaim
  <2>1. CASE c = n + 1 \/ d = n + 1
    BY <1>1, <1>2, <1>3, <2>1
  <2>2. CASE c \in 1..n /\ d \in 1..n
    BY <1>2, <2>2 DEF LInv, OncePerClaim
  <2> QED BY <1>2, <2>1, <2>2
<1>5. ClaimsOf(outcomes') = ClaimsOf(outcomes) \cup {claim} /\ claim \notin ClaimsOf(outcomes)
  BY <1>1, <1>2, <1>3 DEF ClaimsOf
<1>6. ASSUME NEW c \in ClaimsOf(outcomes)
      PROVE  DecisionsOf(outcomes')[c] = DecisionsOf(outcomes)[c]
  <2>1. PICK d \in 1..n : c = ClaimOf(outcomes[d])
    BY DEF ClaimsOf
  <2>2. d \in 1..Len(outcomes') /\ outcomes'[d] = outcomes[d]
    BY <1>2
  <2> QED BY <1>4, <2>1, <2>2, DecisionAt DEF LInv
<1>7. DecisionsOf(outcomes')[claim] = o.response
  <2>1. n + 1 \in 1..Len(outcomes')
    BY <1>2
  <2>2. DecisionsOf(outcomes')[ClaimOf(outcomes'[n + 1])] = outcomes'[n + 1].response
    BY ONLY <1>4, <2>1, DecisionAt
  <2> QED BY <1>1, <1>2, <2>2
<1>8. ToldOf(acked') \in {ToldOf(acked), ToldOf(acked) \cup {<<claim, o.response>>}}
  <2>1. CASE acked' = acked
    BY <2>1
  <2>2. CASE acked' = acked \cup {[principal |-> p, key |-> k, response |-> o.response]}
    <3>1. PICK a : a = [principal |-> p, key |-> k, response |-> o.response]
      OBVIOUS
    <3>2. ToldOf(acked \cup {a}) = ToldOf(acked) \cup {<<ClaimOf(a), a.response>>}
      BY ToldAfter
    <3> QED BY <2>2, <3>1, <3>2 DEF ClaimOf
  <2> QED BY <1>2, <2>1, <2>2 DEF Committed
<1>9. DOMAIN DecisionsOf(outcomes) = ClaimsOf(outcomes)
        /\ DOMAIN DecisionsOf(outcomes') = ClaimsOf(outcomes')
  BY DEF DecisionsOf
<1>10. LInv'
  BY <1>2, <1>4 DEF LInv, IsSequence, OncePerClaim
<1> QED BY <1>5, <1>6, <1>7, <1>8, <1>9, <1>10 DEF Ledger!Decide

LEMMA ApplyLedger ==
  ASSUME Placed, LInv, NEW p \in Principals, NEW k \in Keys, NEW i \in Invocations,
         Apply(p, k, i)
  PROVE  LInv' /\ Ledger!Decide(<<p, k>>)
<1>1. Decided(p, k, i)
  BY ExecuteEffect DEF Apply
<1>2. PICK o : outcomes' = Append(outcomes, o) /\ ClaimOf(o) = <<p, k>>
  BY <1>1 DEF Decided, Decide, ClaimOf
<1> QED BY <1>2, RecordLedger DEF Apply

(* An answer told again is the stored one. *)
LEMMA TellLedger ==
  ASSUME LInv, NEW p, NEW k, NEW d \in 1..Len(outcomes), ClaimOf(outcomes[d]) = <<p, k>>,
         outcomes' = outcomes,
         acked' = acked \cup
           {[principal |-> p, key |-> k, response |-> outcomes[d].response]}
  PROVE  Ledger!Tell(<<p, k>>)
<1>1. /\ ClaimOf(outcomes[d]) = <<p, k>>
      /\ acked' = acked \cup
           {[principal |-> p, key |-> k, response |-> outcomes[d].response]}
  OBVIOUS
<1>2. DecisionsOf(outcomes)[<<p, k>>] = outcomes[d].response
  BY <1>1, DecisionAt DEF LInv
<1>3. <<p, k>> \in DOMAIN DecisionsOf(outcomes)
  BY <1>1 DEF DecisionsOf, ClaimsOf
<1>4. ToldOf(acked') = ToldOf(acked) \cup {<<<<p, k>>, outcomes[d].response>>}
  <2>1. PICK a : a = [principal |-> p, key |-> k, response |-> outcomes[d].response]
    OBVIOUS
  <2>2. ToldOf(acked \cup {a}) = ToldOf(acked) \cup {<<ClaimOf(a), a.response>>}
    BY ToldAfter
  <2> QED BY <1>1, <2>1, <2>2 DEF ClaimOf
<1> QED BY <1>2, <1>3, <1>4 DEF Ledger!Tell

LEMMA ReplayLedger ==
  ASSUME LInv, NEW p \in Principals, NEW k \in Keys, NEW i, Replay(p, k, i)
  PROVE  Ledger!Tell(<<p, k>>)
<1>1. PICK d \in 1..Len(outcomes) :
        /\ ClaimOf(outcomes[d]) = <<p, k>>
        /\ acked' = acked \cup
             {[principal |-> p, key |-> k, response |-> outcomes[d].response]}
  BY DEF Replay, Claim, ClaimOf
<1> QED BY <1>1, TellLedger DEF Replay, tables

LEMMA NextLedger ==
  Placed /\ LInv /\ [Next]_vars => LInv' /\ [Ledger!Next]_(Ledger!vars)
<1> SUFFICES ASSUME Placed, LInv, [Next]_vars
             PROVE  LInv' /\ [Ledger!Next]_(Ledger!vars)
  OBVIOUS
<1>1. ASSUME NEW p \in Principals, NEW k \in Keys, NEW i \in Invocations, Apply(p, k, i)
      PROVE LInv' /\ Ledger!Next
  BY <1>1, ApplyLedger DEF Ledger!Next
<1>2. ASSUME NEW p \in Principals, NEW k \in Keys, NEW i \in Invocations, Replay(p, k, i)
      PROVE LInv' /\ Ledger!Next
  <2>1. outcomes' = outcomes
    BY <1>2 DEF Replay, tables
  <2>2. LInv'
    BY <2>1 DEF LInv, IsSequence, OncePerClaim
  <2> QED BY <1>2, <2>2, ReplayLedger DEF Ledger!Next
<1>3. CASE UNCHANGED <<outcomes, acked>>
  BY <1>3 DEF LInv, IsSequence, OncePerClaim, Ledger!vars
<1> QED BY <1>1, <1>2, <1>3 DEF Next, Fail, Stop, Open, vars, tables

(* The store implements the decision ledger: ImplementsLedger for every instance. *)
THEOREM StoreImplementsLedger == Spec => ImplementsLedger
<1>1. IInv => Placed
  BY DEF IInv
<1> QED
  BY <1>1, Invariance, InitLedger, NextLedger, PTL DEF Spec, ImplementsLedger, Ledger!Spec
-----------------------------------------------------------------------------
(* Types and the version index. *)

HasLatest(rows, id) ==
  \E u \in rows : u.id = id /\ (\A w \in rows : w.id = id => w.position <= u.position)

Versioned ==
  /\ IsSequence(events)
  /\ \A v \in versions :
       /\ v.revision \in 1..Len(events) /\ v.position \in 1..Len(events)
       /\ v.state \in {"live", "deleted"}
       /\ v.state = "live" => v.body \in BodyType
  /\ \A v \in versions : HasLatest(versions, v.id)
  /\ VersionIndexComplete
  /\ \A id \in DOMAIN resources : resources[id] \in BodyType

Completed(kind, verb, id, body, from, previous) ==
  \E p, k, i : Complete(p, k, i, kind, verb, id, body, from, previous)

(* The state a completed transition may start from. *)
Completable(kind, verb, id, body, previous) ==
  \/ /\ verb = "create" /\ id \notin DOMAIN identities
     /\ body \in BodyType /\ body.revision = Revision
  \/ /\ verb = "update" /\ id \in DOMAIN identities /\ identities[id] = kind
     /\ body \in BodyType /\ body.revision = Revision
  \/ /\ verb = "delete" /\ IsLive(id, kind)
     /\ body = resources[id] /\ previous = resources[id].revision

LEMMA CompleteVersioned ==
  ASSUME Placed, Versioned, NEW kind \in Kinds, NEW verb, NEW id, NEW body, NEW from, NEW previous,
         Completable(kind, verb, id, body, previous),
         Completed(kind, verb, id, body, from, previous)
  PROVE  Versioned'
<1> DEFINE n == Len(events) + 1
<1>1. PICK e : events' = Append(events, e)
  BY DEF Completed, Complete
<1>2. IsSequence(events)' /\ Len(events) \in Nat /\ Len(events') = n
  <2>1. IsSequence(Append(events, e)) /\ Len(events) \in Nat /\ Len(Append(events, e)) = n
    BY AppendFacts DEF Versioned
  <2> QED BY <1>1, <2>1 DEF IsSequence
<1>3. /\ resources' = IF verb = "delete" THEN Drop(resources, id) ELSE Put(resources, id, body)
      /\ identities' = IF verb = "create" THEN Put(identities, id, kind) ELSE identities
  BY DEF Completed, Complete
<1>4. CASE ~(Historical /\ kind = "bead")
  <2>1. versions' = versions
    BY <1>4 DEF Completed, Complete
  <2>2. \A x \in DOMAIN resources' : resources'[x] \in BodyType
    BY <1>3 DEF Completable, Versioned, Put, Drop
  <2>3. \A x \in DOMAIN resources' : Historical /\ identities'[x] = "bead" =>
          x \in DOMAIN resources /\ resources'[x] = resources[x] /\ identities[x] = "bead"
    BY <1>3, <1>4 DEF Completable, Placed, Put, Drop, Kinds, IsLive
  <2>4. VersionIndexComplete'
    BY <2>1, <2>3 DEF Versioned, VersionIndexComplete
  <2>5. \A v \in versions' : /\ v.revision \in 1..Len(events') /\ v.position \in 1..Len(events')
                             /\ HasLatest(versions', v.id)
                             /\ v.state \in {"live", "deleted"}
                             /\ v.state = "live" => v.body \in BodyType
    BY <1>2, <2>1 DEF Versioned
  <2> QED BY <1>2, <2>2, <2>4, <2>5 DEF Versioned, HasLatest
<1>5. CASE Historical /\ kind = "bead"
  <2>1. PICK row :
          /\ versions' = versions \cup {row}
          /\ row.id = id /\ row.revision = n /\ row.position = n
          /\ row.state = IF verb = "delete" THEN "deleted" ELSE "live"
          /\ verb = "delete" => row.previous = previous
          /\ verb # "delete" => row.body = body
    <3>1. PICK p, k, i : Complete(p, k, i, kind, verb, id, body, from, previous)
      BY DEF Completed
    <3> DEFINE row ==
          [id |-> id, revision |-> IF verb = "delete" /\ ~Terminal(kind, verb)
                                   THEN body.revision ELSE Revision,
           position |-> Revision, from |-> from,
           state |-> IF Terminal(kind, verb) THEN "deleted" ELSE "live",
           body |-> IF Terminal(kind, verb) THEN None ELSE body,
           previous |-> IF Terminal(kind, verb) THEN previous
                        ELSE IF from = 0 THEN 0 ELSE previous]
    <3>2. versions' = versions \cup {row}
      BY <1>5, <3>1, Zenon DEF Complete
    <3>3. Terminal(kind, verb) <=> verb = "delete"
      BY <1>5 DEF Terminal
    <3>4. /\ row.id = id /\ row.revision = n /\ row.position = n
          /\ row.state = IF verb = "delete" THEN "deleted" ELSE "live"
          /\ verb = "delete" => row.previous = previous
          /\ verb # "delete" => row.body = body
      BY <3>3 DEF Revision
    <3> QED BY <3>2, <3>4, Zenon
  <2>2. \A x \in DOMAIN resources' : resources'[x] \in BodyType
    BY <1>3 DEF Completable, Versioned, Put, Drop
  <2>3. \A v \in versions' : /\ v.revision \in 1..Len(events') /\ v.position \in 1..Len(events')
                             /\ v.state \in {"live", "deleted"}
                             /\ v.state = "live" => v.body \in BodyType
    BY <1>2, <2>1 DEF Versioned, Completable
  <2>4. \A v, w \in versions' : v.revision = w.revision => v = w
    BY <1>2, <2>1 DEF Versioned, VersionIndexComplete
  <2>5. \A v \in versions' : v.state = "deleted" =>
          \E w \in versions' : w.id = v.id /\ w.state = "live" /\ w.revision = v.previous
    <3> TAKE v \in versions'
    <3>1. CASE v \in versions
      BY <2>1, <3>1 DEF Versioned, VersionIndexComplete
    <3>2. CASE v = row /\ verb = "delete"
      <4>1. id \in DOMAIN resources /\ identities[id] = "bead" /\ previous = resources[id].revision
        BY <1>5, <3>2 DEF Completable, IsLive
      <4>2. PICK w \in versions : w.id = id /\ w.state = "live" /\ w.revision = previous
        BY <1>5, <4>1 DEF Versioned, VersionIndexComplete
      <4> QED BY <2>1, <3>2, <4>2
    <3> QED BY <2>1, <3>1, <3>2
  <2>6. \A x \in DOMAIN resources' : Historical /\ identities'[x] = "bead" =>
          \E v \in versions' :
            v.id = x /\ v.state = "live" /\ v.revision = resources'[x].revision
    <3> TAKE x \in DOMAIN resources'
    <3> HAVE Historical /\ identities'[x] = "bead"
    <3>1. CASE x = id
      <4>1. verb # "delete" /\ resources'[x] = body /\ body.revision = n
        BY <1>3, <3>1 DEF Completable, Put, Drop, Revision
      <4> QED BY <2>1, <3>1, <4>1
    <3>2. CASE x # id
      <4>1. x \in DOMAIN resources /\ resources'[x] = resources[x] /\ identities[x] = "bead"
        BY <1>3, <3>2 DEF Put, Drop, Placed
      <4> QED BY <2>1, <4>1 DEF Versioned, VersionIndexComplete
    <3> QED BY <3>1, <3>2
  <2>7. VersionIndexComplete'
    BY <2>4, <2>5, <2>6 DEF VersionIndexComplete
  <2>8. \A v \in versions' : HasLatest(versions', v.id)
    <3> TAKE v \in versions'
    <3>1. CASE v.id = id
      <4>1. \A w \in versions' : w.position <= row.position
        BY <1>2, <2>1 DEF Versioned
      <4> QED BY <2>1, <3>1, <4>1 DEF HasLatest
    <3>2. CASE v.id # id
      <4>1. v \in versions
        BY <2>1, <3>2
      <4>2. PICK u \in versions : /\ u.id = v.id
                                 /\ \A w \in versions : w.id = v.id => w.position <= u.position
        BY <4>1 DEF Versioned, HasLatest
      <4> QED BY <2>1, <3>2, <4>2 DEF HasLatest
    <3> QED BY <3>1, <3>2
  <2> QED BY <1>2, <2>2, <2>3, <2>7, <2>8 DEF Versioned, HasLatest
<1> QED BY <1>4, <1>5

(* An executed request leaves Resources and versions alone or completes one
   admissible transition. *)
Transition ==
  \E kind \in Kinds : \E verb, id, body, from, previous :
    /\ Completable(kind, verb, id, body, previous)
    /\ Completed(kind, verb, id, body, from, previous)

NoTransition == UNCHANGED <<identities, resources, events, versions>>

EndpointUris == Uris \cup External \cup {None}

LEMMA CreateTransition ==
  ASSUME NEW p, NEW k, NEW i \in Invocations, NEW kind \in Kinds,
         NEW source \in EndpointUris, NEW target \in EndpointUris,
         IsSequence(events), i.op \in {"createBead", "createLink"},
         PerformCreate(p, k, i, kind, source, target)
  PROVE  NoTransition \/ Transition
<1> DEFINE body == Body(Revision, i.data, source, target)
<1>1. PICK id \in IF i.id = None THEN Unused ELSE {i.id} :
        \/ Refuse(p, k, i, CreateRefusal(i, kind, id, body))
        \/ /\ CreateRefusal(i, kind, id, body) = "none"
           /\ Complete(p, k, i, kind, "create", id, body, 0, 0)
  BY Zenon DEF PerformCreate
<1>2. CASE Refuse(p, k, i, CreateRefusal(i, kind, id, body))
  BY <1>2 DEF Refuse, NoTransition
<1>3. CASE /\ CreateRefusal(i, kind, id, body) = "none"
           /\ Complete(p, k, i, kind, "create", id, body, 0, 0)
  <2>1. i.data \in Values /\ Revision \in Nat \ {0}
    BY InvocationsAssumption DEF Revision, IsSequence
  <2>2. body \in BodyType /\ body.revision = Revision
    BY <2>1 DEF Body, BodyType, EndpointUris
  <2>3. id \notin DOMAIN identities
    BY <1>3 DEF CreateRefusal
  <2>4. Completable(kind, "create", id, body, 0)
    BY <2>2, <2>3 DEF Completable
  <2>5. Completed(kind, "create", id, body, 0, 0)
    BY <1>3 DEF Completed
  <2> QED BY <2>4, <2>5 DEF Transition
<1> QED BY <1>1, <1>2, <1>3

(* A recovering update finds the versions it needs. *)
LEMMA LatestIsRow ==
  ASSUME Versioned, NEW id, VersionRows(id) # {}
  PROVE  LatestVersion(id) \in versions /\ LatestVersion(id).id = id
<1>1. \E u \in VersionRows(id) : \A w \in VersionRows(id) : w.position <= u.position
  BY DEF Versioned, HasLatest, VersionRows
<1>2. LatestVersion(id) \in VersionRows(id)
  BY <1>1 DEF LatestVersion
<1> QED BY <1>2 DEF VersionRows

LEMMA VersionAtIsRow ==
  ASSUME Versioned, NEW w \in versions
  PROVE  VersionAt(w.id, w.revision) = w
<1>1. VersionAt(w.id, w.revision) \in VersionRows(w.id)
        /\ VersionAt(w.id, w.revision).revision = w.revision
  BY DEF VersionAt, VersionRows
<1> QED BY <1>1 DEF VersionRows, Versioned, VersionIndexComplete

LEMMA BeforeTyped ==
  ASSUME Placed, Versioned, NEW i, NEW kind, NEW id,
         IsLive(id, kind) \/ Recovering(i, kind, id)
  PROVE  Before(i, kind, id) \in BodyType
<1>1. CASE IsLive(id, kind)
  BY <1>1 DEF IsLive, Before, Versioned
<1>2. CASE ~IsLive(id, kind) /\ Recovering(i, kind, id)
  <2> DEFINE last == LatestVersion(id)
  <2>1. last \in versions /\ last.id = id /\ last.state = "deleted"
    BY <1>2, LatestIsRow DEF Recovering
  <2>2. PICK w \in versions : w.id = id /\ w.state = "live" /\ w.revision = last.previous
    BY <2>1 DEF Versioned, VersionIndexComplete
  <2>3. VersionAt(id, last.previous) = w
    BY <2>2, VersionAtIsRow
  <2> QED BY <1>2, <2>2, <2>3 DEF Before, Versioned
<1> QED BY <1>1, <1>2

LEMMA SourceTyped ==
  ASSUME Placed, Versioned, NEW i, NEW kind, NEW id, NEW source, NEW target,
         UpdateRefusal(i, kind, id, source, target) = "none"
  PROVE  Source(i, kind, id) \in BodyType
<1>1. IsLive(id, kind) \/ Recovering(i, kind, id)
  BY DEF UpdateRefusal
<1>2. CASE i.from = 0
  BY <1>1, <1>2, BeforeTyped DEF Source
<1>3. CASE i.from # 0
  <2>1. HasVersion(id, i.from) /\ VersionAt(id, i.from).state # "deleted"
    BY <1>3 DEF UpdateRefusal
  <2>2. PICK w \in versions : w.id = id /\ w.revision = i.from
    BY <2>1 DEF HasVersion, VersionRows
  <2>3. VersionAt(id, i.from) = w
    BY <2>2, VersionAtIsRow
  <2> QED BY <1>3, <2>1, <2>2, <2>3 DEF Source, Versioned
<1> QED BY <1>2, <1>3

LEMMA UpdateTransition ==
  ASSUME Placed, Versioned, NEW p, NEW k, NEW i \in Invocations, NEW kind \in Kinds, NEW id,
         NEW source \in EndpointUris, NEW target \in EndpointUris,
         i.op \in {"updateBead", "updateLink"}, i.from # 0 => kind = "bead",
         PerformUpdate(p, k, i, kind, id, source, target)
  PROVE  NoTransition \/ Transition
<1> DEFINE refusal == UpdateRefusal(i, kind, id, source, target)
           next == Candidate(i, kind, id, source, target)
           body == [next EXCEPT !.revision = Revision]
<1>1. CASE \E code : Refuse(p, k, i, code)
  BY <1>1 DEF Refuse, NoTransition
<1>2. CASE Unchanged(p, k, i, kind, id)
  BY <1>2 DEF Unchanged, NoTransition
<1>3. CASE refusal = "none"
             /\ Complete(p, k, i, kind, "update", id, body, i.from, Predecessor(i, kind, id))
  <2>1. IsLive(id, kind) \/ Recovering(i, kind, id)
    BY <1>3 DEF UpdateRefusal
  <2>2. id \in DOMAIN identities /\ identities[id] = kind
    BY <2>1, LatestIsRow DEF IsLive, Placed, Recovering
  <2>3. Before(i, kind, id) \in BodyType /\ Source(i, kind, id) \in BodyType
    BY <1>3, <2>1, BeforeTyped, SourceTyped
  <2>4. Edit[i.data][Source(i, kind, id).data] \in Values
    <3>1. i.data \in Changes /\ Source(i, kind, id).data \in Values
      BY <2>3, InvocationsAssumption DEF BodyType
    <3>2. Edit[i.data][Source(i, kind, id).data] # Invalid
      BY <1>3 DEF UpdateRefusal
    <3> QED BY <3>1, <3>2, ValuesAssumption
  <2>5. Revision \in Nat \ {0}
    BY DEF Revision, Versioned, IsSequence
  <2>6. body \in BodyType /\ body.revision = Revision
    BY <2>3, <2>4, <2>5 DEF Candidate, Body, BodyType, EndpointUris
  <2>7. Completable(kind, "update", id, body, Predecessor(i, kind, id))
    BY <2>2, <2>6 DEF Completable
  <2>8. Completed(kind, "update", id, body, i.from, Predecessor(i, kind, id))
    BY <1>3 DEF Completed
  <2> QED BY <2>7, <2>8 DEF Transition
<1> QED BY <1>1, <1>2, <1>3, Zenon DEF PerformUpdate

LEMMA DeleteTransition ==
  ASSUME NEW p, NEW k, NEW i \in Invocations, NEW kind \in Kinds, NEW id,
         PerformDelete(p, k, i, kind, id)
  PROVE  NoTransition \/ Transition
<1>1. CASE Refuse(p, k, i, DeleteRefusal(i, kind, id))
  BY <1>1 DEF Refuse, NoTransition
<1>2. CASE DeleteRefusal(i, kind, id) = "none"
             /\ Complete(p, k, i, kind, "delete", id, resources[id], 0, resources[id].revision)
  <2>1. Completable(kind, "delete", id, resources[id], resources[id].revision)
    BY <1>2 DEF DeleteRefusal, Completable
  <2>2. Completed(kind, "delete", id, resources[id], 0, resources[id].revision)
    BY <1>2 DEF Completed
  <2> QED BY <2>1, <2>2 DEF Transition
<1> QED BY <1>1, <1>2 DEF PerformDelete

(* A resolved Link endpoint is an address. *)
LEMMA EndpointsResolve ==
  ASSUME Placed, NEW i \in Invocations, NEW slot \in {"source", "target"}
  PROVE  At(i, slot).uri \in EndpointUris
<1>1. i[slot] \in EndpointUris
  BY InvocationsAssumption DEF Invocation, EndpointUris
<1>2. \A uri \in DOMAIN aliases : aliases[uri] \in EndpointUris
  BY DEF Placed, EndpointUris
<1>3. CASE slot \in Slots(i)
  <2>1. AliasTarget(i[slot]) \in EndpointUris
    BY <1>2 DEF AliasTarget, EndpointUris
  <2>2. i[slot] \in DOMAIN Witnesses(i) => Witnesses(i)[i[slot]] = AliasTarget(i[slot])
    BY DEF Witnesses
  <2>3. Resolve(i[slot], Witnesses(i)).uri \in EndpointUris
    BY <1>1, <2>1, <2>2 DEF Resolve, Bound, Missing
  <2> QED BY <1>3, <2>3 DEF At
<1>4. CASE slot \notin Slots(i)
  BY <1>1, <1>4 DEF At, Bound
<1> QED BY <1>3, <1>4

LEMMA ExecuteTransition ==
  ASSUME Placed, Versioned, NEW p, NEW k, NEW i \in Invocations, Execute(p, k, i)
  PROVE  NoTransition \/ Transition
<1>0. ASSUME NEW code, Refuse(p, k, i, code) PROVE NoTransition
  BY <1>0 DEF Refuse, NoTransition
<1>a. i.from # 0 => i.op = "updateBead"
  BY InvocationsAssumption
<1>b. None \in EndpointUris
  BY DEF EndpointUris
<1>c. At(i, "source").uri \in EndpointUris /\ At(i, "target").uri \in EndpointUris
  BY EndpointsResolve
<1>d. IsSequence(events)
  BY DEF Versioned
<1>1. CASE CreateBead(p, k, i)
  BY <1>0, <1>1, <1>b, <1>d, CreateTransition DEF CreateBead, Kinds
<1>2. CASE UpdateBead(p, k, i)
  BY <1>0, <1>2, <1>b, UpdateTransition DEF UpdateBead, Kinds
<1>3. CASE DeleteBead(p, k, i)
  BY <1>0, <1>3, DeleteTransition DEF DeleteBead, Kinds
<1>4. CASE CreateLink(p, k, i)
  BY <1>0, <1>4, <1>c, <1>d, CreateTransition DEF CreateLink, LinkRefused, Kinds
<1>5. CASE UpdateLink(p, k, i)
  BY <1>0, <1>5, <1>a, <1>c, UpdateTransition DEF UpdateLink, LinkRefused, Kinds
<1>6. CASE DeleteLink(p, k, i)
  BY <1>0, <1>6, DeleteTransition DEF DeleteLink, Kinds
<1>7. CASE PutAlias(p, k, i) \/ DeleteAlias(p, k, i)
  BY <1>0, <1>7 DEF PutAlias, DeleteAlias, NoTransition
<1> QED BY <1>1, <1>2, <1>3, <1>4, <1>5, <1>6, <1>7 DEF Execute

LEMMA TransitionVersioned ==
  ASSUME Placed, Versioned, NoTransition \/ Transition
  PROVE  Versioned'
<1>1. CASE NoTransition
  BY <1>1 DEF NoTransition, Versioned, VersionIndexComplete, HasLatest, IsSequence
<1>2. CASE Transition
  BY <1>2, CompleteVersioned DEF Transition
<1> QED BY <1>1, <1>2

VInv == Placed /\ Versioned /\ mode \in {"open", "fenced", "closed"} /\ faults \in 0..MaxFaults

LEMMA InitVInv == Init => VInv
<1> SUFFICES ASSUME Init PROVE VInv
  OBVIOUS
<1>1. Placed
  BY DEF Init, NoRow, Placed
<1>2. IsSequence(events)
  <2>1. <<>> \in Seq({})
    OBVIOUS
  <2> QED BY <2>1 DEF Init, IsSequence
<1>3. Versioned
  BY <1>2 DEF Init, NoRow, Versioned, VersionIndexComplete
<1> QED BY <1>1, <1>3, BoundsAssumption DEF Init, VInv

LEMMA NextVInv == VInv /\ [Next]_vars => VInv'
<1> SUFFICES ASSUME VInv, [Next]_vars PROVE VInv'
  OBVIOUS
<1>1. ASSUME NEW p \in Principals, NEW k \in Keys, NEW i \in Invocations, Apply(p, k, i)
      PROVE  VInv'
  <2>1. Placed'
    BY <1>1, ExecuteEffect, PlacedStep DEF Apply, VInv
  <2>2. Versioned'
    BY <1>1, ExecuteTransition, TransitionVersioned DEF Apply, VInv
  <2>3. mode' \in {"open", "fenced", "closed"} /\ faults' \in 0..MaxFaults
    BY <1>1, BoundsAssumption DEF Apply, Committed, VInv
  <2> QED BY <2>1, <2>2, <2>3 DEF VInv
<1>2. CASE UNCHANGED tables /\ mode' \in {"open", "fenced", "closed", mode}
             /\ (faults' = faults \/ (faults < MaxFaults /\ faults' = faults + 1))
  <2>1. Placed'
    BY <1>2 DEF tables, VInv, Placed
  <2>2. Versioned'
    BY <1>2, TransitionVersioned DEF tables, VInv, NoTransition
  <2>3. mode' \in {"open", "fenced", "closed"} /\ faults' \in 0..MaxFaults
    BY <1>2, BoundsAssumption DEF VInv
  <2> QED BY <2>1, <2>2, <2>3 DEF VInv
<1> QED BY <1>1, <1>2 DEF Next, Replay, Fail, Stop, Open, vars, tables

(* Every table keeps the columns of its rows: TypeOK for every instance. *)
THEOREM TypesHold == Spec => []TypeOK
<1>1. VInv => TypeOK
  BY UrisAssumption DEF VInv, Placed, Versioned, TypeOK
<1> QED BY <1>1, InitVInv, NextVInv, PTL DEF Spec

(* A deleted Bead can always be brought back, and every live Bead has its
   version: VersionIndexComplete for every instance. *)
THEOREM VersionsStayComplete == Spec => []VersionIndexComplete
<1>1. VInv => VersionIndexComplete
  BY DEF VInv, Versioned
<1> QED BY <1>1, InitVInv, NextVInv, PTL DEF Spec
-----------------------------------------------------------------------------
(* Induction over a bounded interval, for a set of the numbers that have a *)
(* property.                                                               *)

LEMMA IntervalsAreWellFounded ==
  ASSUME NEW n \in Nat
  PROVE  IsWellFoundedOn(StrictSubsetOrdering(0..n), SUBSET (0..n))
<1>1. IsFiniteSet(0..n)
  BY FS_Interval
<1>2. FiniteSubsetsOf(0..n) = SUBSET (0..n)
  BY <1>1, FS_FiniteSubsetsOfFinite
<1> QED BY <1>2, FS_StrictSubsetOrderingWellFounded

LEMMA UpTo ==
  ASSUME NEW n \in Nat, NEW S, 0 \in S, \A m \in 1..n : m - 1 \in S => m \in S
  PROVE  0..n \subseteq S
<1> DEFINE T == {0..m : m \in (0..n) \ S}
           R == StrictSubsetOrdering(0..n)
<1>1. SUFFICES ASSUME ~(0..n \subseteq S) PROVE FALSE
  OBVIOUS
<1>2. T # {} /\ T \subseteq SUBSET (0..n)
  BY <1>1
<1>3. PICK x \in T : \A y \in T : <<y, x>> \notin R
  <2>1. IsWellFoundedOn(R, SUBSET (0..n))
    BY IntervalsAreWellFounded
  <2> HIDE DEF T, R
  <2> QED BY <1>2, <2>1, WFMin
<1>4. PICK m \in (0..n) \ S : x = 0..m
  OBVIOUS
<1>5. m - 1 \in (0..n) \ S
  BY <1>4
<1>6. 0..(m - 1) \in T
  BY <1>5
<1>7. 0..(m - 1) \subseteq 0..m /\ m \in 0..m /\ m \notin 0..(m - 1)
  BY <1>4
<1>8. 0..(m - 1) \subseteq 0..n /\ 0..m \subseteq 0..n
  BY <1>4
<1>9. <<0..(m - 1), 0..m>> \in R
  BY <1>7, <1>8 DEF StrictSubsetOrdering
<1> QED BY <1>3, <1>4, <1>6, <1>9
-----------------------------------------------------------------------------
(* The last event of a Resource. *)

LEMMA HasMaximum ==
  ASSUME NEW n \in Nat, NEW S, S \subseteq 1..n, S # {}
  PROVE  \E x \in S : \A y \in S : y <= x
<1> DEFINE Bounded(m) == \A R \in SUBSET (1..m) : R # {} => \E x \in R : \A y \in R : y <= x
           T == {m \in 0..n : Bounded(m)}
<1>1. Bounded(0)
  <2>1. 1..0 = {}
    OBVIOUS
  <2> QED BY <2>1
<1>2. ASSUME NEW m \in 1..n, Bounded(m - 1) PROVE Bounded(m)
  <2> SUFFICES ASSUME NEW R \in SUBSET (1..m), R # {}
               PROVE  \E x \in R : \A y \in R : y <= x
    OBVIOUS
  <2>1. CASE m \in R
    BY <2>1
  <2>2. CASE m \notin R
    <3>1. R \in SUBSET (1..(m - 1))
      BY <2>2
    <3> QED BY <1>2, <3>1
  <2> QED BY <2>1, <2>2
<1> HIDE DEF Bounded
<1>3. 0 \in T /\ \A m \in 1..n : m - 1 \in T => m \in T
  BY <1>1, <1>2
<1>4. 0..n \subseteq T
  <2> HIDE DEF T
  <2> QED BY <1>3, UpTo
<1>5. Bounded(n)
  BY <1>4
<1>6. S \in SUBSET (1..n)
  OBVIOUS
<1> QED BY <1>5, <1>6 DEF Bounded

LEMMA LastIsLargest ==
  ASSUME NEW n \in Nat, NEW S, S \subseteq 1..n
  PROVE  /\ S = {} => Last(S) = 0
         /\ S # {} => Last(S) \in S /\ \A m \in S : m <= Last(S)
BY HasMaximum DEF Last

\* One fact about the events of a Resource at a time.
LEMMA LastEventIs ==
  ASSUME NEW id, NEW n \in Nat
  PROVE  /\ LastEvent(id, n) \in 0..n
         /\ LastEvent(id, n) # 0 => events[LastEvent(id, n)].subject = id
         /\ \A q \in 1..n : events[q].subject = id => LastEvent(id, n) # 0 /\ q <= LastEvent(id, n)
<1> DEFINE S == {q \in 1..n : events[q].subject = id}
<1>1. LastEvent(id, n) = Last(S)
  BY DEF LastEvent
<1>2. S \subseteq 1..n
  OBVIOUS
<1>3. /\ S = {} => Last(S) = 0
      /\ S # {} => Last(S) \in S /\ \A m \in S : m <= Last(S)
  <2> HIDE DEF S
  <2> QED BY <1>2, LastIsLargest
<1> QED BY <1>1, <1>3

LEMMA LastEventKept ==
  ASSUME IsSequence(events), Extends(events', events), NEW id, NEW n \in 0..Len(events)
  PROVE  LastEvent(id, n)' = LastEvent(id, n)
<1>1. \A q \in 1..n : events'[q] = events[q]
  BY DEF IsSequence, Extends
<1>2. {q \in 1..n : events'[q].subject = id} = {q \in 1..n : events[q].subject = id}
  BY <1>1
<1> QED BY <1>2 DEF LastEvent
-----------------------------------------------------------------------------
(* What the recovery check reads of a prefix of the log is not changed by  *)
(* what is appended.                                                       *)

EventSound(q) ==
  /\ events[q].verb \in {"create", "update", "delete"}
  /\ events[q].revision \in 1..q
  /\ events[q].subject \in DOMAIN identities
  /\ identities[events[q].subject] = events[q].kind

ChainStands == \A q \in 1..Len(events) : EventSound(q) /\ VerifiedEvent(q)

\* The tables at a later moment: everything is still there, and the version
\* rows that were added are of later events.
Grown ==
  /\ IsSequence(events) /\ IsSequence(events') /\ Extends(events', events)
  /\ IsSequence(outcomes) /\ IsSequence(outcomes') /\ Extends(outcomes', outcomes)
  /\ \A id \in DOMAIN identities : id \in DOMAIN identities' /\ identities'[id] = identities[id]
  /\ versions \subseteq versions'
  /\ \A v \in versions' \ versions : v.position \notin 1..Len(events)

LEMMA ChainKept ==
  ASSUME Grown, NEW id, NEW q \in 0..Len(events)
  PROVE  /\ LastEvent(id, q) \in 0..q /\ LastEvent(id, q)' = LastEvent(id, q)
         /\ LiveAt(id, q)' <=> LiveAt(id, q)
         /\ GoneAt(id, q)' <=> GoneAt(id, q)
         /\ LastEvent(id, q) # 0 =>
              /\ events'[LastEvent(id, q)] = events[LastEvent(id, q)]
              /\ events[LastEvent(id, q)].subject = id
              /\ BodyAt(id, q)' = BodyAt(id, q)
              /\ KindAt(id, q)' = KindAt(id, q)
         /\ RevisionsAt(id, q)' = RevisionsAt(id, q)
<1>1. q \in Nat /\ q <= Len(events) /\ Len(events) \in Nat
  BY DEF Grown, IsSequence
<1>2. \A c \in 1..q : events'[c] = events[c]
  BY <1>1 DEF Grown, Extends
<1>3. LastEvent(id, q) \in 0..q /\ LastEvent(id, q)' = LastEvent(id, q)
  BY <1>1, LastEventIs, LastEventKept DEF Grown
<1>4. LastEvent(id, q) # 0 =>
        /\ events'[LastEvent(id, q)] = events[LastEvent(id, q)]
        /\ events[LastEvent(id, q)].subject = id
  BY <1>1, <1>2, <1>3, LastEventIs
<1>5. RevisionsAt(id, q)' = RevisionsAt(id, q)
  BY <1>2 DEF RevisionsAt
<1> QED BY <1>3, <1>4, <1>5 DEF LiveAt, GoneAt, BodyAt, KindAt

LEMMA IncidenceKept ==
  ASSUME Grown, \A q \in 1..Len(events) : EventSound(q), NEW id, NEW q \in 0..Len(events)
  PROVE  IncidentLinkAt(id, q)' <=> IncidentLinkAt(id, q)
<1>1. ASSUME NEW link, LiveAt(link, q) PROVE link \in DOMAIN identities
  <2>1. LastEvent(link, q) \in 1..Len(events) /\ events[LastEvent(link, q)].subject = link
    BY <1>1, ChainKept DEF LiveAt, Grown, IsSequence
  <2> QED BY <2>1 DEF EventSound
<1>2. \A link : LiveAt(link, q) =>
        /\ BodyAt(link, q)' = BodyAt(link, q) /\ KindAt(link, q)' = KindAt(link, q)
  BY ChainKept DEF LiveAt
<1>3. \A link : LiveAt(link, q)' <=> LiveAt(link, q)
  BY ChainKept
<1>4. \A link \in DOMAIN identities : link \in DOMAIN identities'
  BY DEF Grown
<1> QED BY <1>1, <1>2, <1>3, <1>4 DEF IncidentLinkAt

LEMMA OldEventStands ==
  ASSUME Grown, ChainStands, NEW q \in 1..Len(events)
  PROVE  EventSound(q)' /\ VerifiedEvent(q)'
<1> DEFINE s == events[q].subject
<1>0. /\ q \in Nat /\ q - 1 \in 0..Len(events) /\ events'[q] = events[q]
      /\ EventSound(q) /\ VerifiedEvent(q)
  BY DEF Grown, IsSequence, Extends, ChainStands
<1>1. EventSound(q)'
  BY <1>0 DEF EventSound, Grown
<1>2. /\ LastEvent(s, q - 1) \in 0..(q - 1) /\ LastEvent(s, q - 1)' = LastEvent(s, q - 1)
      /\ LiveAt(s, q - 1)' <=> LiveAt(s, q - 1)
      /\ GoneAt(s, q - 1)' <=> GoneAt(s, q - 1)
      /\ LastEvent(s, q - 1) # 0 =>
           /\ events'[LastEvent(s, q - 1)] = events[LastEvent(s, q - 1)]
           /\ BodyAt(s, q - 1)' = BodyAt(s, q - 1)
           /\ KindAt(s, q - 1)' = KindAt(s, q - 1)
      /\ RevisionsAt(s, q - 1)' = RevisionsAt(s, q - 1)
      /\ IncidentLinkAt(s, q - 1)' <=> IncidentLinkAt(s, q - 1)
  BY <1>0, ChainKept, IncidenceKept DEF ChainStands
<1>3. {v \in versions' : v.position = q} = {v \in versions : v.position = q}
  BY DEF Grown
<1>4. VerifiedVersion(q)'
  <2>1. ASSUME NEW v, VersionContext(q, v) PROVE VersionContext(q, v)'
    <3>1. CASE v.from = 0
      BY <3>1 DEF VersionContext
    <3>2. CASE v.from # 0
      <4>1. PICK c \in 1..(q - 1) : events[c].subject = s /\ events[c].verb # "delete"
                                      /\ events[c].revision = v.from
        BY <2>1, <3>2 DEF VersionContext
      <4>2. events'[c] = events[c] /\ c \in 1..(q - 1)
        BY <1>0, <4>1 DEF Grown, Extends
      <4>3. LastEvent(s, q - 1) # 0
        BY <1>0, <4>1, LastEventIs
      <4> HIDE DEF s
      <4> QED BY <1>0, <1>2, <2>1, <3>2, <4>1, <4>2, <4>3 DEF VersionContext, s
    <3> QED BY <3>1, <3>2
  <2>2. \A v : VersionOf(q, v) => VersionOf(q, v)'
    BY <1>0 DEF VersionOf
  <2> QED BY <1>0, <1>2, <1>3, <2>1, <2>2 DEF VerifiedEvent, VerifiedVersion
<1>5. events[q].verb = "delete" => VerifiedDeletion(q)'
  <2> HAVE events[q].verb = "delete"
  <2>1. VerifiedDeletion(q)
    BY <1>0 DEF VerifiedEvent
  <2>2. LastEvent(s, q - 1) # 0
    BY <2>1 DEF VerifiedDeletion, LiveAt
  <2> QED BY <1>0, <1>2, <2>1, <2>2 DEF VerifiedDeletion
<1>6. events[q].verb # "delete" => VerifiedPostimage(q)'
  <2> HAVE events[q].verb # "delete"
  <2>1. VerifiedPostimage(q)
    BY <1>0 DEF VerifiedEvent
  <2>2. AdmissibleEndpointsAt(events[q].body, q - 1) => AdmissibleEndpointsAt(events[q].body, q - 1)'
    <3>1. \A uri : LiveAt(uri, q - 1) =>
            LiveAt(uri, q - 1)' /\ KindAt(uri, q - 1)' = KindAt(uri, q - 1)
      BY <1>0, ChainKept DEF LiveAt
    <3>2. LocalEndpoints(events'[q].body) = LocalEndpoints(events[q].body)
      BY <1>0
    <3> QED BY <1>0, <3>1, <3>2 DEF AdmissibleEndpointsAt, LocalEndpoints
  <2> QED BY <1>0, <1>2, <2>1, <2>2 DEF VerifiedPostimage
<1>7. IncidenceAt(q)' = IncidenceAt(q)
  <2>1. LiveAt(s, q - 1) => BodyAt(s, q - 1)' = BodyAt(s, q - 1)
    BY <1>2 DEF LiveAt
  <2> QED BY <1>0, <1>2, <2>1 DEF IncidenceAt, LocalEndpoints
<1>8. VerifiedTransition(q)'
  <2>1. PICK d \in 1..Len(outcomes) :
          LET o == outcomes[d]
              e == events[q] IN
          /\ o.position = q
          /\ o.op = OperationOf(e.verb, e.kind)
          /\ o.response.result = ResultOf(e.verb)
          /\ o.response.id = e.subject
          /\ o.response.body = e.body
          /\ \A v \in versions : v.position = q /\ e.verb # "delete" => o.response.from = v.from
    BY <1>0 DEF VerifiedEvent, VerifiedTransition
  <2>2. d \in 1..Len(outcomes') /\ outcomes'[d] = outcomes[d]
    BY <2>1 DEF Grown, IsSequence, Extends
  <2>3. \A v \in versions' : v.position = q => v \in versions
    BY <1>3
  <2> QED BY <1>0, <2>1, <2>2, <2>3 DEF VerifiedTransition
<1>9. events'[q].incident = IncidenceAt(q)'
  BY <1>0, <1>7 DEF VerifiedEvent
<1> QED BY <1>0, <1>1, <1>4, <1>5, <1>6, <1>8, <1>9 DEF VerifiedEvent
-----------------------------------------------------------------------------
(* What the check reads of the first decisions. *)

LEMMA TransitionsBounded ==
  ASSUME Len(outcomes) \in Nat, TransitionsAt(Len(outcomes)) = Len(events),
         NEW d \in 0..Len(outcomes)
  PROVE  TransitionsAt(d) \in 0..Len(events)
<1> DEFINE S(n) == {c \in 1..n : outcomes[c].position # 0}
           m == Len(outcomes)
<1>1. IsFiniteSet(1..m) /\ S(m) \subseteq 1..m /\ S(d) \subseteq S(m)
  <2>1. IsFiniteSet(1..m)
    BY FS_Interval
  <2>2. S(m) \subseteq 1..m /\ S(d) \subseteq S(m)
    OBVIOUS
  <2> QED BY <2>1, <2>2
<1>2. IsFiniteSet(S(m)) /\ IsFiniteSet(S(d)) /\ Cardinality(S(d)) <= Cardinality(S(m))
  <2> HIDE DEF S
  <2>1. IsFiniteSet(S(m))
    BY <1>1, FS_Subset
  <2> QED BY <1>1, <2>1, FS_Subset
<1>3. Cardinality(S(d)) \in Nat /\ Cardinality(S(m)) \in Nat
  BY <1>2, FS_CardinalityType
<1> QED BY <1>2, <1>3 DEF TransitionsAt

LEMMA DecisionsKept ==
  ASSUME Grown, NEW d \in 0..Len(outcomes)
  PROVE  /\ TransitionsAt(d)' = TransitionsAt(d)
         /\ \A id : CreatedAt(id, d)' <=> CreatedAt(id, d)
         /\ \A uri : AliasedAt(uri, d)' <=> AliasedAt(uri, d)
         /\ \A uri : AliasedAt(uri, d) => TargetAt(uri, d)' = TargetAt(uri, d)
<1>1. d \in Nat /\ d <= Len(outcomes)
  BY DEF Grown, IsSequence
<1>2. \A c \in 1..d : outcomes'[c] = outcomes[c]
  BY <1>1 DEF Grown, Extends
<1>3. \A c \in 1..d : Succeeded(c)' <=> Succeeded(c)
  BY <1>2 DEF Succeeded
<1>4. TransitionsAt(d)' = TransitionsAt(d)
  BY <1>2 DEF TransitionsAt
<1>5. \A id : CreatedAt(id, d)' <=> CreatedAt(id, d)
  BY <1>2, <1>3 DEF CreatedAt
<1>6. ASSUME NEW uri
      PROVE  (AliasedAt(uri, d)' <=> AliasedAt(uri, d))
               /\ (AliasedAt(uri, d) => TargetAt(uri, d)' = TargetAt(uri, d))
  <2> DEFINE S == {c \in 1..d : outcomes[c].op \in {"putAlias", "deleteAlias"}
                                  /\ Succeeded(c) /\ outcomes[c].response.id = uri}
  <2>1. LastAlias(uri, d) = Last(S) /\ S \subseteq 1..d
    BY DEF LastAlias
  <2>2. LastAlias(uri, d)' = Last(S)
    BY <1>2, <1>3 DEF LastAlias
  <2>3. Last(S) \in 0..d
    <3>0. S \subseteq 1..d
      OBVIOUS
    <3>1. (S = {} => Last(S) = 0) /\ (S # {} => Last(S) \in S)
      <4> HIDE DEF S
      <4> QED BY <1>1, <3>0, LastIsLargest
    <3>3. S \subseteq 0..d /\ 0 \in 0..d
      BY <1>1, <2>1
    <3> HIDE DEF S
    <3> QED BY <3>1, <3>3
  <2> HIDE DEF S
  <2>4. Last(S) # 0 => outcomes'[Last(S)] = outcomes[Last(S)]
    BY <1>2, <2>3
  <2> QED BY <2>1, <2>2, <2>4 DEF AliasedAt, TargetAt
<1> QED BY <1>4, <1>5, <1>6

CreationsTold ==
  /\ \A d \in 0..Len(outcomes) : \A id :
       CreatedAt(id, d) => LastEvent(id, TransitionsAt(d)) # 0
  /\ \A id \in DOMAIN identities : CreatedAt(id, Len(outcomes))

LEMMA OldDecisionStands ==
  ASSUME Grown, CreationsTold, TransitionsAt(Len(outcomes)) = Len(events),
         NEW d \in 1..Len(outcomes), VerifiedDecision(d)
  PROVE  VerifiedDecision(d)'
<1>1. /\ d - 1 \in 0..Len(outcomes) /\ Len(outcomes) \in Nat /\ Len(events) \in Nat
      /\ outcomes'[d] = outcomes[d]
  BY DEF Grown, IsSequence, Extends
<1>2. PICK t \in 0..Len(events) : TransitionsAt(d - 1) = t /\ TransitionsAt(d - 1)' = t
  BY <1>1, TransitionsBounded, DecisionsKept
<1>a. PICK o : outcomes[d] = o /\ outcomes'[d] = o
  BY <1>1
<1>b. PICK r : o.response = r
  OBVIOUS
<1>3. /\ \A id : CreatedAt(id, d - 1)' <=> CreatedAt(id, d - 1)
      /\ \A uri : AliasedAt(uri, d - 1)' <=> AliasedAt(uri, d - 1)
      /\ \A uri : AliasedAt(uri, d - 1) => TargetAt(uri, d - 1)' = TargetAt(uri, d - 1)
  BY <1>1, DecisionsKept
<1>4. \A id : CreatedAt(id, d - 1) => LastEvent(id, t) # 0
  BY <1>1, <1>2 DEF CreationsTold
<1>5. \A id : /\ LiveAt(id, t)' <=> LiveAt(id, t)
              /\ LastEvent(id, t) # 0 =>
                   BodyAt(id, t)' = BodyAt(id, t) /\ KindAt(id, t)' = KindAt(id, t)
  BY <1>2, ChainKept
<1>6. \A id : LiveAt(id, t) => LastEvent(id, t) # 0
  BY DEF LiveAt
<1>7. VerifiedWitnesses(d)'
  BY <1>1, <1>2, <1>a, <1>3, <1>4, <1>5 DEF VerifiedDecision, VerifiedWitnesses
<1>8. Succeeded(d)' <=> Succeeded(d)
  BY <1>a DEF Succeeded
<1>9. VerifiedAliasDecision(d) => VerifiedAliasDecision(d)'
  BY <1>1, <1>2, <1>a, <1>b, <1>3, <1>5, <1>6 DEF VerifiedAliasDecision
<1>10. ASSUME VerifiedResourceDecision(d), Succeeded(d) PROVE VerifiedResourceDecision(d)'
  <2>1. o.position = 0 => LiveAt(r.id, t)
    BY <1>2, <1>a, <1>b, <1>10 DEF VerifiedResourceDecision
  <2>2. VerifiedHistorical(d)'
    <3> DEFINE from == o.identity.request.from
               guard == o.identity.request.expected
    <3> SUFFICES ASSUME Historical, o.op = "updateBead", from # 0 PROVE
          /\ \E q \in 1..t : events'[q].subject = r.id /\ events'[q].verb # "delete"
                              /\ events'[q].revision = from
          /\ \E v \in versions' :
               /\ v.id = r.id /\ v.revision = r.body.revision /\ v.state = "live"
               /\ r.from = v.from /\ r.previous = v.previous
          /\ IF o.position # 0
             THEN r.from = from /\ guard \in {0, r.previous}
             ELSE guard \in {0, BodyAt(r.id, t)'.revision}
      BY <1>1, <1>2, <1>a, <1>b DEF VerifiedHistorical
    <3>1. VerifiedHistorical(d)
      BY <1>10 DEF VerifiedResourceDecision
    <3>2. /\ \E q \in 1..t : events[q].subject = r.id /\ events[q].verb # "delete"
                              /\ events[q].revision = from
          /\ \E v \in versions :
               /\ v.id = r.id /\ v.revision = r.body.revision /\ v.state = "live"
               /\ r.from = v.from /\ r.previous = v.previous
          /\ IF o.position # 0
             THEN r.from = from /\ guard \in {0, r.previous}
             ELSE guard \in {0, BodyAt(r.id, t).revision}
      BY <1>2, <1>a, <1>b, <3>1 DEF VerifiedHistorical
    <3>3. \A q \in 1..t : events'[q] = events[q]
      BY <1>1, <1>2 DEF Grown, Extends
    <3>4. o.position = 0 => BodyAt(r.id, t)' = BodyAt(r.id, t)
      BY <1>5, <1>6, <2>1
    <3> HIDE DEF from, guard
    <3> QED BY <3>2, <3>3, <3>4 DEF Grown
  <2> QED BY <1>1, <1>2, <1>a, <1>b, <1>3, <1>5, <1>6, <1>10, <2>2 DEF VerifiedResourceDecision
<1> QED BY <1>a, <1>7, <1>8, <1>9, <1>10 DEF VerifiedDecision
-----------------------------------------------------------------------------
(* The tables are the end of the log, and what one more row changes.        *)

LEMMA TablesAreCurrent ==
  ASSUME Placed, IsSequence(events), ChainStands, VerifiedCurrent,
         NEW id, NEW n, n = Len(events)
  PROVE  /\ n \in Nat /\ LastEvent(id, n) \in 0..n
         /\ id \in DOMAIN identities <=> LastEvent(id, n) # 0
         /\ id \in DOMAIN resources <=> LiveAt(id, n)
         /\ id \in DOMAIN identities =>
              /\ KindAt(id, n) = identities[id]
              /\ GoneAt(id, n) <=> id \notin DOMAIN resources
              /\ LastEvent(id, n) \in 1..n /\ events[LastEvent(id, n)].subject = id
              /\ VerifiedEvent(LastEvent(id, n))
         /\ id \in DOMAIN resources =>
              /\ id \in DOMAIN identities
              /\ BodyAt(id, n) = resources[id]
              /\ events[LastEvent(id, n)].revision = resources[id].revision
<1>1. n \in Nat
  BY DEF IsSequence
<1>2. /\ LastEvent(id, n) \in 0..n
      /\ LastEvent(id, n) # 0 => events[LastEvent(id, n)].subject = id
      /\ \A q \in 1..n : events[q].subject = id => LastEvent(id, n) # 0
  BY <1>1, LastEventIs
<1>3. id \in DOMAIN identities <=> LastEvent(id, n) # 0
  <2>1. DOMAIN identities = {events[q].subject : q \in 1..n}
    BY DEF VerifiedCurrent
  <2> QED BY <1>1, <1>2, <2>1
<1>4. id \in DOMAIN resources <=> LiveAt(id, n)
  BY <1>3 DEF VerifiedCurrent, LiveAt
<1>5. id \in DOMAIN identities =>
        /\ KindAt(id, n) = identities[id]
        /\ GoneAt(id, n) <=> id \notin DOMAIN resources
        /\ LastEvent(id, n) \in 1..n /\ events[LastEvent(id, n)].subject = id
        /\ VerifiedEvent(LastEvent(id, n))
  <2> HAVE id \in DOMAIN identities
  <2>1. LastEvent(id, n) \in 1..n /\ events[LastEvent(id, n)].subject = id
    BY <1>1, <1>2, <1>3
  <2>2. GoneAt(id, n) <=> id \notin DOMAIN resources
    BY <1>3, <1>4 DEF GoneAt, LiveAt
  <2>3. EventSound(LastEvent(id, n)) /\ VerifiedEvent(LastEvent(id, n))
    BY <2>1 DEF ChainStands
  <2> QED BY <2>1, <2>2, <2>3 DEF EventSound, KindAt
<1>6. id \in DOMAIN resources =>
        /\ id \in DOMAIN identities
        /\ BodyAt(id, n) = resources[id]
        /\ events[LastEvent(id, n)].revision = resources[id].revision
  <2> HAVE id \in DOMAIN resources
  <2>1. id \in DOMAIN identities /\ BodyAt(id, n) = resources[id]
    BY DEF VerifiedCurrent, Placed
  <2>2. VerifiedPostimage(LastEvent(id, n))
    BY <1>4, <1>5, <2>1 DEF VerifiedEvent, LiveAt
  <2> QED BY <2>1, <2>2 DEF VerifiedPostimage, BodyAt
<1> QED BY <1>1, <1>2, <1>3, <1>4, <1>5, <1>6

LEMMA LastIsMaximum ==
  ASSUME NEW n \in Nat, NEW S, S \subseteq 1..n, n \in S
  PROVE  Last(S) = n
<1>1. Last(S) \in S /\ n <= Last(S)
  BY LastIsLargest
<1>2. Last(S) \in 1..n
  BY <1>1
<1> QED BY <1>1, <1>2

LEMMA OneMoreEvent ==
  ASSUME IsSequence(events), NEW e, events' = Append(events, e), NEW n, n = Len(events), NEW id
  PROVE  /\ n \in Nat /\ Len(events') = n + 1 /\ events'[n + 1] = e
         /\ LastEvent(id, n + 1)' = IF id = e.subject THEN n + 1 ELSE LastEvent(id, n)
<1>1. /\ n \in Nat /\ Len(events') = n + 1 /\ events'[n + 1] = e
      /\ \A q \in 1..n : events'[q] = events[q]
  BY AppendFacts
<1> DEFINE S == {q \in 1..(n + 1) : events'[q].subject = id}
<1>2. LastEvent(id, n + 1)' = Last(S)
  BY DEF LastEvent
<1>3. CASE id = e.subject
  <2>1. n + 1 \in Nat /\ n + 1 \in S /\ S \subseteq 1..(n + 1)
    BY <1>1, <1>3
  <2>2. Last(S) = n + 1
    <3> HIDE DEF S
    <3> QED BY <2>1, LastIsMaximum
  <2> QED BY <1>1, <1>2, <1>3, <2>2
<1>4. CASE id # e.subject
  <2>1. S = {q \in 1..n : events[q].subject = id}
    BY <1>1, <1>4
  <2> QED BY <1>1, <1>2, <1>4, <2>1 DEF LastEvent
<1> QED BY <1>3, <1>4

Success(o) == o.response.result \in {"created", "updated", "unchanged", "deleted"}
CreationOf(o, id) == o.op \in {"createBead", "createLink"} /\ Success(o) /\ o.response.id = id
OnAlias(o) == o.op \in {"putAlias", "deleteAlias"} /\ Success(o)

LEMMA OneMoreDecision ==
  ASSUME IsSequence(outcomes), NEW o, outcomes' = Append(outcomes, o), NEW m, m = Len(outcomes)
  PROVE  /\ m \in Nat /\ Len(outcomes') = m + 1 /\ outcomes'[m + 1] = o
         /\ Succeeded(m + 1)' <=> Success(o)
         /\ \A id : CreatedAt(id, m + 1)' <=> CreatedAt(id, m) \/ CreationOf(o, id)
         /\ \A uri : IF OnAlias(o) /\ o.response.id = uri
                     THEN /\ AliasedAt(uri, m + 1)' <=> o.op = "putAlias"
                          /\ TargetAt(uri, m + 1)' = o.response.target
                     ELSE /\ AliasedAt(uri, m + 1)' <=> AliasedAt(uri, m)
                          /\ AliasedAt(uri, m) => TargetAt(uri, m + 1)' = TargetAt(uri, m)
         /\ TransitionsAt(m + 1)' = IF o.position = 0 THEN TransitionsAt(m) ELSE TransitionsAt(m) + 1
<1>1. /\ m \in Nat /\ Len(outcomes') = m + 1 /\ outcomes'[m + 1] = o
      /\ \A d \in 1..m : outcomes'[d] = outcomes[d]
  BY AppendFacts
<1>2. /\ Succeeded(m + 1)' <=> Success(o)
      /\ \A d \in 1..m : Succeeded(d)' <=> Succeeded(d)
  BY <1>1 DEF Succeeded, Success
<1>3. \A d : d \in 1..(m + 1) <=> d \in 1..m \/ d = m + 1
  BY <1>1
<1>4. \A id : CreatedAt(id, m + 1)' <=> CreatedAt(id, m) \/ CreationOf(o, id)
  BY <1>1, <1>2, <1>3 DEF CreatedAt, CreationOf
<1>5. ASSUME NEW uri
      PROVE  IF OnAlias(o) /\ o.response.id = uri
             THEN /\ AliasedAt(uri, m + 1)' <=> o.op = "putAlias"
                  /\ TargetAt(uri, m + 1)' = o.response.target
             ELSE /\ AliasedAt(uri, m + 1)' <=> AliasedAt(uri, m)
                  /\ AliasedAt(uri, m) => TargetAt(uri, m + 1)' = TargetAt(uri, m)
  <2> DEFINE S == {d \in 1..m : /\ outcomes[d].op \in {"putAlias", "deleteAlias"}
                               /\ Succeeded(d) /\ outcomes[d].response.id = uri}
             T == {d \in 1..(m + 1) : /\ outcomes'[d].op \in {"putAlias", "deleteAlias"}
                                      /\ Succeeded(d)' /\ outcomes'[d].response.id = uri}
  <2>1. LastAlias(uri, m) = Last(S) /\ LastAlias(uri, m + 1)' = Last(T)
    BY DEF LastAlias
  <2>2. S \subseteq 1..m /\ T \subseteq 1..(m + 1)
    OBVIOUS
  <2>3. CASE OnAlias(o) /\ o.response.id = uri
    <3>1. m + 1 \in T
      BY <1>1, <1>2, <2>3 DEF OnAlias
    <3>2. Last(T) = m + 1
      <4>1. m + 1 \in Nat
        BY <1>1
      <4> HIDE DEF T
      <4> QED BY <2>2, <3>1, <4>1, LastIsMaximum
    <3> HIDE DEF T, S
    <3> QED BY <1>1, <2>1, <2>3, <3>2 DEF AliasedAt, TargetAt
  <2>4. CASE ~(OnAlias(o) /\ o.response.id = uri)
    <3>1. T = S
      <4>1. m + 1 \notin T
        BY <1>1, <1>2, <2>4 DEF OnAlias
      <4>2. \A d \in 1..m : d \in T <=> d \in S
        BY <1>1, <1>2
      <4> QED BY <1>3, <2>2, <4>1, <4>2
    <3>2. Last(S) = 0 \/ Last(S) \in 1..m
      <4>1. (S = {} => Last(S) = 0) /\ (S # {} => Last(S) \in S)
        <5> HIDE DEF S
        <5> QED BY <1>1, <2>2, LastIsLargest
      <4> HIDE DEF S
      <4> QED BY <2>2, <4>1
    <3> HIDE DEF T, S
    <3> QED BY <1>1, <2>1, <2>4, <3>1, <3>2 DEF AliasedAt, TargetAt
  <2> QED BY <2>3, <2>4
<1>6. TransitionsAt(m + 1)' = IF o.position = 0 THEN TransitionsAt(m) ELSE TransitionsAt(m) + 1
  <2> DEFINE S == {d \in 1..m : outcomes[d].position # 0}
             T == {d \in 1..(m + 1) : outcomes'[d].position # 0}
  <2>1. TransitionsAt(m) = Cardinality(S) /\ TransitionsAt(m + 1)' = Cardinality(T)
    BY DEF TransitionsAt
  <2>2. T = IF o.position = 0 THEN S ELSE S \cup {m + 1}
    BY <1>1, <1>3
  <2>3. IsFiniteSet(S) /\ m + 1 \notin S
    <3>1. S \subseteq 1..m /\ m + 1 \notin 1..m
      BY <1>1
    <3>2. IsFiniteSet(1..m)
      BY <1>1, FS_Interval
    <3> HIDE DEF S
    <3> QED BY <3>1, <3>2, FS_Subset
  <2> HIDE DEF S, T
  <2>4. Cardinality(S \cup {m + 1}) = Cardinality(S) + 1
    BY <2>3, FS_AddElement
  <2> QED BY <2>1, <2>2, <2>4
<1> QED BY <1>1, <1>2, <1>4, <1>5, <1>6
-----------------------------------------------------------------------------
(* The tables pass the recovery check. *)

FreshContext == \A v \in versions : v.state = "live" /\ v.from = 0 => v.previous = 0

RecInv ==
  /\ Placed /\ Versioned /\ IsSequence(outcomes)
  /\ ChainStands /\ VerifiedCurrent
  /\ \A d \in 1..Len(outcomes) : VerifiedDecision(d)
  /\ VerifiedAliases
  /\ TransitionsAt(Len(outcomes)) = Len(events)
  /\ CreationsTold /\ FreshContext

LEMMA RecInvAccepts == RecInv => RecoveryAccepts
BY DEF RecInv, RecoveryAccepts, VerifySingletonRecovery, ChainStands

\* An address was created by a decision exactly when it is an identity.
LEMMA CreatedIsIdentity ==
  ASSUME RecInv, NEW id
  PROVE  CreatedAt(id, Len(outcomes)) <=> id \in DOMAIN identities
<1>1. CreatedAt(id, Len(outcomes)) => LastEvent(id, Len(events)) # 0
  BY DEF RecInv, CreationsTold, IsSequence
<1>2. LastEvent(id, Len(events)) # 0 => id \in DOMAIN identities
  BY TablesAreCurrent DEF RecInv, Versioned
<1> QED BY <1>1, <1>2 DEF RecInv, CreationsTold

(* The event of a decision that made a transition. *)
EventAdded(o) ==
  \/ events' = events /\ o.position = 0
  \/ \E e : events' = Append(events, e) /\ o.position # 0

LEMMA DecisionRecorded ==
  ASSUME RecInv, Grown, Placed', Versioned', NEW o, outcomes' = Append(outcomes, o),
         EventAdded(o), NEW n, n = Len(events), NEW m, m = Len(outcomes),
         events' # events => EventSound(n + 1)' /\ VerifiedEvent(n + 1)',
         VerifiedCurrent', VerifiedDecision(m + 1)', VerifiedAliases', FreshContext',
         \A id : id \in DOMAIN identities' <=> id \in DOMAIN identities \/ CreationOf(o, id)
  PROVE  RecInv'
<1>1. /\ m \in Nat /\ Len(outcomes') = m + 1 /\ outcomes'[m + 1] = o
      /\ \A id : CreatedAt(id, m + 1)' <=> CreatedAt(id, m) \/ CreationOf(o, id)
      /\ TransitionsAt(m + 1)' = IF o.position = 0 THEN TransitionsAt(m) ELSE TransitionsAt(m) + 1
  BY OneMoreDecision DEF RecInv
<1>2. n \in Nat /\ Len(events') = IF o.position = 0 THEN n ELSE n + 1
  BY AppendFacts DEF EventAdded, RecInv, Versioned, IsSequence
<1>3. TransitionsAt(m) = n
  BY DEF RecInv
<1>4. TransitionsAt(Len(outcomes))' = Len(events')
  BY <1>1, <1>2, <1>3
<1>5. ChainStands'
  <2>1. ASSUME NEW q \in 1..Len(events') PROVE EventSound(q)' /\ VerifiedEvent(q)'
    <3>1. CASE q \in 1..n
      BY <3>1, OldEventStands DEF RecInv
    <3>2. CASE q = n + 1
      BY <1>2, <2>1, <3>2
    <3> QED BY <1>2, <3>1, <3>2
  <2> QED BY <2>1 DEF ChainStands
<1>6. \A d \in 1..Len(outcomes') : VerifiedDecision(d)'
  <2>1. ASSUME NEW d \in 1..Len(outcomes') PROVE VerifiedDecision(d)'
    <3>1. CASE d \in 1..m
      BY <3>1, OldDecisionStands DEF RecInv
    <3>2. CASE d = m + 1
      BY <3>2
    <3> QED BY <1>1, <3>1, <3>2
  <2> QED BY <2>1
<1>7. \A id : CreatedAt(id, m + 1)' <=> id \in DOMAIN identities'
  BY <1>1, CreatedIsIdentity
<1>8. CreationsTold'
  <2>1. ASSUME NEW d \in 0..Len(outcomes'), NEW id, CreatedAt(id, d)'
        PROVE  (LastEvent(id, TransitionsAt(d)) # 0)'
    <3>1. CASE d \in 0..m
      <4>1. PICK t \in 0..n : TransitionsAt(d) = t /\ TransitionsAt(d)' = t
        BY <1>1, <3>1, TransitionsBounded, DecisionsKept DEF RecInv
      <4>2. CreatedAt(id, d)
        BY <2>1, <3>1, DecisionsKept
      <4>3. LastEvent(id, t) # 0
        BY <3>1, <4>1, <4>2 DEF RecInv, CreationsTold
      <4>4. LastEvent(id, t)' = LastEvent(id, t)
        BY ChainKept
      <4> QED BY <4>1, <4>3, <4>4
    <3>2. CASE d = m + 1
      <4>1. PICK k : k = Len(events')
        OBVIOUS
      <4>2. k \in Nat /\ TransitionsAt(d)' = k
        BY <1>1, <1>2, <1>4, <3>2, <4>1
      <4>3. id \in DOMAIN identities'
        BY <1>7, <2>1, <3>2
      <4>4. PICK q \in 1..k : events'[q].subject = id
        BY <4>1, <4>3 DEF VerifiedCurrent
      <4>5. (LastEvent(id, k) # 0)'
        <5> DEFINE S == {c \in 1..k : events'[c].subject = id}
        <5>1. LastEvent(id, k)' = Last(S) /\ S \subseteq 1..k /\ S # {}
          BY <4>4 DEF LastEvent
        <5>2. Last(S) \in S
          <6> HIDE DEF S
          <6> QED BY <4>2, <5>1, LastIsLargest
        <5> QED BY <5>1, <5>2
      <4> QED BY <4>2, <4>5
    <3> QED BY <1>1, <3>1, <3>2
  <2>2. ASSUME NEW id \in DOMAIN identities' PROVE CreatedAt(id, Len(outcomes))'
    BY <1>1, <1>7
  <2> QED BY <2>1, <2>2 DEF CreationsTold
<1> QED BY <1>4, <1>5, <1>6, <1>8 DEF RecInv, Grown, IsSequence

(* The row of a new decision, whatever it says. *)
RowFor(o, i) ==
  /\ outcomes' = Append(outcomes, o)
  /\ o.op = i.op /\ o.identity = Identity(i, Witnesses(i)) /\ o.witnesses = Witnesses(i)

LEMMA WitnessCount ==
  ASSUME NEW i \in Invocations
  PROVE  Cardinality(DOMAIN Witnesses(i)) <=
           CASE i.op \in {"createBead", "deleteLink", "putAlias", "deleteAlias"} -> 0
             [] i.op \in {"updateBead", "deleteBead"} -> 1
             [] OTHER -> 2
<1> DEFINE D == DOMAIN Witnesses(i)
<1>0. D \subseteq {i[s] : s \in Slots(i)}
  BY DEF Witnesses
<1>1. ASSUME NEW S, IsFiniteSet(S), D \subseteq S, NEW k \in Nat, Cardinality(S) <= k
      PROVE  Cardinality(D) <= k
  <2> HIDE DEF D
  <2>1. Cardinality(D) <= Cardinality(S) /\ IsFiniteSet(D)
    BY <1>1, FS_Subset
  <2>2. Cardinality(D) \in Nat /\ Cardinality(S) \in Nat
    BY <1>1, <2>1, FS_CardinalityType
  <2> QED BY <1>1, <2>1, <2>2
<1>2. CASE i.op \in {"createBead", "deleteLink", "putAlias", "deleteAlias"}
  <2>1. Slots(i) = {}
    BY <1>2 DEF Slots
  <2>2. D \subseteq {}
    BY <1>0, <2>1
  <2>3. Cardinality(D) <= 0
    BY <1>1, <2>2, FS_EmptySet
  <2> QED BY <1>2, <2>3
<1>3. CASE i.op \in {"updateBead", "deleteBead"}
  <2>1. Slots(i) = {"id"}
    BY <1>3 DEF Slots
  <2>2. D \subseteq {i.id}
    BY <1>0, <2>1
  <2>3. IsFiniteSet({i.id}) /\ Cardinality({i.id}) = 1
    BY FS_Singleton
  <2>4. Cardinality(D) <= 1
    BY <1>1, <2>2, <2>3
  <2> QED BY <1>3, <2>4
<1>4. CASE i.op \notin {"createBead", "deleteLink", "putAlias", "deleteAlias"}
             /\ i.op \notin {"updateBead", "deleteBead"}
  <2>1. Slots(i) \subseteq {"source", "target"}
    BY <1>4 DEF Slots
  <2>2. D \subseteq {i.source, i.target}
    BY <1>0, <2>1
  <2>3. IsFiniteSet({i.source, i.target}) /\ Cardinality({i.source, i.target}) <= 2
    <3>1. IsFiniteSet({i.source}) /\ Cardinality({i.source}) = 1
      BY FS_Singleton
    <3>2. /\ IsFiniteSet({i.source} \cup {i.target})
          /\ Cardinality({i.source} \cup {i.target})
               = IF i.target \in {i.source} THEN 1 ELSE 2
      BY <3>1, FS_AddElement
    <3>3. {i.source} \cup {i.target} = {i.source, i.target}
      OBVIOUS
    <3> QED BY <3>2, <3>3
  <2>4. Cardinality(D) <= 2
    BY <1>1, <2>2, <2>3
  <2> QED BY <1>4, <2>4
<1> QED BY <1>2, <1>3, <1>4

LEMMA AliasesAreTold ==
  ASSUME RecInv, NEW uri \in Uris
  PROVE  /\ uri \in DOMAIN aliases <=> AliasedAt(uri, Len(outcomes))
         /\ uri \in DOMAIN aliases =>
              /\ aliases[uri] = TargetAt(uri, Len(outcomes))
              /\ aliases[uri] # None
BY UrisAssumption DEF RecInv, VerifiedAliases, Placed

LEMMA NewWitnesses ==
  ASSUME RecInv, Grown, NEW i \in Invocations, NEW o, RowFor(o, i),
         NEW m, m = Len(outcomes)
  PROVE  VerifiedWitnesses(m + 1)'
<1>1. m \in Nat /\ outcomes'[m + 1] = o /\ (m + 1) - 1 = m /\ m \in 0..m
  BY OneMoreDecision DEF RecInv, RowFor
<1>2. PICK n : n = Len(events) /\ TransitionsAt(m) = n /\ TransitionsAt(m)' = n /\ n \in 0..Len(events)
  BY <1>1, DecisionsKept DEF RecInv, Versioned, IsSequence
<1>3. /\ \A id : CreatedAt(id, m)' <=> CreatedAt(id, m)
      /\ \A uri : AliasedAt(uri, m)' <=> AliasedAt(uri, m)
      /\ \A uri : AliasedAt(uri, m) => TargetAt(uri, m)' = TargetAt(uri, m)
  BY <1>1, DecisionsKept
<1>4. \A id \in DOMAIN identities : KindAt(id, n)' = identities[id]
  BY <1>2, ChainKept, TablesAreCurrent DEF RecInv, Versioned
<1>5. o.op = i.op /\ o.witnesses = Witnesses(i)
  BY DEF RowFor
<1>6. PICK w : w = Witnesses(i)
  OBVIOUS
<1>7. ASSUME NEW uri \in DOMAIN w, NEW target, target = w[uri]
      PROVE  /\ uri \in AliasNamespace \ Reserved
             /\ ~CreatedAt(uri, m)
             /\ IF target = None THEN ~AliasedAt(uri, m)
                ELSE /\ AliasedAt(uri, m) /\ TargetAt(uri, m) = target
                     /\ CreatedAt(target, m) /\ KindAt(target, n)' = "bead"
  <2>1. PICK s \in Slots(i) : uri = i[s]
    BY <1>6 DEF Witnesses
  <2>2. uri \in Uris \cup External
    BY <2>1, SlotsAreUris
  <2>3. ~IsDirect(uri) /\ target = AliasTarget(uri)
    BY <1>6, <1>7, <2>2 DEF Witnesses
  <2>4. uri \in AliasNamespace \ Reserved /\ uri \notin DOMAIN identities
    BY <2>3 DEF IsDirect, RecInv, Placed
  <2>5. uri \in Uris
    BY <2>4, UrisAssumption
  <2>6. uri \in DOMAIN aliases => aliases[uri] \in DOMAIN identities /\ identities[aliases[uri]] = "bead"
    BY DEF RecInv, Placed
  <2>7. uri \in DOMAIN aliases <=> AliasedAt(uri, m)
    BY <2>5, AliasesAreTold
  <2>8. ~CreatedAt(uri, m)
    BY <2>4, CreatedIsIdentity
  <2>9. CASE uri \notin DOMAIN aliases
    BY <2>3, <2>4, <2>7, <2>8, <2>9 DEF AliasTarget
  <2>10. CASE uri \in DOMAIN aliases
    <3>1. target = aliases[uri] /\ target = TargetAt(uri, m) /\ target # None
      BY <2>3, <2>5, <2>10, AliasesAreTold DEF AliasTarget
    <3>2. target \in DOMAIN identities /\ identities[target] = "bead"
      BY <2>6, <2>10, <3>1
    <3>3. CreatedAt(target, m) /\ KindAt(target, n)' = "bead"
      BY <1>4, <3>2, CreatedIsIdentity
    <3> QED BY <2>4, <2>7, <2>8, <2>10, <3>1, <3>3
  <2> QED BY <2>9, <2>10
<1>8. /\ outcomes'[m + 1].op = i.op /\ outcomes'[m + 1].witnesses = w
      /\ Cardinality(DOMAIN w) <=
           CASE i.op \in {"createBead", "deleteLink", "putAlias", "deleteAlias"} -> 0
             [] i.op \in {"updateBead", "deleteBead"} -> 1
             [] OTHER -> 2
  BY <1>1, <1>5, <1>6, WitnessCount
<1>9. ASSUME NEW uri \in DOMAIN w
      PROVE  /\ uri \in AliasNamespace \ Reserved
             /\ ~CreatedAt(uri, m)'
             /\ IF w[uri] = None THEN ~AliasedAt(uri, m)'
                ELSE /\ AliasedAt(uri, m)' /\ TargetAt(uri, m)' = w[uri]
                     /\ CreatedAt(w[uri], m)' /\ KindAt(w[uri], n)' = "bead"
  BY <1>3, <1>7
<1> QED BY <1>1, <1>2, <1>8, <1>9 DEF VerifiedWitnesses
-----------------------------------------------------------------------------
(* Versions and events. *)

LEMMA VersionIsEvent ==
  ASSUME RecInv, NEW v \in versions
  PROVE  /\ v.position \in 1..Len(events)
         /\ VersionOf(v.position, v) /\ events[v.position].kind = "bead" /\ Historical
<1>1. v.position \in 1..Len(events)
  BY DEF RecInv, VerifiedCurrent
<1>2. VerifiedVersion(v.position)
  BY <1>1 DEF RecInv, ChainStands, VerifiedEvent
<1>3. v \in {w \in versions : w.position = v.position}
  OBVIOUS
<1>4. Historical /\ events[v.position].kind = "bead"
  BY <1>2, <1>3 DEF VerifiedVersion
<1>5. PICK w : {u \in versions : u.position = v.position} = {w} /\ VersionOf(v.position, w)
  BY <1>2, <1>4 DEF VerifiedVersion
<1> QED BY <1>1, <1>3, <1>4, <1>5

LEMMA LatestIsLast ==
  ASSUME RecInv, Historical, NEW id \in DOMAIN identities, identities[id] = "bead",
         NEW n, n = Len(events)
  PROVE  /\ LatestVersion(id) \in versions /\ LatestVersion(id).id = id
         /\ LatestVersion(id).position = LastEvent(id, n)
         /\ LatestVersion(id).revision = events[LastEvent(id, n)].revision
         /\ LatestVersion(id).state = "deleted" <=> GoneAt(id, n)
<1> DEFINE l == LastEvent(id, n)
<1>1. n \in Nat /\ l \in 1..n /\ events[l].subject = id /\ KindAt(id, n) = "bead"
        /\ VerifiedEvent(l)
  BY TablesAreCurrent DEF RecInv, Versioned
<1>2. PICK v \in versions : v.position = l /\ VersionOf(l, v)
        /\ {w \in versions : w.position = l} = {v}
  <2>1. VerifiedVersion(l) /\ events[l].kind = "bead"
    BY <1>1 DEF VerifiedEvent, KindAt
  <2> HIDE DEF l
  <2>2. PICK v \in {w \in versions : w.position = l} :
          {w \in versions : w.position = l} = {v} /\ VersionOf(l, v)
    BY <2>1 DEF VerifiedVersion
  <2> QED BY <2>2
<1>3. v.id = id
  BY <1>1, <1>2 DEF VersionOf
<1>4. \A w \in VersionRows(id) : w.position \in 1..n /\ w.position <= l
  <2> TAKE w \in VersionRows(id)
  <2>1. w \in versions /\ w.id = id
    BY DEF VersionRows
  <2>2. w.position \in 1..n /\ events[w.position].subject = id
    BY <2>1, VersionIsEvent DEF VersionOf
  <2> QED BY <1>1, <2>2, LastEventIs
<1> DEFINE u == LatestVersion(id)
<1>5. u \in VersionRows(id) /\ \A w \in VersionRows(id) : w.position <= u.position
  <2>1. v \in VersionRows(id) /\ \A w \in VersionRows(id) : w.position <= v.position
    BY <1>2, <1>3, <1>4 DEF VersionRows
  <2> QED BY <2>1 DEF LatestVersion
<1> HIDE DEF u, l
<1>6. u.position = l
  <2>1. l <= u.position /\ u.position \in 1..n /\ u.position <= l
    BY <1>2, <1>3, <1>4, <1>5 DEF VersionRows
  <2> QED BY <1>1, <2>1
<1>7. u = v
  BY <1>2, <1>5, <1>6 DEF VersionRows
<1> QED BY <1>1, <1>2, <1>3, <1>6, <1>7 DEF u, l, VersionOf, GoneAt
-----------------------------------------------------------------------------
(* Decisions that make no transition. *)

LEMMA AliasesStand ==
  ASSUME RecInv, Placed', NEW o, outcomes' = Append(outcomes, o),
         \A id : id \in DOMAIN identities' <=> id \in DOMAIN identities \/ CreationOf(o, id),
         IF ~OnAlias(o) THEN aliases' = aliases
         ELSE IF o.op = "putAlias" THEN aliases' = Put(aliases, o.response.id, o.response.target)
         ELSE aliases' = Drop(aliases, o.response.id)
  PROVE  VerifiedAliases'
<1>1. PICK m : m = Len(outcomes)
  OBVIOUS
<1>2. /\ m \in Nat /\ Len(outcomes') = m + 1
      /\ \A id : CreatedAt(id, m + 1)' <=> CreatedAt(id, m) \/ CreationOf(o, id)
      /\ \A uri : IF OnAlias(o) /\ o.response.id = uri
                  THEN /\ AliasedAt(uri, m + 1)' <=> o.op = "putAlias"
                       /\ TargetAt(uri, m + 1)' = o.response.target
                  ELSE /\ AliasedAt(uri, m + 1)' <=> AliasedAt(uri, m)
                       /\ AliasedAt(uri, m) => TargetAt(uri, m + 1)' = TargetAt(uri, m)
  BY <1>1, OneMoreDecision DEF RecInv
<1>3. \A id : CreatedAt(id, m + 1)' <=> id \in DOMAIN identities'
  BY <1>1, <1>2, CreatedIsIdentity
<1>4. \A uri \in Uris :
        /\ uri \in DOMAIN aliases <=> AliasedAt(uri, m)
        /\ uri \in DOMAIN aliases => aliases[uri] = TargetAt(uri, m)
  BY <1>1, AliasesAreTold
<1>5. DOMAIN aliases' \subseteq Uris /\ DOMAIN aliases' \cap DOMAIN identities' = {}
  BY UrisAssumption DEF Placed
<1>6. ASSUME NEW uri \in Uris
      PROVE  /\ uri \in DOMAIN aliases' <=> AliasedAt(uri, m + 1)'
             /\ uri \in DOMAIN aliases' => aliases'[uri] = TargetAt(uri, m + 1)'
  <2>1. CASE ~OnAlias(o)
    BY <1>2, <1>4, <2>1
  <2>2. CASE OnAlias(o) /\ o.op = "putAlias"
    <3>1. /\ DOMAIN aliases' = DOMAIN aliases \cup {o.response.id}
          /\ uri \in DOMAIN aliases' =>
               aliases'[uri] = IF uri = o.response.id THEN o.response.target ELSE aliases[uri]
      BY <2>2 DEF Put
    <3> QED BY <1>2, <1>4, <2>2, <3>1
  <2>3. CASE OnAlias(o) /\ o.op # "putAlias"
    <3>1. /\ DOMAIN aliases' = DOMAIN aliases \ {o.response.id}
          /\ uri \in DOMAIN aliases' => aliases'[uri] = aliases[uri]
      BY <2>3 DEF Drop
    <3> QED BY <1>2, <1>4, <2>3, <3>1
  <2> QED BY <2>1, <2>2, <2>3
<1> QED BY <1>2, <1>3, <1>5, <1>6 DEF VerifiedAliases

PutRow(o) ==
  LET r == o.response IN
  /\ o.op = "putAlias" /\ r.id \in AliasNamespace \ Reserved /\ r.id \notin DOMAIN identities
  /\ r.target \in DOMAIN resources /\ identities[r.target] = "bead" /\ r.target \notin DOMAIN aliases
  /\ r.result = IF r.id \in DOMAIN aliases THEN "updated" ELSE "created"
  /\ aliases' = Put(aliases, r.id, r.target)

DropRow(o) ==
  /\ o.op = "deleteAlias" /\ o.response.id \in DOMAIN aliases /\ o.response.result = "deleted"
  /\ aliases' = Drop(aliases, o.response.id)

KindUpdated(op) == IF op = "updateBead" THEN "bead" ELSE "link"

UnchangedRow(o, i) ==
  LET r == o.response IN
  /\ r.result = "unchanged" /\ o.op \in {"updateBead", "updateLink"}
  /\ IsLive(r.id, KindUpdated(o.op)) /\ r.body = resources[r.id]
  /\ Historical /\ i.from # 0 =>
       /\ \E v \in versions : v.id = r.id /\ v.revision = i.from /\ v.state = "live"
       /\ \E v \in versions :
            /\ v.id = r.id /\ v.revision = r.body.revision /\ v.state = "live"
            /\ r.from = v.from /\ r.previous = v.previous
       /\ i.expected \in {0, r.body.revision}
  /\ aliases' = aliases

LEMMA RowRequest ==
  ASSUME NEW i \in Invocations, NEW o, RowFor(o, i)
  PROVE  /\ o.identity.request.op = i.op /\ o.op = i.op
         /\ o.identity.request.from = i.from /\ o.identity.request.expected = i.expected
         /\ o.op \in {"putAlias", "deleteAlias"} => DOMAIN o.witnesses = {}
<1>1. {"op", "from", "expected"} \subseteq DOMAIN i
  BY InvocationsAssumption DEF Invocation
<1>2. Slots(i) \subseteq {"id", "source", "target"}
  BY DEF Slots
<1>3. o.op \in {"putAlias", "deleteAlias"} => DOMAIN o.witnesses = {}
  BY DEF RowFor, Witnesses, Slots
<1> QED BY <1>1, <1>2, <1>3 DEF RowFor, Identity

LEMMA QuietStep ==
  ASSUME RecInv, Placed', NEW i \in Invocations, NEW o, RowFor(o, i),
         UNCHANGED <<identities, resources, events, versions>>, o.position = 0,
         \/ ~Success(o) /\ aliases' = aliases
         \/ PutRow(o) \/ DropRow(o) \/ UnchangedRow(o, i)
  PROVE  RecInv'
<1> DEFINE r == o.response
<1>1. PICK n, m : n = Len(events) /\ m = Len(outcomes)
  OBVIOUS
<1>2. outcomes' = Append(outcomes, o) /\ n \in Nat /\ m \in Nat
        /\ outcomes'[m + 1] = o /\ IsSequence(outcomes') /\ Extends(outcomes', outcomes)
        /\ (Succeeded(m + 1)' <=> Success(o))
  <2>1. outcomes' = Append(outcomes, o) /\ IsSequence(outcomes)
    BY DEF RowFor, RecInv
  <2>2. m \in Nat /\ outcomes'[m + 1] = o /\ (Succeeded(m + 1)' <=> Success(o))
    BY <1>1, <2>1, OneMoreDecision
  <2>3. IsSequence(outcomes') /\ Extends(outcomes', outcomes)
    BY <2>1, AppendFacts DEF Extends
  <2>4. n \in Nat
    BY <1>1 DEF RecInv, Versioned, IsSequence
  <2> QED BY <2>1, <2>2, <2>3, <2>4
<1>3. Grown
  BY <1>1, <1>2 DEF Grown, RecInv, Versioned, IsSequence, Extends
<1>4. Versioned'
  BY TransitionVersioned DEF RecInv, NoTransition
<1>5. VerifiedCurrent' /\ FreshContext'
  <2>1. \A id : \A q : LastEvent(id, q)' = LastEvent(id, q)
    BY DEF LastEvent
  <2>2. \A id : \A q : (LiveAt(id, q)' <=> LiveAt(id, q))
          /\ BodyAt(id, q)' = BodyAt(id, q) /\ KindAt(id, q)' = KindAt(id, q)
    BY <2>1 DEF LiveAt, BodyAt, KindAt
  <2>3. VerifiedCurrent'
    BY <2>2 DEF RecInv, VerifiedCurrent
  <2> QED BY <2>3 DEF RecInv, FreshContext
<1>6. \A id : ~CreationOf(o, id)
  BY DEF CreationOf, PutRow, DropRow, UnchangedRow
<1>7. VerifiedAliases'
  BY <1>2, <1>6, AliasesStand DEF OnAlias, Success, PutRow, DropRow, UnchangedRow
<1>8. /\ TransitionsAt(m)' = n
      /\ \A id : CreatedAt(id, m)' <=> CreatedAt(id, m)
      /\ \A uri : AliasedAt(uri, m)' <=> AliasedAt(uri, m)
      /\ \A id : LiveAt(id, n)' <=> LiveAt(id, n)
      /\ \A id : LiveAt(id, n) => /\ BodyAt(id, n)' = BodyAt(id, n)
                                  /\ KindAt(id, n)' = KindAt(id, n)
  BY <1>1, <1>2, <1>3, DecisionsKept, ChainKept DEF RecInv, LiveAt
<1>9. /\ \A id : id \in DOMAIN resources <=> LiveAt(id, n)
      /\ \A id \in DOMAIN resources : KindAt(id, n) = identities[id] /\ BodyAt(id, n) = resources[id]
  BY <1>1, TablesAreCurrent DEF RecInv, Versioned
<1>10. VerifiedDecision(m + 1)'
  <2>1. VerifiedWitnesses(m + 1)' /\ o.op = o.identity.request.op /\ (m + 1) - 1 = m
    BY <1>1, <1>2, <1>3, NewWitnesses, RowRequest
  <2>2. CASE ~Success(o)
    BY <1>2, <2>1, <2>2 DEF VerifiedDecision
  <2>3. CASE Success(o) /\ (PutRow(o) \/ DropRow(o))
    <3>1. VerifiedAliasDecision(m + 1)'
      <4>1. DOMAIN o.witnesses = {}
        BY <2>3, RowRequest DEF PutRow, DropRow
      <4>2. r.id \in AliasNamespace \ Reserved
        BY <2>3 DEF PutRow, DropRow, RecInv, Placed
      <4>3. CASE PutRow(o)
        <5>1. ~CreatedAt(r.id, m) /\ ~AliasedAt(r.target, m)
                /\ (r.id \in DOMAIN aliases <=> AliasedAt(r.id, m))
          <6>1. r.target \in Uris /\ r.id \in Uris
            BY <4>3, UrisAssumption DEF PutRow, RecInv, Placed
          <6> QED BY <1>1, <4>3, <6>1, CreatedIsIdentity, AliasesAreTold DEF PutRow
        <5>2. PICK id, target : r.id = id /\ r.target = target
          OBVIOUS
        <5>3. LiveAt(target, n)' /\ KindAt(target, n)' = "bead"
          BY <1>8, <1>9, <4>3, <5>2 DEF PutRow
        <5> QED BY <1>2, <1>8, <2>1, <4>1, <4>2, <4>3, <5>1, <5>2, <5>3
                DEF VerifiedAliasDecision, PutRow
      <4>4. CASE DropRow(o)
        <5>1. AliasedAt(r.id, m)
          <6>1. r.id \in Uris
            BY <4>4, UrisAssumption DEF DropRow, RecInv, Placed
          <6> QED BY <1>1, <4>4, <6>1, AliasesAreTold DEF DropRow
        <5> QED BY <1>2, <1>8, <2>1, <4>1, <4>2, <4>4, <5>1 DEF VerifiedAliasDecision, DropRow
      <4> QED BY <2>3, <4>3, <4>4
    <3> QED BY <1>2, <2>1, <2>3, <3>1 DEF VerifiedDecision, PutRow, DropRow
  <2>4. CASE Success(o) /\ UnchangedRow(o, i)
    <3>1. PICK id, body : r.id = id /\ r.body = body
      OBVIOUS
    <3>2. id \in DOMAIN resources /\ body = resources[id] /\ identities[id] = KindUpdated(o.op)
      BY <2>4, <3>1 DEF UnchangedRow, IsLive
    <3>3. LiveAt(id, n)' /\ KindAt(id, n)' = KindUpdated(o.op) /\ BodyAt(id, n)' = body
      BY <1>8, <1>9, <3>2
    <3>4. VerifiedHistorical(m + 1)'
      <4> SUFFICES ASSUME Historical, o.op = "updateBead", i.from # 0
            PROVE  /\ \E q \in 1..n : events'[q].subject = id /\ events'[q].verb # "delete"
                                        /\ events'[q].revision = i.from
                   /\ \E v \in versions' :
                        /\ v.id = id /\ v.revision = body.revision /\ v.state = "live"
                        /\ r.from = v.from /\ r.previous = v.previous
                   /\ i.expected \in {0, BodyAt(id, n)'.revision}
        BY <1>2, <1>8, <2>1, <3>1, RowRequest DEF VerifiedHistorical
      <4>1. PICK v \in versions : v.id = id /\ v.revision = i.from /\ v.state = "live"
        BY <2>4, <3>1 DEF UnchangedRow
      <4>2. v.position \in 1..n /\ VersionOf(v.position, v)
        BY <1>1, <4>1, VersionIsEvent
      <4>3. events[v.position].subject = id /\ events[v.position].verb # "delete"
              /\ events[v.position].revision = i.from
        BY <4>1, <4>2 DEF VersionOf
      <4> QED BY <2>4, <3>1, <3>3, <4>2, <4>3 DEF UnchangedRow
    <3>5. o.op \in {"updateBead", "updateLink"} /\ r.result = "unchanged"
      BY <2>4 DEF UnchangedRow
    <3>6. VerifiedResourceDecision(m + 1)'
      BY <1>2, <1>8, <2>1, <3>1, <3>3, <3>4, <3>5
         DEF VerifiedResourceDecision, OperationOf, KindUpdated
    <3> QED BY <1>2, <2>1, <2>4, <3>5, <3>6 DEF VerifiedDecision
  <2> QED BY <2>2, <2>3, <2>4
<1> QED BY <1>1, <1>2, <1>3, <1>4, <1>5, <1>6, <1>7, <1>10, DecisionRecorded DEF EventAdded
-----------------------------------------------------------------------------
(* Decisions that make a transition. *)

(* The rows a completed transition adds. *)
Moved(o, e, n, kind, verb, id, body, from, previous) ==
  LET terminal == Terminal(kind, verb)
      context == IF from = 0 THEN 0 ELSE previous IN
  /\ e.subject = id /\ e.kind = kind /\ e.verb = verb /\ e.body = body
  /\ e.revision = IF verb = "delete" /\ ~terminal THEN body.revision ELSE n + 1
  /\ e.previous = IF verb = "delete" /\ ~terminal THEN 0 ELSE previous
  /\ e.incident = Incident(kind, verb, id, body)
  /\ o.position = n + 1
  /\ o.response = Response(ResultOf(verb), id, body, None, from, context)
  /\ events' = Append(events, e)
  /\ resources' = IF verb = "delete" THEN Drop(resources, id) ELSE Put(resources, id, body)
  /\ identities' = IF verb = "create" THEN Put(identities, id, kind) ELSE identities
  /\ aliases' = aliases
  /\ IF ~(Historical /\ kind = "bead") THEN versions' = versions
     ELSE \E v :
            /\ versions' = versions \cup {v}
            /\ v.id = id /\ v.revision = e.revision /\ v.position = n + 1 /\ v.from = from
            /\ v.state = IF terminal THEN "deleted" ELSE "live"
            /\ v.body = IF terminal THEN None ELSE body
            /\ v.previous = IF terminal THEN previous ELSE context

LEMMA CompleteShape ==
  ASSUME NEW p, NEW k, NEW i, NEW kind, NEW verb, NEW id, NEW body, NEW from, NEW previous,
         Complete(p, k, i, kind, verb, id, body, from, previous), NEW n, n = Len(events)
  PROVE  \E o : RowFor(o, i) /\ \E e : Moved(o, e, n, kind, verb, id, body, from, previous)
<1> DEFINE terminal == Terminal(kind, verb)
           revision == IF verb = "delete" /\ ~terminal THEN body.revision ELSE n + 1
           context == IF from = 0 THEN 0 ELSE previous
           response == Response(ResultOf(verb), id, body, None, from, context)
           o == [principal |-> p, key |-> k, op |-> i.op, identity |-> Identity(i, Witnesses(i)),
                 witnesses |-> Witnesses(i), response |-> response, position |-> n + 1,
                 request |-> i]
           e == [subject |-> id, kind |-> kind, verb |-> verb, revision |-> revision,
                 body |-> body, previous |-> IF verb = "delete" /\ ~terminal THEN 0 ELSE previous,
                 incident |-> Incident(kind, verb, id, body)]
           v == [id |-> id, revision |-> revision, position |-> n + 1, from |-> from,
                 state |-> IF terminal THEN "deleted" ELSE "live",
                 body |-> IF terminal THEN None ELSE body,
                 previous |-> IF terminal THEN previous ELSE context]
<1>1. /\ resources' = IF verb = "delete" THEN Drop(resources, id) ELSE Put(resources, id, body)
      /\ identities' = IF verb = "create" THEN Put(identities, id, kind) ELSE identities
      /\ aliases' = aliases
  BY DEF Complete
<1>2. events' = Append(events, e)
  BY Zenon DEF Complete, Revision
<1>3. outcomes' = Append(outcomes, o)
  BY Zenon DEF Complete, Revision, Decide
<1>4. versions' = IF ~(Historical /\ kind = "bead") THEN versions ELSE versions \cup {v}
  BY Zenon DEF Complete, Revision
<1>5. RowFor(o, i)
  BY <1>3 DEF RowFor
<1>6. /\ v.id = id /\ v.revision = revision /\ v.position = n + 1 /\ v.from = from
      /\ v.state = IF terminal THEN "deleted" ELSE "live"
      /\ v.body = IF terminal THEN None ELSE body
      /\ v.previous = IF terminal THEN previous ELSE context
  OBVIOUS
<1>7. /\ e.subject = id /\ e.kind = kind /\ e.verb = verb /\ e.body = body
      /\ e.revision = revision
      /\ e.previous = IF verb = "delete" /\ ~terminal THEN 0 ELSE previous
      /\ e.incident = Incident(kind, verb, id, body)
      /\ o.position = n + 1 /\ o.response = response
  OBVIOUS
<1> HIDE DEF o, e, v
<1>8. Moved(o, e, n, kind, verb, id, body, from, previous)
  BY <1>1, <1>2, <1>4, <1>6, <1>7, Zenon DEF Moved
<1> QED BY <1>5, <1>8

(* What the request's checks established before the transition. *)
Ready(i, kind, verb, id, body, from, previous, n) ==
  /\ kind \in Kinds /\ id \in Uris
  /\ Completable(kind, verb, id, body, previous)
  /\ i.op = OperationOf(verb, kind)
  /\ verb # "update" => from = 0
  /\ verb # "delete" => EndpointRefusal(kind, body) = "none"
  /\ verb = "create" => id \notin DOMAIN aliases /\ previous = 0
  /\ verb = "update" =>
       /\ from = i.from
       /\ previous = events[LastEvent(id, n)].revision
       /\ i.expected \in {0, previous}
       /\ id \notin DOMAIN resources => from # 0
       /\ from # 0 => /\ Historical /\ kind = "bead"
                      /\ \E v \in versions : v.id = id /\ v.revision = from /\ v.state = "live"
  /\ verb = "delete" /\ kind = "bead" => IncidentLinks(id) = {}

LEMMA MovedGrows ==
  ASSUME RecInv, NEW i, NEW o, RowFor(o, i), NEW n, n = Len(events), NEW e,
         NEW kind, NEW verb, NEW id, NEW body, NEW from, NEW previous,
         Moved(o, e, n, kind, verb, id, body, from, previous),
         Ready(i, kind, verb, id, body, from, previous, n)
  PROVE  /\ Grown
         /\ n \in Nat /\ Len(events') = n + 1 /\ events'[n + 1] = e
         /\ \A q \in 1..n : events'[q] = events[q]
         /\ \A v \in versions : v.position \in 1..n
         /\ \A v \in versions' : v \in versions \/ v.position = n + 1
<1>1. IsSequence(events) /\ IsSequence(outcomes) /\ \A v \in versions : v.position \in 1..n
  BY DEF RecInv, Versioned
<1>2. outcomes' = Append(outcomes, o) /\ events' = Append(events, e)
  BY DEF RowFor, Moved
<1>3. /\ IsSequence(events') /\ Extends(events', events)
      /\ n \in Nat /\ Len(events') = n + 1 /\ events'[n + 1] = e
      /\ \A q \in 1..n : events'[q] = events[q]
  BY <1>1, <1>2, AppendFacts DEF Extends
<1>4. IsSequence(outcomes') /\ Extends(outcomes', outcomes)
  BY <1>1, <1>2, AppendFacts DEF Extends
<1>5. versions \subseteq versions' /\ \A v \in versions' : v \in versions \/ v.position = n + 1
  BY DEF Moved
<1>6. \A x \in DOMAIN identities : x \in DOMAIN identities' /\ identities'[x] = identities[x]
  BY DEF Moved, Ready, Completable, Put
<1> QED BY <1>1, <1>3, <1>4, <1>5, <1>6 DEF Grown

(* The subject just before its transition. *)
LEMMA SubjectBefore ==
  ASSUME RecInv, NEW i, NEW o, RowFor(o, i), NEW n, n = Len(events), NEW e,
         NEW kind, NEW verb, NEW id, NEW body, NEW from, NEW previous,
         Moved(o, e, n, kind, verb, id, body, from, previous),
         Ready(i, kind, verb, id, body, from, previous, n)
  PROVE  \E l \in 0..n :
           /\ LastEvent(id, n) = l /\ LastEvent(id, n)' = l
           /\ verb = "create" <=> l = 0
           /\ id \in DOMAIN identities <=> l # 0
           /\ l # 0 => /\ events'[l] = events[l] /\ events[l].kind = kind /\ identities[id] = kind
                       /\ events[l].revision \in 1..n
                       /\ events[l].verb = "delete" <=> id \notin DOMAIN resources
           /\ id \in DOMAIN resources =>
                /\ l # 0 /\ resources[id] = events[l].body
                /\ resources[id].revision = events[l].revision
           /\ \A r \in RevisionsAt(id, n)' : r \in 1..n
           /\ verb = "delete" => id \in DOMAIN resources /\ body = resources[id]
                                   /\ previous = resources[id].revision
           /\ verb \in {"create", "update", "delete"}
           /\ verb # "delete" => body.revision = n + 1
<1>1. PICK l : l = LastEvent(id, n)
  OBVIOUS
<1>2. /\ Grown /\ n \in Nat /\ n \in 0..Len(events)
      /\ \A q \in 1..n : events'[q] = events[q]
  BY MovedGrows
<1>3. l \in 0..n /\ LastEvent(id, n)' = l /\ RevisionsAt(id, n)' = RevisionsAt(id, n)
  BY <1>1, <1>2, ChainKept
<1>4. /\ id \in DOMAIN identities <=> l # 0
      /\ id \in DOMAIN resources <=> l # 0 /\ events[l].verb # "delete"
      /\ id \in DOMAIN identities => events[l].kind = identities[id] /\ l \in 1..n
      /\ id \in DOMAIN resources => /\ events[l].body = resources[id]
                                    /\ events[l].revision = resources[id].revision
  BY <1>1, TablesAreCurrent DEF RecInv, Versioned, LiveAt, KindAt, BodyAt
<1>5. \A q \in 1..n : events[q].revision \in 1..q
  BY DEF RecInv, ChainStands, EventSound
<1>6. \A r \in RevisionsAt(id, n) : r \in 1..n
  BY <1>2, <1>5 DEF RevisionsAt
<1>7. l # 0 => events[l].revision \in 1..n
  BY <1>2, <1>3, <1>5
<1>8. /\ verb = "create" => id \notin DOMAIN identities
      /\ verb # "create" => id \in DOMAIN identities /\ identities[id] = kind
      /\ verb = "delete" => id \in DOMAIN resources /\ body = resources[id]
                              /\ previous = resources[id].revision
      /\ verb \in {"create", "update", "delete"}
      /\ verb # "delete" => body.revision = n + 1
  BY DEF Ready, Completable, IsLive, RecInv, Placed, Revision
<1> QED BY <1>1, <1>2, <1>3, <1>4, <1>6, <1>7, <1>8

LEMMA NewPostimage ==
  ASSUME RecInv, NEW i, NEW o, RowFor(o, i), NEW n, n = Len(events), NEW e,
         NEW kind, NEW verb, NEW id, NEW body, NEW from, NEW previous,
         Moved(o, e, n, kind, verb, id, body, from, previous),
         Ready(i, kind, verb, id, body, from, previous, n), verb # "delete"
  PROVE  VerifiedPostimage(n + 1)'
<1>1. PICK l \in 0..n :
           /\ LastEvent(id, n) = l /\ LastEvent(id, n)' = l
           /\ verb = "create" <=> l = 0
           /\ id \in DOMAIN identities <=> l # 0
           /\ l # 0 => /\ events'[l] = events[l] /\ events[l].kind = kind /\ identities[id] = kind
                       /\ events[l].revision \in 1..n
                       /\ events[l].verb = "delete" <=> id \notin DOMAIN resources
           /\ \A r \in RevisionsAt(id, n)' : r \in 1..n
           /\ verb \in {"create", "update", "delete"}
           /\ verb # "delete" => body.revision = n + 1
  BY SubjectBefore
<1>2. Grown /\ n \in Nat /\ (n + 1) - 1 = n /\ events'[n + 1] = e
  BY MovedGrows
<1>3. /\ e.subject = id /\ e.kind = kind /\ e.verb = verb /\ e.body = body
      /\ e.revision = n + 1 /\ e.previous = previous
  BY DEF Moved
<1>4. GoneAt(id, n)' => Historical /\ kind = "bead"
  BY <1>1 DEF GoneAt, Ready
<1>5. previous = IF l = 0 THEN 0 ELSE events'[l].revision
  BY <1>1 DEF Ready
<1>6. e.revision \notin RevisionsAt(id, n)'
  BY <1>1, <1>2, <1>3
<1>7. kind = "link" => AdmissibleEndpointsAt(body, n)'
  <2> HAVE kind = "link"
  <2>1. /\ LocalEndpoints(body) # {}
        /\ \A uri \in LocalEndpoints(body) : IsLive(uri, "bead")
    BY AdmittedEndpoints DEF Ready
  <2>2. \A uri : IsLive(uri, "bead") => LiveAt(uri, n)' /\ KindAt(uri, n)' = "bead"
    BY <1>2, ChainKept, TablesAreCurrent DEF IsLive, RecInv, Versioned, LiveAt
  <2> QED BY <2>1, <2>2 DEF AdmissibleEndpointsAt, LocalEndpoints
<1> QED BY <1>1, <1>2, <1>3, <1>4, <1>5, <1>6, <1>7 DEF VerifiedPostimage

LEMMA NewDeletion ==
  ASSUME RecInv, NEW i, NEW o, RowFor(o, i), NEW n, n = Len(events), NEW e,
         NEW kind, NEW verb, NEW id, NEW body, NEW from, NEW previous,
         Moved(o, e, n, kind, verb, id, body, from, previous),
         Ready(i, kind, verb, id, body, from, previous, n), verb = "delete"
  PROVE  VerifiedDeletion(n + 1)'
<1>1. PICK l \in 0..n :
           /\ LastEvent(id, n) = l /\ LastEvent(id, n)' = l
           /\ l # 0 => /\ events'[l] = events[l] /\ events[l].kind = kind
                       /\ events[l].verb = "delete" <=> id \notin DOMAIN resources
           /\ id \in DOMAIN resources =>
                /\ l # 0 /\ resources[id] = events[l].body
                /\ resources[id].revision = events[l].revision
           /\ \A r \in RevisionsAt(id, n)' : r \in 1..n
           /\ id \in DOMAIN resources /\ body = resources[id] /\ previous = resources[id].revision
  BY SubjectBefore
<1>2. Grown /\ n \in Nat /\ n \in 0..Len(events) /\ (n + 1) - 1 = n /\ events'[n + 1] = e
  BY MovedGrows
<1>3. /\ e.subject = id /\ e.kind = kind /\ e.verb = verb /\ e.body = body
      /\ IF Historical /\ kind = "bead"
         THEN e.revision = n + 1 /\ e.previous = previous
         ELSE e.revision = body.revision /\ e.previous = 0
  BY DEF Moved, Terminal
<1>4. LiveAt(id, n)' /\ KindAt(id, n)' = kind /\ BodyAt(id, n)' = body
  BY <1>1 DEF LiveAt, KindAt, BodyAt
<1>5. kind = "bead" => ~IncidentLinkAt(id, n)'
  <2> SUFFICES ASSUME kind = "bead", IncidentLinkAt(id, n)' PROVE FALSE
    OBVIOUS
  <2>1. IncidentLinkAt(id, n)
    BY <1>2, IncidenceKept DEF RecInv, ChainStands
  <2>2. PICK link \in DOMAIN identities :
          /\ LiveAt(link, n) /\ KindAt(link, n) = "link"
          /\ id \in {BodyAt(link, n).source, BodyAt(link, n).target}
    BY <2>1 DEF IncidentLinkAt
  <2>3. link \in DOMAIN resources /\ identities[link] = "link" /\ BodyAt(link, n) = resources[link]
    BY <2>2, TablesAreCurrent DEF RecInv, Versioned
  <2>4. link \in IncidentLinks(id)
    BY <2>2, <2>3 DEF IncidentLinks
  <2> QED BY <2>4 DEF Ready
<1>6. e.revision = n + 1 => e.revision \notin RevisionsAt(id, n)'
  BY <1>1, <1>2
<1>7. body.revision = previous
  BY <1>1
<1> QED BY <1>2, <1>3, <1>4, <1>5, <1>6, <1>7 DEF VerifiedDeletion

LEMMA NewVersion ==
  ASSUME RecInv, NEW i, NEW o, RowFor(o, i), NEW n, n = Len(events), NEW e,
         NEW kind, NEW verb, NEW id, NEW body, NEW from, NEW previous,
         Moved(o, e, n, kind, verb, id, body, from, previous),
         Ready(i, kind, verb, id, body, from, previous, n)
  PROVE  /\ VerifiedVersion(n + 1)'
         /\ \A v \in versions' : v.position = n + 1 => v.from = from
         /\ FreshContext'
<1>1. PICK l \in 0..n :
           /\ LastEvent(id, n) = l /\ LastEvent(id, n)' = l
           /\ verb = "create" <=> l = 0
           /\ id \in DOMAIN identities <=> l # 0
           /\ l # 0 => /\ events'[l] = events[l] /\ events[l].kind = kind
                       /\ events[l].verb = "delete" <=> id \notin DOMAIN resources
           /\ id \in DOMAIN resources => l # 0
           /\ verb = "delete" => id \in DOMAIN resources
           /\ verb \in {"create", "update", "delete"}
           /\ verb # "delete" => body.revision = n + 1
  BY SubjectBefore
<1>2. /\ Grown /\ n \in Nat /\ (n + 1) - 1 = n /\ events'[n + 1] = e
      /\ \A q \in 1..n : events'[q] = events[q]
      /\ \A v \in versions : v.position \in 1..n
  BY MovedGrows
<1>3. e.subject = id /\ e.kind = kind /\ e.verb = verb /\ e.body = body
  BY DEF Moved
<1>4. CASE ~(Historical /\ kind = "bead")
  <2>1. versions' = versions
    BY <1>4 DEF Moved
  <2>2. \A v \in versions' : v.position # n + 1
    BY <1>2, <2>1
  <2>3. {v \in versions' : v.position = n + 1} = {}
    BY <2>2
  <2> QED BY <1>2, <1>3, <1>4, <2>1, <2>2, <2>3 DEF VerifiedVersion, RecInv, FreshContext
<1>5. CASE Historical /\ kind = "bead"
  <2>1. Terminal(kind, verb) <=> verb = "delete"
    BY <1>5 DEF Terminal
  <2>2. PICK v :
            /\ versions' = versions \cup {v}
            /\ v.id = id /\ v.revision = e.revision /\ v.position = n + 1 /\ v.from = from
            /\ v.state = IF verb = "delete" THEN "deleted" ELSE "live"
            /\ v.body = IF verb = "delete" THEN None ELSE body
            /\ v.previous = IF verb = "delete" THEN previous ELSE IF from = 0 THEN 0 ELSE previous
    BY <1>5, <2>1 DEF Moved
  <2>3. {w \in versions' : w.position = n + 1} = {v}
    BY <1>2, <2>2
  <2>4. verb = "delete" => from = 0 /\ e.previous = previous
    BY <2>1 DEF Ready, Moved
  <2>5. VersionOf(n + 1, v)'
    BY <1>2, <1>3, <2>2, <2>4 DEF VersionOf
  <2>6. from # 0 =>
          /\ verb = "update"
          /\ \E q \in 1..n : events'[q].subject = id /\ events'[q].verb # "delete"
                              /\ events'[q].revision = from
          /\ previous = events'[l].revision
    <3> HAVE from # 0
    <3>1. verb = "update" /\ previous = events[l].revision
      BY <1>1 DEF Ready
    <3>2. PICK w \in versions : w.id = id /\ w.revision = from /\ w.state = "live"
      BY <3>1 DEF Ready
    <3>3. w.position \in 1..n /\ VersionOf(w.position, w)
      BY <3>2, VersionIsEvent
    <3>4. events[w.position].subject = id /\ events[w.position].verb # "delete"
            /\ events[w.position].revision = from
      BY <3>2, <3>3 DEF VersionOf
    <3> QED BY <1>1, <1>2, <3>1, <3>3, <3>4
  <2>7. VersionContext(n + 1, v)'
    BY <1>1, <1>2, <1>3, <2>2, <2>6 DEF VersionContext
  <2>8. verb # "delete" /\ GoneAt(id, n)' => from # 0
    BY <1>1 DEF GoneAt, Ready
  <2>9. VerifiedVersion(n + 1)'
    BY <1>2, <1>3, <1>5, <2>2, <2>3, <2>5, <2>7, <2>8 DEF VerifiedVersion
  <2>10. FreshContext'
    BY <2>2 DEF RecInv, FreshContext
  <2> QED BY <1>2, <2>2, <2>9, <2>10
<1> QED BY <1>4, <1>5

LEMMA NewEvent ==
  ASSUME RecInv, NEW i, NEW o, RowFor(o, i), NEW n, n = Len(events), NEW e,
         NEW kind, NEW verb, NEW id, NEW body, NEW from, NEW previous,
         Moved(o, e, n, kind, verb, id, body, from, previous),
         Ready(i, kind, verb, id, body, from, previous, n)
  PROVE  EventSound(n + 1)' /\ VerifiedEvent(n + 1)'
<1>1. PICK l \in 0..n :
           /\ LastEvent(id, n) = l /\ LastEvent(id, n)' = l
           /\ verb = "create" <=> l = 0
           /\ l # 0 => /\ events'[l] = events[l] /\ identities[id] = kind
                       /\ events[l].revision \in 1..n
                       /\ events[l].verb = "delete" <=> id \notin DOMAIN resources
           /\ id \in DOMAIN identities <=> l # 0
           /\ id \in DOMAIN resources =>
                /\ l # 0 /\ resources[id] = events[l].body
                /\ resources[id].revision = events[l].revision
           /\ verb = "delete" => id \in DOMAIN resources /\ body = resources[id]
           /\ verb \in {"create", "update", "delete"}
           /\ verb # "delete" => body.revision = n + 1
  BY SubjectBefore
<1>2. /\ Grown /\ n \in Nat /\ (n + 1) - 1 = n /\ events'[n + 1] = e
      /\ \A v \in versions : v.position \in 1..n
  BY MovedGrows
<1>3. e.subject = id /\ e.kind = kind /\ e.verb = verb /\ e.body = body
  BY DEF Moved
<1>4. EventSound(n + 1)'
  <2>1. e.revision \in 1..(n + 1)
    BY <1>1, <1>2 DEF Moved
  <2>2. id \in DOMAIN identities' /\ identities'[id] = kind
    BY <1>1 DEF Moved, Put
  <2> QED BY <1>1, <1>2, <1>3, <2>1, <2>2 DEF EventSound
<1>5. events'[n + 1].incident = IncidenceAt(n + 1)'
  <2>1. e.incident = Incident(kind, verb, id, body)
    BY DEF Moved
  <2>2. LiveAt(id, n)' <=> id \in DOMAIN resources
    BY <1>1 DEF LiveAt
  <2>3. id \in DOMAIN resources => BodyAt(id, n)' = resources[id]
    BY <1>1 DEF BodyAt
  <2>4. kind # "link" <=> kind = "bead"
    BY DEF Ready, Kinds
  <2> QED BY <1>2, <1>3, <2>1, <2>2, <2>3, <2>4 DEF IncidenceAt, Incident, LocalEndpoints
<1>6. VerifiedTransition(n + 1)'
  <2>1. PICK m : m = Len(outcomes)
    OBVIOUS
  <2>2. m \in Nat /\ Len(outcomes') = m + 1 /\ outcomes'[m + 1] = o
    BY <2>1, OneMoreDecision DEF RecInv, RowFor
  <2>3. /\ o.position = n + 1 /\ o.op = OperationOf(verb, kind)
        /\ o.response.result = ResultOf(verb)
        /\ o.response.id = id /\ o.response.body = body /\ o.response.from = from
    BY DEF Moved, RowFor, Ready, Response
  <2>4. \A v \in versions' : v.position = n + 1 => v.from = from
    BY NewVersion
  <2>5. m + 1 \in 1..Len(outcomes')
    BY <2>2
  <2>6. \E d \in 1..Len(outcomes') :
           /\ outcomes'[d].position = n + 1
           /\ outcomes'[d].op = OperationOf(verb, kind)
           /\ outcomes'[d].response.result = ResultOf(verb)
           /\ outcomes'[d].response.id = id
           /\ outcomes'[d].response.body = body
           /\ \A v \in versions' : v.position = n + 1 /\ verb # "delete"
                                      => outcomes'[d].response.from = v.from
    BY <2>2, <2>3, <2>4, <2>5
  <2> QED BY <1>2, <1>3, <2>6 DEF VerifiedTransition, OperationOf, ResultOf
<1>7. VerifiedVersion(n + 1)'
  BY NewVersion
<1>8. IF verb = "delete" THEN VerifiedDeletion(n + 1)' ELSE VerifiedPostimage(n + 1)'
  BY NewDeletion, NewPostimage
<1> QED BY <1>2, <1>3, <1>4, <1>5, <1>6, <1>7, <1>8 DEF VerifiedEvent

LEMMA NewCurrent ==
  ASSUME RecInv, NEW i, NEW o, RowFor(o, i), NEW n, n = Len(events), NEW e,
         NEW kind, NEW verb, NEW id, NEW body, NEW from, NEW previous,
         Moved(o, e, n, kind, verb, id, body, from, previous),
         Ready(i, kind, verb, id, body, from, previous, n)
  PROVE  VerifiedCurrent'
<1>a. Grown /\ n \in Nat /\ Len(events') = n + 1 /\ events'[n + 1] = e
  BY MovedGrows
<1>b. /\ \A q \in 1..n : events'[q] = events[q]
      /\ \A v \in versions : v.position \in 1..n
  BY MovedGrows
<1>c. \A v \in versions' : v \in versions \/ v.position = n + 1
  BY MovedGrows
<1>1. /\ Grown /\ n \in Nat /\ Len(events') = n + 1 /\ events'[n + 1] = e
      /\ \A q \in 1..n : events'[q] = events[q]
      /\ \A v \in versions : v.position \in 1..n
      /\ \A v \in versions' : v \in versions \/ v.position = n + 1
  BY <1>a, <1>b, <1>c
<1>2. e.subject = id /\ e.kind = kind /\ e.verb = verb /\ e.body = body
  BY DEF Moved
<1>3. /\ verb = "create" => id \notin DOMAIN identities
      /\ verb # "create" => id \in DOMAIN identities /\ identities[id] = kind
  BY DEF Ready, Completable, IsLive, RecInv, Placed
<1>4. /\ DOMAIN identities' = DOMAIN identities \cup {id} /\ identities'[id] = kind
      /\ \A x \in DOMAIN identities : identities'[x] = identities[x]
      /\ DOMAIN resources' = IF verb = "delete" THEN DOMAIN resources \ {id}
                             ELSE DOMAIN resources \cup {id}
      /\ verb # "delete" => resources'[id] = body
      /\ \A x \in DOMAIN resources : x # id => resources'[x] = resources[x]
  BY <1>3 DEF Moved, Put, Drop
<1>5. {events'[q].subject : q \in 1..(n + 1)} = {events[q].subject : q \in 1..n} \cup {id}
  <2>1. \A q : q \in 1..(n + 1) <=> q \in 1..n \/ q = n + 1
    BY <1>1
  <2> QED BY <1>1, <1>2, <2>1
<1>6. DOMAIN identities = {events[q].subject : q \in 1..n}
  BY DEF RecInv, VerifiedCurrent
<1>7. ASSUME NEW x
      PROVE  IF x = id
             THEN /\ LiveAt(x, n + 1)' <=> verb # "delete"
                  /\ BodyAt(x, n + 1)' = body /\ KindAt(x, n + 1)' = kind
             ELSE /\ LiveAt(x, n + 1)' <=> x \in DOMAIN resources
                  /\ x \in DOMAIN resources => BodyAt(x, n + 1)' = resources[x]
                  /\ x \in DOMAIN identities => KindAt(x, n + 1)' = identities[x]
  <2>0. IsSequence(events) /\ events' = Append(events, e)
    BY DEF RecInv, Versioned, Moved
  <2>1. LastEvent(x, n + 1)' = IF x = id THEN n + 1 ELSE LastEvent(x, n)
    BY <1>2, <2>0, OneMoreEvent
  <2>2. CASE x = id
    BY <1>1, <1>2, <2>1, <2>2 DEF LiveAt, BodyAt, KindAt
  <2>3. CASE x # id
    <3>1. PICK l \in 0..n : l = LastEvent(x, n)
      BY <1>1, TablesAreCurrent DEF RecInv, Versioned
    <3>2. /\ x \in DOMAIN identities <=> l # 0
          /\ x \in DOMAIN resources <=> l # 0 /\ events[l].verb # "delete"
          /\ x \in DOMAIN identities => events[l].kind = identities[x]
          /\ x \in DOMAIN resources => events[l].body = resources[x] /\ x \in DOMAIN identities
      BY <3>1, TablesAreCurrent DEF RecInv, Versioned, LiveAt, KindAt, BodyAt
    <3>3. l # 0 => events'[l] = events[l]
      BY <1>1
    <3> QED BY <2>1, <2>3, <3>1, <3>2, <3>3 DEF LiveAt, KindAt, BodyAt
  <2> QED BY <2>2, <2>3
<1>8. \A x \in DOMAIN resources : x \in DOMAIN identities
  BY DEF RecInv, Placed
<1>9. \A v \in versions' : v.position \in 1..(n + 1)
  BY <1>1
<1>10. DOMAIN resources' = {x \in DOMAIN identities' : LiveAt(x, n + 1)'}
  <2>1. \A x : LiveAt(x, n + 1)' <=> IF x = id THEN verb # "delete" ELSE x \in DOMAIN resources
    BY <1>7
  <2>2. \A x : x \in DOMAIN resources'
                 <=> IF x = id THEN verb # "delete" ELSE x \in DOMAIN resources
    BY <1>4
  <2>3. \A x \in DOMAIN resources' : x \in DOMAIN identities'
    BY <1>4, <1>8
  <2> QED BY <2>1, <2>2, <2>3
<1>11. \A x \in DOMAIN resources' : resources'[x] = BodyAt(x, n + 1)'
  BY <1>4, <1>7
<1>12. \A x \in DOMAIN identities' : identities'[x] = KindAt(x, n + 1)'
  BY <1>4, <1>7
<1> QED BY <1>1, <1>4, <1>5, <1>6, <1>9, <1>10, <1>11, <1>12 DEF VerifiedCurrent

LEMMA NewDecision ==
  ASSUME RecInv, NEW i \in Invocations, NEW o, RowFor(o, i), NEW n, n = Len(events), NEW e,
         NEW kind, NEW verb, NEW id, NEW body, NEW from, NEW previous,
         Moved(o, e, n, kind, verb, id, body, from, previous),
         Ready(i, kind, verb, id, body, from, previous, n),
         NEW m, m = Len(outcomes)
  PROVE  VerifiedDecision(m + 1)'
<1>1. PICK l \in 0..n :
           /\ LastEvent(id, n) = l /\ LastEvent(id, n)' = l
           /\ verb = "create" <=> l = 0
           /\ id \in DOMAIN identities <=> l # 0
           /\ l # 0 => /\ events'[l] = events[l] /\ events[l].kind = kind /\ identities[id] = kind
                       /\ events[l].verb = "delete" <=> id \notin DOMAIN resources
           /\ id \in DOMAIN resources => l # 0 /\ resources[id] = events[l].body
           /\ verb = "delete" => id \in DOMAIN resources /\ body = resources[id]
           /\ verb \in {"create", "update", "delete"}
           /\ verb # "delete" => body.revision = n + 1
  BY SubjectBefore
<1>2. Grown /\ n \in Nat
  BY MovedGrows
<1>3. \A q \in 1..n : events'[q] = events[q]
  BY MovedGrows
<1>4. /\ m \in Nat /\ outcomes'[m + 1] = o /\ (m + 1) - 1 = m
      /\ Succeeded(m + 1)' <=> Success(o)
  BY OneMoreDecision DEF RecInv, RowFor
<1>5. TransitionsAt(m)' = n
  BY <1>2, <1>4, DecisionsKept DEF RecInv
<1>6. /\ CreatedAt(id, m)' <=> id \in DOMAIN identities
      /\ AliasedAt(id, m)' <=> id \in DOMAIN aliases
  <2>1. /\ CreatedAt(id, m)' <=> CreatedAt(id, m)
        /\ AliasedAt(id, m)' <=> AliasedAt(id, m)
    BY <1>2, <1>4, DecisionsKept
  <2>2. id \in Uris
    BY DEF Ready
  <2> QED BY <2>1, <2>2, CreatedIsIdentity, AliasesAreTold
<1>7. /\ LiveAt(id, n)' <=> id \in DOMAIN resources
      /\ l # 0 => KindAt(id, n)' = kind
      /\ id \in DOMAIN resources => BodyAt(id, n)' = resources[id]
  BY <1>1 DEF LiveAt, KindAt, BodyAt
<1>8. PICK r : r = o.response
  OBVIOUS
<1>9. /\ r.result = ResultOf(verb) /\ r.id = id /\ r.body = body /\ r.from = from
      /\ from # 0 => r.previous = previous
      /\ o.position = n + 1 /\ o.op = OperationOf(verb, kind)
  BY <1>8 DEF Moved, RowFor, Ready, Response
<1>10. kind \in {"bead", "link"}
  BY DEF Ready, Kinds
<1>11. VerifiedHistorical(m + 1)'
  <2> SUFFICES ASSUME Historical, o.op = "updateBead", i.from # 0
        PROVE  /\ \E q \in 1..n : events'[q].subject = id /\ events'[q].verb # "delete"
                                    /\ events'[q].revision = i.from
               /\ \E v \in versions' :
                    /\ v.id = id /\ v.revision = body.revision /\ v.state = "live"
                    /\ r.from = v.from /\ r.previous = v.previous
               /\ r.from = i.from /\ i.expected \in {0, r.previous}
    BY <1>2, <1>4, <1>5, <1>8, <1>9, RowRequest DEF VerifiedHistorical
  <2>1. verb = "update" /\ kind = "bead"
    BY <1>1, <1>9, <1>10 DEF OperationOf
  <2>2. from = i.from /\ i.expected \in {0, previous}
    BY <2>1 DEF Ready
  <2>3. PICK w \in versions : w.id = id /\ w.revision = from /\ w.state = "live"
    BY <2>1, <2>2 DEF Ready
  <2>4. w.position \in 1..n /\ VersionOf(w.position, w)
    BY <2>3, VersionIsEvent
  <2>5. events[w.position].subject = id /\ events[w.position].verb # "delete"
          /\ events[w.position].revision = from
    BY <2>3, <2>4 DEF VersionOf
  <2>6. \E v \in versions' : /\ v.id = id /\ v.revision = n + 1 /\ v.state = "live"
                            /\ v.from = from /\ v.previous = previous
    BY <2>1, <2>2 DEF Moved, Terminal
  <2> QED BY <1>1, <1>3, <1>9, <2>1, <2>2, <2>4, <2>5, <2>6
<1>12. Success(o) /\ o.op \notin {"putAlias", "deleteAlias"}
  BY <1>1, <1>8, <1>9, <1>10 DEF Success, ResultOf, OperationOf
<1>13. VerifiedResourceDecision(m + 1)'
  <2>0. kind = IF o.op \in {"createBead", "updateBead", "deleteBead"} THEN "bead" ELSE "link"
    BY <1>1, <1>9, <1>10 DEF OperationOf
  <2>1. CASE verb = "create"
    <3>1. r.result = "created" /\ o.op = OperationOf("create", kind)
      BY <1>9, <2>1 DEF ResultOf
    <3>2. ~LiveAt(id, n)' /\ ~CreatedAt(id, m)' /\ ~AliasedAt(id, m)'
      BY <1>1, <1>6, <1>7, <2>1 DEF Ready
    <3> QED BY <1>4, <1>5, <1>8, <1>9, <1>11, <2>0, <3>1, <3>2 DEF VerifiedResourceDecision
  <2>2. CASE verb = "update"
    <3>1. r.result = "updated" /\ o.op = OperationOf("update", kind)
      BY <1>9, <2>2 DEF ResultOf
    <3>2. \/ LiveAt(id, n)' /\ KindAt(id, n)' = kind
          \/ Historical /\ kind = "bead" /\ r.from # 0 /\ CreatedAt(id, m)'
      BY <1>1, <1>6, <1>7, <1>9, <2>2 DEF Ready
    <3> QED BY <1>4, <1>5, <1>8, <1>9, <1>11, <2>0, <3>1, <3>2 DEF VerifiedResourceDecision
  <2>3. CASE verb = "delete"
    <3>1. r.result = "deleted" /\ o.op = OperationOf("delete", kind)
      BY <1>9, <2>3 DEF ResultOf
    <3>2. LiveAt(id, n)' /\ BodyAt(id, n)' = r.body
      BY <1>1, <1>7, <1>9, <2>3
    <3> QED BY <1>4, <1>5, <1>8, <1>9, <1>11, <2>0, <3>1, <3>2 DEF VerifiedResourceDecision
  <2> QED BY <1>1, <2>1, <2>2, <2>3
<1>14. VerifiedWitnesses(m + 1)' /\ o.op = o.identity.request.op
  BY <1>2, NewWitnesses, RowRequest
<1> QED BY <1>4, <1>12, <1>13, <1>14 DEF VerifiedDecision

LEMMA CompleteStep ==
  ASSUME RecInv, Placed', NEW p, NEW k, NEW i \in Invocations,
         NEW kind, NEW verb, NEW id, NEW body, NEW from, NEW previous,
         Complete(p, k, i, kind, verb, id, body, from, previous),
         Ready(i, kind, verb, id, body, from, previous, Len(events))
  PROVE  RecInv'
<1>1. PICK n, m : n = Len(events) /\ m = Len(outcomes)
  OBVIOUS
<1>2. PICK o : RowFor(o, i) /\ \E e : Moved(o, e, n, kind, verb, id, body, from, previous)
  BY <1>1, CompleteShape
<1>3. PICK e : Moved(o, e, n, kind, verb, id, body, from, previous)
  BY <1>2
<1>4. Ready(i, kind, verb, id, body, from, previous, n)
  BY <1>1
<1>5. Grown /\ n \in Nat
  BY <1>1, <1>2, <1>3, <1>4, MovedGrows
<1>6. Versioned'
  BY CompleteVersioned DEF Completed, Ready, RecInv
<1>7. outcomes' = Append(outcomes, o) /\ events' = Append(events, e) /\ o.position # 0
  BY <1>2, <1>3, <1>5 DEF RowFor, Moved
<1>8. EventAdded(o)
  BY <1>7 DEF EventAdded
<1>9. EventSound(n + 1)' /\ VerifiedEvent(n + 1)'
  BY <1>1, <1>2, <1>3, <1>4, NewEvent
<1>10. VerifiedCurrent'
  BY <1>1, <1>2, <1>3, <1>4, NewCurrent
<1>11. FreshContext'
  BY <1>1, <1>2, <1>3, <1>4, NewVersion
<1>12. VerifiedDecision(m + 1)'
  BY <1>1, <1>2, <1>3, <1>4, NewDecision
<1>13. verb \in {"create", "update", "delete"} /\ kind \in {"bead", "link"}
  BY DEF Ready, Completable, Kinds
<1>14. /\ o.response.id = id /\ o.response.result = ResultOf(verb)
       /\ o.op = OperationOf(verb, kind) /\ aliases' = aliases
  BY <1>2, <1>3, <1>4 DEF Moved, RowFor, Ready, Response
<1>15. \A x : x \in DOMAIN identities' <=> x \in DOMAIN identities \/ CreationOf(o, x)
  <2>1. \A x : CreationOf(o, x) <=> verb = "create" /\ x = id
    BY <1>13, <1>14 DEF CreationOf, Success, ResultOf, OperationOf
  <2>2. \A x : x \in DOMAIN identities' <=> x \in DOMAIN identities \/ (verb = "create" /\ x = id)
    BY <1>3 DEF Moved, Put
  <2> QED BY <2>1, <2>2
<1>16. ~OnAlias(o)
  BY <1>13, <1>14 DEF OnAlias, OperationOf
<1>17. VerifiedAliases'
  BY <1>7, <1>14, <1>15, <1>16, AliasesStand
<1> QED BY <1>1, <1>5, <1>6, <1>7, <1>8, <1>9, <1>10, <1>11, <1>12, <1>15, <1>17,
           DecisionRecorded
-----------------------------------------------------------------------------
(* Every request leaves tables that pass. *)

Successes == {"created", "updated", "unchanged", "deleted"}

LEMMA RefuseKept ==
  ASSUME RecInv, Placed', NEW p, NEW k, NEW i \in Invocations,
         NEW code, code \notin Successes, Refuse(p, k, i, code)
  PROVE  RecInv'
<1>1. PICK o : RowFor(o, i) /\ o.position = 0 /\ o.response = Refusal(code)
  BY DEF Refuse, Decide, RowFor
<1>2. UNCHANGED <<identities, resources, aliases, events, versions>>
  BY DEF Refuse
<1>3. ~Success(o)
  BY <1>1 DEF Success, Refusal, Response, Successes
<1> QED BY <1>1, <1>2, <1>3, QuietStep

LEMMA CreateKept ==
  ASSUME RecInv, Placed', NEW p, NEW k, NEW i \in Invocations, NEW kind \in Kinds,
         NEW source \in EndpointUris, NEW target \in EndpointUris,
         i.op = OperationOf("create", kind),
         PerformCreate(p, k, i, kind, source, target)
  PROVE  RecInv'
<1> DEFINE body == Body(Revision, i.data, source, target)
<1>0. i.op \in {"createBead", "createLink"}
  BY DEF OperationOf, Kinds
<1>1. PICK id \in IF i.id = None THEN Unused ELSE {i.id} :
        \/ /\ CreateRefusal(i, kind, id, body) # "none"
           /\ Refuse(p, k, i, CreateRefusal(i, kind, id, body))
        \/ /\ CreateRefusal(i, kind, id, body) = "none"
           /\ Complete(p, k, i, kind, "create", id, body, 0, 0)
  BY Zenon DEF PerformCreate
<1>2. CASE Refuse(p, k, i, CreateRefusal(i, kind, id, body))
  <2>1. CreateRefusal(i, kind, id, body) \notin Successes
    BY DEF CreateRefusal, EndpointRefusal, Successes
  <2> QED BY <1>2, <2>1, RefuseKept
<1>3. CASE /\ CreateRefusal(i, kind, id, body) = "none"
           /\ Complete(p, k, i, kind, "create", id, body, 0, 0)
  <2>1. i.data \in Values /\ Revision \in Nat \ {0}
    BY <1>0, InvocationsAssumption DEF Revision, RecInv, Versioned, IsSequence
  <2>2. body \in BodyType /\ body.revision = Revision
    BY <2>1 DEF Body, BodyType, EndpointUris
  <2>3. id \notin DOMAIN identities /\ id \notin DOMAIN aliases
          /\ EndpointRefusal(kind, body) = "none"
    BY <1>3 DEF CreateRefusal
  <2>4. id \in Uris
    BY InvocationsAssumption DEF Unused, Invocation
  <2>5. Completable(kind, "create", id, body, 0)
    BY <2>2, <2>3 DEF Completable
  <2> HIDE DEF body
  <2>6. Ready(i, kind, "create", id, body, 0, 0, Len(events))
    BY <2>3, <2>4, <2>5 DEF Ready
  <2> QED BY <1>3, <2>6, CompleteStep
<1> QED BY <1>1, <1>2, <1>3

(* The state an update starts from, in the words of the log. *)
LEMMA UpdateContext ==
  ASSUME RecInv, NEW i \in Invocations, NEW kind \in Kinds, NEW id, NEW source, NEW target,
         i.op = OperationOf("update", kind),
         UpdateRefusal(i, kind, id, source, target) = "none", NEW n, n = Len(events)
  PROVE  /\ id \in DOMAIN identities /\ identities[id] = kind
         /\ IsLive(id, kind) <=> id \in DOMAIN resources
         /\ IsLive(id, kind) => Predecessor(i, kind, id) = resources[id].revision
         /\ Predecessor(i, kind, id) = events[LastEvent(id, n)].revision
         /\ i.expected \in {0, Predecessor(i, kind, id)}
         /\ id \notin DOMAIN resources => i.from # 0
         /\ i.from # 0 =>
              /\ Historical /\ kind = "bead"
              /\ \E v \in versions : v.id = id /\ v.revision = i.from /\ v.state = "live"
<1>1. IsLive(id, kind) \/ Recovering(i, kind, id)
  BY DEF UpdateRefusal
<1>2. id \in DOMAIN identities /\ identities[id] = kind
  <2>1. i.from # 0 => kind = "bead"
    BY InvocationsAssumption DEF OperationOf, Kinds
  <2>2. CASE IsLive(id, kind)
    BY <2>2 DEF IsLive, RecInv, Placed
  <2>3. CASE Recovering(i, kind, id)
    <3>1. PICK v \in versions : v.id = id
      BY <2>3 DEF Recovering, VersionRows
    <3> QED BY <2>1, <2>3, <3>1 DEF Recovering, RecInv, Placed
  <2> QED BY <1>1, <2>2, <2>3
<1>3. IsLive(id, kind) <=> id \in DOMAIN resources
  BY <1>2 DEF IsLive
<1>4. IsLive(id, kind) => Predecessor(i, kind, id) = resources[id].revision
  BY DEF Predecessor, Before, Recovering
<1>5. i.from # 0 =>
        /\ Historical /\ kind = "bead"
        /\ \E v \in versions : v.id = id /\ v.revision = i.from /\ v.state = "live"
  <2> HAVE i.from # 0
  <2>1. Historical /\ HasVersion(id, i.from) /\ VersionAt(id, i.from).state # "deleted"
    BY DEF UpdateRefusal
  <2>2. PICK w \in versions : w.id = id /\ w.revision = i.from
    BY <2>1 DEF HasVersion, VersionRows
  <2>3. VersionAt(id, i.from) = w
    BY <2>2, VersionAtIsRow DEF RecInv
  <2>4. w.state = "live"
    BY <2>1, <2>3 DEF RecInv, Versioned
  <2>5. kind = "bead"
    BY InvocationsAssumption DEF OperationOf, Kinds
  <2> QED BY <2>1, <2>2, <2>4, <2>5
<1>6. Predecessor(i, kind, id) = events[LastEvent(id, n)].revision
  <2>1. CASE IsLive(id, kind)
    <3>1. resources[id].revision = events[LastEvent(id, n)].revision
      BY <1>3, <2>1, TablesAreCurrent DEF RecInv, Versioned
    <3> QED BY <1>4, <2>1, <3>1
  <2>2. CASE Recovering(i, kind, id)
    <3>1. i.from # 0
      BY <2>2 DEF Recovering
    <3>2. LatestVersion(id).revision = events[LastEvent(id, n)].revision
      BY <1>2, <1>5, <3>1, LatestIsLast
    <3> QED BY <2>2, <3>2 DEF Predecessor
  <2> QED BY <1>1, <2>1, <2>2
<1>7. i.expected \in {0, Predecessor(i, kind, id)}
  BY DEF UpdateRefusal
<1>8. id \notin DOMAIN resources => i.from # 0
  BY <1>1, <1>3 DEF Recovering
<1> QED BY <1>2, <1>3, <1>4, <1>5, <1>6, <1>7, <1>8

LEMMA UnchangedKept ==
  ASSUME RecInv, Placed', NEW p, NEW k, NEW i \in Invocations, NEW kind \in Kinds, NEW id,
         NEW source, NEW target, i.op = OperationOf("update", kind),
         UpdateRefusal(i, kind, id, source, target) = "none",
         ~Recovering(i, kind, id), Unchanged(p, k, i, kind, id)
  PROVE  RecInv'
<1>1. PICK n : n = Len(events)
  OBVIOUS
<1> DEFINE current == LatestVersion(id)
           context == IF i.from = 0 THEN 0 ELSE current.from
           response == Response("unchanged", id, resources[id], None, context,
                                IF context = 0 THEN 0 ELSE current.previous)
<1>2. PICK o : RowFor(o, i) /\ o.position = 0 /\ o.response = response
  BY DEF Unchanged, Decide, RowFor
<1>3. UNCHANGED <<identities, resources, aliases, events, versions>>
  BY DEF Unchanged
<1>4. /\ id \in DOMAIN identities /\ identities[id] = kind
      /\ IsLive(id, kind) => Predecessor(i, kind, id) = resources[id].revision
      /\ i.expected \in {0, Predecessor(i, kind, id)}
      /\ i.from # 0 =>
              /\ Historical /\ kind = "bead"
              /\ \E v \in versions : v.id = id /\ v.revision = i.from /\ v.state = "live"
  BY <1>1, UpdateContext
<1>5. IsLive(id, kind)
  BY DEF UpdateRefusal
<1>6. ASSUME Historical, i.from # 0
      PROVE  \E v \in versions :
               /\ v.id = id /\ v.revision = resources[id].revision /\ v.state = "live"
               /\ context = v.from /\ (IF context = 0 THEN 0 ELSE current.previous) = v.previous
  <2>1. /\ current \in versions /\ current.id = id
        /\ current.revision = events[LastEvent(id, n)].revision
        /\ current.state = "deleted" <=> GoneAt(id, n)
    BY <1>1, <1>4, <1>6, LatestIsLast
  <2>2. ~GoneAt(id, n) /\ resources[id].revision = events[LastEvent(id, n)].revision
    BY <1>1, <1>5, TablesAreCurrent DEF IsLive, RecInv, Versioned
  <2>3. current.state = "live"
    BY <2>1, <2>2 DEF RecInv, Versioned
  <2>4. current.from = 0 => current.previous = 0
    BY <2>1, <2>3 DEF RecInv, FreshContext
  <2> HIDE DEF current
  <2> QED BY <1>6, <2>1, <2>2, <2>3, <2>4
<1>7. UnchangedRow(o, i)
  <2>1. /\ o.response.result = "unchanged" /\ o.response.id = id
        /\ o.response.body = resources[id] /\ o.response.from = context
        /\ o.response.previous = IF context = 0 THEN 0 ELSE current.previous
    BY <1>2 DEF Response
  <2>2. o.op = OperationOf("update", kind)
    BY <1>2 DEF RowFor
  <2>3. o.op \in {"updateBead", "updateLink"} /\ KindUpdated(o.op) = kind
    BY <2>2 DEF OperationOf, KindUpdated, Kinds
  <2> HIDE DEF current, context
  <2> QED BY <1>3, <1>4, <1>5, <1>6, <2>1, <2>3 DEF UnchangedRow
<1> QED BY <1>2, <1>3, <1>7, QuietStep

LEMMA UpdateKept ==
  ASSUME RecInv, Placed', NEW p, NEW k, NEW i \in Invocations, NEW kind \in Kinds, NEW id,
         NEW source \in EndpointUris, NEW target \in EndpointUris,
         i.op = OperationOf("update", kind),
         PerformUpdate(p, k, i, kind, id, source, target)
  PROVE  RecInv'
<1> DEFINE refusal == UpdateRefusal(i, kind, id, source, target)
           next == Candidate(i, kind, id, source, target)
           body == [next EXCEPT !.revision = Revision]
<1>1. CASE refusal # "none" /\ Refuse(p, k, i, refusal)
  <2>1. refusal \notin Successes
    BY DEF UpdateRefusal, EndpointRefusal, Successes
  <2> QED BY <1>1, <2>1, RefuseKept
<1>2. CASE Refuse(p, k, i, "limit-exceeded")
  <2>1. "limit-exceeded" \notin Successes
    BY DEF Successes
  <2> QED BY <1>2, <2>1, RefuseKept
<1>3. CASE refusal = "none" /\ ~Recovering(i, kind, id) /\ Unchanged(p, k, i, kind, id)
  BY <1>3, UnchangedKept
<1>4. CASE refusal = "none"
             /\ Complete(p, k, i, kind, "update", id, body, i.from, Predecessor(i, kind, id))
  <2>1. IsLive(id, kind) \/ Recovering(i, kind, id)
    BY <1>4 DEF UpdateRefusal
  <2>2. Before(i, kind, id) \in BodyType /\ Source(i, kind, id) \in BodyType
    BY <1>4, <2>1, BeforeTyped, SourceTyped DEF RecInv
  <2>3. Edit[i.data][Source(i, kind, id).data] \in Values
    <3>1. i.data \in Changes /\ Source(i, kind, id).data \in Values
      BY <2>2, InvocationsAssumption DEF BodyType, OperationOf, Kinds
    <3>2. Edit[i.data][Source(i, kind, id).data] # Invalid
      BY <1>4 DEF UpdateRefusal
    <3> QED BY <3>1, <3>2, ValuesAssumption
  <2>4. Revision \in Nat \ {0}
    BY DEF Revision, RecInv, Versioned, IsSequence
  <2>5. body \in BodyType /\ body.revision = Revision
    BY <2>2, <2>3, <2>4 DEF Candidate, Body, BodyType, EndpointUris
  <2>6. EndpointRefusal(kind, next) = "none"
    BY <1>4 DEF UpdateRefusal
  <2>7. body.source = next.source /\ body.target = next.target
    BY DEF Candidate, Body
  <2>8. EndpointRefusal(kind, body) = "none"
    BY <2>6, <2>7 DEF EndpointRefusal, LocalEndpoints
  <2>9. /\ id \in DOMAIN identities /\ identities[id] = kind
        /\ Predecessor(i, kind, id) = events[LastEvent(id, Len(events))].revision
        /\ i.expected \in {0, Predecessor(i, kind, id)}
        /\ id \notin DOMAIN resources => i.from # 0
        /\ i.from # 0 =>
              /\ Historical /\ kind = "bead"
              /\ \E v \in versions : v.id = id /\ v.revision = i.from /\ v.state = "live"
    BY <1>4, UpdateContext
  <2>10. id \in Uris
    BY <2>9 DEF RecInv, Placed
  <2> HIDE DEF body
  <2>11. Completable(kind, "update", id, body, Predecessor(i, kind, id))
    BY <2>5, <2>9 DEF Completable
  <2>12. Ready(i, kind, "update", id, body, i.from, Predecessor(i, kind, id), Len(events))
    BY <2>8, <2>9, <2>10, <2>11 DEF Ready
  <2> QED BY <1>4, <2>12, CompleteStep
<1> QED BY <1>1, <1>2, <1>3, <1>4, Zenon DEF PerformUpdate

LEMMA DeleteKept ==
  ASSUME RecInv, Placed', NEW p, NEW k, NEW i \in Invocations, NEW kind \in Kinds, NEW id,
         i.op = OperationOf("delete", kind), PerformDelete(p, k, i, kind, id)
  PROVE  RecInv'
<1>1. CASE DeleteRefusal(i, kind, id) # "none" /\ Refuse(p, k, i, DeleteRefusal(i, kind, id))
  <2>1. DeleteRefusal(i, kind, id) \notin Successes
    BY DEF DeleteRefusal, Successes
  <2> QED BY <1>1, <2>1, RefuseKept
<1>2. CASE DeleteRefusal(i, kind, id) = "none"
             /\ Complete(p, k, i, kind, "delete", id, resources[id], 0, resources[id].revision)
  <2>1. IsLive(id, kind) /\ (kind = "bead" => IncidentLinks(id) = {})
    BY <1>2 DEF DeleteRefusal
  <2>2. Completable(kind, "delete", id, resources[id], resources[id].revision)
    BY <2>1 DEF Completable
  <2>3. id \in Uris
    BY <2>1 DEF IsLive, RecInv, Placed
  <2>4. Ready(i, kind, "delete", id, resources[id], 0, resources[id].revision, Len(events))
    BY <2>1, <2>2, <2>3 DEF Ready
  <2> QED BY <1>2, <2>4, CompleteStep
<1> QED BY <1>1, <1>2 DEF PerformDelete

LEMMA AliasKept ==
  ASSUME RecInv, Placed', NEW p, NEW k, NEW i \in Invocations,
         PutAlias(p, k, i) \/ DeleteAlias(p, k, i)
  PROVE  RecInv'
<1>0. ASSUME NEW code, Refuse(p, k, i, code),
             code \in {"resource-not-found", "identity-taken", "validation-failed"}
      PROVE  RecInv'
  <2>1. code \notin Successes
    BY <1>0 DEF Successes
  <2> QED BY <1>0, <2>1, RefuseKept
<1>1. CASE PutAlias(p, k, i) /\ PutAliasRefusal(i) = "none"
  <2>1. /\ i.id \in AliasNamespace \ Reserved /\ i.id \notin DOMAIN identities
        /\ i.target \in DOMAIN resources /\ identities[i.target] = "bead"
        /\ i.target \notin DOMAIN aliases
    BY <1>1 DEF PutAliasRefusal, RecInv, Placed
  <2> DEFINE response == Response(IF i.id \in DOMAIN aliases THEN "updated" ELSE "created",
                                  i.id, None, i.target, 0, 0)
  <2>2. /\ Decide(p, k, i, response, 0)
        /\ aliases' = Put(aliases, i.id, i.target)
        /\ UNCHANGED <<identities, resources, events, versions>>
        /\ i.op = "putAlias"
    BY <1>1, Zenon DEF PutAlias
  <2>3. PICK o : RowFor(o, i) /\ o.position = 0 /\ o.response = response
    BY <2>2 DEF Decide, RowFor
  <2>4. PutRow(o)
    BY <2>1, <2>2, <2>3 DEF PutRow, Response, RowFor
  <2> QED BY <2>2, <2>3, <2>4, QuietStep
<1>2. CASE DeleteAlias(p, k, i) /\ i.id \in DOMAIN aliases
  <2> DEFINE response == Response("deleted", i.id, None, None, 0, 0)
  <2>1. /\ Decide(p, k, i, response, 0)
        /\ aliases' = Drop(aliases, i.id)
        /\ UNCHANGED <<identities, resources, events, versions>>
        /\ i.op = "deleteAlias"
    BY <1>2, Zenon DEF DeleteAlias
  <2>2. PICK o : RowFor(o, i) /\ o.position = 0 /\ o.response = response
    BY <2>1 DEF Decide, RowFor
  <2>3. DropRow(o)
    BY <1>2, <2>1, <2>2 DEF DropRow, Response, RowFor
  <2> QED BY <2>1, <2>2, <2>3, QuietStep
<1>3. CASE PutAlias(p, k, i) /\ PutAliasRefusal(i) # "none"
  <2>1. PutAliasRefusal(i) \in {"resource-not-found", "identity-taken", "validation-failed"}
    BY <1>3 DEF PutAliasRefusal
  <2> QED BY <1>0, <1>3, <2>1 DEF PutAlias
<1>4. CASE DeleteAlias(p, k, i) /\ i.id \notin DOMAIN aliases
  BY <1>0, <1>4 DEF DeleteAlias
<1> QED BY <1>1, <1>2, <1>3, <1>4

LEMMA ExecuteKept ==
  ASSUME RecInv, NEW p, NEW k, NEW i \in Invocations, Execute(p, k, i)
  PROVE  RecInv'
<1>p. Placed'
  BY ExecuteEffect, PlacedStep DEF RecInv
<1>0. ASSUME NEW code, Refuse(p, k, i, code), code \in {"resource-not-found", "validation-failed"}
      PROVE  RecInv'
  <2>1. code \notin Successes
    BY <1>0 DEF Successes
  <2> QED BY <1>0, <1>p, <2>1, RefuseKept
<1>b. None \in EndpointUris /\ {"bead", "link"} = Kinds
  BY DEF EndpointUris, Kinds
<1>c. At(i, "source").uri \in EndpointUris /\ At(i, "target").uri \in EndpointUris
  BY EndpointsResolve DEF RecInv
<1>1. CASE CreateBead(p, k, i)
  BY <1>p, <1>0, <1>1, <1>b, CreateKept DEF CreateBead, OperationOf
<1>2. CASE UpdateBead(p, k, i)
  BY <1>p, <1>0, <1>2, <1>b, UpdateKept DEF UpdateBead, OperationOf
<1>3. CASE DeleteBead(p, k, i)
  BY <1>p, <1>0, <1>3, <1>b, DeleteKept DEF DeleteBead, OperationOf
<1>4. CASE CreateLink(p, k, i)
  BY <1>p, <1>0, <1>4, <1>b, <1>c, CreateKept DEF CreateLink, LinkRefused, OperationOf
<1>5. CASE UpdateLink(p, k, i)
  BY <1>p, <1>0, <1>5, <1>b, <1>c, UpdateKept DEF UpdateLink, LinkRefused, OperationOf
<1>6. CASE DeleteLink(p, k, i)
  BY <1>p, <1>0, <1>6, <1>b, DeleteKept DEF DeleteLink, OperationOf
<1>7. CASE PutAlias(p, k, i) \/ DeleteAlias(p, k, i)
  BY <1>p, <1>7, AliasKept
<1> QED BY <1>1, <1>2, <1>3, <1>4, <1>5, <1>6, <1>7 DEF Execute

LEMMA TablesKept ==
  ASSUME RecInv, UNCHANGED tables
  PROVE  RecInv'
<1>1. PICK n, m : n = Len(events) /\ m = Len(outcomes)
  OBVIOUS
<1>2. /\ events' = events /\ outcomes' = outcomes /\ identities' = identities
      /\ resources' = resources /\ aliases' = aliases /\ versions' = versions
  BY DEF tables
<1>3. IsSequence(events) /\ IsSequence(outcomes) /\ n \in Nat /\ m \in Nat
  BY <1>1 DEF RecInv, Versioned, IsSequence
<1>4. Grown
  BY <1>2, <1>3 DEF Grown, IsSequence, Extends
<1>5. Placed'
  BY <1>2 DEF RecInv, Placed
<1>6. Versioned'
  BY <1>2, TransitionVersioned DEF RecInv, NoTransition
<1>7. IsSequence(outcomes') /\ FreshContext'
  BY <1>2 DEF RecInv, IsSequence, FreshContext
<1>8. ChainStands'
  <2>1. ASSUME NEW q \in 1..Len(events') PROVE EventSound(q)' /\ VerifiedEvent(q)'
    BY <1>2, <1>4, <2>1, OldEventStands DEF RecInv
  <2> QED BY <2>1 DEF ChainStands
<1>9. VerifiedCurrent'
  <2>1. \A id : \A q : LastEvent(id, q)' = LastEvent(id, q)
    BY <1>2 DEF LastEvent
  <2>2. \A id : \A q : (LiveAt(id, q)' <=> LiveAt(id, q))
          /\ BodyAt(id, q)' = BodyAt(id, q) /\ KindAt(id, q)' = KindAt(id, q)
    BY <1>2, <2>1 DEF LiveAt, BodyAt, KindAt
  <2> QED BY <1>2, <2>2 DEF RecInv, VerifiedCurrent
<1>10. \A d \in 1..Len(outcomes') : VerifiedDecision(d)'
  BY <1>2, <1>4, OldDecisionStands DEF RecInv
<1>11. ASSUME NEW d \in 0..m
       PROVE  /\ TransitionsAt(d)' = TransitionsAt(d)
              /\ \A id : CreatedAt(id, d)' <=> CreatedAt(id, d)
              /\ \A uri : AliasedAt(uri, d)' <=> AliasedAt(uri, d)
              /\ \A uri : AliasedAt(uri, d) => TargetAt(uri, d)' = TargetAt(uri, d)
  BY <1>1, <1>4, DecisionsKept
<1>12. TransitionsAt(Len(outcomes))' = Len(events')
  BY <1>1, <1>2, <1>3, <1>11 DEF RecInv
<1>13. VerifiedAliases'
  <2>1. VerifiedAliases /\ DOMAIN aliases \subseteq Uris
    BY UrisAssumption DEF RecInv, Placed
  <2> QED BY <1>1, <1>2, <1>3, <1>11, <2>1 DEF VerifiedAliases
<1>14. CreationsTold'
  <2>1. ASSUME NEW d \in 0..m, NEW id, CreatedAt(id, d)'
        PROVE  (LastEvent(id, TransitionsAt(d)) # 0)'
    <3>1. PICK t \in 0..n : TransitionsAt(d) = t /\ TransitionsAt(d)' = t
      BY <1>1, <1>3, <1>11, TransitionsBounded DEF RecInv
    <3>2. LastEvent(id, t) # 0
      BY <1>1, <1>11, <2>1, <3>1 DEF RecInv, CreationsTold
    <3>3. LastEvent(id, t)' = LastEvent(id, t)
      BY <1>1, <1>4, ChainKept
    <3> QED BY <3>1, <3>2, <3>3
  <2>2. \A id \in DOMAIN identities : CreatedAt(id, m)'
    BY <1>1, <1>3, <1>11 DEF RecInv, CreationsTold
  <2> QED BY <1>1, <1>2, <2>1, <2>2 DEF CreationsTold
<1> QED BY <1>5, <1>6, <1>7, <1>8, <1>9, <1>10, <1>12, <1>13, <1>14 DEF RecInv

LEMMA InitRecInv == Init => RecInv
<1> SUFFICES ASSUME Init PROVE RecInv
  OBVIOUS
<1>1. Placed /\ Versioned
  BY InitVInv DEF VInv
<1>2. outcomes \in Seq({}) /\ Len(outcomes) = 0 /\ Len(events) = 0
  BY DEF Init
<1>3. IsSequence(outcomes)
  BY <1>2 DEF IsSequence
<1>4. 1..0 = {}
  OBVIOUS
<1>5. ChainStands /\ \A d \in 1..Len(outcomes) : VerifiedDecision(d)
  BY <1>2, <1>4 DEF ChainStands
<1>6. VerifiedCurrent
  <2>1. DOMAIN identities = {} /\ DOMAIN resources = {} /\ versions = {}
    BY DEF Init, NoRow
  <2>2. {events[q].subject : q \in 1..0} = {}
    BY <1>4
  <2> QED BY <1>2, <2>1, <2>2 DEF VerifiedCurrent
<1>7. \A uri : ~AliasedAt(uri, 0)
  <2>1. \A uri : LastAlias(uri, 0) = 0
    BY <1>4 DEF LastAlias, Last
  <2> QED BY <2>1 DEF AliasedAt
<1>8. VerifiedAliases
  BY <1>2, <1>7 DEF Init, NoRow, VerifiedAliases
<1>9. TransitionsAt(Len(outcomes)) = Len(events)
  <2>1. {c \in 1..0 : outcomes[c].position # 0} = {}
    BY <1>4
  <2>2. TransitionsAt(0) = 0
    BY <2>1, FS_EmptySet DEF TransitionsAt
  <2> QED BY <1>2, <2>2
<1>10. CreationsTold
  <2>1. \A id : ~CreatedAt(id, 0)
    BY <1>4 DEF CreatedAt
  <2>2. 0..0 = {0} /\ DOMAIN identities = {}
    BY DEF Init, NoRow
  <2> QED BY <1>2, <2>1, <2>2 DEF CreationsTold
<1>11. FreshContext
  BY DEF Init, FreshContext
<1> QED BY <1>1, <1>3, <1>5, <1>6, <1>8, <1>9, <1>10, <1>11 DEF RecInv

LEMMA NextRecInv == RecInv /\ [Next]_vars => RecInv'
<1> SUFFICES ASSUME RecInv, [Next]_vars PROVE RecInv'
  OBVIOUS
<1>1. ASSUME NEW p \in Principals, NEW k \in Keys, NEW i \in Invocations, Apply(p, k, i)
      PROVE  RecInv'
  BY <1>1, ExecuteKept DEF Apply
<1>2. CASE UNCHANGED tables
  BY <1>2, TablesKept
<1> QED BY <1>1, <1>2 DEF Next, Replay, Fail, Stop, Open, vars, tables

(* The tables a behaviour leaves at any moment pass the check of the next
   start (verifySingletonRecovery): RecoveryAccepts for every instance. *)
THEOREM RecoveryAlwaysAccepts == Spec => []RecoveryAccepts
BY RecInvAccepts, InitRecInv, NextRecInv, PTL DEF Spec
=============================================================================
