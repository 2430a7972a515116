------------------------ MODULE MemberLifecycle_proofs ------------------------
(***************************************************************************)
(* Proofs about a Read+Update installation.  The graph first: what a       *)
(* member leaves of the addresses, the revisions and the Links, whichever  *)
(* it is.  Then the keys: a row knows the member it was retained for and   *)
(* what its references meant, and a claim knows its request.               *)
(***************************************************************************)
EXTENDS MemberLifecycle, FiniteSetTheorems, TLAPS

-----------------------------------------------------------------------------
(* The graph: shape, addresses, revisions. *)

ResourceOK(r) ==
  /\ r = [x \in {"kind", "body", "revision", "type", "source", "target", "owned"} |-> r[x]]
  /\ r.kind \in {"bead", "link"}

\* Addresses that were a Resource's are remembered, and are no alias.
GraphShape(g) ==
  /\ g = [x \in {"resources", "identities", "aliases", "revision"} |-> g[x]]
  /\ g.resources = [a \in DOMAIN g.resources |-> g.resources[a]]
  /\ \A a \in DOMAIN g.resources : ResourceOK(g.resources[a])
  /\ DOMAIN g.resources \subseteq g.identities
  /\ g.identities \cap DOMAIN g.aliases = {}
  /\ g.revision \in Nat

\* What is changed has a revision no Resource had.
Revised(g, h) ==
  /\ g.revision <= h.revision
  /\ \A a \in DOMAIN g.resources \cap DOMAIN h.resources :
       h.resources[a] # g.resources[a] =>
         h.resources[a].revision \in g.revision + 1..h.revision

Grown(g, h) == GraphShape(h) /\ g.identities \subseteq h.identities /\ Revised(g, h)

SuccessCodes == {"created", "updated", "deleted"}

\* A result that tells what it did.
Tells(result) ==
  /\ result.effect \in {"success", "failure"}
  /\ result.effect = "success" <=> result.code \in SuccessCodes

\* A new address is nobody's yet.
Consumes(g, result) ==
  result.effect = "success" =>
    result.id \in result.graph.identities /\ result.id \notin g.identities

Operations == {"createBead", "createLink", "updateBead", "updateLink", "deleteBead",
               "deleteLink", "putAlias", "deleteAlias"}

LEMMA RefusedTells ==
  ASSUME NEW code, code \notin SuccessCodes
  PROVE  Tells(Refused(code)) /\ Refused(code).effect = "failure"
BY DEF Tells, Refused, SuccessCodes

LEMMA DoneTells ==
  ASSUME NEW code \in SuccessCodes, NEW graph1, NEW id, NEW resource
  PROVE  /\ Tells(Done(code, graph1, id, resource))
         /\ Done(code, graph1, id, resource).effect = "success"
         /\ Done(code, graph1, id, resource).graph = graph1
         /\ Done(code, graph1, id, resource).id = id
BY DEF Tells, Done, SuccessCodes

\* The first refusal, if any check refuses.
LEMMA FirstIs ==
  ASSUME NEW c1, NEW c2, NEW c3, NEW c4
  PROVE  LET first == First(<<c1, c2, c3, c4>>) IN
         /\ first \in {"ok", c1, c2, c3, c4}
         /\ first = "ok" <=> c1 = "ok" /\ c2 = "ok" /\ c3 = "ok" /\ c4 = "ok"
<1> DEFINE codes == <<c1, c2, c3, c4>>
           refusals == {n \in DOMAIN codes : codes[n] # "ok"}
           n == CHOOSE n \in refusals : \A o \in refusals : n <= o
<1>1. DOMAIN codes = {1, 2, 3, 4} /\ codes[1] = c1 /\ codes[2] = c2 /\ codes[3] = c3 /\ codes[4] = c4
  OBVIOUS
<1>2. CASE refusals = {}
  <2>1. First(codes) = "ok"
    BY <1>2 DEF First
  <2>2. QED
    BY <1>1, <1>2, <2>1
<1>3. CASE refusals # {}
  <2>1. \E m \in refusals : \A o \in refusals : m <= o
    BY <1>1, <1>3
  <2>2. n \in refusals
    BY <2>1
  <2>3. First(codes) = codes[n]
    BY <1>3 DEF First
  <2>4. QED
    BY <1>1, <2>2, <2>3
<1>4. QED
  BY <1>2, <1>3

\* The source of a Link with its new copies.
LEMMA CopiesAre ==
  ASSUME NEW f, f = [a \in DOMAIN f |-> f[a]], \A a \in DOMAIN f : ResourceOK(f[a]),
         NEW before, NEW s, NEW revision
  PROVE  LET h == Recopied(f, before, s, revision) IN
         /\ h = [a \in DOMAIN h |-> h[a]]
         /\ DOMAIN h = DOMAIN f
         /\ \A a \in DOMAIN f : a # s => h[a] = f[a]
         /\ s \in DOMAIN f =>
              /\ ResourceOK(h[s])
              /\ h[s].kind = f[s].kind /\ h[s].type = f[s].type
              /\ h[s].source = f[s].source /\ h[s].target = f[s].target
              /\ h[s].revision = revision /\ h[s].owned = OwnedBy(f, before, s)
<1> DEFINE owned == OwnedBy(f, before, s)
           h == Recopied(f, before, s, revision)
<1>0. h = [f EXCEPT ![s].owned = owned, ![s].revision = revision]
  BY DEF Recopied
<1> HIDE DEF owned, h
<1>1. CASE s \in DOMAIN f
  <2>1. ResourceOK(f[s])
    BY <1>1
  <2> DEFINE r == [f[s] EXCEPT !.owned = owned, !.revision = revision]
  <2>2. h = [a \in DOMAIN f |-> IF a = s THEN r ELSE f[a]]
    BY <1>0, <1>1
  <2>3. /\ r.kind = f[s].kind /\ r.type = f[s].type /\ r.source = f[s].source
        /\ r.target = f[s].target /\ r.revision = revision /\ r.owned = owned
    BY <2>1 DEF ResourceOK
  <2>4. r = [x \in {"kind", "body", "revision", "type", "source", "target", "owned"} |-> r[x]]
    BY <2>1 DEF ResourceOK
  <2> HIDE DEF r
  <2>5. ResourceOK(r)
    BY <2>1, <2>3, <2>4 DEF ResourceOK
  <2>6. QED
    BY <1>1, <2>2, <2>3, <2>5 DEF owned, h
<1>2. CASE s \notin DOMAIN f
  BY <1>0, <1>2 DEF h
<1>3. QED
  BY <1>1, <1>2

LEMMA PutIs ==
  ASSUME NEW f, NEW x, NEW y
  PROVE  /\ Put(f, x, y) = [a \in DOMAIN Put(f, x, y) |-> Put(f, x, y)[a]]
         /\ DOMAIN Put(f, x, y) = DOMAIN f \cup {x}
         /\ Put(f, x, y)[x] = y
         /\ \A a \in DOMAIN f : a # x => Put(f, x, y)[a] = f[a]
BY DEF Put

LEMMA WithoutIs ==
  ASSUME NEW f, NEW S
  PROVE  /\ Without(f, S) = [a \in DOMAIN Without(f, S) |-> Without(f, S)[a]]
         /\ DOMAIN Without(f, S) = DOMAIN f \ S
         /\ \A a \in DOMAIN f \ S : Without(f, S)[a] = f[a]
BY DEF Without

\* A graph of which three tables were changed, and its shape.
LEMMA GrownGraph ==
  ASSUME NEW g, GraphShape(g), NEW h,
         h = [x \in {"resources", "identities", "aliases", "revision"} |-> h[x]],
         h.resources = [a \in DOMAIN h.resources |-> h.resources[a]],
         \A a \in DOMAIN h.resources : ResourceOK(h.resources[a]),
         DOMAIN h.resources \subseteq h.identities,
         h.identities \cap DOMAIN h.aliases = {},
         h.revision \in Nat, g.revision <= h.revision,
         g.identities \subseteq h.identities,
         \A a \in DOMAIN g.resources \cap DOMAIN h.resources :
           \/ h.resources[a] = g.resources[a]
           \/ h.resources[a].revision \in g.revision + 1..h.revision
  PROVE  Grown(g, h)
BY DEF Grown, GraphShape, Revised

LEMMA LinkWrittenGrows ==
  ASSUME NEW g, GraphShape(g), NEW id, id \notin DOMAIN g.aliases,
         NEW link, ResourceOK(link), link.revision = g.revision + 1,
         NEW code \in SuccessCodes
  PROVE  LET result == LinkWritten(g, id, link, code) IN
         /\ Tells(result)
         /\ result.effect = "success" =>
              /\ Grown(g, result.graph)
              /\ result.id = id /\ id \in result.graph.identities
<1> DEFINE resources == Put(g.resources, id, link)
           after == WithSource(g, resources, link)
           h == [g EXCEPT !.resources = after, !.revision = Revisions(g, link),
                          !.identities = @ \cup {id}]
           result == LinkWritten(g, id, link, code)
<1>1. CASE result = Refused("validation-failed") \/ result = Refused("aggregate-constraint-violation")
  BY <1>1, RefusedTells, "validation-failed" \notin SuccessCodes,
     "aggregate-constraint-violation" \notin SuccessCodes DEF SuccessCodes
<1>2. CASE result = Done(code, h, id, after[id])
  <2>1. /\ h.resources = after /\ h.revision = Revisions(g, link)
        /\ h.identities = g.identities \cup {id} /\ h.aliases = g.aliases
        /\ h = [x \in {"resources", "identities", "aliases", "revision"} |-> h[x]]
    BY DEF GraphShape
  <2>2. /\ resources = [a \in DOMAIN resources |-> resources[a]]
        /\ DOMAIN resources = DOMAIN g.resources \cup {id}
        /\ resources[id] = link
        /\ \A a \in DOMAIN g.resources : a # id => resources[a] = g.resources[a]
    BY DEF Put
  <2>3. \A a \in DOMAIN resources : ResourceOK(resources[a])
    BY <2>2 DEF GraphShape

  <2>4. /\ after = [a \in DOMAIN after |-> after[a]]
        /\ DOMAIN after = DOMAIN resources
        /\ \A a \in DOMAIN after : ResourceOK(after[a])
        /\ \A a \in DOMAIN after : \/ after[a] = resources[a]
                                   \/ IsOwned(link) /\ after[a].revision = g.revision + 2
    <3>1. CASE IsOwned(link)
      <4>1. after = Recopied(resources, g.resources, link.source, g.revision + 2)
        BY <3>1 DEF WithSource
      <4> HIDE DEF resources, after
      <4>2. /\ after = [a \in DOMAIN after |-> after[a]]
            /\ DOMAIN after = DOMAIN resources
            /\ \A a \in DOMAIN resources : a # link.source => after[a] = resources[a]
            /\ link.source \in DOMAIN resources =>
                 ResourceOK(after[link.source]) /\ after[link.source].revision = g.revision + 2
        BY <2>2, <2>3, <4>1, CopiesAre
      <4>3. QED
        BY <2>3, <3>1, <4>2
    <3>2. CASE ~IsOwned(link)
      BY <2>2, <2>3, <3>2 DEF WithSource
    <3>3. QED
      BY <3>1, <3>2
  <2>5. /\ Revisions(g, link) = g.revision + IF IsOwned(link) THEN 2 ELSE 1
        /\ g.revision \in Nat
    BY DEF Revisions, GraphShape
  <2>6. DOMAIN g.resources \subseteq g.identities /\ g.identities \cap DOMAIN g.aliases = {}
    BY DEF GraphShape
  <2> HIDE DEF h, resources, after
  <2>7. \A a \in DOMAIN g.resources \cap DOMAIN h.resources :
           \/ h.resources[a] = g.resources[a]
           \/ h.resources[a].revision \in g.revision + 1..h.revision
    BY <2>1, <2>2, <2>4, <2>5
  <2>8. h.revision \in Nat /\ g.revision <= h.revision
    BY <2>1, <2>5
  <2>9. Grown(g, h)
    BY <2>1, <2>2, <2>4, <2>6, <2>7, <2>8, GrownGraph
  <2>10. id \in h.identities
    BY <2>1
  <2>11. QED
    BY <1>2, <2>9, <2>10, DoneTells
<1>3. QED
  BY <1>1, <1>2 DEF LinkWritten

LEMMA IdentityIsFree ==
  ASSUME NEW g, NEW id
  PROVE  /\ IdentityCode(g, id) \in {"identity-taken", "alias-path-taken", "ok"}
         /\ IdentityCode(g, id) = "ok" => id \notin g.identities /\ id \notin DOMAIN g.aliases
BY DEF IdentityCode

LEMMA CreateBeadGrows ==
  ASSUME NEW g, GraphShape(g), NEW input
  PROVE  LET result == CreateBead(g, input) IN
         /\ Tells(result) /\ Consumes(g, result)
         /\ result.effect = "success" => Grown(g, result.graph)
<1> DEFINE id == IF input.id = None THEN Allocation(g) ELSE input.id
           bead == [kind |-> "bead", body |-> input.body, revision |-> g.revision + 1, type |-> "bead",
                    source |-> None, target |-> None, owned |-> {}]
           h == [g EXCEPT !.resources = Put(@, id, bead), !.revision = @ + 1,
                          !.identities = @ \cup {id}]
           result == CreateBead(g, input)
<1>1. CASE IdentityCode(g, id) # "ok"
  <2>1. result = Refused(IdentityCode(g, id))
    BY <1>1 DEF CreateBead
  <2>2. IdentityCode(g, id) \notin SuccessCodes
    BY <1>1, IdentityIsFree DEF SuccessCodes
  <2>3. QED
    BY <2>1, <2>2, RefusedTells DEF Consumes
<1>2. CASE IdentityCode(g, id) = "ok"
  <2>1. result = Done("created", h, id, bead)
    BY <1>2 DEF CreateBead
  <2> DEFINE resources == Put(g.resources, id, bead)
  <2>2. /\ h.resources = resources /\ h.revision = g.revision + 1
        /\ h.identities = g.identities \cup {id} /\ h.aliases = g.aliases
        /\ h = [x \in {"resources", "identities", "aliases", "revision"} |-> h[x]]
    BY DEF GraphShape
  <2>3. ResourceOK(bead) /\ bead.revision = g.revision + 1
    BY DEF ResourceOK
  <2> HIDE DEF bead, id
  <2>4. /\ resources = [a \in DOMAIN resources |-> resources[a]]
        /\ DOMAIN resources = DOMAIN g.resources \cup {id}
        /\ resources[id] = bead
        /\ \A a \in DOMAIN g.resources : a # id => resources[a] = g.resources[a]
    BY DEF Put
  <2> HIDE DEF h, resources
  <2>5. /\ \A a \in DOMAIN g.resources : ResourceOK(g.resources[a])
        /\ DOMAIN g.resources \subseteq g.identities /\ g.identities \cap DOMAIN g.aliases = {}
        /\ g.revision \in Nat
    BY DEF GraphShape
  <2>6. id \notin g.identities /\ id \notin DOMAIN g.aliases
    BY <1>2, IdentityIsFree
  <2>7. Grown(g, h)
    BY <2>2, <2>3, <2>4, <2>5, <2>6, GrownGraph
  <2>8. QED
    BY <2>1, <2>2, <2>6, <2>7, DoneTells DEF Consumes, SuccessCodes
<1>3. QED
  BY <1>1, <1>2

LEMMA EndpointCodes ==
  ASSUME NEW g, NEW a
  PROVE  /\ EndpointCode(g, a) \in {"ok", "validation-failed", "resource-not-found"}
         /\ EndpointCode(g, a) = "ok" <=> a \in External \/ Live(g, a, "bead")
BY DEF EndpointCode

LEMMA CreateLinkGrows ==
  ASSUME NEW g, GraphShape(g), NEW input
  PROVE  LET result == CreateLink(g, input) IN
         /\ Tells(result) /\ Consumes(g, result)
         /\ result.effect = "success" => Grown(g, result.graph)
<1> DEFINE id == IF input.id = None THEN Allocation(g) ELSE input.id
           link == [kind |-> "link", body |-> input.body, revision |-> g.revision + 1,
                    type |-> input.type, source |-> input.source, target |-> input.target,
                    owned |-> {}]
           outside == IF {input.source, input.target} \subseteq External
                      THEN "validation-failed" ELSE "ok"
           code == First(<<IdentityCode(g, id), EndpointCode(g, input.source),
                           EndpointCode(g, input.target), outside>>)
           result == CreateLink(g, input)
<1>1. result = IF code # "ok" THEN Refused(code) ELSE LinkWritten(g, id, link, "created")
  BY DEF CreateLink
<1>2. /\ code \in {"ok", "identity-taken", "alias-path-taken", "validation-failed", "resource-not-found"}
      /\ code = "ok" => IdentityCode(g, id) = "ok"
  <2>1. /\ code \in {"ok", IdentityCode(g, id), EndpointCode(g, input.source),
                     EndpointCode(g, input.target), outside}
        /\ code = "ok" => IdentityCode(g, id) = "ok"
    BY FirstIs
  <2>2. outside \in {"validation-failed", "ok"}
    OBVIOUS
  <2> HIDE DEF code, id, outside
  <2>3. QED
    BY <2>1, <2>2, IdentityIsFree, EndpointCodes
<1>3. ResourceOK(link) /\ link.revision = g.revision + 1
  BY DEF ResourceOK
<1> HIDE DEF id, link, code, result
<1>4. CASE code # "ok"
  <2>1. code \notin SuccessCodes
    BY <1>2 DEF SuccessCodes
  <2>2. QED
    BY <1>1, <1>4, <2>1, RefusedTells DEF Consumes, result
<1>5. CASE code = "ok"
  <2>1. id \notin g.identities /\ id \notin DOMAIN g.aliases
    BY <1>2, <1>5, IdentityIsFree
  <2>2. "created" \in SuccessCodes
    BY DEF SuccessCodes
  <2>3. QED
    BY <1>1, <1>3, <1>5, <2>1, <2>2, LinkWrittenGrows DEF Consumes, result
<1>6. QED
  BY <1>4, <1>5

\* One Bead or Link is changed and nothing consumed.
LEMMA UpdateBeadGrows ==
  ASSUME NEW g, GraphShape(g), NEW input
  PROVE  LET result == UpdateBead(g, input) IN
         /\ Tells(result)
         /\ result.effect = "success" => Grown(g, result.graph)
<1> DEFINE id == input.subject
           owned == OwnedBy(g.resources, g.resources, id)
           bead == [g.resources[id] EXCEPT !.body = input.body, !.revision = g.revision + 1,
                                           !.owned = owned]
           h == [g EXCEPT !.resources[id] = bead, !.revision = @ + 1]
           result == UpdateBead(g, input)
<1>1. CASE result = Refused("resource-not-found") \/ result = Refused("revision-mismatch")
  BY <1>1, RefusedTells, "resource-not-found" \notin SuccessCodes,
     "revision-mismatch" \notin SuccessCodes DEF SuccessCodes
<1>2. CASE result = Done("updated", g, id, g.resources[id])
  <2>1. Grown(g, g)
    BY DEF Grown, Revised, GraphShape
  <2>2. QED
    BY <1>2, <2>1, DoneTells DEF SuccessCodes
<1>3. CASE Live(g, id, "bead") /\ result = Done("updated", h, id, bead)
  <2>1. ResourceOK(g.resources[id]) /\ id \in DOMAIN g.resources
    BY <1>3 DEF Live, GraphShape
  <2>2. /\ bead.kind = g.resources[id].kind /\ bead.revision = g.revision + 1
        /\ bead = [x \in {"kind", "body", "revision", "type", "source", "target", "owned"} |-> bead[x]]
    BY <2>1 DEF ResourceOK
  <2>3. ResourceOK(bead)
    BY <2>1, <2>2 DEF ResourceOK
  <2> HIDE DEF bead
  <2>4. /\ h.resources = [a \in DOMAIN g.resources |-> IF a = id THEN bead ELSE g.resources[a]]
        /\ h.revision = g.revision + 1
        /\ h.identities = g.identities /\ h.aliases = g.aliases
        /\ h = [x \in {"resources", "identities", "aliases", "revision"} |-> h[x]]
    BY <2>1 DEF GraphShape
  <2> HIDE DEF h
  <2>5. /\ \A a \in DOMAIN g.resources : ResourceOK(g.resources[a])
        /\ DOMAIN g.resources \subseteq g.identities /\ g.identities \cap DOMAIN g.aliases = {}
        /\ g.revision \in Nat
    BY DEF GraphShape
  <2>6. Grown(g, h)
    BY <2>1, <2>2, <2>3, <2>4, <2>5, GrownGraph
  <2>7. QED
    BY <1>3, <2>6, DoneTells DEF SuccessCodes
<1>4. QED
  BY <1>1, <1>2, <1>3 DEF UpdateBead

LEMMA UpdateLinkGrows ==
  ASSUME NEW g, GraphShape(g), NEW input
  PROVE  LET result == UpdateLink(g, input) IN
         /\ Tells(result)
         /\ result.effect = "success" => Grown(g, result.graph)
<1> DEFINE id == input.subject
           before == g.resources[id]
           link == [before EXCEPT !.body = input.body, !.revision = g.revision + 1]
           result == UpdateLink(g, input)
<1>1. CASE result = Refused("resource-not-found") \/ result = Refused("revision-mismatch")
  BY <1>1, RefusedTells, "resource-not-found" \notin SuccessCodes,
     "revision-mismatch" \notin SuccessCodes DEF SuccessCodes
<1>2. CASE result = Done("updated", g, id, before)
  <2>1. Grown(g, g)
    BY DEF Grown, Revised, GraphShape
  <2>2. QED
    BY <1>2, <2>1, DoneTells DEF SuccessCodes
<1>3. CASE Live(g, id, "link") /\ result = LinkWritten(g, id, link, "updated")
  <2>1. ResourceOK(before) /\ id \in DOMAIN g.resources
    BY <1>3 DEF Live, GraphShape
  <2>2. /\ link.kind = before.kind /\ link.revision = g.revision + 1
        /\ link = [x \in {"kind", "body", "revision", "type", "source", "target", "owned"} |-> link[x]]
    BY <2>1 DEF ResourceOK
  <2>3. ResourceOK(link)
    BY <2>1, <2>2 DEF ResourceOK
  <2>4. id \notin DOMAIN g.aliases /\ "updated" \in SuccessCodes
    BY <2>1 DEF GraphShape, SuccessCodes
  <2> HIDE DEF link, result
  <2>5. QED
    BY <1>3, <2>2, <2>3, <2>4, LinkWrittenGrows DEF result
<1>4. QED
  BY <1>1, <1>2, <1>3 DEF UpdateLink

LEMMA DeleteBeadGrows ==
  ASSUME NEW g, GraphShape(g), NEW input
  PROVE  LET result == DeleteBead(g, input) IN
         /\ Tells(result)
         /\ result.effect = "success" => Grown(g, result.graph)
<1> DEFINE id == input.subject
           h == [g EXCEPT !.resources = Without(@, {id})]
           result == DeleteBead(g, input)
<1>1. CASE result \in {Refused("resource-not-found"), Refused("revision-mismatch"),
                       Refused("incident-links-exist")}
  BY <1>1, RefusedTells, "resource-not-found" \notin SuccessCodes,
     "revision-mismatch" \notin SuccessCodes,
     "incident-links-exist" \notin SuccessCodes DEF SuccessCodes
<1>2. CASE result = Done("deleted", h, id, None)
  <2> DEFINE rest == Without(g.resources, {id})
  <2>1. /\ h.resources = rest /\ h.revision = g.revision
        /\ h.identities = g.identities /\ h.aliases = g.aliases
        /\ h = [x \in {"resources", "identities", "aliases", "revision"} |-> h[x]]
    BY DEF GraphShape
  <2>2. /\ rest = [a \in DOMAIN rest |-> rest[a]]
        /\ DOMAIN rest = DOMAIN g.resources \ {id}
        /\ \A a \in DOMAIN rest : rest[a] = g.resources[a]
    BY DEF Without
  <2> HIDE DEF h, rest
  <2>3. /\ \A a \in DOMAIN g.resources : ResourceOK(g.resources[a])
        /\ DOMAIN g.resources \subseteq g.identities /\ g.identities \cap DOMAIN g.aliases = {}
        /\ g.revision \in Nat
    BY DEF GraphShape
  <2>4. Grown(g, h)
    BY <2>1, <2>2, <2>3, GrownGraph
  <2>5. QED
    BY <1>2, <2>4, DoneTells DEF SuccessCodes
<1>3. QED
  BY <1>1, <1>2 DEF DeleteBead

LEMMA DeleteLinkGrows ==
  ASSUME NEW g, GraphShape(g), NEW input
  PROVE  LET result == DeleteLink(g, input) IN
         /\ Tells(result)
         /\ result.effect = "success" => Grown(g, result.graph)
<1> DEFINE id == input.subject
           link == g.resources[id]
           rest == Without(g.resources, {id})
           after == IF IsOwned(link) THEN Recopied(rest, g.resources, link.source, g.revision + 1)
                    ELSE rest
           h == [g EXCEPT !.resources = after, !.revision = IF IsOwned(link) THEN @ + 1 ELSE @]
           result == DeleteLink(g, input)
<1>1. CASE result = Refused("resource-not-found") \/ result = Refused("revision-mismatch")
  BY <1>1, RefusedTells, "resource-not-found" \notin SuccessCodes,
     "revision-mismatch" \notin SuccessCodes DEF SuccessCodes
<1>2. CASE result = Done("deleted", h, id, None)
  <2>1. /\ h.resources = after /\ h.revision = IF IsOwned(link) THEN g.revision + 1 ELSE g.revision
        /\ h.identities = g.identities /\ h.aliases = g.aliases
        /\ h = [x \in {"resources", "identities", "aliases", "revision"} |-> h[x]]
    BY DEF GraphShape
  <2>2. /\ rest = [a \in DOMAIN rest |-> rest[a]]
        /\ DOMAIN rest = DOMAIN g.resources \ {id}
        /\ \A a \in DOMAIN rest : rest[a] = g.resources[a]
    BY DEF Without
  <2>3. /\ \A a \in DOMAIN g.resources : ResourceOK(g.resources[a])
        /\ DOMAIN g.resources \subseteq g.identities /\ g.identities \cap DOMAIN g.aliases = {}
        /\ g.revision \in Nat
    BY DEF GraphShape
  <2>4. /\ after = [a \in DOMAIN after |-> after[a]]
        /\ DOMAIN after = DOMAIN rest
        /\ \A a \in DOMAIN after : ResourceOK(after[a])
        /\ \A a \in DOMAIN after : \/ after[a] = rest[a]
                                   \/ IsOwned(link) /\ after[a].revision = g.revision + 1
    <3>1. CASE IsOwned(link)
      <4>1. after = Recopied(rest, g.resources, link.source, g.revision + 1)
        BY <3>1
      <4> HIDE DEF rest, after
      <4>2. QED
        BY <2>2, <2>3, <3>1, <4>1, CopiesAre
    <3>2. CASE ~IsOwned(link)
      BY <2>2, <2>3, <3>2
    <3>3. QED
      BY <3>1, <3>2
  <2> HIDE DEF h, rest, after
  <2>5. Grown(g, h)
    BY <2>1, <2>2, <2>3, <2>4, GrownGraph
  <2>6. QED
    BY <1>2, <2>5, DoneTells DEF SuccessCodes
<1>3. QED
  BY <1>1, <1>2 DEF DeleteLink

LEMMA AliasesGrow ==
  ASSUME NEW g, GraphShape(g), NEW table, DOMAIN table \cap g.identities = {}
  PROVE  LET h == [g EXCEPT !.aliases = table] IN
         Grown(g, h) /\ h.resources = g.resources /\ h.identities = g.identities
<1> DEFINE h == [g EXCEPT !.aliases = table]
<1>1. /\ h.resources = g.resources /\ h.revision = g.revision
      /\ h.identities = g.identities /\ h.aliases = table
      /\ h = [x \in {"resources", "identities", "aliases", "revision"} |-> h[x]]
  BY DEF GraphShape
<1> HIDE DEF h
<1>2. Grown(g, h)
  <2>1. /\ g.resources = [a \in DOMAIN g.resources |-> g.resources[a]]
        /\ \A a \in DOMAIN g.resources : ResourceOK(g.resources[a])
        /\ DOMAIN g.resources \subseteq g.identities /\ g.revision \in Nat
    BY DEF GraphShape
  <2>2. QED
    BY <1>1, <2>1, GrownGraph
<1>3. QED
  BY <1>1, <1>2 DEF h

LEMMA PutAliasGrows ==
  ASSUME NEW g, GraphShape(g), NEW input
  PROVE  LET result == PutAlias(g, input) IN
         /\ Tells(result)
         /\ result.effect = "success" =>
              /\ Grown(g, result.graph)
              /\ result.graph.resources = g.resources
              /\ result.graph.identities = g.identities
<1> DEFINE t == input.target
           path == input.alias
           table == Put(g.aliases, path, t)
           h == [g EXCEPT !.aliases = table]
           result == PutAlias(g, input)
<1>1. CASE \E code \in {"identity-taken", "validation-failed", "resource-not-found"} :
             result = Refused(code)
  BY <1>1, RefusedTells DEF SuccessCodes
<1>2. CASE path \notin g.identities /\ \E code \in SuccessCodes : result = Done(code, h, t, None)
  <2>1. DOMAIN table \cap g.identities = {}
    BY <1>2 DEF GraphShape, Put
  <2> HIDE DEF table
  <2>2. Grown(g, h) /\ h.resources = g.resources /\ h.identities = g.identities
    BY <2>1, AliasesGrow
  <2> HIDE DEF h, result
  <2>3. QED
    BY <1>2, <2>2, DoneTells DEF result
<1>3. QED
  BY <1>1, <1>2 DEF PutAlias, SuccessCodes

LEMMA DeleteAliasGrows ==
  ASSUME NEW g, GraphShape(g), NEW input
  PROVE  LET result == DeleteAlias(g, input) IN
         /\ Tells(result)
         /\ result.effect = "success" =>
              /\ Grown(g, result.graph)
              /\ result.graph.resources = g.resources
              /\ result.graph.identities = g.identities
<1> DEFINE table == Without(g.aliases, {input.alias})
           h == [g EXCEPT !.aliases = table]
           result == DeleteAlias(g, input)
<1>1. CASE result = Refused("resource-not-found")
  BY <1>1, RefusedTells, "resource-not-found" \notin SuccessCodes DEF SuccessCodes
<1>2. CASE result = Done("deleted", h, None, None)
  <2>1. DOMAIN table \cap g.identities = {}
    BY DEF GraphShape, Without
  <2> HIDE DEF table
  <2>2. Grown(g, h) /\ h.resources = g.resources /\ h.identities = g.identities
    BY <2>1, AliasesGrow
  <2> HIDE DEF h, result
  <2>3. QED
    BY <1>2, <2>2, DoneTells DEF SuccessCodes, result
<1>3. QED
  BY <1>1, <1>2 DEF DeleteAlias

\* Whatever a member does, what it tells is what it did; the graph keeps its shape, what
\* it changed has a new revision, and what it created a new address.
LEMMA EvaluateGrows ==
  ASSUME NEW g, GraphShape(g), NEW input, input.operation \in Operations
  PROVE  LET result == Evaluate(g, input) IN
         /\ Tells(result)
         /\ result.effect = "success" => Grown(g, result.graph)
         /\ input.operation \in {"createBead", "createLink"} => Consumes(g, result)
<1> DEFINE op == input.operation
<1>1. CASE op = "createBead"
  BY <1>1, CreateBeadGrows DEF Evaluate
<1>2. CASE op = "createLink"
  BY <1>2, CreateLinkGrows DEF Evaluate
<1>3. CASE op = "updateBead"
  BY <1>3, UpdateBeadGrows DEF Evaluate
<1>4. CASE op = "updateLink"
  BY <1>4, UpdateLinkGrows DEF Evaluate
<1>5. CASE op = "deleteBead"
  BY <1>5, DeleteBeadGrows DEF Evaluate
<1>6. CASE op = "deleteLink"
  BY <1>6, DeleteLinkGrows DEF Evaluate
<1>7. CASE op = "putAlias"
  BY <1>7, PutAliasGrows DEF Evaluate
<1>8. CASE op = "deleteAlias"
  BY <1>8, DeleteAliasGrows DEF Evaluate
<1>9. QED
  BY <1>1, <1>2, <1>3, <1>4, <1>5, <1>6, <1>7, <1>8 DEF Operations

-----------------------------------------------------------------------------
(* The Links: their ends, their number, and the copies their owners hold. *)

CopyLinks(R, a) == {l \in LinksOf(R, "source", a) : R[l].type \in OwnedTypes}

LinkSound(g) ==
  /\ IsFiniteSet(DOMAIN g.resources)
  /\ g.identities \cap External = {}
  /\ \A l \in DOMAIN g.resources : Live(g, l, "link") =>
       \A e \in {g.resources[l].source, g.resources[l].target} \ External : Live(g, e, "bead")
  /\ \A a \in DOMAIN g.resources : Cardinality(LinksOf(g.resources, "target", a)) <= EndpointMax
  /\ \A a \in DOMAIN g.resources :
       Live(g, a, "bead") => g.resources[a].owned = OwnedBy(g.resources, g.resources, a)

\* The copies are those of the Links a Bead owns, and of nothing else.
LEMMA SameCopies ==
  ASSUME NEW R, NEW S, NEW a, CopyLinks(R, a) = CopyLinks(S, a),
         \A l \in CopyLinks(R, a) : R[l].revision = S[l].revision /\ R[l].target = S[l].target,
         NEW b, NEW c
  PROVE  OwnedBy(R, b, a) = OwnedBy(S, c, a)
<1>1. OwnedBy(R, b, a) = {[id |-> l, revision |-> R[l].revision, target |-> R[l].target] : l \in CopyLinks(R, a)}
  BY DEF OwnedBy, CopyLinks
<1>2. OwnedBy(S, c, a) = {[id |-> l, revision |-> S[l].revision, target |-> S[l].target] : l \in CopyLinks(S, a)}
  BY DEF OwnedBy, CopyLinks
<1> HIDE DEF CopyLinks
<1>3. QED
  BY <1>1, <1>2

LEMMA LinksAreFinite ==
  ASSUME NEW R, IsFiniteSet(DOMAIN R), NEW side, NEW a
  PROVE  IsFiniteSet(LinksOf(R, side, a))
<1>1. LinksOf(R, side, a) \in SUBSET DOMAIN R
  BY DEF LinksOf
<1>2. QED
  BY <1>1, FS_Subset

\* What a change leaves sound: the Links of h are those of g but for one, which was
\* created, changed in place or deleted and ends where it may; the Beads are those of g
\* but for one without Links; the copies of what did not change are as they were.
LEMMA StillSound ==
  ASSUME NEW g, LinkSound(g), NEW h,
         IsFiniteSet(DOMAIN h.resources), h.identities \cap External = {},
         DOMAIN h.resources \subseteq h.identities,
         NEW id,
         \A l \in DOMAIN h.resources : l # id /\ Live(h, l, "link") =>
           /\ Live(g, l, "link")
           /\ h.resources[l].source = g.resources[l].source
           /\ h.resources[l].target = g.resources[l].target,
         \A a \in DOMAIN h.resources : a # id => a \in DOMAIN g.resources,
         \A l \in DOMAIN h.resources : Live(h, l, "link") =>
           \A e \in {h.resources[l].source, h.resources[l].target} \ External : Live(h, e, "bead"),
         Live(h, id, "link") /\ h.resources[id].target \notin External =>
             Cardinality(LinksOf(g.resources, "target", h.resources[id].target) \ {id}) < EndpointMax,
         id \in DOMAIN h.resources =>
           \/ LinksOf(h.resources, "target", id) = {}
           \/ /\ LinksOf(h.resources, "target", id) \subseteq LinksOf(g.resources, "target", id)
              /\ id \in DOMAIN g.resources,
         \A a \in DOMAIN h.resources :
           Live(h, a, "bead") => h.resources[a].owned = OwnedBy(h.resources, h.resources, a)
  PROVE  LinkSound(h)
<1>1. ASSUME NEW a \in DOMAIN h.resources
      PROVE  Cardinality(LinksOf(h.resources, "target", a)) <= EndpointMax
  <2> DEFINE before == LinksOf(g.resources, "target", a)
             after == LinksOf(h.resources, "target", a)
  <2>1. IsFiniteSet(before) /\ Cardinality(before) \in Nat /\ IsFiniteSet(after)
    BY LinksAreFinite, FS_CardinalityType DEF LinkSound
  <2>2. a \notin External
    BY <1>1
  <2>3. CASE after = {}
    BY <2>3, FS_EmptySet, EndpointAssumption
  <2>4. CASE after \subseteq before /\ a \in DOMAIN g.resources
    <3>1. Cardinality(after) <= Cardinality(before) /\ Cardinality(after) \in Nat
      BY <2>1, <2>4, FS_Subset, FS_CardinalityType
    <3>2. Cardinality(before) <= EndpointMax
      BY <2>4 DEF LinkSound
    <3>3. QED
      BY <2>1, <3>1, <3>2, EndpointAssumption
  <2>5. CASE a # id
    <3>1. a \in DOMAIN g.resources
      BY <2>5
    <3>2. \A l \in after : l # id => l \in before
      BY DEF LinksOf, Live
    <3>3. CASE id \notin after
      BY <2>4, <3>1, <3>2, <3>3
    <3>4. CASE id \in after
      <4>1. Live(h, id, "link") /\ h.resources[id].target = a
        BY <3>4 DEF LinksOf, Live
      <4>2. Cardinality(before \ {id}) < EndpointMax
        BY <2>2, <4>1
      <4> HIDE DEF before, after
      <4>3. IsFiniteSet(before \ {id}) /\ Cardinality(before \ {id}) \in Nat
        BY <2>1, FS_RemoveElement, FS_CardinalityType
      <4>4. /\ IsFiniteSet((before \ {id}) \cup {id})
            /\ Cardinality((before \ {id}) \cup {id}) = Cardinality(before \ {id}) + 1
        BY <4>3, FS_AddElement
      <4>5. after \subseteq (before \ {id}) \cup {id}
        BY <3>2
      <4>6. Cardinality(after) <= Cardinality((before \ {id}) \cup {id}) /\ Cardinality(after) \in Nat
        BY <4>4, <4>5, FS_Subset, <2>1, FS_CardinalityType
      <4>7. QED
        BY <4>2, <4>3, <4>4, <4>6, EndpointAssumption DEF after
    <3>5. QED
      BY <3>3, <3>4
  <2>6. CASE a = id
    BY <2>3, <2>4, <2>6
  <2>7. QED
    BY <2>5, <2>6
<1>2. QED
  BY <1>1 DEF LinkSound

\* Everything but id is what it was, as far as Links and their ends tell.
SameApart(g, h, id) ==
  \A a \in DOMAIN g.resources \cup DOMAIN h.resources : a # id =>
    /\ a \in DOMAIN g.resources /\ a \in DOMAIN h.resources
    /\ h.resources[a].kind = g.resources[a].kind /\ h.resources[a].type = g.resources[a].type
    /\ h.resources[a].source = g.resources[a].source
    /\ h.resources[a].target = g.resources[a].target
    /\ g.resources[a].kind = "link" => h.resources[a] = g.resources[a]

CopiesCurrent(h) ==
  \A a \in DOMAIN h.resources :
    Live(h, a, "bead") => h.resources[a].owned = OwnedBy(h.resources, h.resources, a)

\* A change of one Resource: a Bead that goes has no Links, a Link that comes or stays ends
\* at Beads with room for it.
LEMMA ChangeIsSound ==
  ASSUME NEW g, LinkSound(g), NEW h, GraphShape(h),
         IsFiniteSet(DOMAIN h.resources), h.identities \cap External = {},
         NEW id, id \notin External, SameApart(g, h, id),
         Live(g, id, "bead") => Live(h, id, "bead") \/ Incident(g, id) = {},
         Live(h, id, "link") =>
           /\ ~Live(g, id, "bead")
           /\ \A e \in {h.resources[id].source, h.resources[id].target} \ External : Live(g, e, "bead")
           /\ h.resources[id].target \notin External =>
                Cardinality(LinksOf(g.resources, "target", h.resources[id].target) \ {id}) < EndpointMax,
         CopiesCurrent(h)
  PROVE  LinkSound(h)
<1>1. \A l \in DOMAIN h.resources : l # id /\ Live(h, l, "link") =>
        /\ Live(g, l, "link")
        /\ h.resources[l].source = g.resources[l].source
        /\ h.resources[l].target = g.resources[l].target
  BY DEF SameApart, Live
<1>2. \A l \in DOMAIN h.resources : Live(h, l, "link") =>
        \A e \in {h.resources[l].source, h.resources[l].target} \ External : Live(h, e, "bead")
  <2> SUFFICES ASSUME NEW l \in DOMAIN h.resources, Live(h, l, "link"),
                      NEW e \in {h.resources[l].source, h.resources[l].target} \ External
               PROVE  Live(h, e, "bead")
    OBVIOUS
  <2>1. \A b : b # id /\ Live(g, b, "bead") => Live(h, b, "bead")
    BY DEF SameApart, Live
  <2>2. CASE l = id
    BY <2>1, <2>2
  <2>3. CASE l # id
    <3>1. /\ Live(g, l, "link") /\ l \in DOMAIN g.resources
          /\ e \in {g.resources[l].source, g.resources[l].target} \ External
      BY <1>1, <2>3 DEF Live
    <3>2. Live(g, e, "bead")
      BY <3>1 DEF LinkSound
    <3>3. CASE e = id
      <4>1. l \in Incident(g, id)
        BY <3>1, <3>3 DEF Incident, LinksOf, Live
      <4>2. QED
        BY <3>2, <3>3, <4>1
    <3>4. QED
      BY <2>1, <3>2, <3>3
  <2>4. QED
    BY <2>2, <2>3
<1>3. \A l \in LinksOf(h.resources, "target", id) :
        l # id /\ l \in LinksOf(g.resources, "target", id) /\ Live(g, id, "bead")
  <2> SUFFICES ASSUME NEW l \in LinksOf(h.resources, "target", id)
               PROVE  l # id /\ l \in LinksOf(g.resources, "target", id) /\ Live(g, id, "bead")
    OBVIOUS
  <2>1. l \in DOMAIN h.resources /\ Live(h, l, "link") /\ h.resources[l].target = id
    BY DEF LinksOf, Live
  <2>2. l # id
    BY <2>1
  <2>3. Live(g, l, "link") /\ g.resources[l].target = id /\ l \in DOMAIN g.resources
    BY <1>1, <2>1, <2>2 DEF Live
  <2>4. Live(g, id, "bead")
    BY <2>3 DEF LinkSound
  <2>5. QED
    BY <2>2, <2>3, <2>4 DEF LinksOf, Live
<1>4. \/ LinksOf(h.resources, "target", id) = {}
      \/ /\ LinksOf(h.resources, "target", id) \subseteq LinksOf(g.resources, "target", id)
         /\ id \in DOMAIN g.resources
  BY <1>3 DEF Live
<1>5. \A a \in DOMAIN h.resources : a # id => a \in DOMAIN g.resources
  BY DEF SameApart
<1>6. DOMAIN h.resources \subseteq h.identities
  BY DEF GraphShape
<1>7. QED
  BY <1>1, <1>2, <1>4, <1>5, <1>6, StillSound DEF CopiesCurrent

\* The copies of a Bead that is no end of what changed.
LEMMA CopiesStand ==
  ASSUME NEW g, NEW h, NEW id, SameApart(g, h, id), NEW a,
         id \notin CopyLinks(g.resources, a), id \notin CopyLinks(h.resources, a),
         NEW b, NEW c
  PROVE  OwnedBy(g.resources, b, a) = OwnedBy(h.resources, c, a)
<1>1. CopyLinks(g.resources, a) = CopyLinks(h.resources, a)
  BY DEF SameApart, CopyLinks, LinksOf
<1>2. \A l \in CopyLinks(g.resources, a) :
        g.resources[l].revision = h.resources[l].revision /\ g.resources[l].target = h.resources[l].target
  BY DEF SameApart, CopyLinks, LinksOf
<1>3. QED
  BY <1>1, <1>2, SameCopies

\* Nothing ends at an address that is no Bead of the graph.
LEMMA NoLinksAt ==
  ASSUME NEW g, LinkSound(g), NEW a, a \notin External, ~Live(g, a, "bead")
  PROVE  LinksOf(g.resources, "source", a) = {} /\ LinksOf(g.resources, "target", a) = {}
BY DEF LinkSound, LinksOf, Live

LEMMA HasMinimum ==
  ASSUME NEW n \in Nat, NEW S, S \subseteq 1..n, S # {}
  PROVE  \E x \in S : \A y \in S : x <= y
<1> DEFINE T == {0..m : m \in S}
           R == StrictSubsetOrdering(0..n)
<1>1. T # {} /\ T \subseteq SUBSET (0..n)
  <2>1. \A m \in S : 0..m \subseteq 0..n
    OBVIOUS
  <2>2. QED
    BY <2>1
<1>2. IsWellFoundedOn(R, SUBSET (0..n))
  <2>1. FiniteSubsetsOf(0..n) = SUBSET (0..n)
    <3>1. IsFiniteSet(0..n)
      BY FS_Interval
    <3>2. QED
      BY <3>1, FS_FiniteSubsetsOfFinite
  <2>2. IsFiniteSet(0..n)
    BY FS_Interval
  <2>3. QED
    BY <2>1, <2>2, FS_StrictSubsetOrderingWellFounded
<1>3. PICK x \in T : \A y \in T : <<y, x>> \notin R
  <2> HIDE DEF T, R
  <2>1. QED
    BY <1>1, <1>2, WFMin
<1>4. PICK m \in S : x = 0..m
  OBVIOUS
<1>5. \A o \in S : m <= o
  <2> SUFFICES ASSUME NEW o \in S, o < m PROVE FALSE
    OBVIOUS
  <2>1. 0..o \subseteq 0..m /\ m \in 0..m /\ m \notin 0..o
    OBVIOUS
  <2>2. <<0..o, 0..m>> \in R
    BY <2>1 DEF StrictSubsetOrdering
  <2>3. QED
    BY <1>3, <1>4, <2>2
<1>6. QED
  BY <1>5

\* An address the store allocates is below the Scope.
LEMMA AllocationIs ==
  ASSUME NEW g, \E n \in 1..Len(Opaque) : Opaque[n] \notin g.identities \cup DOMAIN g.aliases
  PROVE  Allocation(g) \notin External
<1> DEFINE Free == {n \in 1..Len(Opaque) : Opaque[n] \notin g.identities \cup DOMAIN g.aliases}
           P(n) == /\ Opaque[n] \notin g.identities \cup DOMAIN g.aliases
                   /\ \A m \in 1..n - 1 : Opaque[m] \in g.identities \cup DOMAIN g.aliases
           c == CHOOSE n \in 1..Len(Opaque) : P(n)
<1>1. Len(Opaque) \in Nat
  BY OpaqueAssumption
<1>2. PICK x \in Free : \A y \in Free : x <= y
  BY <1>1, HasMinimum
<1>3. P(x)
  BY <1>1, <1>2
<1>4. c \in 1..Len(Opaque)
  BY <1>3
<1>5. Allocation(g) = Opaque[c]
  BY DEF Allocation
<1>6. QED
  BY <1>4, <1>5, OpaqueAssumption
\* A Link that comes, or changes and keeps its ends.
LEMMA LinkWrittenSound ==
  ASSUME NEW g, GraphShape(g), LinkSound(g), NEW id, id \notin External, ~Live(g, id, "bead"),
         NEW link, ResourceOK(link), link.kind = "link",
         \A e \in {link.source, link.target} \ External : Live(g, e, "bead"),
         id \in DOMAIN g.resources =>
           /\ Live(g, id, "link")
           /\ g.resources[id].source = link.source /\ g.resources[id].type = link.type,
         NEW code, Grown(g, LinkWritten(g, id, link, code).graph),
         LinkWritten(g, id, link, code).effect = "success"
  PROVE  LinkSound(LinkWritten(g, id, link, code).graph)
<1> DEFINE resources == Put(g.resources, id, link)
           after == WithSource(g, resources, link)
           h == LinkWritten(g, id, link, code).graph
<1>1. /\ h.resources = after /\ h.identities = g.identities \cup {id}
      /\ ~TooManyAt(g, id, link)
  <2> DEFINE k == [g EXCEPT !.resources = after, !.revision = Revisions(g, link),
                            !.identities = @ \cup {id}]
  <2>1. k.resources = after /\ k.identities = g.identities \cup {id}
    BY DEF GraphShape
  <2> HIDE DEF k, after
  <2>2. h = k /\ ~TooManyAt(g, id, link)
    BY DEF LinkWritten, Refused, Done, k, after
  <2>3. QED
    BY <2>1, <2>2
<1>2. /\ resources = [a \in DOMAIN resources |-> resources[a]]
      /\ DOMAIN resources = DOMAIN g.resources \cup {id}
      /\ resources[id] = link
      /\ \A a \in DOMAIN g.resources : a # id => resources[a] = g.resources[a]
  BY DEF Put
<1> HIDE DEF resources
<1>3. \A a \in DOMAIN resources : ResourceOK(resources[a])
  BY <1>2 DEF GraphShape
<1>4. id # link.source /\ (link.source \in DOMAIN resources => link.source \in DOMAIN g.resources)
  BY <1>2
<1>5. /\ DOMAIN after = DOMAIN resources
      /\ \A a \in DOMAIN resources :
           /\ after[a].kind = resources[a].kind /\ after[a].type = resources[a].type
           /\ after[a].source = resources[a].source /\ after[a].target = resources[a].target
           /\ ~IsOwned(link) \/ a # link.source => after[a] = resources[a]
           /\ IsOwned(link) /\ a = link.source => after[a].owned = OwnedBy(resources, g.resources, a)
  <2>1. CASE IsOwned(link)
    <3>1. after = Recopied(resources, g.resources, link.source, g.revision + 2)
      BY <2>1 DEF WithSource
    <3> HIDE DEF after
    <3>2. /\ DOMAIN after = DOMAIN resources
          /\ \A a \in DOMAIN resources : a # link.source => after[a] = resources[a]
          /\ link.source \in DOMAIN resources =>
               /\ after[link.source].kind = resources[link.source].kind
               /\ after[link.source].type = resources[link.source].type
               /\ after[link.source].source = resources[link.source].source
               /\ after[link.source].target = resources[link.source].target
               /\ after[link.source].owned = OwnedBy(resources, g.resources, link.source)
      BY <1>2, <1>3, <3>1, CopiesAre
    <3>3. QED
      BY <2>1, <3>2
  <2>2. CASE ~IsOwned(link)
    BY <2>2 DEF WithSource
  <2>3. QED
    BY <2>1, <2>2
<1> HIDE DEF after
<1>6. \A a \in DOMAIN g.resources : a = link.source => g.resources[a].kind = "bead"
  <2>1. DOMAIN g.resources \cap External = {}
    BY DEF LinkSound, GraphShape
  <2>2. QED
    BY <2>1 DEF Live
<1>7. after[id] = link /\ id \in DOMAIN after
  BY <1>2, <1>4, <1>5
<1>8. SameApart(g, h, id)
  BY <1>1, <1>2, <1>5, <1>6 DEF SameApart
<1>9. CopiesCurrent(h)
  <2> SUFFICES ASSUME NEW a \in DOMAIN after, after[a].kind = "bead"
               PROVE  after[a].owned = OwnedBy(after, after, a)
    BY <1>1 DEF CopiesCurrent, Live
  <2>1. a # id /\ a \in DOMAIN g.resources /\ a \in DOMAIN resources /\ g.resources[a].kind = "bead"
    BY <1>2, <1>5, <1>7
  <2>2. CASE IsOwned(link) /\ a = link.source
    <3>1. CopyLinks(resources, a) = CopyLinks(after, a)
      BY <1>5 DEF CopyLinks, LinksOf
    <3>2. \A l \in CopyLinks(resources, a) : l # a
      BY <1>2, <2>1 DEF CopyLinks, LinksOf
    <3>3. \A l \in CopyLinks(resources, a) :
            resources[l].revision = after[l].revision /\ resources[l].target = after[l].target
      BY <1>5, <2>2, <3>2 DEF CopyLinks, LinksOf
    <3>4. OwnedBy(resources, g.resources, a) = OwnedBy(after, after, a)
      BY <3>1, <3>3, SameCopies
    <3>5. QED
      BY <1>5, <2>1, <2>2, <3>4
  <2>3. CASE ~(IsOwned(link) /\ a = link.source)
    <3>1. after[a] = g.resources[a]
      BY <1>2, <1>5, <2>1, <2>3
    <3>2. a \notin External
      BY <2>1 DEF LinkSound, GraphShape
    <3>3. id \notin CopyLinks(g.resources, a) /\ id \notin CopyLinks(h.resources, a)
      BY <1>1, <1>7, <2>3, <3>2 DEF CopyLinks, LinksOf, IsOwned
    <3>4. OwnedBy(g.resources, g.resources, a) = OwnedBy(after, after, a)
      BY <1>1, <1>8, <3>3, CopiesStand
    <3>5. QED
      BY <2>1, <3>1, <3>4 DEF LinkSound, Live
  <2>4. QED
    BY <2>2, <2>3
<1>10. link.target \notin External => Cardinality(LinksOf(g.resources, "target", link.target) \ {id}) < EndpointMax
  <2> SUFFICES ASSUME link.target \notin External
               PROVE  Cardinality(LinksOf(g.resources, "target", link.target) \ {id}) < EndpointMax
    OBVIOUS
  <2>1. IsFiniteSet(LinksOf(g.resources, "target", link.target) \ {id})
    BY LinksAreFinite, FS_RemoveElement DEF LinkSound
  <2>2. Cardinality(LinksOf(g.resources, "target", link.target) \ {id}) \in Nat
    BY <2>1, FS_CardinalityType
  <2>3. QED
    BY <1>1, <2>2, EndpointAssumption DEF TooManyAt
<1>11. IsFiniteSet(DOMAIN h.resources) /\ h.identities \cap External = {}
  BY <1>1, <1>2, <1>5, FS_AddElement DEF LinkSound
<1>12. GraphShape(h)
  BY DEF Grown
<1>13. h.resources[id] = link
  BY <1>1, <1>7
<1> HIDE DEF h
<1>14. QED
  BY <1>8, <1>9, <1>10, <1>11, <1>12, <1>13, ChangeIsSound DEF h

\* Nothing refers to an address that was nobody's.
LEMMA CreateBeadSound ==
  ASSUME NEW g, GraphShape(g), LinkSound(g), NEW input, input.id \notin External,
         Allocation(g) \notin External, CreateBead(g, input).effect = "success"
  PROVE  LinkSound(CreateBead(g, input).graph)
<1> DEFINE id == IF input.id = None THEN Allocation(g) ELSE input.id
           bead == [kind |-> "bead", body |-> input.body, revision |-> g.revision + 1, type |-> "bead",
                    source |-> None, target |-> None, owned |-> {}]
           resources == Put(g.resources, id, bead)
           h == CreateBead(g, input).graph
<1>1. h.resources = resources /\ h.identities = g.identities \cup {id} /\ IdentityCode(g, id) = "ok"
  <2> DEFINE k == [g EXCEPT !.resources = Put(@, id, bead), !.revision = @ + 1,
                            !.identities = @ \cup {id}]
  <2>1. k.resources = resources /\ k.identities = g.identities \cup {id}
    BY DEF GraphShape
  <2>2. IdentityCode(g, id) = "ok" /\ CreateBead(g, input) = Done("created", k, id, bead)
    BY DEF CreateBead, Refused
  <2> HIDE DEF k, id, bead
  <2>3. h = k
    BY <2>2 DEF Done
  <2>4. QED
    BY <2>1, <2>2, <2>3
<1>2. bead.kind = "bead" /\ bead.owned = {}
  OBVIOUS
<1>3. id \notin External
  OBVIOUS
<1> HIDE DEF id, bead
<1>4. id \notin g.identities /\ id \notin DOMAIN g.resources
  BY <1>1, IdentityIsFree DEF GraphShape
<1>5. /\ DOMAIN resources = DOMAIN g.resources \cup {id}
      /\ resources[id] = bead
      /\ \A a \in DOMAIN g.resources : a # id => resources[a] = g.resources[a]
  BY DEF Put
<1> HIDE DEF resources
<1>6. SameApart(g, h, id)
  BY <1>1, <1>5 DEF SameApart
<1>7. CopiesCurrent(h)
  <2> SUFFICES ASSUME NEW a \in DOMAIN resources, resources[a].kind = "bead"
               PROVE  resources[a].owned = OwnedBy(resources, resources, a)
    BY <1>1 DEF CopiesCurrent, Live
  <2>1. id \notin CopyLinks(g.resources, a) /\ id \notin CopyLinks(h.resources, a)
    BY <1>1, <1>2, <1>4, <1>5 DEF CopyLinks, LinksOf
  <2>2. OwnedBy(g.resources, g.resources, a) = OwnedBy(resources, resources, a)
    BY <1>1, <1>6, <2>1, CopiesStand
  <2>3. CASE a = id
    <3>1. LinksOf(g.resources, "source", a) = {}
      BY <1>3, <1>4, <2>3, NoLinksAt DEF Live
    <3>2. OwnedBy(g.resources, g.resources, a) = {}
      BY <3>1 DEF OwnedBy
    <3>3. QED
      BY <1>2, <1>5, <2>2, <2>3, <3>2
  <2>4. CASE a # id
    BY <1>5, <2>2, <2>4 DEF LinkSound, Live
  <2>5. QED
    BY <2>3, <2>4
<1>8. IsFiniteSet(DOMAIN h.resources) /\ h.identities \cap External = {}
  BY <1>1, <1>3, <1>5, FS_AddElement DEF LinkSound
<1>9. GraphShape(h)
  BY CreateBeadGrows DEF Grown
<1>10. ~Live(h, id, "link") /\ ~Live(g, id, "bead")
  BY <1>1, <1>2, <1>4, <1>5 DEF Live
<1> HIDE DEF h
<1>11. QED
  BY <1>3, <1>6, <1>7, <1>8, <1>9, <1>10, ChangeIsSound DEF h

LEMMA CreateLinkSound ==
  ASSUME NEW g, GraphShape(g), LinkSound(g), NEW input, input.id \notin External,
         Allocation(g) \notin External, CreateLink(g, input).effect = "success"
  PROVE  LinkSound(CreateLink(g, input).graph)
<1> DEFINE id == IF input.id = None THEN Allocation(g) ELSE input.id
           link == [kind |-> "link", body |-> input.body, revision |-> g.revision + 1,
                    type |-> input.type, source |-> input.source, target |-> input.target,
                    owned |-> {}]
           outside == IF {input.source, input.target} \subseteq External
                      THEN "validation-failed" ELSE "ok"
           code == First(<<IdentityCode(g, id), EndpointCode(g, input.source),
                           EndpointCode(g, input.target), outside>>)
           result == CreateLink(g, input)
<1>1. result = IF code # "ok" THEN Refused(code) ELSE LinkWritten(g, id, link, "created")
  BY DEF CreateLink
<1>2. code = "ok" =>
        /\ IdentityCode(g, id) = "ok"
        /\ EndpointCode(g, input.source) = "ok" /\ EndpointCode(g, input.target) = "ok"
  BY FirstIs
<1>3. /\ ResourceOK(link) /\ link.kind = "link"
      /\ link.source = input.source /\ link.target = input.target
  BY DEF ResourceOK
<1>4. id \notin External
  OBVIOUS
<1> HIDE DEF id, link, code
<1>5. code = "ok" /\ result = LinkWritten(g, id, link, "created")
  BY <1>1 DEF Refused
<1>6. id \notin DOMAIN g.resources
  BY <1>2, <1>5, IdentityIsFree DEF GraphShape
<1>7. \A e \in {link.source, link.target} \ External : Live(g, e, "bead")
  BY <1>2, <1>3, <1>5, EndpointCodes
<1>8. Grown(g, result.graph)
  BY CreateLinkGrows
<1>9. ~Live(g, id, "bead")
  BY <1>6 DEF Live
<1> HIDE DEF result
<1>10. LinkWritten(g, id, link, "created").effect = "success"
  BY <1>5 DEF result
<1>11. QED
  BY <1>3, <1>4, <1>5, <1>6, <1>7, <1>8, <1>9, <1>10, LinkWrittenSound DEF result

LEMMA UpdateBeadSound ==
  ASSUME NEW g, GraphShape(g), LinkSound(g), NEW input, UpdateBead(g, input).effect = "success"
  PROVE  LinkSound(UpdateBead(g, input).graph)
<1> DEFINE id == input.subject
           owned == OwnedBy(g.resources, g.resources, id)
           bead == [g.resources[id] EXCEPT !.body = input.body, !.revision = g.revision + 1,
                                           !.owned = owned]
           k == [g EXCEPT !.resources[id] = bead, !.revision = @ + 1]
           h == UpdateBead(g, input).graph
<1>1. Live(g, id, "bead") /\ (h = g \/ h = k)
  BY DEF UpdateBead, Refused, Done
<1>2. CASE h = g
  BY <1>2
<1>3. CASE h = k
  <2>1. ResourceOK(g.resources[id]) /\ id \in DOMAIN g.resources /\ g.resources[id].kind = "bead"
    BY <1>1 DEF Live, GraphShape
  <2>2. /\ bead.kind = g.resources[id].kind /\ bead.type = g.resources[id].type
        /\ bead.source = g.resources[id].source /\ bead.target = g.resources[id].target
        /\ bead.owned = owned
    BY <2>1 DEF ResourceOK
  <2> HIDE DEF bead
  <2>3. /\ k.resources = [a \in DOMAIN g.resources |-> IF a = id THEN bead ELSE g.resources[a]]
        /\ k.identities = g.identities
    BY <2>1 DEF GraphShape
  <2> HIDE DEF k
  <2>4. GraphShape(k)
    BY <1>3, UpdateBeadGrows DEF Grown
  <2>5. SameApart(g, k, id)
    BY <2>3 DEF SameApart
  <2>6. \A a : id \notin CopyLinks(g.resources, a) /\ id \notin CopyLinks(k.resources, a)
    BY <2>1, <2>2, <2>3 DEF CopyLinks, LinksOf
  <2>7. CopiesCurrent(k)
    <3> SUFFICES ASSUME NEW a \in DOMAIN k.resources, k.resources[a].kind = "bead"
                 PROVE  k.resources[a].owned = OwnedBy(k.resources, k.resources, a)
      BY DEF CopiesCurrent, Live
    <3>1. OwnedBy(g.resources, g.resources, a) = OwnedBy(k.resources, k.resources, a)
      BY <2>5, <2>6, CopiesStand
    <3>2. CASE a = id
      BY <2>2, <2>3, <3>1, <3>2
    <3>3. CASE a # id
      BY <2>3, <3>1, <3>3 DEF LinkSound, Live
    <3>4. QED
      BY <3>2, <3>3
  <2>8. IsFiniteSet(DOMAIN k.resources) /\ k.identities \cap External = {} /\ id \notin External
    BY <2>1, <2>3 DEF LinkSound, GraphShape
  <2>9. ~Live(k, id, "link") /\ Live(k, id, "bead")
    BY <2>1, <2>2, <2>3 DEF Live
  <2> HIDE DEF h, id
  <2>10. LinkSound(k)
    BY <2>4, <2>5, <2>7, <2>8, <2>9, ChangeIsSound
  <2>11. QED
    BY <1>3, <2>10 DEF h
<1>4. QED
  BY <1>1, <1>2, <1>3

LEMMA UpdateLinkSound ==
  ASSUME NEW g, GraphShape(g), LinkSound(g), NEW input, UpdateLink(g, input).effect = "success"
  PROVE  LinkSound(UpdateLink(g, input).graph)
<1> DEFINE id == input.subject
           before == g.resources[id]
           link == [before EXCEPT !.body = input.body, !.revision = g.revision + 1]
           result == UpdateLink(g, input)
<1>1. /\ Live(g, id, "link")
      /\ result.graph = g \/ result = LinkWritten(g, id, link, "updated")
  BY DEF UpdateLink, Refused, Done
<1>2. CASE result.graph = g
  BY <1>2
<1>3. CASE result = LinkWritten(g, id, link, "updated")
  <2>1. ResourceOK(before) /\ id \in DOMAIN g.resources /\ before.kind = "link"
    BY <1>1 DEF Live, GraphShape
  <2>2. /\ link.kind = "link" /\ link.type = before.type
        /\ link.source = before.source /\ link.target = before.target
        /\ link = [x \in {"kind", "body", "revision", "type", "source", "target", "owned"} |-> link[x]]
    BY <2>1 DEF ResourceOK
  <2>3. ResourceOK(link)
    BY <2>1, <2>2 DEF ResourceOK
  <2>4. \A e \in {link.source, link.target} \ External : Live(g, e, "bead")
    BY <1>1, <2>1, <2>2 DEF LinkSound
  <2>5. id \notin External /\ ~Live(g, id, "bead")
    BY <2>1 DEF LinkSound, GraphShape, Live
  <2>6. Grown(g, result.graph)
    BY UpdateLinkGrows
  <2> HIDE DEF link, result
  <2>7. Grown(g, LinkWritten(g, id, link, "updated").graph) /\ LinkWritten(g, id, link, "updated").effect = "success"
    BY <1>3, <2>6 DEF result
  <2>8. LinkSound(LinkWritten(g, id, link, "updated").graph)
    BY <1>1, <2>2, <2>3, <2>4, <2>5, <2>7, LinkWrittenSound
  <2>9. QED
    BY <1>3, <2>8 DEF result
<1>4. QED
  BY <1>1, <1>2, <1>3

LEMMA DeleteBeadSound ==
  ASSUME NEW g, GraphShape(g), LinkSound(g), NEW input, DeleteBead(g, input).effect = "success"
  PROVE  LinkSound(DeleteBead(g, input).graph)
<1> DEFINE id == input.subject
           rest == Without(g.resources, {id})
           k == [g EXCEPT !.resources = rest]
           h == DeleteBead(g, input).graph
<1>1. Live(g, id, "bead") /\ Incident(g, id) = {} /\ h = k
  BY DEF DeleteBead, Refused, Done
<1>2. k.resources = rest /\ k.identities = g.identities
  BY DEF GraphShape
<1>3. DOMAIN rest = DOMAIN g.resources \ {id} /\ \A a \in DOMAIN rest : rest[a] = g.resources[a]
  BY DEF Without
<1>4. GraphShape(k)
  BY <1>1, DeleteBeadGrows DEF Grown
<1> HIDE DEF rest, k
<1>5. SameApart(g, k, id)
  BY <1>2, <1>3 DEF SameApart
<1>6. \A a : id \notin CopyLinks(g.resources, a) /\ id \notin CopyLinks(k.resources, a)
  BY <1>1, <1>2, <1>3 DEF CopyLinks, LinksOf, Live
<1>7. CopiesCurrent(k)
  <2> SUFFICES ASSUME NEW a \in DOMAIN k.resources, k.resources[a].kind = "bead"
               PROVE  k.resources[a].owned = OwnedBy(k.resources, k.resources, a)
    BY DEF CopiesCurrent, Live
  <2>1. OwnedBy(g.resources, g.resources, a) = OwnedBy(k.resources, k.resources, a)
    BY <1>5, <1>6, CopiesStand
  <2>2. QED
    BY <1>2, <1>3, <2>1 DEF LinkSound, Live
<1>8. k.identities \cap External = {} /\ id \notin External /\ ~Live(k, id, "link")
  BY <1>1, <1>2, <1>3 DEF LinkSound, GraphShape, Live
<1>9. IsFiniteSet(DOMAIN k.resources)
  BY <1>2, <1>3, FS_RemoveElement DEF LinkSound
<1> HIDE DEF h, id
<1>10. LinkSound(k)
  BY <1>1, <1>4, <1>5, <1>7, <1>8, <1>9, ChangeIsSound
<1>11. QED
  BY <1>1, <1>10 DEF h

LEMMA DeleteLinkSound ==
  ASSUME NEW g, GraphShape(g), LinkSound(g), NEW input, DeleteLink(g, input).effect = "success"
  PROVE  LinkSound(DeleteLink(g, input).graph)
<1> DEFINE id == input.subject
           link == g.resources[id]
           rest == Without(g.resources, {id})
           after == IF IsOwned(link) THEN Recopied(rest, g.resources, link.source, g.revision + 1)
                    ELSE rest
           k == [g EXCEPT !.resources = after, !.revision = IF IsOwned(link) THEN @ + 1 ELSE @]
           h == DeleteLink(g, input).graph
<1>1. Live(g, id, "link") /\ h = k
  BY DEF DeleteLink, Refused, Done
<1>2. k.resources = after /\ k.identities = g.identities
  BY DEF GraphShape
<1>3. /\ rest = [a \in DOMAIN rest |-> rest[a]]
      /\ DOMAIN rest = DOMAIN g.resources \ {id}
      /\ \A a \in DOMAIN rest : rest[a] = g.resources[a] /\ ResourceOK(rest[a])
  BY DEF Without, GraphShape
<1>4. GraphShape(k)
  BY <1>1, DeleteLinkGrows DEF Grown
<1> HIDE DEF rest, k
<1>5. /\ DOMAIN after = DOMAIN rest
      /\ \A a \in DOMAIN rest :
           /\ after[a].kind = rest[a].kind /\ after[a].type = rest[a].type
           /\ after[a].source = rest[a].source /\ after[a].target = rest[a].target
           /\ ~IsOwned(link) \/ a # link.source => after[a] = rest[a]
           /\ IsOwned(link) /\ a = link.source => after[a].owned = OwnedBy(rest, g.resources, a)
  <2>1. CASE IsOwned(link)
    <3>1. after = Recopied(rest, g.resources, link.source, g.revision + 1)
      BY <2>1
    <3> HIDE DEF after, link
    <3>2. /\ DOMAIN after = DOMAIN rest
          /\ \A a \in DOMAIN rest : a # link.source => after[a] = rest[a]
          /\ link.source \in DOMAIN rest =>
               /\ after[link.source].kind = rest[link.source].kind
               /\ after[link.source].type = rest[link.source].type
               /\ after[link.source].source = rest[link.source].source
               /\ after[link.source].target = rest[link.source].target
               /\ after[link.source].owned = OwnedBy(rest, g.resources, link.source)
      BY <1>3, <3>1, CopiesAre
    <3>3. QED
      BY <2>1, <3>2
  <2>2. CASE ~IsOwned(link)
    BY <2>2
  <2>3. QED
    BY <2>1, <2>2
<1> HIDE DEF after
<1>6. link.kind = "link" /\ id \in DOMAIN g.resources
  BY <1>1 DEF Live
<1>7. \A a \in DOMAIN g.resources : a = link.source => g.resources[a].kind = "bead"
  <2>1. DOMAIN g.resources \cap External = {}
    BY DEF LinkSound, GraphShape
  <2>2. QED
    BY <1>1, <1>6, <2>1 DEF LinkSound, Live
<1>8. SameApart(g, k, id)
  BY <1>2, <1>3, <1>5, <1>7 DEF SameApart
<1>9. CopiesCurrent(k)
  <2> SUFFICES ASSUME NEW a \in DOMAIN after, after[a].kind = "bead"
               PROVE  after[a].owned = OwnedBy(after, after, a)
    BY <1>2 DEF CopiesCurrent, Live
  <2>1. a # id /\ a \in DOMAIN g.resources /\ a \in DOMAIN rest /\ g.resources[a].kind = "bead"
    BY <1>3, <1>5
  <2>2. CASE IsOwned(link) /\ a = link.source
    <3>1. CopyLinks(rest, a) = CopyLinks(after, a)
      BY <1>5 DEF CopyLinks, LinksOf
    <3>2. \A l \in CopyLinks(rest, a) : l # a
      BY <1>3, <2>1 DEF CopyLinks, LinksOf
    <3>3. \A l \in CopyLinks(rest, a) :
            rest[l].revision = after[l].revision /\ rest[l].target = after[l].target
      BY <1>5, <2>2, <3>2 DEF CopyLinks, LinksOf
    <3>4. OwnedBy(rest, g.resources, a) = OwnedBy(after, after, a)
      BY <3>1, <3>3, SameCopies
    <3>5. QED
      BY <1>5, <2>1, <2>2, <3>4
  <2>3. CASE ~(IsOwned(link) /\ a = link.source)
    <3>1. after[a] = g.resources[a]
      BY <1>3, <1>5, <2>1, <2>3
    <3>2. a \notin External
      BY <2>1 DEF LinkSound, GraphShape
    <3>3. id \notin CopyLinks(g.resources, a) /\ id \notin CopyLinks(k.resources, a)
      BY <1>2, <1>3, <1>5, <2>3, <3>2 DEF CopyLinks, LinksOf, IsOwned
    <3>4. OwnedBy(g.resources, g.resources, a) = OwnedBy(after, after, a)
      BY <1>2, <1>8, <3>3, CopiesStand
    <3>5. QED
      BY <2>1, <3>1, <3>4 DEF LinkSound, Live
  <2>4. QED
    BY <2>2, <2>3
<1>10. k.identities \cap External = {} /\ id \notin External /\ ~Live(k, id, "link") /\ ~Live(g, id, "bead")
  BY <1>1, <1>2, <1>3, <1>5 DEF LinkSound, GraphShape, Live
<1>11. IsFiniteSet(DOMAIN k.resources)
  BY <1>2, <1>3, <1>5, FS_RemoveElement DEF LinkSound
<1> HIDE DEF h, id
<1>12. LinkSound(k)
  BY <1>4, <1>8, <1>9, <1>10, <1>11, ChangeIsSound
<1>13. QED
  BY <1>1, <1>12 DEF h

LEMMA AliasesKeepLinks ==
  ASSUME NEW g, LinkSound(g), NEW h, h.resources = g.resources, h.identities = g.identities
  PROVE  LinkSound(h)
BY DEF LinkSound, Live

\* Whatever a member does, the Links stay sound.
LEMMA EvaluateSound ==
  ASSUME NEW g, GraphShape(g), LinkSound(g), NEW input, input.operation \in Operations,
         input.id \notin External, Allocation(g) \notin External,
         Evaluate(g, input).effect = "success"
  PROVE  LinkSound(Evaluate(g, input).graph)
<1> DEFINE op == input.operation
<1>1. CASE op = "createBead"
  BY <1>1, CreateBeadSound DEF Evaluate
<1>2. CASE op = "createLink"
  BY <1>2, CreateLinkSound DEF Evaluate
<1>3. CASE op = "updateBead"
  BY <1>3, UpdateBeadSound DEF Evaluate
<1>4. CASE op = "updateLink"
  BY <1>4, UpdateLinkSound DEF Evaluate
<1>5. CASE op = "deleteBead"
  BY <1>5, DeleteBeadSound DEF Evaluate
<1>6. CASE op = "deleteLink"
  BY <1>6, DeleteLinkSound DEF Evaluate
<1>7. CASE op = "putAlias"
  BY <1>7, PutAliasGrows, AliasesKeepLinks DEF Evaluate
<1>8. CASE op = "deleteAlias"
  BY <1>8, DeleteAliasGrows, AliasesKeepLinks DEF Evaluate
<1>9. QED
  BY <1>1, <1>2, <1>3, <1>4, <1>5, <1>6, <1>7, <1>8 DEF Operations

-----------------------------------------------------------------------------
(* What a member means. *)

\* The meanings w of a member's references: an alias has one target in all of them.
Understood(m, w) ==
  /\ DOMAIN w = Slots
  /\ \A s \in Slots :
       /\ w[s].as = m[s].as
       /\ m[s].as = "alias" => w[s].to = m[s].to
       /\ m[s].as \in {"none", "direct"} => w[s].to = None /\ w[s].target = m[s].to
  /\ \A s, t \in Slots :
       w[s].as = "alias" /\ w[t].as = "alias" /\ w[s].to = w[t].to => w[s].target = w[t].target

LEMMA FirstMeaning ==
  ASSUME NEW m, IsMember(m), NEW creators
  PROVE  Understood(m, Witnesses(m, creators, NoFunction))
<1> DEFINE meant(to) == IF to \in DOMAIN graph.aliases THEN graph.aliases[to] ELSE None
           w == Witnesses(m, creators, NoFunction)
<1>1. \A to : AliasTarget(to, NoFunction) = meant(to)
  BY DEF AliasTarget, NoFunction
<1>2. DOMAIN w = Slots
  BY DEF Witnesses
<1>3. \A s \in Slots :
        /\ w[s].as = m[s].as
        /\ m[s].as = "alias" => w[s].to = m[s].to /\ w[s].target = meant(m[s].to)
        /\ m[s].as \in {"none", "direct"} => w[s].to = None /\ w[s].target = m[s].to
  <2> TAKE s \in Slots
  <2>1. w[s] = Meaning(m, s, creators, NoFunction)
    BY DEF Witnesses
  <2>2. m[s].as \in {"none", "direct", "alias", "binding"}
    BY DEF IsMember
  <2> HIDE DEF w
  <2>3. QED
    BY <1>1, <2>1, <2>2 DEF Meaning
<1> HIDE DEF w, meant
<1>4. QED
  BY <1>2, <1>3 DEF Understood, w

\* Sent again, a member without bindings means what it meant.
LEMMA SameMeaning ==
  ASSUME NEW m, IsMember(m), NEW w, Understood(m, w), NEW creators,
         \A s \in Slots : m[s].as # "binding"
  PROVE  Identity(m, Witnesses(m, creators, w)) = Identity(m, w)
<1> DEFINE v == Witnesses(m, creators, w)
<1>1. \A s \in Slots : v[s].as = w[s].as /\ v[s].to = w[s].to /\ v[s].target = w[s].target
  <2> TAKE s \in Slots
  <2>1. v[s] = Meaning(m, s, creators, w)
    BY DEF Witnesses
  <2>2. m[s].as \in {"none", "direct", "alias"}
    BY DEF IsMember
  <2> HIDE DEF v
  <2>3. CASE m[s].as = "alias"
    <3> DEFINE known == {t \in DOMAIN w : w[t].as = "alias" /\ w[t].to = m[s].to}
               t == CHOOSE t \in known : TRUE
    <3>1. s \in known
      BY <2>3 DEF Understood
    <3>2. t \in known
      BY <3>1
    <3>3. AliasTarget(m[s].to, w) = w[t].target
      BY <3>1 DEF AliasTarget
    <3>4. w[t].target = w[s].target
      BY <2>3, <3>2 DEF Understood
    <3>5. QED
      BY <2>1, <2>3, <3>3, <3>4 DEF Meaning, Understood
  <2>4. CASE m[s].as \in {"none", "direct"}
    BY <2>1, <2>4 DEF Meaning, Understood
  <2>5. QED
    BY <2>2, <2>3, <2>4
<1> HIDE DEF v
<1>2. \A s \in Slots :
        (IF v[s].target # None THEN <<"id", v[s].target>>
         ELSE IF v[s].as = "alias" THEN <<"alias", v[s].to>> ELSE <<v[s].as, "">>) =
        (IF w[s].target # None THEN <<"id", w[s].target>>
         ELSE IF w[s].as = "alias" THEN <<"alias", w[s].to>> ELSE <<w[s].as, "">>)
  BY <1>1
<1>3. Identity(m, v) = Identity(m, w)
  BY <1>2 DEF Identity
<1>4. QED
  BY <1>3 DEF v

-----------------------------------------------------------------------------
(* Rows of keys. *)

RowFields == {"state", "identity", "witnesses", "effect", "until", "creation", "was", "of"}

\* A decided row: the member it was retained for, under the meanings it had.
DecidedRow(r) ==
  /\ r = [x \in RowFields |-> r[x]]
  /\ r.state \in {"retained", "expired"}
  /\ r.effect \in {"success", "failure"}
  /\ r.effect = "success" <=> r.was.code \in SuccessCodes
  /\ IsMember(r.of) /\ Understood(r.of, r.witnesses)
  /\ r.identity = Identity(r.of, r.witnesses)

AttemptRow(x) ==
  /\ x = [y \in {"principal", "carrier", "next", "creators"} |-> x[y]]
  /\ x.principal \in Principals /\ x.carrier \in Carriers

IInv ==
  /\ TypeOK
  /\ keys = [k \in DOMAIN keys |-> keys[k]]
  /\ attempts = [a \in DOMAIN attempts |-> attempts[a]]
  /\ \A a \in DOMAIN attempts : AttemptRow(attempts[a])
  /\ \A k \in Decided : DecidedRow(keys[k])
  /\ \A k \in Effects : keys[k].creation = None \/ keys[k].creation \in graph.identities
  /\ \A j, k \in Effects : keys[j].creation # None /\ keys[j].creation = keys[k].creation => j = k
  /\ GraphShape(graph)
  /\ ClaimsHaveOwners
  /\ AnswersStand

\* u is t without some of its claims.
Shrunk(t, u) ==
  /\ u = [k \in DOMAIN u |-> u[k]]
  /\ DOMAIN u \subseteq DOMAIN t
  /\ \A k \in DOMAIN u : u[k] = t[k]
  /\ \A k \in DOMAIN t \ DOMAIN u : t[k].state = "claimed"

LEMMA WithoutClaims ==
  ASSUME NEW t, NEW S, \A k \in S \cap DOMAIN t : t[k].state = "claimed"
  PROVE  Shrunk(t, Without(t, S))
BY DEF Shrunk, Without

LEMMA ShrunkTwice ==
  ASSUME NEW t, NEW u, NEW v, Shrunk(t, u), Shrunk(u, v)
  PROVE  Shrunk(t, v)
BY DEF Shrunk

LEMMA EndedShrinks ==
  ASSUME NEW a, NEW t
  PROVE  Shrunk(t, Ended(a, t))
<1>1. \A k \in ClaimedBy(t, a) \cap DOMAIN t : t[k].state = "claimed"
  BY DEF ClaimedBy
<1>2. QED
  BY <1>1, WithoutClaims DEF Ended

\* The member a request is at.
LEMMA MemberIs ==
  ASSUME IInv, NEW a \in DOMAIN attempts
  PROVE  /\ IsMember(Member(a)) /\ ClaimOf(a, Member(a)) \in KeysOf
         /\ attempts[a].next \in 1..Len(attempts[a].carrier)
         /\ Len(attempts[a].carrier) \in Nat
         /\ AttemptRow(attempts[a])
<1>1. /\ attempts[a].carrier \in Carriers /\ attempts[a].principal \in Principals
      /\ attempts[a].next \in 1..Len(attempts[a].carrier)
      /\ AttemptRow(attempts[a])
  BY DEF IInv, AttemptRow, TypeOK
<1>2. IsMember(Member(a)) /\ Len(attempts[a].carrier) \in Nat
  BY <1>1, CarriersAssumption DEF Member
<1>3. Member(a) \in UNION {ToSet(c) : c \in Carriers}
  <2>1. Member(a) \in ToSet(attempts[a].carrier)
    BY <1>1, <1>2 DEF Member, ToSet
  <2>2. QED
    BY <1>1, <2>1
<1>4. QED
  BY <1>1, <1>2, <1>3 DEF KeysOf, ClaimOf

-----------------------------------------------------------------------------
(* What a step does to the keys. *)

KeepStep == UNCHANGED <<keys, graph, told>>

ReserveStep ==
  /\ \E a, K : /\ K \subseteq KeysOf \ DOMAIN keys
               /\ keys' = [k \in DOMAIN keys \cup K |-> IF k \in K THEN Claim(a) ELSE keys[k]]
  /\ UNCHANGED <<graph, told>>

\* Claims are given up; somebody may be answered by a row.
TellsRow(t) ==
  /\ Succeeded(t) => t.claim \in Effects /\ t.answer = Answer(keys[t.claim].was.code, keys[t.claim].was.id)
  /\ t.storage = "conflict" /\ t.of = keys[t.claim].of => \E s \in Slots : t.of[s].as = "binding"
DropStep ==
  /\ Shrunk(keys, keys')
  /\ UNCHANGED graph
  /\ told' = told \/ \E t : told' = told \cup {t} /\ TellsRow(t)

ForgetStep ==
  /\ \E t : Shrunk(keys, t) /\ keys' = Expired(t)
  /\ UNCHANGED <<graph, told>>

\* A member is executed under the key it held, or found free.
Finishes(a, k, row, result) ==
  /\ k \in KeysOf
  /\ k \in DOMAIN keys => keys[k].state = "claimed"
  /\ DecidedRow(row) /\ row.state = "retained"
  /\ row.was.code = result.code /\ row.was.id = result.id /\ row.effect = result.effect
  /\ row.creation # None =>
       /\ result.effect = "success"
       /\ row.creation \notin graph.identities /\ row.creation \in result.graph.identities
  /\ result.effect = "success" => Grown(graph, result.graph)
  /\ graph' = IF result.effect = "success" THEN result.graph ELSE graph
  /\ Shrunk(Put(keys, k, row), keys')
  /\ k \in DOMAIN keys'
FinishStep ==
  \E a, k, row, result :
    /\ Finishes(a, k, row, result)
    /\ \/ told' = told
       \/ \E t : /\ told' = told \cup {t}
                 /\ t.claim = k /\ t.storage = "retained"
                 /\ t.answer = Answer(result.code, result.id)

\* Executed: what is retained.
LEMMA ExecutedIs ==
  ASSUME IInv, NEW a \in DOMAIN attempts
  PROVE  \E row, result :
           /\ DecidedRow(row) /\ row.state = "retained"
           /\ row.was.code = result.code /\ row.was.id = result.id /\ row.effect = result.effect
           /\ row.creation # None =>
                /\ result.effect = "success"
                /\ row.creation \notin graph.identities /\ row.creation \in result.graph.identities
           /\ result.effect = "success" => Grown(graph, result.graph)
           /\ Executed(a).graph = IF result.effect = "success" THEN result.graph ELSE graph
           /\ Executed(a).keys = Put(keys, ClaimOf(a, Member(a)), row)
           /\ Executed(a).turn.storage = "retained"
           /\ Executed(a).turn.answer = Answer(result.code, result.id)
<1> DEFINE m == Member(a)
           w == Witnesses(m, attempts[a].creators, NoFunction)
           result == IF LacksCreator(m, attempts[a].creators) THEN Refused("binding-unavailable")
                     ELSE Evaluate(graph, Input(m, w))
           row == Retained(m, w, result)
<1>1. /\ Executed(a).graph = IF result.effect = "success" THEN result.graph ELSE graph
      /\ Executed(a).keys = Put(keys, ClaimOf(a, m), row)
      /\ Executed(a).turn.storage = "retained"
      /\ Executed(a).turn.answer = Answer(result.code, result.id)
  BY DEF Executed, Turn
<1>2. IsMember(m) /\ Understood(m, w)
  BY MemberIs, FirstMeaning
<1>3. /\ Tells(result)
      /\ result.effect = "success" => Grown(graph, result.graph)
      /\ Creates(m) => Consumes(graph, result)
  <2>1. CASE LacksCreator(m, attempts[a].creators)
    <3>1. result = Refused("binding-unavailable")
      BY <2>1
    <3>2. Tells(result) /\ result.effect = "failure"
      BY <3>1, RefusedTells, "binding-unavailable" \notin SuccessCodes DEF SuccessCodes
    <3>3. QED
      BY <3>2 DEF Consumes
  <2>2. CASE ~LacksCreator(m, attempts[a].creators)
    <3> DEFINE input == Input(m, w)
    <3>1. result = Evaluate(graph, input)
      BY <2>2
    <3>2. input.operation = m.operation /\ m.operation \in Operations
      BY <1>2 DEF Input, IsMember, Operations
    <3>3. GraphShape(graph)
      BY DEF IInv
    <3> HIDE DEF input, result
    <3>4. QED
      BY <3>1, <3>2, <3>3, EvaluateGrows DEF Creates
  <2>3. QED
    BY <2>1, <2>2
<1> HIDE DEF result, w, m
<1>4. /\ row.state = "retained" /\ row.identity = Identity(m, w) /\ row.witnesses = w
      /\ row.effect = result.effect /\ row.of = m
      /\ row.was.code = result.code /\ row.was.id = result.id
      /\ row.creation = IF Creates(m) /\ result.effect = "success" THEN result.id ELSE None
      /\ row = [x \in RowFields |-> row[x]]
  BY DEF Retained, RowFields
<1> HIDE DEF row
<1>5. DecidedRow(row)
  BY <1>2, <1>3, <1>4 DEF DecidedRow, Tells
<1>6. row.creation # None =>
        /\ result.effect = "success"
        /\ row.creation \notin graph.identities /\ row.creation \in result.graph.identities
  BY <1>3, <1>4 DEF Consumes
<1>7. /\ Executed(a).keys = Put(keys, ClaimOf(a, Member(a)), row)
  BY <1>1 DEF m
<1>8. QED
  BY <1>1, <1>3, <1>4, <1>5, <1>6, <1>7

\* Compared with a row, a member is told what the row says, and is in conflict with
\* itself only if it refers to the creation of another.
LEMMA ComparedIs ==
  ASSUME IInv, NEW m, IsMember(m), NEW k \in Decided, NEW creators,
         NEW t, t.claim = k, t.of = m,
         t.storage = Compared(m, keys[k], creators).storage,
         t.answer = Compared(m, keys[k], creators).answer
  PROVE  TellsRow(t)
<1> DEFINE row == keys[k]
           turn == Compared(m, row, creators)
<1>1. DecidedRow(row)
  BY DEF IInv
<1>2. /\ turn.storage \in {"conflict", "expired", "hidden", "replayed"}
      /\ turn.storage = "conflict" => Identity(m, Witnesses(m, creators, row.witnesses)) # row.identity
      /\ turn.storage = "replayed" => turn.answer = Answer(row.was.code, row.was.id)
  BY DEF Compared, Turn
<1> HIDE DEF turn
<1>3. ASSUME Succeeded(t) PROVE k \in Effects /\ t.answer = Answer(row.was.code, row.was.id)
  <2>1. turn.storage = "replayed" /\ t.answer = Answer(row.was.code, row.was.id)
    BY <1>2, <1>3 DEF Succeeded, turn
  <2>2. row.was.code \in SuccessCodes
    BY <1>3, <2>1 DEF Succeeded, SuccessCodes, Answer
  <2>3. QED
    BY <1>1, <2>1, <2>2 DEF DecidedRow, Effects
<1>4. ASSUME t.storage = "conflict", m = row.of, \A s \in Slots : m[s].as # "binding" PROVE FALSE
  <2>1. Identity(m, Witnesses(m, creators, row.witnesses)) = Identity(m, row.witnesses)
    BY <1>1, <1>4, SameMeaning DEF DecidedRow
  <2>2. QED
    BY <1>1, <1>2, <1>4, <2>1 DEF DecidedRow, turn
<1>5. QED
  BY <1>3, <1>4 DEF TellsRow

\* The turn of a request, before what it may end.
LEMMA RanIs ==
  ASSUME IInv, NEW a \in DOMAIN attempts
  PROVE  LET ran == Ran(a)
             t == [claim |-> ClaimOf(a, Member(a)), of |-> Member(a),
                   storage |-> ran.turn.storage, answer |-> ran.turn.answer] IN
         \/ Shrunk(keys, ran.keys) /\ ran.graph = graph /\ TellsRow(t)
         \/ MayRun(a, ClaimOf(a, Member(a))) /\ ran = Executed(a)
<1> DEFINE m == Member(a)
           k == ClaimOf(a, m)
           creators == attempts[a].creators
           ran == Ran(a)
           t == [claim |-> k, of |-> m, storage |-> ran.turn.storage, answer |-> ran.turn.answer]
           kept(turn) == [keys |-> keys, graph |-> graph, turn |-> turn]
<1>0. t.claim = k /\ t.of = m /\ t.storage = ran.turn.storage /\ t.answer = ran.turn.answer
  OBVIOUS
<1>1. Shrunk(keys, keys)
  BY DEF IInv, Shrunk
<1>2. CASE Waits(m, creators)
  <2>1. ran = [kept(Turn("waits", "idempotency-in-progress", None, Transient))
                 EXCEPT !.keys = WithoutWaiting(a, k)]
    BY <1>2 DEF Ran
  <2>2. ran.keys = WithoutWaiting(a, k) /\ ran.graph = graph /\ ran.turn.storage = "waits"
    BY <2>1 DEF Turn
  <2>3. Shrunk(keys, ran.keys)
    BY <2>2, WithoutClaims DEF WithoutWaiting, ClaimedBy
  <2> HIDE DEF ran, t, k, m
  <2>4. TellsRow(t)
    BY <1>0, <2>2 DEF TellsRow, Succeeded
  <2>5. QED
    BY <2>2, <2>3, <2>4 DEF ran, t, k, m
<1>3. CASE ~Waits(m, creators) /\ MayRun(a, k)
  BY <1>3 DEF Ran
<1>4. CASE ~Waits(m, creators) /\ ~MayRun(a, k) /\ keys[k].state = "claimed"
  <2>1. ran = kept(Turn("in-progress", "idempotency-in-progress", None, Transient))
    BY <1>4 DEF Ran
  <2>2. ran.keys = keys /\ ran.graph = graph /\ ran.turn.storage = "in-progress"
    BY <2>1 DEF Turn
  <2> HIDE DEF ran, t, k, m
  <2>3. TellsRow(t)
    BY <1>0, <2>2 DEF TellsRow, Succeeded
  <2>4. QED
    BY <1>1, <2>2, <2>3 DEF ran, t, k, m
<1>5. CASE ~Waits(m, creators) /\ ~MayRun(a, k) /\ keys[k].state # "claimed"
  <2>1. ran = kept(Compared(m, keys[k], creators))
    BY <1>5 DEF Ran
  <2>2. ran.keys = keys /\ ran.graph = graph /\ ran.turn = Compared(m, keys[k], creators)
    BY <2>1
  <2>3. k \in Decided
    BY <1>5 DEF MayRun, Decided
  <2>4. IsMember(m)
    BY MemberIs
  <2> HIDE DEF ran, t, k, m
  <2>5. TellsRow(t)
    BY <1>0, <2>2, <2>3, <2>4, ComparedIs
  <2>6. QED
    BY <1>1, <2>2, <2>5 DEF ran, t, k, m
<1>6. QED
  BY <1>2, <1>3, <1>4, <1>5

LEMMA RunSteps ==
  ASSUME IInv, NEW a, RunMember(a)
  PROVE  DropStep \/ FinishStep
<1> DEFINE m == Member(a)
           k == ClaimOf(a, m)
           ran == Ran(a)
           t == [claim |-> k, of |-> m, storage |-> ran.turn.storage, answer |-> ran.turn.answer]
<1>0. a \in DOMAIN attempts
  BY DEF RunMember
<1>1. /\ Shrunk(keys, keys) /\ Shrunk(keys, Ended(a, keys))
      /\ Shrunk(ran.keys, Ended(a, ran.keys))
  BY EndedShrinks DEF IInv, Shrunk
\* Either it is rolled back, or the turn takes place.
<1>2. \/ keys' \in {keys, Ended(a, keys)} /\ graph' = graph /\ told' = told
      \/ /\ keys' \in {ran.keys, Ended(a, ran.keys)} /\ graph' = ran.graph
         /\ told' = told \/ told' = told \cup {t}
  <2>1. CASE Answered(a)
    BY <2>1 DEF Answered
  <2>2. CASE Failed(a)
    BY <2>2 DEF Failed
  <2>3. QED
    BY <2>1, <2>2 DEF RunMember
<1>3. CASE keys' \in {keys, Ended(a, keys)} /\ graph' = graph /\ told' = told
  BY <1>1, <1>3 DEF DropStep
<1>4. CASE /\ keys' \in {ran.keys, Ended(a, ran.keys)} /\ graph' = ran.graph
           /\ told' = told \/ told' = told \cup {t}
  <2>1. CASE Shrunk(keys, ran.keys) /\ ran.graph = graph /\ TellsRow(t)
    <3>1. Shrunk(keys, keys')
      BY <1>1, <1>4, <2>1, ShrunkTwice
    <3> HIDE DEF t, ran
    <3>2. QED
      BY <1>4, <2>1, <3>1 DEF DropStep
  <2>2. CASE MayRun(a, k) /\ ran = Executed(a)
    <3>1. PICK row, result :
           /\ DecidedRow(row) /\ row.state = "retained"
           /\ row.was.code = result.code /\ row.was.id = result.id /\ row.effect = result.effect
           /\ row.creation # None =>
                /\ result.effect = "success"
                /\ row.creation \notin graph.identities /\ row.creation \in result.graph.identities
           /\ result.effect = "success" => Grown(graph, result.graph)
           /\ ran.graph = IF result.effect = "success" THEN result.graph ELSE graph
           /\ ran.keys = Put(keys, k, row)
           /\ ran.turn.storage = "retained"
           /\ ran.turn.answer = Answer(result.code, result.id)
      BY <1>0, <2>2, ExecutedIs
    <3>2. t.claim = k /\ t.storage = "retained" /\ t.answer = Answer(result.code, result.id)
      BY <3>1
    <3> HIDE DEF ran, t
    <3>3. k \in KeysOf
      BY <1>0, MemberIs
    <3>4. k \in DOMAIN keys => keys[k].state = "claimed"
      BY <2>2 DEF MayRun, ClaimedBy
    <3> HIDE DEF k, m
    <3>5. Shrunk(Put(keys, k, row), keys')
      <4>1. Shrunk(ran.keys, ran.keys)
        BY <3>1 DEF Shrunk, Put
      <4>2. QED
        BY <1>1, <1>4, <3>1, <4>1
    <3>6. k \in DOMAIN keys'
      <4>1. k \in DOMAIN Put(keys, k, row) /\ Put(keys, k, row)[k] = row
        BY DEF Put
      <4>2. QED
        BY <3>1, <3>5, <4>1 DEF Shrunk
    <3>7. Finishes(a, k, row, result)
      BY <1>4, <3>1, <3>3, <3>4, <3>5, <3>6 DEF Finishes
    <3>8. QED
      BY <1>4, <3>2, <3>7 DEF FinishStep
  <2>3. QED
    BY <1>0, <2>1, <2>2, RanIs
<1>5. QED
  BY <1>2, <1>3, <1>4

LEMMA SubmitSteps ==
  ASSUME IInv, NEW p \in Principals, NEW carrier \in Carriers, Submit(p, carrier)
  PROVE  KeepStep \/ ReserveStep
<1> DEFINE a == issued + 1
           wanted == {<<p, carrier[n].key>> : n \in 1..Len(carrier)} \ DOMAIN keys
           claimed == [k \in DOMAIN keys \cup wanted |->
                         IF k \in wanted THEN Claim(a) ELSE keys[k]]
<1>1. keys' \in {keys, claimed} /\ UNCHANGED <<graph, told>>
  BY DEF Submit
<1>2. wanted \subseteq KeysOf \ DOMAIN keys
  <2>1. \A n \in 1..Len(carrier) : carrier[n] \in ToSet(carrier)
    BY CarriersAssumption DEF ToSet
  <2>2. QED
    BY <2>1 DEF KeysOf
<1> HIDE DEF wanted, a
<1>3. QED
  BY <1>1, <1>2 DEF KeepStep, ReserveStep

\* Every step keeps the keys, claims free ones, gives claims up, forgets failures or
\* decides one key.
LEMMA Steps ==
  ASSUME IInv, [Next]_vars
  PROVE  KeepStep \/ ReserveStep \/ DropStep \/ ForgetStep \/ FinishStep
<1>1. ASSUME NEW a, RunMember(a) PROVE DropStep \/ FinishStep
  BY <1>1, RunSteps
<1>2. ASSUME NEW p \in Principals, NEW c \in Carriers, Submit(p, c) PROVE KeepStep \/ ReserveStep
  BY <1>2, SubmitSteps
<1>3. CASE Maintain
  <2>1. Shrunk(keys, keys)
    BY DEF IInv, Shrunk
  <2>2. QED
    BY <1>3, <2>1 DEF Maintain, KeepStep, ForgetStep
<1>4. CASE Open
  <2>1. Shrunk(keys, Swept)
    BY WithoutClaims DEF Swept, Rows
  <2>2. QED
    BY <1>4, <2>1 DEF Open, ForgetStep
<1>5. CASE Close \/ Stop \/ Tick \/ UNCHANGED vars
  BY <1>5 DEF Close, Stop, Tick, vars, KeepStep
<1>6. QED
  BY <1>1, <1>2, <1>3, <1>4, <1>5 DEF Next, Step

-----------------------------------------------------------------------------
(* The rows after a step. *)

\* The keys after their outcomes expired.
LEMMA ExpiredIs ==
  ASSUME NEW t
  PROVE  /\ Expired(t) = [k \in DOMAIN Expired(t) |-> Expired(t)[k]]
         /\ DOMAIN Expired(t) \subseteq DOMAIN t
         /\ \A k \in DOMAIN Expired(t) :
              \/ Expired(t)[k] = t[k]
              \/ /\ t[k].state = "retained" /\ t[k].effect # "failure"
                 /\ Expired(t)[k] = [t[k] EXCEPT !.state = "expired"]
         /\ \A k \in DOMAIN t \ DOMAIN Expired(t) : t[k].state = "retained" /\ t[k].effect = "failure"
BY DEF Expired

LEMMA ExpiredRow ==
  ASSUME NEW r, DecidedRow(r), NEW u, u = [r EXCEPT !.state = "expired"]
  PROVE  /\ DecidedRow(u) /\ u.state = "expired" /\ u.effect = r.effect /\ u.was = r.was
         /\ u.creation = r.creation
<1>1. /\ u.state = "expired" /\ u.effect = r.effect /\ u.was = r.was /\ u.creation = r.creation
      /\ u.of = r.of /\ u.witnesses = r.witnesses /\ u.identity = r.identity
      /\ u = [x \in RowFields |-> u[x]]
  BY DEF DecidedRow, RowFields
<1>2. QED
  BY <1>1 DEF DecidedRow

\* What becomes of a key: it is a new claim, or what it was, or an effect that expired,
\* or the key that is decided.
Follows(k) ==
  \/ k \notin DOMAIN keys /\ keys'[k].state = "claimed"
  \/ k \in DOMAIN keys /\ keys'[k] = keys[k]
  \/ /\ k \in Effects /\ DecidedRow(keys'[k]) /\ keys'[k].state = "expired"
     /\ keys'[k].effect = "success" /\ keys'[k].was = keys[k].was
     /\ keys'[k].creation = keys[k].creation

LEMMA KeepsRows ==
  ASSUME IInv, KeepStep \/ ReserveStep \/ DropStep \/ ForgetStep
  PROVE  /\ keys' = [k \in DOMAIN keys' |-> keys'[k]]
         /\ DOMAIN keys' \subseteq KeysOf
         /\ \A k \in DOMAIN keys' : Follows(k)
         /\ \A k \in DOMAIN keys \ DOMAIN keys' :
              keys[k].state = "claimed" \/ k \in Decided \ Effects
<1>1. DOMAIN keys \subseteq KeysOf /\ keys = [k \in DOMAIN keys |-> keys[k]]
  BY DEF IInv, TypeOK
<1>2. CASE KeepStep
  BY <1>1, <1>2 DEF KeepStep, Follows
<1>3. CASE ReserveStep
  <2>1. PICK a, K :
          /\ K \subseteq KeysOf \ DOMAIN keys
          /\ keys' = [k \in DOMAIN keys \cup K |-> IF k \in K THEN Claim(a) ELSE keys[k]]
    BY <1>3 DEF ReserveStep
  <2>2. Claim(a).state = "claimed"
    BY DEF Claim
  <2>3. QED
    BY <1>1, <2>1, <2>2 DEF Follows
<1>4. CASE DropStep
  BY <1>1, <1>4 DEF DropStep, Shrunk, Follows
<1>5. CASE ForgetStep
  <2>1. PICK t : Shrunk(keys, t) /\ keys' = Expired(t)
    BY <1>5 DEF ForgetStep
  <2>2. \A k \in DOMAIN t : k \in DOMAIN keys /\ t[k] = keys[k]
    BY <2>1 DEF Shrunk
  <2>3. ASSUME NEW k \in DOMAIN keys' PROVE k \in DOMAIN keys /\ Follows(k)
    <3>1. k \in DOMAIN t /\ k \in DOMAIN keys /\ t[k] = keys[k]
      BY <2>1, <2>2, ExpiredIs
    <3>2. CASE keys'[k] = t[k]
      BY <3>1, <3>2 DEF Follows
    <3>3. CASE keys'[k] # t[k]
      <4>1. /\ t[k].state = "retained" /\ t[k].effect # "failure"
            /\ keys'[k] = [t[k] EXCEPT !.state = "expired"]
        BY <2>1, <3>3, ExpiredIs
      <4>2. k \in Decided /\ DecidedRow(keys[k])
        BY <3>1, <4>1 DEF Decided, IInv
      <4>3. k \in Effects
        BY <3>1, <4>1, <4>2 DEF Effects, DecidedRow
      <4>4. /\ DecidedRow(keys'[k]) /\ keys'[k].state = "expired"
            /\ keys'[k].effect = keys[k].effect /\ keys'[k].was = keys[k].was
            /\ keys'[k].creation = keys[k].creation
        BY <3>1, <4>1, <4>2, ExpiredRow
      <4>5. keys[k].effect = "success"
        BY <4>3 DEF Effects
      <4>6. QED
        BY <3>1, <4>3, <4>4, <4>5 DEF Follows
    <3>4. QED
      BY <3>1, <3>2, <3>3
  <2>4. ASSUME NEW k \in DOMAIN keys \ DOMAIN keys', keys[k].state # "claimed"
        PROVE  k \in Decided \ Effects
    <3>1. k \in DOMAIN t /\ t[k] = keys[k]
      BY <2>1, <2>4 DEF Shrunk
    <3>2. t[k].effect = "failure"
      BY <2>1, <2>4, <3>1, ExpiredIs
    <3>3. QED
      BY <2>4, <3>1, <3>2 DEF Decided, Effects
  <2>5. QED
    BY <1>1, <2>1, <2>3, <2>4, ExpiredIs
<1>6. QED
  BY <1>2, <1>3, <1>4, <1>5

LEMMA FinishRows ==
  ASSUME IInv, NEW a, NEW key, NEW row, NEW result, Finishes(a, key, row, result)
  PROVE  /\ keys' = [k \in DOMAIN keys' |-> keys'[k]]
         /\ DOMAIN keys' \subseteq KeysOf
         /\ \A k \in DOMAIN keys' \ {key} : k \in DOMAIN keys /\ keys'[k] = keys[k]
         /\ \A k \in DOMAIN keys \ DOMAIN keys' : keys[k].state = "claimed"
         /\ key \in DOMAIN keys' /\ keys'[key] = row
         /\ key \notin Decided
<1>1. DOMAIN keys \subseteq KeysOf
  BY DEF IInv, TypeOK
<1>2. /\ DOMAIN Put(keys, key, row) = DOMAIN keys \cup {key}
      /\ Put(keys, key, row)[key] = row
      /\ \A k \in DOMAIN keys : k # key => Put(keys, key, row)[k] = keys[k]
  BY DEF Put
<1>3. Shrunk(Put(keys, key, row), keys') /\ key \in DOMAIN keys' /\ key \in KeysOf
  BY DEF Finishes
<1>4. key \notin Decided
  BY DEF Finishes, Decided
<1>5. QED
  BY <1>1, <1>2, <1>3, <1>4 DEF Shrunk

\* An effect is for ever, and so is what it was.
LEMMA EffectsStay ==
  ASSUME IInv, [Next]_vars
  PROVE  \A k \in Effects : /\ k \in Effects' /\ keys'[k].was = keys[k].was
                            /\ keys'[k].creation = keys[k].creation
<1> SUFFICES ASSUME NEW k \in Effects
             PROVE  /\ k \in Effects' /\ keys'[k].was = keys[k].was
                    /\ keys'[k].creation = keys[k].creation
  OBVIOUS
<1>1. k \in DOMAIN keys /\ k \in Decided /\ keys[k].state # "claimed" /\ keys[k].effect = "success"
  BY DEF Effects, Decided
<1>2. CASE KeepStep \/ ReserveStep \/ DropStep \/ ForgetStep
  <2>1. k \in DOMAIN keys' /\ Follows(k)
    BY <1>1, <1>2, KeepsRows
  <2>2. QED
    BY <1>1, <2>1 DEF Follows, Effects, Decided
<1>3. CASE FinishStep
  <2>1. PICK a, key, row, result : Finishes(a, key, row, result)
    BY <1>3 DEF FinishStep
  <2>2. k # key /\ k \in DOMAIN keys' /\ keys'[k] = keys[k]
    BY <1>1, <2>1, FinishRows
  <2>3. QED
    BY <1>1, <2>2 DEF Effects, Decided
<1>4. QED
  BY <1>2, <1>3, Steps

LEMMA RowsKept ==
  ASSUME IInv, [Next]_vars
  PROVE  /\ keys' = [k \in DOMAIN keys' |-> keys'[k]]
         /\ DOMAIN keys' \subseteq KeysOf
         /\ \A k \in Decided' : DecidedRow(keys'[k])
         /\ \A k \in DOMAIN keys' : keys'[k].state \in {"claimed", "retained", "expired"}
         /\ \A k \in DOMAIN keys' : keys'[k].state = "expired" => keys'[k].effect = "success"
<1>1. /\ \A k \in Decided : DecidedRow(keys[k])
      /\ \A k \in DOMAIN keys : keys[k].state \in {"claimed", "retained", "expired"}
      /\ \A k \in DOMAIN keys : keys[k].state = "expired" => keys[k].effect = "success"
  BY DEF IInv, TypeOK, Rows
<1> DEFINE Good(k) == /\ keys'[k].state \in {"claimed", "retained", "expired"}
                      /\ keys'[k].state # "claimed" => DecidedRow(keys'[k])
                      /\ keys'[k].state = "expired" => keys'[k].effect = "success"
<1>2. ASSUME NEW k \in DOMAIN keys', k \in DOMAIN keys, keys'[k] = keys[k] PROVE Good(k)
  BY <1>1, <1>2 DEF Decided
<1>3. CASE KeepStep \/ ReserveStep \/ DropStep \/ ForgetStep
  <2>1. \A k \in DOMAIN keys' : Good(k)
    BY <1>2, <1>3, KeepsRows DEF Follows
  <2>2. QED
    BY <1>3, <2>1, KeepsRows DEF Decided
<1>4. CASE FinishStep
  <2>1. PICK a, key, row, result : Finishes(a, key, row, result)
    BY <1>4 DEF FinishStep
  <2>2. DecidedRow(row) /\ row.state = "retained"
    BY <2>1 DEF Finishes
  <2>3. \A k \in DOMAIN keys' : Good(k)
    BY <1>2, <2>1, <2>2, FinishRows
  <2>4. QED
    BY <2>1, <2>3, FinishRows DEF Decided
<1>5. QED
  BY <1>3, <1>4, Steps

LEMMA GraphKept ==
  ASSUME IInv, [Next]_vars
  PROVE  \/ graph' = graph
         \/ Grown(graph, graph')
BY Steps DEF KeepStep, ReserveStep, DropStep, ForgetStep, FinishStep, Finishes

LEMMA CreationsKept ==
  ASSUME IInv, [Next]_vars
  PROVE  /\ GraphShape(graph')
         /\ \A k \in Effects' : keys'[k].creation = None \/ keys'[k].creation \in graph'.identities
         /\ \A j, k \in Effects' :
              keys'[j].creation # None /\ keys'[j].creation = keys'[k].creation => j = k
<1>1. GraphShape(graph') /\ graph.identities \subseteq graph'.identities
  BY GraphKept DEF IInv, Grown
<1>2. /\ \A k \in Effects : keys[k].creation = None \/ keys[k].creation \in graph.identities
      /\ \A j, k \in Effects : keys[j].creation # None /\ keys[j].creation = keys[k].creation => j = k
  BY DEF IInv
<1>3. CASE KeepStep \/ ReserveStep \/ DropStep \/ ForgetStep
  <2>1. \A k \in Effects' : k \in Effects
    BY <1>3, KeepsRows DEF Effects, Decided, Follows
  <2>2. QED
    BY <1>1, <1>2, <2>1, EffectsStay
<1>4. CASE FinishStep
  <2>1. PICK a, key, row, result : Finishes(a, key, row, result)
    BY <1>4 DEF FinishStep
  <2>2. \A k \in Effects' : k \in Effects \/ k = key
    BY <2>1, FinishRows DEF Effects, Decided
  <2>3. keys'[key] = row
    BY <2>1, FinishRows
  <2>4. row.creation # None => row.creation \notin graph.identities /\ row.creation \in graph'.identities
    BY <2>1 DEF Finishes
  <2>5. QED
    BY <1>1, <1>2, <2>2, <2>3, <2>4, EffectsStay
<1>5. QED
  BY <1>3, <1>4, Steps

\* Whoever is answered is told a row, or the effect that becomes one.
LEMMA AnswersKept ==
  ASSUME IInv, [Next]_vars
  PROVE  AnswersStand'
<1> SUFFICES ASSUME NEW t \in told', Succeeded(t)
             PROVE  /\ t.claim \in Effects'
                    /\ t.answer = Answer(keys'[t.claim].was.code, keys'[t.claim].was.id)
  BY DEF AnswersStand, Succeeded, Answer
<1>1. ASSUME t.claim \in Effects, t.answer = Answer(keys[t.claim].was.code, keys[t.claim].was.id)
      PROVE  /\ t.claim \in Effects'
             /\ t.answer = Answer(keys'[t.claim].was.code, keys'[t.claim].was.id)
  BY <1>1, EffectsStay
<1>2. CASE t \in told
  BY <1>1, <1>2 DEF IInv, AnswersStand
<1>3. CASE t \notin told /\ DropStep
  BY <1>1, <1>3 DEF DropStep, TellsRow
<1>4. CASE t \notin told /\ FinishStep
  <2>1. PICK a, key, row, result :
          /\ Finishes(a, key, row, result)
          /\ t.claim = key /\ t.answer = Answer(result.code, result.id)
    BY <1>4 DEF FinishStep
  <2>2. keys'[key] = row /\ key \in DOMAIN keys'
    BY <2>1, FinishRows
  <2>3. /\ row.was.code = result.code /\ row.was.id = result.id
        /\ row.state = "retained" /\ DecidedRow(row)
    BY <2>1 DEF Finishes
  <2>4. row.was.code \in SuccessCodes
    BY <2>1, <2>3 DEF Succeeded, SuccessCodes, Answer
  <2>5. key \in Effects'
    BY <2>2, <2>3, <2>4 DEF Effects, Decided, DecidedRow
  <2>6. QED
    BY <2>1, <2>2, <2>3, <2>5
<1>5. QED
  BY <1>2, <1>3, <1>4, Steps DEF KeepStep, ReserveStep, ForgetStep

-----------------------------------------------------------------------------
(* Requests and their claims. *)

LEMMA Empty ==
  ASSUME NEW f, f = [x \in DOMAIN f |-> f[x]], DOMAIN f = {}
  PROVE  f = NoFunction
BY DEF NoFunction

LEMMA NobodyIsThere == DOMAIN NoFunction = {}
BY DEF NoFunction

RequestsOK(state, live, count) ==
  /\ state \in {"accepting", "draining", "closed"}
  /\ live = [a \in DOMAIN live |-> live[a]]
  /\ DOMAIN live \subseteq 1..count /\ count \in 0..MaximumAttempts
  /\ \A a \in DOMAIN live : AttemptRow(live[a]) /\ live[a].next \in 1..Len(live[a].carrier)
  /\ state = "closed" => live = NoFunction

LEMMA NobodyIsOK ==
  ASSUME NEW count \in 0..MaximumAttempts
  PROVE  RequestsOK("closed", NoFunction, count)
BY NobodyIsThere DEF RequestsOK, NoFunction

LEMMA SettledIsOK ==
  ASSUME NEW state, NEW live, NEW count, RequestsOK(state, live, count), state # "closed",
         NEW other \in {state, "draining"}
  PROVE  /\ RequestsOK(Settled(other, live), live, count)
         /\ RequestsOK(other, live, count)
<1>1. live = [a \in DOMAIN live |-> live[a]]
  BY DEF RequestsOK
<1>2. CASE Settled(other, live) = other
  BY <1>2 DEF RequestsOK
<1>3. CASE Settled(other, live) # other
  <2>1. Settled(other, live) = "closed" /\ DOMAIN live = {}
    BY <1>3 DEF Settled
  <2>2. live = NoFunction
    BY <1>1, <2>1, Empty
  <2>3. QED
    BY <2>1, <2>2 DEF RequestsOK
<1>4. QED
  BY <1>2, <1>3

LEMMA FewerAreOK ==
  ASSUME NEW state, state # "closed", NEW live, NEW count, RequestsOK(state, live, count), NEW S
  PROVE  RequestsOK(state, Without(live, S), count)
BY DEF RequestsOK, Without

\* A request that goes on to its next member.
LEMMA AdvanceIs ==
  ASSUME IInv, NEW a \in DOMAIN attempts, ~IsFinal(a), NEW turn
  PROVE  LET live == Advance(a, turn) IN
         /\ live = [b \in DOMAIN live |-> live[b]]
         /\ DOMAIN live = DOMAIN attempts
         /\ \A b \in DOMAIN attempts : b # a => live[b] = attempts[b]
         /\ AttemptRow(live[a])
         /\ live[a].principal = attempts[a].principal /\ live[a].carrier = attempts[a].carrier
         /\ live[a].next = attempts[a].next + 1
         /\ live[a].next \in 1..Len(live[a].carrier)
<1> DEFINE live == Advance(a, turn)
           creators == Put(attempts[a].creators, Member(a).name, turn.creator)
           next == attempts[a].next + 1
           x == [attempts[a] EXCEPT !.next = next, !.creators = creators]
<1>1. live = [attempts EXCEPT ![a].next = next, ![a].creators = creators]
  BY DEF Advance
<1>2. AttemptRow(attempts[a]) /\ attempts = [b \in DOMAIN attempts |-> attempts[b]]
  BY DEF IInv
<1>3. next \in 1..Len(attempts[a].carrier)
  BY MemberIs DEF IsFinal
<1> HIDE DEF creators, next, live
<1>4. live = [b \in DOMAIN attempts |-> IF b = a THEN x ELSE attempts[b]]
  BY <1>1, <1>2
<1>5. /\ x.principal = attempts[a].principal /\ x.carrier = attempts[a].carrier /\ x.next = next
      /\ x = [y \in {"principal", "carrier", "next", "creators"} |-> x[y]]
  BY <1>2 DEF AttemptRow
<1> HIDE DEF x
<1>6. AttemptRow(x)
  BY <1>2, <1>5 DEF AttemptRow
<1>7. QED
  BY <1>3, <1>4, <1>5, <1>6 DEF live, next

LEMMA AdvanceIsOK ==
  ASSUME IInv, owner # "closed", NEW a \in DOMAIN attempts, NEW turn
  PROVE  RequestsOK(owner, Advance(a, turn), issued)
<1>1. RequestsOK(owner, attempts, issued)
  BY DEF IInv, TypeOK, RequestsOK
<1>2. CASE IsFinal(a)
  BY <1>1, <1>2, FewerAreOK DEF Advance
<1>3. CASE ~IsFinal(a)
  <2> DEFINE live == Advance(a, turn)
  <2>1. /\ live = [b \in DOMAIN live |-> live[b]]
        /\ DOMAIN live = DOMAIN attempts
        /\ \A b \in DOMAIN attempts : b # a => live[b] = attempts[b]
        /\ AttemptRow(live[a])
        /\ live[a].next \in 1..Len(live[a].carrier)
    BY <1>3, AdvanceIs
  <2> HIDE DEF live
  <2>2. RequestsOK(owner, live, issued)
    BY <1>1, <2>1 DEF RequestsOK
  <2>3. QED
    BY <2>2 DEF live
<1>4. QED
  BY <1>2, <1>3

LEMMA RequestsKept ==
  ASSUME IInv, [Next]_vars
  PROVE  RequestsOK(owner', attempts', issued')
<1>1. RequestsOK(owner, attempts, issued)
  BY DEF IInv, TypeOK, RequestsOK
<1>2. issued \in 0..MaximumAttempts
  BY DEF IInv, TypeOK
<1>3. CASE Fenced /\ issued' = issued
  BY <1>2, <1>3, NobodyIsOK DEF Fenced
<1>4. ASSUME NEW p \in Principals, NEW c \in Carriers, Submit(p, c)
      PROVE  RequestsOK(owner', attempts', issued')
  <2>1. issued' = issued + 1 /\ issued' \in 0..MaximumAttempts /\ owner = "accepting"
    BY <1>2, <1>4, AttemptsAssumption DEF Submit
  <2>2. RequestsOK(owner, attempts, issued')
    BY <1>1, <2>1 DEF RequestsOK
  <2>3. CASE Fenced
    BY <2>1, <2>3, NobodyIsOK DEF Fenced
  <2>4. CASE owner' = Settled("draining", attempts) /\ attempts' = attempts
    BY <2>1, <2>2, <2>4, SettledIsOK
  <2>5. CASE /\ owner' = owner
             /\ attempts' = Put(attempts, issued + 1, [principal |-> p, carrier |-> c, next |-> 1,
                                                       creators |-> NoFunction])
    <3> DEFINE x == [principal |-> p, carrier |-> c, next |-> 1, creators |-> NoFunction]
    <3>1. AttemptRow(x) /\ x.next = 1 /\ x.carrier = c
      BY DEF AttemptRow
    <3>2. 1 \in 1..Len(c)
      BY CarriersAssumption
    <3> HIDE DEF x
    <3>3. /\ attempts' = [b \in DOMAIN attempts' |-> attempts'[b]]
          /\ DOMAIN attempts' = DOMAIN attempts \cup {issued + 1}
          /\ attempts'[issued + 1] = x
          /\ \A b \in DOMAIN attempts : b # issued + 1 => attempts'[b] = attempts[b]
      BY <2>5 DEF Put, x
    <3>4. \A b \in DOMAIN attempts' :
            AttemptRow(attempts'[b]) /\ attempts'[b].next \in 1..Len(attempts'[b].carrier)
      BY <2>2, <3>1, <3>2, <3>3 DEF RequestsOK
    <3>5. DOMAIN attempts' \subseteq 1..issued'
      BY <1>1, <1>2, <2>1, <3>3 DEF RequestsOK
    <3>6. QED
      BY <2>1, <2>5, <3>3, <3>4, <3>5 DEF RequestsOK
  <2>6. QED
    BY <1>4, <2>3, <2>4, <2>5 DEF Submit
<1>5. ASSUME NEW a, RunMember(a) PROVE RequestsOK(owner', attempts', issued')
  <2>1. a \in DOMAIN attempts /\ issued' = issued
    BY <1>5 DEF RunMember
  <2>2. owner # "closed"
    BY <1>1, <2>1, NobodyIsThere DEF RequestsOK
  <2> DEFINE rest == Without(attempts, {a})
             live == Advance(a, Ran(a).turn)
  <2>3. RequestsOK(owner, rest, issued)
    BY <1>1, <2>2, FewerAreOK
  <2>4. RequestsOK(owner, live, issued)
    BY <2>1, <2>2, AdvanceIsOK
  <2> HIDE DEF rest, live
  <2>5. CASE Answered(a)
    <3>1. attempts' = live /\ owner' \in {Settled("draining", live), Settled(owner, live)}
      BY <2>5 DEF Answered, live
    <3>2. QED
      BY <2>1, <2>2, <2>4, <3>1, SettledIsOK
  <2>6. CASE Failed(a)
    <3>1. \/ Fenced
          \/ attempts' = rest /\ owner' \in {Settled("draining", rest), Settled(owner, rest)}
      BY <2>6 DEF Failed, rest
    <3>2. QED
      BY <1>3, <2>1, <2>2, <2>3, <3>1, SettledIsOK
  <2>7. QED
    BY <1>5, <2>5, <2>6 DEF RunMember
<1>6. CASE Maintain
  BY <1>1, <1>3, <1>6 DEF Maintain
<1>7. CASE Close
  BY <1>1, <1>7, SettledIsOK DEF Close
<1>8. CASE Stop
  BY <1>3, <1>8 DEF Stop
<1>9. CASE Open
  BY <1>1, <1>9 DEF Open, RequestsOK
<1>10. CASE Tick \/ UNCHANGED vars
  BY <1>1, <1>10 DEF Tick, vars
<1>11. QED
  BY <1>4, <1>5, <1>6, <1>7, <1>8, <1>9, <1>10 DEF Next, Step

\* The claims there are after a turn; that of its member is not among them.
LEMMA RanClaims ==
  ASSUME IInv, NEW a \in DOMAIN attempts, NEW k \in DOMAIN Ran(a).keys,
         Ran(a).keys[k].state = "claimed"
  PROVE  /\ k \in DOMAIN keys /\ Ran(a).keys[k] = keys[k]
         /\ keys[k].owner = a => k # ClaimOf(a, Member(a))
<1> DEFINE m == Member(a)
           c == ClaimOf(a, m)
           kept(turn) == [keys |-> keys, graph |-> graph, turn |-> turn]
<1>1. CASE Waits(m, attempts[a].creators)
  <2>1. Ran(a).keys = Without(keys, ClaimedBy(keys, a) \cap {c})
    BY <1>1 DEF Ran, WithoutWaiting
  <2>2. k \in DOMAIN keys /\ Ran(a).keys[k] = keys[k] /\ k \notin ClaimedBy(keys, a) \cap {c}
    BY <2>1 DEF Without
  <2>3. QED
    BY <2>2 DEF ClaimedBy
<1>2. CASE ~Waits(m, attempts[a].creators) /\ MayRun(a, c)
  <2>1. Ran(a) = Executed(a)
    BY <1>2 DEF Ran
  <2>2. PICK row : row.state = "retained" /\ Executed(a).keys = Put(keys, c, row)
    BY ExecutedIs
  <2> HIDE DEF c
  <2>3. QED
    BY <2>1, <2>2 DEF Put, c
<1>3. CASE ~Waits(m, attempts[a].creators) /\ ~MayRun(a, c)
  <2>1. Ran(a).keys = keys
    BY <1>3 DEF Ran
  <2>2. c \notin ClaimedBy(keys, a)
    BY <1>3 DEF MayRun
  <2>3. QED
    BY <2>1, <2>2 DEF ClaimedBy
<1>4. QED
  BY <1>1, <1>2, <1>3

\* k is claimed in the table for a request that still has its member to run.
HasOwner(table, live, k) ==
  LET a == table[k].owner IN
  /\ a \in DOMAIN live
  /\ live[a].principal = k[1]
  /\ \E n \in live[a].next..Len(live[a].carrier) : live[a].carrier[n].key = k[2]

LEMMA ClaimsKept ==
  ASSUME IInv, [Next]_vars
  PROVE  ClaimsHaveOwners'
<1> SUFFICES ASSUME owner' # "closed", NEW k \in DOMAIN keys', keys'[k].state = "claimed"
             PROVE  HasOwner(keys', attempts', k)
  BY DEF ClaimsHaveOwners, Rows, HasOwner
<1>1. owner # "closed" => \A j \in DOMAIN keys : keys[j].state = "claimed" => HasOwner(keys, attempts, j)
  BY DEF IInv, ClaimsHaveOwners, Rows, HasOwner
<1>2. DOMAIN attempts \subseteq 1..issued /\ issued \in Nat
  BY DEF IInv, TypeOK
<1>3. ASSUME owner # "closed", k \in DOMAIN keys, keys'[k] = keys[k], attempts' = attempts
      PROVE  HasOwner(keys', attempts', k)
  BY <1>1, <1>3 DEF HasOwner
<1>4. ASSUME NEW p \in Principals, NEW c \in Carriers, Submit(p, c) PROVE HasOwner(keys', attempts', k)
  <2> DEFINE a == issued + 1
             wanted == {<<p, c[n].key>> : n \in 1..Len(c)} \ DOMAIN keys
             claimed == [j \in DOMAIN keys \cup wanted |-> IF j \in wanted THEN Claim(a) ELSE keys[j]]
             x == [principal |-> p, carrier |-> c, next |-> 1, creators |-> NoFunction]
  <2>1. owner = "accepting"
    BY <1>4 DEF Submit
  <2>2. CASE keys' = keys /\ attempts' = attempts
    BY <1>3, <2>1, <2>2
  <2>3. CASE keys' = claimed /\ attempts' = Put(attempts, a, x)
    <3>1. a \notin DOMAIN attempts
      BY <1>2
    <3>2. x.principal = p /\ x.carrier = c /\ x.next = 1
      OBVIOUS
    <3>3. Claim(a).owner = a
      BY DEF Claim
    <3> HIDE DEF x, a
    <3>4. /\ DOMAIN attempts' = DOMAIN attempts \cup {a} /\ attempts'[a] = x
          /\ \A b \in DOMAIN attempts : attempts'[b] = attempts[b]
      BY <2>3, <3>1 DEF Put
    <3>5. CASE k \in wanted
      <4>1. PICK n \in 1..Len(c) : k = <<p, c[n].key>>
        BY <3>5
      <4>2. keys'[k].owner = a
        BY <2>3, <3>3, <3>5
      <4>3. k[1] = p /\ k[2] = c[n].key
        BY <4>1
      <4> HIDE DEF wanted, claimed
      <4>4. QED
        BY <3>2, <3>4, <4>2, <4>3 DEF HasOwner
    <3>6. CASE k \notin wanted
      <4>1. k \in DOMAIN keys /\ keys'[k] = keys[k]
        BY <2>3, <3>6
      <4> HIDE DEF wanted, claimed
      <4>2. HasOwner(keys, attempts, k)
        BY <1>1, <2>1, <4>1
      <4>3. QED
        BY <3>4, <4>1, <4>2 DEF HasOwner
    <3>7. QED
      BY <3>5, <3>6
  <2>4. QED
    BY <1>4, <2>2, <2>3 DEF Submit, Fenced
<1>5. ASSUME NEW a, RunMember(a) PROVE HasOwner(keys', attempts', k)
  <2>0. a \in DOMAIN attempts
    BY <1>5 DEF RunMember
  <2> DEFINE ran == Ran(a)
             m == Member(a)
  <2>1. owner # "closed"
    BY <2>0, NobodyIsThere DEF IInv, TypeOK
  <2>2. \A t : \A j \in DOMAIN Ended(a, t) :
          j \in DOMAIN t /\ Ended(a, t)[j] = t[j] /\ j \notin ClaimedBy(t, a)
    BY DEF Ended, Without
  \* What is claimed was claimed, and not for the member that ran.
  <2>3. /\ k \in DOMAIN keys /\ keys'[k] = keys[k]
        /\ \/ keys[k].owner # a
           \/ /\ keys[k].owner = a /\ k # ClaimOf(a, m)
              /\ ~IsFinal(a) /\ attempts' = Advance(a, ran.turn)
    <3>1. CASE keys' = Ended(a, keys)
      BY <2>2, <3>1 DEF ClaimedBy
    <3>2. CASE keys' = Ended(a, ran.keys)
      <4>1. k \in DOMAIN ran.keys /\ keys'[k] = ran.keys[k] /\ ran.keys[k].owner # a
        BY <2>2, <3>2 DEF ClaimedBy
      <4>2. QED
        BY <2>0, <4>1, RanClaims
    <3>3. CASE keys' = ran.keys /\ Answered(a) /\ ~(IsFinal(a) /\ ClaimedBy(ran.keys, a) # {})
      <4>1. k \in DOMAIN keys /\ ran.keys[k] = keys[k] /\ (keys[k].owner = a => k # ClaimOf(a, m))
        BY <2>0, <3>3, RanClaims
      <4>2. keys[k].owner = a => ~IsFinal(a)
        BY <3>3, <4>1 DEF ClaimedBy
      <4>3. attempts' = Advance(a, ran.turn)
        BY <3>3 DEF Answered
      <4>4. QED
        BY <3>3, <4>1, <4>2, <4>3
    <3>4. QED
      BY <1>5, <3>1, <3>2, <3>3 DEF RunMember, Answered, Failed, Fenced
  <2>4. HasOwner(keys, attempts, k)
    BY <1>1, <2>1, <2>3
  <2>5. attempts' = Without(attempts, {a}) \/ (~IsFinal(a) /\ attempts' = Advance(a, ran.turn))
    BY <1>5 DEF RunMember, Answered, Failed, Fenced, Advance
  <2> HIDE DEF ran
  <2>6. CASE keys[k].owner # a
    <3>1. keys[k].owner \in DOMAIN attempts
      BY <2>4 DEF HasOwner
    <3>2. keys[k].owner \in DOMAIN attempts' /\ attempts'[keys[k].owner] = attempts[keys[k].owner]
      <4>1. CASE attempts' = Without(attempts, {a})
        BY <2>6, <3>1, <4>1 DEF Without
      <4>2. CASE ~IsFinal(a) /\ attempts' = Advance(a, ran.turn)
        BY <2>0, <2>6, <3>1, <4>2, AdvanceIs
      <4>3. QED
        BY <2>5, <4>1, <4>2
    <3>3. QED
      BY <2>3, <2>4, <3>2 DEF HasOwner
  <2>7. CASE keys[k].owner = a
    <3>1. /\ a \in DOMAIN attempts'
          /\ attempts'[a].principal = attempts[a].principal
          /\ attempts'[a].carrier = attempts[a].carrier
          /\ attempts'[a].next = attempts[a].next + 1
      BY <2>0, <2>3, <2>7, AdvanceIs
    <3>2. /\ attempts[a].next \in 1..Len(attempts[a].carrier)
          /\ Len(attempts[a].carrier) \in Nat
      BY <2>0, MemberIs
    <3>3. PICK n \in attempts[a].next..Len(attempts[a].carrier) : attempts[a].carrier[n].key = k[2]
      BY <2>4, <2>7 DEF HasOwner
    <3>4. n # attempts[a].next
      <4>1. SUFFICES ASSUME n = attempts[a].next PROVE k = <<attempts[a].principal, m.key>>
        BY <2>3, <2>7 DEF ClaimOf
      <4>2. m.key = k[2] /\ attempts[a].principal = k[1]
        BY <2>4, <2>7, <3>3, <4>1 DEF HasOwner, Member
      <4>3. k = <<k[1], k[2]>>
        BY <2>3 DEF IInv, TypeOK, KeysOf
      <4>4. QED
        BY <4>2, <4>3
    <3>5. n \in attempts'[a].next..Len(attempts'[a].carrier)
      BY <3>1, <3>2, <3>3, <3>4
    <3>6. QED
      BY <2>3, <2>4, <2>7, <3>1, <3>3, <3>5 DEF HasOwner
  <2>8. QED
    BY <2>6, <2>7
<1>6. CASE Maintain
  <2>1. /\ owner # "closed" /\ keys' = Expired(keys) /\ attempts' = attempts
    BY <1>6 DEF Maintain, Fenced
  <2>2. k \in DOMAIN keys /\ keys'[k] = keys[k]
    <3>1. \/ keys'[k] = keys[k]
          \/ keys[k].state = "retained" /\ keys'[k] = [keys[k] EXCEPT !.state = "expired"]
      BY <2>1, ExpiredIs
    <3>2. k \in DOMAIN keys
      BY <2>1, ExpiredIs
    <3>3. CASE keys[k].state = "retained"
      <4>1. DecidedRow(keys[k])
        BY <3>2, <3>3 DEF IInv, Decided
      <4>2. QED
        BY <3>1, <3>2, <4>1, ExpiredRow
    <3>4. QED
      BY <3>1, <3>2, <3>3
  <2>3. QED
    BY <1>3, <2>1, <2>2
<1>7. CASE Close
  BY <1>3, <1>7 DEF Close
<1>8. CASE Stop
  BY <1>8 DEF Stop, Fenced
<1>9. CASE Open
  <2>1. keys' = Expired(Swept)
    BY <1>9 DEF Open
  <2>2. k \in DOMAIN Swept
    BY <2>1, ExpiredIs
  <2>3. k \in DOMAIN keys /\ Swept[k] = keys[k] /\ keys[k].state # "claimed"
    BY <2>2 DEF Swept, Without, Rows
  <2>4. DecidedRow(keys[k])
    BY <2>3 DEF IInv, Decided
  <2>5. keys'[k] = keys[k] \/ keys'[k] = [keys[k] EXCEPT !.state = "expired"]
    BY <2>1, <2>3, ExpiredIs
  <2>6. QED
    BY <2>3, <2>4, <2>5, ExpiredRow
<1>10. CASE Tick \/ UNCHANGED vars
  BY <1>3, <1>10 DEF Tick, vars
<1>11. QED
  BY <1>4, <1>5, <1>6, <1>7, <1>8, <1>9, <1>10 DEF Next, Step

LEMMA InitIInv == Init => IInv
<1> SUFFICES ASSUME Init PROVE IInv
  OBVIOUS
<1>1. /\ keys = [k \in DOMAIN keys |-> keys[k]] /\ DOMAIN keys = {}
      /\ attempts = [a \in DOMAIN attempts |-> attempts[a]] /\ DOMAIN attempts = {}
      /\ owner = "accepting" /\ issued = 0 /\ told = {}
  BY NobodyIsThere DEF Init, NoFunction
<1>2. GraphShape(graph)
  <2>1. graph = EmptyGraph
    BY DEF Init
  <2>2. /\ DOMAIN graph.resources = {} /\ graph.resources = [a \in DOMAIN graph.resources |-> graph.resources[a]]
        /\ graph.identities = {} /\ graph.revision = 0
        /\ graph = [x \in {"resources", "identities", "aliases", "revision"} |-> graph[x]]
    BY <2>1 DEF EmptyGraph, NoFunction
  <2>3. QED
    BY <2>2 DEF GraphShape
<1>3. TypeOK
  BY <1>1, AttemptsAssumption DEF TypeOK, Rows
<1>4. QED
  BY <1>1, <1>2, <1>3 DEF IInv, Decided, Effects, ClaimsHaveOwners, Rows, AnswersStand

LEMMA NextIInv == IInv /\ [Next]_vars => IInv'
<1> SUFFICES ASSUME IInv, [Next]_vars PROVE IInv'
  OBVIOUS
<1>1. TypeOK'
  BY RowsKept, RequestsKept DEF RequestsOK, TypeOK, Rows
<1>2. QED
  BY <1>1, RowsKept, RequestsKept, CreationsKept, ClaimsKept, AnswersKept DEF RequestsOK, IInv

\* The state is as the steps need it, whatever the requests do (sequence-executor.ts,
\* recovery-store.ts).
THEOREM Invariance == Spec => []IInv
<1>1. QED
  BY InitIInv, NextIInv, PTL DEF Spec

\* The tables keep their shape; every claim has a request that will come to it, so that no
\* key is in progress for ever; and an effect somebody was told is the effect of its key
\* through expiry, restarts and retries (recovery-store.ts executeMember, abandonAttempt,
\* expire).
THEOREM KeysStaySettled == Spec => []KeysAreSettled
<1>1. IInv => KeysAreSettled
  BY DEF IInv, KeysAreSettled
<1>2. QED
  BY <1>1, Invariance, PTL

\* A member that is sent again conflicts with what it was retained as only where it refers
\* to the creation of another; and what is changed gets a revision no Resource had before
\* (member-executor.ts compareExistingMember, resource-evaluator.ts).
THEOREM RetriesTell == Spec => RetriesAndRevisionsTell
<1>1. IInv /\ [Next]_vars => [RetryIsRecognised /\ RevisionsTell]_vars
  <2> SUFFICES ASSUME IInv, [Next]_vars PROVE RetryIsRecognised /\ RevisionsTell
    OBVIOUS
  <2>1. RevisionsTell
    BY GraphKept DEF RevisionsTell, Grown, Revised
  <2>2. ASSUME NEW t \in told' \ told PROVE TellsRow(t) \/ t.storage = "retained"
    BY <2>2, Steps DEF KeepStep, ReserveStep, DropStep, ForgetStep, FinishStep
  <2>3. RetryIsRecognised
    BY <2>2 DEF RetryIsRecognised, TellsRow
  <2>4. QED
    BY <2>1, <2>3
<1>2. QED
  BY <1>1, Invariance, PTL DEF Spec, RetriesAndRevisionsTell

-----------------------------------------------------------------------------
(* The Links of the graph, step by step. *)

LEMMA ExecutedSound ==
  ASSUME IInv, LinkSound(graph), AddressesLeft, NEW a \in DOMAIN attempts
  PROVE  LinkSound(Executed(a).graph)
<1> DEFINE m == Member(a)
           w == Witnesses(m, attempts[a].creators, NoFunction)
           input == Input(m, w)
           result == IF LacksCreator(m, attempts[a].creators) THEN Refused("binding-unavailable")
                     ELSE Evaluate(graph, input)
<1>1. Executed(a).graph = IF result.effect = "success" THEN result.graph ELSE graph
  BY DEF Executed
<1>2. input.operation \in Operations /\ input.id \notin External
  BY MemberIs DEF Input, IsMember, Operations
<1>3. Allocation(graph) \notin External
  BY AllocationIs DEF AddressesLeft
<1>4. result.effect = "success" => result = Evaluate(graph, input)
  BY DEF Refused
<1>5. GraphShape(graph)
  BY DEF IInv
<1> HIDE DEF result, input
<1>6. CASE result.effect = "success"
  BY <1>1, <1>2, <1>3, <1>4, <1>5, <1>6, EvaluateSound
<1>7. CASE result.effect # "success"
  BY <1>1, <1>7
<1>8. QED
  BY <1>6, <1>7

LEMMA LinksKept ==
  ASSUME IInv, LinkSound(graph), [Next]_vars
  PROVE  LinkSound(graph')
<1>1. CASE graph' = graph
  BY <1>1
<1>2. ASSUME NEW a, RunMember(a) PROVE LinkSound(graph')
  <2>1. a \in DOMAIN attempts /\ AddressesLeft
    BY <1>2 DEF RunMember
  <2>2. graph' = graph \/ graph' = Ran(a).graph
    BY <1>2 DEF RunMember, Answered, Failed
  <2>3. Ran(a).graph = graph \/ Ran(a).graph = Executed(a).graph
    BY <2>1, RanIs
  <2>4. QED
    BY <2>1, <2>2, <2>3, ExecutedSound
<1>3. (\E a : RunMember(a)) \/ graph' = graph
  BY DEF Next, Step, Submit, Maintain, Close, Stop, Open, Tick, vars
<1>4. QED
  BY <1>1, <1>2, <1>3

\* No address is given twice, none is a Resource and an alias; Links end at Beads that are
\* there, as many as the Type allows; and the copies a Bead holds of its Links are current
\* (recovery-store.ts Allocation, alias-evaluator.ts, resource-evaluator.ts).
THEOREM GraphStaysSound == Spec => []GraphIsSound
<1> DEFINE Inv == IInv /\ LinkSound(graph)
<1>1. Init => LinkSound(graph)
  <2> SUFFICES ASSUME Init PROVE LinkSound(graph)
    OBVIOUS
  <2>1. graph = EmptyGraph
    BY DEF Init
  <2>2. DOMAIN graph.resources = {} /\ graph.identities = {}
    BY <2>1 DEF EmptyGraph, NoFunction
  <2>3. QED
    BY <2>2, FS_EmptySet DEF LinkSound
<1>2. Inv /\ [Next]_vars => Inv'
  BY NextIInv, LinksKept
<1>3. Inv => GraphIsSound
  BY DEF IInv, GraphShape, LinkSound, GraphIsSound, IdentitiesAreNotReused, LinksEndAtBeads,
         OwnedPlaneIsCurrent
<1>4. Init => Inv
  BY <1>1, InitIInv
<1> HIDE DEF Inv
<1>5. QED
  BY <1>2, <1>3, <1>4, PTL DEF Spec

-----------------------------------------------------------------------------
(* The keys implement the ledger. *)

LHeld == Rows("claimed")
LFinal == [k \in Effects |-> Answer(keys[k].was.code, keys[k].was.id)]
LFailed == [k \in Decided \ Effects |-> keys[k].was]
LTold == {<<t.claim, t.answer>> : t \in {t \in told : Succeeded(t)}}

LEMMA SameFinal ==
  ASSUME IInv, [Next]_vars, Effects' \subseteq Effects
  PROVE  LFinal' = LFinal
<1>1. Effects' = Effects
  BY EffectsStay
<1>2. QED
  BY <1>1, EffectsStay DEF LFinal

LEMMA SameFailed ==
  ASSUME (Decided \ Effects)' = Decided \ Effects,
         \A k \in Decided \ Effects : keys'[k] = keys[k]
  PROVE  LFailed' = LFailed
BY DEF LFailed

LEMMA SameTold ==
  ASSUME \/ told' = told
         \/ \E t : told' = told \cup {t} /\ ~Succeeded(t)
  PROVE  LTold' = LTold
BY DEF LTold, Succeeded

LEMMA TellsMore ==
  ASSUME NEW t, told' = told \cup {t}, Succeeded(t)
  PROVE  LTold' = LTold \cup {<<t.claim, t.answer>>}
BY DEF LTold, Succeeded

\* A step that forgets nothing keeps the decisions as they are.
LEMMA DecisionsStay ==
  ASSUME IInv, [Next]_vars, KeepStep \/ ReserveStep \/ DropStep
  PROVE  LFinal' = LFinal /\ LFailed' = LFailed
<1>1. \A k \in DOMAIN keys' :
        \/ k \in DOMAIN keys /\ keys'[k] = keys[k]
        \/ k \notin DOMAIN keys /\ keys'[k].state = "claimed"
  <2>1. CASE ReserveStep
    <3>1. PICK a, K : /\ K \subseteq KeysOf \ DOMAIN keys
                      /\ keys' = [k \in DOMAIN keys \cup K |-> IF k \in K THEN Claim(a) ELSE keys[k]]
      BY <2>1 DEF ReserveStep
    <3>2. QED
      BY <3>1 DEF Claim
  <2>2. QED
    BY <2>1 DEF KeepStep, DropStep, Shrunk
<1>2. \A k \in DOMAIN keys \ DOMAIN keys' : keys[k].state = "claimed"
  <2>1. CASE ReserveStep
    BY <2>1 DEF ReserveStep
  <2>2. QED
    BY <2>1 DEF KeepStep, DropStep, Shrunk
<1>3. Decided' = Decided /\ \A k \in Decided : keys'[k] = keys[k]
  BY <1>1, <1>2 DEF Decided
<1>4. Effects' = Effects
  BY <1>3 DEF Effects
<1>5. QED
  BY <1>3, <1>4, SameFinal, SameFailed

LEMMA ReserveLedger ==
  ASSUME IInv, IInv', [Next]_vars, ReserveStep
  PROVE  Ledger!Reserve
<1>1. PICK a, K : /\ K \subseteq KeysOf \ DOMAIN keys
                  /\ keys' = [k \in DOMAIN keys \cup K |-> IF k \in K THEN Claim(a) ELSE keys[k]]
  BY DEF ReserveStep
<1>2. LHeld' = LHeld \cup K
  BY <1>1 DEF LHeld, Rows, Claim
<1>3. LHeld' \subseteq KeysOf
  BY <1>1, <1>2 DEF LHeld, Rows, IInv, TypeOK
<1>4. \A k \in LHeld' \ LHeld : k \notin LHeld \cup DOMAIN LFinal \cup DOMAIN LFailed
  BY <1>1, <1>2 DEF LFinal, LFailed, Effects, Decided
<1>5. LTold' = LTold
  BY SameTold DEF ReserveStep
<1>6. LFinal' = LFinal /\ LFailed' = LFailed
  BY DecisionsStay
<1>7. QED
  BY <1>2, <1>3, <1>4, <1>5, <1>6 DEF Ledger!Reserve, Ledger!Free, LHeld, LFinal, LFailed, LTold

LEMMA DropLedger ==
  ASSUME IInv, IInv', [Next]_vars, DropStep
  PROVE  Ledger!Release \/ \E k \in KeysOf : Ledger!Tell(k)
<1>1. LHeld' \subseteq LHeld
  BY DEF DropStep, Shrunk, LHeld, Rows
<1>2. LFinal' = LFinal /\ LFailed' = LFailed
  BY DecisionsStay
<1>3. CASE LTold' = LTold
  BY <1>1, <1>2, <1>3 DEF Ledger!Release, LHeld, LFinal, LFailed, LTold
<1>4. CASE LTold' # LTold
  <2>1. PICK t : told' = told \cup {t} /\ TellsRow(t) /\ Succeeded(t)
    BY <1>4, SameTold DEF DropStep
  <2>2. t.claim \in Effects /\ t.answer = Answer(keys[t.claim].was.code, keys[t.claim].was.id)
    BY <2>1 DEF TellsRow
  <2>3. /\ t.claim \in DOMAIN LFinal /\ t.answer = LFinal[t.claim] /\ t.claim \in KeysOf
    BY <2>2 DEF LFinal, Effects, Decided, IInv, TypeOK
  <2>4. LTold' = LTold \cup {<<t.claim, LFinal[t.claim]>>}
    BY <2>1, <2>3, TellsMore
  <2>5. Ledger!Tell(t.claim)
    BY <1>1, <1>2, <2>3, <2>4 DEF Ledger!Tell, LHeld, LFinal, LFailed, LTold
  <2>6. QED
    BY <2>3, <2>5
<1>5. QED
  BY <1>3, <1>4

\* Failures are forgotten, and claims with the process that held them.
LEMMA ForgetLedger ==
  ASSUME IInv, IInv', [Next]_vars, ForgetStep
  PROVE  Ledger!Forget
<1>1. \A k \in DOMAIN keys' : k \in DOMAIN keys /\ (keys'[k] = keys[k] \/ k \in Effects)
  <2>1. PICK t : Shrunk(keys, t) /\ keys' = Expired(t)
    BY DEF ForgetStep
  <2>2. ASSUME NEW k \in DOMAIN keys' PROVE k \in DOMAIN keys /\ (keys'[k] = keys[k] \/ k \in Effects)
    <3>1. k \in DOMAIN t /\ k \in DOMAIN keys
      BY <2>1, ExpiredIs DEF Shrunk
    <3>2. Follows(k)
      BY KeepsRows
    <3>3. QED
      BY <3>1, <3>2 DEF Follows
  <2>3. QED
    BY <2>2
<1>2. \A k \in Effects : k \in Effects'
  BY EffectsStay
<1>3. \A k \in DOMAIN keys' : k \in Decided' => k \in Decided
  BY <1>1, <1>2 DEF Decided, Effects
<1>4. Effects' \subseteq Effects
  BY <1>1 DEF Effects, Decided
<1>5. LFinal' = LFinal
  BY <1>4, SameFinal
<1>6. /\ (Decided \ Effects)' \subseteq Decided \ Effects
      /\ \A k \in (Decided \ Effects)' : keys'[k] = keys[k]
  BY <1>1, <1>2, <1>3 DEF Decided
<1>7. DOMAIN LFailed' \subseteq DOMAIN LFailed /\ \A k \in DOMAIN LFailed' : LFailed'[k] = LFailed[k]
  BY <1>6 DEF LFailed
<1>8. LHeld' \subseteq LHeld
  BY <1>1, <1>2 DEF LHeld, Rows, Effects, Decided
<1>9. LTold' = LTold
  BY SameTold DEF ForgetStep
<1>10. QED
  BY <1>5, <1>7, <1>8, <1>9 DEF Ledger!Forget, LHeld, LFinal, LFailed, LTold

LEMMA FinishLedger ==
  ASSUME IInv, IInv', [Next]_vars, FinishStep
  PROVE  \E k \in KeysOf : Ledger!Effect(k) \/ Ledger!Fail(k)
<1>1. PICK a, key, row, result :
        /\ Finishes(a, key, row, result)
        /\ \/ told' = told
           \/ \E t : /\ told' = told \cup {t}
                     /\ t.claim = key /\ t.storage = "retained"
                     /\ t.answer = Answer(result.code, result.id)
  BY DEF FinishStep
<1>2. /\ key \in KeysOf /\ DecidedRow(row) /\ row.state = "retained"
      /\ row.was.code = result.code /\ row.was.id = result.id
      /\ key \in DOMAIN keys => keys[key].state = "claimed"
  BY <1>1 DEF Finishes
<1>3. /\ \A k \in DOMAIN keys' \ {key} : k \in DOMAIN keys /\ keys'[k] = keys[k]
      /\ \A k \in DOMAIN keys \ DOMAIN keys' : keys[k].state = "claimed"
      /\ key \in DOMAIN keys' /\ keys'[key] = row /\ key \notin Decided
  BY <1>1, FinishRows
<1>4. Decided' = Decided \cup {key} /\ \A k \in Decided : keys'[k] = keys[k]
  BY <1>2, <1>3 DEF Decided
<1>5. Effects' = IF row.effect = "success" THEN Effects \cup {key} ELSE Effects
  BY <1>2, <1>3, <1>4 DEF Effects
<1>6. LHeld' \subseteq LHeld \ {key}
  BY <1>2, <1>3 DEF LHeld, Rows
<1>7. key \in LHeld \/ key \notin LHeld \cup DOMAIN LFinal \cup DOMAIN LFailed
  BY <1>2, <1>3 DEF LHeld, Rows, LFinal, LFailed, Effects
<1>8. CASE row.effect = "success"
  <2>1. LFailed' = LFailed
    BY <1>3, <1>4, <1>5, <1>8, SameFailed DEF Effects
  <2>2. /\ DOMAIN LFinal' = DOMAIN LFinal \cup {key}
        /\ \A k \in DOMAIN LFinal : LFinal'[k] = LFinal[k]
        /\ LFinal'[key] = Answer(result.code, result.id)
    <3>1. DOMAIN LFinal' = DOMAIN LFinal \cup {key}
      BY <1>5, <1>8 DEF LFinal
    <3>2. LFinal'[key] = Answer(keys'[key].was.code, keys'[key].was.id)
      BY <1>5, <1>8 DEF LFinal
    <3>3. \A k \in DOMAIN LFinal : LFinal'[k] = LFinal[k]
      BY <1>5, <1>8, EffectsStay DEF LFinal
    <3>4. QED
      BY <1>2, <1>3, <3>1, <3>2, <3>3
  <2>3. LTold' = LTold \/ LTold' = LTold \cup {<<key, LFinal'[key]>>}
    <3>1. CASE told' = told
      BY <3>1, SameTold
    <3>2. ASSUME NEW t, told' = told \cup {t}, t.claim = key, t.answer = Answer(result.code, result.id)
          PROVE  LTold' = LTold \/ LTold' = LTold \cup {<<key, LFinal'[key]>>}
      BY <2>2, <3>2, SameTold, TellsMore
    <3>3. QED
      BY <1>1, <3>1, <3>2
  <2>4. Ledger!Effect(key)
    BY <1>6, <1>7, <2>1, <2>2, <2>3
       DEF Ledger!Effect, Ledger!Free, Ledger!Extends, LHeld, LFinal, LFailed, LTold
  <2>5. QED
    BY <1>2, <2>4
<1>9. CASE row.effect # "success"
  <2>1. LFinal' = LFinal
    BY <1>5, <1>9, SameFinal
  <2>2. /\ DOMAIN LFailed' = DOMAIN LFailed \cup {key}
        /\ \A k \in DOMAIN LFailed : LFailed'[k] = LFailed[k]
    <3>1. (Decided \ Effects)' = (Decided \ Effects) \cup {key}
      BY <1>3, <1>4, <1>5, <1>9 DEF Effects
    <3>2. QED
      BY <1>4, <3>1 DEF LFailed
  <2>3. LTold' = LTold
    <3>1. ASSUME NEW t, t.storage = "retained", t.answer = Answer(result.code, result.id)
          PROVE  ~Succeeded(t)
      BY <1>2, <1>9, <3>1 DEF Succeeded, DecidedRow, SuccessCodes, Answer
    <3>2. QED
      BY <1>1, <3>1, SameTold
  <2>4. Ledger!Fail(key)
    BY <1>6, <1>7, <2>1, <2>2, <2>3
       DEF Ledger!Fail, Ledger!Free, Ledger!Extends, LHeld, LFinal, LFailed, LTold
  <2>5. QED
    BY <1>2, <2>4
<1>10. QED
  BY <1>8, <1>9

\* Through turns, drains, fences, restarts and expiry, the keys of an installation and what
\* its callers are told are those of a ledger that holds a key for one execution, decides at
\* most one effect under it, and tells that one (sequence-executor.ts submit,
\* recovery-store.ts executeMember).
THEOREM MembersImplementLedger == Spec => ImplementsLedger
<1>1. Init => Ledger!Init
  <2> SUFFICES ASSUME Init PROVE Ledger!Init
    OBVIOUS
  <2>1. DOMAIN keys = {} /\ told = {}
    BY NobodyIsThere DEF Init
  <2>2. QED
    BY <2>1 DEF Ledger!Init, Rows, Effects, Decided
<1>2. IInv /\ IInv' /\ [Next]_vars => [Ledger!Next]_(Ledger!vars)
  <2> SUFFICES ASSUME IInv, IInv', [Next]_vars PROVE [Ledger!Next]_(Ledger!vars)
    OBVIOUS
  <2>1. CASE KeepStep
    <3>1. LFinal' = LFinal /\ LFailed' = LFailed /\ LHeld' = LHeld /\ LTold' = LTold
      BY <2>1, DecisionsStay, SameTold DEF KeepStep, LHeld, Rows
    <3>2. UNCHANGED Ledger!vars
      BY <3>1 DEF Ledger!vars, LHeld, LFinal, LFailed, LTold
    <3>3. QED
      BY <3>2
  <2>2. QED
    BY <2>1, Steps, ReserveLedger, DropLedger, ForgetLedger, FinishLedger DEF Ledger!Next
<1>3. QED
  BY <1>1, <1>2, Invariance, PTL DEF Spec, ImplementsLedger, Ledger!Spec

===============================================================================
