----------------------------- MODULE MemberGraph -----------------------------
(***************************************************************************)
(* What one member of a Read+Update request does to the Resources and      *)
(* aliases of a recovery store (resource-evaluator.ts, alias-evaluator.ts, *)
(* and the transaction facade of recovery-store.ts).  A Bead holds inline  *)
(* copies of the Links it owns; a change of such a Link gives its source a *)
(* new revision too.  Deleting a Bead leaves its aliases.                  *)
(*                                                                         *)
(* Addresses below alias/ can be aliases or Beads, but a reference to one  *)
(* always means the alias.  Everything is readable and writable, all Types *)
(* are installed and all bodies valid.                                     *)
(***************************************************************************)
EXTENDS Integers, FiniteSets, Sequences, SequencesExt

CONSTANTS
  External,       \* addresses outside the Scope
  Paths,          \* addresses below alias/
  OwnedTypes,     \* the Link Types Beads own
  OwnedMax,       \* the Links of these Types a Bead may own
  EndpointMax,    \* the Links that may have one Bead as their target
  Opaque,         \* the addresses the store allocates, in order
  None

Put(f, x, y) == [z \in DOMAIN f \cup {x} |-> IF z = x THEN y ELSE f[z]]
Without(f, S) == [z \in DOMAIN f \ S |-> f[z]]
NoFunction == [x \in {} |-> None]

\* identities: all addresses that ever were a Resource's.
EmptyGraph == [resources |-> NoFunction, identities |-> {}, aliases |-> NoFunction, revision |-> 0]

Live(g, a, kind) == a \in DOMAIN g.resources /\ g.resources[a].kind = kind
LinksOf(resources, side, a) ==
  {l \in DOMAIN resources : resources[l].kind = "link" /\ resources[l][side] = a}

\* The inline copies of the Links a Bead owns, the Link under change included.
OwnedBy(resources, before, a) ==
  {[id |-> l, revision |-> resources[l].revision, target |-> resources[l].target] :
     l \in {l \in LinksOf(resources, "source", a) : resources[l].type \in OwnedTypes}}

\* What a member that stopped at a check leaves, and what one that did not.
Refused(code) == [effect |-> "failure", code |-> code, graph |-> None, id |-> None,
                  resource |-> None]
Done(code, graph, id, resource) ==
  [effect |-> "success", code |-> code, graph |-> graph, id |-> id, resource |-> resource]
-----------------------------------------------------------------------------
\* The next opaque identity that is neither committed nor shadowed by an alias.
Allocation(g) ==
  Opaque[CHOOSE n \in 1..Len(Opaque) :
           /\ Opaque[n] \notin g.identities \cup DOMAIN g.aliases
           /\ \A m \in 1..n - 1 : Opaque[m] \in g.identities \cup DOMAIN g.aliases]

\* Mutant: an address is free when nothing lives there.
IdentityCode_live(g, id) ==
  IF id \in DOMAIN g.resources THEN "identity-taken"
  ELSE IF id \in DOMAIN g.aliases THEN "alias-path-taken" ELSE "ok"

IdentityCode(g, id) ==
  IF id \in g.identities THEN "identity-taken"
  ELSE IF id \in DOMAIN g.aliases THEN "alias-path-taken" ELSE "ok"

\* An endpoint; None is an alias that is not assigned.
EndpointCode(g, a) ==
  IF a \in External \/ Live(g, a, "bead") THEN "ok"
  ELSE IF Live(g, a, "link") THEN "validation-failed" ELSE "resource-not-found"

First(codes) ==
  LET refusals == {n \in DOMAIN codes : codes[n] # "ok"} IN
  IF refusals = {} THEN "ok"
  ELSE codes[CHOOSE n \in refusals : \A o \in refusals : n <= o]

IsOwned(link) == link.type \in OwnedTypes /\ link.source \notin External

\* A Bead with its new copies.
Recopied(resources, before, s, revision) ==
  [resources EXCEPT ![s].owned = OwnedBy(resources, before, s), ![s].revision = revision]

\* The source of a Link that is created or changed gets its new copies and a
\* revision after the Link's.
WithSource(g, resources, link) ==
  IF IsOwned(link) THEN Recopied(resources, g.resources, link.source, g.revision + 2)
  ELSE resources

Revisions(g, link) == g.revision + IF IsOwned(link) THEN 2 ELSE 1

TooManyOwned(resources, a) ==
  a \notin External /\ Cardinality(OwnedBy(resources, resources, a)) > OwnedMax

TooManyAt(g, id, link) ==
  /\ link.target \notin External
  /\ Cardinality(LinksOf(g.resources, "target", link.target) \ {id}) >= EndpointMax

\* A Link as it will be, with the checks on its set of Links.
LinkWritten(g, id, link, code) ==
  LET resources == Put(g.resources, id, link)
      after == WithSource(g, resources, link) IN
  IF link.type \in OwnedTypes /\ TooManyOwned(resources, link.source)
  THEN Refused("validation-failed")
  ELSE IF TooManyAt(g, id, link) THEN Refused("aggregate-constraint-violation")
  ELSE Done(code, [g EXCEPT !.resources = after, !.revision = Revisions(g, link),
                            !.identities = @ \cup {id}], id, after[id])

CreateBead(g, input) ==
  LET id == IF input.id = None THEN Allocation(g) ELSE input.id
      bead == [kind |-> "bead", body |-> input.body, revision |-> g.revision + 1, type |-> "bead",
               source |-> None, target |-> None, owned |-> {}] IN
  IF IdentityCode(g, id) # "ok" THEN Refused(IdentityCode(g, id))
  ELSE Done("created", [g EXCEPT !.resources = Put(@, id, bead), !.revision = @ + 1,
                                 !.identities = @ \cup {id}], id, bead)

CreateLink(g, input) ==
  LET id == IF input.id = None THEN Allocation(g) ELSE input.id
      link == [kind |-> "link", body |-> input.body, revision |-> g.revision + 1,
               type |-> input.type, source |-> input.source, target |-> input.target, owned |-> {}]
      code == First(<<IdentityCode(g, id), EndpointCode(g, input.source),
                      EndpointCode(g, input.target),
                      IF {input.source, input.target} \subseteq External
                      THEN "validation-failed" ELSE "ok">>) IN
  IF code # "ok" THEN Refused(code) ELSE LinkWritten(g, id, link, "created")

\* A change to what is there already writes nothing and keeps the revision.
UpdateBead(g, input) ==
  LET id == input.subject
      bead == [g.resources[id] EXCEPT !.body = input.body, !.revision = g.revision + 1,
                                      !.owned = OwnedBy(g.resources, g.resources, id)] IN
  IF ~Live(g, id, "bead") THEN Refused("resource-not-found")
  ELSE IF input.expected \notin {0, g.resources[id].revision} THEN Refused("revision-mismatch")
  ELSE IF g.resources[id].body = input.body THEN Done("updated", g, id, g.resources[id])
  ELSE Done("updated", [g EXCEPT !.resources[id] = bead, !.revision = @ + 1], id, bead)

UpdateLink(g, input) ==
  LET id == input.subject
      before == g.resources[id]
      link == [before EXCEPT !.body = input.body, !.revision = g.revision + 1] IN
  IF ~Live(g, id, "link") THEN Refused("resource-not-found")
  ELSE IF input.expected \notin {0, before.revision} THEN Refused("revision-mismatch")
  ELSE IF before.body = input.body THEN Done("updated", g, id, before)
  ELSE LinkWritten(g, id, link, "updated")

Incident(g, id) == LinksOf(g.resources, "source", id) \cup LinksOf(g.resources, "target", id)

DeleteBead(g, input) ==
  LET id == input.subject IN
  IF ~Live(g, id, "bead") THEN Refused("resource-not-found")
  ELSE IF input.expected \notin {0, g.resources[id].revision} THEN Refused("revision-mismatch")
  ELSE IF Incident(g, id) # {} THEN Refused("incident-links-exist")
  ELSE Done("deleted", [g EXCEPT !.resources = Without(@, {id})], id, None)

DeleteLink(g, input) ==
  LET id == input.subject
      link == g.resources[id]
      rest == Without(g.resources, {id})
      after == IF IsOwned(link) THEN Recopied(rest, g.resources, link.source, g.revision + 1)
               ELSE rest IN
  IF ~Live(g, id, "link") THEN Refused("resource-not-found")
  ELSE IF input.expected \notin {0, link.revision} THEN Refused("revision-mismatch")
  ELSE Done("deleted", [g EXCEPT !.resources = after,
                                 !.revision = IF IsOwned(link) THEN @ + 1 ELSE @], id, None)

\* Aliases name live Beads when they are assigned.  One whose Bead was deleted
\* can neither be assigned again nor removed.
PutAlias(g, input) ==
  LET t == input.target
      path == input.alias
      assigned == path \in DOMAIN g.aliases IN
  IF path \in g.identities THEN Refused("identity-taken")
  ELSE IF t \in External \cup Paths THEN Refused("validation-failed")
  ELSE IF t \notin DOMAIN g.resources THEN Refused("resource-not-found")
  ELSE IF ~Live(g, t, "bead") THEN Refused("validation-failed")
  ELSE IF assigned /\ ~Live(g, g.aliases[path], "bead") THEN Refused("resource-not-found")
  ELSE Done(IF assigned THEN "updated" ELSE "created",
            [g EXCEPT !.aliases = Put(@, path, t)], t, None)

DeleteAlias(g, input) ==
  IF input.alias \notin DOMAIN g.aliases \/ ~Live(g, g.aliases[input.alias], "bead")
  THEN Refused("resource-not-found")
  ELSE Done("deleted", [g EXCEPT !.aliases = Without(@, {input.alias})], None, None)

Evaluate(g, input) ==
  CASE input.operation = "createBead" -> CreateBead(g, input)
    [] input.operation = "createLink" -> CreateLink(g, input)
    [] input.operation = "updateBead" -> UpdateBead(g, input)
    [] input.operation = "updateLink" -> UpdateLink(g, input)
    [] input.operation = "deleteBead" -> DeleteBead(g, input)
    [] input.operation = "deleteLink" -> DeleteLink(g, input)
    [] input.operation = "putAlias" -> PutAlias(g, input)
    [] input.operation = "deleteAlias" -> DeleteAlias(g, input)

\* A retained result is disclosed while the Beads its closure reaches are there;
\* the retained Bead itself need not be.
Discloses(g, id, resource) ==
  LET ends == IF resource.kind = "link" THEN {resource.source, resource.target}
              ELSE {o.target : o \in resource.owned} \ {id} IN
  \A e \in ends \ External : Live(g, e, "bead")
=============================================================================
