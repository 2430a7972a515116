-------------------------------- MODULE MCMembers --------------------------------
(***************************************************************************)
(* Requests to a Read+Update installation, in families side by side: of    *)
(* keys, of aliases and of Links.  A behaviour sends carriers of one       *)
(* family; two are in progress at most, and time passes and owners end in  *)
(* the first only.                                                         *)
(***************************************************************************)
EXTENDS MemberLifecycle

CONSTANTS p, b1, b2, b3, l1, l2, x, web

NoRef == [as |-> "none", to |-> None]
Direct(a) == [as |-> "direct", to |-> a]
Alias(a) == [as |-> "alias", to |-> a]
Of(name) == [as |-> "binding", to |-> name]

Base(operation, name, key) ==
  [operation |-> operation, name |-> name, key |-> key, id |-> None, subject |-> NoRef,
   source |-> NoRef, target |-> NoRef, alias |-> None, body |-> "none", type |-> "none",
   expected |-> 0]

Bead(name, key, id) == [Base("createBead", name, key) EXCEPT !.id = id, !.body = "new"]
Change(operation, name, key, ref, body) ==
  [Base(operation, name, key) EXCEPT !.subject = ref, !.body = body]
Assign(name, key, path, a) ==
  [Base("putAlias", name, key) EXCEPT !.alias = path, !.target = Direct(a)]
Unassign(name, key, path) == [Base("deleteAlias", name, key) EXCEPT !.alias = path]
Drop(operation, name, key, ref) == [Base(operation, name, key) EXCEPT !.subject = ref]
LinkOf(name, key, id, type, source, target) ==
  [Base("createLink", name, key) EXCEPT !.id = id, !.body = "new", !.type = type,
                                        !.source = source, !.target = target]

\* Keys: a creator that another request may be running, a dependent of it and a
\* member after both, and the key of the creator used for another Bead.
KeyCarriers ==
  {<<Bead("m", "k1", None), Change("updateBead", "n", "k2", Of("m"), "old"),
     Drop("deleteBead", "o", "k3", Direct(b2))>>,
   <<Bead("m", "k1", None)>>,
   <<Drop("deleteBead", "m", "k3", Direct(b1)), Bead("n", "k1", b2)>>}

\* Aliases: one is given from a Bead to another, the Bead goes, its address and
\* the alias's are wanted again.
AliasCarriers ==
  {<<Bead("m", "k1", b1), Assign("o", "k3", x, b1), Change("updateBead", "r", "k4", Alias(x), "old")>>,
   <<Bead("n", "k2", b2), Assign("m", "k5", x, b2), Drop("deleteBead", "o", "k6", Direct(b1))>>,
   <<Unassign("n", "k9", x), Bead("o", "k10", x), Bead("r", "k7", b1)>>}

\* Links: owned and others, their source changed, one Bead with too many.
LinkCarriers ==
  {<<Bead("m", "k1", b1), Bead("n", "k2", b2),
     LinkOf("o", "k3", l1, "owned", Of("m"), Of("n")),
     [Change("updateBead", "r", "k5", Direct(b1), "old") EXCEPT !.expected = 1]>>,
   <<LinkOf("m", "k4", l2, "other", Direct(b1), Direct(b2)),
     Change("updateLink", "r", "k6", Direct(l1), "old"), Drop("deleteBead", "n", "k7", Direct(b2))>>,
   <<Drop("deleteLink", "m", "k8", Direct(l1)), LinkOf("n", "k9", l2, "owned", Direct(b1), Direct(web))>>}

OpaqueIds == <<b1, b2, b3>>

Carriage(family) ==
  CASE family = "keys" -> KeyCarriers
    [] family = "aliases" -> AliasCarriers
    [] family = "links" -> LinkCarriers

Families == {"keys", "aliases", "links"}
AllCarriers == UNION {Carriage(f) : f \in Families}

VARIABLE family

FamilyNext ==
  /\ \/ Step
     \/ \E c \in Carriage(family) : Submit(p, c)
  /\ Cardinality(DOMAIN attempts') <= 2
  /\ family # "keys" => now' = 0
  /\ family # "keys" => owner' = "accepting"
  /\ UNCHANGED family

FamilyInit == Init /\ family \in Families

FamilySpec == FamilyInit /\ [][FamilyNext]_<<vars, family>>
=============================================================================
