---------------------------- MODULE MCRetainedBatch ----------------------------
(* Small instances of RetainedBatch for TLC. *)
EXTENDS MCRetainedStore, BatchRecovery

\* Ten addresses of the alias namespace that no request binds.
Unbound == {"m1", "m2", "m3", "m4", "m5", "m6", "m7", "m8", "m9", "m10"}
BatchUris == MCUris \cup Unbound
BatchNamespace == MCNamespace \cup Unbound

\* An action constraint: the address the server draws is never one of them.
DrawsElsewhere == DOMAIN identities' \cap Unbound = {}

\* A Link's address sorts before its Beads', so its event comes before theirs.
MCOrder ==
  <<"a1", "l1", "b1", "b2", "nav",
    "m1", "m2", "m3", "m4", "m5", "m6", "m7", "m8", "m9", "m10">>

M(i) == [request |-> i, handles |-> [s \in {} |-> 0], provenance |-> None]
By(m, actor) == [m EXCEPT !.provenance = actor]

\* A member that names what the n-th one creates in some of its fields.
Handled(i, fields, n) ==
  [request |-> [f \in DOMAIN i |-> IF f \in fields THEN None ELSE i[f]],
   handles |-> [s \in fields |-> n], provenance |-> None]

MCSingles ==
  {Create("b1"), Create("a1"), Update("b1", "grow", 1, 0),
   Delete("b1", 0), Update("a1", "flip", 0, 0), Alias("a1", "b1"), Unalias("a1"),
   Link("l1", "b1", "ext"), Relink("l1", None, "l1", "flip")}

GroupBatches ==
  { \* a Bead and its Link; both gone again; a Link moved to a new Bead
   <<M(Create("b1")), Handled(Link("l1", "b1", "ext"), {"source"}, 1)>>,
   <<M(Unlink("l1")), M(Delete("b1", 0))>>,
   <<M(Create("b2")), Handled(Relink("l1", "b2", None, "keep"), {"source"}, 1)>>,
    \* nothing is left of it; guards before and after a change
   <<M(Update("b1", "flip", 1, 0)), M(Update("b1", "flip", 1, 0))>>,
   <<M(Update("b1", "flip", 0, 0)), M(Update("b1", "flip", 2, 0))>>,
    \* an address consumed, without a name and by name
   <<M(Create(None)), Handled(Delete("b2", 0), {"id"}, 1)>>,
   <<M(Create("a1")), M(Update("a1", "flip", 0, 0))>>,
   <<M(Update("a1", "flip", 0, 0)), M(Create("b2")), M(Delete("b2", 0))>>}

RefusedBatches ==
  {<<M(Create("b1")), M(Update("b1", "flip", 1, 0))>>,
   <<M(Create("b1")), Handled(Update("b1", "grow", 0, 0), {"id"}, 1)>>,
   <<By(M(Update("b1", "flip", 0, 0)), "alice"), By(M(Update("b1", "keep", 0, 0)), "bob")>>,
   <<M(Create("b1")), M(Create("b2")), M(Delete("b1", 0)), M(Delete("b2", 0))>>,
   <<M(Update("b1", "flip", 0, 0)), M(Update("b1", "grow", 0, 0))>>,
   <<M(Delete("b1", 0)), M(Link("l1", "b1", "ext"))>>,
   <<M(Link("l1", "b1", "ext")), M(Inadmissible(Delete("b1", 0)))>>}

\* More members than a batch may have, and more aliases than the check allows.
LongBatch ==
  <<M(Link("l1", "m1", "m2")), M(Link("l1", "m3", "m4")), M(Link("l1", "m5", "m6")),
    M(Link("l1", "m7", "m8")), M(Link("l1", "m9", "m10"))>>

MCBatches == GroupBatches \cup RefusedBatches \cup {LongBatch}
=============================================================================
