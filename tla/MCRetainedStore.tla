---------------------------- MODULE MCRetainedStore ----------------------------
(* Small instances of RetainedStore for TLC. *)
EXTENDS RetainedStore, TLC

CONSTANTS p1, k1, k2, k3, k4, k5

MCValues == {"x", "y", "big"}
MCChanges == {"keep", "flip", "grow", "huge"}
\* flip does not apply to a document that is already oversize, like an object
\* edit whose path is absent.
MCEdit ==
  [c \in MCChanges |-> [v \in MCValues |->
     CASE c = "keep" -> v
       [] c = "flip" /\ v = "x" -> "y"
       [] c = "flip" /\ v = "y" -> "x"
       [] c = "grow" /\ v = "y" -> "big"
       [] OTHER -> "invalid"]]

Request(op, id, source, target, data, expected, from) ==
  [op |-> op, id |-> id, source |-> source, target |-> target, data |-> data,
   expected |-> expected, from |-> from, refused |-> FALSE]

\* A request whose numbers preparation rejected.
Inadmissible(i) == [i EXCEPT !.refused = TRUE]

Create(id) == Request("createBead", id, None, None, "x", 0, 0)
Update(id, change, expected, from) ==
  Request("updateBead", id, None, None, change, expected, from)
Delete(id, expected) == Request("deleteBead", id, None, None, None, expected, 0)
Link(id, source, target) == Request("createLink", id, source, target, "x", 0, 0)
Relink(id, source, target, change) ==
  Request("updateLink", id, source, target, change, 0, 0)
Unlink(id) == Request("deleteLink", id, None, None, None, 0, 0)
Alias(id, target) == Request("putAlias", id, None, target, None, 0, 0)
Unalias(id) == Request("deleteAlias", id, None, None, None, 0, 0)

\* Two Beads, a Link and one address of the alias namespace that may become
\* either an alias or a Bead; nav is the service's own, ext outside the Scope.
MCUris == {"b1", "b2", "l1", "a1", "nav"}
MCExternal == {"ext"}
MCNamespace == {"a1", "nav"}
MCReserved == {"nav"}

\* Aliases and identities compete for addresses; Links need Beads; versions of a
\* Bead are brought back, and a Link can hold it.
StoreInvocations ==
  {Create("b1"), Create("b2"), Create("a1"), Create(None),
   Alias("a1", "b1"), Alias("nav", "b1"), Unalias("a1"),
   Delete("a1", 0), Delete("b1", 0), Update("a1", "flip", 0, 0),
   Update("b1", "flip", 1, 0), Update("b1", "keep", 0, 1), Update("b1", "grow", 0, 2),
   Link("l1", "b1", "b2"), Link("l1", "a1", "ext"),
   Relink("l1", "b2", None, "keep"), Relink("l1", None, "l1", "flip"), Unlink("l1"),
   Inadmissible(Create("b1"))}

KeySymmetry == Permutations(Keys)
=============================================================================
