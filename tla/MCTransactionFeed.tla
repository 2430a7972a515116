--------------------------- MODULE MCTransactionFeed ---------------------------
(* A small instance of the transactional feed for TLC: one Resource, a first
   client that does all a client can, and a second that competes with it. *)
EXTENDS TransactionFeed, TLC

CONSTANTS r1, c1, c2

\* A group of four events with one of another Resource within, which makes its
\* packets differ from its events; and a group that does not concern r1 at all.
LongBodies == {<<{r1}, {}, {r1}, {r1}>>, <<{}>>}

\* Nothing of the second client has happened.
Absent == conns[c2] = Idle /\ clients[c2] = Fresh

\* An action constraint.  The second client asks for nothing but streams of the
\* change feed that are answered at once, until it has received an item; and the
\* third group is committed only if it never asked.  Its other steps, and all of
\* the first client's and of the server's, are kept.
Narrowed ==
  /\ \/ Phase(c2) # "idle"
     \/ conns'[c2] = conns[c2] /\ clients'[c2] = clients[c2]
     \/ /\ conns'[c2].phase = "selected" /\ conns'[c2].feed = "changes"
        /\ clients[c2].cursor = None
  /\ Len(groups') <= 2 \/ Absent'
=============================================================================
