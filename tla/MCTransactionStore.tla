-------------------------- MODULE MCTransactionStore --------------------------
(* Small instances of TransactionStore for TLC. *)
EXTENDS TransactionStore, TLC

CONSTANTS k1, k2, k3, k4, c1, c2, a1, a2, u1, l1

On(key, request) == [key |-> key, request |-> request]

NoRefs == [f \in {} |-> None]
To(term) == [target |-> term]

Create == Request("create", None, NoRefs)
CreateAs(u) == Request("create", u, NoRefs)
CreateOn(term) == Request("create", None, To(term))
Write(term) == Request("write", None, To(term))
PutAlias(l, u) == Request("putAlias", l, To(Uri(u)))
DeleteAlias(l) == Request("deleteAlias", l, NoRefs)

\* The identities of an instance: one supplied, and the allocated ones.
Identities(n) == {u1} \cup 1..n
MCUris == Identities(4)

\* A creation, its dependent, the same members under keys in another order, and
\* direct requests for the members' keys.
DependentPrograms ==
  {<<On(k1, Create), On(k2, Write(Creator(1)))>>,
   <<On(k2, Create), On(k1, Create), On(k3, CreateOn(Creator(2)))>>}
DependentSubmissions ==
  {On(k1, Create), On(k2, Write(Uri(1)))}

\* A creation, its alias and a member that acts through it, and direct requests
\* that retry the member and delete the alias.
RetryPrograms ==
  {<<On(k1, CreateAs(u1)), On(k3, PutAlias(l1, u1)), On(k2, Write(Alias(l1)))>>}
RetrySubmissions == {On(k2, Write(Alias(l1))), On(k4, DeleteAlias(l1))}

\* The same with a dependent, and the same keys in the opposite order.
AliasPrograms ==
  RetryPrograms \cup
  {<<On(k2, Write(Alias(l1))), On(k1, CreateAs(u1))>>,
   <<On(k1, CreateAs(u1)), On(k2, Write(Creator(1)))>>}
AliasSubmissions == RetrySubmissions \cup {On(k2, Write(Uri(u1)))}

\* Two sequences that want the same keys in opposite orders, and a direct request
\* for one of them.
CrossedPrograms ==
  {<<On(k1, Create), On(k2, Write(Creator(1)))>>,
   <<On(k2, Create), On(k1, Create)>>}
CrossedSubmissions == {On(k2, Write(Uri(1)))}

MixedPrograms == AliasPrograms \cup CrossedPrograms
MixedSubmissions == AliasSubmissions \cup CrossedSubmissions

\* What arrives: one sequence and a direct request while the policy may be
\* replaced; a sequence and two direct requests; or two crossed sequences and a
\* direct request while nothing is interrupted.  Only what arrives or interrupts
\* is narrowed, never what the owner does.
Presented(programs, submissions) ==
  /\ \A a \in Attempts : attempts[a].phase = "new" \/ attempts[a].program \in programs
  /\ \A c \in Calls : calls[c].key = None \/ On(calls[c].key, calls[c].request) \in submissions

Unreplaced == pause = "none" /\ generation = 0

Arrivals ==
  \/ /\ Presented(AliasPrograms, AliasSubmissions)
     /\ attempts[a2].phase = "new" /\ calls[c2].phase = "new"
  \/ Presented(RetryPrograms, RetrySubmissions) /\ attempts[a2].phase = "new" /\ Unreplaced
  \/ /\ Presented(CrossedPrograms, CrossedSubmissions) /\ calls[c2].phase = "new"
     /\ Unreplaced /\ mode = "open"

\* Sequences, and direct requests, are alike: the first comes first.
FirstFirst ==
  /\ attempts[a2].phase # "new" => attempts[a1].phase # "new"
  /\ calls[c2].phase # "new" => calls[c1].phase # "new"

\* Steps after which arrivals are as above: an action constraint of its run.
Narrowed == (Arrivals /\ FirstFirst)'

RetriesSpec == Init /\ [][Next]_vars /\ Fairness

CallerSymmetry == Permutations(Attempts) \cup Permutations(Calls)
=============================================================================
