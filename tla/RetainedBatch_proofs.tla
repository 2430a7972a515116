-------------------------- MODULE RetainedBatch_proofs --------------------------
(***************************************************************************)
(* Proofs about atomic batches (RetainedBatch, BatchRecovery), for every   *)
(* set of addresses, requests, batches and keys.                           *)
(***************************************************************************)
EXTENDS BatchRecovery, RetainedStore_proofs, FiniteSetTheorems

(* The recursive definitions. *)

LEMMA GraphsUnfold ==
  ASSUME NEW B, Len(B) \in Nat, NEW chosen
  PROVE  /\ Graphs(B, chosen)[0] = InitialGraph
         /\ \A n \in 1..Len(B) : Graphs(B, chosen)[n] = Member(Graphs(B, chosen)[n - 1], B, n, chosen)
<1> DEFINE Unfolds(f, m) ==
      f = [n \in 0..m |-> IF n = 0 THEN InitialGraph ELSE Member(f[n - 1], B, n, chosen)]
           S == {m \in 0..Len(B) : \E f : Unfolds(f, m)}
<1>1. 0 \in S
  <2>1. Unfolds([n \in 0..0 |-> InitialGraph], 0)
    OBVIOUS
  <2>2. \E f : Unfolds(f, 0)
    BY <2>1, Zenon
  <2> HIDE DEF Unfolds
  <2> QED BY <2>2
<1>2. ASSUME NEW m \in 1..Len(B), m - 1 \in S PROVE m \in S
  <2>1. PICK f : Unfolds(f, m - 1)
    BY <1>2
  <2> DEFINE h == [n \in 0..m |-> IF n = m THEN Member(f[m - 1], B, m, chosen) ELSE f[n]]
  <2>2. ASSUME NEW n \in 0..m
        PROVE  h[n] = IF n = 0 THEN InitialGraph ELSE Member(h[n - 1], B, n, chosen)
    <3>1. CASE n = m
      BY <3>1
    <3>2. CASE n # m
      <4>1. n \in 0..(m - 1) /\ h[n] = f[n]
        BY <3>2
      <4>2. n # 0 => n - 1 \in 0..m /\ n - 1 # m /\ h[n - 1] = f[n - 1]
        BY <4>1
      <4>3. f[n] = IF n = 0 THEN InitialGraph ELSE Member(f[n - 1], B, n, chosen)
        BY <2>1, <4>1, Zenon
      <4> QED BY <4>1, <4>2, <4>3
    <3> QED BY <3>1, <3>2
  <2>3. Unfolds(h, m)
    BY <2>2, Zenon
  <2> HIDE DEF h, Unfolds
  <2> QED BY <2>3
<1>3. \E f : Unfolds(f, Len(B))
  <2>1. 0..Len(B) \subseteq S
    <3> HIDE DEF S
    <3> QED BY <1>1, <1>2, UpTo
  <2> QED BY <2>1
<1>4. Unfolds(Graphs(B, chosen), Len(B))
  BY <1>3, Zenon DEF Graphs
<1>5. ASSUME NEW f, Unfolds(f, Len(B)), NEW n \in 0..Len(B)
      PROVE  f[n] = IF n = 0 THEN InitialGraph ELSE Member(f[n - 1], B, n, chosen)
  BY <1>5, Zenon
<1> HIDE DEF Unfolds
<1>6. \A n \in 0..Len(B) :
        Graphs(B, chosen)[n] = IF n = 0 THEN InitialGraph
                               ELSE Member(Graphs(B, chosen)[n - 1], B, n, chosen)
  BY <1>4, <1>5
<1> QED BY <1>6

LEMMA OrderIsSequence == Len(Order) \in Nat /\ \A n \in 1..Len(Order) : Order[n] \in Uris
BY BatchesAssumption

\* The addresses chosen up to each place of the order.
LEMMA InOrderUnfold ==
  ASSUME NEW S
  PROVE  \E some : /\ InOrder(S) = some[Len(Order)]
                   /\ some[0] = <<>>
                   /\ \A n \in 1..Len(Order) : some[n] =
                        IF Order[n] \in S THEN Append(some[n - 1], Order[n]) ELSE some[n - 1]
<1> DEFINE Unfolds(f, m) ==
      f = [n \in 0..m |->
             IF n = 0 THEN <<>>
             ELSE IF Order[n] \in S THEN Append(f[n - 1], Order[n]) ELSE f[n - 1]]
           T == {m \in 0..Len(Order) : \E f : Unfolds(f, m)}
<1>0. Len(Order) \in Nat
  BY OrderIsSequence
<1>1. 0 \in T
  <2>1. Unfolds([n \in 0..0 |-> <<>>], 0)
    OBVIOUS
  <2>2. \E f : Unfolds(f, 0)
    BY <2>1, Zenon
  <2> HIDE DEF Unfolds
  <2> QED BY <1>0, <2>2
<1>2. ASSUME NEW m \in 1..Len(Order), m - 1 \in T PROVE m \in T
  <2>1. PICK f : Unfolds(f, m - 1)
    BY <1>2
  <2> DEFINE h == [n \in 0..m |->
        IF n = m THEN IF Order[m] \in S THEN Append(f[m - 1], Order[m]) ELSE f[m - 1]
        ELSE f[n]]
  <2>2. ASSUME NEW n \in 0..m
        PROVE  h[n] = IF n = 0 THEN <<>>
                      ELSE IF Order[n] \in S THEN Append(h[n - 1], Order[n]) ELSE h[n - 1]
    <3>1. CASE n = m
      BY <3>1
    <3>2. CASE n # m
      <4>1. n \in 0..(m - 1) /\ h[n] = f[n]
        BY <3>2
      <4>2. n # 0 => n - 1 \in 0..m /\ n - 1 # m /\ h[n - 1] = f[n - 1]
        BY <4>1
      <4>3. f[n] = IF n = 0 THEN <<>>
                   ELSE IF Order[n] \in S THEN Append(f[n - 1], Order[n]) ELSE f[n - 1]
        BY <2>1, <4>1, Zenon
      <4> QED BY <4>1, <4>2, <4>3
    <3> QED BY <3>1, <3>2
  <2>3. Unfolds(h, m)
    BY <2>2, Zenon
  <2> HIDE DEF h, Unfolds
  <2> QED BY <2>3
<1>3. \E f : Unfolds(f, Len(Order))
  <2>1. 0..Len(Order) \subseteq T
    <3> HIDE DEF T
    <3> QED BY <1>0, <1>1, <1>2, UpTo
  <2> QED BY <1>0, <2>1
<1> DEFINE some == CHOOSE f : Unfolds(f, Len(Order))
<1>4. Unfolds(some, Len(Order)) /\ InOrder(S) = some[Len(Order)]
  BY <1>3, Zenon DEF InOrder
<1>5. ASSUME NEW f, Unfolds(f, Len(Order)), NEW n \in 0..Len(Order)
      PROVE  f[n] = IF n = 0 THEN <<>>
                    ELSE IF Order[n] \in S THEN Append(f[n - 1], Order[n]) ELSE f[n - 1]
  BY <1>5, Zenon
<1> HIDE DEF Unfolds, some
<1>6. \A n \in 0..Len(Order) :
        some[n] = IF n = 0 THEN <<>>
                  ELSE IF Order[n] \in S THEN Append(some[n - 1], Order[n]) ELSE some[n - 1]
  BY <1>4, <1>5
<1> QED BY <1>0, <1>4, <1>6

\* They are all of them, as a sequence.
LEMMA InOrderIsAll ==
  ASSUME NEW S, S \subseteq Uris
  PROVE  /\ InOrder(S) \in Seq(Uris)
         /\ \A id : (\E m \in 1..Len(InOrder(S)) : InOrder(S)[m] = id) <=> id \in S
<1>1. PICK some : /\ InOrder(S) = some[Len(Order)]
                  /\ some[0] = <<>>
                  /\ \A n \in 1..Len(Order) : some[n] =
                       IF Order[n] \in S THEN Append(some[n - 1], Order[n]) ELSE some[n - 1]
  BY InOrderUnfold
<1> DEFINE Good(n) ==
      /\ some[n] \in Seq(Uris)
      /\ \A id : (\E m \in 1..Len(some[n]) : some[n][m] = id)
                   <=> (id \in S /\ \E j \in 1..n : Order[j] = id)
           T == {n \in 0..Len(Order) : Good(n)}
<1>2. Good(0)
  BY <1>1
<1>3. ASSUME NEW n \in 1..Len(Order), Good(n - 1) PROVE Good(n)
  <2> DEFINE before == some[n - 1]
  <2>1. before \in Seq(Uris) /\ Order[n] \in Uris
    BY <1>3, OrderIsSequence
  <2>2. \A id : (\E j \in 1..n : Order[j] = id) <=> (\E j \in 1..(n - 1) : Order[j] = id) \/ Order[n] = id
    OBVIOUS
  <2>3. CASE Order[n] \notin S
    <3>1. some[n] = before
      BY <1>1, <2>3
    <3>2. \A id : (id \in S /\ \E j \in 1..n : Order[j] = id)
                   <=> (id \in S /\ \E j \in 1..(n - 1) : Order[j] = id)
      BY <2>2, <2>3
    <3> HIDE DEF before
    <3> QED BY ONLY <1>3, <2>1, <3>1, <3>2 DEF before
  <2>4. CASE Order[n] \in S
    <3>1. some[n] = Append(before, Order[n])
      BY <1>1, <2>4
    <3>2. /\ some[n] \in Seq(Uris) /\ Len(some[n]) = Len(before) + 1 /\ Len(before) \in Nat
          /\ \A m \in 1..Len(before) : some[n][m] = before[m]
          /\ some[n][Len(before) + 1] = Order[n]
      BY <2>1, <3>1
    <3>3. \A id : (\E m \in 1..Len(some[n]) : some[n][m] = id)
                    <=> (\E m \in 1..Len(before) : before[m] = id) \/ Order[n] = id
      <4>1. 1..Len(some[n]) = 1..Len(before) \cup {Len(before) + 1}
        BY <3>2
      <4> HIDE DEF before
      <4> QED BY <3>2, <4>1, Zenon
    <3>4. \A id : (\E m \in 1..Len(before) : before[m] = id)
                    <=> (id \in S /\ \E j \in 1..(n - 1) : Order[j] = id)
      BY <1>3
    <3>5. \A id : (\E m \in 1..Len(some[n]) : some[n][m] = id)
                    <=> (id \in S /\ \E j \in 1..n : Order[j] = id)
      BY ONLY <2>2, <2>4, <3>3, <3>4
    <3> QED BY <3>2, <3>5
  <2> QED BY <2>3, <2>4
<1>4. 0..Len(Order) \subseteq T
  <2> HIDE DEF Good
  <2>1. 0 \in T /\ \A n \in 1..Len(Order) : n - 1 \in T => n \in T
    BY <1>2, <1>3, OrderIsSequence
  <2> HIDE DEF T
  <2> QED BY <2>1, OrderIsSequence, UpTo
<1>5. Good(Len(Order))
  <2> HIDE DEF Good
  <2> QED BY <1>4, OrderIsSequence
<1>6. \A id \in S : \E j \in 1..Len(Order) : Order[j] = id
  BY BatchesAssumption
<1> QED BY <1>1, <1>5, <1>6

\* The place of an address in the order.
LEMMA PlaceIsUnique ==
  /\ \A n \in 1..Len(Order) : Place(Order[n]) = n
  /\ \A id \in Uris : Place(id) \in 1..Len(Order) /\ Order[Place(id)] = id
<1>1. ASSUME NEW id, NEW n \in 1..Len(Order), Order[n] = id
      PROVE  Place(id) \in 1..Len(Order) /\ Order[Place(id)] = id
  BY <1>1 DEF Place
<1>2. \A m, n \in 1..Len(Order) : m # n => Order[m] # Order[n]
  BY BatchesAssumption
<1>3. \A n \in 1..Len(Order) : Place(Order[n]) = n
  BY <1>1, <1>2
<1>4. \A id \in Uris : \E n \in 1..Len(Order) : Order[n] = id
  BY BatchesAssumption
<1> QED BY <1>1, <1>3, <1>4

\* They come in their order, each once.
LEMMA InOrderSorted ==
  ASSUME NEW S, S \subseteq Uris
  PROVE  \A l, m \in 1..Len(InOrder(S)) : l < m => Place(InOrder(S)[l]) < Place(InOrder(S)[m])
<1>1. PICK some : /\ InOrder(S) = some[Len(Order)]
                  /\ some[0] = <<>>
                  /\ \A n \in 1..Len(Order) : some[n] =
                       IF Order[n] \in S THEN Append(some[n - 1], Order[n]) ELSE some[n - 1]
  BY InOrderUnfold
<1> DEFINE Good(n) ==
      /\ some[n] \in Seq(Uris)
      /\ \A m \in 1..Len(some[n]) : Place(some[n][m]) <= n
      /\ \A l, m \in 1..Len(some[n]) : l < m => Place(some[n][l]) < Place(some[n][m])
           T == {n \in 0..Len(Order) : Good(n)}
<1>2. Good(0)
  BY <1>1
<1>3. ASSUME NEW n \in 1..Len(Order), Good(n - 1) PROVE Good(n)
  <2>1. PICK before : before = some[n - 1]
    OBVIOUS
  <2>2. /\ before \in Seq(Uris)
        /\ \A m \in 1..Len(before) : Place(before[m]) <= n - 1
        /\ \A l, m \in 1..Len(before) : l < m => Place(before[l]) < Place(before[m])
    BY <1>3, <2>1
  <2>3. Order[n] \in Uris /\ Place(Order[n]) = n
    BY OrderIsSequence, PlaceIsUnique
  <2>4. \A m \in 1..Len(before) : Place(before[m]) \in Nat
    BY <2>2, PlaceIsUnique
  <2>5. CASE Order[n] \notin S
    <3>1. some[n] = before
      BY <1>1, <2>1, <2>5
    <3> QED BY <2>2, <2>4, <3>1
  <2>6. CASE Order[n] \in S
    <3>1. some[n] = Append(before, Order[n])
      BY <1>1, <2>1, <2>6
    <3>2. /\ some[n] \in Seq(Uris) /\ Len(some[n]) = Len(before) + 1 /\ Len(before) \in Nat
          /\ \A m \in 1..Len(before) : some[n][m] = before[m]
          /\ some[n][Len(before) + 1] = Order[n]
      BY <2>2, <2>3, <3>1
    <3>3. \A m \in 1..Len(some[n]) : m \in 1..Len(before) \/ m = Len(before) + 1
      BY <3>2
    <3>4. \A m \in 1..Len(some[n]) : Place(some[n][m]) <= n
      BY <2>2, <2>3, <2>4, <3>2, <3>3
    <3>5. ASSUME NEW l \in 1..Len(some[n]), NEW m \in 1..Len(some[n]), l < m
          PROVE  Place(some[n][l]) < Place(some[n][m])
      <4>1. l \in 1..Len(before) /\ some[n][l] = before[l]
        BY <3>2, <3>5
      <4>2. CASE m \in 1..Len(before)
        BY <2>2, <3>2, <3>5, <4>1, <4>2
      <4>3. CASE m = Len(before) + 1
        BY <2>2, <2>3, <2>4, <3>2, <4>1, <4>3
      <4> QED BY <3>3, <4>2, <4>3
    <3> QED BY <3>2, <3>4, <3>5
  <2> QED BY <2>5, <2>6
<1>4. 0..Len(Order) \subseteq T
  <2> HIDE DEF Good
  <2>1. 0 \in T /\ \A n \in 1..Len(Order) : n - 1 \in T => n \in T
    BY <1>2, <1>3, OrderIsSequence
  <2> HIDE DEF T
  <2> QED BY <2>1, OrderIsSequence, UpTo
<1>5. Good(Len(Order))
  <2> HIDE DEF Good
  <2> QED BY <1>4, OrderIsSequence
<1> QED BY <1>1, <1>5

LEMMA InOrderOnce ==
  ASSUME NEW S, S \subseteq Uris
  PROVE  \A l, m \in 1..Len(InOrder(S)) : InOrder(S)[l] = InOrder(S)[m] => l = m
<1>1. PICK s : s = InOrder(S)
  OBVIOUS
<1>2. s \in Seq(Uris) /\ \A l, m \in 1..Len(s) : l < m => Place(s[l]) < Place(s[m])
  BY <1>1, InOrderIsAll, InOrderSorted
<1>3. \A m \in 1..Len(s) : Place(s[m]) \in Nat
  BY <1>2, PlaceIsUnique
<1>4. \A l, m \in 1..Len(s) : s[l] = s[m] => l = m
  BY <1>2, <1>3
<1> QED BY <1>1, <1>4
-----------------------------------------------------------------------------
(* The working graph after some members, when none was refused. *)

MemberKind(B, n) == KindOf(B[n].request.op)

WellJoined(live) ==
  \A id \in DOMAIN live : live[id].kind = "link" =>
    /\ LocalEndpoints(live[id].body) # {}
    /\ \A uri \in LocalEndpoints(live[id].body) : uri \in DOMAIN live /\ live[uri].kind = "bead"

\* The Resources a member may name and what it may create.
Scoped(g) ==
  /\ g.allocated \subseteq Uris \ (DOMAIN identities \cup DOMAIN aliases \cup Reserved)
  /\ DOMAIN g.live \cup TouchedIds(g) \subseteq DOMAIN identities \cup g.allocated
  /\ g.allocated \subseteq TouchedIds(g)

\* A Resource has one kind, that of every member that touched it.
KindsAgree(g, B) ==
  /\ \A m, n \in 1..Len(g.ids) : g.ids[m] = g.ids[n] => MemberKind(B, m) = MemberKind(B, n)
  /\ \A id \in DOMAIN g.live :
       /\ g.live[id].kind \in Kinds
       /\ id \in DOMAIN identities => g.live[id].kind = identities[id]
       /\ \A n \in 1..Len(g.ids) : g.ids[n] = id => MemberKind(B, n) = g.live[id].kind

Untouched(g) ==
  \A id \in DOMAIN g.live \ TouchedIds(g) : id \in DOMAIN resources /\ g.live[id].body = resources[id]

\* A body has its four fields.
IsBody(body) == body = Body(body.revision, body.data, body.source, body.target)

BodiesOf(g) == \A id \in DOMAIN g.live : IsBody(g.live[id].body)

Guarded(g, B) == \A n \in 1..Len(g.ids) : GuardHolds(g, B[n].request, g.ids[n])

GraphInv(g, B, n) ==
  /\ g.ids \in Seq(Uris) /\ Len(g.ids) = n
  /\ Scoped(g) /\ KindsAgree(g, B) /\ Untouched(g) /\ Guarded(g, B) /\ WellJoined(g.live)
  /\ BodiesOf(g)

\* What an accepted member does.
Creation(g, h, B, n, id, body) ==
  /\ id \notin g.allocated \cup DOMAIN identities \cup Reserved \cup DOMAIN aliases
  /\ B[n].request.expected = 0
  /\ EndpointCode(g, MemberKind(B, n), body) = "none"
  /\ h.live = Put(g.live, id, [kind |-> MemberKind(B, n), body |-> body])
  /\ h.allocated = g.allocated \cup {id}

Change(g, h, B, n, id, body) ==
  /\ id \in DOMAIN g.live /\ g.live[id].kind = MemberKind(B, n)
  /\ GuardHolds(g, B[n].request, id)
  /\ h.allocated = g.allocated
  /\ \/ /\ EndpointCode(g, MemberKind(B, n), body) = "none"
        /\ h.live = Put(g.live, id, [kind |-> MemberKind(B, n), body |-> body])
     \/ /\ MemberKind(B, n) = "bead" => Incidents(g, id) = {}
        /\ h.live = Drop(g.live, id)

AcceptedMember(g, h, B, n) ==
  \E id \in Uris : \E body :
    /\ h.ids = Append(g.ids, id) /\ IsBody(body)
    /\ Creation(g, h, B, n, id, body) \/ Change(g, h, B, n, id, body)

LEMMA MemberRequest ==
  ASSUME NEW B \in Batches, NEW n \in 1..Len(B)
  PROVE  /\ B[n].request \in Invocation
         /\ Creates(B, n) => B[n].request.expected = 0
         /\ MemberKind(B, n) \in Kinds
         /\ VerbOf(B[n].request.op) \in {"create", "update", "delete"}
BY BatchesAssumption DEF MemberKind, KindOf, VerbOf, Kinds

LEMMA DrawnIsUri ==
  ASSUME NEW B \in Batches, NEW n \in 1..Len(B), NEW chosen \in Drawn(B),
         Creates(B, n), B[n].request.id = None, chosen[n] # None
  PROVE  chosen[n] \in Uris
<1> DEFINE nameless == {m \in 1..Len(B) : Creates(B, m) /\ B[m].request.id = None}
           free == Unused \ Explicit(B, Len(B) + 1)
<1>1. chosen \in [nameless -> free \cup {None}]
  BY Zenon DEF Drawn
<1>2. n \in nameless
  OBVIOUS
<1>3. free \subseteq Uris
  BY DEF Unused
<1> HIDE DEF nameless, free
<1> QED BY <1>1, <1>2, <1>3

LEMMA StagedIsBody ==
  \A g, B, n, body, data : IsBody(Staged(g, B, n, body, data))
<1>1. \A r, d, s, e : IsBody(Body(r, d, s, e))
  BY DEF IsBody, Body
<1> QED BY <1>1, Zenon DEF Staged

LEMMA StagedKeeps ==
  \A g, B, n, body, data : Staged(g, B, n, body, data).revision = body.revision
BY DEF Staged, Body

LEMMA MemberAccepted ==
  ASSUME Placed, NEW B \in Batches, NEW n \in 1..Len(B), NEW chosen \in Drawn(B), NEW g,
         Scoped(g), Member(g, B, n, chosen).code = "none"
  PROVE  g.code = "none" /\ AcceptedMember(g, Member(g, B, n, chosen), B, n)
<1> DEFINE i == B[n].request
           h == Member(g, B, n, chosen)
           drawn == Creates(B, n) /\ i.id = None
           id == IF drawn THEN chosen[n] ELSE IF Creates(B, n) THEN i.id
                 ELSE Reference(g, B, n, "id").uri
           fresh == Staged(g, B, n, Body(0, None, None, None), i.data)
           old == g.live[id].body
           staged == Staged(g, B, n, old, Edit[i.data][old.data])
           kind == MemberKind(B, n)
           code == IF i.refused THEN "validation-failed"
                   ELSE IF drawn /\ id = None THEN "temporarily-unavailable"
                   ELSE IF Creates(B, n) THEN CreateCode(g, B, n, id, fresh)
                   ELSE ChangeCode(g, B, n, kind)
           live == CASE VerbOf(i.op) = "create" -> Put(g.live, id, [kind |-> kind, body |-> fresh])
                     [] VerbOf(i.op) = "delete" -> Drop(g.live, id)
                     [] OTHER -> Put(g.live, id, [kind |-> kind, body |-> staged])
           after == [live |-> live, ids |-> Append(g.ids, id), code |-> "none",
                     allocated |-> g.allocated \cup IF Creates(B, n) THEN {id} ELSE {}]
<1>1. h = IF g.code # "none" THEN g
          ELSE IF code # "none" THEN [g EXCEPT !.code = code] ELSE after
  BY Zenon DEF Member, MemberKind
<1>2. g.code = "none" /\ code = "none" /\ h = after
  <2> HIDE DEF code, after
  <2> QED BY <1>1
<1>3. h.live = live /\ h.ids = Append(g.ids, id)
        /\ h.allocated = g.allocated \cup IF Creates(B, n) THEN {id} ELSE {}
  <2> HIDE DEF live, id, h
  <2> QED BY <1>2
<1>4. i \in Invocation /\ (Creates(B, n) => i.expected = 0)
        /\ VerbOf(i.op) \in {"create", "update", "delete"}
  BY MemberRequest, SMTT(30)
<1> HIDE DEF h
<1>b. IsBody(fresh) /\ IsBody(staged)
  BY StagedIsBody
<1>5. ASSUME Creates(B, n) PROVE AcceptedMember(g, h, B, n)
  <2>1. CreateCode(g, B, n, id, fresh) = "none" /\ (drawn => id # None)
    BY <1>2, <1>5, Zenon
  <2>2. id \in Uris
    <3>1. CASE drawn
      BY <2>1, <3>1, <1>5, DrawnIsUri
    <3>2. CASE ~drawn
      BY <1>4, <1>5, <3>2 DEF Invocation
    <3> QED BY <3>1, <3>2
  <2>3. h.live = Put(g.live, id, [kind |-> kind, body |-> fresh])
    BY <1>3, <1>5, Zenon DEF Creates
  <2>4. h.allocated = g.allocated \cup {id}
    BY <1>3, <1>5, Zenon
  <2> HIDE DEF id, fresh, kind
  <2>5. id \notin g.allocated \cup DOMAIN identities \cup Reserved \cup DOMAIN aliases
          /\ EndpointCode(g, kind, fresh) = "none"
    BY <2>1 DEF CreateCode, kind, MemberKind
  <2>6. Creation(g, h, B, n, id, fresh)
    BY <1>4, <1>5, <2>3, <2>4, <2>5 DEF Creation, kind
  <2> QED BY <1>b, <1>2, <1>3, <2>2, <2>6, Zenon DEF AcceptedMember
<1>6. ASSUME ~Creates(B, n) PROVE AcceptedMember(g, h, B, n)
  <2>1. ChangeCode(g, B, n, kind) = "none" /\ id = Reference(g, B, n, "id").uri
    BY <1>2, <1>6
  <2>2. /\ id \in DOMAIN g.live /\ g.live[id].kind = kind /\ GuardHolds(g, i, id)
        /\ VerbOf(i.op) = "delete" => (kind = "bead" => Incidents(g, id) = {})
        /\ VerbOf(i.op) # "delete" => EndpointCode(g, kind, staged) = "none"
    BY <2>1, Zenon DEF ChangeCode
  <2>3. id \in Uris
    BY <2>2, ZenonT(30) DEF Scoped, Placed
  <2>4. h.allocated = g.allocated
    BY <1>3, <1>6
  <2>5. VerbOf(i.op) = "delete" => h.live = Drop(g.live, id)
    BY <1>3, SMTT(30)
  <2>6. VerbOf(i.op) # "delete" => h.live = Put(g.live, id, [kind |-> kind, body |-> staged])
    BY <1>3, <1>4, <1>6 DEF Creates
  <2> HIDE DEF id, staged
  <2>7. Change(g, h, B, n, id, staged)
    BY <2>2, <2>4, <2>5, <2>6 DEF Change
  <2> QED BY <1>b, <1>2, <1>3, <2>3, <2>7, Zenon DEF AcceptedMember
<1> QED BY <1>2, <1>5, <1>6, Zenon DEF h
-----------------------------------------------------------------------------
(* What an accepted member preserves. *)

LEMMA TouchedIsNamed ==
  ASSUME NEW g
  PROVE  \A x : x \in TouchedIds(g) <=> \E m \in 1..Len(g.ids) : g.ids[m] = x
BY Zenon DEF TouchedIds

LEMMA IdsAfter ==
  ASSUME NEW g, NEW h, NEW id \in Uris, NEW n \in Nat \ {0},
         g.ids \in Seq(Uris), Len(g.ids) = n - 1, h.ids = Append(g.ids, id)
  PROVE  /\ h.ids \in Seq(Uris) /\ Len(h.ids) = n
         /\ h.ids[n] = id
         /\ \A m \in 1..(n - 1) : h.ids[m] = g.ids[m]
         /\ TouchedIds(h) = TouchedIds(g) \cup {id}
<1>1. /\ h.ids \in Seq(Uris) /\ Len(h.ids) = n
      /\ h.ids[n] = id
      /\ \A m \in 1..(n - 1) : h.ids[m] = g.ids[m]
  OBVIOUS
<1>2. \A m : m \in 1..n <=> m \in 1..(n - 1) \/ m = n
  OBVIOUS
<1>3. TouchedIds(h) = TouchedIds(g) \cup {id}
  <2>1. \A x : x \in TouchedIds(h) <=> x \in TouchedIds(g) \/ x = id
    <3> TAKE x
    <3>1. x \in TouchedIds(h) <=> \E m : m \in 1..n /\ h.ids[m] = x
      BY <1>1, TouchedIsNamed
    <3>2. x \in TouchedIds(g) <=> \E m : m \in 1..(n - 1) /\ g.ids[m] = x
      BY TouchedIsNamed
    <3>3. (\E m : m \in 1..n /\ h.ids[m] = x)
            <=> (\E m : m \in 1..(n - 1) /\ h.ids[m] = x) \/ h.ids[n] = x
      BY ONLY <1>2, Zenon
    <3>4. \A m : m \in 1..(n - 1) => h.ids[m] = g.ids[m]
      BY <1>1
    <3> QED BY <1>1, <3>1, <3>2, <3>3, <3>4, Zenon
  <2> QED BY <2>1
<1> QED BY <1>1, <1>3

\* What it leaves of the live Resources: one more or another one, or one less.
Stays(g, h, id, kind, body) ==
  /\ DOMAIN h.live = DOMAIN g.live \cup {id}
  /\ h.live[id].kind = kind /\ h.live[id].body = body
  /\ \A x \in DOMAIN g.live : x # id => h.live[x] = g.live[x]

Leaves(g, h, id) ==
  /\ DOMAIN h.live = DOMAIN g.live \ {id}
  /\ \A x \in DOMAIN g.live : x # id => h.live[x] = g.live[x]

LEMMA LiveAfter ==
  ASSUME NEW g, NEW h, NEW B, NEW n, NEW id, NEW body
  PROVE  /\ Creation(g, h, B, n, id, body) => Stays(g, h, id, MemberKind(B, n), body)
         /\ Change(g, h, B, n, id, body) =>
              \/ /\ Stays(g, h, id, MemberKind(B, n), body)
                 /\ EndpointCode(g, MemberKind(B, n), body) = "none"
              \/ /\ Leaves(g, h, id)
                 /\ MemberKind(B, n) = "bead" => Incidents(g, id) = {}
<1> DEFINE kind == MemberKind(B, n)
           row == [kind |-> kind, body |-> body]
<1>0. row.kind = kind /\ row.body = body
  OBVIOUS
<1> HIDE DEF row
<1>1. ASSUME h.live = Put(g.live, id, row) PROVE Stays(g, h, id, kind, body)
  <2>1. DOMAIN h.live = DOMAIN g.live \cup {id}
    BY <1>1 DEF Put
  <2>2. \A x \in DOMAIN g.live \cup {id} : h.live[x] = IF x = id THEN row ELSE g.live[x]
    BY <1>1 DEF Put
  <2>3. h.live[id] = row
    BY <2>2
  <2> QED BY <1>0, <2>1, <2>2, <2>3 DEF Stays
<1>2. ASSUME h.live = Drop(g.live, id) PROVE Leaves(g, h, id)
  <2>1. DOMAIN h.live = DOMAIN g.live \ {id}
    BY <1>2 DEF Drop
  <2>2. \A x \in DOMAIN g.live \ {id} : h.live[x] = g.live[x]
    BY <1>2 DEF Drop
  <2> QED BY <2>1, <2>2 DEF Leaves
<1>3. Creation(g, h, B, n, id, body) => Stays(g, h, id, kind, body)
  BY <1>1 DEF Creation, row
<1>4. Change(g, h, B, n, id, body) =>
        \/ Stays(g, h, id, kind, body) /\ EndpointCode(g, kind, body) = "none"
        \/ Leaves(g, h, id) /\ (kind = "bead" => Incidents(g, id) = {})
  BY <1>1, <1>2 DEF Change, row
<1> QED BY <1>3, <1>4

LEMMA ScopedAfter ==
  ASSUME NEW g, NEW h, NEW B, NEW n \in Nat \ {0}, NEW id \in Uris, NEW body,
         Scoped(g), TouchedIds(h) = TouchedIds(g) \cup {id},
         Creation(g, h, B, n, id, body) \/ Change(g, h, B, n, id, body)
  PROVE  Scoped(h)
<1>1. CASE Creation(g, h, B, n, id, body)
  <2>1. DOMAIN h.live = DOMAIN g.live \cup {id}
    BY <1>1, LiveAfter DEF Stays
  <2>2. h.allocated = g.allocated \cup {id}
          /\ id \notin g.allocated \cup DOMAIN identities \cup Reserved \cup DOMAIN aliases
    BY <1>1 DEF Creation
  <2> QED BY <2>1, <2>2 DEF Scoped
<1>2. CASE Change(g, h, B, n, id, body)
  <2>1. DOMAIN h.live \subseteq DOMAIN g.live /\ id \in DOMAIN g.live
    BY <1>2, LiveAfter DEF Change, Stays, Leaves
  <2>2. h.allocated = g.allocated
    BY <1>2 DEF Change
  <2> QED BY <2>1, <2>2 DEF Scoped
<1> QED BY <1>1, <1>2

LEMMA KindsAfter ==
  ASSUME NEW g, NEW h, NEW B \in Batches, NEW n \in 1..Len(B), NEW id \in Uris, NEW body,
         Scoped(g), KindsAgree(g, B), Len(g.ids) = n - 1, Len(h.ids) = n, h.ids[n] = id,
         \A m \in 1..(n - 1) : h.ids[m] = g.ids[m],
         Creation(g, h, B, n, id, body) \/ Change(g, h, B, n, id, body)
  PROVE  KindsAgree(h, B)
<1> DEFINE kind == MemberKind(B, n)
<1>1. kind \in Kinds
  BY MemberRequest
<1>2. \A m \in 1..(n - 1) : g.ids[m] = id => MemberKind(B, m) = kind
  <2>1. CASE Creation(g, h, B, n, id, body)
    <3>1. id \notin TouchedIds(g)
      BY <2>1 DEF Creation, Scoped
    <3> QED BY <3>1 DEF TouchedIds
  <2>2. CASE Change(g, h, B, n, id, body)
    BY <2>2 DEF Change, KindsAgree
  <2> QED BY <2>1, <2>2
<1>3. \A x \in DOMAIN h.live :
        \/ x # id /\ x \in DOMAIN g.live /\ h.live[x] = g.live[x]
        \/ x = id /\ h.live[x].kind = kind
  BY LiveAfter DEF Stays, Leaves
<1>4. id \in DOMAIN identities => kind = identities[id]
  BY DEF Creation, Change, KindsAgree
<1> HIDE DEF kind
<1>5. \A l, m \in 1..Len(h.ids) : h.ids[l] = h.ids[m] => MemberKind(B, l) = MemberKind(B, m)
  <2> TAKE l, m \in 1..Len(h.ids)
  <2> HAVE h.ids[l] = h.ids[m]
  <2>1. CASE l = n /\ m = n
    BY <2>1
  <2>2. CASE l = n /\ m # n
    <3>1. m \in 1..(n - 1) /\ g.ids[m] = id
      BY <2>2
    <3>2. MemberKind(B, m) = kind
      BY <1>2, <3>1
    <3> QED BY <2>2, <3>2 DEF kind
  <2>3. CASE l # n /\ m = n
    <3>1. l \in 1..(n - 1) /\ g.ids[l] = id
      BY <2>3
    <3>2. MemberKind(B, l) = kind
      BY <1>2, <3>1
    <3> QED BY <2>3, <3>2 DEF kind
  <2>4. CASE l # n /\ m # n
    <3>1. l \in 1..(n - 1) /\ m \in 1..(n - 1)
      BY <2>4
    <3> QED BY <3>1 DEF KindsAgree
  <2> QED BY <2>1, <2>2, <2>3, <2>4
<1>6. ASSUME NEW x \in DOMAIN h.live
      PROVE  /\ h.live[x].kind \in Kinds
             /\ x \in DOMAIN identities => h.live[x].kind = identities[x]
             /\ \A m \in 1..Len(h.ids) : h.ids[m] = x => MemberKind(B, m) = h.live[x].kind
  <2>1. CASE x = id
    <3>1. h.live[x].kind = kind
      BY <1>3, <2>1
    <3>2. ASSUME NEW m \in 1..Len(h.ids), h.ids[m] = x PROVE MemberKind(B, m) = kind
      <4>1. m \in 1..(n - 1) \/ m = n
        OBVIOUS
      <4> QED BY <1>2, <2>1, <3>2, <4>1 DEF kind
    <3> QED BY <1>1, <1>4, <2>1, <3>1, <3>2 DEF kind
  <2>2. CASE x # id
    <3>1. x \in DOMAIN g.live /\ h.live[x] = g.live[x]
      BY <1>3, <2>2
    <3>2. ASSUME NEW m \in 1..Len(h.ids), h.ids[m] = x PROVE MemberKind(B, m) = g.live[x].kind
      <4>1. m \in 1..(n - 1) /\ g.ids[m] = x
        BY <2>2, <3>2
      <4> QED BY <3>1, <4>1 DEF KindsAgree
    <3> QED BY <3>1, <3>2 DEF KindsAgree
  <2> QED BY <2>1, <2>2
<1> QED BY <1>5, <1>6 DEF KindsAgree

LEMMA AdmittedMember ==
  ASSUME NEW g, NEW body, EndpointCode(g, "link", body) = "none"
  PROVE  /\ LocalEndpoints(body) # {}
         /\ \A uri \in LocalEndpoints(body) : uri \in DOMAIN g.live /\ g.live[uri].kind = "bead"
BY DEF EndpointCode

LEMMA JoinedAfter ==
  ASSUME NEW g, NEW h, NEW B, NEW n, NEW id, NEW body, Scoped(g), WellJoined(g.live),
         MemberKind(B, n) \in Kinds,
         Creation(g, h, B, n, id, body) \/ Change(g, h, B, n, id, body)
  PROVE  WellJoined(h.live)
<1> DEFINE kind == MemberKind(B, n)
           joined(x) == /\ LocalEndpoints(h.live[x].body) # {}
                        /\ \A uri \in LocalEndpoints(h.live[x].body) :
                             uri \in DOMAIN h.live /\ h.live[uri].kind = "bead"
<1>0. ASSUME NEW x \in DOMAIN g.live, g.live[x].kind = "link"
      PROVE  /\ LocalEndpoints(g.live[x].body) # {}
             /\ \A uri \in LocalEndpoints(g.live[x].body) :
                  uri \in DOMAIN g.live /\ g.live[uri].kind = "bead"
  BY <1>0 DEF WellJoined
<1>1. ASSUME EndpointCode(g, kind, body) = "none", Stays(g, h, id, kind, body),
             id \in DOMAIN g.live => g.live[id].kind = kind
      PROVE  WellJoined(h.live)
  <2>1. \A x \in DOMAIN g.live : x \in DOMAIN h.live /\ h.live[x].kind = g.live[x].kind
    BY <1>1 DEF Stays
  <2>2. ASSUME NEW x \in DOMAIN h.live, h.live[x].kind = "link" PROVE joined(x)
    <3>1. CASE x = id
      <4>1. kind = "link" /\ h.live[x].body = body
        BY <1>1, <2>2, <3>1 DEF Stays
      <4> QED BY <1>1, <2>1, <4>1, AdmittedMember
    <3>2. CASE x # id
      <4>1. x \in DOMAIN g.live /\ h.live[x] = g.live[x]
        BY <1>1, <3>2 DEF Stays
      <4> QED BY <1>0, <2>1, <2>2, <4>1
    <3> QED BY <3>1, <3>2
  <2> QED BY <2>2 DEF WellJoined
<1>2. ASSUME id \in DOMAIN g.live, g.live[id].kind = kind,
             kind = "bead" => Incidents(g, id) = {}, Leaves(g, h, id)
      PROVE  WellJoined(h.live)
  <2>1. ASSUME NEW x \in DOMAIN h.live, h.live[x].kind = "link" PROVE joined(x)
    <3>1. x \in DOMAIN g.live /\ h.live[x] = g.live[x] /\ g.live[x].kind = "link"
      BY <1>2, <2>1 DEF Leaves
    <3>2. ASSUME NEW uri \in LocalEndpoints(g.live[x].body) PROVE uri # id
      <4>1. uri \in {g.live[x].body.source, g.live[x].body.target}
        BY DEF LocalEndpoints
      <4>2. g.live[uri].kind = "bead"
        BY <1>0, <3>1
      <4>3. uri = id => x \in Incidents(g, id)
        BY <3>1, <4>1 DEF Incidents
      <4> QED BY <1>2, <4>2, <4>3
    <3> QED BY <1>0, <1>2, <3>1, <3>2 DEF Leaves
  <2> QED BY <2>1 DEF WellJoined
<1>3. ASSUME Creation(g, h, B, n, id, body) PROVE WellJoined(h.live)
  <2>1. id \notin DOMAIN g.live /\ EndpointCode(g, kind, body) = "none"
    BY <1>3 DEF Creation, Scoped
  <2> QED BY <1>1, <1>3, <2>1, LiveAfter
<1>4. ASSUME Change(g, h, B, n, id, body) PROVE WellJoined(h.live)
  <2>1. id \in DOMAIN g.live /\ g.live[id].kind = kind
    BY <1>4 DEF Change
  <2> QED BY <1>1, <1>2, <1>4, <2>1, LiveAfter
<1> QED BY <1>3, <1>4

Bodies == \A id \in DOMAIN resources : IsBody(resources[id])

LEMMA GraphStep ==
  ASSUME NEW B \in Batches, NEW n \in 1..Len(B), NEW g, NEW h,
         GraphInv(g, B, n - 1), AcceptedMember(g, h, B, n)
  PROVE  GraphInv(h, B, n)
<1>0. n \in Nat \ {0}
  OBVIOUS
<1>a. PICK id \in Uris : \E body :
        /\ h.ids = Append(g.ids, id) /\ IsBody(body)
        /\ Creation(g, h, B, n, id, body) \/ Change(g, h, B, n, id, body)
  BY Zenon DEF AcceptedMember
<1>1. PICK body :
        /\ h.ids = Append(g.ids, id) /\ IsBody(body)
        /\ Creation(g, h, B, n, id, body) \/ Change(g, h, B, n, id, body)
  BY <1>a, Zenon
<1>2. g.ids \in Seq(Uris) /\ Len(g.ids) = n - 1 /\ Scoped(g) /\ KindsAgree(g, B)
        /\ Untouched(g) /\ Guarded(g, B) /\ WellJoined(g.live) /\ BodiesOf(g)
  BY DEF GraphInv
<1>3. /\ h.ids \in Seq(Uris) /\ Len(h.ids) = n /\ h.ids[n] = id
      /\ \A m \in 1..(n - 1) : h.ids[m] = g.ids[m]
      /\ TouchedIds(h) = TouchedIds(g) \cup {id}
  <2>1. id \in Uris
    BY <1>a
  <2>2. h.ids = Append(g.ids, id) /\ g.ids \in Seq(Uris) /\ Len(g.ids) = n - 1
    BY <1>1, <1>2
  <2> QED BY ONLY <1>0, <2>1, <2>2, IdsAfter
<1>4. Scoped(h)
  BY <1>a, <1>0, <1>1, <1>2, <1>3, ScopedAfter
<1>5. KindsAgree(h, B)
  BY <1>a, <1>1, <1>2, <1>3, KindsAfter
<1>6. Untouched(h)
  <2>1. \A x \in DOMAIN h.live : x # id => x \in DOMAIN g.live /\ h.live[x] = g.live[x]
    BY <1>1, LiveAfter DEF Stays, Leaves
  <2> QED BY <1>2, <1>3, <2>1 DEF Untouched
<1>7. Guarded(h, B)
  <2>1. GuardHolds(h, B[n].request, id)
    BY <1>1 DEF Creation, Change, GuardHolds
  <2>2. ASSUME NEW m \in 1..(n - 1) PROVE GuardHolds(h, B[m].request, h.ids[m])
    BY <1>2, <1>3 DEF Guarded, GuardHolds
  <2>3. \A m \in 1..n : m = n \/ m \in 1..(n - 1)
    OBVIOUS
  <2> QED BY <1>3, <2>1, <2>2, <2>3 DEF Guarded
<1>8. WellJoined(h.live)
  BY <1>1, <1>2, MemberRequest, JoinedAfter
<1>9. BodiesOf(h)
  <2>1. \A x \in DOMAIN h.live :
          (x \in DOMAIN g.live /\ h.live[x] = g.live[x]) \/ h.live[x].body = body
    BY <1>1, LiveAfter DEF Stays, Leaves
  <2> QED BY <1>1, <1>2, <2>1 DEF BodiesOf
<1> QED BY <1>3, <1>4, <1>5, <1>6, <1>7, <1>8, <1>9 DEF GraphInv

LEMMA FirstGraph ==
  ASSUME Placed, LinkEndpointsLive, Bodies, NEW B
  PROVE  GraphInv(InitialGraph, B, 0)
<1> DEFINE g == InitialGraph
<1>1. /\ g.ids = <<>> /\ g.allocated = {}
      /\ g.live = [id \in DOMAIN resources |-> [kind |-> identities[id], body |-> resources[id]]]
  BY DEF InitialGraph
<1> HIDE DEF g
<1>2. g.ids \in Seq(Uris) /\ Len(g.ids) = 0 /\ TouchedIds(g) = {}
  BY <1>1 DEF TouchedIds
<1>3. /\ DOMAIN g.live = DOMAIN resources
      /\ \A id \in DOMAIN resources :
           g.live[id].kind = identities[id] /\ g.live[id].body = resources[id]
  BY <1>1
<1>4. Scoped(g)
  BY <1>1, <1>2, <1>3 DEF Scoped, Placed
<1>5. KindsAgree(g, B) /\ Untouched(g) /\ Guarded(g, B)
  BY <1>2, <1>3 DEF KindsAgree, Untouched, Guarded, Placed
<1>6. WellJoined(g.live)
  <2>1. ASSUME NEW id \in DOMAIN g.live, g.live[id].kind = "link"
        PROVE  /\ LocalEndpoints(g.live[id].body) # {}
               /\ \A uri \in LocalEndpoints(g.live[id].body) :
                    uri \in DOMAIN g.live /\ g.live[uri].kind = "bead"
    BY <1>3, <2>1 DEF LinkEndpointsLive, IsLive
  <2> QED BY <2>1 DEF WellJoined
<1>7. BodiesOf(g)
  BY <1>3 DEF BodiesOf, Bodies
<1> QED BY <1>2, <1>4, <1>5, <1>6, <1>7 DEF GraphInv, g

LEMMA RefusalStays ==
  ASSUME NEW g, NEW B, NEW n, NEW chosen, Member(g, B, n, chosen).code = "none"
  PROVE  g.code = "none"
<1>1. g.code # "none" => Member(g, B, n, chosen) = g
  BY Zenon DEF Member
<1> QED BY <1>1

\* When no member is refused, the working graph is sound.
LEMMA WorkingGraphSound ==
  ASSUME Placed, LinkEndpointsLive, Bodies, NEW B \in Batches, NEW chosen \in Drawn(B),
         WorkingGraph(B, chosen).code = "none"
  PROVE  GraphInv(WorkingGraph(B, chosen), B, Len(B))
<1> DEFINE G(n) == Graphs(B, chosen)[n]
           S == {n \in 0..Len(B) : G(n).code = "none" => GraphInv(G(n), B, n)}
<1>0. Len(B) \in Nat
  BY BatchesAssumption
<1>1. G(0) = InitialGraph /\ \A n \in 1..Len(B) : G(n) = Member(G(n - 1), B, n, chosen)
  BY <1>0, GraphsUnfold
<1> HIDE DEF G
<1>2. 0 \in S
  BY <1>0, <1>1, FirstGraph
<1>3. ASSUME NEW n \in 1..Len(B), n - 1 \in S PROVE n \in S
  <2> SUFFICES ASSUME G(n).code = "none" PROVE GraphInv(G(n), B, n)
    OBVIOUS
  <2>1. G(n) = Member(G(n - 1), B, n, chosen)
    BY <1>1
  <2>2. G(n - 1).code = "none"
    BY <2>1, RefusalStays
  <2>3. GraphInv(G(n - 1), B, n - 1)
    BY <1>3, <2>2
  <2>4. AcceptedMember(G(n - 1), G(n), B, n)
    BY <2>1, <2>3, MemberAccepted DEF GraphInv
  <2> QED BY <2>3, <2>4, GraphStep
<1>4. Len(B) \in S
  <2>1. 0..Len(B) \subseteq S
    <3> HIDE DEF S
    <3> QED BY <1>0, <1>2, <1>3, UpTo
  <2> QED BY <1>0, <2>1
<1> QED BY <1>4 DEF G, WorkingGraph
-----------------------------------------------------------------------------
(* What a published batch leaves. *)

LEMMA TouchedAreUris ==
  ASSUME NEW g, g.ids \in Seq(Uris)
  PROVE  TouchedIds(g) \subseteq Uris
BY TouchedIsNamed

\* A new version is somewhere among the events of the batch.
LEMMA EffectPlaces ==
  ASSUME NEW g, g.ids \in Seq(Uris)
  PROVE  /\ Effects(g) \in Seq(Uris)
         /\ \A id \in TouchedIds(g) : Outcome(g, id) \in {"created", "updated", "deleted"} =>
              \E m \in 1..Len(Effects(g)) :
                Effects(g)[m] = id /\ Position(g, id) = Len(events) + m
         /\ \A m \in 1..Len(Effects(g)) :
              /\ Effects(g)[m] \in TouchedIds(g)
              /\ Outcome(g, Effects(g)[m]) \in {"created", "updated", "deleted"}
<1> DEFINE S == {id \in TouchedIds(g) : Outcome(g, id) \in {"created", "updated", "deleted"}}
<1>1. S \subseteq Uris
  BY TouchedAreUris
<1>2. Effects(g) = InOrder(S)
  BY Zenon DEF Effects
<1>3. /\ Effects(g) \in Seq(Uris)
      /\ \A id : (\E m \in 1..Len(Effects(g)) : Effects(g)[m] = id) <=> id \in S
  <2> HIDE DEF S
  <2> QED BY <1>1, <1>2, InOrderIsAll
<1>4. ASSUME NEW id \in S
      PROVE  \E m \in 1..Len(Effects(g)) :
               Effects(g)[m] = id /\ Position(g, id) = Len(events) + m
  <2> DEFINE m == CHOOSE n \in 1..Len(Effects(g)) : Effects(g)[n] = id
  <2>1. m \in 1..Len(Effects(g)) /\ Effects(g)[m] = id
    BY <1>3
  <2>2. Position(g, id) = Len(events) + m
    BY DEF Position
  <2> HIDE DEF m
  <2> QED BY <2>1, <2>2
<1>5. ASSUME NEW m \in 1..Len(Effects(g)) PROVE Effects(g)[m] \in S
  BY <1>3
<1> QED BY <1>3, <1>4, <1>5

LEMMA Revised ==
  ASSUME NEW body, IsBody(body), NEW r
  PROVE  [body EXCEPT !.revision = r] = Body(r, body.data, body.source, body.target)
<1>1. PICK b : b = body
  OBVIOUS
<1> QED BY DEF IsBody, Body

\* The row of a Resource that is live after the batch.
RowAfter(g, id) == IF id \in TouchedIds(g) THEN Published(g, id) ELSE resources[id]

LEMMA PublishedRow ==
  ASSUME NEW g, NEW B, GraphInv(g, B, Len(B)), Bodies, NEW id \in DOMAIN g.live
  PROVE  /\ IsBody(RowAfter(g, id))
         /\ RowAfter(g, id).source = g.live[id].body.source
         /\ RowAfter(g, id).target = g.live[id].body.target
         /\ \/ /\ id \in TouchedIds(g) /\ Outcome(g, id) \in {"created", "updated"}
               /\ RowAfter(g, id).revision = Position(g, id)
            \/ /\ id \in DOMAIN resources /\ RowAfter(g, id) = resources[id]
               /\ Outcome(g, id) = "unchanged"
<1>1. IsBody(g.live[id].body)
  BY DEF GraphInv, BodiesOf
<1>2. CASE id \notin TouchedIds(g)
  <2>1. id \in DOMAIN resources /\ g.live[id].body = resources[id]
    BY <1>2 DEF GraphInv, Untouched
  <2> QED BY <1>1, <1>2, <2>1 DEF RowAfter, Outcome
<1>3. CASE id \in TouchedIds(g) /\ Outcome(g, id) \in {"created", "updated"}
  <2>1. RowAfter(g, id) = [g.live[id].body EXCEPT !.revision = Position(g, id)]
    BY <1>3, Zenon DEF RowAfter, Published
  <2>2. RowAfter(g, id) =
          Body(Position(g, id), g.live[id].body.data, g.live[id].body.source,
               g.live[id].body.target)
    BY <1>1, <2>1, Revised
  <2> QED BY <1>3, <2>2 DEF Body, IsBody
<1>4. CASE id \in TouchedIds(g) /\ Outcome(g, id) \notin {"created", "updated"}
  <2>1. id \in DOMAIN resources /\ g.live[id].body = resources[id] /\ Outcome(g, id) = "unchanged"
    BY <1>4 DEF Outcome
  <2>2. RowAfter(g, id) = resources[id]
    BY <1>4, <2>1 DEF RowAfter, Published
  <2> QED BY <1>1, <2>1, <2>2
<1> QED BY <1>2, <1>3, <1>4

LEMMA AllocatedKind ==
  ASSUME NEW B \in Batches, NEW g, GraphInv(g, B, Len(B)), NEW id \in g.allocated
  PROVE  /\ KindAfter(g, id, B) \in Kinds
         /\ id \in DOMAIN g.live => g.live[id].kind = KindAfter(g, id, B)
<1> DEFINE n == CHOOSE n \in 1..Len(B) : g.ids[n] = id
<1>1. id \in TouchedIds(g) /\ Len(g.ids) = Len(B)
  BY DEF GraphInv, Scoped
<1>2. n \in 1..Len(B) /\ g.ids[n] = id
  BY <1>1, TouchedIsNamed
<1>3. KindAfter(g, id, B) = MemberKind(B, n)
  BY DEF KindAfter, MemberKind
<1> HIDE DEF n
<1>4. MemberKind(B, n) \in Kinds
  BY <1>2, MemberRequest
<1>5. id \in DOMAIN g.live => g.live[id].kind = MemberKind(B, n)
  BY <1>1, <1>2 DEF GraphInv, KindsAgree
<1> QED BY <1>3, <1>4, <1>5

LEMMA PublishTables ==
  ASSUME Placed, Bodies, NEW p, NEW k, NEW B \in Batches, NEW g, GraphInv(g, B, Len(B)),
         Publish(p, k, B, g)
  PROVE  /\ \A id \in DOMAIN identities :
              id \in DOMAIN identities' /\ identities'[id] = identities[id]
         /\ DOMAIN resources' = DOMAIN g.live
         /\ \A id \in DOMAIN g.live : resources'[id] = RowAfter(g, id)
         /\ Placed' /\ LinkEndpointsLive' /\ Bodies'
<1>1. /\ DOMAIN identities' = DOMAIN identities \cup g.allocated
      /\ \A id \in DOMAIN identities \cup g.allocated :
           identities'[id] = IF id \in g.allocated THEN KindAfter(g, id, B) ELSE identities[id]
  BY DEF Publish
<1>2. /\ DOMAIN resources' = DOMAIN g.live
      /\ \A id \in DOMAIN g.live : resources'[id] = RowAfter(g, id)
  BY DEF Publish, RowAfter
<1>3. aliases' = aliases /\ versions' = versions
  BY DEF Publish
<1>4. Scoped(g) /\ KindsAgree(g, B) /\ WellJoined(g.live)
  BY DEF GraphInv
<1>5. \A id \in DOMAIN identities : id \notin g.allocated
  BY <1>4 DEF Scoped
<1>6. \A id \in DOMAIN identities : id \in DOMAIN identities' /\ identities'[id] = identities[id]
  BY <1>1, <1>5
<1>7. \A id \in DOMAIN g.live : id \in DOMAIN identities' /\ identities'[id] = g.live[id].kind
  <2> TAKE id \in DOMAIN g.live
  <2>1. CASE id \in g.allocated
    BY <1>1, <2>1, AllocatedKind
  <2>2. CASE id \notin g.allocated
    BY <1>1, <1>4, <2>2 DEF Scoped, KindsAgree
  <2> QED BY <2>1, <2>2
<1>8. Placed'
  <2>1. DOMAIN identities' \subseteq Uris
    BY <1>1, <1>4 DEF Scoped, Placed
  <2>2. \A id \in DOMAIN identities' : identities'[id] \in Kinds
    BY <1>1, AllocatedKind DEF Placed
  <2>3. DOMAIN resources' \subseteq DOMAIN identities'
    BY <1>2, <1>7
  <2>4. DOMAIN aliases' \cap DOMAIN identities' = {}
    BY <1>1, <1>3, <1>4 DEF Scoped, Placed
  <2> QED BY <1>3, <1>6, <2>1, <2>2, <2>3, <2>4 DEF Placed
<1>9. LinkEndpointsLive'
  <2> SUFFICES ASSUME NEW id \in DOMAIN resources', identities'[id] = "link"
               PROVE  /\ LocalEndpoints(resources'[id]) # {}
                      /\ \A uri \in LocalEndpoints(resources'[id]) : IsLive(uri, "bead")'
    BY DEF LinkEndpointsLive, LocalEndpoints
  <2>1. id \in DOMAIN g.live /\ g.live[id].kind = "link"
    BY <1>2, <1>7
  <2>2. LocalEndpoints(resources'[id]) = LocalEndpoints(g.live[id].body)
    <3>1. /\ RowAfter(g, id).source = g.live[id].body.source
          /\ RowAfter(g, id).target = g.live[id].body.target
      BY <2>1, PublishedRow
    <3> QED BY <1>2, <2>1, <3>1 DEF LocalEndpoints
  <2>3. /\ LocalEndpoints(g.live[id].body) # {}
        /\ \A uri \in LocalEndpoints(g.live[id].body) :
             uri \in DOMAIN g.live /\ g.live[uri].kind = "bead"
    BY <1>4, <2>1 DEF WellJoined
  <2> QED BY <1>2, <1>7, <2>2, <2>3 DEF IsLive
<1>10. Bodies'
  <2>1. \A id \in DOMAIN resources' : IsBody(resources'[id])
    BY <1>2, PublishedRow
  <2> QED BY <2>1 DEF Bodies, IsBody, Body
<1> QED BY <1>2, <1>6, <1>8, <1>9, <1>10
-----------------------------------------------------------------------------
(* The last event of a Resource. *)

LEMMA GuardedKept ==
  ASSUME IsSequence(events), Extends(events', events), NEW id, NEW expected,
         NEW n \in 0..Len(events), GuardedBy(id, expected, n)
  PROVE  GuardedBy(id, expected, n)'
<1>1. n \in Nat /\ LastEvent(id, n)' = LastEvent(id, n) /\ LastEvent(id, n) \in 0..n
  BY LastEventKept, LastEventIs DEF IsSequence
<1>2. LastEvent(id, n) # 0 => events'[LastEvent(id, n)] = events[LastEvent(id, n)]
  BY <1>1 DEF Extends, IsSequence
<1> QED BY <1>1, <1>2 DEF GuardedBy
-----------------------------------------------------------------------------
(* The revision of a live Resource is that of its last event. *)

CurrentRevisions ==
  \A id \in DOMAIN resources : LET last == LastEvent(id, Len(events)) IN
    last # 0 /\ events[last].revision = resources[id].revision

Fresh == (Len(events) + 1)..Len(events')

\* A Resource has new events, all with its new revision, or it has none and
\* its revision has not changed.
Revises ==
  \A id \in DOMAIN resources' :
    \/ /\ \E q \in Fresh : events'[q].subject = id
       /\ \A q \in Fresh : events'[q].subject = id => events'[q].revision = resources'[id].revision
    \/ /\ id \in DOMAIN resources /\ resources'[id].revision = resources[id].revision
       /\ \A q \in Fresh : events'[q].subject # id

LEMMA CurrentStep ==
  ASSUME IsSequence(events), IsSequence(events'), Extends(events', events),
         CurrentRevisions, Revises
  PROVE  CurrentRevisions'
<1> DEFINE n == Len(events)
           m == Len(events')
           last(id) == Last({q \in 1..m : events'[q].subject = id})
<1>1. n \in Nat /\ m \in Nat /\ n <= m /\ \A q \in 1..n : events'[q] = events[q]
  BY DEF IsSequence, Extends
<1>2. ASSUME NEW id
      PROVE  LET final == last(id) IN
             /\ final \in 0..m
             /\ final # 0 => events'[final].subject = id
             /\ \A q \in 1..m : events'[q].subject = id => final # 0 /\ q <= final
  <2> DEFINE S == {q \in 1..m : events'[q].subject = id}
  <2>1. last(id) = Last(S)
    OBVIOUS
  <2>2. S \subseteq 1..m
    OBVIOUS
  <2>3. /\ S = {} => Last(S) = 0
        /\ S # {} => Last(S) \in S /\ \A q \in S : q <= Last(S)
    <3> HIDE DEF S
    <3> QED BY <1>1, <2>2, LastIsLargest
  <2> QED BY <2>1, <2>3
<1>3. SUFFICES ASSUME NEW id \in DOMAIN resources'
               PROVE  LET final == last(id) IN
                      final # 0 /\ events'[final].revision = resources'[id].revision
  BY DEF CurrentRevisions, LastEvent
<1> HIDE DEF last
<1>4. CASE /\ \E q \in Fresh : events'[q].subject = id
           /\ \A q \in Fresh : events'[q].subject = id => events'[q].revision = resources'[id].revision
  <2>1. PICK q \in Fresh : events'[q].subject = id
    BY <1>4
  <2>2. q \in 1..m /\ n < q
    BY <1>1, <2>1 DEF Fresh
  <2>3. LET final == last(id) IN final \in Fresh /\ events'[final].subject = id
    BY <1>1, <1>2, <2>1, <2>2 DEF Fresh
  <2> QED BY <1>1, <1>4, <2>3 DEF Fresh
<1>5. CASE /\ id \in DOMAIN resources /\ resources'[id].revision = resources[id].revision
           /\ \A q \in Fresh : events'[q].subject # id
  <2>1. LastEvent(id, n) \in 1..n /\ events[LastEvent(id, n)].revision = resources[id].revision
          /\ events[LastEvent(id, n)].subject = id
    BY <1>1, <1>5, LastEventIs DEF CurrentRevisions
  <2>2. LET final == last(id) IN
        final \in 1..n /\ events'[final].subject = id /\ LastEvent(id, n) <= final
    BY <1>1, <1>2, <1>5, <2>1 DEF Fresh
  <2>3. last(id) <= LastEvent(id, n)
    BY <1>1, <2>2, LastEventIs
  <2>4. last(id) = LastEvent(id, n)
    BY <1>1, <2>1, <2>2, <2>3
  <2> QED BY <1>1, <1>5, <2>1, <2>4
<1> QED BY <1>4, <1>5 DEF Revises
-----------------------------------------------------------------------------
(* The invariant of a store that takes batches and single requests. *)

StoredMember(B, n, s, witnesses) ==
  LET uri == B[n].request[s] IN
  IF uri \in Explicit(B, n) THEN Bound(uri) ELSE Stored(uri, witnesses)

StoredBatch(B, witnesses) ==
  [n \in 1..Len(B) |->
     [request |-> [f \in DOMAIN B[n].request \ Slots(B[n].request) |-> B[n].request[f]],
      slots |-> [s \in OpenSlots(B, n) |-> StoredMember(B, n, s, witnesses)],
      handles |-> B[n].handles, provenance |-> B[n].provenance]]

BatchSettled(o) ==
  /\ o.identity = StoredBatch(o.request, o.witnesses)
  /\ \A n \in 1..Len(o.request) : \A s \in OpenSlots(o.request, n) :
       o.request[n].request[s] \notin Explicit(o.request, n) \cup DOMAIN o.witnesses =>
         NeverAlias(o.request[n].request[s])

RowSettled(o) == IF o.op = "batch" THEN BatchSettled(o) ELSE Settled(o)

\* The events the first d decisions account for.
Facts(d) == UNION {FactsOf(outcomes[c]) : c \in 1..d}

GuardedRow(o, n) ==
  IF o.op = "batch"
  THEN Accepted(o) => \A m \in 1..Len(o.request) :
                        GuardedBy(o.response.ids[m], o.request[m].request.expected, n)
  ELSE o.position # 0 =>
         /\ o.position = n + 1 /\ o.position \in 1..Len(events)
         /\ GuardedBy(events[o.position].subject, o.request.expected, n)

\* The d-th decision found the events 1..n, and its guards held of them.
GuardedOutcome(d) ==
  \E n \in 0..Len(events) : Facts(d - 1) = 1..n /\ GuardedRow(outcomes[d], n)

BInv ==
  /\ Placed /\ LinkEndpointsLive /\ Bodies /\ CurrentRevisions
  /\ IsSequence(events) /\ IsSequence(outcomes)
  /\ Facts(Len(outcomes)) = 1..Len(events)
  /\ \A d \in 1..Len(outcomes) : RowSettled(outcomes[d]) /\ GuardedOutcome(d)

\* A decision that was recorded.
Recorded(o) ==
  /\ outcomes' = Append(outcomes, o)
  /\ IsSequence(events') /\ Extends(events', events)
  /\ FactsOf(o) = Fresh
  /\ RowSettled(o)
  /\ \E n \in Nat : n = Len(events) /\ GuardedRow(o, n)'
  /\ \A id \in DOMAIN identities : id \in DOMAIN identities' /\ identities'[id] = identities[id]
  /\ Revises
  /\ Placed' /\ LinkEndpointsLive' /\ Bodies'

LEMMA RowSettledKept ==
  ASSUME \A id \in DOMAIN identities : id \in DOMAIN identities', NEW o, RowSettled(o)
  PROVE  RowSettled(o)'
<1>1. \A uri : NeverAlias(uri) => NeverAlias(uri)'
  BY DEF NeverAlias
<1>2. CASE o.op = "batch"
  BY <1>1, <1>2 DEF RowSettled, BatchSettled
<1>3. CASE o.op # "batch"
  BY <1>3, SettledKept DEF RowSettled
<1> QED BY <1>2, <1>3

LEMMA GuardedRowKept ==
  ASSUME IsSequence(events), IsSequence(events'), Extends(events', events),
         NEW o, NEW n \in 0..Len(events), GuardedRow(o, n)
  PROVE  GuardedRow(o, n)'
<1>1. CASE o.op = "batch"
  <2>1. ASSUME NEW m \in 1..Len(o.request), Accepted(o)
        PROVE  GuardedBy(o.response.ids[m], o.request[m].request.expected, n)'
    <3>1. GuardedBy(o.response.ids[m], o.request[m].request.expected, n)
      BY <1>1, <2>1 DEF GuardedRow
    <3> QED BY <3>1, GuardedKept
  <2> QED BY <1>1, <2>1 DEF GuardedRow
<1>2. CASE o.op # "batch" /\ o.position # 0
  <2>1. /\ o.position = n + 1 /\ o.position \in 1..Len(events)
        /\ GuardedBy(events[o.position].subject, o.request.expected, n)
    BY <1>2 DEF GuardedRow
  <2>2. events'[o.position] = events[o.position] /\ o.position \in 1..Len(events')
    BY <2>1 DEF Extends, IsSequence
  <2>3. PICK id : id = events[o.position].subject
    OBVIOUS
  <2>4. GuardedBy(id, o.request.expected, n)'
    BY <2>1, <2>3, GuardedKept
  <2>5. events'[o.position].subject = id
    BY <2>2, <2>3
  <2> QED BY <1>2, <2>1, <2>2, <2>4, <2>5 DEF GuardedRow
<1>3. CASE o.op # "batch" /\ o.position = 0
  BY <1>3 DEF GuardedRow
<1> QED BY <1>1, <1>2, <1>3

LEMMA FactsAppended ==
  ASSUME IsSequence(outcomes), NEW o, outcomes' = Append(outcomes, o)
  PROVE  /\ \A d \in 1..(Len(outcomes) + 1) : Facts(d - 1)' = Facts(d - 1)
         /\ Facts(Len(outcomes))' = Facts(Len(outcomes)) \cup FactsOf(o)
<1> DEFINE n == Len(outcomes)
<1>1. /\ n \in Nat /\ Len(outcomes') = n + 1
      /\ \A d \in 1..n : outcomes'[d] = outcomes[d]
      /\ outcomes'[n + 1] = o
  BY AppendFacts
<1>2. ASSUME NEW d \in 1..(n + 1) PROVE Facts(d - 1)' = Facts(d - 1)
  <2>1. \A c \in 1..(d - 1) : outcomes'[c] = outcomes[c]
    BY <1>1
  <2>2. {FactsOf(outcomes'[c]) : c \in 1..(d - 1)} = {FactsOf(outcomes[c]) : c \in 1..(d - 1)}
    BY <2>1
  <2> QED BY <2>2 DEF Facts
<1>3. {FactsOf(outcomes'[c]) : c \in 1..(n + 1)} =
        {FactsOf(outcomes[c]) : c \in 1..n} \cup {FactsOf(o)}
  <2>1. \A c : c \in 1..(n + 1) <=> c \in 1..n \/ c = n + 1
    BY <1>1
  <2> QED BY <1>1, <2>1
<1>4. Facts(n)' = UNION {FactsOf(outcomes'[c]) : c \in 1..(n + 1)}
  BY <1>1 DEF Facts
<1> QED BY <1>2, <1>3, <1>4 DEF Facts

LEMMA RecordedStep ==
  ASSUME BInv, NEW o, Recorded(o)
  PROVE  BInv'
<1> DEFINE n == Len(outcomes)
<1>0. IsSequence(events) /\ IsSequence(outcomes) /\ Len(events) \in Nat
  BY DEF BInv, IsSequence
<1>1. /\ IsSequence(outcomes') /\ n \in Nat /\ Len(outcomes') = n + 1
      /\ \A d \in 1..n : outcomes'[d] = outcomes[d]
      /\ outcomes'[n + 1] = o
  BY <1>0, AppendFacts DEF Recorded
<1>2. /\ \A d \in 1..(n + 1) : Facts(d - 1)' = Facts(d - 1)
      /\ Facts(n)' = Facts(n) \cup FactsOf(o)
  BY <1>0, FactsAppended DEF Recorded
<1>3. /\ IsSequence(events') /\ Extends(events', events) /\ Len(events') \in Nat
      /\ Len(events) <= Len(events')
  BY DEF Recorded, Extends, IsSequence
<1>4. Facts(Len(outcomes))' = 1..Len(events')
  BY <1>0, <1>2, <1>3 DEF BInv, Recorded, Fresh
<1>5. CurrentRevisions'
  BY <1>0, <1>3, CurrentStep DEF BInv, Recorded
<1>6. ASSUME NEW d \in 1..Len(outcomes') PROVE RowSettled(outcomes[d])' /\ GuardedOutcome(d)'
  <2>1. PICK r : r = outcomes'[d]
    OBVIOUS
  <2>2. RowSettled(r)
    BY <1>1, <2>1 DEF BInv, Recorded
  <2>3. RowSettled(r)'
    BY <2>2, RowSettledKept DEF Recorded
  <2>4. \E m \in 0..Len(events) : Facts(d - 1) = 1..m /\ GuardedRow(r, m)'
    <3>1. CASE d \in 1..n
      <4>1. PICK m \in 0..Len(events) : Facts(d - 1) = 1..m /\ GuardedRow(r, m)
        BY <1>1, <2>1, <3>1 DEF BInv, GuardedOutcome
      <4>2. GuardedRow(r, m)'
        BY <1>0, <1>3, <4>1, GuardedRowKept
      <4> QED BY <4>1, <4>2
    <3>2. CASE d = n + 1
      <4>1. r = o /\ Facts(d - 1) = 1..Len(events)
        BY <1>1, <2>1, <3>2 DEF BInv
      <4>2. PICK m \in Nat : m = Len(events) /\ GuardedRow(o, m)'
        BY DEF Recorded
      <4> QED BY <1>0, <4>1, <4>2
    <3> QED BY <1>1, <3>1, <3>2
  <2>5. PICK m \in 0..Len(events) : Facts(d - 1) = 1..m /\ GuardedRow(r, m)'
    BY <2>4
  <2>6. m \in 0..Len(events') /\ Facts(d - 1)' = 1..m
    BY <1>0, <1>1, <1>2, <1>3, <2>5
  <2>7. GuardedRow(outcomes[d], m)'
    BY <2>1, <2>5 DEF GuardedRow, GuardedBy, LastEvent, Accepted
  <2>8. GuardedOutcome(d)'
    BY <2>6, <2>7 DEF GuardedOutcome
  <2>9. RowSettled(outcomes[d])'
    BY <2>1, <2>3 DEF RowSettled, BatchSettled, Settled, NeverAlias
  <2> QED BY <2>8, <2>9
<1>7. Placed' /\ LinkEndpointsLive' /\ Bodies'
  BY DEF Recorded
<1> QED BY <1>1, <1>3, <1>4, <1>5, <1>6, <1>7 DEF BInv, IsSequence
-----------------------------------------------------------------------------
(* A decided batch is recorded. *)

LEMMA BatchRowSettled ==
  ASSUME Placed, NEW B \in Batches, NEW o, o.op = "batch", o.request = B,
         o.witnesses = BatchWitnesses(B), o.identity = BatchIdentity(B, BatchWitnesses(B))
  PROVE  RowSettled(o)
<1> DEFINE W == BatchWitnesses(B)
           named(n, s) == B[n].request[s]
           looked == UNION {{B[n].request[s] : s \in OpenSlots(B, n)} \ Explicit(B, n)
                              : n \in 1..Len(B)}
<1>1. W = [uri \in {u \in looked : ~IsDirect(u)} |-> AliasTarget(uri)]
  BY DEF BatchWitnesses
<1>2. ASSUME NEW n \in 1..Len(B), NEW s \in OpenSlots(B, n), named(n, s) \notin Explicit(B, n)
      PROVE  named(n, s) \in looked
  <2>1. named(n, s) \in {B[n].request[x] : x \in OpenSlots(B, n)} \ Explicit(B, n)
    BY <1>2
  <2> QED BY <2>1
<1> HIDE DEF looked
<1>3. ASSUME NEW n \in 1..Len(B), NEW s \in OpenSlots(B, n),
             named(n, s) \notin Explicit(B, n), named(n, s) \notin DOMAIN W
      PROVE  IsDirect(named(n, s))
  BY <1>1, <1>2, <1>3
<1> HIDE DEF W
<1>4. \A n \in 1..Len(B) : \A s \in OpenSlots(B, n) :
        Compared(B, n, s, W) = StoredMember(B, n, s, W)
  BY <1>3 DEF Compared, StoredMember, Resolve, Stored
<1>5. BatchIdentity(B, W) = StoredBatch(B, W)
  <2>1. \A n \in 1..Len(B) :
          [s \in OpenSlots(B, n) |-> Compared(B, n, s, W)] =
          [s \in OpenSlots(B, n) |-> StoredMember(B, n, s, W)]
    BY <1>4
  <2> QED BY <2>1 DEF BatchIdentity, StoredBatch
<1>6. o.identity = StoredBatch(o.request, o.witnesses)
  BY <1>5 DEF W
<1>7. \A n \in 1..Len(B) : \A s \in OpenSlots(B, n) :
        named(n, s) \notin Explicit(B, n) \cup DOMAIN W => NeverAlias(named(n, s))
  BY <1>3, DirectIsNeverAlias
<1>8. BatchSettled(o)
  BY <1>6, <1>7 DEF BatchSettled, W
<1> QED BY <1>8 DEF RowSettled

LEMMA BatchRecognised ==
  ASSUME Placed, NEW o, o.op = "batch", BatchSettled(o)
  PROVE  SameBatch(o.request, o)
<1> DEFINE B == o.request
           W == o.witnesses
<1>1. \A n \in 1..Len(B) : \A s \in OpenSlots(B, n) :
        Compared(B, n, s, W) = StoredMember(B, n, s, W)
  BY NeverAliasIsDirect DEF BatchSettled, Compared, StoredMember, Resolve, Stored
<1>2. \A n \in 1..Len(B) :
        [s \in OpenSlots(B, n) |-> Compared(B, n, s, W)] =
        [s \in OpenSlots(B, n) |-> StoredMember(B, n, s, W)]
  BY <1>1
<1>3. BatchIdentity(B, W) = StoredBatch(B, W)
  BY <1>2 DEF BatchIdentity, StoredBatch
<1> QED BY <1>3 DEF SameBatch, BatchSettled

LEMMA ConcatFacts ==
  ASSUME NEW s, IsSequence(s), NEW n \in Nat, NEW t, IsSequence(t), Len(t) = n
  PROVE  /\ IsSequence(s \o t) /\ Len(s) \in Nat
         /\ Len(s \o t) = Len(s) + n
         /\ \A m \in 1..Len(s) : (s \o t)[m] = s[m]
         /\ \A m \in 1..n : (s \o t)[Len(s) + m] = t[m]
         /\ Extends(s \o t, s)
<1>1. PICK S : s \in Seq(S)
  BY DEF IsSequence
<1>2. PICK T : t \in Seq(T)
  BY DEF IsSequence
<1>3. s \in Seq(S \cup T) /\ t \in Seq(S \cup T)
  BY <1>1, <1>2
<1>4. s \o t \in Seq(S \cup T) /\ Len(s \o t) = Len(s) + n /\ Len(s) \in Nat
  BY <1>3
<1>5. \A m \in 1..Len(s) : (s \o t)[m] = s[m]
  BY <1>3
<1>6. \A m \in 1..n : (s \o t)[Len(s) + m] = t[m]
  BY <1>3
<1> QED BY <1>4, <1>5, <1>6 DEF IsSequence, Extends

\* A refusal is never taken for an acceptance.
RefusalCodes ==
  {"validation-failed", "temporarily-unavailable", "identity-taken", "alias-path-taken",
   "resource-not-found", "revision-mismatch", "incident-links-exist", "limit-exceeded"}

Coded(g) == "code" \in DOMAIN g /\ g.code \in RefusalCodes \cup {"none"}

LEMMA MemberCoded ==
  ASSUME NEW g, NEW B, NEW n, NEW chosen, Coded(g)
  PROVE  Coded(Member(g, B, n, chosen))
<1> DEFINE h == Member(g, B, n, chosen)
           codes == RefusalCodes \cup {"none"}
<1>1. \A kind, body : EndpointCode(g, kind, body) \in codes
  BY DEF EndpointCode, RefusalCodes
<1>2. \A id, body : CreateCode(g, B, n, id, body) \in codes
  BY <1>1, Zenon DEF CreateCode, RefusalCodes
<1>3. \A kind : ChangeCode(g, B, n, kind) \in codes
  BY <1>1, Zenon DEF ChangeCode, RefusalCodes
<1>4. \/ h = g
      \/ \E code \in codes : h = [g EXCEPT !.code = code]
      \/ \E live, ids, allocated :
           h = [live |-> live, ids |-> ids, code |-> "none", allocated |-> allocated]
  <2> DEFINE i == B[n].request
             drawn == Creates(B, n) /\ i.id = None
             id == IF drawn THEN chosen[n] ELSE IF Creates(B, n) THEN i.id
                   ELSE Reference(g, B, n, "id").uri
             fresh == Staged(g, B, n, Body(0, None, None, None), i.data)
             code == IF i.refused THEN "validation-failed"
                     ELSE IF drawn /\ id = None THEN "temporarily-unavailable"
                     ELSE IF Creates(B, n) THEN CreateCode(g, B, n, id, fresh)
                     ELSE ChangeCode(g, B, n, KindOf(i.op))
  <2>1. code \in codes
    <3> HIDE DEF id, fresh
    <3> QED BY <1>2, <1>3 DEF RefusalCodes
  <2>2. \E live, ids, allocated :
          h = IF g.code # "none" THEN g
              ELSE IF code # "none" THEN [g EXCEPT !.code = code]
              ELSE [live |-> live, ids |-> ids, code |-> "none", allocated |-> allocated]
    BY Zenon DEF Member
  <2> HIDE DEF code, codes, h
  <2> QED BY <2>1, <2>2
<1> HIDE DEF h
<1>5. ASSUME NEW code \in codes, h = [g EXCEPT !.code = code] PROVE Coded(h)
  BY <1>5 DEF Coded
<1> QED BY <1>4, <1>5 DEF Coded, h

LEMMA WorkingGraphCoded ==
  ASSUME NEW B \in Batches, NEW chosen
  PROVE  WorkingGraph(B, chosen).code \in RefusalCodes \cup {"none"}
<1> DEFINE G(n) == Graphs(B, chosen)[n]
           S == {n \in 0..Len(B) : Coded(G(n))}
<1>0. Len(B) \in Nat
  BY BatchesAssumption
<1>1. G(0) = InitialGraph /\ \A n \in 1..Len(B) : G(n) = Member(G(n - 1), B, n, chosen)
  BY <1>0, GraphsUnfold
<1>2. Coded(InitialGraph)
  BY DEF Coded, InitialGraph
<1> HIDE DEF G
<1>3. 0 \in S /\ \A n \in 1..Len(B) : n - 1 \in S => n \in S
  BY <1>0, <1>1, <1>2, MemberCoded
<1>4. 0..Len(B) \subseteq S
  <2> HIDE DEF S
  <2> QED BY <1>0, <1>3, UpTo
<1> QED BY <1>0, <1>4 DEF G, WorkingGraph, Coded

LEMMA BatchRefused ==
  ASSUME NEW B \in Batches, NEW chosen, BatchCode(B, WorkingGraph(B, chosen)) # "none"
  PROVE  BatchCode(B, WorkingGraph(B, chosen)) \in RefusalCodes
BY WorkingGraphCoded DEF BatchCode, RefusalCodes

\* A guard that names the current revision holds of the events so far.
LEMMA CurrentIsGuarded ==
  ASSUME BInv, NEW id, NEW expected,
         expected = 0 \/ (id \in DOMAIN resources /\ expected = resources[id].revision)
  PROVE  GuardedBy(id, expected, Len(events))
BY DEF BInv, CurrentRevisions, GuardedBy

\* The events of a published batch: one for each effect, in their order.
LEMMA PublishedEvents ==
  ASSUME IsSequence(events), NEW p, NEW k, NEW B, NEW g, g.ids \in Seq(Uris),
         Publish(p, k, B, g)
  PROVE  /\ IsSequence(events') /\ Extends(events', events)
         /\ Len(events) \in Nat /\ Len(Effects(g)) \in Nat
         /\ Len(events') = Len(events) + Len(Effects(g))
         /\ Fresh = (Len(events) + 1)..(Len(events) + Len(Effects(g)))
         /\ \A q \in Fresh : \E m \in 1..Len(Effects(g)) :
              /\ q = Len(events) + m
              /\ events'[q].subject = Effects(g)[m]
              /\ events'[q].revision = Published(g, Effects(g)[m]).revision
<1> DEFINE n == Len(Effects(g))
           row(m) == BatchEvent(g, Effects(g)[m], B)
           t == [m \in 1..n |-> row(m)]
<1>1. n \in Nat
  BY EffectPlaces
<1>2. \A m \in 1..n :
        row(m).subject = Effects(g)[m] /\ row(m).revision = Published(g, Effects(g)[m]).revision
  BY DEF BatchEvent
<1>3. events' = events \o t
  BY DEF Publish
<1> HIDE DEF n, row
<1> DEFINE R == {row(m) : m \in 1..n}
<1>4. t \in Seq(R) /\ Len(t) = n /\ \A m \in 1..n : t[m] = row(m)
  <2>1. t \in [1..n -> R]
    OBVIOUS
  <2>2. \A m \in 1..n : t[m] = row(m)
    OBVIOUS
  <2> HIDE DEF R, t
  <2> QED BY <1>1, <2>1, <2>2
<1>5. IsSequence(t)
  <2> HIDE DEF t, R
  <2> QED BY <1>4 DEF IsSequence
<1> HIDE DEF t
<1>6. /\ IsSequence(events \o t) /\ Len(events) \in Nat
      /\ Len(events \o t) = Len(events) + n
      /\ \A m \in 1..n : (events \o t)[Len(events) + m] = t[m]
      /\ Extends(events \o t, events)
  BY ONLY <1>1, <1>4, <1>5, IsSequence(events), ConcatFacts, SMTT(30)
<1>7. IsSequence(events') /\ Extends(events', events) /\ Len(events') = Len(events) + n
  BY <1>3, <1>6
<1>8. Fresh = (Len(events) + 1)..(Len(events) + n)
  BY <1>7 DEF Fresh
<1>9. ASSUME NEW q \in Fresh
      PROVE  \E m \in 1..n : q = Len(events) + m /\ events'[q] = row(m)
  <2>1. q - Len(events) \in 1..n /\ q = Len(events) + (q - Len(events))
    BY <1>1, <1>6, <1>8
  <2> QED BY <1>3, <1>4, <1>6, <2>1
<1> QED BY <1>1, <1>2, <1>6, <1>7, <1>8, <1>9, ZenonT(30) DEF n

LEMMA PublishRecorded ==
  ASSUME BInv, NEW p, NEW k, NEW B \in Batches, NEW g, GraphInv(g, B, Len(B)),
         Publish(p, k, B, g)
  PROVE  \E o : Recorded(o) /\ ClaimOf(o) = <<p, k>>
<1>0. /\ Placed /\ Bodies /\ IsSequence(events) /\ CurrentRevisions
      /\ g.ids \in Seq(Uris) /\ Len(g.ids) = Len(B) /\ Guarded(g, B)
  BY DEF BInv, GraphInv
<1>1. /\ \A id \in DOMAIN identities :
           id \in DOMAIN identities' /\ identities'[id] = identities[id]
      /\ DOMAIN resources' = DOMAIN g.live
      /\ \A id \in DOMAIN g.live : resources'[id] = RowAfter(g, id)
      /\ Placed' /\ LinkEndpointsLive' /\ Bodies'
  BY <1>0, PublishTables
<1>2. /\ IsSequence(events') /\ Extends(events', events)
      /\ Len(events) \in Nat /\ Len(Effects(g)) \in Nat
      /\ Len(events') = Len(events) + Len(Effects(g))
      /\ Fresh = (Len(events) + 1)..(Len(events) + Len(Effects(g)))
      /\ \A q \in Fresh : \E m \in 1..Len(Effects(g)) :
           /\ q = Len(events) + m
           /\ events'[q].subject = Effects(g)[m]
           /\ events'[q].revision = Published(g, Effects(g)[m]).revision
  BY <1>0, PublishedEvents
<1>3. /\ \A id \in TouchedIds(g) : Outcome(g, id) \in {"created", "updated", "deleted"} =>
           \E m \in 1..Len(Effects(g)) :
             Effects(g)[m] = id /\ Position(g, id) = Len(events) + m
      /\ \A m \in 1..Len(Effects(g)) :
           /\ Effects(g)[m] \in TouchedIds(g)
           /\ Outcome(g, Effects(g)[m]) \in {"created", "updated", "deleted"}
  BY <1>0, EffectPlaces
<1>4. Revises
  <2> SUFFICES ASSUME NEW id \in DOMAIN g.live
               PROVE
    \/ /\ \E q \in Fresh : events'[q].subject = id
       /\ \A q \in Fresh : events'[q].subject = id => events'[q].revision = resources'[id].revision
    \/ /\ id \in DOMAIN resources /\ resources'[id].revision = resources[id].revision
       /\ \A q \in Fresh : events'[q].subject # id
    BY <1>1 DEF Revises
  <2>1. CASE id \in TouchedIds(g) /\ Outcome(g, id) \in {"created", "updated"}
    <3>1. PICK m \in 1..Len(Effects(g)) : Effects(g)[m] = id
      BY <1>3, <2>1
    <3>2. Len(events) + m \in Fresh
      BY <1>2
    <3>3. events'[Len(events) + m].subject = id
      <4>1. PICK j \in 1..Len(Effects(g)) :
              /\ Len(events) + m = Len(events) + j
              /\ events'[Len(events) + m].subject = Effects(g)[j]
        BY <1>2, <3>2
      <4>2. j = m
        BY <1>2, <4>1
      <4> QED BY <3>1, <4>1, <4>2
    <3>4. resources'[id].revision = Published(g, id).revision
      BY <1>1, <2>1 DEF RowAfter
    <3>5. \A q \in Fresh : events'[q].subject = id => events'[q].revision = resources'[id].revision
      BY <1>2, <3>4
    <3> QED BY <3>2, <3>3, <3>5
  <2>2. CASE /\ id \in DOMAIN resources /\ RowAfter(g, id) = resources[id]
             /\ Outcome(g, id) = "unchanged"
    <3>1. \A q \in Fresh : events'[q].subject # id
      BY <1>2, <1>3, <2>2
    <3> QED BY <1>1, <2>2, <3>1
  <2> QED BY <1>0, <2>1, <2>2, PublishedRow
<1>5. PICK o :
        /\ outcomes' = Append(outcomes, o)
        /\ o.principal = p /\ o.key = k /\ o.op = "batch" /\ o.request = B
        /\ o.witnesses = BatchWitnesses(B) /\ o.identity = BatchIdentity(B, BatchWitnesses(B))
        /\ o.facts = (Len(events) + 1)..(Len(events) + Len(Effects(g)))
        /\ o.response.ids = g.ids
  <2> DEFINE facts == (Len(events) + 1)..(Len(events) + Len(Effects(g)))
             rows == [m \in 1..Len(Touched(g)) |-> Row(g, Touched(g)[m], B)]
             o == [principal |-> p, key |-> k, op |-> "batch",
                   identity |-> BatchIdentity(B, BatchWitnesses(B)),
                   witnesses |-> BatchWitnesses(B),
                   response |-> [result |-> "applied", ids |-> g.ids, rows |-> rows],
                   facts |-> facts,
                   position |-> IF facts = {} THEN 0 ELSE Len(events) + 1, request |-> B]
  <2>1. outcomes' = Append(outcomes, o)
    BY Zenon DEF Publish, BatchRow
  <2> HIDE DEF facts, rows
  <2>2. /\ o.principal = p /\ o.key = k /\ o.op = "batch" /\ o.request = B
        /\ o.witnesses = BatchWitnesses(B) /\ o.identity = BatchIdentity(B, BatchWitnesses(B))
        /\ o.facts = facts /\ o.response.ids = g.ids
    OBVIOUS
  <2> HIDE DEF o
  <2> QED BY <2>1, <2>2 DEF facts
<1>6. RowSettled(o)
  BY <1>0, <1>5, BatchRowSettled
<1>7. FactsOf(o) = Fresh
  BY <1>2, <1>5 DEF FactsOf
<1>8. PICK n \in Nat : n = Len(events)
  BY <1>2
<1>9. ASSUME NEW m \in 1..Len(B)
      PROVE  GuardedBy(o.response.ids[m], o.request[m].request.expected, n)'
  <2>1. PICK id, expected : id = g.ids[m] /\ expected = B[m].request.expected
    OBVIOUS
  <2>2. GuardedBy(id, expected, n)
    BY <1>0, <1>8, <2>1, CurrentIsGuarded DEF Guarded, GuardHolds
  <2>3. GuardedBy(id, expected, n)'
    BY <1>0, <1>2, <1>8, <2>2, GuardedKept
  <2> QED BY <1>5, <2>1, <2>3
<1>10. GuardedRow(o, n)'
  BY <1>5, <1>9 DEF GuardedRow
<1> QED BY <1>1, <1>2, <1>4, <1>5, <1>6, <1>7, <1>8, <1>10 DEF Recorded, ClaimOf

\* A decision that records no event and leaves the Resources alone.
LEMMA QuietRecorded ==
  ASSUME BInv, UNCHANGED <<identities, resources, events, versions>>, Placed',
         NEW o, outcomes' = Append(outcomes, o), RowSettled(o), FactsOf(o) = {},
         \A n \in Nat : GuardedRow(o, n)'
  PROVE  Recorded(o)
<1>1. IsSequence(events) /\ Len(events) \in Nat /\ Bodies /\ LinkEndpointsLive
  BY DEF BInv, IsSequence
<1>2. IsSequence(events') /\ Extends(events', events) /\ Fresh = {}
  BY <1>1 DEF IsSequence, Extends, Fresh
<1>3. Revises
  BY <1>2 DEF Revises
<1>4. Bodies' /\ LinkEndpointsLive'
  BY <1>1 DEF Bodies, LinkEndpointsLive, LocalEndpoints, IsLive, IsBody, Body
<1> QED BY <1>1, <1>2, <1>3, <1>4 DEF Recorded

LEMMA ApplyBatchRecorded ==
  ASSUME BInv, NEW p, NEW k, NEW B \in Batches, ApplyBatch(p, k, B)
  PROVE  \E o : Recorded(o) /\ ClaimOf(o) = <<p, k>>
<1>1. PICK chosen \in Drawn(B) :
        LET g == WorkingGraph(B, chosen) IN
        \/ BatchCode(B, g) = "none" /\ Publish(p, k, B, g)
        \/ /\ BatchCode(B, g) # "none"
           /\ BatchRow(p, k, B, Refusal(BatchCode(B, g)), {})
           /\ UNCHANGED <<identities, resources, aliases, events, versions>>
  BY Zenon DEF ApplyBatch
<1> DEFINE g == WorkingGraph(B, chosen)
           code == BatchCode(B, g)
<1>2. CASE code = "none" /\ Publish(p, k, B, g)
  <2>1. g.code = "none"
    BY <1>2, Zenon DEF BatchCode
  <2>2. GraphInv(g, B, Len(B))
    BY <1>1, <2>1, WorkingGraphSound DEF BInv
  <2> HIDE DEF g
  <2> QED BY <1>2, <2>2, PublishRecorded
<1>3. CASE /\ code # "none" /\ BatchRow(p, k, B, Refusal(code), {})
           /\ UNCHANGED <<identities, resources, aliases, events, versions>>
  <2>1. code \in RefusalCodes
    BY <1>3, BatchRefused
  <2> HIDE DEF code
  <2>2. PICK o :
          /\ outcomes' = Append(outcomes, o)
          /\ o.principal = p /\ o.key = k /\ o.op = "batch" /\ o.request = B
          /\ o.witnesses = BatchWitnesses(B) /\ o.identity = BatchIdentity(B, BatchWitnesses(B))
          /\ o.facts = {} /\ o.response.result = code
    <3> DEFINE response == Refusal(code)
               o == [principal |-> p, key |-> k, op |-> "batch",
                     identity |-> BatchIdentity(B, BatchWitnesses(B)),
                     witnesses |-> BatchWitnesses(B), response |-> response, facts |-> {},
                     position |-> IF {} = {} THEN 0 ELSE Len(events) + 1, request |-> B]
    <3>1. outcomes' = Append(outcomes, o)
      BY <1>3, Zenon DEF BatchRow
    <3>2. response.result = code
      BY DEF Refusal, Response
    <3> HIDE DEF response
    <3>3. /\ o.principal = p /\ o.key = k /\ o.op = "batch" /\ o.request = B
          /\ o.witnesses = BatchWitnesses(B) /\ o.identity = BatchIdentity(B, BatchWitnesses(B))
          /\ o.facts = {} /\ o.response = response
      OBVIOUS
    <3> HIDE DEF o
    <3> QED BY <3>1, <3>2, <3>3
  <2>3. RowSettled(o) /\ FactsOf(o) = {}
    BY <2>2, BatchRowSettled DEF BInv, FactsOf
  <2>4. ~Accepted(o)
    BY <2>1, <2>2 DEF Accepted, RefusalCodes
  <2>5. \A n \in Nat : GuardedRow(o, n)'
    BY <2>2, <2>4 DEF GuardedRow, Accepted
  <2>6. Placed'
    BY <1>3 DEF BInv, Placed
  <2>7. Recorded(o)
    BY <1>3, <2>2, <2>3, <2>5, <2>6, QuietRecorded
  <2> QED BY <2>2, <2>7 DEF ClaimOf
<1> QED BY <1>1, <1>2, <1>3
-----------------------------------------------------------------------------
(* A decided single request is recorded. *)

SingleRow(o, p, k, i) ==
  /\ outcomes' = Append(outcomes, o)
  /\ ClaimOf(o) = <<p, k>> /\ o.op = i.op /\ o.request = i
  /\ o.witnesses = Witnesses(i) /\ o.identity = Identity(i, Witnesses(i))

Quiet(p, k, i) ==
  /\ UNCHANGED <<identities, resources, events, versions>>
  /\ \E o : SingleRow(o, p, k, i) /\ o.position = 0

Names(expected, id) ==
  expected = 0 \/ (id \in DOMAIN resources /\ expected = resources[id].revision)

Moves(p, k, i) ==
  \E kind \in Kinds : \E verb, id, body, from, previous :
    /\ Complete(p, k, i, kind, verb, id, body, from, previous)
    /\ Names(i.expected, id)
    /\ verb # "delete" => IsBody(body) /\ body.revision = Revision

LEMMA DecideRow ==
  ASSUME NEW p, NEW k, NEW i, NEW response, NEW position, Decide(p, k, i, response, position)
  PROVE  \E o : SingleRow(o, p, k, i) /\ o.position = position
BY DEF Decide, SingleRow, ClaimOf

LEMMA RefuseIsQuiet ==
  ASSUME NEW p, NEW k, NEW i, NEW code, Refuse(p, k, i, code)
  PROVE  Quiet(p, k, i)
BY DecideRow DEF Refuse, Quiet

LEMMA CreateMoves ==
  ASSUME NEW p, NEW k, NEW i \in Invocations, NEW kind \in Kinds, NEW source, NEW target,
         i.op \in {"createBead", "createLink"}, PerformCreate(p, k, i, kind, source, target)
  PROVE  Quiet(p, k, i) \/ Moves(p, k, i)
<1> DEFINE body == Body(Revision, i.data, source, target)
<1>1. PICK id \in IF i.id = None THEN Unused ELSE {i.id} :
        \/ Refuse(p, k, i, CreateRefusal(i, kind, id, body))
        \/ Complete(p, k, i, kind, "create", id, body, 0, 0)
  BY Zenon DEF PerformCreate
<1>2. IsBody(body) /\ body.revision = Revision
  BY DEF IsBody, Body
<1>3. i.expected = 0
  BY InvocationsAssumption
<1> HIDE DEF body
<1>4. Complete(p, k, i, kind, "create", id, body, 0, 0) => Moves(p, k, i)
  BY <1>2, <1>3 DEF Moves, Names
<1> QED BY <1>1, <1>4, RefuseIsQuiet

LEMMA UpdateMoves ==
  ASSUME NEW p, NEW k, NEW i \in Invocations, NEW kind \in Kinds, NEW id, NEW source, NEW target,
         PerformUpdate(p, k, i, kind, id, source, target)
  PROVE  Quiet(p, k, i) \/ Moves(p, k, i)
<1> DEFINE refusal == UpdateRefusal(i, kind, id, source, target)
           next == Candidate(i, kind, id, source, target)
           body == [next EXCEPT !.revision = Revision]
<1>1. CASE \E code : Refuse(p, k, i, code)
  BY <1>1, RefuseIsQuiet
<1>2. CASE Unchanged(p, k, i, kind, id)
  BY <1>2, DecideRow DEF Unchanged, Quiet
<1>3. CASE refusal = "none"
             /\ Complete(p, k, i, kind, "update", id, body, i.from, Predecessor(i, kind, id))
  <2>1. IsLive(id, kind)
    BY <1>3, BatchesAssumption DEF UpdateRefusal, Recovering
  <2>2. Predecessor(i, kind, id) = resources[id].revision
    BY <2>1, BatchesAssumption DEF Predecessor, Recovering, Before
  <2>3. i.expected \in {0, Predecessor(i, kind, id)}
    BY <1>3, Zenon DEF UpdateRefusal
  <2>4. Names(i.expected, id)
    BY <2>1, <2>2, <2>3 DEF Names, IsLive
  <2>5. IsBody(body) /\ body.revision = Revision
    BY DEF Candidate, Body, IsBody
  <2> HIDE DEF body, next, refusal
  <2> QED BY <1>3, <2>4, <2>5 DEF Moves
<1> QED BY <1>1, <1>2, <1>3, Zenon DEF PerformUpdate

LEMMA DeleteMoves ==
  ASSUME NEW p, NEW k, NEW i \in Invocations, NEW kind \in Kinds, NEW id,
         PerformDelete(p, k, i, kind, id)
  PROVE  Quiet(p, k, i) \/ Moves(p, k, i)
<1>1. CASE Refuse(p, k, i, DeleteRefusal(i, kind, id))
  BY <1>1, RefuseIsQuiet
<1>2. CASE DeleteRefusal(i, kind, id) = "none"
             /\ Complete(p, k, i, kind, "delete", id, resources[id], 0, resources[id].revision)
  <2>1. Names(i.expected, id)
    BY <1>2 DEF DeleteRefusal, IsLive, Names
  <2> QED BY <1>2, <2>1 DEF Moves
<1> QED BY <1>1, <1>2 DEF PerformDelete

LEMMA ExecuteMoves ==
  ASSUME NEW p, NEW k, NEW i \in Invocations, Execute(p, k, i)
  PROVE  Quiet(p, k, i) \/ Moves(p, k, i)
<1>1. CASE CreateBead(p, k, i)
  BY <1>1, CreateMoves, RefuseIsQuiet DEF CreateBead, Kinds
<1>2. CASE UpdateBead(p, k, i)
  BY <1>2, UpdateMoves, RefuseIsQuiet DEF UpdateBead, Kinds
<1>3. CASE DeleteBead(p, k, i)
  BY <1>3, DeleteMoves, RefuseIsQuiet DEF DeleteBead, Kinds
<1>4. CASE CreateLink(p, k, i)
  BY <1>4, CreateMoves, RefuseIsQuiet DEF CreateLink, LinkRefused, Kinds
<1>5. CASE UpdateLink(p, k, i)
  BY <1>5, UpdateMoves, RefuseIsQuiet DEF UpdateLink, LinkRefused, Kinds
<1>6. CASE DeleteLink(p, k, i)
  BY <1>6, DeleteMoves, RefuseIsQuiet DEF DeleteLink, Kinds
<1>7. CASE PutAlias(p, k, i)
  BY <1>7, RefuseIsQuiet, DecideRow DEF PutAlias, Quiet
<1>8. CASE DeleteAlias(p, k, i)
  BY <1>8, RefuseIsQuiet, DecideRow DEF DeleteAlias, Quiet
<1> QED BY <1>1, <1>2, <1>3, <1>4, <1>5, <1>6, <1>7, <1>8 DEF Execute

LEMMA SingleRowSettled ==
  ASSUME Placed, NEW p, NEW k, NEW i \in Invocations, NEW o, SingleRow(o, p, k, i)
  PROVE  RowSettled(o) /\ o.op # "batch"
<1>1. Settled(o)
  BY NewDecisionSettled DEF SingleRow
<1>2. i.op # "batch"
  BY InvocationsAssumption DEF Invocation, Operations
<1> QED BY <1>1, <1>2 DEF RowSettled, SingleRow

\* A completed transition is recorded.
LEMMA MovesRecorded ==
  ASSUME BInv, NEW p, NEW k, NEW i \in Invocations, TableStep, Moves(p, k, i)
  PROVE  \E o : Recorded(o) /\ ClaimOf(o) = <<p, k>>
<1>0. Placed /\ LinkEndpointsLive /\ Bodies /\ IsSequence(events)
  BY DEF BInv
<1>1. PICK kind \in Kinds : \E verb, id, body, from, previous :
        /\ Complete(p, k, i, kind, verb, id, body, from, previous)
        /\ Names(i.expected, id)
        /\ verb # "delete" => IsBody(body) /\ body.revision = Revision
  BY DEF Moves
<1>2. PICK verb, id, body, from, previous :
        /\ Complete(p, k, i, kind, verb, id, body, from, previous)
        /\ Names(i.expected, id)
        /\ verb # "delete" => IsBody(body) /\ body.revision = Revision
  BY <1>1
<1>3. PICK e : /\ events' = Append(events, e) /\ e.subject = id
               /\ verb # "delete" => e.revision = Revision
  BY <1>2 DEF Complete, Terminal
<1>4. /\ IsSequence(events') /\ Len(events) \in Nat /\ Len(events') = Len(events) + 1
      /\ \A n \in 1..Len(events) : events'[n] = events[n]
      /\ events'[Len(events) + 1] = e
  BY <1>0, <1>3, AppendFacts
<1>5. Extends(events', events) /\ Fresh = {Len(events) + 1}
  BY <1>4 DEF Extends, Fresh
<1>6. resources' = IF verb = "delete" THEN Drop(resources, id) ELSE Put(resources, id, body)
  BY <1>2 DEF Complete
<1>7. Revises
  <2> SUFFICES ASSUME NEW x \in DOMAIN resources'
               PROVE  \/ /\ \E q \in Fresh : events'[q].subject = x
                         /\ \A q \in Fresh : events'[q].subject = x =>
                              events'[q].revision = resources'[x].revision
                      \/ /\ x \in DOMAIN resources
                         /\ resources'[x].revision = resources[x].revision
                         /\ \A q \in Fresh : events'[q].subject # x
    BY DEF Revises
  <2>1. CASE x = id
    <3>1. verb # "delete" /\ resources'[x] = body
      BY <1>6, <2>1 DEF Put, Drop
    <3> QED BY <1>2, <1>3, <1>4, <1>5, <2>1, <3>1
  <2>2. CASE x # id
    <3>1. x \in DOMAIN resources /\ resources'[x] = resources[x]
      BY <1>6, <2>2 DEF Put, Drop
    <3> QED BY <1>3, <1>4, <1>5, <2>2, <3>1
  <2> QED BY <2>1, <2>2
<1>8. Bodies'
  <2>1. ASSUME NEW x \in DOMAIN resources' PROVE IsBody(resources'[x])
    <3>1. \/ resources'[x] = body /\ verb # "delete"
          \/ (x \in DOMAIN resources /\ resources'[x] = resources[x])
      BY <1>6 DEF Put, Drop
    <3> QED BY <1>0, <1>2, <3>1 DEF Bodies
  <2> QED BY <2>1 DEF Bodies, IsBody, Body
<1>9. Placed' /\ LinkEndpointsLive'
  BY <1>0, PlacedStep, LinksStep
<1>10. \A x \in DOMAIN identities : x \in DOMAIN identities' /\ identities'[x] = identities[x]
  BY IdentitiesGrow
<1>11. PICK o : SingleRow(o, p, k, i) /\ o.position = Revision
  BY <1>2, DecideRow DEF Complete
<1>12. RowSettled(o) /\ o.op # "batch"
  BY <1>0, <1>11, SingleRowSettled
<1>13. FactsOf(o) = Fresh
  BY <1>4, <1>5, <1>11, <1>12 DEF FactsOf, Revision
<1>14. PICK n \in Nat : n = Len(events)
  BY <1>4
<1>15. GuardedRow(o, n)'
  <2>1. GuardedBy(id, i.expected, n)
    BY <1>2, <1>14, CurrentIsGuarded DEF Names
  <2>2. GuardedBy(id, i.expected, n)'
    BY <1>0, <1>4, <1>5, <1>14, <2>1, GuardedKept
  <2>3. o.position = n + 1 /\ o.position \in 1..Len(events') /\ events'[o.position].subject = id
    BY <1>3, <1>4, <1>11, <1>14 DEF Revision
  <2>4. o.request.expected = i.expected
    BY <1>11 DEF SingleRow
  <2> QED BY <1>12, <2>2, <2>3, <2>4 DEF GuardedRow
<1>16. outcomes' = Append(outcomes, o) /\ ClaimOf(o) = <<p, k>>
  BY <1>11 DEF SingleRow
<1>17. Recorded(o)
  BY <1>4, <1>5, <1>7, <1>8, <1>9, <1>10, <1>12, <1>13, <1>14, <1>15, <1>16 DEF Recorded
<1> QED BY <1>16, <1>17

LEMMA ApplyRecorded ==
  ASSUME BInv, NEW p, NEW k, NEW i \in Invocations, Apply(p, k, i)
  PROVE  \E o : Recorded(o) /\ ClaimOf(o) = <<p, k>>
<1>0. Placed
  BY DEF BInv
<1>1. Execute(p, k, i) /\ TableStep
  BY <1>0, ExecuteEffect DEF Apply
<1>2. CASE Quiet(p, k, i)
  <2>1. PICK o : SingleRow(o, p, k, i) /\ o.position = 0
    BY <1>2 DEF Quiet
  <2>2. RowSettled(o) /\ o.op # "batch"
    BY <1>0, <2>1, SingleRowSettled
  <2>3. FactsOf(o) = {} /\ \A n \in Nat : GuardedRow(o, n)'
    BY <2>1, <2>2 DEF FactsOf, GuardedRow
  <2>4. Placed'
    BY <1>0, <1>1, PlacedStep
  <2>5. Recorded(o)
    BY <1>2, <2>1, <2>2, <2>3, <2>4, QuietRecorded DEF Quiet, SingleRow
  <2> QED BY <2>1, <2>5 DEF SingleRow
<1>3. CASE Moves(p, k, i)
  BY <1>1, <1>3, MovesRecorded
<1> QED BY <1>1, <1>2, <1>3, ExecuteMoves
-----------------------------------------------------------------------------
(* The theorems. *)

LEMMA InitBInv == Init => BInv
<1> SUFFICES ASSUME Init PROVE BInv
  OBVIOUS
<1>1. /\ identities = NoRow /\ resources = NoRow /\ aliases = NoRow /\ versions = {}
      /\ events = <<>> /\ outcomes = <<>> /\ DOMAIN NoRow = {}
  BY DEF Init, NoRow
<1>2. Placed /\ LinkEndpointsLive /\ Bodies /\ CurrentRevisions
  BY <1>1 DEF Placed, LinkEndpointsLive, Bodies, CurrentRevisions
<1>3. events \in Seq({}) /\ outcomes \in Seq({}) /\ Len(events) = 0 /\ Len(outcomes) = 0
  BY <1>1
<1>4. Facts(0) = {}
  BY DEF Facts
<1> QED BY <1>2, <1>3, <1>4 DEF BInv, IsSequence

LEMMA UnchangedBInv ==
  ASSUME BInv, UNCHANGED tables
  PROVE  BInv'
<1>1. Placed' /\ LinkEndpointsLive' /\ Bodies' /\ CurrentRevisions'
  BY DEF BInv, tables, Placed, LinkEndpointsLive, LocalEndpoints, IsLive, Bodies, IsBody,
         Body, CurrentRevisions, LastEvent
<1>2. IsSequence(events)' /\ IsSequence(outcomes)' /\ Facts(Len(outcomes))' = 1..Len(events')
  BY DEF BInv, tables, IsSequence, Facts
<1>3. ASSUME NEW d \in 1..Len(outcomes) PROVE RowSettled(outcomes[d])' /\ GuardedOutcome(d)'
  <2>1. RowSettled(outcomes[d]) /\ GuardedOutcome(d) /\ outcomes' = outcomes
          /\ events' = events /\ identities' = identities
    BY DEF BInv, tables
  <2>2. RowSettled(outcomes[d])'
    BY <2>1 DEF RowSettled, BatchSettled, Settled, NeverAlias
  <2>3. GuardedOutcome(d)'
    BY <2>1, ZenonT(30) DEF GuardedOutcome, GuardedRow, GuardedBy, LastEvent, Facts
  <2> QED BY <2>2, <2>3
<1> QED BY <1>1, <1>2, <1>3 DEF BInv, tables, IsSequence

\* A step of the store records one decision or leaves the tables alone.
LEMMA BatchSteps ==
  ASSUME BInv, [BatchNext]_vars
  PROVE  \/ \E p \in Principals, k \in Keys : \E o :
               /\ Recorded(o) /\ ClaimOf(o) = <<p, k>>
               /\ Claim(p, k) = {} /\ Committed(p, k)
         \/ \E p \in Principals, k \in Keys, d \in 1..Len(outcomes) :
               /\ ClaimOf(outcomes[d]) = <<p, k>> /\ UNCHANGED tables
               /\ acked' = acked \cup
                    {[principal |-> p, key |-> k, response |-> outcomes[d].response]}
         \/ UNCHANGED <<tables, acked>>
<1>1. ASSUME NEW p \in Principals, NEW k \in Keys, NEW i \in Invocations, Apply(p, k, i)
      PROVE  \E o : Recorded(o) /\ ClaimOf(o) = <<p, k>> /\ Claim(p, k) = {} /\ Committed(p, k)
  BY <1>1, ApplyRecorded DEF Apply
<1>2. ASSUME NEW p \in Principals, NEW k \in Keys, NEW B \in Batches, ApplyBatch(p, k, B)
      PROVE  \E o : Recorded(o) /\ ClaimOf(o) = <<p, k>> /\ Claim(p, k) = {} /\ Committed(p, k)
  BY <1>2, ApplyBatchRecorded DEF ApplyBatch
<1>3. ASSUME NEW p \in Principals, NEW k \in Keys, NEW x, Replay(p, k, x) \/ ReplayBatch(p, k, x)
      PROVE  \E d \in 1..Len(outcomes) :
               /\ ClaimOf(outcomes[d]) = <<p, k>> /\ UNCHANGED tables
               /\ acked' = acked \cup
                    {[principal |-> p, key |-> k, response |-> outcomes[d].response]}
  BY <1>3 DEF Replay, ReplayBatch, Claim, ClaimOf
<1>4. CASE Fail \/ Stop \/ OpenGrouped \/ UNCHANGED vars
  BY <1>4 DEF Fail, Stop, OpenGrouped, vars
<1> QED BY <1>1, <1>2, <1>3, <1>4, ZenonT(30) DEF BatchNext

LEMMA NextBInv == BInv /\ [BatchNext]_vars => BInv'
BY BatchSteps, RecordedStep, UnchangedBInv

THEOREM BatchInvariance == BatchSpec => []BInv
BY InitBInv, NextBInv, PTL DEF BatchSpec

(* Links join only live Beads whatever batches and single requests do:
   LinkEndpointsLive for every instance. *)
THEOREM BatchLinksAreLive == BatchSpec => []LinkEndpointsLive
<1>1. BInv => LinkEndpointsLive
  BY DEF BInv
<1> QED BY <1>1, BatchInvariance, PTL

(* A repeated batch is recognised for ever, whatever became of the aliases it
   mentions: BatchRetryIsRecognised for every instance. *)
THEOREM BatchRetriesAreRecognised == BatchSpec => []BatchRetryIsRecognised
<1>1. BInv => BatchRetryIsRecognised
  BY BatchRecognised DEF BInv, RowSettled, BatchRetryIsRecognised
<1> QED BY <1>1, BatchInvariance, PTL

(* A guarded write took effect only on the version its caller named, in a batch
   and alone: GuardsHold for every instance. *)
THEOREM GuardsAlwaysHold == BatchSpec => []GuardsHold
<1>1. ASSUME BInv, NEW d \in 1..Len(outcomes)
      PROVE  LET o == outcomes[d] IN
             IF o.op = "batch"
             THEN Accepted(o) =>
                    \A n \in 1..Len(o.request) :
                      GuardedBy(o.response.ids[n], o.request[n].request.expected, EventsBefore(d))
             ELSE o.position # 0 =>
                    GuardedBy(events[o.position].subject, o.request.expected, o.position - 1)
  <2>1. PICK n \in 0..Len(events) : Facts(d - 1) = 1..n /\ GuardedRow(outcomes[d], n)
    BY <1>1 DEF BInv, GuardedOutcome
  <2>2. n \in Nat
    BY <1>1, <2>1 DEF BInv, IsSequence
  <2>3. EventsBefore(d) = n
    <3>1. Cardinality(1..n) = n
      BY <2>2, FS_Interval
    <3> QED BY <2>1, <3>1 DEF EventsBefore, Facts
  <2>4. outcomes[d].op # "batch" /\ outcomes[d].position # 0 => outcomes[d].position - 1 = n
    BY <2>1, <2>2 DEF GuardedRow
  <2> QED BY <2>1, <2>3, <2>4 DEF GuardedRow
<1>2. BInv => GuardsHold
  BY <1>1 DEF GuardsHold
<1> QED BY <1>2, BatchInvariance, PTL

(* Decisions, events and identities only grow, batch by batch as well:
   HistoryIsPermanent for every instance. *)
THEOREM BatchHistoryStays == BatchSpec => HistoryIsPermanent
<1> DEFINE Grows ==
      /\ Extends(outcomes', outcomes)
      /\ Extends(events', events)
      /\ \A id \in DOMAIN identities : id \in DOMAIN identities' /\ identities'[id] = identities[id]
<1>1. ASSUME BInv, [BatchNext]_vars PROVE Grows
  <2>1. ASSUME NEW o, Recorded(o) PROVE Grows
    BY <1>1, <2>1, AppendFacts DEF BInv, Recorded, Extends
  <2>2. CASE UNCHANGED tables
    BY <1>1, <2>2 DEF BInv, tables, Extends, IsSequence
  <2> QED BY <1>1, <2>1, <2>2, BatchSteps
<1>2. BInv /\ [BatchNext]_vars => [Grows]_vars
  BY <1>1
<1> QED BY <1>2, BatchInvariance, PTL DEF BatchSpec, HistoryIsPermanent

LEMMA BatchNextLedger ==
  BInv /\ LInv /\ [BatchNext]_vars => LInv' /\ [Ledger!Next]_(Ledger!vars)
<1> SUFFICES ASSUME BInv, LInv, [BatchNext]_vars
             PROVE  LInv' /\ [Ledger!Next]_(Ledger!vars)
  OBVIOUS
<1>1. ASSUME NEW p \in Principals, NEW k \in Keys, NEW o,
             Recorded(o), ClaimOf(o) = <<p, k>>, Claim(p, k) = {}, Committed(p, k)
      PROVE  LInv' /\ Ledger!Next
  BY <1>1, RecordLedger DEF Recorded, Ledger!Next
<1>2. ASSUME NEW p \in Principals, NEW k \in Keys, NEW d \in 1..Len(outcomes),
             ClaimOf(outcomes[d]) = <<p, k>>, UNCHANGED tables,
             acked' = acked \cup
               {[principal |-> p, key |-> k, response |-> outcomes[d].response]}
      PROVE  LInv' /\ Ledger!Next
  <2>1. outcomes' = outcomes
    BY <1>2 DEF tables
  <2>2. LInv'
    BY <2>1 DEF LInv, IsSequence, OncePerClaim
  <2> QED BY <1>2, <2>1, <2>2, TellLedger DEF Ledger!Next
<1>3. CASE UNCHANGED <<outcomes, acked>>
  BY <1>3 DEF LInv, IsSequence, OncePerClaim, Ledger!vars
<1> QED BY <1>1, <1>2, <1>3, BatchSteps DEF tables

(* Batches and single requests together implement the decision ledger:
   ImplementsLedger for every instance. *)
THEOREM BatchesImplementLedger == BatchSpec => ImplementsLedger
BY BatchInvariance, InitLedger, BatchNextLedger, PTL
  DEF BatchSpec, ImplementsLedger, Ledger!Spec
-----------------------------------------------------------------------------
(* A batch of one member and the single request. *)

Singleton(i) ==
  /\ i \in Invocations /\ i.id # None /\ i.from = 0
  /\ i.op \notin {"putAlias", "deleteAlias"}

Undrawn == [n \in {} |-> None]

LEMMA SingletonOp ==
  ASSUME NEW i, Singleton(i)
  PROVE  /\ i.id \in Uris
         /\ i.op \in {"createBead", "updateBead", "deleteBead",
                      "createLink", "updateLink", "deleteLink"}
         /\ VerbOf(i.op) = "create" => i.data \in Values
         /\ VerbOf(i.op) \in {"create", "update", "delete"}
         /\ KindOf(i.op) \in Kinds
BY InvocationsAssumption DEF Singleton, Invocation, Operations, VerbOf, KindOf, Kinds

LEMMA SoloShape ==
  ASSUME NEW i, Singleton(i)
  PROVE  /\ Len(Solo(i)) = 1
         /\ Solo(i)[1].request = i /\ DOMAIN Solo(i)[1].handles = {}
         /\ Solo(i)[1].provenance = None
         /\ Explicit(Solo(i), 1) = {}
         /\ OpenSlots(Solo(i), 1) = Slots(i)
<1>1. /\ Len(Solo(i)) = 1
      /\ Solo(i)[1].request = i /\ DOMAIN Solo(i)[1].handles = {}
      /\ Solo(i)[1].provenance = None
  BY DEF Solo
<1>2. {m \in 1..(1 - 1) : Creates(Solo(i), m)} = {}
  OBVIOUS
<1>3. Explicit(Solo(i), 1) = {}
  BY <1>2 DEF Explicit
<1> QED BY <1>1, <1>3 DEF OpenSlots

LEMMA SoloWitnesses ==
  ASSUME NEW i, Singleton(i)
  PROVE  BatchWitnesses(Solo(i)) = Witnesses(i)
<1> DEFINE B == Solo(i)
           looked == UNION {{B[n].request[s] : s \in OpenSlots(B, n)} \ Explicit(B, n)
                              : n \in 1..Len(B)}
           named == {i[s] : s \in Slots(i)}
<1>1. looked = named
  <2>1. 1..Len(B) = {1}
    <3>1. Len(B) = 1
      BY SoloShape
    <3> QED BY ONLY <3>1
  <2>2. {B[1].request[s] : s \in OpenSlots(B, 1)} \ Explicit(B, 1) = named
    BY SoloShape
  <2> HIDE DEF B
  <2> QED BY <2>1, <2>2
<1>2. named \subseteq Uris \cup External
  BY SlotsAreUris DEF Singleton
<1>3. {u \in looked : ~IsDirect(u)} = named \ {u \in Uris \cup External : IsDirect(u)}
  <2> HIDE DEF looked, named
  <2> QED BY <1>1, <1>2
<1>4. BatchWitnesses(B) = [uri \in {u \in looked : ~IsDirect(u)} |-> AliasTarget(uri)]
  BY DEF BatchWitnesses
<1>5. Witnesses(i) =
        [uri \in named \ {u \in Uris \cup External : IsDirect(u)} |-> AliasTarget(uri)]
  BY DEF Witnesses
<1> HIDE DEF looked, named
<1> QED BY <1>3, <1>4, <1>5

LEMMA SoloReference ==
  ASSUME NEW i, Singleton(i), NEW g, NEW s
  PROVE  Reference(g, Solo(i), 1, s) = At(i, s)
<1>1. Compared(Solo(i), 1, s, Witnesses(i)) = Resolve(i[s], Witnesses(i))
  BY SoloShape DEF Compared
<1> QED BY <1>1, SoloShape, SoloWitnesses DEF Reference, At

\* The member's References are bound when the request's are.
LEMMA SoloBound ==
  ASSUME NEW i, Singleton(i), NEW g
  PROVE  /\ \A s \in {"source", "target"} : Has(Solo(i)[1], s) <=> i[s] # None
         /\ EndpointsBound(g, Solo(i), 1) <=> \A s \in {"source", "target"} : At(i, s).bound
         /\ (\A s \in Slots(i) : At(i, s).bound)
              <=> (At(i, "id").bound /\ \A s \in {"source", "target"} : At(i, s).bound)
<1>1. \A s \in {"source", "target"} : Has(Solo(i)[1], s) <=> i[s] # None
  BY SoloShape DEF Has
<1>2. \A s : s \notin Slots(i) => At(i, s).bound
  BY DEF At, Bound
<1>3. \A s \in {"source", "target"} : i[s] = None => s \notin Slots(i)
  BY SingletonOp DEF Slots
<1>4. Slots(i) \subseteq {"id", "source", "target"}
  BY SingletonOp DEF Slots
<1>5. EndpointsBound(g, Solo(i), 1) <=> \A s \in {"source", "target"} : At(i, s).bound
  BY <1>1, <1>2, <1>3, SoloReference DEF EndpointsBound
<1> QED BY <1>1, <1>2, <1>4, <1>5

LEMMA SoloStaged ==
  ASSUME NEW i, Singleton(i), NEW g, NEW old, NEW data
  PROVE  Staged(g, Solo(i), 1, old, data) =
           Body(old.revision, data,
                IF At(i, "source").uri = None THEN old.source ELSE At(i, "source").uri,
                IF At(i, "target").uri = None THEN old.target ELSE At(i, "target").uri)
<1>1. \A s \in {"source", "target"} : At(i, s).uri = None <=> i[s] = None
  <2> TAKE s \in {"source", "target"}
  <2>1. CASE s \notin Slots(i)
    BY <2>1 DEF At, Bound
  <2>2. CASE s \in Slots(i)
    <3>1. i[s] # None
      BY <2>2, SlotsAreUris, UrisAssumption DEF Singleton
    <3> QED BY <2>2, <3>1 DEF At, Resolve, Bound, Missing
  <2> QED BY <2>1, <2>2
<1>2. \A s \in {"source", "target"} : Reference(g, Solo(i), 1, s) = At(i, s)
  BY SoloReference
<1> QED BY <1>1, <1>2, SoloBound DEF Staged

\* The working graph of such a batch.
SoloId(i) == At(i, "id").uri
SoloOld(i) == resources[SoloId(i)]
SoloFresh(i) == Body(0, i.data, At(i, "source").uri, At(i, "target").uri)
SoloNext(i) ==
  Body(SoloOld(i).revision, Edit[i.data][SoloOld(i).data],
       IF At(i, "source").uri = None THEN SoloOld(i).source ELSE At(i, "source").uri,
       IF At(i, "target").uri = None THEN SoloOld(i).target ELSE At(i, "target").uri)

SoloCode(i) ==
  LET g == InitialGraph
      kind == KindOf(i.op) IN
  IF i.refused THEN "validation-failed"
  ELSE IF VerbOf(i.op) = "create" THEN CreateCode(g, Solo(i), 1, SoloId(i), SoloFresh(i))
  ELSE ChangeCode(g, Solo(i), 1, kind)

SoloLive(i) ==
  LET live == InitialGraph.live
      kind == KindOf(i.op) IN
  CASE VerbOf(i.op) = "create" -> Put(live, SoloId(i), [kind |-> kind, body |-> SoloFresh(i)])
    [] VerbOf(i.op) = "delete" -> Drop(live, SoloId(i))
    [] OTHER -> Put(live, SoloId(i),
                    [kind |-> kind,
                     body |-> Staged(InitialGraph, Solo(i), 1, live[SoloId(i)].body,
                                     Edit[i.data][live[SoloId(i)].body.data])])

LEMMA SoloGraph ==
  ASSUME NEW i, Singleton(i)
  PROVE  LET g == WorkingGraph(Solo(i), Undrawn) IN
         /\ g.code = SoloCode(i)
         /\ SoloCode(i) = "none" => g.ids = <<SoloId(i)>> /\ g.live = SoloLive(i)
<1> DEFINE B == Solo(i)
           g == WorkingGraph(B, Undrawn)
           g0 == InitialGraph
           id == IF Creates(B, 1) THEN i.id ELSE SoloId(i)
           fresh == Staged(g0, B, 1, Body(0, None, None, None), i.data)
           code == IF i.refused THEN "validation-failed"
                   ELSE IF Creates(B, 1) THEN CreateCode(g0, B, 1, id, fresh)
                   ELSE ChangeCode(g0, B, 1, KindOf(i.op))
           live == CASE VerbOf(i.op) = "create" -> Put(g0.live, id, [kind |-> KindOf(i.op), body |-> fresh])
                     [] VerbOf(i.op) = "delete" -> Drop(g0.live, id)
                     [] OTHER -> LET old == g0.live[id].body IN
                          Put(g0.live, id, [kind |-> KindOf(i.op),
                            body |-> Staged(g0, B, 1, old, Edit[i.data][old.data])])
           after == [live |-> live, ids |-> Append(g0.ids, id), code |-> "none",
                     allocated |-> g0.allocated \cup IF Creates(B, 1) THEN {id} ELSE {}]
<1>1. g = Member(g0, B, 1, Undrawn)
  <2>1. Len(B) = 1
    BY SoloShape
  <2>2. Graphs(B, Undrawn)[0] = g0 /\ Graphs(B, Undrawn)[1] = Member(Graphs(B, Undrawn)[1 - 1], B, 1, Undrawn)
    BY <2>1, GraphsUnfold
  <2> QED BY <2>1, <2>2 DEF WorkingGraph
<1>2. B[1].request = i /\ i.id # None
  BY SoloShape DEF Singleton
<1>3. Reference(g0, B, 1, "id").uri = SoloId(i)
  BY SoloReference DEF SoloId
<1>4. Member(g0, B, 1, Undrawn) =
        IF g0.code # "none" THEN g0
        ELSE IF code # "none" THEN [g0 EXCEPT !.code = code] ELSE after
  <2> HIDE DEF B, g0
  <2> QED BY <1>2, <1>3, Zenon DEF Member
<1>5. g0.code = "none" /\ "code" \in DOMAIN g0 /\ g0.ids = <<>>
  BY DEF InitialGraph
<1>6. Creates(B, 1) <=> VerbOf(i.op) = "create"
  BY <1>2 DEF Creates
<1>7. VerbOf(i.op) = "create" => i.id = SoloId(i)
  BY SingletonOp DEF VerbOf, SoloId, At, Slots, Bound
<1>8. fresh = SoloFresh(i)
  <2>1. At(i, "source").uri = IF At(i, "source").uri = None THEN None ELSE At(i, "source").uri
    OBVIOUS
  <2>2. At(i, "target").uri = IF At(i, "target").uri = None THEN None ELSE At(i, "target").uri
    OBVIOUS
  <2>3. fresh = Body(0, i.data, IF At(i, "source").uri = None THEN None ELSE At(i, "source").uri,
                        IF At(i, "target").uri = None THEN None ELSE At(i, "target").uri)
    BY SoloStaged DEF Body
  <2> QED BY <2>1, <2>2, <2>3 DEF SoloFresh
<1>9. id = SoloId(i)
  BY <1>6, <1>7
<1> HIDE DEF g, g0, B, fresh
<1>10. code = SoloCode(i)
  BY <1>6, <1>7, <1>8 DEF SoloCode, g0, B
<1>11. live = SoloLive(i)
  <2> HIDE DEF id
  <2> QED BY <1>8, <1>9, Zenon DEF SoloLive, g0, B
<1> HIDE DEF code, live, id
<1>12. CASE code # "none"
  BY <1>1, <1>4, <1>5, <1>10, <1>12 DEF g, B
<1>13. CASE code = "none"
  <2>1. g = after
    BY <1>1, <1>4, <1>5, <1>13
  <2>2. g.code = "none" /\ g.ids = Append(g0.ids, id) /\ g.live = live
    BY <2>1
  <2> QED BY <1>5, <1>9, <1>10, <1>11, <1>13, <2>2 DEF g, B
<1> QED BY <1>12, <1>13

\* The Resource of the request before the batch, in the working graph.
LEMMA SoloBefore ==
  ASSUME Placed, NEW id
  PROVE  /\ DOMAIN InitialGraph.live = DOMAIN resources
         /\ InitialGraph.allocated = {}
         /\ id \in DOMAIN resources =>
              /\ InitialGraph.live[id].body = resources[id]
              /\ \A kind : InitialGraph.live[id].kind = kind <=> IsLive(id, kind)
         /\ Incidents(InitialGraph, id) = IncidentLinks(id)
<1>1. /\ DOMAIN InitialGraph.live = DOMAIN resources
      /\ \A x \in DOMAIN resources :
           InitialGraph.live[x].body = resources[x] /\ InitialGraph.live[x].kind = identities[x]
      /\ InitialGraph.allocated = {}
  BY DEF InitialGraph
<1>2. Incidents(InitialGraph, id) = IncidentLinks(id)
  BY <1>1 DEF Incidents, IncidentLinks
<1> QED BY <1>1, <1>2 DEF IsLive

LEMMA SoloEndpoint ==
  ASSUME NEW kind, NEW a, NEW b, LocalEndpoints(a) = LocalEndpoints(b)
  PROVE  EndpointCode(InitialGraph, kind, a) = EndpointRefusal(kind, b)
<1>1. /\ DOMAIN InitialGraph.live = DOMAIN resources
      /\ \A x \in DOMAIN resources : InitialGraph.live[x].kind = identities[x]
  BY DEF InitialGraph
<1>2. CASE kind = "bead"
  BY <1>2 DEF EndpointCode, EndpointRefusal
<1>3. CASE kind # "bead" /\ \E uri \in LocalEndpoints(a) : uri \notin DOMAIN resources
  BY <1>1, <1>3 DEF EndpointCode, EndpointRefusal
<1>4. CASE kind # "bead" /\ \A uri \in LocalEndpoints(a) : uri \in DOMAIN resources
  BY <1>1, <1>4 DEF EndpointCode, EndpointRefusal
<1> QED BY <1>2, <1>3, <1>4

\* What is left of a batch of one member.
LEMMA SoloLeft ==
  ASSUME NEW i, Singleton(i), NEW g, NEW id \in Uris, g.ids = <<id>>, g.code = "none"
  PROVE  /\ TouchedIds(g) = {id}
         /\ Outcome(g, id) \in {"created", "updated", "deleted"} =>
              Position(g, id) = Len(events) + 1
         /\ BatchCode(Solo(i), g) = "none" <=>
              ~(Outcome(g, id) \in {"created", "updated"} /\ g.live[id].body.data \in Oversize)
<1>1. Len(g.ids) = 1 /\ g.ids[1] = id
  OBVIOUS
<1>2. 1..Len(g.ids) = {1}
  BY ONLY <1>1
<1>3. TouchedIds(g) = {id}
  BY <1>1, <1>2 DEF TouchedIds
<1>4. ASSUME Outcome(g, id) \in {"created", "updated", "deleted"}
      PROVE  Position(g, id) = Len(events) + 1
  <2>1. {x \in TouchedIds(g) : Outcome(g, x) \in {"created", "updated", "deleted"}} = {id}
    BY <1>3, <1>4
  <2>2. Effects(g) = InOrder({id})
    BY <2>1, Zenon DEF Effects
  <2>3. PICK s : s = InOrder({id})
    OBVIOUS
  <2>4. /\ s \in Seq(Uris) /\ \A l, m \in 1..Len(s) : s[l] = s[m] => l = m
        /\ \A x : (\E m \in 1..Len(s) : s[m] = x) <=> x \in {id}
    BY <2>3, InOrderIsAll, InOrderOnce, ZenonT(30)
  <2>5. \A m \in 1..Len(s) : s[m] = id
    BY <2>4
  <2>6. PICK m \in 1..Len(s) : s[m] = id
    BY <2>4
  <2>7. 1 \in 1..Len(s) /\ \A n \in 1..Len(s) : n = 1
    BY <2>4, <2>5, <2>6
  <2>8. (CHOOSE n \in 1..Len(s) : s[n] = id) = 1
    BY <2>5, <2>7
  <2> QED BY <2>2, <2>3, <2>8 DEF Position
<1>5. Len(Solo(i)) = 1 /\ Solo(i)[1].provenance = None
  BY SoloShape
<1>6. 1..Len(Solo(i)) = {1}
  BY ONLY <1>5
<1>7. ~Conflict(g, Solo(i))
  BY <1>5, <1>6 DEF Conflict
<1>8. TooLarge(g) <=> Outcome(g, id) \in {"created", "updated"} /\ g.live[id].body.data \in Oversize
  BY <1>1, <1>2 DEF TooLarge
<1>9. ~(Len(Solo(i)) > MaximumOperations)
  BY <1>5, BatchesAssumption
<1>10. BatchCode(Solo(i), g) = "none" <=> ~TooLarge(g)
  BY <1>7, <1>9, Zenon DEF BatchCode
<1> QED BY <1>3, <1>4, <1>8, <1>10

LEMMA SoloRefused ==
  ASSUME NEW i, Singleton(i), NEW g, g.code # "none"
  PROVE  BatchCode(Solo(i), g) # "none"
BY Zenon DEF BatchCode

Agrees(i) ==
  LET g == WorkingGraph(Solo(i), Undrawn)
      single == SingleBound(i) /\ SingleRefusal(i) = "none" IN
  /\ single <=> BatchCode(Solo(i), g) = "none"
  /\ single => /\ g.ids = <<At(i, "id").uri>>
               /\ Published(g, g.ids[1]) = SingleBody(i)

LEMMA SoloSlots ==
  ASSUME NEW i, Singleton(i)
  PROVE  SingleBound(i) <=> /\ ~i.refused /\ At(i, "id").bound
                            /\ EndpointsBound(InitialGraph, Solo(i), 1)
BY SoloBound DEF SingleBound

\* A member that stays live: what the batch publishes of it.
LEMMA SoloPut ==
  ASSUME Placed, NEW i, Singleton(i), NEW g, NEW id \in Uris, g.code = "none", g.ids = <<id>>,
         NEW body, IsBody(body), NEW kind,
         g.live = Put(InitialGraph.live, id, [kind |-> kind, body |-> body])
  PROVE  LET same == id \in DOMAIN resources /\ body = resources[id] IN
         /\ BatchCode(Solo(i), g) = "none" <=> same \/ body.data \notin Oversize
         /\ Published(g, id) =
              IF same THEN body ELSE Body(Revision, body.data, body.source, body.target)
<1>1. id \in DOMAIN g.live /\ g.live[id].body = body
  BY DEF Put
<1>2. Outcome(g, id) = IF id \notin DOMAIN resources THEN "created"
                       ELSE IF body = resources[id] THEN "unchanged" ELSE "updated"
  BY <1>1 DEF Outcome
<1>3. CASE id \in DOMAIN resources /\ body = resources[id]
  <2>1. Outcome(g, id) = "unchanged"
    BY <1>2, <1>3
  <2>2. Published(g, id) = resources[id]
    BY <2>1 DEF Published
  <2> QED BY <1>3, <2>1, <2>2, SoloLeft
<1>4. CASE ~(id \in DOMAIN resources /\ body = resources[id])
  <2>1. Outcome(g, id) \in {"created", "updated"}
    BY <1>2, <1>4
  <2>2. Position(g, id) = Revision
    BY <2>1, SoloLeft DEF Revision
  <2>3. Published(g, id) = [body EXCEPT !.revision = Revision]
    BY <1>1, <2>1, <2>2, Zenon DEF Published
  <2>4. Published(g, id) = Body(Revision, body.data, body.source, body.target)
    BY <2>3, Revised
  <2>5. BatchCode(Solo(i), g) = "none" <=> body.data \notin Oversize
    BY <1>1, <2>1, SoloLeft
  <2> QED BY <1>4, <2>4, <2>5
<1> QED BY <1>3, <1>4

LEMMA SoloCreates ==
  ASSUME Placed, NEW i, Singleton(i), VerbOf(i.op) = "create"
  PROVE  Agrees(i)
<1> DEFINE g == WorkingGraph(Solo(i), Undrawn)
           id == SoloId(i)
           kind == KindOf(i.op)
           body == Body(Revision, i.data, At(i, "source").uri, At(i, "target").uri)
           single == SingleBound(i) /\ SingleRefusal(i) = "none"
<1>1. g.code = SoloCode(i) /\ (SoloCode(i) = "none" => g.ids = <<id>> /\ g.live = SoloLive(i))
  BY SoloGraph
<1>2. id = i.id /\ id \in Uris /\ At(i, "id").bound
  BY SingletonOp DEF VerbOf, SoloId, At, Slots, Bound
<1>3. EndpointCode(InitialGraph, kind, SoloFresh(i)) = EndpointRefusal(kind, body)
  <2>1. LocalEndpoints(SoloFresh(i)) = LocalEndpoints(body)
    BY DEF LocalEndpoints, SoloFresh, Body
  <2> QED BY <2>1, SoloEndpoint
<1>4. SoloCode(i) = IF i.refused THEN "validation-failed"
                    ELSE CreateCode(InitialGraph, Solo(i), 1, id, SoloFresh(i))
  BY Zenon DEF SoloCode
<1>5. CreateCode(InitialGraph, Solo(i), 1, id, SoloFresh(i)) = "none"
        <=> /\ id \notin DOMAIN identities \cup Reserved /\ id \notin DOMAIN aliases
            /\ EndpointsBound(InitialGraph, Solo(i), 1)
            /\ EndpointRefusal(kind, body) = "none"
  <2>1. Solo(i)[1].request = i /\ InitialGraph.allocated = {}
    BY SoloShape DEF InitialGraph
  <2> QED BY <1>3, <2>1 DEF CreateCode
<1>6. SingleRefusal(i) = CreateRefusal(i, kind, id, body)
  BY Zenon DEF SingleRefusal, SoloId
<1>7. single <=> SoloCode(i) = "none" /\ i.data \notin Oversize
  <2>1. CreateRefusal(i, kind, id, body) = "none"
          <=> /\ id \notin DOMAIN identities \cup Reserved /\ id \notin DOMAIN aliases
              /\ EndpointRefusal(kind, body) = "none" /\ i.data \notin Oversize
    BY DEF CreateRefusal
  <2> HIDE DEF body, id, kind
  <2> QED BY <1>2, <1>4, <1>5, <1>6, <2>1, SoloSlots
<1>8. CASE SoloCode(i) # "none"
  <2> HIDE DEF g, single
  <2>1. BatchCode(Solo(i), g) # "none"
    BY <1>1, <1>8, SoloRefused
  <2> QED BY <1>7, <1>8, <2>1, Zenon DEF Agrees, g, single
<1>9. CASE SoloCode(i) = "none"
  <2>1. g.live = Put(InitialGraph.live, id, [kind |-> kind, body |-> SoloFresh(i)])
    BY <1>1, <1>9 DEF SoloLive
  <2>2. IsBody(SoloFresh(i)) /\ SoloFresh(i).data = i.data
          /\ SoloFresh(i).source = At(i, "source").uri /\ SoloFresh(i).target = At(i, "target").uri
    BY DEF IsBody, SoloFresh, Body
  <2>3. id \notin DOMAIN resources
    BY <1>4, <1>5, <1>9 DEF Placed
  <2> HIDE DEF g
  <2>4. /\ BatchCode(Solo(i), g) = "none" <=> i.data \notin Oversize
        /\ Published(g, id) = body
    BY <1>1, <1>2, <1>9, <2>1, <2>2, <2>3, SoloPut
  <2>5. SingleBody(i) = body /\ At(i, "id").uri = id /\ g.ids = <<id>>
    BY <1>1, <1>9, Zenon DEF SingleBody, SoloId
  <2>6. g.ids[1] = id
    BY <2>5
  <2> HIDE DEF single, body, id
  <2> QED BY <1>7, <1>9, <2>4, <2>5, <2>6, Zenon DEF Agrees, g, single
<1> QED BY <1>8, <1>9

LEMMA SoloUpdates ==
  ASSUME Placed, NEW i, Singleton(i), VerbOf(i.op) = "update"
  PROVE  Agrees(i)
<1> DEFINE g == WorkingGraph(Solo(i), Undrawn)
           id == SoloId(i)
           kind == KindOf(i.op)
           next == SoloNext(i)
           candidate == Candidate(i, kind, id, At(i, "source").uri, At(i, "target").uri)
           refusal == UpdateRefusal(i, kind, id, At(i, "source").uri, At(i, "target").uri)
           single == SingleBound(i) /\ SingleRefusal(i) = "none"
           staged == Staged(InitialGraph, Solo(i), 1, InitialGraph.live[id].body,
                            Edit[i.data][InitialGraph.live[id].body.data])
           may == /\ IsLive(id, kind) /\ i.expected \in {0, resources[id].revision}
                  /\ i.data \notin Oversize
                  /\ Edit[i.data][resources[id].data] # Invalid
                  /\ EndpointRefusal(kind, next) = "none"
<1>1. g.code = SoloCode(i) /\ (SoloCode(i) = "none" => g.ids = <<id>> /\ g.live = SoloLive(i))
  BY SoloGraph
<1>2. i.from = 0 /\ ~Recovering(i, kind, id)
  BY DEF Singleton, Recovering
<1>3. IsLive(id, kind) => Before(i, kind, id) = resources[id] /\ Source(i, kind, id) = resources[id]
        /\ Predecessor(i, kind, id) = resources[id].revision
  BY <1>2 DEF Before, Source, Predecessor
<1>4. IsLive(id, kind) => candidate = next
  BY <1>3 DEF Candidate, SoloNext, SoloOld
<1>5. refusal = "none" <=> may
  <2>1. CASE ~IsLive(id, kind)
    BY <1>2, <2>1 DEF UpdateRefusal
  <2>2. CASE IsLive(id, kind)
    <3>1. refusal = IF i.expected \notin {0, resources[id].revision} THEN "revision-mismatch"
                    ELSE IF i.data \in Oversize THEN "limit-exceeded"
                    ELSE IF Edit[i.data][resources[id].data] = Invalid THEN "validation-failed"
                    ELSE EndpointRefusal(kind, next)
      <4> HIDE DEF candidate, next, id, kind
      <4> QED BY <1>2, <1>3, <1>4, <2>2 DEF UpdateRefusal, candidate
    <3> HIDE DEF refusal, next, id, kind
    <3> QED BY <2>2, <3>1
  <2> QED BY <2>1, <2>2
<1>6. SingleRefusal(i) = "none" <=> may /\ ~(next # resources[id] /\ next.data \in Oversize)
  <2>1. SingleRefusal(i) =
          IF refusal # "none" THEN refusal
          ELSE IF candidate # resources[id] /\ candidate.data \in Oversize THEN "limit-exceeded"
          ELSE "none"
    BY Zenon DEF SingleRefusal, SoloId
  <2>2. may => IsLive(id, kind)
    OBVIOUS
  <2> HIDE DEF refusal, candidate, next, id, kind, may
  <2> QED BY <1>4, <1>5, <2>1, <2>2
<1>7. id \in DOMAIN resources => staged = next /\ InitialGraph.live[id].body = resources[id]
  BY SoloStaged, SoloBefore DEF SoloNext, SoloOld
<1>8. SoloCode(i) = IF i.refused THEN "validation-failed"
                    ELSE ChangeCode(InitialGraph, Solo(i), 1, kind)
  BY Zenon DEF SoloCode
<1>9. ChangeCode(InitialGraph, Solo(i), 1, kind) = "none"
        <=> At(i, "id").bound /\ may /\ EndpointsBound(InitialGraph, Solo(i), 1)
  <2>1. Solo(i)[1].request = i /\ Reference(InitialGraph, Solo(i), 1, "id") = At(i, "id")
    BY SoloShape, SoloReference
  <2>2. CASE ~At(i, "id").bound \/ id \notin DOMAIN resources
    <3>1. ChangeCode(InitialGraph, Solo(i), 1, kind) = "resource-not-found"
      BY <2>1, <2>2, SoloBefore, Zenon DEF ChangeCode, SoloId
    <3>2. ~(At(i, "id").bound /\ may)
      BY <2>2 DEF IsLive
    <3> QED BY <3>1, <3>2
  <2>3. CASE At(i, "id").bound /\ id \in DOMAIN resources
    <3>1. InitialGraph.live[id].kind = kind <=> IsLive(id, kind)
      BY <2>3, SoloBefore
    <3>2. GuardHolds(InitialGraph, i, id) <=> i.expected \in {0, resources[id].revision}
      BY <2>3 DEF GuardHolds
    <3>3. EndpointCode(InitialGraph, kind, next) = EndpointRefusal(kind, next)
      BY SoloEndpoint
    <3>4. id \in DOMAIN InitialGraph.live
      BY <2>3, SoloBefore
    <3>5. ChangeCode(InitialGraph, Solo(i), 1, kind) =
            IF InitialGraph.live[id].kind # kind THEN "resource-not-found"
            ELSE IF ~GuardHolds(InitialGraph, i, id) THEN "revision-mismatch"
            ELSE IF i.data \in Oversize THEN "limit-exceeded"
            ELSE IF Edit[i.data][InitialGraph.live[id].body.data] = Invalid THEN "validation-failed"
            ELSE IF ~EndpointsBound(InitialGraph, Solo(i), 1) THEN "resource-not-found"
            ELSE EndpointCode(InitialGraph, kind, staged)
      <4> HIDE DEF kind
      <4>1. At(i, "id").uri = id
        BY DEF SoloId
      <4>2. VerbOf(i.op) # "delete"
        OBVIOUS
      <4> HIDE DEF id
      <4> QED BY <2>1, <2>3, <3>4, <4>1, <4>2 DEF ChangeCode
    <3> HIDE DEF id, kind, next, staged
    <3> QED BY <1>7, <2>3, <3>1, <3>2, <3>3, <3>5
  <2> QED BY <2>2, <2>3
<1>10. single <=> SoloCode(i) = "none" /\ (next = resources[id] \/ next.data \notin Oversize)
  <2> HIDE DEF may, next, id, kind
  <2> QED BY <1>6, <1>8, <1>9, SoloSlots
<1>11. CASE SoloCode(i) # "none"
  <2> HIDE DEF g, single
  <2>1. BatchCode(Solo(i), g) # "none"
    BY <1>1, <1>11, SoloRefused
  <2> QED BY <1>10, <1>11, <2>1, Zenon DEF Agrees, g, single
<1>12. CASE SoloCode(i) = "none"
  <2>1. may
    BY <1>8, <1>9, <1>12
  <2>2. id \in DOMAIN resources /\ id \in Uris
    BY <2>1 DEF IsLive, Placed
  <2>3. g.live = Put(InitialGraph.live, id, [kind |-> kind, body |-> next])
    <3>1. SoloLive(i) = Put(InitialGraph.live, id, [kind |-> kind, body |-> staged])
      BY DEF SoloLive
    <3> QED BY <1>1, <1>7, <1>12, <2>2, <3>1
  <2>4. IsBody(next)
    BY DEF IsBody, SoloNext, Body
  <2> HIDE DEF g
  <2>5. /\ BatchCode(Solo(i), g) = "none" <=> next = resources[id] \/ next.data \notin Oversize
        /\ Published(g, id) = IF next = resources[id] THEN next
                              ELSE Body(Revision, next.data, next.source, next.target)
    BY <1>1, <1>12, <2>2, <2>3, <2>4, SoloPut
  <2>6. SingleBody(i) = IF candidate = resources[id] THEN candidate
                        ELSE [candidate EXCEPT !.revision = Revision]
    BY Zenon DEF SingleBody, SoloId
  <2>7. candidate = next
    BY <1>4, <2>1
  <2>8. Published(g, id) = SingleBody(i)
    BY <2>4, <2>5, <2>6, <2>7, Revised
  <2>9. At(i, "id").uri = id /\ g.ids = <<id>> /\ g.ids[1] = id
    BY <1>1, <1>12 DEF SoloId
  <2> HIDE DEF single, next, id
  <2> QED BY <1>10, <1>12, <2>5, <2>8, <2>9, Zenon DEF Agrees, g, single
<1> QED BY <1>11, <1>12

LEMMA SoloDeletes ==
  ASSUME Placed, NEW i, Singleton(i), VerbOf(i.op) = "delete"
  PROVE  Agrees(i)
<1> DEFINE g == WorkingGraph(Solo(i), Undrawn)
           id == SoloId(i)
           kind == KindOf(i.op)
           single == SingleBound(i) /\ SingleRefusal(i) = "none"
<1>1. g.code = SoloCode(i) /\ (SoloCode(i) = "none" => g.ids = <<id>> /\ g.live = SoloLive(i))
  BY SoloGraph
<1>2. SingleRefusal(i) = DeleteRefusal(i, kind, id)
  BY Zenon DEF SingleRefusal, SoloId
<1>3. SoloCode(i) = IF i.refused THEN "validation-failed"
                    ELSE ChangeCode(InitialGraph, Solo(i), 1, kind)
  BY Zenon DEF SoloCode
<1>4. ChangeCode(InitialGraph, Solo(i), 1, kind) = "none"
        <=> At(i, "id").bound /\ DeleteRefusal(i, kind, id) = "none"
  <2>1. Solo(i)[1].request = i /\ Reference(InitialGraph, Solo(i), 1, "id") = At(i, "id")
    BY SoloShape, SoloReference
  <2>2. CASE ~At(i, "id").bound \/ id \notin DOMAIN resources
    <3>1. ChangeCode(InitialGraph, Solo(i), 1, kind) = "resource-not-found"
      BY <2>1, <2>2, SoloBefore, Zenon DEF ChangeCode, SoloId
    <3>2. ~(At(i, "id").bound /\ DeleteRefusal(i, kind, id) = "none")
      BY <2>2 DEF IsLive, DeleteRefusal
    <3> QED BY <3>1, <3>2
  <2>3. CASE At(i, "id").bound /\ id \in DOMAIN resources
    <3>1. InitialGraph.live[id].kind = kind <=> IsLive(id, kind)
      BY <2>3, SoloBefore
    <3>2. GuardHolds(InitialGraph, i, id) <=> i.expected \in {0, resources[id].revision}
      BY <2>3 DEF GuardHolds
    <3>3. Incidents(InitialGraph, id) = IncidentLinks(id)
      BY SoloBefore
    <3>4. id \in DOMAIN InitialGraph.live
      BY <2>3, SoloBefore
    <3>5. ChangeCode(InitialGraph, Solo(i), 1, kind) =
            IF InitialGraph.live[id].kind # kind THEN "resource-not-found"
            ELSE IF ~GuardHolds(InitialGraph, i, id) THEN "revision-mismatch"
            ELSE IF kind = "bead" /\ Incidents(InitialGraph, id) # {} THEN "incident-links-exist"
            ELSE "none"
      <4> HIDE DEF kind
      <4>1. At(i, "id").uri = id
        BY DEF SoloId
      <4> HIDE DEF id
      <4> QED BY <2>1, <2>3, <3>4, <4>1 DEF ChangeCode
    <3> HIDE DEF id, kind
    <3> QED BY <2>3, <3>1, <3>2, <3>3, <3>5 DEF DeleteRefusal
  <2> QED BY <2>2, <2>3
<1>5. \A s \in {"source", "target"} : At(i, s).bound
  BY SingletonOp DEF VerbOf, At, Slots, Bound
<1>6. single <=> SoloCode(i) = "none"
  <2>1. EndpointsBound(InitialGraph, Solo(i), 1)
    BY <1>5, SoloBound
  <2> HIDE DEF id, kind
  <2> QED BY <1>2, <1>3, <1>4, <2>1, SoloSlots
<1>7. CASE SoloCode(i) # "none"
  <2> HIDE DEF g, single
  <2>1. BatchCode(Solo(i), g) # "none"
    BY <1>1, <1>7, SoloRefused
  <2> QED BY <1>6, <1>7, <2>1, Zenon DEF Agrees, g, single
<1>8. CASE SoloCode(i) = "none"
  <2>1. id \in DOMAIN resources /\ id \in Uris
    BY <1>3, <1>4, <1>8 DEF DeleteRefusal, IsLive, Placed
  <2>2. g.live = Drop(InitialGraph.live, id)
    BY <1>1, <1>8 DEF SoloLive
  <2> HIDE DEF g
  <2>3. Outcome(g, id) = "deleted"
    BY <2>1, <2>2 DEF Outcome, Drop
  <2>4. Published(g, id) = resources[id] /\ BatchCode(Solo(i), g) = "none"
    BY <1>1, <1>8, <2>1, <2>3, SoloLeft DEF Published
  <2>5. SingleBody(i) = resources[id]
    BY Zenon DEF SingleBody, SoloId
  <2>6. At(i, "id").uri = id /\ g.ids = <<id>> /\ g.ids[1] = id
    BY <1>1, <1>8 DEF SoloId
  <2> HIDE DEF single, id
  <2> QED BY <1>6, <1>8, <2>4, <2>5, <2>6, Zenon DEF Agrees, g, single
<1> QED BY <1>7, <1>8

(* A batch of one member and the single request decide alike, although by
   different code: OneMemberAgrees for every instance. *)
THEOREM OneMemberAlwaysAgrees == BatchSpec => []OneMemberAgrees
<1>1. ASSUME BInv, NEW i \in Invocations, Singleton(i) PROVE Agrees(i)
  <2>1. Placed
    BY <1>1 DEF BInv
  <2> QED BY <1>1, <2>1, SingletonOp, SoloCreates, SoloUpdates, SoloDeletes
<1>2. BInv => OneMemberAgrees
  BY <1>1 DEF OneMemberAgrees, Singleton, Agrees, Undrawn
<1> QED BY <1>2, BatchInvariance, PTL
-----------------------------------------------------------------------------
(* The replay of the decisions, one after the other. *)

LEMMA ReplaysUnfold ==
  IsSequence(outcomes) =>
    /\ Replays[0] = Empty
    /\ \A d \in 1..Len(outcomes) : Replays[d] = Replayed(Replays[d - 1], outcomes[d])
<1> SUFFICES ASSUME IsSequence(outcomes)
             PROVE  \A d \in 0..Len(outcomes) :
                      Replays[d] = IF d = 0 THEN Empty ELSE Replayed(Replays[d - 1], outcomes[d])
  <2>1. Len(outcomes) \in Nat \/ ~IsSequence(outcomes)
    BY DEF IsSequence
  <2> QED BY <2>1
<1> DEFINE Unfolds(f, m) ==
      f = [d \in 0..m |-> IF d = 0 THEN Empty ELSE Replayed(f[d - 1], outcomes[d])]
           S == {m \in 0..Len(outcomes) : \E f : Unfolds(f, m)}
<1>0. Len(outcomes) \in Nat
  BY DEF IsSequence
<1>1. 0 \in S
  <2>1. Unfolds([d \in 0..0 |-> Empty], 0)
    OBVIOUS
  <2>2. \E f : Unfolds(f, 0)
    BY <2>1, Zenon
  <2> HIDE DEF Unfolds
  <2> QED BY <1>0, <2>2
<1>2. ASSUME NEW m \in 1..Len(outcomes), m - 1 \in S PROVE m \in S
  <2>1. PICK f : Unfolds(f, m - 1)
    BY <1>2
  <2> DEFINE h == [d \in 0..m |-> IF d = m THEN Replayed(f[m - 1], outcomes[m]) ELSE f[d]]
  <2>2. ASSUME NEW d \in 0..m
        PROVE  h[d] = IF d = 0 THEN Empty ELSE Replayed(h[d - 1], outcomes[d])
    <3>1. CASE d = m
      BY <3>1
    <3>2. CASE d # m
      <4>1. d \in 0..(m - 1) /\ h[d] = f[d]
        BY <3>2
      <4>2. d # 0 => d - 1 \in 0..m /\ d - 1 # m /\ h[d - 1] = f[d - 1]
        BY <4>1
      <4>3. f[d] = IF d = 0 THEN Empty ELSE Replayed(f[d - 1], outcomes[d])
        BY <2>1, <4>1, Zenon
      <4> QED BY <4>1, <4>2, <4>3
    <3> QED BY <3>1, <3>2
  <2>3. Unfolds(h, m)
    BY <2>2, Zenon
  <2> HIDE DEF h, Unfolds
  <2> QED BY <2>3
<1>3. \E f : Unfolds(f, Len(outcomes))
  <2>1. 0..Len(outcomes) \subseteq S
    <3> HIDE DEF S
    <3> QED BY <1>0, <1>1, <1>2, UpTo
  <2> QED BY <1>0, <2>1
<1>4. Unfolds(Replays, Len(outcomes))
  BY <1>3, Zenon DEF Replays
<1>5. ASSUME NEW f, Unfolds(f, Len(outcomes)), NEW d \in 0..Len(outcomes)
      PROVE  f[d] = IF d = 0 THEN Empty ELSE Replayed(f[d - 1], outcomes[d])
  BY <1>5, Zenon
<1> HIDE DEF Unfolds
<1> QED BY <1>4, <1>5

\* The number of the changes up to a row, itself one.
LEMMA RankCounts ==
  ASSUME NEW group, NEW r \in Nat \ {0}
  PROVE  /\ Rank(group, r) \in Nat
         /\ Changing(group[r]) => Rank(group, r) \in Nat \ {0}
<1> DEFINE S == {t \in 1..r : Changing(group[t])}
<1>1. IsFiniteSet(1..r)
  BY FS_Interval
<1>2. IsFiniteSet(S)
  BY <1>1, FS_Subset
<1>3. Cardinality(S) \in Nat /\ (Cardinality(S) = 0 <=> S = {})
  <2> HIDE DEF S
  <2> QED BY <1>2, FS_CardinalityType, FS_EmptySet
<1>4. Changing(group[r]) => r \in S
  OBVIOUS
<1>5. Rank(group, r) = Cardinality(S)
  BY DEF Rank
<1> HIDE DEF S
<1> QED BY <1>3, <1>4, <1>5

\* A decision that stood among the events so far stands when more are added.
LEMMA EventsStandKept ==
  ASSUME IsSequence(events), Extends(events', events), NEW s, s.position \in Nat, NEW group,
         Len(group) \in Nat, EventsStand(s, group)
  PROVE  EventsStand(s, group)'
<1>1. Len(events) \in Nat /\ Len(events) <= Len(events')
        /\ \A n \in 1..Len(events) : events'[n] = events[n]
  BY DEF Extends, IsSequence
<1>2. ASSUME NEW r \in 1..Len(group), Changing(group[r])
      PROVE  /\ s.position + Rank(group, r) \in 1..Len(events)
             /\ events'[s.position + Rank(group, r)] = events[s.position + Rank(group, r)]
  <2>1. Rank(group, r) \in Nat \ {0}
    BY <1>2, RankCounts
  <2>2. s.position + Rank(group, r) <= Len(events)
    BY <1>2 DEF EventsStand
  <2> QED BY <1>1, <2>1, <2>2
<1>3. \A r \in {r \in 1..Len(group) : Changing(group[r])} :
        LET row == group[r]
            n == s.position + Rank(group, r)
            was == IF row.id \in DOMAIN s.live THEN LocalEndpoints(s.live[row.id].body) ELSE {}
            e == events'[n] IN
        /\ n <= Len(events')
        /\ ResultOf(e.verb) = row.outcome /\ e.subject = row.id /\ e.kind = row.kind
        /\ e.body = row.body /\ e.revision = row.body.revision
        /\ e.previous = IF row.outcome = "updated" THEN s.live[row.id].body.revision ELSE 0
        /\ e.incident = IF row.kind = "bead" THEN {}
             ELSE was \cup IF row.outcome = "deleted" THEN {} ELSE LocalEndpoints(row.body)
  <2> TAKE r \in {r \in 1..Len(group) : Changing(group[r])}
  <2>1. PICK n : n = s.position + Rank(group, r)
    OBVIOUS
  <2>2. n \in 1..Len(events) /\ events'[n] = events[n] /\ n <= Len(events')
    BY <1>1, <1>2, <2>1
  <2>3. LET row == group[r]
            was == IF row.id \in DOMAIN s.live THEN LocalEndpoints(s.live[row.id].body) ELSE {}
            e == events[n] IN
        /\ ResultOf(e.verb) = row.outcome /\ e.subject = row.id /\ e.kind = row.kind
        /\ e.body = row.body /\ e.revision = row.body.revision
        /\ e.previous = IF row.outcome = "updated" THEN s.live[row.id].body.revision ELSE 0
        /\ e.incident = IF row.kind = "bead" THEN {}
             ELSE was \cup IF row.outcome = "deleted" THEN {} ELSE LocalEndpoints(row.body)
    BY <2>1, Zenon DEF EventsStand
  <2> QED BY <2>1, <2>2, <2>3
<1> QED BY <1>3, Zenon DEF EventsStand, Changing, Rank, LocalEndpoints, ResultOf

LEMMA StandingKept ==
  ASSUME IsSequence(events), Extends(events', events), NEW s, NEW o,
         Accepted(o) => Len(GroupOf(o)) \in Nat,
         DecisionStands(s, o), s.position \in Nat
  PROVE  DecisionStands(s, o)'
<1>1. CASE Accepted(o) /\ o.op \notin {"putAlias", "deleteAlias"}
  <2>1. GroupStands(s, o) /\ EventsStand(s, GroupOf(o))
    BY <1>1 DEF DecisionStands, GroupStands
  <2>2. EventsStand(s, GroupOf(o))'
    BY <2>1, EventsStandKept
  <2>3. GroupStands(s, o)'
    BY <2>1, <2>2 DEF GroupStands
  <2> QED BY <1>1, <2>3 DEF DecisionStands
<1>2. CASE ~Accepted(o) \/ o.op \in {"putAlias", "deleteAlias"}
  BY <1>2 DEF DecisionStands
<1> QED BY <1>1, <1>2

LEMMA ReplayKept ==
  ASSUME IsSequence(events), Extends(events', events), NEW s, NEW o,
         Accepted(o) => Len(GroupOf(o)) \in Nat,
         s.ok, DecisionStands(s, o), s.position \in Nat
  PROVE  Replayed(s, o)' = StateAfter(s, o)
BY StandingKept DEF Replayed

\* A decision is judged by the state before it alone.
ReplayedInTurn ==
  IsSequence(outcomes) =>
    /\ Replays[0] = Empty
    /\ \A d \in 1..Len(outcomes) : \A s, o :
         s = Replays[d - 1] /\ o = outcomes[d] => Replays[d] = Replayed(s, o)

LEMMA ReplaysStep == ReplayedInTurn
BY ReplaysUnfold DEF ReplayedInTurn
-----------------------------------------------------------------------------
(* A replay that agrees with the tables. *)

State(live, committed, aliased, revisions, position) ==
  [live |-> live, committed |-> committed, aliases |-> aliased,
   revisions |-> revisions, position |-> position, ok |-> TRUE]

LiveRows == [id \in DOMAIN resources |-> [kind |-> identities[id], body |-> resources[id]]]

Agreed(s, revisions) ==
  /\ s = State(LiveRows, identities, aliases, revisions, Len(events))
  /\ \A id, r : <<id, r>> \in revisions => r \in 1..Len(events)
  /\ \A id \in DOMAIN resources : <<id, resources[id].revision>> \in revisions

\* The state is what the tables say, and it has met every revision in use.
Current(s) == \E revisions : Agreed(s, revisions)

LEMMA CurrentFields ==
  ASSUME NEW s, NEW revisions, Agreed(s, revisions)
  PROVE  /\ s.live = LiveRows /\ s.committed = identities /\ s.aliases = aliases
         /\ s.revisions = revisions /\ s.position = Len(events) /\ s.ok
BY DEF Agreed, State

LEMMA LiveRowsAre ==
  /\ DOMAIN LiveRows = DOMAIN resources
  /\ \A id \in DOMAIN resources :
       LiveRows[id].kind = identities[id] /\ LiveRows[id].body = resources[id]
BY DEF LiveRows

Tabular == identities = [id \in DOMAIN identities |-> identities[id]]

\* A new decision stands, and the replay agrees with the tables after it.
Stands(o) == \A s : Current(s) => DecisionStands(s, o)' /\ Current(StateAfter(s, o))'

Stood(s, o) ==
  /\ s.ok /\ s.position \in Nat /\ DecisionStands(s, o)
  /\ Accepted(o) => Len(GroupOf(o)) \in Nat

\* Every decision stood, and the replay agrees with the tables.
ReplayInv ==
  /\ BInv /\ Tabular
  /\ \A d \in 1..Len(outcomes) : \A s, o :
       s = Replays[d - 1] /\ o = outcomes[d] => Stood(s, o)
  /\ \A s : s = Replays[Len(outcomes)] => Current(s)

LEMMA ReplayAccepts ==
  ASSUME ReplayInv
  PROVE  VerifyGroupedRecovery
<1>1. PICK revisions : Agreed(Replays[Len(outcomes)], revisions)
  BY DEF ReplayInv, Current
<1>2. PICK s : s = Replays[Len(outcomes)]
  OBVIOUS
<1>3. /\ s.live = LiveRows /\ s.committed = identities /\ s.aliases = aliases
      /\ s.position = Len(events) /\ s.ok
  BY <1>1, <1>2, CurrentFields
<1> QED BY <1>2, <1>3, LiveRowsAre DEF VerifyGroupedRecovery

\* A step that keeps the decisions so far leaves their replay as it was.
LEMMA ReplaysKept ==
  ASSUME ReplayInv, IsSequence(outcomes'), Extends(events', events), NEW n, n = Len(outcomes),
         NEW l \in Nat, l = Len(outcomes'), n <= l, \A d \in 1..n : outcomes'[d] = outcomes[d]
  PROVE  /\ \A s, q : Stood(s, q) => Stood(s, q)'
         /\ \A d \in 0..n : Replays'[d] = Replays[d]
         /\ \A d \in 1..l : \A s, q :
              s = Replays'[d - 1] /\ q = outcomes'[d] => Replays'[d] = Replayed(s, q)'
<1>0. IsSequence(events) /\ IsSequence(outcomes) /\ n \in Nat
  BY DEF ReplayInv, BInv, IsSequence
<1>1. /\ Replays[0] = Empty
      /\ \A d \in 1..n : \A s, q :
           s = Replays[d - 1] /\ q = outcomes[d] => Replays[d] = Replayed(s, q)
  BY <1>0, ReplaysStep DEF ReplayedInTurn
<1>2. /\ Replays'[0] = Empty
      /\ \A d \in 1..l : \A s, q :
           s = Replays'[d - 1] /\ q = outcomes'[d] => Replays'[d] = Replayed(s, q)'
  <2>1. ReplayedInTurn'
    BY ReplaysStep, PTL
  <2> QED BY <2>1 DEF ReplayedInTurn, IsSequence
<1>3. ASSUME NEW s, NEW q, Stood(s, q)
      PROVE  Replayed(s, q)' = Replayed(s, q) /\ Stood(s, q)'
  <2>1. Replayed(s, q)' = StateAfter(s, q) /\ Replayed(s, q) = StateAfter(s, q)
    BY <1>0, <1>3, ReplayKept DEF Stood, Replayed
  <2>2. DecisionStands(s, q)'
    BY <1>0, <1>3, StandingKept DEF Stood
  <2> QED BY <1>3, <2>1, <2>2 DEF Stood
<1>4. ASSUME NEW d \in 0..n PROVE Replays'[d] = Replays[d]
  <2> DEFINE S == {c \in 0..n : Replays'[c] = Replays[c]}
  <2>1. 0 \in S
    BY <1>0, <1>1, <1>2
  <2>2. ASSUME NEW c \in 1..n, c - 1 \in S PROVE c \in S
    <3>1. PICK s, q : s = Replays[c - 1] /\ q = outcomes[c]
      OBVIOUS
    <3>2. Stood(s, q)
      BY <2>2, <3>1 DEF ReplayInv
    <3>3. Replays[c] = Replayed(s, q)
      BY <1>1, <3>1
    <3>4. Replays'[c] = Replayed(s, q)'
      <4>1. c \in 1..l /\ s = Replays'[c - 1] /\ q = outcomes'[c]
        BY <1>0, <2>2, <3>1
      <4> QED BY <1>2, <4>1
    <3>5. Replayed(s, q)' = Replayed(s, q)
      BY <1>3, <3>2
    <3> QED BY <3>3, <3>4, <3>5
  <2>3. 0..n \subseteq S
    <3> HIDE DEF S
    <3> QED BY <1>0, <2>1, <2>2, UpTo
  <2> QED BY <2>3
<1> QED BY <1>2, <1>3, <1>4

\* A recorded decision leaves the earlier ones as they were.
LEMMA ReplayStep ==
  ASSUME ReplayInv, NEW o, Recorded(o), Stands(o), Accepted(o) => Len(GroupOf(o)) \in Nat, Tabular'
  PROVE  ReplayInv'
<1>0. IsSequence(events) /\ IsSequence(outcomes) /\ Extends(events', events)
  BY DEF ReplayInv, BInv, Recorded
<1>1. PICK n : n = Len(outcomes)
  OBVIOUS
<1>2. /\ IsSequence(outcomes') /\ n \in Nat /\ Len(outcomes') = n + 1
      /\ \A d \in 1..n : outcomes'[d] = outcomes[d]
      /\ outcomes'[n + 1] = o
  BY <1>0, <1>1, AppendFacts DEF Recorded
<1>3. BInv'
  BY RecordedStep DEF ReplayInv
<1>4. PICK l \in Nat : l = n + 1 /\ l = Len(outcomes') /\ n <= l
  BY <1>2
<1>5. /\ \A s, q : Stood(s, q) => Stood(s, q)'
      /\ \A d \in 0..n : Replays'[d] = Replays[d]
      /\ \A d \in 1..l : \A s, q :
           s = Replays'[d - 1] /\ q = outcomes'[d] => Replays'[d] = Replayed(s, q)'
  BY <1>0, <1>1, <1>2, <1>4, ReplaysKept
<1>6. \A d \in 1..(n + 1) : \A s, q :
        s = Replays'[d - 1] /\ q = outcomes'[d] => Replays'[d] = Replayed(s, q)'
  BY <1>4, <1>5
<1>7. \A s, q : Stood(s, q) => Stood(s, q)'
  BY <1>5
<1>8. \A d \in 0..n : Replays'[d] = Replays[d]
  BY <1>5
<1>9. PICK s : s = Replays[n]
  OBVIOUS
<1>10. Current(s)
  BY <1>1, <1>9 DEF ReplayInv
<1>11. DecisionStands(s, o)' /\ Current(StateAfter(s, o))' /\ s.ok /\ s.position \in Nat
  <2>1. PICK revisions : Agreed(s, revisions)
    BY <1>10 DEF Current
  <2>2. s.ok /\ s.position = Len(events)
    BY <2>1, CurrentFields
  <2>3. Len(events) \in Nat
    BY <1>0 DEF IsSequence
  <2> QED BY <1>10, <2>2, <2>3 DEF Stands
<1>12. Replays'[n + 1] = StateAfter(s, o)
  <2>1. n + 1 \in 1..(n + 1) /\ (n + 1) - 1 = n
    BY <1>2
  <2>2. Replays'[(n + 1) - 1] = s
    BY <1>2, <1>8, <1>9
  <2>3. Replays'[n + 1] = Replayed(s, o)'
    BY <1>2, <1>6, <2>1, <2>2
  <2> QED BY <1>11, <2>3 DEF Replayed
<1>13. ASSUME NEW d \in 1..(n + 1), NEW t, NEW q, t = Replays'[d - 1], q = outcomes'[d]
       PROVE  Stood(t, q)'
  <2>1. CASE d \in 1..n
    <3>1. t = Replays[d - 1] /\ q = outcomes[d]
      BY <1>2, <1>8, <1>13, <2>1
    <3> QED BY <1>1, <1>7, <2>1, <3>1 DEF ReplayInv
  <2>2. CASE d = n + 1
    <3>1. t = s /\ q = o
      BY <1>2, <1>8, <1>9, <1>13, <2>2
    <3> QED BY <1>11, <3>1 DEF Stood
  <2> QED BY <1>2, <2>1, <2>2
<1>14. ASSUME NEW t, t = Replays'[Len(outcomes')] PROVE Current(t)'
  <2>1. t = StateAfter(s, o)
    BY <1>2, <1>12, <1>14
  <2> QED BY <1>11, <2>1 DEF Current, Agreed, LiveRows
<1> QED BY <1>2, <1>3, <1>13, <1>14 DEF ReplayInv
-----------------------------------------------------------------------------
(* A group that tells what has become of the tables. *)

Ids(group) == {group[r].id : r \in 1..Len(group)}

RowTold(row) ==
  LET id == row.id IN
  /\ row.outcome \in {"created", "updated", "unchanged", "deleted", "allocated"}
  /\ row.outcome \in {"updated", "unchanged", "deleted"} =>
       id \in DOMAIN resources /\ identities[id] = row.kind
  /\ row.outcome \in {"created", "allocated"} => id \notin DOMAIN identities \cup DOMAIN aliases
  /\ row.outcome \in {"unchanged", "deleted"} => row.body = resources[id]
  /\ row.outcome = "updated" => ~Same(row.body, resources[id])
  /\ row.outcome = "allocated" => row.body = None
  /\ row.outcome \in {"created", "updated"} => row.body.revision \in Fresh
  /\ id \in DOMAIN identities' /\ identities'[id] = row.kind
  /\ IF row.outcome \in {"deleted", "allocated"} THEN id \notin DOMAIN resources'
     ELSE id \in DOMAIN resources' /\ resources'[id] = row.body

\* One row for each Resource it touches; the others are as they were.
Told(group) ==
  /\ Len(group) \in Nat
  /\ \A r \in 1..Len(group) : RowTold(group[r])
  /\ \A r, t \in 1..Len(group) : group[r].id = group[t].id => r = t
  /\ \A id : id \notin Ids(group) =>
       /\ id \in DOMAIN resources' <=> id \in DOMAIN resources
       /\ id \in DOMAIN resources => resources'[id] = resources[id]
       /\ id \in DOMAIN identities' <=> id \in DOMAIN identities
  /\ \A id \in DOMAIN identities : id \in DOMAIN identities' /\ identities'[id] = identities[id]
  /\ aliases' = aliases /\ Tabular'
  /\ Len(events') = Len(events) + Rank(group, Len(group))

LEMMA GroupLands ==
  ASSUME NEW group, Told(group), NEW s, NEW revisions, Agreed(s, revisions),
         IsSequence(events), IsSequence(events'), Extends(events', events),
         DOMAIN resources \subseteq DOMAIN identities
  PROVE  /\ Current(Applied(s, group))'
         /\ Applied(s, group).position = Len(events')
<1> DEFINE rows == {group[r] : r \in 1..Len(group)}
           row(id) == CHOOSE r \in rows : r.id = id
           gone == {r.id : r \in {r \in rows : r.outcome \in {"deleted", "allocated"}}}
           ids == {r.id : r \in rows}
           fresh == {r \in rows : r.outcome \in {"created", "updated"}}
           live == [id \in (DOMAIN s.live \cup ids) \ gone |->
                      IF id \in ids THEN [kind |-> row(id).kind, body |-> row(id).body]
                      ELSE s.live[id]]
           committed == [id \in DOMAIN s.committed \cup ids |->
                           IF id \in DOMAIN s.committed THEN s.committed[id] ELSE row(id).kind]
           known == s.revisions \cup {<<r.id, r.body.revision>> : r \in fresh}
           position == s.position + Rank(group, Len(group))
<1>0. /\ s.live = LiveRows /\ s.committed = identities /\ s.aliases = aliases
      /\ s.revisions = revisions /\ s.position = Len(events) /\ s.ok
  BY CurrentFields
<1>1. Applied(s, group) = [s EXCEPT !.live = live, !.committed = committed,
                                    !.revisions = known, !.position = position]
  BY Zenon DEF Applied
<1>2. \A r \in rows : RowTold(r) /\ row(r.id) = r
  BY DEF Told
<1>3. \A id : (id \in ids <=> \E r \in rows : r.id = id) /\ (id \in ids <=> id \in Ids(group))
  BY DEF Ids
<1>4. \A id : id \in gone <=> \E r \in rows : r.id = id /\ r.outcome \in {"deleted", "allocated"}
  OBVIOUS
<1>5. \A id, v : <<id, v>> \in known <=>
        \/ <<id, v>> \in revisions
        \/ \E r \in rows : r.id = id /\ r.body.revision = v /\ r.outcome \in {"created", "updated"}
  BY <1>0
<1>6. live = LiveRows'
  <2>1. \A id : id \in DOMAIN resources' <=> id \in (DOMAIN resources \cup ids) \ gone
    <3> TAKE id
    <3>1. CASE id \in ids
      <4>1. PICK r \in rows : r.id = id
        BY <1>3, <3>1
      <4> HIDE DEF rows, row
      <4> QED BY <1>2, <1>4, <3>1, <4>1 DEF RowTold
    <3>2. CASE id \notin ids
      BY <1>3, <1>4, <3>2 DEF Told
    <3> QED BY <3>1, <3>2
  <2>2. ASSUME NEW id \in (DOMAIN resources \cup ids) \ gone
        PROVE  live[id] = [kind |-> identities'[id], body |-> resources'[id]]
    <3>0. live[id] = IF id \in ids THEN [kind |-> row(id).kind, body |-> row(id).body]
                     ELSE s.live[id]
      BY <1>0, <2>2, LiveRowsAre
    <3> HIDE DEF live, rows, row
    <3>1. CASE id \in ids
      <4>1. PICK r \in rows : r.id = id
        BY <1>3, <3>1
      <4>2. r.kind = identities'[id] /\ r.body = resources'[id] /\ row(id) = r
        BY <1>2, <1>4, <2>2, <4>1 DEF RowTold
      <4> QED BY <3>0, <3>1, <4>2
    <3>2. CASE id \notin ids
      <4>1. id \in DOMAIN resources /\ id \notin Ids(group)
        BY <1>3, <2>2, <3>2
      <4>2. resources'[id] = resources[id] /\ identities'[id] = identities[id]
        BY <4>1 DEF Told
      <4>3. LiveRows[id] = [kind |-> identities[id], body |-> resources[id]]
        BY <4>1 DEF LiveRows
      <4> QED BY <1>0, <3>0, <3>2, <4>2, <4>3
    <3> QED BY <3>1, <3>2
  <2>3. DOMAIN live = (DOMAIN resources \cup ids) \ gone
    BY <1>0, LiveRowsAre
  <2>4. DOMAIN live = DOMAIN resources'
    BY <2>1, <2>3
  <2>5. \A id \in DOMAIN resources' : live[id] = [kind |-> identities'[id], body |-> resources'[id]]
    <3> HIDE DEF live, ids, gone
    <3> QED BY <2>2, <2>3, <2>4
  <2>6. live = [id \in DOMAIN live |-> live[id]]
    OBVIOUS
  <2> HIDE DEF live
  <2> QED BY <2>4, <2>5, <2>6 DEF LiveRows
<1>7. committed = identities'
  <2>1. \A id : id \in DOMAIN identities' <=> id \in DOMAIN identities \cup ids
    <3> TAKE id
    <3>1. CASE id \in ids
      <4>1. PICK r \in rows : r.id = id
        BY <1>3, <3>1
      <4> HIDE DEF rows, row
      <4> QED BY <1>2, <3>1, <4>1 DEF RowTold
    <3>2. CASE id \notin ids
      BY <1>3, <3>2 DEF Told
    <3> QED BY <3>1, <3>2
  <2>2. ASSUME NEW id \in DOMAIN identities \cup ids PROVE committed[id] = identities'[id]
    <3>0. committed[id] = IF id \in DOMAIN identities THEN identities[id] ELSE row(id).kind
      BY <1>0, <2>2
    <3> HIDE DEF committed, rows, row
    <3>1. CASE id \in DOMAIN identities
      BY <3>0, <3>1 DEF Told
    <3>2. CASE id \notin DOMAIN identities
      <4>1. PICK r \in rows : r.id = id
        BY <1>3, <2>2, <3>2
      <4> QED BY <1>2, <3>0, <3>2, <4>1 DEF RowTold
    <3> QED BY <3>1, <3>2
  <2>3. DOMAIN committed = DOMAIN identities'
    BY <1>0, <2>1
  <2>4. \A id \in DOMAIN identities' : committed[id] = identities'[id]
    <3> HIDE DEF committed, ids
    <3> QED BY <2>1, <2>2
  <2>5. committed = [id \in DOMAIN committed |-> committed[id]]
    OBVIOUS
  <2>6. identities' = [id \in DOMAIN identities' |-> identities'[id]]
    BY DEF Told, Tabular
  <2> HIDE DEF committed
  <2> QED BY <2>3, <2>4, <2>5, <2>6
<1>8. position = Len(events')
  BY <1>0 DEF Told
<1>9. Applied(s, group) = State(LiveRows', identities', aliases', known, Len(events'))
  <2>1. s = State(LiveRows, identities, aliases, revisions, Len(events))
    BY DEF Agreed
  <2> HIDE DEF live, committed, known, position
  <2> QED BY <1>1, <1>6, <1>7, <1>8, <2>1 DEF State, Told
<1>10. Len(events) \in Nat /\ Len(events') \in Nat /\ Len(events) <= Len(events')
  BY DEF IsSequence, Extends
<1>11. ASSUME NEW id, NEW v, <<id, v>> \in known PROVE v \in 1..Len(events')
  <2>1. CASE <<id, v>> \in revisions
    <3>1. v \in 1..Len(events)
      BY <2>1 DEF Agreed
    <3> QED BY <1>10, <3>1
  <2>2. CASE <<id, v>> \notin revisions
    <3>1. PICK r \in rows : r.body.revision = v /\ r.outcome \in {"created", "updated"}
      BY <1>5, <1>11, <2>2
    <3>2. v \in Fresh
      BY <1>2, <3>1 DEF RowTold
    <3> QED BY <1>10, <3>2 DEF Fresh
  <2> QED BY <2>1, <2>2
<1>12. ASSUME NEW id \in DOMAIN resources' PROVE <<id, resources'[id].revision>> \in known
  <2> HIDE DEF known, row
  <2>1. \A x \in DOMAIN resources : <<x, resources[x].revision>> \in revisions
    BY DEF Agreed
  <2>2. CASE id \in ids
    <3>1. PICK r \in rows : r.id = id
      BY <1>3, <2>2
    <3> HIDE DEF rows
    <3>2. RowTold(r)
      BY <1>2, <3>1
    <3>3. CASE r.outcome = "unchanged"
      BY <1>5, <2>1, <3>1, <3>2, <3>3 DEF RowTold
    <3>4. CASE r.outcome # "unchanged"
      <4>1. r.outcome \in {"created", "updated"} /\ resources'[id] = r.body
        BY <1>12, <3>1, <3>2, <3>4 DEF RowTold
      <4> QED BY <1>5, <3>1, <4>1
    <3> QED BY <3>3, <3>4
  <2>3. CASE id \notin ids
    <3>1. id \in DOMAIN resources /\ resources'[id] = resources[id]
      BY <1>3, <1>12, <2>3 DEF Told
    <3> QED BY <1>5, <2>1, <3>1
  <2> QED BY <2>2, <2>3
<1>13. PICK seen : seen = known
  OBVIOUS
<1> HIDE DEF known, position, live, committed
<1>14. /\ Applied(s, group) = State(LiveRows', identities', aliases', seen, Len(events'))
       /\ \A id, v : <<id, v>> \in seen => v \in 1..Len(events')
       /\ \A id \in DOMAIN resources' : <<id, resources'[id].revision>> \in seen
  BY <1>9, <1>11, <1>12, <1>13
<1>15. Current(Applied(s, group))'
  BY <1>14 DEF Current, Agreed
<1>16. Applied(s, group).position = Len(events')
  BY <1>9 DEF State
<1> QED BY <1>15, <1>16

LEMMA RowToldStands ==
  ASSUME NEW row, RowTold(row), NEW o, row.outcome = "allocated" => o.op = "batch",
         NEW s, NEW revisions, Agreed(s, revisions), IsSequence(events), Placed
  PROVE  RowStands(s, o, row)
<1>1. /\ s.live = LiveRows /\ s.committed = identities /\ s.aliases = aliases
      /\ s.revisions = revisions
  BY CurrentFields
<1>2. PICK id : id = row.id
  OBVIOUS
<1>3. id \in DOMAIN s.live <=> id \in DOMAIN resources
  BY <1>1, LiveRowsAre
<1>4. id \in DOMAIN resources => s.live[id].kind = identities[id] /\ s.live[id].body = resources[id]
  BY <1>1, LiveRowsAre
<1>5. \A v : v \in Fresh => <<id, v>> \notin revisions
  BY DEF Agreed, Fresh, IsSequence
<1>6. row.outcome = "updated" => row.body.revision # resources[id].revision
  <2> HAVE row.outcome = "updated"
  <2>1. id \in DOMAIN resources /\ row.body.revision \in Fresh
    BY <1>2 DEF RowTold
  <2>2. <<id, resources[id].revision>> \in revisions
    BY <2>1 DEF Agreed
  <2> QED BY <1>5, <2>1, <2>2
<1>7. id \notin DOMAIN identities => id \notin DOMAIN resources
  BY DEF Placed
<1>8. /\ row.outcome \in {"deleted", "updated", "unchanged"} =>
           id \in DOMAIN s.live /\ s.live[id].kind = row.kind
      /\ row.outcome \in {"created", "allocated"} =>
           id \notin DOMAIN s.live /\ ~(id \in DOMAIN s.committed \/ id \in DOMAIN s.aliases)
  BY <1>1, <1>2, <1>3, <1>4, <1>7 DEF RowTold
<1>9. /\ row.outcome = "allocated" => o.op = "batch" /\ row.body = None
      /\ row.outcome \in {"deleted", "unchanged"} => row.body = s.live[id].body
      /\ row.outcome = "updated" =>
           row.body.revision # s.live[id].body.revision /\ ~Same(row.body, s.live[id].body)
  BY <1>2, <1>4, <1>6 DEF RowTold
<1>10. row.outcome \in {"created", "updated"} => <<id, row.body.revision>> \notin s.revisions
  BY <1>1, <1>2, <1>5 DEF RowTold
<1> QED BY <1>2, <1>8, <1>9, <1>10 DEF RowStands

\* The n-th event is that of a row.
EventTold(row, n) ==
  LET was == IF row.id \in DOMAIN resources THEN LocalEndpoints(resources[row.id]) ELSE {}
      e == events'[n] IN
  /\ n <= Len(events')
  /\ ResultOf(e.verb) = row.outcome /\ e.subject = row.id /\ e.kind = row.kind
  /\ e.body = row.body /\ e.revision = row.body.revision
  /\ e.previous = IF row.outcome = "updated" THEN resources[row.id].revision ELSE 0
  /\ e.incident = IF row.kind = "bead" THEN {}
       ELSE was \cup IF row.outcome = "deleted" THEN {} ELSE LocalEndpoints(row.body)

\* One new event for each change, in the order of the rows.
EventsTold(group) ==
  \A r \in 1..Len(group) : Changing(group[r]) => EventTold(group[r], Len(events) + Rank(group, r))

LEMMA EventsToldStand ==
  ASSUME NEW group, Told(group), EventsTold(group), NEW s, NEW revisions, Agreed(s, revisions)
  PROVE  EventsStand(s, group)'
<1>1. s.live = LiveRows /\ s.position = Len(events)
  BY CurrentFields
<1>2. ASSUME NEW r \in {r \in 1..Len(group) : Changing(group[r])}
      PROVE
        LET row == group[r]
            n == s.position + Rank(group, r)
            was == IF row.id \in DOMAIN s.live THEN LocalEndpoints(s.live[row.id].body) ELSE {}
            e == events'[n] IN
        /\ n <= Len(events')
        /\ ResultOf(e.verb) = row.outcome /\ e.subject = row.id /\ e.kind = row.kind
        /\ e.body = row.body /\ e.revision = row.body.revision
        /\ e.previous = IF row.outcome = "updated" THEN s.live[row.id].body.revision ELSE 0
        /\ e.incident = IF row.kind = "bead" THEN {}
             ELSE was \cup IF row.outcome = "deleted" THEN {} ELSE LocalEndpoints(row.body)
  <2>1. PICK row, n, e : row = group[r] /\ n = Len(events) + Rank(group, r) /\ e = events'[n]
    OBVIOUS
  <2>2. LET was == IF row.id \in DOMAIN resources THEN LocalEndpoints(resources[row.id]) ELSE {} IN
        /\ n <= Len(events')
        /\ ResultOf(e.verb) = row.outcome /\ e.subject = row.id /\ e.kind = row.kind
        /\ e.body = row.body /\ e.revision = row.body.revision
        /\ e.previous = IF row.outcome = "updated" THEN resources[row.id].revision ELSE 0
        /\ e.incident = IF row.kind = "bead" THEN {}
             ELSE was \cup IF row.outcome = "deleted" THEN {} ELSE LocalEndpoints(row.body)
    BY <2>1, Zenon DEF EventsTold, EventTold
  <2>3. row.outcome = "updated" => row.id \in DOMAIN resources
    BY <2>1 DEF Told, RowTold
  <2>4. /\ row.id \in DOMAIN s.live <=> row.id \in DOMAIN resources
        /\ row.id \in DOMAIN resources => s.live[row.id].body = resources[row.id]
    BY <1>1, LiveRowsAre
  <2>5. s.position + Rank(group, r) = n
    BY <1>1, <2>1
  <2> QED BY <2>1, <2>2, <2>3, <2>4, <2>5
<1> QED BY <1>2, Zenon DEF EventsStand, Changing, Rank, LocalEndpoints, ResultOf

LiveGraphStands ==
  Placed /\ LinkEndpointsLive => \A s : Current(s) => GraphStands(s)

LEMMA CurrentGraphStands == LiveGraphStands
<1> SUFFICES ASSUME Placed, LinkEndpointsLive, NEW s, Current(s) PROVE GraphStands(s)
  BY DEF LiveGraphStands
<1>1. s.live = LiveRows
  BY CurrentFields DEF Current
<1> QED BY <1>1, LiveRowsAre DEF GraphStands, LinkEndpointsLive, IsLive, Placed

LEMMA WitnessesToldStand ==
  ASSUME Placed, NEW s, NEW revisions, Agreed(s, revisions), NEW o,
         \A uri \in DOMAIN o.witnesses : ~IsDirect(uri) /\ o.witnesses[uri] = AliasTarget(uri),
         Cardinality(DOMAIN o.witnesses) <= WitnessLimit(o.op)
  PROVE  WitnessesStand(s, o)
<1>1. s.committed = identities /\ s.aliases = aliases
  BY CurrentFields
<1>2. ASSUME NEW uri \in DOMAIN o.witnesses
      PROVE  /\ uri \notin DOMAIN identities
             /\ IF o.witnesses[uri] = None THEN uri \notin DOMAIN aliases
                ELSE /\ uri \in DOMAIN aliases /\ aliases[uri] = o.witnesses[uri]
                     /\ o.witnesses[uri] \in DOMAIN identities
                     /\ identities[o.witnesses[uri]] = "bead"
  <2>1. uri \notin DOMAIN identities
    BY DEF IsDirect
  <2>2. uri \in DOMAIN aliases => aliases[uri] \in DOMAIN identities
                                    /\ identities[aliases[uri]] = "bead" /\ aliases[uri] # None
    BY UrisAssumption DEF Placed
  <2> QED BY <2>1, <2>2 DEF AliasTarget
<1> QED BY <1>1, <1>2 DEF WitnessesStand

\* A decision whose group tells what became of the tables stands.
LEMMA GroupDecision ==
  ASSUME ReplayInv, NEW o, Recorded(o), Accepted(o), o.op \notin {"putAlias", "deleteAlias"},
         Told(GroupOf(o)), EventsTold(GroupOf(o)),
         \A uri \in DOMAIN o.witnesses : ~IsDirect(uri) /\ o.witnesses[uri] = AliasTarget(uri),
         Cardinality(DOMAIN o.witnesses) <= WitnessLimit(o.op),
         o.op = "batch" => \A s : Current(s) => BatchStands(s, o),
         o.op # "batch" => /\ o.response.result \in {ResultOf(VerbOf(o.op)), "unchanged"}
                           /\ \A r \in 1..Len(GroupOf(o)) : GroupOf(o)[r].outcome # "allocated"
  PROVE  Stands(o)
<1> SUFFICES ASSUME NEW s, Current(s)
             PROVE  DecisionStands(s, o)' /\ Current(StateAfter(s, o))'
  BY DEF Stands
<1>0. PICK revisions : Agreed(s, revisions)
  BY DEF Current
<1>1. PICK group : group = GroupOf(o)
  OBVIOUS
<1>2. PICK after : after = Applied(s, group)
  OBVIOUS
<1>3. Placed /\ IsSequence(events) /\ IsSequence(events') /\ Extends(events', events)
        /\ DOMAIN resources \subseteq DOMAIN identities /\ Placed' /\ LinkEndpointsLive'
  BY DEF ReplayInv, BInv, Recorded, Placed
<1>4. Current(Applied(s, group))' /\ Applied(s, group).position = Len(events')
  BY <1>0, <1>1, <1>3, GroupLands
<1>5. GraphStands(after)
  <2>1. Current(after)'
    BY <1>2, <1>4 DEF Current, Agreed
  <2>2. LiveGraphStands'
    BY CurrentGraphStands, PTL
  <2> QED BY <1>3, <2>1, <2>2 DEF LiveGraphStands
<1>6. FactsOf(o) = (s.position + 1)..after.position
  BY <1>0, <1>2, <1>4, CurrentFields DEF Recorded, Fresh
<1>7. EventsStand(s, group)'
  BY <1>0, <1>1, EventsToldStand
<1>8. WitnessesStand(s, o)
  BY <1>0, <1>3, WitnessesToldStand
<1>9. \A r \in 1..Len(group) : RowStands(s, o, group[r])
  BY <1>0, <1>1, <1>3, RowToldStands DEF Told
<1>10. GroupStands(s, o)'
  BY <1>1, <1>2, <1>5, <1>6, <1>7, <1>9 DEF GroupStands
<1> QED BY <1>1, <1>4, <1>8, <1>10 DEF DecisionStands, StateAfter
-----------------------------------------------------------------------------
(* The decision of a single request stands. *)

LEMMA OneRow ==
  ASSUME IsSequence(outcomes), NEW o, outcomes' = Append(outcomes, o),
         NEW q, outcomes' = Append(outcomes, q)
  PROVE  o = q
<1>1. outcomes'[Len(outcomes) + 1] = o /\ outcomes'[Len(outcomes) + 1] = q
  BY AppendFacts
<1> QED BY <1>1

\* A refusal says nothing of the Resources.
LEMMA RefusedStands ==
  ASSUME ReplayInv, NEW o, ~Accepted(o), FactsOf(o) = {},
         UNCHANGED <<identities, resources, aliases, events>>,
         \A uri \in DOMAIN o.witnesses : ~IsDirect(uri) /\ o.witnesses[uri] = AliasTarget(uri),
         Cardinality(DOMAIN o.witnesses) <= WitnessLimit(o.op)
  PROVE  Stands(o)
<1> SUFFICES ASSUME NEW s, Current(s)
             PROVE  DecisionStands(s, o)' /\ Current(StateAfter(s, o))'
  BY DEF Stands
<1>1. PICK revisions : Agreed(s, revisions)
  BY DEF Current
<1>2. WitnessesStand(s, o)
  BY <1>1, WitnessesToldStand DEF ReplayInv, BInv
<1>3. DecisionStands(s, o)'
  BY <1>2 DEF DecisionStands
<1>4. Current(s)'
  BY <1>1 DEF Current, Agreed, LiveRows
<1>5. StateAfter(s, o) = s
  BY DEF StateAfter
<1> QED BY <1>3, <1>4, <1>5

LEMMA SingleWitnesses ==
  ASSUME NEW i \in Invocations, NEW o, o.op = i.op, o.witnesses = Witnesses(i)
  PROVE  /\ \A uri \in DOMAIN o.witnesses :
              ~IsDirect(uri) /\ o.witnesses[uri] = AliasTarget(uri)
         /\ Cardinality(DOMAIN o.witnesses) <= WitnessLimit(o.op)
<1>1. PICK W : W = Witnesses(i)
  OBVIOUS
<1>2. ASSUME NEW uri \in DOMAIN W PROVE ~IsDirect(uri) /\ W[uri] = AliasTarget(uri)
  <2>1. PICK s \in Slots(i) : uri = i[s] /\ uri \notin {u \in Uris \cup External : IsDirect(u)}
    BY <1>1 DEF Witnesses
  <2>2. uri \in Uris \cup External
    BY <2>1, SlotsAreUris
  <2>3. W[uri] = AliasTarget(uri)
    BY <1>1 DEF Witnesses
  <2> QED BY <2>1, <2>2, <2>3
<1>3. i.op # "batch"
  BY InvocationsAssumption DEF Invocation, Operations
<1>4. Cardinality(DOMAIN W) <= WitnessLimit(i.op)
  BY <1>1, <1>3, WitnessCount DEF WitnessLimit
<1> QED BY <1>1, <1>2, <1>4

LEMMA Realiased ==
  ASSUME NEW s, NEW live, NEW committed, NEW aliased, NEW revisions, NEW position, NEW new,
         s = State(live, committed, aliased, revisions, position)
  PROVE  [s EXCEPT !.aliases = new] = State(live, committed, new, revisions, position)
<1> DEFINE t == [s EXCEPT !.aliases = new]
<1>1. DOMAIN s = {"live", "committed", "aliases", "revisions", "position", "ok"}
  BY DEF State
<1>2. DOMAIN t = {"live", "committed", "aliases", "revisions", "position", "ok"}
  BY <1>1
<1>3. /\ t.live = live /\ t.committed = committed /\ t.aliases = new
      /\ t.revisions = revisions /\ t.position = position /\ t.ok = TRUE
  BY <1>1 DEF State
<1>4. t = [x \in DOMAIN t |-> t[x]]
  OBVIOUS
<1> HIDE DEF t
<1>5. t = State(live, committed, new, revisions, position)
  BY <1>2, <1>3, <1>4 DEF State
<1> QED BY <1>5 DEF t

LEMMA AliasRowStands ==
  ASSUME ReplayInv, NEW o, PutRow(o) \/ DropRow(o), o.position = 0, DOMAIN o.witnesses = {},
         UNCHANGED <<identities, resources, events>>
  PROVE  Stands(o)
<1> SUFFICES ASSUME NEW s, Current(s)
             PROVE  DecisionStands(s, o)' /\ Current(StateAfter(s, o))'
  BY DEF Stands
<1>1. PICK revisions : Agreed(s, revisions)
  BY DEF Current
<1>2. /\ s.live = LiveRows /\ s.committed = identities /\ s.aliases = aliases
      /\ s = State(LiveRows, identities, aliases, revisions, Len(events))
  BY <1>1, CurrentFields DEF Agreed
<1>3. PICK r : r = o.response
  OBVIOUS
<1>4. Placed
  BY DEF ReplayInv, BInv
<1>5. Accepted(o) /\ o.op \in {"putAlias", "deleteAlias"}
  BY DEF PutRow, DropRow, Accepted
<1>6. WitnessesStand(s, o)
  <2>1. Cardinality(DOMAIN o.witnesses) = 0
    BY FS_EmptySet
  <2> QED BY <1>5, <2>1 DEF WitnessesStand, WitnessLimit
<1>7. AliasStands(s, o)
  <2>1. CASE PutRow(o)
    <3>1. r.target \in DOMAIN s.live /\ s.live[r.target].kind = "bead"
      BY <1>2, <1>3, <2>1, LiveRowsAre DEF PutRow
    <3> QED BY <1>2, <1>3, <2>1, <3>1 DEF PutRow, AliasStands
  <2>2. CASE DropRow(o)
    BY <1>2, <1>4, <2>2 DEF DropRow, AliasStands, Placed
  <2> QED BY <2>1, <2>2
<1>8. DecisionStands(s, o)'
  BY <1>5, <1>6, <1>7 DEF DecisionStands
<1>9. StateAfter(s, o) = State(LiveRows, identities, aliases', revisions, Len(events))
  <2>1. StateAfter(s, o) = [s EXCEPT !.aliases = aliases']
    <3>1. CASE PutRow(o)
      BY <1>2, <1>5, <3>1 DEF PutRow, StateAfter
    <3>2. CASE DropRow(o)
      BY <1>2, <1>5, <3>2 DEF DropRow, StateAfter
    <3> QED BY <3>1, <3>2
  <2> QED BY <1>2, <2>1, Realiased
<1>10. Current(StateAfter(s, o))'
  BY <1>1, <1>9 DEF Current, Agreed, LiveRows
<1> QED BY <1>8, <1>10

LEMMA SoleRank ==
  ASSUME NEW group, Len(group) = 1
  PROVE  Rank(group, 1) = IF Changing(group[1]) THEN 1 ELSE 0
<1> DEFINE S == {t \in 1..1 : Changing(group[t])}
<1>0. Rank(group, 1) = Cardinality(S)
  BY DEF Rank
<1>1. ASSUME Changing(group[1]) PROVE S = {1}
  BY <1>1
<1>2. ASSUME ~Changing(group[1]) PROVE S = {}
  BY <1>2
<1> HIDE DEF S
<1>3. Cardinality({1}) = 1 /\ Cardinality({}) = 0
  BY FS_Singleton, FS_EmptySet
<1> QED BY <1>0, <1>1, <1>2, <1>3

LEMMA SoleGroup ==
  ASSUME NEW o, o.op # "batch"
  PROVE  LET group == GroupOf(o) IN
         /\ Len(group) = 1 /\ \A r \in 1..Len(group) : r = 1
         /\ group[1].id = o.response.id /\ group[1].kind = KindOf(o.op)
         /\ group[1].outcome = o.response.result /\ group[1].body = o.response.body
         /\ Ids(group) = {o.response.id}
<1> DEFINE row == [id |-> o.response.id, kind |-> KindOf(o.op), outcome |-> o.response.result,
                   body |-> o.response.body]
<1>1. /\ row.id = o.response.id /\ row.kind = KindOf(o.op)
      /\ row.outcome = o.response.result /\ row.body = o.response.body
  OBVIOUS
<1>2. GroupOf(o) = <<row>>
  BY Zenon DEF GroupOf, SingleGroup
<1> HIDE DEF row
<1>3. Len(<<row>>) = 1 /\ <<row>>[1] = row
  OBVIOUS
<1>4. \A r \in 1..1 : r = 1
  OBVIOUS
<1>5. Ids(<<row>>) = {row.id}
  <2>1. Ids(<<row>>) = {<<row>>[r].id : r \in 1..1}
    BY <1>3 DEF Ids
  <2> QED BY <1>3, <1>4, <2>1
<1> QED BY <1>1, <1>2, <1>3, <1>4, <1>5

\* A single request whose answer tells what became of its Resource.
LEMMA SingleStands ==
  ASSUME ReplayInv, NEW i \in Invocations, NEW o, Recorded(o), o.op = i.op,
         o.witnesses = Witnesses(i), o.op \notin {"putAlias", "deleteAlias"},
         NEW row, row = GroupOf(o)[1], RowTold(row), row.outcome # "allocated",
         row.outcome \in {ResultOf(VerbOf(o.op)), "unchanged"},
         \A id : id # row.id =>
           /\ id \in DOMAIN resources' <=> id \in DOMAIN resources
           /\ id \in DOMAIN resources => resources'[id] = resources[id]
           /\ id \in DOMAIN identities' <=> id \in DOMAIN identities,
         aliases' = aliases, Tabular',
         Len(events') = Len(events) + IF Changing(row) THEN 1 ELSE 0,
         Changing(row) => EventTold(row, Len(events) + 1)
  PROVE  Stands(o)
<1>1. o.op # "batch"
  BY InvocationsAssumption DEF Invocation, Operations
<1>2. PICK group : group = GroupOf(o)
  OBVIOUS
<1>3. /\ Len(group) = 1 /\ \A r \in 1..Len(group) : r = 1
      /\ row = group[1] /\ row.id = o.response.id /\ Ids(group) = {row.id}
      /\ row.outcome = o.response.result
  BY <1>1, <1>2, SoleGroup
<1>4. Rank(group, 1) = IF Changing(row) THEN 1 ELSE 0
  BY <1>3, SoleRank
<1>5. \A id \in DOMAIN identities : id \in DOMAIN identities' /\ identities'[id] = identities[id]
  BY DEF Recorded
<1>6. Told(group)
  BY <1>3, <1>4, <1>5 DEF Told
<1>7. EventsTold(group)
  BY <1>3, <1>4 DEF EventsTold
<1>8. Accepted(o)
  BY <1>3 DEF Accepted, RowTold
<1>9. /\ \A uri \in DOMAIN o.witnesses : ~IsDirect(uri) /\ o.witnesses[uri] = AliasTarget(uri)
      /\ Cardinality(DOMAIN o.witnesses) <= WitnessLimit(o.op)
  BY SingleWitnesses
<1>10. \A r \in 1..Len(group) : group[r].outcome # "allocated"
  BY <1>3
<1>11. o.response.result \in {ResultOf(VerbOf(o.op)), "unchanged"}
  BY <1>3
<1> QED BY <1>1, <1>2, <1>6, <1>7, <1>8, <1>9, <1>10, <1>11, GroupDecision

\* What the request's checks established before a transition.
Checked(i, kind, verb, id, body, previous) ==
  /\ kind = KindOf(i.op) /\ verb = VerbOf(i.op) /\ i.op \notin {"putAlias", "deleteAlias"}
  /\ verb = "create" =>
       id \notin DOMAIN identities \cup DOMAIN aliases /\ body.revision = Revision /\ previous = 0
  /\ verb = "update" =>
       /\ IsLive(id, kind) /\ body.revision = Revision /\ ~Same(body, resources[id])
       /\ previous = resources[id].revision
  /\ verb = "delete" => IsLive(id, kind) /\ body = resources[id]

LEMMA CompleteStands ==
  ASSUME ReplayInv, NEW p, NEW k, NEW i \in Invocations, NEW o, Recorded(o),
         NEW kind, NEW verb, NEW id, NEW body, NEW from, NEW previous,
         Complete(p, k, i, kind, verb, id, body, from, previous),
         Checked(i, kind, verb, id, body, previous)
  PROVE  Stands(o) /\ Tabular'
<1>0. IsSequence(events) /\ IsSequence(outcomes) /\ Placed /\ Tabular /\ ~Historical
  BY BatchesAssumption DEF ReplayInv, BInv
<1>1. PICK n \in Nat : n = Len(events)
  BY <1>0 DEF IsSequence
<1>2. PICK q : RowFor(q, i) /\ \E e : Moved(q, e, n, kind, verb, id, body, from, previous)
  BY <1>1, CompleteShape
<1>3. PICK e : Moved(q, e, n, kind, verb, id, body, from, previous)
  BY <1>2
<1>4. q = o
  BY <1>0, <1>2, OneRow DEF RowFor, Recorded
<1>5. o.op = i.op /\ o.witnesses = Witnesses(i)
  BY <1>2, <1>4 DEF RowFor
<1>6. verb \in {"create", "update", "delete"} /\ ~Terminal(kind, verb)
  BY <1>0 DEF Checked, VerbOf, Terminal
<1>7. /\ e.subject = id /\ e.kind = kind /\ e.verb = verb /\ e.body = body
      /\ e.revision = IF verb = "delete" THEN body.revision ELSE n + 1
      /\ e.previous = IF verb = "delete" THEN 0 ELSE previous
      /\ e.incident = Incident(kind, verb, id, body)
      /\ o.response.result = ResultOf(verb) /\ o.response.id = id /\ o.response.body = body
      /\ events' = Append(events, e)
      /\ resources' = IF verb = "delete" THEN Drop(resources, id) ELSE Put(resources, id, body)
      /\ identities' = IF verb = "create" THEN Put(identities, id, kind) ELSE identities
      /\ aliases' = aliases
  BY <1>3, <1>4, <1>6 DEF Moved, Response
<1>8. /\ Len(events') = n + 1 /\ events'[n + 1] = e
  BY <1>0, <1>1, <1>7, AppendFacts
<1>9. PICK row : row = GroupOf(o)[1]
  OBVIOUS
<1>10. o.op # "batch"
  BY <1>5, InvocationsAssumption DEF Invocation, Operations
<1>11. row.id = id /\ row.kind = kind /\ row.outcome = ResultOf(verb) /\ row.body = body
  BY <1>5, <1>7, <1>9, <1>10, SoleGroup DEF Checked
<1>12. Fresh = {n + 1}
  BY <1>1, <1>8 DEF Fresh
<1>13. /\ row.outcome \in {"created", "updated", "deleted"} /\ Changing(row)
       /\ row.outcome = "created" <=> verb = "create"
       /\ row.outcome = "updated" <=> verb = "update"
       /\ row.outcome = "deleted" <=> verb = "delete"
  BY <1>6, <1>11 DEF ResultOf, Changing
<1>14. DOMAIN resources \subseteq DOMAIN identities
  BY <1>0 DEF Placed
<1>15. RowTold(row)
  <2>1. CASE verb = "create"
    BY <1>1, <1>7, <1>11, <1>12, <1>13, <2>1 DEF RowTold, Checked, Put, Revision
  <2>2. CASE verb = "update"
    BY <1>1, <1>7, <1>11, <1>12, <1>13, <1>14, <2>2 DEF RowTold, Checked, Put, Revision, IsLive
  <2>3. CASE verb = "delete"
    BY <1>7, <1>11, <1>13, <1>14, <2>3 DEF RowTold, Checked, Drop, IsLive
  <2> QED BY <1>6, <2>1, <2>2, <2>3
<1>16. ASSUME NEW x, x # row.id
       PROVE  /\ x \in DOMAIN resources' <=> x \in DOMAIN resources
              /\ x \in DOMAIN resources => resources'[x] = resources[x]
              /\ x \in DOMAIN identities' <=> x \in DOMAIN identities
  BY <1>7, <1>11, <1>16 DEF Put, Drop
<1>17. Tabular'
  BY <1>0, <1>7 DEF Tabular, Put
<1>18. EventTold(row, n + 1)
  <2>1. e.revision = body.revision
    BY <1>1, <1>6, <1>7 DEF Checked, Revision
  <2>2. e.previous = IF row.outcome = "updated" THEN resources[row.id].revision ELSE 0
    BY <1>6, <1>7, <1>11, <1>13 DEF Checked
  <2>3. e.incident = IF row.kind = "bead" THEN {}
          ELSE (IF row.id \in DOMAIN resources THEN LocalEndpoints(resources[row.id]) ELSE {})
                 \cup IF row.outcome = "deleted" THEN {} ELSE LocalEndpoints(row.body)
    BY <1>7, <1>11, <1>13, Zenon DEF Incident
  <2>4. n + 1 <= Len(events')
    BY <1>8
  <2> QED BY <1>7, <1>8, <1>11, <2>1, <2>2, <2>3, <2>4 DEF EventTold
<1>19. row.outcome \in {ResultOf(VerbOf(o.op)), "unchanged"}
  BY <1>5, <1>11 DEF Checked
<1>20. Stands(o)
  BY <1>1, <1>5, <1>7, <1>8, <1>9, <1>13, <1>15, <1>16, <1>17, <1>18, <1>19, SingleStands DEF Checked
<1> QED BY <1>17, <1>20

Accepting == {"applied", "created", "updated", "unchanged", "deleted"}

LEMMA DecidedRow ==
  ASSUME ReplayInv, NEW p, NEW k, NEW i, NEW response, NEW position,
         Decide(p, k, i, response, position), NEW o, Recorded(o)
  PROVE  /\ o.op = i.op /\ o.witnesses = Witnesses(i)
         /\ o.response = response /\ o.position = position
<1>1. PICK q : /\ outcomes' = Append(outcomes, q) /\ q.op = i.op /\ q.witnesses = Witnesses(i)
               /\ q.response = response /\ q.position = position
  BY DEF Decide
<1>2. q = o
  BY <1>1, OneRow DEF ReplayInv, BInv, Recorded
<1> QED BY <1>1, <1>2

LEMMA RefuseStands ==
  ASSUME ReplayInv, NEW p, NEW k, NEW i \in Invocations, NEW o, Recorded(o),
         NEW code, code \notin Accepting, Refuse(p, k, i, code)
  PROVE  Stands(o) /\ Tabular'
<1>1. Decide(p, k, i, Refusal(code), 0) /\ UNCHANGED <<identities, resources, aliases, events>>
  BY DEF Refuse
<1>2. o.op = i.op /\ o.witnesses = Witnesses(i) /\ o.response = Refusal(code) /\ o.position = 0
  BY <1>1, DecidedRow
<1>3. ~Accepted(o)
  BY <1>2 DEF Accepted, Accepting, Refusal, Response
<1>4. FactsOf(o) = {}
  BY <1>2, InvocationsAssumption DEF FactsOf, Invocation, Operations
<1>5. Tabular'
  BY <1>1 DEF ReplayInv, Tabular
<1> QED BY <1>1, <1>2, <1>3, <1>4, <1>5, RefusedStands, SingleWitnesses

LEMMA UnchangedStands ==
  ASSUME ReplayInv, NEW p, NEW k, NEW i \in Invocations, NEW o, Recorded(o), NEW id,
         IsLive(id, KindOf(i.op)), VerbOf(i.op) = "update", Unchanged(p, k, i, KindOf(i.op), id)
  PROVE  Stands(o) /\ Tabular'
<1>1. PICK from, previous :
        Decide(p, k, i, Response("unchanged", id, resources[id], None, from, previous), 0)
  BY DEF Unchanged
<1>2. UNCHANGED <<identities, resources, aliases, events>>
  BY DEF Unchanged
<1>3. /\ o.op = i.op /\ o.witnesses = Witnesses(i)
      /\ o.response.result = "unchanged" /\ o.response.id = id /\ o.response.body = resources[id]
  BY <1>1, DecidedRow DEF Response
<1>4. Tabular'
  BY <1>2 DEF ReplayInv, Tabular
<1>5. PICK row : row = GroupOf(o)[1]
  OBVIOUS
<1>6. o.op \notin {"batch", "putAlias", "deleteAlias"}
  BY <1>3, InvocationsAssumption DEF Invocation, Operations, VerbOf
<1>7. /\ row.id = id /\ row.kind = KindOf(i.op) /\ row.outcome = "unchanged"
      /\ row.body = resources[id]
  BY <1>3, <1>5, <1>6, SoleGroup
<1>8. ~Changing(row)
  BY <1>7 DEF Changing
<1>9. RowTold(row)
  BY <1>2, <1>7 DEF RowTold, IsLive, ReplayInv, BInv, Placed
<1>10. Len(events') = Len(events) + IF Changing(row) THEN 1 ELSE 0
  <2>1. Len(events) \in Nat
    BY SMTT(30) DEF ReplayInv, BInv, IsSequence
  <2> QED BY <1>2, <1>8, <2>1
<1>11. Stands(o)
  BY <1>2, <1>3, <1>4, <1>5, <1>6, <1>7, <1>8, <1>9, <1>10, SingleStands
<1> QED BY <1>4, <1>11

LEMMA CreateStands ==
  ASSUME ReplayInv, NEW p, NEW k, NEW i \in Invocations, NEW o, Recorded(o),
         NEW source, NEW target, VerbOf(i.op) = "create",
         PerformCreate(p, k, i, KindOf(i.op), source, target)
  PROVE  Stands(o) /\ Tabular'
<1> DEFINE kind == KindOf(i.op)
           body == Body(Revision, i.data, source, target)
<1>1. PICK id \in IF i.id = None THEN Unused ELSE {i.id} :
        \/ /\ CreateRefusal(i, kind, id, body) # "none"
           /\ Refuse(p, k, i, CreateRefusal(i, kind, id, body))
        \/ /\ CreateRefusal(i, kind, id, body) = "none"
           /\ Complete(p, k, i, kind, "create", id, body, 0, 0)
  BY Zenon DEF PerformCreate
<1>2. CASE Refuse(p, k, i, CreateRefusal(i, kind, id, body))
             /\ CreateRefusal(i, kind, id, body) # "none"
  <2>1. CreateRefusal(i, kind, id, body) \notin Accepting
    BY DEF CreateRefusal, EndpointRefusal, Accepting
  <2> QED BY <1>2, <2>1, RefuseStands
<1>3. CASE /\ CreateRefusal(i, kind, id, body) = "none"
           /\ Complete(p, k, i, kind, "create", id, body, 0, 0)
  <2>1. id \notin DOMAIN identities \cup DOMAIN aliases
    BY <1>3 DEF CreateRefusal
  <2>2. body.revision = Revision
    BY DEF Body
  <2>3. i.op \notin {"putAlias", "deleteAlias"}
    BY DEF VerbOf
  <2> HIDE DEF body, kind
  <2>4. Checked(i, kind, "create", id, body, 0)
    BY <2>1, <2>2, <2>3 DEF Checked, kind
  <2> QED BY <1>3, <2>4, CompleteStands
<1> QED BY <1>1, <1>2, <1>3

LEMMA SameRevised ==
  ASSUME NEW a, NEW b, IsBody(a), IsBody(b), a.revision = b.revision, NEW r,
         Same([a EXCEPT !.revision = r], b)
  PROVE  a = b
<1>1. /\ a = Body(a.revision, a.data, a.source, a.target)
      /\ b = Body(b.revision, b.data, b.source, b.target)
  BY DEF IsBody
<1> QED BY <1>1 DEF Same, Body

LEMMA UpdateStands ==
  ASSUME ReplayInv, NEW p, NEW k, NEW i \in Invocations, NEW o, Recorded(o),
         NEW id, NEW source, NEW target, VerbOf(i.op) = "update",
         PerformUpdate(p, k, i, KindOf(i.op), id, source, target)
  PROVE  Stands(o) /\ Tabular'
<1> DEFINE kind == KindOf(i.op)
           refusal == UpdateRefusal(i, kind, id, source, target)
           next == Candidate(i, kind, id, source, target)
           body == [next EXCEPT !.revision = Revision]
           previous == Predecessor(i, kind, id)
<1>1. CASE refusal # "none" /\ Refuse(p, k, i, refusal)
  <2>1. refusal \notin Accepting
    BY DEF UpdateRefusal, EndpointRefusal, Accepting
  <2> QED BY <1>1, <2>1, RefuseStands
<1>2. CASE Refuse(p, k, i, "limit-exceeded")
  <2>1. "limit-exceeded" \notin Accepting
    BY DEF Accepting
  <2> QED BY <1>2, <2>1, RefuseStands
<1>3. refusal = "none" => IsLive(id, kind) /\ ~Recovering(i, kind, id)
  BY BatchesAssumption DEF UpdateRefusal, Recovering
<1>4. CASE refusal = "none" /\ Unchanged(p, k, i, kind, id)
  BY <1>3, <1>4, UnchangedStands
<1>5. CASE /\ refusal = "none" /\ (Recovering(i, kind, id) \/ next # Before(i, kind, id))
           /\ Complete(p, k, i, kind, "update", id, body, i.from, previous)
  <2>1. Before(i, kind, id) = resources[id] /\ id \in DOMAIN resources
    BY <1>3, <1>5 DEF Before, IsLive
  <2>2. previous = resources[id].revision
    BY <1>3, <1>5, <2>1 DEF Predecessor
  <2>3. IsBody(next) /\ next.revision = resources[id].revision
    BY <2>1 DEF Candidate, Body, IsBody
  <2>4. body.revision = Revision
    BY <2>3 DEF Candidate, Body
  <2>5. ~Same(body, resources[id])
    <3>1. IsBody(resources[id])
      BY <2>1 DEF ReplayInv, BInv, Bodies
    <3>2. next # resources[id]
      BY <1>3, <1>5, <2>1
    <3> HIDE DEF next
    <3> QED BY <2>3, <3>1, <3>2, SameRevised
  <2>6. i.op \notin {"putAlias", "deleteAlias"}
    BY DEF VerbOf
  <2> HIDE DEF body, previous, next, kind
  <2>7. Checked(i, kind, "update", id, body, previous)
    BY <1>3, <1>5, <2>2, <2>4, <2>5, <2>6 DEF Checked, kind
  <2> QED BY <1>5, <2>7, CompleteStands
<1> QED BY <1>1, <1>2, <1>4, <1>5, Zenon DEF PerformUpdate

LEMMA DeleteStands ==
  ASSUME ReplayInv, NEW p, NEW k, NEW i \in Invocations, NEW o, Recorded(o), NEW id,
         VerbOf(i.op) = "delete", i.op \notin {"putAlias", "deleteAlias"},
         PerformDelete(p, k, i, KindOf(i.op), id)
  PROVE  Stands(o) /\ Tabular'
<1> DEFINE kind == KindOf(i.op)
<1>1. CASE DeleteRefusal(i, kind, id) # "none" /\ Refuse(p, k, i, DeleteRefusal(i, kind, id))
  <2>1. DeleteRefusal(i, kind, id) \notin Accepting
    BY DEF DeleteRefusal, Accepting
  <2> QED BY <1>1, <2>1, RefuseStands
<1>2. CASE DeleteRefusal(i, kind, id) = "none"
             /\ Complete(p, k, i, kind, "delete", id, resources[id], 0, resources[id].revision)
  <2>1. IsLive(id, kind)
    BY <1>2 DEF DeleteRefusal
  <2>2. Checked(i, kind, "delete", id, resources[id], resources[id].revision)
    BY <2>1 DEF Checked
  <2> HIDE DEF kind
  <2> QED BY <1>2, <2>2, CompleteStands
<1> QED BY <1>1, <1>2 DEF PerformDelete

LEMMA AliasStandsNew ==
  ASSUME ReplayInv, NEW p, NEW k, NEW i \in Invocations, NEW o, Recorded(o),
         PutAlias(p, k, i) \/ DeleteAlias(p, k, i)
  PROVE  Stands(o) /\ Tabular'
<1>0. ASSUME NEW code, Refuse(p, k, i, code),
             code \in {"resource-not-found", "identity-taken", "validation-failed"}
      PROVE  Stands(o) /\ Tabular'
  <2>1. code \notin Accepting
    BY <1>0 DEF Accepting
  <2> QED BY <1>0, <2>1, RefuseStands
<1>a. i.op \in {"putAlias", "deleteAlias"} => DOMAIN Witnesses(i) = {}
  BY DEF Witnesses, Slots
<1>1. CASE PutAlias(p, k, i) /\ PutAliasRefusal(i) = "none"
  <2>1. /\ i.id \in AliasNamespace \ Reserved /\ i.id \notin DOMAIN identities
        /\ i.target \in DOMAIN resources /\ identities[i.target] = "bead"
        /\ i.target \notin DOMAIN aliases
    BY <1>1 DEF PutAliasRefusal, ReplayInv, BInv, Placed
  <2> DEFINE response == Response(IF i.id \in DOMAIN aliases THEN "updated" ELSE "created",
                                  i.id, None, i.target, 0, 0)
  <2>2. /\ Decide(p, k, i, response, 0)
        /\ aliases' = Put(aliases, i.id, i.target)
        /\ UNCHANGED <<identities, resources, events, versions>>
        /\ i.op = "putAlias"
    BY <1>1, Zenon DEF PutAlias
  <2>3. o.op = i.op /\ o.witnesses = Witnesses(i) /\ o.response = response /\ o.position = 0
    BY <2>2, DecidedRow
  <2>4. PutRow(o)
    BY <2>1, <2>2, <2>3 DEF PutRow, Response
  <2>5. Tabular'
    BY <2>2 DEF ReplayInv, Tabular
  <2> QED BY <1>a, <2>2, <2>3, <2>4, <2>5, AliasRowStands
<1>2. CASE DeleteAlias(p, k, i) /\ i.id \in DOMAIN aliases
  <2> DEFINE response == Response("deleted", i.id, None, None, 0, 0)
  <2>1. /\ Decide(p, k, i, response, 0)
        /\ aliases' = Drop(aliases, i.id)
        /\ UNCHANGED <<identities, resources, events, versions>>
        /\ i.op = "deleteAlias"
    BY <1>2, Zenon DEF DeleteAlias
  <2>2. o.op = i.op /\ o.witnesses = Witnesses(i) /\ o.response = response /\ o.position = 0
    BY <2>1, DecidedRow
  <2>3. DropRow(o)
    BY <1>2, <2>1, <2>2 DEF DropRow, Response
  <2>4. Tabular'
    BY <2>1 DEF ReplayInv, Tabular
  <2> QED BY <1>a, <2>1, <2>2, <2>3, <2>4, AliasRowStands
<1>3. CASE PutAlias(p, k, i) /\ PutAliasRefusal(i) # "none"
  <2>1. PutAliasRefusal(i) \in {"resource-not-found", "identity-taken", "validation-failed"}
    BY <1>3 DEF PutAliasRefusal
  <2> QED BY <1>0, <1>3, <2>1 DEF PutAlias
<1>4. CASE DeleteAlias(p, k, i) /\ i.id \notin DOMAIN aliases
  BY <1>0, <1>4 DEF DeleteAlias
<1> QED BY <1>1, <1>2, <1>3, <1>4

\* Whatever a single request is told, its decision stands.
LEMMA ExecuteStands ==
  ASSUME ReplayInv, NEW p, NEW k, NEW i \in Invocations, NEW o, Recorded(o), Execute(p, k, i)
  PROVE  Stands(o) /\ Tabular'
<1>0. ASSUME NEW code, Refuse(p, k, i, code), code \in {"resource-not-found", "validation-failed"}
      PROVE  Stands(o) /\ Tabular'
  <2>1. code \notin Accepting
    BY <1>0 DEF Accepting
  <2> QED BY <1>0, <2>1, RefuseStands
<1>1. CASE CreateBead(p, k, i)
  BY <1>0, <1>1, CreateStands DEF CreateBead, KindOf, VerbOf
<1>2. CASE UpdateBead(p, k, i)
  BY <1>0, <1>2, UpdateStands DEF UpdateBead, KindOf, VerbOf
<1>3. CASE DeleteBead(p, k, i)
  BY <1>0, <1>3, DeleteStands DEF DeleteBead, KindOf, VerbOf
<1>4. CASE CreateLink(p, k, i)
  BY <1>0, <1>4, CreateStands DEF CreateLink, LinkRefused, KindOf, VerbOf
<1>5. CASE UpdateLink(p, k, i)
  BY <1>0, <1>5, UpdateStands DEF UpdateLink, LinkRefused, KindOf, VerbOf
<1>6. CASE DeleteLink(p, k, i)
  BY <1>0, <1>6, DeleteStands DEF DeleteLink, KindOf, VerbOf
<1>7. CASE PutAlias(p, k, i) \/ DeleteAlias(p, k, i)
  BY <1>7, AliasStandsNew
<1> QED BY <1>1, <1>2, <1>3, <1>4, <1>5, <1>6, <1>7 DEF Execute
-----------------------------------------------------------------------------
(* The effects of a batch among the rows of its group. *)

Count(a, S, r) == Cardinality({t \in 1..r : a[t] \in S})

LEMMA CountStep ==
  ASSUME NEW a, NEW S, NEW r \in Nat
  PROVE  /\ Count(a, S, 0) = 0 /\ Count(a, S, r) \in Nat
         /\ a[r + 1] \in S => Count(a, S, r + 1) = Count(a, S, r) + 1
         /\ a[r + 1] \notin S => Count(a, S, r + 1) = Count(a, S, r)
<1> DEFINE C(n) == {t \in 1..n : a[t] \in S}
<1>1. C(0) = {}
  OBVIOUS
<1>2. IsFiniteSet(C(r))
  <2>1. IsFiniteSet(1..r)
    BY FS_Interval
  <2> QED BY <2>1, FS_Subset
<1>3. a[r + 1] \in S => C(r + 1) = C(r) \cup {r + 1}
  OBVIOUS
<1>4. a[r + 1] \notin S => C(r + 1) = C(r)
  OBVIOUS
<1>5. r + 1 \notin C(r)
  OBVIOUS
<1>6. \A n : Count(a, S, n) = Cardinality(C(n))
  BY DEF Count
<1> HIDE DEF C
<1>7. Cardinality(C(r)) \in Nat /\ Cardinality(C(r) \cup {r + 1}) = Cardinality(C(r)) + 1
  BY <1>2, <1>5, FS_AddElement, FS_CardinalityType
<1>8. Cardinality(C(0)) = 0
  BY <1>1, FS_EmptySet
<1> QED BY <1>3, <1>4, <1>6, <1>7, <1>8

LEMMA CountKept ==
  ASSUME NEW a, NEW b, NEW S, NEW r \in Nat, \A t \in 1..r : a[t] = b[t]
  PROVE  Count(a, S, r) = Count(b, S, r)
<1>1. {t \in 1..r : a[t] \in S} = {t \in 1..r : b[t] \in S}
  OBVIOUS
<1> QED BY <1>1 DEF Count

\* Among the addresses of T in order, those of S come in the order of S.
InStep(a, b, S) ==
  /\ Len(b) = Count(a, S, Len(a))
  /\ \A r \in 1..Len(a) : a[r] \in S =>
       Count(a, S, r) \in 1..Len(b) /\ b[Count(a, S, r)] = a[r]

LEMMA InStepAfter ==
  ASSUME NEW a \in Seq(Uris), NEW b \in Seq(Uris), NEW S, InStep(a, b, S), NEW x \in Uris
  PROVE  /\ x \notin S => InStep(Append(a, x), b, S)
         /\ x \in S => InStep(Append(a, x), Append(b, x), S)
<1>1. PICK c : c = Append(a, x)
  OBVIOUS
<1>2. /\ Len(a) \in Nat /\ Len(c) = Len(a) + 1 /\ c[Len(a) + 1] = x
      /\ \A t \in 1..Len(a) : c[t] = a[t]
  BY <1>1
<1>3. \A r \in 0..Len(a) : Count(c, S, r) = Count(a, S, r)
  BY <1>2, CountKept
<1>4. /\ Count(c, S, Len(c)) = IF x \in S THEN Count(a, S, Len(a)) + 1 ELSE Count(a, S, Len(a))
      /\ Count(a, S, Len(a)) = Len(b)
  <2>1. PICK m \in Nat : m = Len(a)
    BY <1>2
  <2>2. /\ c[m + 1] \in S => Count(c, S, m + 1) = Count(c, S, m) + 1
        /\ c[m + 1] \notin S => Count(c, S, m + 1) = Count(c, S, m)
    BY CountStep
  <2>3. c[m + 1] = x /\ Len(c) = m + 1 /\ Count(c, S, m) = Count(a, S, m)
    BY <1>2, <1>3, <2>1
  <2> QED BY <2>1, <2>2, <2>3 DEF InStep
<1>5. \A r \in 1..Len(c) : r \in 1..Len(a) \/ r = Len(c)
  BY <1>2
<1>6. \A r \in 1..Len(a) : c[r] \in S =>
        Count(c, S, r) \in 1..Len(b) /\ b[Count(c, S, r)] = c[r]
  BY <1>2, <1>3 DEF InStep
<1>7. ASSUME x \notin S PROVE InStep(c, b, S)
  BY <1>2, <1>4, <1>5, <1>6, <1>7 DEF InStep
<1>8. ASSUME x \in S PROVE InStep(c, Append(b, x), S)
  <2>1. PICK d : d = Append(b, x)
    OBVIOUS
  <2>2. /\ Len(b) \in Nat /\ Len(d) = Len(b) + 1 /\ d[Len(b) + 1] = x
        /\ \A t \in 1..Len(b) : t \in 1..Len(d) /\ d[t] = b[t]
    BY <2>1
  <2>3. Count(c, S, Len(c)) = Len(d)
    BY <1>4, <1>8, <2>2
  <2>4. ASSUME NEW r \in 1..Len(a), c[r] \in S
        PROVE  Count(c, S, r) \in 1..Len(d) /\ d[Count(c, S, r)] = c[r]
    <3>1. PICK m : m = Count(c, S, r)
      OBVIOUS
    <3>2. m \in 1..Len(b) /\ b[m] = c[r]
      BY <1>6, <2>4, <3>1
    <3> QED BY <2>2, <3>1, <3>2
  <2>5. c[Len(c)] \in S => Count(c, S, Len(c)) \in 1..Len(d) /\ d[Count(c, S, Len(c))] = c[Len(c)]
    BY <1>2, <2>2, <2>3
  <2> QED BY <1>5, <2>1, <2>3, <2>4, <2>5 DEF InStep
<1> QED BY <1>1, <1>7, <1>8

LEMMA InOrderInStep ==
  ASSUME NEW T, T \subseteq Uris, NEW S, S \subseteq T
  PROVE  InStep(InOrder(T), InOrder(S), S)
<1>1. PICK a : /\ InOrder(T) = a[Len(Order)]
               /\ a[0] = <<>>
               /\ \A n \in 1..Len(Order) : a[n] =
                    IF Order[n] \in T THEN Append(a[n - 1], Order[n]) ELSE a[n - 1]
  BY InOrderUnfold
<1>2. PICK b : /\ InOrder(S) = b[Len(Order)]
               /\ b[0] = <<>>
               /\ \A n \in 1..Len(Order) : b[n] =
                    IF Order[n] \in S THEN Append(b[n - 1], Order[n]) ELSE b[n - 1]
  BY InOrderUnfold
<1> DEFINE Good(n) == a[n] \in Seq(Uris) /\ b[n] \in Seq(Uris) /\ InStep(a[n], b[n], S)
           G == {n \in 0..Len(Order) : Good(n)}
<1>3. Good(0)
  <2>1. Count(<<>>, S, 0) = 0 /\ Len(<<>>) = 0
    BY CountStep
  <2> QED BY <1>1, <1>2, <2>1 DEF InStep
<1>4. ASSUME NEW n \in 1..Len(Order), Good(n - 1) PROVE Good(n)
  <2>1. Order[n] \in Uris
    BY OrderIsSequence
  <2>2. PICK u, v, x : u = a[n - 1] /\ v = b[n - 1] /\ x = Order[n]
    OBVIOUS
  <2>3. u \in Seq(Uris) /\ v \in Seq(Uris) /\ InStep(u, v, S) /\ x \in Uris
    BY <1>4, <2>1, <2>2
  <2>4. /\ a[n] = IF x \in T THEN Append(u, x) ELSE u
        /\ b[n] = IF x \in S THEN Append(v, x) ELSE v
    BY <1>1, <1>2, <2>2
  <2>5. Append(u, x) \in Seq(Uris) /\ Append(v, x) \in Seq(Uris)
    BY <2>3
  <2> QED BY <2>3, <2>4, <2>5, InStepAfter
<1>5. 0..Len(Order) \subseteq G
  <2> HIDE DEF Good
  <2>1. 0 \in G /\ \A n \in 1..Len(Order) : n - 1 \in G => n \in G
    BY <1>3, <1>4, OrderIsSequence
  <2> HIDE DEF G
  <2> QED BY <2>1, OrderIsSequence, UpTo
<1>6. Good(Len(Order))
  <2> HIDE DEF Good
  <2> QED BY <1>5, OrderIsSequence
<1> QED BY <1>1, <1>2, <1>6
-----------------------------------------------------------------------------
(* What the members of an accepted batch have named, created and deleted. *)

Taken(g, h, B, n, id) ==
  LET verb == VerbOf(B[n].request.op) IN
  /\ h.ids = Append(g.ids, id)
  /\ \A x \in DOMAIN h.live : x # id => h.live[x] = g.live[x]
  /\ verb = "create" =>
       /\ id \notin g.allocated \cup DOMAIN identities \cup DOMAIN aliases
       /\ B[n].request.id \in {None, id}
       /\ h.allocated = g.allocated \cup {id} /\ DOMAIN h.live = DOMAIN g.live \cup {id}
  /\ verb # "create" =>
       /\ id = Reference(g, B, n, "id").uri /\ id \in DOMAIN g.live
       /\ g.live[id].kind = MemberKind(B, n) /\ h.allocated = g.allocated
  /\ verb = "delete" => DOMAIN h.live = DOMAIN g.live \ {id}
  /\ verb = "update" =>
       DOMAIN h.live = DOMAIN g.live /\ h.live[id].body.revision = g.live[id].body.revision

LEMMA MemberTaken ==
  ASSUME NEW B \in Batches, NEW n \in 1..Len(B), NEW chosen, NEW g,
         Member(g, B, n, chosen).code = "none"
  PROVE  \E id : Taken(g, Member(g, B, n, chosen), B, n, id)
<1> DEFINE i == B[n].request
           h == Member(g, B, n, chosen)
           drawn == Creates(B, n) /\ i.id = None
           id == IF drawn THEN chosen[n] ELSE IF Creates(B, n) THEN i.id
                 ELSE Reference(g, B, n, "id").uri
           fresh == Staged(g, B, n, Body(0, None, None, None), i.data)
           old == g.live[id].body
           staged == Staged(g, B, n, old, Edit[i.data][old.data])
           kind == MemberKind(B, n)
           code == IF i.refused THEN "validation-failed"
                   ELSE IF drawn /\ id = None THEN "temporarily-unavailable"
                   ELSE IF Creates(B, n) THEN CreateCode(g, B, n, id, fresh)
                   ELSE ChangeCode(g, B, n, kind)
           made == [kind |-> kind, body |-> fresh]
           left == [kind |-> kind, body |-> staged]
           live == CASE VerbOf(i.op) = "create" -> Put(g.live, id, made)
                     [] VerbOf(i.op) = "delete" -> Drop(g.live, id)
                     [] OTHER -> Put(g.live, id, left)
           after == [live |-> live, ids |-> Append(g.ids, id), code |-> "none",
                     allocated |-> g.allocated \cup IF Creates(B, n) THEN {id} ELSE {}]
<1>1. h = IF g.code # "none" THEN g
          ELSE IF code # "none" THEN [g EXCEPT !.code = code] ELSE after
  BY Zenon DEF Member, MemberKind
<1>2. g.code = "none" /\ code = "none" /\ h = after
  <2> HIDE DEF code, after
  <2> QED BY <1>1
<1>3. h.live = live /\ h.ids = Append(g.ids, id)
        /\ h.allocated = g.allocated \cup IF Creates(B, n) THEN {id} ELSE {}
  <2> HIDE DEF live, id, h
  <2> QED BY <1>2
<1>4. VerbOf(i.op) \in {"create", "update", "delete"}
        /\ (Creates(B, n) <=> VerbOf(i.op) = "create")
  BY MemberRequest, Zenon DEF Creates
<1>5. left.body.revision = old.revision
  <2> HIDE DEF old, i
  <2>1. staged.revision = old.revision
    BY StagedKeeps
  <2> HIDE DEF staged, kind
  <2> QED BY <2>1
<1> HIDE DEF h, fresh, staged, made, left
<1>6. /\ VerbOf(i.op) = "create" => h.live = Put(g.live, id, made)
      /\ VerbOf(i.op) = "update" => h.live = Put(g.live, id, left)
      /\ VerbOf(i.op) = "delete" => h.live = Drop(g.live, id)
  BY <1>3, <1>4
<1>7. VerbOf(i.op) = "create" =>
        /\ id \notin g.allocated \cup DOMAIN identities \cup DOMAIN aliases
        /\ i.id \in {None, id} /\ h.allocated = g.allocated \cup {id}
  <2> HAVE VerbOf(i.op) = "create"
  <2>1. CreateCode(g, B, n, id, fresh) = "none"
    BY <1>2, <1>4
  <2>2. i.id \in {None, id}
    BY <1>4
  <2>3. h.allocated = g.allocated \cup {id}
    BY <1>3, <1>4
  <2> HIDE DEF id
  <2> QED BY <2>1, <2>2, <2>3 DEF CreateCode
<1>8. VerbOf(i.op) # "create" =>
        /\ id = Reference(g, B, n, "id").uri /\ id \in DOMAIN g.live
        /\ g.live[id].kind = kind /\ h.allocated = g.allocated
  <2> HAVE VerbOf(i.op) # "create"
  <2>1. ChangeCode(g, B, n, kind) = "none" /\ id = Reference(g, B, n, "id").uri
    BY <1>2, <1>4
  <2>2. h.allocated = g.allocated
    BY <1>3, <1>4
  <2> HIDE DEF kind
  <2> QED BY <2>1, <2>2, Zenon DEF ChangeCode
<1> HIDE DEF id, code, live, after, drawn, kind
<1>9. \A x \in DOMAIN h.live : x # id => h.live[x] = g.live[x]
  BY <1>4, <1>6 DEF Put, Drop
<1>10. /\ VerbOf(i.op) = "create" => DOMAIN h.live = DOMAIN g.live \cup {id}
       /\ VerbOf(i.op) = "delete" => DOMAIN h.live = DOMAIN g.live \ {id}
  BY <1>6 DEF Put, Drop
<1>11. VerbOf(i.op) = "update" => DOMAIN h.live = DOMAIN g.live /\ h.live[id] = left
  BY <1>6, <1>8 DEF Put
<1>12. Taken(g, h, B, n, id)
  BY <1>3, <1>5, <1>7, <1>8, <1>9, <1>10, <1>11 DEF Taken, kind
<1> QED BY <1>12 DEF h

Subjects(ids, B, verb, n) ==
  {ids[m] : m \in {m \in 1..n : VerbOf(B[m].request.op) = verb}}

\* The address a member names that creates nothing.
NamedId(ids, B, m) ==
  IF "id" \in DOMAIN B[m].handles THEN ids[B[m].handles["id"]]
  ELSE IF "id" \in OpenSlots(B, m) THEN Compared(B, m, "id", BatchWitnesses(B)).uri
  ELSE B[m].request["id"]

Maps(ids, B, m) ==
  LET id == ids[m] IN
  /\ id \in DOMAIN identities => MemberKind(B, m) = identities[id]
  /\ VerbOf(B[m].request.op) = "create" =>
       /\ B[m].request.id \in {None, id}
       /\ id \notin DOMAIN identities \cup DOMAIN aliases \cup Subjects(ids, B, "create", m - 1)
  /\ VerbOf(B[m].request.op) # "create" =>
       /\ id = NamedId(ids, B, m)
       /\ id \in (DOMAIN resources \cup Subjects(ids, B, "create", m - 1))
                   \ Subjects(ids, B, "delete", m - 1)

Traced(g, B, n) ==
  /\ g.allocated = Subjects(g.ids, B, "create", n)
  /\ DOMAIN g.live = (DOMAIN resources \cup Subjects(g.ids, B, "create", n))
                       \ Subjects(g.ids, B, "delete", n)
  /\ \A m \in 1..n : Maps(g.ids, B, m)
  /\ \A id \in DOMAIN resources : id \in DOMAIN g.live =>
       g.live[id].body.revision = resources[id].revision

LEMMA SubjectsAre ==
  ASSUME NEW ids, NEW B, NEW verb, NEW n
  PROVE  \A x : x \in Subjects(ids, B, verb, n) <=>
                  \E m \in 1..n : VerbOf(B[m].request.op) = verb /\ ids[m] = x
BY DEF Subjects

LEMMA SubjectsSame ==
  ASSUME NEW a, NEW b, NEW n \in Nat, \A m \in 1..n : b[m] = a[m], NEW B, NEW verb
  PROVE  Subjects(b, B, verb, n) = Subjects(a, B, verb, n)
<1>1. \A x : x \in Subjects(b, B, verb, n) <=> x \in Subjects(a, B, verb, n)
  BY SubjectsAre
<1> QED BY <1>1

\* A list of n subjects whose first k are those of a.
OneMore(a, b, k, n) == 1..n = 1..k \cup {n} /\ \A m \in 1..k : b[m] = a[m]

LEMMA SubjectsAfter ==
  ASSUME NEW a, NEW b, NEW k, NEW n, OneMore(a, b, k, n), NEW B, NEW verb
  PROVE  /\ VerbOf(B[n].request.op) = verb =>
              Subjects(b, B, verb, n) = Subjects(a, B, verb, k) \cup {b[n]}
         /\ VerbOf(B[n].request.op) # verb =>
              Subjects(b, B, verb, n) = Subjects(a, B, verb, k)
<1>1. \A m : m \in 1..n <=> m \in 1..k \/ m = n
  BY DEF OneMore
<1>2. \A x : x \in Subjects(b, B, verb, n) <=>
        x \in Subjects(a, B, verb, k) \/ (VerbOf(B[n].request.op) = verb /\ b[n] = x)
  <2> TAKE x
  <2>1. x \in Subjects(b, B, verb, n) <=>
          \E m : m \in 1..n /\ VerbOf(B[m].request.op) = verb /\ b[m] = x
    BY SubjectsAre
  <2>2. x \in Subjects(a, B, verb, k) <=>
          \E m : m \in 1..k /\ VerbOf(B[m].request.op) = verb /\ a[m] = x
    BY SubjectsAre
  <2>3. \A m : m \in 1..k => b[m] = a[m]
    BY DEF OneMore
  <2> QED BY <1>1, <2>1, <2>2, <2>3, Zenon
<1> QED BY <1>2

LEMMA MapsKept ==
  ASSUME NEW B \in Batches, NEW m \in 1..Len(B), NEW a, NEW b,
         \A j \in 1..m : b[j] = a[j], Maps(a, B, m)
  PROVE  Maps(b, B, m)
<1>0. Len(B) \in Nat
  BY BatchesAssumption
<1>1. PICK k \in Nat : k = m - 1
  OBVIOUS
<1>2. \A j \in 1..k : b[j] = a[j]
  BY <1>1
<1>3. \A verb : Subjects(b, B, verb, k) = Subjects(a, B, verb, k)
  BY <1>2, SubjectsSame
<1>4. NamedId(b, B, m) = NamedId(a, B, m)
  <2>1. "id" \in DOMAIN B[m].handles => B[m].handles["id"] \in 1..k
    BY <1>1, BatchesAssumption
  <2> QED BY <1>2, <2>1 DEF NamedId
<1>5. b[m] = a[m]
  BY <1>0
<1> QED BY <1>1, <1>3, <1>4, <1>5 DEF Maps

LEMMA TracedStep ==
  ASSUME Placed, NEW B \in Batches, NEW n \in 1..Len(B), NEW g, NEW h, NEW id,
         GraphInv(g, B, n - 1), Traced(g, B, n - 1), Taken(g, h, B, n, id)
  PROVE  Traced(h, B, n)
<1>0. PICK k \in Nat : k = n - 1 /\ n = k + 1 /\ k + 1 \in 1..Len(B)
  OBVIOUS
<1>1. /\ g.ids \in Seq(Uris) /\ Len(g.ids) = k
      /\ Scoped(g) /\ KindsAgree(g, B)
  BY <1>0 DEF GraphInv
<1>2. /\ h.ids[n] = id /\ \A m \in 1..k : h.ids[m] = g.ids[m]
  <2>1. h.ids = Append(g.ids, id) /\ IsSequence(g.ids)
    BY <1>1 DEF Taken, IsSequence
  <2> QED BY <1>0, <1>1, <2>1, AppendFacts
<1> DEFINE verb == VerbOf(B[n].request.op)
           C == Subjects(g.ids, B, "create", k)
           D == Subjects(g.ids, B, "delete", k)
<1>3. verb \in {"create", "update", "delete"}
  BY MemberRequest
<1>4. /\ g.allocated = C /\ DOMAIN g.live = (DOMAIN resources \cup C) \ D
      /\ \A m \in 1..k : Maps(g.ids, B, m)
      /\ \A x \in DOMAIN resources : x \in DOMAIN g.live =>
           g.live[x].body.revision = resources[x].revision
  BY <1>0 DEF Traced
<1>a. PICK a, b : a = g.ids /\ b = h.ids
  OBVIOUS
<1>b. \A m \in 1..k : b[m] = a[m]
  BY <1>2, <1>a
<1>5. \A v : Subjects(b, B, v, k) = Subjects(a, B, v, k)
  BY <1>b, SubjectsSame
<1>6. ASSUME NEW v
      PROVE  /\ verb = v => Subjects(h.ids, B, v, n) = Subjects(g.ids, B, v, k) \cup {id}
             /\ verb # v => Subjects(h.ids, B, v, n) = Subjects(g.ids, B, v, k)
  <2>1. /\ VerbOf(B[n].request.op) = v =>
             Subjects(b, B, v, n) = Subjects(a, B, v, k) \cup {b[n]}
        /\ VerbOf(B[n].request.op) # v => Subjects(b, B, v, n) = Subjects(a, B, v, k)
    <3>1. 1..n = 1..k \cup {n}
      BY <1>0
    <3>2. OneMore(a, b, k, n)
      BY <3>1, <1>b DEF OneMore
    <3> QED BY <3>2, SubjectsAfter
  <2> QED BY <1>2, <1>a, <2>1
<1>7. D \subseteq DOMAIN identities \cup g.allocated
  <2>1. D \subseteq TouchedIds(g)
    BY <1>1, SubjectsAre, TouchedIsNamed
  <2> QED BY <1>1, <2>1 DEF Scoped
<1>8. Subjects(h.ids, B, "create", k) = C /\ Subjects(h.ids, B, "delete", k) = D
  BY <1>5, <1>a
<1>9. Maps(h.ids, B, n)
  <2>1. id \in DOMAIN identities => MemberKind(B, n) = identities[id]
    BY <1>1 DEF Taken, KindsAgree
  <2>2. verb = "create" =>
          /\ B[n].request.id \in {None, id}
          /\ id \notin DOMAIN identities \cup DOMAIN aliases \cup C
    BY <1>4 DEF Taken
  <2>3. verb # "create" => id = NamedId(h.ids, B, n) /\ id \in (DOMAIN resources \cup C) \ D
    <3> HAVE verb # "create"
    <3>1. id = Reference(g, B, n, "id").uri /\ id \in DOMAIN g.live
      BY DEF Taken
    <3>2. "id" \in DOMAIN B[n].handles => B[n].handles["id"] \in 1..k
      BY <1>0, BatchesAssumption
    <3>3. Reference(g, B, n, "id").uri = NamedId(h.ids, B, n)
      BY <1>2, <3>2 DEF Reference, NamedId, Bound
    <3> QED BY <1>4, <3>1, <3>3
  <2> HIDE DEF C, D
  <2> QED BY <1>0, <1>2, <1>8, <2>1, <2>2, <2>3 DEF Maps
<1>10. ASSUME NEW m \in 1..n PROVE Maps(h.ids, B, m)
  <2>1. CASE m = n
    BY <1>9, <2>1
  <2>2. CASE m # n
    <3>1. m \in 1..k /\ m \in 1..Len(B)
      BY <1>0, <2>2
    <3>2. \A j \in 1..m : h.ids[j] = g.ids[j]
      BY <1>2, <3>1
    <3> QED BY <1>4, <3>1, <3>2, MapsKept
  <2> QED BY <2>1, <2>2
<1> HIDE DEF C, D, verb
<1>11. h.allocated = Subjects(h.ids, B, "create", n)
  BY <1>3, <1>4, <1>6 DEF Taken, verb, C
<1>12. DOMAIN h.live = (DOMAIN resources \cup Subjects(h.ids, B, "create", n))
                         \ Subjects(h.ids, B, "delete", n)
  <2>1. CASE verb = "create"
    <3>1. id \notin D /\ DOMAIN h.live = DOMAIN g.live \cup {id}
      BY <1>7, <2>1 DEF Taken, verb
    <3>2. Subjects(h.ids, B, "create", n) = C \cup {id} /\ Subjects(h.ids, B, "delete", n) = D
      BY <1>6, <2>1 DEF C, D
    <3> QED BY <1>4, <3>1, <3>2
  <2>2. CASE verb = "update"
    <3>1. DOMAIN h.live = DOMAIN g.live
      BY <2>2 DEF Taken, verb
    <3>2. Subjects(h.ids, B, "create", n) = C /\ Subjects(h.ids, B, "delete", n) = D
      BY <1>6, <2>2 DEF C, D
    <3> QED BY <1>4, <3>1, <3>2
  <2>3. CASE verb = "delete"
    <3>1. DOMAIN h.live = DOMAIN g.live \ {id}
      BY <2>3 DEF Taken, verb
    <3>2. Subjects(h.ids, B, "create", n) = C /\ Subjects(h.ids, B, "delete", n) = D \cup {id}
      BY <1>6, <2>3 DEF C, D
    <3> QED BY <1>4, <3>1, <3>2
  <2> QED BY <1>3, <2>1, <2>2, <2>3
<1>13. ASSUME NEW x \in DOMAIN resources, x \in DOMAIN h.live
       PROVE  h.live[x].body.revision = resources[x].revision
  <2>1. CASE x = id
    <3>1. verb # "create" /\ verb # "delete"
      BY <1>13, <2>1 DEF Taken, Placed, verb
    <3> QED BY <1>3, <1>4, <2>1, <3>1 DEF Taken, verb
  <2>2. CASE x # id
    <3>1. h.live[x] = g.live[x] /\ x \in DOMAIN g.live
      <4>1. DOMAIN h.live \subseteq DOMAIN g.live \cup {id}
        BY <1>3 DEF Taken, verb
      <4> QED BY <1>13, <2>2, <4>1 DEF Taken
    <3> QED BY <1>4, <3>1
  <2> QED BY <2>1, <2>2
<1> QED BY <1>10, <1>11, <1>12, <1>13 DEF Traced

LEMMA FirstTraced ==
  ASSUME NEW B
  PROVE  Traced(InitialGraph, B, 0)
<1> DEFINE g == InitialGraph
<1>1. /\ g.allocated = {} /\ DOMAIN g.live = DOMAIN resources
      /\ \A id \in DOMAIN resources : g.live[id].body = resources[id]
  BY DEF InitialGraph
<1>2. \A verb : Subjects(g.ids, B, verb, 0) = {}
  BY DEF Subjects
<1> HIDE DEF g
<1>3. Traced(g, B, 0)
  BY <1>1, <1>2 DEF Traced
<1> QED BY <1>3 DEF g

LEMMA WorkingGraphTraced ==
  ASSUME Placed, LinkEndpointsLive, Bodies, NEW B \in Batches, NEW chosen \in Drawn(B),
         WorkingGraph(B, chosen).code = "none"
  PROVE  Traced(WorkingGraph(B, chosen), B, Len(B))
<1> DEFINE G(n) == Graphs(B, chosen)[n]
           S == {n \in 0..Len(B) : G(n).code = "none" =>
                                     GraphInv(G(n), B, n) /\ Traced(G(n), B, n)}
<1>0. Len(B) \in Nat
  BY BatchesAssumption
<1>1. G(0) = InitialGraph /\ \A n \in 1..Len(B) : G(n) = Member(G(n - 1), B, n, chosen)
  BY <1>0, GraphsUnfold
<1> HIDE DEF G
<1>2. 0 \in S
  BY <1>0, <1>1, FirstGraph, FirstTraced
<1>3. ASSUME NEW n \in 1..Len(B), n - 1 \in S PROVE n \in S
  <2> SUFFICES ASSUME G(n).code = "none" PROVE GraphInv(G(n), B, n) /\ Traced(G(n), B, n)
    OBVIOUS
  <2>1. G(n) = Member(G(n - 1), B, n, chosen)
    BY <1>1
  <2>2. G(n - 1).code = "none"
    BY <2>1, RefusalStays
  <2>3. GraphInv(G(n - 1), B, n - 1) /\ Traced(G(n - 1), B, n - 1)
    BY <1>3, <2>2
  <2>4. AcceptedMember(G(n - 1), G(n), B, n)
    BY <2>1, <2>3, MemberAccepted DEF GraphInv
  <2>5. PICK id : Taken(G(n - 1), G(n), B, n, id)
    BY <2>1, MemberTaken
  <2> QED BY <2>3, <2>4, <2>5, GraphStep, TracedStep
<1>4. Len(B) \in S
  <2>1. 0..Len(B) \subseteq S
    <3> HIDE DEF S
    <3> QED BY <1>0, <1>2, <1>3, UpTo
  <2> QED BY <1>0, <2>1
<1> QED BY <1>4 DEF G, WorkingGraph
-----------------------------------------------------------------------------
(* The group of an applied batch tells what it did to the tables. *)

\* A batch that was carried through to the end.
Carried(p, k, B, g) ==
  /\ GraphInv(g, B, Len(B)) /\ Traced(g, B, Len(B)) /\ Publish(p, k, B, g)

BatchRows(g, B) == [m \in 1..Len(Touched(g)) |-> Row(g, Touched(g)[m], B)]

LEMMA PublishRow ==
  ASSUME IsSequence(outcomes), NEW p, NEW k, NEW B, NEW g, Publish(p, k, B, g),
         NEW o, outcomes' = Append(outcomes, o)
  PROVE  /\ o.op = "batch" /\ o.witnesses = BatchWitnesses(B)
         /\ o.identity = BatchIdentity(B, BatchWitnesses(B))
         /\ o.response.result = "applied" /\ o.response.ids = g.ids
         /\ o.response.rows = BatchRows(g, B)
<1> DEFINE facts == (Len(events) + 1)..(Len(events) + Len(Effects(g)))
           response == [result |-> "applied", ids |-> g.ids, rows |-> BatchRows(g, B)]
           q == [principal |-> p, key |-> k, op |-> "batch",
                 identity |-> BatchIdentity(B, BatchWitnesses(B)),
                 witnesses |-> BatchWitnesses(B), response |-> response,
                 facts |-> facts,
                 position |-> IF facts = {} THEN 0 ELSE Len(events) + 1, request |-> B]
<1>1. outcomes' = Append(outcomes, q)
  BY Zenon DEF Publish, BatchRow, BatchRows
<1> HIDE DEF facts
<1>2. /\ q.op = "batch" /\ q.witnesses = BatchWitnesses(B)
      /\ q.identity = BatchIdentity(B, BatchWitnesses(B))
      /\ q.response.result = "applied" /\ q.response.ids = g.ids
      /\ q.response.rows = BatchRows(g, B)
  OBVIOUS
<1> HIDE DEF q
<1>3. o = q
  BY <1>1, OneRow
<1> QED BY <1>2, <1>3

\* Every member speaks of a Resource from before the batch, or of one it created.
LEMMA TouchedIsPlaced ==
  ASSUME Placed, NEW B \in Batches, NEW g, GraphInv(g, B, Len(B)), Traced(g, B, Len(B)),
         NEW id \in TouchedIds(g)
  PROVE  /\ id \in DOMAIN resources \/ id \in g.allocated
         /\ id \in g.allocated => id \notin DOMAIN identities \cup DOMAIN aliases
         /\ \E m \in 1..Len(B) : g.ids[m] = id /\ KindAfter(g, id, B) = MemberKind(B, m)
         /\ id \in DOMAIN identities => KindAfter(g, id, B) = identities[id]
         /\ id \in DOMAIN g.live => g.live[id].kind = KindAfter(g, id, B)
<1>1. /\ Len(g.ids) = Len(B) /\ Len(B) \in Nat /\ Scoped(g) /\ KindsAgree(g, B)
      /\ \A m \in 1..Len(B) : Maps(g.ids, B, m)
      /\ g.allocated = Subjects(g.ids, B, "create", Len(B))
  BY BatchesAssumption DEF GraphInv, Traced
<1> DEFINE m == CHOOSE n \in 1..Len(B) : g.ids[n] = id
<1>2. m \in 1..Len(B) /\ g.ids[m] = id
  BY <1>1, TouchedIsNamed
<1>3. KindAfter(g, id, B) = MemberKind(B, m)
  BY DEF KindAfter, MemberKind
<1> HIDE DEF m
<1>4. id \in DOMAIN identities => MemberKind(B, m) = identities[id]
  BY <1>1, <1>2 DEF Maps
<1>5. id \in DOMAIN g.live => g.live[id].kind = MemberKind(B, m)
  BY <1>1, <1>2 DEF KindsAgree
<1>6. id \in DOMAIN resources \/ id \in g.allocated
  <2>1. CASE VerbOf(B[m].request.op) = "create"
    BY <1>1, <1>2, <2>1, SubjectsAre
  <2>2. CASE VerbOf(B[m].request.op) # "create"
    <3>1. id \in DOMAIN resources \cup Subjects(g.ids, B, "create", m - 1)
      BY <1>1, <1>2, <2>2, Zenon DEF Maps
    <3>2. \A j \in 1..(m - 1) : j \in 1..Len(B)
      BY <1>1, <1>2
    <3> QED BY <1>1, <3>1, <3>2, SubjectsAre
  <2> QED BY <2>1, <2>2
<1>7. id \in g.allocated => id \notin DOMAIN identities \cup DOMAIN aliases
  BY <1>1 DEF Scoped
<1> QED BY <1>2, <1>3, <1>4, <1>5, <1>6, <1>7

LEMMA BatchRowTold ==
  ASSUME ReplayInv, NEW p, NEW k, NEW B \in Batches, NEW g, Carried(p, k, B, g),
         NEW id \in TouchedIds(g), NEW row, row = Row(g, id, B)
  PROVE  RowTold(row)
<1>0. /\ Placed /\ Bodies /\ IsSequence(events) /\ g.ids \in Seq(Uris)
      /\ GraphInv(g, B, Len(B)) /\ Traced(g, B, Len(B)) /\ Publish(p, k, B, g)
  BY DEF ReplayInv, BInv, Carried, GraphInv
<1> DEFINE kind == KindAfter(g, id, B)
           result == Outcome(g, id)
           body == Published(g, id)
<1>1. row.id = id /\ row.kind = kind /\ row.outcome = result /\ row.body = body
  BY DEF Row
<1>2. /\ result \in {"created", "updated", "unchanged", "deleted", "allocated"}
      /\ id \in DOMAIN resources <=> result \in {"updated", "unchanged", "deleted"}
      /\ id \in DOMAIN g.live <=> result \in {"created", "updated", "unchanged"}
      /\ result = "updated" => g.live[id].body # resources[id]
  BY DEF Outcome
<1>3. /\ result \in {"created", "updated"} =>
           body = [g.live[id].body EXCEPT !.revision = Position(g, id)]
      /\ result = "allocated" => body = None
      /\ result \in {"unchanged", "deleted"} => body = resources[id]
  BY <1>2, Zenon DEF Published
<1>4. /\ id \in DOMAIN resources \/ id \in g.allocated
      /\ id \in g.allocated => id \notin DOMAIN identities \cup DOMAIN aliases
      /\ id \in DOMAIN identities => kind = identities[id]
  BY <1>0, TouchedIsPlaced
<1>5. /\ DOMAIN resources' = DOMAIN g.live
      /\ id \in DOMAIN g.live => resources'[id] = body
  BY <1>0 DEF Publish
<1>6. id \in DOMAIN identities' /\ identities'[id] = kind
  <2>1. /\ DOMAIN identities' = DOMAIN identities \cup g.allocated
        /\ \A x \in DOMAIN identities \cup g.allocated :
             identities'[x] = IF x \in g.allocated THEN KindAfter(g, x, B) ELSE identities[x]
    BY <1>0 DEF Publish
  <2>2. DOMAIN resources \subseteq DOMAIN identities
    BY <1>0 DEF Placed
  <2> QED BY <1>4, <2>1, <2>2
<1>7. result \in {"created", "updated"} => body.revision \in Fresh
  <2> HAVE result \in {"created", "updated"}
  <2>1. body = Body(Position(g, id), g.live[id].body.data, g.live[id].body.source,
                    g.live[id].body.target)
    <3>1. IsBody(g.live[id].body)
      BY <1>0, <1>2 DEF GraphInv, BodiesOf
    <3> HIDE DEF body, result
    <3> QED BY <1>3, <3>1, Revised
  <2>2. body.revision = Position(g, id)
    <3> HIDE DEF body
    <3> QED BY <2>1 DEF Body
  <2>3. PICK m \in 1..Len(Effects(g)) : Position(g, id) = Len(events) + m
    BY <1>0, EffectPlaces
  <2>4. /\ Len(events) \in Nat /\ Len(Effects(g)) \in Nat
        /\ Fresh = (Len(events) + 1)..(Len(events) + Len(Effects(g)))
    BY <1>0, PublishedEvents
  <2>5. Len(events) + m \in Fresh
    BY <2>4
  <2> QED BY <2>2, <2>3, <2>5
<1>8. result = "updated" => ~Same(body, resources[id])
  <2> HAVE result = "updated"
  <2>1. IsBody(g.live[id].body) /\ IsBody(resources[id])
    BY <1>0, <1>2 DEF GraphInv, BodiesOf, Bodies
  <2>2. g.live[id].body.revision = resources[id].revision
    BY <1>0, <1>2 DEF Traced
  <2>3. PICK a, b, r : a = g.live[id].body /\ b = resources[id] /\ r = Position(g, id)
    OBVIOUS
  <2>4. body = [a EXCEPT !.revision = r]
    BY <1>3, <2>3
  <2>5. ~Same([a EXCEPT !.revision = r], b)
    BY <1>2, <2>1, <2>2, <2>3, SameRevised
  <2> QED BY <2>3, <2>4, <2>5
<1>9. id \in DOMAIN resources => id \in DOMAIN identities
  BY <1>0 DEF Placed
<1> HIDE DEF kind, result, body
<1> QED BY <1>1, <1>2, <1>3, <1>4, <1>5, <1>6, <1>7, <1>8, <1>9 DEF RowTold

EffectIds(g) == {id \in TouchedIds(g) : Outcome(g, id) \in {"created", "updated", "deleted"}}

LEMMA BatchRowsAre ==
  ASSUME NEW B, NEW g, g.ids \in Seq(Uris)
  PROVE  /\ Len(Touched(g)) \in Nat /\ Len(BatchRows(g, B)) = Len(Touched(g))
         /\ \A r \in 1..Len(Touched(g)) :
              /\ Touched(g)[r] \in TouchedIds(g)
              /\ BatchRows(g, B)[r] = Row(g, Touched(g)[r], B)
              /\ BatchRows(g, B)[r].id = Touched(g)[r]
         /\ \A id \in TouchedIds(g) : \E r \in 1..Len(Touched(g)) : Touched(g)[r] = id
         /\ \A r, t \in 1..Len(Touched(g)) : Touched(g)[r] = Touched(g)[t] => r = t
         /\ \A r, t \in 1..Len(Touched(g)) : r < t => Place(Touched(g)[r]) < Place(Touched(g)[t])
<1>1. TouchedIds(g) \subseteq Uris
  BY TouchedAreUris
<1>2. PICK T : T = TouchedIds(g) /\ Touched(g) = InOrder(T)
  BY DEF Touched
<1>3. PICK a : a = InOrder(T)
  OBVIOUS
<1>4. /\ a \in Seq(Uris)
      /\ \A id : (\E m \in 1..Len(a) : a[m] = id) <=> id \in T
      /\ \A l, m \in 1..Len(a) : a[l] = a[m] => l = m
      /\ \A l, m \in 1..Len(a) : l < m => Place(a[l]) < Place(a[m])
  BY <1>1, <1>2, <1>3, InOrderIsAll, InOrderOnce, InOrderSorted
<1>5. PICK n \in Nat : n = Len(a)
  BY <1>4
<1>6. PICK rows : rows = BatchRows(g, B)
  OBVIOUS
<1>7. rows = [m \in 1..n |-> Row(g, a[m], B)]
  BY <1>2, <1>3, <1>5, <1>6 DEF BatchRows
<1>8. Len(rows) = n /\ \A r \in 1..n : rows[r] = Row(g, a[r], B)
  BY <1>5, <1>7
<1>9. \A id : Row(g, id, B).id = id
  BY DEF Row
<1> QED BY <1>2, <1>3, <1>4, <1>5, <1>6, <1>8, <1>9

\* The rows that are changes are the effects, and in the same order.
LEMMA BatchRank ==
  ASSUME NEW B, NEW g, g.ids \in Seq(Uris)
  PROVE  /\ Rank(BatchRows(g, B), Len(BatchRows(g, B))) = Len(Effects(g))
         /\ \A r \in 1..Len(BatchRows(g, B)) :
              /\ Changing(BatchRows(g, B)[r]) <=> Touched(g)[r] \in EffectIds(g)
              /\ Changing(BatchRows(g, B)[r]) =>
                   \E m \in 1..Len(Effects(g)) :
                     Rank(BatchRows(g, B), r) = m /\ Effects(g)[m] = Touched(g)[r]
<1>1. PICK S, T : S = EffectIds(g) /\ T = TouchedIds(g)
  OBVIOUS
<1>2. S \subseteq T /\ T \subseteq Uris
  BY <1>1, TouchedAreUris DEF EffectIds
<1>3. PICK a, b : a = Touched(g) /\ b = Effects(g)
  OBVIOUS
<1>4. a = InOrder(T) /\ b = InOrder(S)
  BY <1>1, <1>3 DEF Touched, Effects, EffectIds
<1>5. InStep(a, b, S)
  BY <1>2, <1>4, InOrderInStep
<1>6. PICK rows : rows = BatchRows(g, B)
  OBVIOUS
<1>7. PICK n \in Nat : n = Len(a)
  BY <1>3, BatchRowsAre
<1>8. /\ Len(rows) = n
      /\ \A r \in 1..n : a[r] \in T /\ rows[r] = Row(g, a[r], B)
  BY <1>1, <1>3, <1>6, <1>7, BatchRowsAre
<1>9. \A r \in 1..n : Changing(rows[r]) <=> a[r] \in S
  BY <1>1, <1>8 DEF Changing, Row, EffectIds
<1>10. ASSUME NEW r \in 0..n PROVE Rank(rows, r) = Count(a, S, r)
  <2>1. {t \in 1..r : Changing(rows[t])} = {t \in 1..r : a[t] \in S}
    BY <1>9
  <2> QED BY <2>1 DEF Rank, Count
<1>11. Rank(rows, n) = Len(b)
  BY <1>5, <1>7, <1>10 DEF InStep
<1>12. ASSUME NEW r \in 1..n, Changing(rows[r])
       PROVE  \E m \in 1..Len(b) : Rank(rows, r) = m /\ b[m] = a[r]
  <2>1. Count(a, S, r) \in 1..Len(b) /\ b[Count(a, S, r)] = a[r]
    BY <1>5, <1>7, <1>9, <1>12 DEF InStep
  <2> QED BY <1>10, <2>1
<1> QED BY <1>1, <1>3, <1>6, <1>8, <1>9, <1>11, <1>12

LEMMA BatchTold ==
  ASSUME ReplayInv, NEW p, NEW k, NEW B \in Batches, NEW g, Carried(p, k, B, g),
         NEW rows, rows = BatchRows(g, B)
  PROVE  Told(rows)
<1>0. /\ Placed /\ Bodies /\ IsSequence(events) /\ g.ids \in Seq(Uris)
      /\ GraphInv(g, B, Len(B)) /\ Traced(g, B, Len(B)) /\ Publish(p, k, B, g)
      /\ Scoped(g) /\ Untouched(g)
  BY DEF ReplayInv, BInv, Carried, GraphInv
<1>1. PICK T : T = Touched(g)
  OBVIOUS
<1>2. /\ Len(rows) \in Nat /\ Len(rows) = Len(T)
      /\ \A r \in 1..Len(rows) :
           T[r] \in TouchedIds(g) /\ rows[r] = Row(g, T[r], B) /\ rows[r].id = T[r]
      /\ \A id \in TouchedIds(g) : \E r \in 1..Len(rows) : T[r] = id
      /\ \A r, t \in 1..Len(rows) : T[r] = T[t] => r = t
  <2>1. PICK n \in Nat : n = Len(T) /\ n = Len(rows)
    BY <1>0, <1>1, BatchRowsAre
  <2> QED BY <1>0, <1>1, <2>1, BatchRowsAre
<1>3. \A r \in 1..Len(rows) : RowTold(rows[r])
  BY <1>2, BatchRowTold
<1>4. \A id : id \in TouchedIds(g) => id \in Ids(rows)
  BY <1>2 DEF Ids
<1>5. /\ DOMAIN resources' = DOMAIN g.live
      /\ \A id \in DOMAIN g.live :
           id \notin TouchedIds(g) => resources'[id] = resources[id]
      /\ DOMAIN identities' = DOMAIN identities \cup g.allocated
      /\ aliases' = aliases
  BY <1>0 DEF Publish
<1>6. Tabular'
  BY <1>0 DEF Publish, Tabular
<1>7. ASSUME NEW id, id \notin TouchedIds(g)
      PROVE  /\ id \in DOMAIN g.live <=> id \in DOMAIN resources
             /\ id \notin g.allocated
  <2>1. \A verb : id \notin Subjects(g.ids, B, verb, Len(B))
    BY <1>0, <1>7, SubjectsAre, TouchedIsNamed DEF GraphInv
  <2>2. DOMAIN g.live = (DOMAIN resources \cup Subjects(g.ids, B, "create", Len(B)))
                          \ Subjects(g.ids, B, "delete", Len(B))
    BY <1>0 DEF Traced
  <2> QED BY <1>0, <1>7, <2>1, <2>2 DEF Scoped
<1>8. \A id : id \notin Ids(rows) =>
       /\ id \in DOMAIN resources' <=> id \in DOMAIN resources
       /\ id \in DOMAIN resources => resources'[id] = resources[id]
       /\ id \in DOMAIN identities' <=> id \in DOMAIN identities
  BY <1>4, <1>5, <1>7
<1>9. \A id \in DOMAIN identities : id \in DOMAIN identities' /\ identities'[id] = identities[id]
  BY <1>0, PublishTables
<1>10. Len(events') = Len(events) + Rank(rows, Len(rows))
  <2>1. Len(events') = Len(events) + Len(Effects(g))
    BY <1>0, PublishedEvents
  <2> QED BY <1>0, <2>1, BatchRank
<1> QED BY <1>2, <1>3, <1>5, <1>6, <1>8, <1>9, <1>10 DEF Told

LEMMA BatchEventsAre ==
  ASSUME IsSequence(events), NEW p, NEW k, NEW B, NEW g, g.ids \in Seq(Uris),
         Publish(p, k, B, g)
  PROVE  \A m \in 1..Len(Effects(g)) :
           events'[Len(events) + m] = BatchEvent(g, Effects(g)[m], B)
<1> DEFINE n == Len(Effects(g))
           row(m) == BatchEvent(g, Effects(g)[m], B)
           t == [m \in 1..n |-> row(m)]
<1>1. n \in Nat
  BY EffectPlaces
<1>2. events' = events \o t
  BY DEF Publish
<1> HIDE DEF n, row
<1> DEFINE R == {row(m) : m \in 1..n}
<1>3. t \in Seq(R) /\ Len(t) = n /\ \A m \in 1..n : t[m] = row(m)
  <2>1. t \in [1..n -> R]
    OBVIOUS
  <2>2. \A m \in 1..n : t[m] = row(m)
    OBVIOUS
  <2> HIDE DEF R, t
  <2> QED BY <1>1, <2>1, <2>2
<1>4. IsSequence(t)
  <2> HIDE DEF t, R
  <2> QED BY <1>3 DEF IsSequence
<1> HIDE DEF t
<1>5. \A m \in 1..n : (events \o t)[Len(events) + m] = t[m]
  BY ONLY <1>1, <1>3, <1>4, IsSequence(events), ConcatFacts, SMTT(30)
<1>6. \A m \in 1..n : events'[Len(events) + m] = row(m)
  BY <1>2, <1>3, <1>5
<1> QED BY <1>6 DEF n, row

LEMMA BatchEventTold ==
  ASSUME NEW B, NEW g, NEW id, Outcome(g, id) \in {"created", "updated", "deleted"},
         NEW row, row = Row(g, id, B), NEW n, n <= Len(events'),
         events'[n] = BatchEvent(g, id, B)
  PROVE  EventTold(row, n)
<1> DEFINE kind == KindAfter(g, id, B)
           result == Outcome(g, id)
           body == Published(g, id)
           verb == CASE result = "created" -> "create"
                     [] result = "updated" -> "update" [] OTHER -> "delete"
           previous == IF verb = "update" THEN resources[id].revision ELSE 0
           incident == Incident(kind, verb, id, body)
           e == events'[n]
<1>1. row.id = id /\ row.kind = kind /\ row.outcome = result /\ row.body = body
  BY DEF Row
<1>2. e = [subject |-> id, kind |-> kind, verb |-> verb, revision |-> body.revision, body |-> body,
           previous |-> previous, incident |-> incident]
  BY Zenon DEF BatchEvent
<1>3. /\ result = "created" => verb = "create"
      /\ result = "updated" => verb = "update"
      /\ result = "deleted" => verb = "delete"
  OBVIOUS
<1> HIDE DEF kind, verb, body, result, e
<1>4. /\ previous = IF verb = "update" THEN resources[id].revision ELSE 0
      /\ incident = Incident(kind, verb, id, body)
  OBVIOUS
<1> HIDE DEF previous, incident
<1>5. /\ e.subject = id /\ e.kind = kind /\ e.verb = verb /\ e.revision = body.revision
      /\ e.body = body /\ e.previous = previous /\ e.incident = incident
  BY <1>2
<1>6. result \in {"created", "updated", "deleted"}
  BY DEF result
<1>7. ResultOf(verb) = result
  BY <1>3, <1>6 DEF ResultOf
<1>8. previous = IF result = "updated" THEN resources[id].revision ELSE 0
  BY <1>3, <1>4, <1>6
<1>9. incident = IF kind = "bead" THEN {}
        ELSE (IF id \in DOMAIN resources THEN LocalEndpoints(resources[id]) ELSE {})
               \cup (IF result = "deleted" THEN {} ELSE LocalEndpoints(body))
  <2>1. verb = "delete" <=> result = "deleted"
    BY <1>3, <1>6
  <2> QED BY <1>4, <2>1, Zenon DEF Incident
<1>10. n <= Len(events')
  OBVIOUS
<1> QED BY <1>1, <1>5, <1>7, <1>8, <1>9, <1>10 DEF EventTold, e

LEMMA BatchEventsTold ==
  ASSUME ReplayInv, NEW p, NEW k, NEW B \in Batches, NEW g, Carried(p, k, B, g),
         NEW rows, rows = BatchRows(g, B)
  PROVE  EventsTold(rows)
<1>0. IsSequence(events) /\ g.ids \in Seq(Uris) /\ Publish(p, k, B, g)
  BY DEF ReplayInv, BInv, Carried, GraphInv
<1>1. /\ Len(events) \in Nat /\ Len(Effects(g)) \in Nat
      /\ Len(events') = Len(events) + Len(Effects(g))
  BY <1>0, PublishedEvents
<1>2. ASSUME NEW r \in 1..Len(rows), Changing(rows[r])
      PROVE  EventTold(rows[r], Len(events) + Rank(rows, r))
  <2>1. PICK id : id = Touched(g)[r]
    OBVIOUS
  <2>2. rows[r] = Row(g, id, B) /\ id \in EffectIds(g)
    <3>1. PICK n \in Nat : n = Len(rows) /\ n = Len(Touched(g))
      BY <1>0, BatchRowsAre
    <3> QED BY <1>0, <1>2, <2>1, <3>1, BatchRank, BatchRowsAre
  <2>3. PICK m \in 1..Len(Effects(g)) : Rank(rows, r) = m /\ Effects(g)[m] = id
    BY <1>0, <1>2, <2>1, BatchRank
  <2>4. events'[Len(events) + m] = BatchEvent(g, id, B)
    BY <1>0, <2>3, BatchEventsAre
  <2>5. Len(events) + m <= Len(events')
    BY <1>1
  <2>6. Outcome(g, id) \in {"created", "updated", "deleted"}
    BY <2>2 DEF EffectIds
  <2>7. EventTold(rows[r], Len(events) + m)
    BY <2>2, <2>4, <2>5, <2>6, BatchEventTold
  <2> QED BY <2>3, <2>7
<1> QED BY <1>2 DEF EventsTold

LEMMA BatchWitnessesAre ==
  ASSUME NEW B
  PROVE  \A uri \in DOMAIN BatchWitnesses(B) :
           /\ ~IsDirect(uri) /\ BatchWitnesses(B)[uri] = AliasTarget(uri)
           /\ uri \in UNION {{B[n].request[s] : s \in OpenSlots(B, n)} : n \in 1..Len(B)}
<1> DEFINE looked == UNION {{B[n].request[s] : s \in OpenSlots(B, n)} \ Explicit(B, n)
                              : n \in 1..Len(B)}
<1>1. BatchWitnesses(B) = [uri \in {u \in looked : ~IsDirect(u)} |-> AliasTarget(uri)]
  BY DEF BatchWitnesses
<1>2. looked \subseteq UNION {{B[n].request[s] : s \in OpenSlots(B, n)} : n \in 1..Len(B)}
  OBVIOUS
<1> HIDE DEF looked
<1> QED BY <1>1, <1>2

LEMMA MemberIdentity ==
  ASSUME NEW B \in Batches, NEW W, NEW n \in 1..Len(B), NEW member,
         member = BatchIdentity(B, W)[n]
  PROVE  /\ member.request.op = B[n].request.op /\ member.handles = B[n].handles
         /\ VerbOf(B[n].request.op) = "create" \/ KindOf(B[n].request.op) = "link" =>
              member.request.id = B[n].request.id /\ "id" \notin OpenSlots(B, n)
         /\ "id" \in OpenSlots(B, n) => member.slots["id"] = Compared(B, n, "id", W)
         /\ VerbOf(B[n].request.op) # "create" /\ KindOf(B[n].request.op) # "link"
              /\ "id" \notin DOMAIN B[n].handles => "id" \in OpenSlots(B, n)
<1> DEFINE i == B[n].request
           request == [f \in DOMAIN i \ Slots(i) |-> i[f]]
           slots == [s \in OpenSlots(B, n) |-> Compared(B, n, s, W)]
<1>1. member = [request |-> request, slots |-> slots, handles |-> B[n].handles,
                provenance |-> B[n].provenance]
  BY DEF BatchIdentity
<1>2. /\ i \in Invocation /\ i.op \in Operations \ {"putAlias", "deleteAlias"}
  BY BatchesAssumption
<1>3. {"op", "id"} \subseteq DOMAIN i /\ "op" \notin Slots(i)
  BY <1>2 DEF Invocation, Slots
<1>4. VerbOf(i.op) = "create" \/ KindOf(i.op) = "link" <=> "id" \notin Slots(i)
  BY <1>2 DEF Slots, Operations, VerbOf, KindOf
<1>5. /\ request.op = i.op
      /\ "id" \notin Slots(i) => request.id = i.id
  BY <1>3
<1>6. "id" \in OpenSlots(B, n) => slots["id"] = Compared(B, n, "id", W)
  OBVIOUS
<1>7. "id" \in OpenSlots(B, n) <=> "id" \in Slots(i) /\ "id" \notin DOMAIN B[n].handles
  BY DEF OpenSlots
<1> HIDE DEF request, slots
<1>8. member.request = request /\ member.slots = slots /\ member.handles = B[n].handles
  BY <1>1
<1> QED BY <1>4, <1>5, <1>6, <1>7, <1>8

LEMMA BatchMappings ==
  ASSUME ReplayInv, NEW p, NEW k, NEW B \in Batches, NEW g, Carried(p, k, B, g),
         NEW o, o.response.ids = g.ids, o.response.rows = BatchRows(g, B),
         o.identity = BatchIdentity(B, BatchWitnesses(B)),
         NEW s, NEW revisions, Agreed(s, revisions), NEW n \in 1..Len(B)
  PROVE  MappingStands(s, o, n)
<1> DEFINE W == BatchWitnesses(B)
           ids == g.ids
           id == ids[n]
           member == o.identity[n]
           op == B[n].request.op
           earlier(verb) == {ids[m] : m \in {m \in 1..(n - 1) :
                                               VerbOf(o.identity[m].request.op) = verb}}
<1>0. /\ g.ids \in Seq(Uris) /\ Len(g.ids) = Len(B) /\ Len(B) \in Nat
      /\ GraphInv(g, B, Len(B)) /\ Traced(g, B, Len(B)) /\ KindsAgree(g, B) /\ Placed
  BY BatchesAssumption DEF Carried, GraphInv, ReplayInv, BInv
<1>1. /\ DOMAIN s.live = DOMAIN resources /\ s.committed = identities /\ s.aliases = aliases
  BY CurrentFields, LiveRowsAre
<1>2. \A m \in 1..Len(B) : o.identity[m].request.op = B[m].request.op
  BY MemberIdentity
<1>3. \A verb : earlier(verb) = Subjects(ids, B, verb, n - 1)
  <2> TAKE verb
  <2>1. {m \in 1..(n - 1) : VerbOf(o.identity[m].request.op) = verb} =
          {m \in 1..(n - 1) : VerbOf(B[m].request.op) = verb}
    BY <1>0, <1>2
  <2> QED BY <2>1 DEF Subjects
<1>4. Maps(ids, B, n)
  BY <1>0 DEF Traced
<1>5. /\ member.request.op = op /\ member.handles = B[n].handles
      /\ VerbOf(op) = "create" \/ KindOf(op) = "link" =>
           member.request.id = B[n].request.id /\ "id" \notin OpenSlots(B, n)
      /\ "id" \in OpenSlots(B, n) => member.slots["id"] = Compared(B, n, "id", W)
      /\ VerbOf(op) # "create" /\ KindOf(op) # "link" /\ "id" \notin DOMAIN B[n].handles =>
           "id" \in OpenSlots(B, n)
  BY MemberIdentity
<1>6. ASSUME NEW h \in DOMAIN member.handles
      PROVE  LET creator == o.identity[member.handles[h]].request.op IN
             /\ member.handles[h] < n /\ VerbOf(creator) = "create"
             /\ KindOf(creator) = IF h = "id" THEN KindOf(op) ELSE "bead"
  <2>1. PICK m : m = B[n].handles[h]
    OBVIOUS
  <2>2. /\ m \in 1..(n - 1) /\ Creates(B, m)
        /\ KindOf(B[m].request.op) = IF h = "id" THEN KindOf(op) ELSE "bead"
    BY <1>5, <2>1, BatchesAssumption
  <2>3. o.identity[m].request.op = B[m].request.op /\ m < n
    BY <1>0, <1>2, <2>2
  <2>4. member.handles[h] = m
    BY <1>5, <2>1
  <2> HIDE DEF member
  <2> QED BY <2>2, <2>3, <2>4 DEF Creates
<1>7. VerbOf(op) = "create" =>
        /\ member.request.id \in {None, id}
        /\ id \notin DOMAIN s.committed \cup DOMAIN s.aliases \cup earlier("create")
  <2> HIDE DEF earlier, member
  <2> QED BY <1>1, <1>3, <1>4, <1>5 DEF Maps
<1>8. VerbOf(op) # "create" =>
        /\ id = IF "id" \in DOMAIN member.handles THEN ids[member.handles["id"]]
                ELSE IF KindOf(op) = "link" THEN member.request.id ELSE member.slots["id"].uri
        /\ id \in (DOMAIN s.live \cup earlier("create")) \ earlier("delete")
  <2> HAVE VerbOf(op) # "create"
  <2> HIDE DEF earlier, member
  <2>1. /\ id = NamedId(ids, B, n)
        /\ id \in (DOMAIN s.live \cup earlier("create")) \ earlier("delete")
    BY <1>1, <1>3, <1>4 DEF Maps
  <2>2. CASE "id" \in DOMAIN B[n].handles
    BY <1>5, <2>1, <2>2 DEF NamedId
  <2>3. CASE "id" \notin DOMAIN B[n].handles /\ KindOf(op) = "link"
    BY <1>5, <2>1, <2>3 DEF NamedId
  <2>4. CASE "id" \notin DOMAIN B[n].handles /\ KindOf(op) # "link"
    BY <1>5, <2>1, <2>4 DEF NamedId
  <2> QED BY <2>1, <2>2, <2>3, <2>4
<1>9. \E r \in 1..Len(o.response.rows) :
        o.response.rows[r].id = id /\ o.response.rows[r].kind = KindOf(op)
  <2>1. id \in TouchedIds(g)
    BY <1>0, TouchedIsNamed
  <2>2. PICK r \in 1..Len(Touched(g)) : Touched(g)[r] = id
    BY <1>0, <2>1, BatchRowsAre
  <2>3. /\ Len(o.response.rows) = Len(Touched(g))
        /\ o.response.rows[r] = Row(g, id, B)
    BY <1>0, <2>2, BatchRowsAre
  <2>4. PICK m \in 1..Len(B) : ids[m] = id /\ KindAfter(g, id, B) = MemberKind(B, m)
    BY <1>0, <2>1, TouchedIsPlaced
  <2>5. MemberKind(B, m) = MemberKind(B, n)
    BY <1>0, <2>4 DEF KindsAgree
  <2>6. Row(g, id, B).id = id /\ Row(g, id, B).kind = KindOf(op)
    BY <2>4, <2>5 DEF Row, MemberKind
  <2> QED BY <2>2, <2>3, <2>6
<1> HIDE DEF earlier
<1>10. o.response.ids = ids /\ member.request.op = op
  BY <1>5
<1> QED BY <1>6, <1>7, <1>8, <1>9, <1>10, ZenonT(60) DEF MappingStands, earlier, member, id, op

LEMMA PublishedBatchStands ==
  ASSUME ReplayInv, NEW p, NEW k, NEW B \in Batches, NEW g, Carried(p, k, B, g),
         NEW o, o.response.ids = g.ids, o.response.rows = BatchRows(g, B),
         o.identity = BatchIdentity(B, BatchWitnesses(B)),
         NEW s, NEW revisions, Agreed(s, revisions)
  PROVE  BatchStands(s, o)
<1> DEFINE ids == g.ids
           subjects(verb) == {ids[n] : n \in {n \in 1..Len(ids) :
                                                VerbOf(o.identity[n].request.op) = verb}}
           alive == (DOMAIN s.live \cup subjects("create")) \ subjects("delete")
<1>0. /\ g.ids \in Seq(Uris) /\ Len(g.ids) = Len(B)
      /\ GraphInv(g, B, Len(B)) /\ Traced(g, B, Len(B)) /\ Scoped(g) /\ Placed
  BY DEF Carried, GraphInv, ReplayInv, BInv
<1>a. Len(B) \in Nat /\ Len(B) # 0
  <2>1. PICK S : B \in Seq(S)
    BY BatchesAssumption
  <2>2. B # <<>>
    BY BatchesAssumption
  <2> QED BY <2>1, <2>2
<1>1. DOMAIN s.live = DOMAIN resources
  BY CurrentFields, LiveRowsAre
<1>2. \A m \in 1..Len(B) : o.identity[m].request.op = B[m].request.op
  BY MemberIdentity
<1>3. \A verb : subjects(verb) = Subjects(ids, B, verb, Len(B))
  <2> TAKE verb
  <2>1. {n \in 1..Len(ids) : VerbOf(o.identity[n].request.op) = verb} =
          {n \in 1..Len(B) : VerbOf(B[n].request.op) = verb}
    BY <1>0, <1>2
  <2> QED BY <2>1 DEF Subjects
<1>4. alive = DOMAIN g.live /\ subjects("create") = g.allocated
  <2> HIDE DEF subjects
  <2> QED BY <1>0, <1>1, <1>3 DEF Traced
<1>5. Len(ids) = Len(o.identity) /\ ids # <<>>
  <2>1. Len(o.identity) = Len(B)
    BY <1>a DEF BatchIdentity
  <2> QED BY <1>0, <1>a, <2>1
<1>6. \A n \in 1..Len(ids) : MappingStands(s, o, n)
  BY <1>0, BatchMappings
<1>7. PICK rows : rows = o.response.rows
  OBVIOUS
<1>8. PICK N \in Nat : N = Len(rows)
  BY <1>0, <1>7, BatchRowsAre
<1>9. PICK T : T = Touched(g)
  OBVIOUS
<1>10. /\ \A r \in 1..N : T[r] \in TouchedIds(g) /\ rows[r] = Row(g, T[r], B) /\ rows[r].id = T[r]
       /\ \A id \in TouchedIds(g) : \E r \in 1..N : T[r] = id
       /\ \A r, t \in 1..N : r < t => Place(T[r]) < Place(T[t])
  BY <1>0, <1>7, <1>8, <1>9, BatchRowsAre
<1>11. {rows[r].id : r \in 1..N} = {ids[n] : n \in 1..Len(ids)}
  <2>1. \A x : x \in {rows[r].id : r \in 1..N} <=> x \in TouchedIds(g)
    BY <1>10
  <2> QED BY <2>1 DEF TouchedIds
<1>12. \A r, t \in 1..N : r < t => Place(rows[r].id) < Place(rows[t].id)
  <2>1. \A r \in 1..N : rows[r].id = T[r]
    BY <1>10
  <2> QED BY <1>10, <2>1
<1>13. ASSUME NEW r \in 1..N
       PROVE  /\ rows[r].id \in alive <=> rows[r].outcome \in {"created", "updated", "unchanged"}
              /\ rows[r].id \in subjects("create") <=>
                   rows[r].outcome \in {"created", "allocated"}
  <2>a. PICK id : id = T[r]
    OBVIOUS
  <2>1. id \in TouchedIds(g) /\ rows[r] = Row(g, id, B) /\ rows[r].id = id
    BY <1>10, <2>a
  <2>b. rows[r].outcome = Outcome(g, id)
    BY <2>1 DEF Row
  <2>2. /\ id \in DOMAIN g.live <=> Outcome(g, id) \in {"created", "updated", "unchanged"}
        /\ id \notin DOMAIN resources <=> Outcome(g, id) \in {"created", "allocated"}
    BY Zenon DEF Outcome
  <2>3. id \in g.allocated <=> id \notin DOMAIN resources
    <3>1. /\ id \in DOMAIN resources \/ id \in g.allocated
          /\ id \in g.allocated => id \notin DOMAIN identities \cup DOMAIN aliases
      BY <1>0, <2>1, TouchedIsPlaced
    <3>2. DOMAIN resources \subseteq DOMAIN identities
      BY <1>0 DEF Placed
    <3> QED BY <3>1, <3>2
  <2> HIDE DEF alive, subjects
  <2> QED BY <1>4, <2>1, <2>b, <2>2, <2>3
<1> HIDE DEF subjects, alive
<1>14. o.response.ids = ids
  OBVIOUS
<1>15. Len(o.response.rows) = N
  BY <1>7, <1>8
<1>16. /\ {rows[r].id : r \in 1..Len(o.response.rows)} = {ids[n] : n \in 1..Len(ids)}
       /\ \A r, t \in 1..Len(o.response.rows) : r < t => Place(rows[r].id) < Place(rows[t].id)
       /\ \A r \in 1..Len(o.response.rows) :
            /\ rows[r].id \in alive <=> rows[r].outcome \in {"created", "updated", "unchanged"}
            /\ rows[r].id \in subjects("create") <=> rows[r].outcome \in {"created", "allocated"}
  BY <1>11, <1>12, <1>13, <1>15
<1>17. BatchStands(s, o) <=>
         /\ Len(ids) = Len(o.identity) /\ ids # <<>>
         /\ \A n \in 1..Len(ids) : MappingStands(s, o, n)
         /\ {rows[r].id : r \in 1..Len(o.response.rows)} = {ids[n] : n \in 1..Len(ids)}
         /\ \A r, t \in 1..Len(o.response.rows) : r < t => Place(rows[r].id) < Place(rows[t].id)
         /\ \A r \in 1..Len(o.response.rows) :
              /\ rows[r].id \in alive <=> rows[r].outcome \in {"created", "updated", "unchanged"}
              /\ rows[r].id \in subjects("create") <=> rows[r].outcome \in {"created", "allocated"}
  BY <1>7, <1>14 DEF BatchStands, subjects, alive
<1> QED BY <1>5, <1>6, <1>16, <1>17

\* A member has at most two References that can go through the alias table.
LEMMA BatchWitnessCount ==
  ASSUME NEW B \in Batches
  PROVE  Cardinality(DOMAIN BatchWitnesses(B)) \in Nat
           /\ Cardinality(DOMAIN BatchWitnesses(B)) <= 2 * Len(B)
<1> DEFINE n == Len(B)
           first(m) == IF "id" \in Slots(B[m].request) THEN B[m].request.id
                       ELSE B[m].request.source
           second(m) == B[m].request.target
           g == [x \in 1..(2 * n) |-> IF x <= n THEN first(x) ELSE second(x - n)]
           T == {g[x] : x \in 1..(2 * n)}
<1>0. n \in Nat
  BY BatchesAssumption
<1>1. ASSUME NEW m \in 1..n, NEW s \in OpenSlots(B, m) PROVE B[m].request[s] \in T
  <2>1. CASE s = "id"
    <3>1. g[m] = B[m].request[s] /\ m \in 1..(2 * n)
      BY <1>0, <1>1, <2>1 DEF OpenSlots
    <3> QED BY <3>1
  <2>2. CASE s = "source"
    <3>1. "id" \notin Slots(B[m].request)
      BY <1>1, <2>2 DEF OpenSlots, Slots
    <3>2. g[m] = B[m].request[s] /\ m \in 1..(2 * n)
      BY <1>0, <2>2, <3>1
    <3> QED BY <3>2
  <2>3. CASE s = "target"
    <3>1. g[m + n] = B[m].request[s] /\ m + n \in 1..(2 * n)
      BY <1>0, <2>3
    <3> QED BY <3>1
  <2>4. s \in {"id", "source", "target"}
    BY <1>1 DEF OpenSlots, Slots
  <2> QED BY <2>1, <2>2, <2>3, <2>4
<1>2. DOMAIN BatchWitnesses(B) \subseteq T
  <2> HIDE DEF T
  <2> QED BY <1>1, BatchWitnessesAre
<1>3. IsFiniteSet(1..(2 * n)) /\ Cardinality(1..(2 * n)) = 2 * n
  <2>1. PICK k : k = 2 * n
    OBVIOUS
  <2>2. k \in Nat
    BY <1>0, <2>1
  <2>3. IsFiniteSet(1..k) /\ Cardinality(1..k) = IF 1 > k THEN 0 ELSE k - 1 + 1
    BY <2>2, FS_Interval
  <2> QED BY <2>1, <2>2, <2>3
<1>4. IsFiniteSet(T) /\ Cardinality(T) <= 2 * n
  <2>1. g \in Surjection(1..(2 * n), T)
    <3> HIDE DEF first, second
    <3> QED BY DEF Surjection
  <2> HIDE DEF g, T
  <2> QED BY <1>3, <2>1, FS_Surjection
<1> HIDE DEF T
<1> QED BY <1>0, <1>2, <1>4, FS_Subset, FS_CardinalityType

LEMMA BatchWitnessLimit ==
  ASSUME NEW B \in Batches, Len(B) <= MaximumOperations
  PROVE  Cardinality(DOMAIN BatchWitnesses(B)) <= WitnessLimit("batch")
<1>1. Len(B) \in Nat /\ MaximumOperations \in Nat
  BY BatchesAssumption
<1>2. WitnessLimit("batch") = MaximumWitnesses
  BY DEF WitnessLimit
<1> QED BY <1>1, <1>2, BatchWitnessCount, WitnessesAssumption

\* An applied batch stands.
LEMMA PublishStands ==
  ASSUME ReplayInv, NEW p, NEW k, NEW B \in Batches, Len(B) <= MaximumOperations,
         NEW g, Carried(p, k, B, g), NEW o, Recorded(o)
  PROVE  Stands(o) /\ Tabular' /\ Len(GroupOf(o)) \in Nat
<1>1. /\ o.op = "batch" /\ o.witnesses = BatchWitnesses(B)
      /\ o.identity = BatchIdentity(B, BatchWitnesses(B))
      /\ o.response.result = "applied" /\ o.response.ids = g.ids
      /\ o.response.rows = BatchRows(g, B)
  BY PublishRow DEF ReplayInv, BInv, Recorded, Carried
<1>2. PICK rows : rows = BatchRows(g, B)
  OBVIOUS
<1>3. GroupOf(o) = rows
  BY <1>1, <1>2 DEF GroupOf
<1>4. Told(rows) /\ EventsTold(rows)
  BY <1>2, BatchTold, BatchEventsTold
<1>5. /\ \A uri \in DOMAIN o.witnesses :
           ~IsDirect(uri) /\ o.witnesses[uri] = AliasTarget(uri)
      /\ Cardinality(DOMAIN o.witnesses) <= WitnessLimit(o.op)
  BY <1>1, BatchWitnessesAre, BatchWitnessLimit
<1>6. ASSUME NEW s, Current(s) PROVE BatchStands(s, o)
  BY <1>1, <1>6, PublishedBatchStands DEF Current
<1>7. Accepted(o) /\ o.op \notin {"putAlias", "deleteAlias"}
  BY <1>1 DEF Accepted
<1>8. Stands(o)
  BY <1>1, <1>3, <1>4, <1>5, <1>6, <1>7, GroupDecision
<1> QED BY <1>3, <1>4, <1>8 DEF Told

LEMMA ApplyBatchStands ==
  ASSUME ReplayInv, NEW p, NEW k, NEW B \in Batches, NEW o, Recorded(o),
         ~Overlong(o), ApplyBatch(p, k, B)
  PROVE  Stands(o) /\ Tabular' /\ (Accepted(o) => Len(GroupOf(o)) \in Nat)
<1>1. PICK chosen \in Drawn(B) :
        LET g == WorkingGraph(B, chosen) IN
        \/ BatchCode(B, g) = "none" /\ Publish(p, k, B, g)
        \/ /\ BatchCode(B, g) # "none"
           /\ BatchRow(p, k, B, Refusal(BatchCode(B, g)), {})
           /\ UNCHANGED <<identities, resources, aliases, events, versions>>
  BY Zenon DEF ApplyBatch
<1> DEFINE g == WorkingGraph(B, chosen)
           code == BatchCode(B, g)
<1>2. CASE code = "none" /\ Publish(p, k, B, g)
  <2>0. ~(Len(B) > MaximumOperations)
    BY <1>2, Zenon DEF BatchCode
  <2>1. g.code = "none"
    BY <1>2, Zenon DEF BatchCode
  <2>2. GraphInv(g, B, Len(B)) /\ Traced(g, B, Len(B))
    BY <1>1, <2>1, WorkingGraphSound, WorkingGraphTraced DEF ReplayInv, BInv
  <2> HIDE DEF g
  <2>3. Carried(p, k, B, g)
    BY <1>2, <2>2 DEF Carried
  <2>4. Len(B) <= MaximumOperations
    BY <2>0, BatchesAssumption
  <2> QED BY <2>3, <2>4, PublishStands
<1>3. CASE /\ code # "none" /\ BatchRow(p, k, B, Refusal(code), {})
           /\ UNCHANGED <<identities, resources, aliases, events, versions>>
  <2>1. code \in RefusalCodes
    BY <1>3, BatchRefused
  <2> HIDE DEF code
  <2>2. /\ o.op = "batch" /\ o.witnesses = BatchWitnesses(B) /\ o.facts = {}
        /\ o.response = Refusal(code) /\ o.response.result = code
        /\ o.identity = BatchIdentity(B, BatchWitnesses(B))
    <3> DEFINE response == Refusal(code)
               q == [principal |-> p, key |-> k, op |-> "batch",
                     identity |-> BatchIdentity(B, BatchWitnesses(B)),
                     witnesses |-> BatchWitnesses(B), response |-> response, facts |-> {},
                     position |-> IF {} = {} THEN 0 ELSE Len(events) + 1, request |-> B]
    <3>1. outcomes' = Append(outcomes, q)
      BY <1>3, Zenon DEF BatchRow
    <3>2. response.result = code
      BY DEF Refusal, Response
    <3> HIDE DEF response
    <3>3. /\ q.op = "batch" /\ q.witnesses = BatchWitnesses(B)
          /\ q.facts = {} /\ q.response = response
          /\ q.identity = BatchIdentity(B, BatchWitnesses(B))
      OBVIOUS
    <3> HIDE DEF q
    <3>4. o = q
      BY <3>1, OneRow DEF ReplayInv, BInv, Recorded
    <3> QED BY <3>2, <3>3, <3>4 DEF response
  <2>3. ~Accepted(o) /\ FactsOf(o) = {}
    BY <2>1, <2>2 DEF Accepted, RefusalCodes, FactsOf
  <2>4. /\ \A uri \in DOMAIN o.witnesses :
             ~IsDirect(uri) /\ o.witnesses[uri] = AliasTarget(uri)
        /\ Cardinality(DOMAIN o.witnesses) <= WitnessLimit(o.op)
    <3>1. CASE Len(B) <= MaximumOperations
      BY <2>2, <3>1, BatchWitnessesAre, BatchWitnessLimit
    <3>2. CASE Len(B) > MaximumOperations
      <4>1. code = "limit-exceeded"
        BY <3>2, Zenon DEF BatchCode, code
      <4>2. Len(o.identity) = Len(B)
        BY <2>2, BatchesAssumption DEF BatchIdentity
      <4>3. Cardinality(DOMAIN o.witnesses) <= MaximumWitnesses
        BY <2>2, <3>2, <4>1, <4>2, BatchWitnessCount, WitnessesAssumption DEF Overlong
      <4> QED BY <2>2, <4>3, BatchWitnessesAre DEF WitnessLimit
    <3> QED BY <3>1, <3>2, BatchesAssumption
  <2>5. Stands(o)
    BY <1>3, <2>3, <2>4, RefusedStands
  <2>6. Tabular'
    BY <1>3 DEF ReplayInv, Tabular
  <2> QED BY <2>3, <2>5, <2>6
<1> QED BY <1>1, <1>2, <1>3
-----------------------------------------------------------------------------
(* A store of format 6 can always open again. *)

LEMMA InitReplayInv == Init => ReplayInv
<1> SUFFICES ASSUME Init PROVE ReplayInv
  OBVIOUS
<1>1. /\ identities = NoRow /\ resources = NoRow /\ aliases = NoRow
      /\ events = <<>> /\ outcomes = <<>> /\ Len(outcomes) = 0 /\ Len(events) = 0
  BY DEF Init
<1>2. BInv /\ IsSequence(outcomes)
  BY InitBInv DEF BInv
<1>3. Tabular
  BY <1>1 DEF Tabular, NoRow
<1>4. Replays[0] = Empty
  BY <1>2, ReplaysStep DEF ReplayedInTurn
<1>5. Agreed(Empty, {})
  <2>1. Empty = State(LiveRows, identities, aliases, {}, Len(events))
    <3>1. LiveRows = [id \in {} |-> None]
      BY <1>1 DEF LiveRows, NoRow
    <3> QED BY <1>1, <3>1 DEF Empty, State, NoRow
  <2> QED BY <1>1, <2>1 DEF Agreed, NoRow
<1>6. \A s : s = Replays[Len(outcomes)] => Current(s)
  BY <1>1, <1>4, <1>5 DEF Current
<1>7. \A d \in 1..Len(outcomes) : FALSE
  BY <1>1
<1> QED BY <1>2, <1>3, <1>6, <1>7 DEF ReplayInv

LEMMA UnchangedReplayInv ==
  ASSUME ReplayInv, UNCHANGED tables
  PROVE  ReplayInv'
<1>0. /\ IsSequence(events) /\ IsSequence(outcomes)
      /\ outcomes' = outcomes /\ events' = events /\ identities' = identities
      /\ resources' = resources /\ aliases' = aliases
  BY DEF ReplayInv, BInv, tables
<1>1. IsSequence(outcomes')
  BY <1>0 DEF IsSequence
<1>2. Extends(events', events)
  BY <1>0 DEF Extends, IsSequence
<1>3. PICK n \in Nat : n = Len(outcomes) /\ n = Len(outcomes') /\ n <= n
  BY <1>0 DEF IsSequence
<1>4. /\ \A s, q : Stood(s, q) => Stood(s, q)'
      /\ \A d \in 0..n : Replays'[d] = Replays[d]
  BY <1>0, <1>1, <1>2, <1>3, ReplaysKept
<1>5. BInv' /\ Tabular'
  BY <1>0, UnchangedBInv DEF ReplayInv, Tabular
<1>6. ASSUME NEW d \in 1..n, NEW s, NEW q, s = Replays'[d - 1], q = outcomes'[d]
      PROVE  Stood(s, q)'
  <2>1. s = Replays[d - 1] /\ q = outcomes[d]
    BY <1>0, <1>4, <1>6
  <2> QED BY <1>3, <1>4, <2>1 DEF ReplayInv
<1>7. ASSUME NEW s, s = Replays'[n] PROVE Current(s)'
  <2>1. s = Replays[n]
    BY <1>4, <1>7
  <2>2. Current(s)
    BY <1>3, <2>1 DEF ReplayInv
  <2> QED BY <1>0, <2>2 DEF Current, Agreed, LiveRows
<1> QED BY <1>3, <1>5, <1>6, <1>7 DEF ReplayInv

LEMMA ExecuteRow ==
  ASSUME ReplayInv, NEW p, NEW k, NEW i \in Invocations, Execute(p, k, i), NEW o, Recorded(o)
  PROVE  o.op # "batch"
<1>1. CASE Quiet(p, k, i)
  <2>1. PICK q : outcomes' = Append(outcomes, q) /\ q.op = i.op
    BY <1>1 DEF Quiet, SingleRow
  <2>2. o = q
    BY <2>1, OneRow DEF ReplayInv, BInv, Recorded
  <2> QED BY <2>1, <2>2, InvocationsAssumption DEF Invocation, Operations
<1>2. CASE Moves(p, k, i)
  <2>a. PICK kind \in Kinds : \E verb, id, body, from, previous :
          Complete(p, k, i, kind, verb, id, body, from, previous)
    BY <1>2, Zenon DEF Moves
  <2>b. PICK verb, id, body, from, previous :
          Complete(p, k, i, kind, verb, id, body, from, previous)
    BY <2>a, Zenon
  <2>1. PICK response, position : Decide(p, k, i, response, position)
    BY <2>b DEF Complete
  <2>2. o.op = i.op
    BY <2>1, DecidedRow
  <2> QED BY <2>2, InvocationsAssumption DEF Invocation, Operations
<1> QED BY <1>1, <1>2, ExecuteMoves

NoneOverlong == \A d \in 1..Len(outcomes) : ~Overlong(outcomes[d])

LEMMA LastIsRecorded ==
  ASSUME BInv, NEW o, Recorded(o)
  PROVE  /\ \A d \in 1..Len(outcomes) : d \in 1..Len(outcomes') /\ outcomes'[d] = outcomes[d]
         /\ \E d \in 1..Len(outcomes') : outcomes'[d] = o
<1>1. PICK n \in Nat : n = Len(outcomes)
  BY DEF BInv, IsSequence
<1>2. /\ Len(outcomes') = n + 1 /\ outcomes'[n + 1] = o
      /\ \A d \in 1..n : outcomes'[d] = outcomes[d]
  BY <1>1, AppendFacts DEF BInv, Recorded
<1> QED BY <1>1, <1>2

\* A decision is never taken back.
LEMMA OverlongStays ==
  ASSUME BInv, [BatchNext]_vars, NoneOverlong'
  PROVE  NoneOverlong
<1>1. CASE \E o : Recorded(o)
  <2>1. PICK o : Recorded(o)
    BY <1>1
  <2>2. \A d \in 1..Len(outcomes) : d \in 1..Len(outcomes') /\ outcomes'[d] = outcomes[d]
    BY <2>1, LastIsRecorded
  <2> QED BY <2>2 DEF NoneOverlong, Overlong
<1>2. CASE UNCHANGED tables
  BY <1>2 DEF NoneOverlong, Overlong, tables
<1> QED BY <1>1, <1>2, BatchSteps

LEMMA NextReplayInv ==
  ASSUME ReplayInv, [BatchNext]_vars, NoneOverlong'
  PROVE  ReplayInv'
<1>0. BInv
  BY DEF ReplayInv
<1>1. ASSUME NEW p, NEW k, NEW i \in Invocations, Apply(p, k, i) PROVE ReplayInv'
  <2>1. PICK o : Recorded(o)
    BY <1>0, <1>1, ApplyRecorded
  <2>2. Stands(o) /\ Tabular'
    BY <1>1, <2>1, ExecuteStands DEF Apply
  <2>3. Accepted(o) => Len(GroupOf(o)) \in Nat
    <3>1. o.op # "batch"
      BY <1>0, <1>1, <2>1, ExecuteRow DEF Apply, Recorded
    <3> QED BY <3>1, SoleGroup
  <2> QED BY <2>1, <2>2, <2>3, ReplayStep
<1>2. ASSUME NEW p, NEW k, NEW B \in Batches, ApplyBatch(p, k, B) PROVE ReplayInv'
  <2>1. PICK o : Recorded(o)
    BY <1>0, <1>2, ApplyBatchRecorded
  <2>2. ~Overlong(o)
    BY <1>0, <2>1, LastIsRecorded DEF NoneOverlong
  <2> QED BY <1>2, <2>1, <2>2, ApplyBatchStands, ReplayStep
<1>3. ASSUME NEW p, NEW k, NEW x, Replay(p, k, x) \/ ReplayBatch(p, k, x) PROVE ReplayInv'
  BY <1>3, UnchangedReplayInv DEF Replay, ReplayBatch
<1>4. CASE Fail \/ Stop \/ OpenGrouped \/ UNCHANGED vars
  BY <1>4, UnchangedReplayInv DEF Fail, Stop, OpenGrouped, vars
<1> QED BY <1>1, <1>2, <1>3, <1>4, Zenon DEF BatchNext

LEMMA OverlongFails ==
  ASSUME NEW s, NEW o, Overlong(o)
  PROVE  ~DecisionStands(s, o)
<1>1. WitnessLimit(o.op) = MaximumWitnesses
  BY DEF Overlong, WitnessLimit
<1>2. ~(Cardinality(DOMAIN o.witnesses) <= MaximumWitnesses)
  BY DEF Overlong
<1> QED BY <1>1, <1>2 DEF DecisionStands, WitnessesStand

LEMMA ReplayedKeeps ==
  ASSUME NEW s, "ok" \in DOMAIN s, NEW o
  PROVE  /\ "ok" \in DOMAIN Replayed(s, o)
         /\ ~(s.ok /\ DecisionStands(s, o)) => Replayed(s, o).ok = FALSE
<1>1. DOMAIN StateAfter(s, o) = DOMAIN s
  BY DEF StateAfter, Applied
<1>2. PICK after : after = StateAfter(s, o)
  OBVIOUS
<1>3. CASE s.ok /\ DecisionStands(s, o)
  <2>1. Replayed(s, o) = after
    BY <1>2, <1>3 DEF Replayed
  <2> QED BY <1>1, <1>2, <1>3, <2>1
<1>4. CASE ~(s.ok /\ DecisionStands(s, o))
  <2>1. Replayed(s, o) = [s EXCEPT !.ok = FALSE]
    BY <1>4 DEF Replayed
  <2> QED BY <2>1
<1> QED BY <1>3, <1>4

\* A replay that failed stays failed.
LEMMA FailedStays ==
  ASSUME IsSequence(outcomes), NEW c \in 1..Len(outcomes), Overlong(outcomes[c])
  PROVE  ~Replays[Len(outcomes)].ok
<1> DEFINE Failed(s) == s.ok = FALSE
           S == {d \in 0..Len(outcomes) : \A s : s = Replays[d] =>
                   "ok" \in DOMAIN s /\ (c <= d => Failed(s))}
<1>0. Len(outcomes) \in Nat
  BY DEF IsSequence
<1>1. /\ Replays[0] = Empty
      /\ \A d \in 1..Len(outcomes) : \A s, o :
           s = Replays[d - 1] /\ o = outcomes[d] => Replays[d] = Replayed(s, o)
  BY ReplaysStep DEF ReplayedInTurn
<1>2. 0 \in S
  BY <1>0, <1>1 DEF Empty
<1>3. ASSUME NEW d \in 1..Len(outcomes), d - 1 \in S PROVE d \in S
  <2>1. PICK s : s = Replays[d - 1]
    OBVIOUS
  <2>2. PICK o : o = outcomes[d]
    OBVIOUS
  <2>3. "ok" \in DOMAIN s /\ (c <= d - 1 => Failed(s))
    BY <1>3, <2>1
  <2>4. Replays[d] = Replayed(s, o)
    BY <1>1, <2>1, <2>2
  <2>5. c <= d => ~(s.ok /\ DecisionStands(s, o))
    <3>1. CASE c = d
      BY <2>2, <3>1, OverlongFails
    <3>2. CASE c <= d - 1
      BY <2>3, <3>2
    <3> QED BY <1>0, <3>1, <3>2
  <2>6. "ok" \in DOMAIN Replayed(s, o) /\ (c <= d => Failed(Replayed(s, o)))
    BY <2>3, <2>5, ReplayedKeeps
  <2> QED BY <2>4, <2>6
<1>4. 0..Len(outcomes) \subseteq S
  <2> HIDE DEF S
  <2> QED BY <1>0, <1>2, <1>3, UpTo
<1> QED BY <1>0, <1>4

\* The store is sound until it keeps a batch that is too long: then it fails its
\* check for good.
GroupedInv == BInv /\ (NoneOverlong => ReplayInv)

(* A store of format 6 opens again exactly when it kept no batch that was refused
   for its length with more aliases than the check allows (applyBatch of store.ts,
   verifyGroupedRecovery of batch-recovery.ts), whatever single requests and
   batches are submitted: GroupedRecoveryAccepts for every instance. *)
THEOREM GroupedRecoveryAlwaysAccepts == BatchSpec => []GroupedRecoveryAccepts
<1>1. Init => GroupedInv
  BY InitBInv, InitReplayInv DEF GroupedInv
<1>2. GroupedInv /\ [BatchNext]_vars => GroupedInv'
  <2> SUFFICES ASSUME GroupedInv, [BatchNext]_vars PROVE GroupedInv'
    OBVIOUS
  <2>1. BInv'
    BY NextBInv DEF GroupedInv
  <2>2. ASSUME NoneOverlong' PROVE ReplayInv'
    BY <2>2, OverlongStays, NextReplayInv DEF GroupedInv
  <2> QED BY <2>1, <2>2 DEF GroupedInv
<1>3. GroupedInv => GroupedRecoveryAccepts
  <2> SUFFICES ASSUME GroupedInv PROVE GroupedRecoveryAccepts
    OBVIOUS
  <2>1. CASE NoneOverlong
    <3>1. VerifyGroupedRecovery
      BY <2>1, ReplayAccepts DEF GroupedInv
    <3> QED BY <2>1, <3>1 DEF GroupedRecoveryAccepts, NoneOverlong
  <2>2. CASE ~NoneOverlong
    <3>1. ~VerifyGroupedRecovery
      BY <2>2, FailedStays DEF GroupedInv, BInv, NoneOverlong, VerifyGroupedRecovery
    <3> QED BY <2>2, <3>1 DEF GroupedRecoveryAccepts, NoneOverlong
  <2> QED BY <2>1, <2>2
<1> QED BY <1>1, <1>2, <1>3, PTL DEF BatchSpec
================================================================================
