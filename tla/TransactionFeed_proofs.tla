------------------------ MODULE TransactionFeed_proofs ------------------------
(***************************************************************************)
(* Theorems about the transactional feed (TransactionFeed), for every set   *)
(* of clients and Resources, every capacity and every log.                 *)
(***************************************************************************)
EXTENDS TransactionFeed, FiniteSetTheorems, SequenceTheorems, TLAPS

\* The shapes of a stream and of a waiting request.
StreamFields == {"phase", "feed", "view", "items", "next", "wire", "blocked", "aborted"}
IsStream(s) == s.phase = "live" /\ s = [f \in StreamFields |-> s[f]]
IsWaiting(r) ==
  r = [phase |-> "waiting", feed |-> r.feed, token |-> r.token, minimum |-> r.minimum,
       context |-> r.context, media |-> r.media]

Shaped ==
  /\ conns = [c \in Clients |-> conns[c]]
  /\ \A c \in Clients : /\ Live(c) => IsStream(conns[c])
                        /\ Phase(c) = "waiting" => IsWaiting(conns[c])

LInv == Shaped /\ LeasesMatchStreams

LEMMA InitLInv == Init => LInv
BY DEF Init, LInv, Shaped, LeasesMatchStreams, Idle, Live, Phase, Running, Streams

\* An attempt touches the connection of its client only and opens no stream.
LEMMA AttemptOpensNothing ==
  ASSUME NEW c \in Clients, NEW r, NEW me, Attempt(c, r, me), Shaped,
         r.phase \in {"new", "waiting"},
         r = [phase |-> r.phase, feed |-> r.feed, token |-> r.token, minimum |-> r.minimum,
              context |-> r.context, media |-> r.media]
  PROVE  \E x : /\ conns' = [conns EXCEPT ![c] = x]
                /\ x.phase # "live"
                /\ x.phase = "waiting" => IsWaiting(x)
<1>1. CASE conns' = [conns EXCEPT ![c] = [r EXCEPT !.phase = "waiting"]]
  <2> DEFINE x == [r EXCEPT !.phase = "waiting"]
  <2>1. x = [phase |-> "waiting", feed |-> r.feed, token |-> r.token, minimum |-> r.minimum,
             context |-> r.context, media |-> r.media]
    OBVIOUS
  <2>2. x.phase = "waiting" /\ IsWaiting(x)
    BY <2>1 DEF IsWaiting
  <2> QED  BY <1>1, <2>2
<1>2. CASE conns' = [conns EXCEPT ![c] = Idle]
  <2>1. Idle.phase = "idle"
    BY DEF Idle
  <2> QED  BY <1>2, <2>1
<1>3. CASE conns' = [conns EXCEPT ![c] = Selected(r)]
  <2>1. Selected(r).phase = "selected"
    BY DEF Selected
  <2> QED  BY <1>3, <2>1
<1> QED  BY <1>1, <1>2, <1>3 DEF Attempt

\* A step that gives one client another connection keeps the shapes.
LEMMA OneConnectionShaped ==
  ASSUME Shaped, NEW c \in Clients, NEW x, conns' = [conns EXCEPT ![c] = x],
         x.phase = "live" => IsStream(x), x.phase = "waiting" => IsWaiting(x)
  PROVE  Shaped'
BY DEF Shaped, Live, Phase

\* ... and the leases, if it ends no running stream or ends its lease with it.
LEMMA OneConnectionLeased ==
  ASSUME LInv, NEW c \in Clients, NEW x, conns' = [conns EXCEPT ![c] = x],
         x.phase = "live" => IsStream(x), x.phase = "waiting" => IsWaiting(x),
         leases' \ {c} = leases \ {c},
         c \in leases' => x.phase = "live",
         x.phase = "live" /\ ~x.aborted => c \in leases'
  PROVE  LInv'
<1>1. Shaped'
  BY OneConnectionShaped DEF LInv
<1>2. \A d \in Clients : conns'[d] = IF d = c THEN x ELSE conns[d]
  BY DEF LInv, Shaped
<1>3. LeasesMatchStreams'
  BY <1>2 DEF LInv, LeasesMatchStreams, Running, Streams, Live, Phase
<1> QED  BY <1>1, <1>3 DEF LInv

LEMMA AbortedStream ==
  ASSUME NEW s, IsStream(s)
  PROVE  LET t == [s EXCEPT !.aborted = TRUE] IN
         t.phase = "live" /\ t.aborted = TRUE /\ IsStream(t)
BY DEF IsStream, StreamFields

\* Revoking leases, or aborting all, leaves streams aborted and shaped.
LEMMA AbortedShaped ==
  ASSUME Shaped, NEW C, conns' = Aborted(C)
  PROVE  /\ Shaped'
         /\ \A c \in Clients : /\ Live(c)' <=> Live(c)
                               /\ Running(c)' <=> Running(c) /\ c \notin C
<1>1. \A c \in Clients : conns'[c] =
        IF c \in C /\ Live(c) THEN [conns[c] EXCEPT !.aborted = TRUE] ELSE conns[c]
  BY DEF Aborted
<1>2. ASSUME NEW c \in Clients, c \in C, Live(c)
      PROVE  /\ conns'[c].phase = "live" /\ conns'[c].aborted = TRUE /\ IsStream(conns'[c])
  <2>1. conns'[c] = [conns[c] EXCEPT !.aborted = TRUE] /\ IsStream(conns[c])
    BY <1>1, <1>2 DEF Shaped
  <2> QED  BY <2>1, AbortedStream
<1>3. conns' = [c \in Clients |-> conns'[c]]
  BY DEF Aborted
<1>4. Shaped'
  BY <1>1, <1>2, <1>3 DEF Shaped, Live, Phase
<1> QED  BY <1>1, <1>2, <1>4 DEF Running, Live, Phase

LEMMA StepLInv == LInv /\ [Next]_vars => LInv'
<1> SUFFICES ASSUME LInv, [Next]_vars PROVE LInv'
  OBVIOUS
<1> USE DEF log
<1>1. ASSUME NEW c \in Clients, Ask(c) PROVE LInv'
  <2>1. PICK feed, token, minimum, media, me :
          Attempt(c, Request(feed, token, minimum, media), me)
    BY <1>1 DEF Ask
  <2> DEFINE r == Request(feed, token, minimum, media)
  <2>r. /\ r.phase = "new"
        /\ r = [phase |-> r.phase, feed |-> r.feed, token |-> r.token,
                minimum |-> r.minimum, context |-> r.context, media |-> r.media]
    BY DEF Request
  <2>2. PICK x : conns' = [conns EXCEPT ![c] = x] /\ x.phase # "live"
                 /\ (x.phase = "waiting" => IsWaiting(x))
    <3> HIDE DEF r
    <3> QED  BY <2>1, <2>r, AttemptOpensNothing DEF LInv, r
  <2>3. c \notin leases /\ leases' = leases
    BY <1>1 DEF Ask, LInv, LeasesMatchStreams, Streams, Live, Phase
  <2> QED  BY <2>2, <2>3, OneConnectionLeased
<1>2. ASSUME NEW c \in Clients, Retry(c) PROVE LInv'
  <2>1. PICK x : conns' = [conns EXCEPT ![c] = x] /\ x.phase # "live"
                 /\ (x.phase = "waiting" => IsWaiting(x))
    <3>1. IsWaiting(conns[c]) /\ conns[c].phase = "waiting"
      BY <1>2 DEF Retry, LInv, Shaped, Phase
    <3> QED  BY <1>2, <3>1, AttemptOpensNothing DEF Retry, IsWaiting, LInv
  <2>2. c \notin leases /\ leases' = leases
    BY <1>2 DEF Retry, LInv, LeasesMatchStreams, Streams, Live, Phase
  <2> QED  BY <2>1, <2>2, OneConnectionLeased
<1>3. ASSUME NEW c \in Clients, GiveUp(c) PROVE LInv'
  <2>1. Idle.phase = "idle"
    BY DEF Idle
  <2>2. c \notin leases /\ leases' = leases
    BY <1>3 DEF GiveUp, LInv, LeasesMatchStreams, Streams, Live, Phase
  <2> QED  BY <1>3, <2>1, <2>2, OneConnectionLeased DEF GiveUp
<1>4. ASSUME NEW c \in Clients, StartStream(c) PROVE LInv'
  <2>1. Idle.phase = "idle"
    BY DEF Idle
  <2>2. IsStream(Opened(conns[c])) /\ Opened(conns[c]).phase = "live"
    BY DEF IsStream, StreamFields, Opened
  <2>3. c \notin leases
    BY <1>4 DEF StartStream, LInv, LeasesMatchStreams, Streams, Live, Phase
  <2>4. CASE /\ conns' = [conns EXCEPT ![c] = Opened(conns[c])]
             /\ leases' = leases \cup {c}
    BY <2>2, <2>4, OneConnectionLeased
  <2>5. CASE conns' = [conns EXCEPT ![c] = Idle] /\ leases' = leases
    BY <2>1, <2>3, <2>5, OneConnectionLeased
  <2> QED  BY <1>4, <2>4, <2>5 DEF StartStream
\* A running stream goes on, or is aborted.
<1>5. ASSUME NEW c \in Clients, Write(c) \/ Receive(c) \/ Drain(c) \/ Pull(c) \/ Disconnect(c)
      PROVE  LInv'
  <2>1. UNCHANGED leases
    BY <1>5 DEF Write, Receive, Drain, Pull, Disconnect
  <2>2. CASE Phase(c) = "selected" /\ conns' = [conns EXCEPT ![c] = Idle]
    <3>1. Idle.phase = "idle" /\ c \notin leases
      BY <2>2 DEF Idle, LInv, LeasesMatchStreams, Streams, Live, Phase
    <3> QED  BY <2>1, <2>2, <3>1, OneConnectionLeased
  <2>3. CASE Live(c)
    <3>1. IsStream(conns[c]) /\ conns[c].phase = "live"
      BY <2>3 DEF LInv, Shaped, Live, Phase
    <3>2. ~conns[c].aborted => c \in leases
      BY <2>3 DEF LInv, LeasesMatchStreams, Running
    <3> DEFINE Goes(x) ==
          /\ conns' = [conns EXCEPT ![c] = x] /\ IsStream(x) /\ x.phase = "live"
          /\ ~x.aborted => ~conns[c].aborted
    <3>3. CASE Write(c)
      <4>1. Goes([conns[c] EXCEPT !.wire = Append(@, Head(conns[c].items)),
                                  !.items = Tail(@),
                                  !.blocked = Len(conns[c].wire) + 1 >= HighWater])
        BY <3>1, <3>3 DEF Write, IsStream, StreamFields, Running
      <4> QED  BY <2>1, <3>2, <4>1, OneConnectionLeased
    <3>4. CASE Receive(c)
      <4>1. Goes([conns[c] EXCEPT !.wire = Tail(@)])
        BY <3>1, <3>4 DEF Receive, IsStream, StreamFields
      <4> QED  BY <2>1, <3>2, <4>1, OneConnectionLeased
    <3>5. CASE Drain(c)
      <4>1. Goes([conns[c] EXCEPT !.blocked = FALSE])
        BY <3>1, <3>5 DEF Drain, IsStream, StreamFields
      <4> QED  BY <2>1, <3>2, <4>1, OneConnectionLeased
    <3>6. CASE Pull(c)
      <4> DEFINE packet == Packet(conns[c].feed, conns[c].next)
      <4>1. CASE conns' = [conns EXCEPT ![c].items = packet.items, ![c].next = packet.next]
        <5> HIDE DEF packet
        <5>1. Goes([conns[c] EXCEPT !.items = packet.items, !.next = packet.next])
          BY <3>1, <4>1 DEF IsStream, StreamFields
        <5> QED  BY <2>1, <3>2, <5>1, OneConnectionLeased
      <4>2. CASE conns' = [conns EXCEPT ![c].aborted = TRUE]
        <5>1. Goes([conns[c] EXCEPT !.aborted = TRUE])
          BY <3>1, <4>2 DEF IsStream, StreamFields
        <5> QED  BY <2>1, <3>2, <5>1, OneConnectionLeased
      <4> QED  BY <3>6, <4>1, <4>2 DEF Pull
    <3>7. CASE Disconnect(c)
      <4>1. Goes([conns[c] EXCEPT !.aborted = TRUE, !.wire = <<>>])
        BY <3>1, <3>7 DEF Disconnect, IsStream, StreamFields, Phase
      <4> QED  BY <2>1, <3>2, <4>1, OneConnectionLeased
    <3> QED  BY <1>5, <3>3, <3>4, <3>5, <3>6, <3>7
  <2> QED
    BY <1>5, <2>2, <2>3 DEF Write, Receive, Drain, Pull, Disconnect, Running
<1>6. ASSUME NEW c \in Clients, End(c) PROVE LInv'
  <2>1. Idle.phase = "idle"
    BY DEF Idle
  <2> QED  BY <1>6, <2>1, OneConnectionLeased DEF End
<1>7. ASSUME Publish \/ Fence PROVE LInv'
  <2>1. conns' = Aborted(leases) /\ leases' = {}
    BY <1>7 DEF Publish, Fence
  <2> QED  BY <2>1, AbortedShaped DEF LInv, LeasesMatchStreams
<1>8. CASE Close
  <2>1. conns' = Aborted(Clients) /\ leases' = leases
    BY <1>8 DEF Close
  <2> QED  BY <2>1, AbortedShaped DEF LInv, LeasesMatchStreams, Streams
<1>9. CASE Closed
  BY <1>9 DEF Closed, LInv, Shaped, LeasesMatchStreams, Running, Streams, Live, Phase
<1>10. CASE Restart
  BY <1>10 DEF Restart, LInv, Shaped, LeasesMatchStreams, Running, Streams, Live, Phase, Idle
<1>11. CASE Commit \/ UNCHANGED vars
  BY <1>11 DEF Commit, vars, LInv, Shaped, LeasesMatchStreams, Running, Streams, Live, Phase
<1> QED
  BY <1>1, <1>2, <1>3, <1>4, <1>5, <1>6, <1>7, <1>8, <1>9, <1>10, <1>11 DEF Next
-----------------------------------------------------------------------------
(* The order of the log. *)

Rank(S, p) == Cardinality({q \in S : Before(q, p)})
Ordered(S) ==
  /\ IsFiniteSet(S)
  /\ \A p \in S : p.position \in Nat /\ p.ordinal \in Nat
  /\ \A p, q \in S : p = q \/ Before(p, q) \/ Before(q, p)

\* Ranks are those of the first elements, without a gap.
LEMMA Ranks ==
  ASSUME NEW S, Ordered(S)
  PROVE  /\ Cardinality(S) \in Nat
         /\ \A p \in S : Rank(S, p) \in 0..(Cardinality(S) - 1)
         /\ \A p, q \in S : Before(p, q) => Rank(S, p) < Rank(S, q)
         /\ \A k \in 0..(Cardinality(S) - 1) : \E p \in S : Rank(S, p) = k
<1> DEFINE B(p) == {q \in S : Before(q, p)}
           N == Cardinality(S)
<1>r. \A p : Rank(S, p) = Cardinality(B(p))
  BY DEF Rank
<1>1. IsFiniteSet(S) /\ N \in Nat
  BY FS_CardinalityType DEF Ordered
<1>2. ASSUME NEW p \in S PROVE IsFiniteSet(B(p)) /\ Rank(S, p) \in Nat
  <2>1. B(p) \in SUBSET S
    OBVIOUS
  <2> HIDE DEF B
  <2> QED  BY <1>r, <1>1, <2>1, FS_Subset, FS_CardinalityType
<1>3. ASSUME NEW p \in S PROVE Rank(S, p) < N
  <2>1. B(p) \in SUBSET S /\ p \notin B(p)
    BY DEF Before, Ordered
  <2> HIDE DEF B
  <2>2. Rank(S, p) <= N /\ Rank(S, p) # N
    BY <1>r, <1>1, <2>1, FS_Subset
  <2> QED  BY <1>1, <1>2, <2>2
<1>4. ASSUME NEW p \in S, NEW q \in S, Before(p, q)
      PROVE  Rank(S, p) < Rank(S, q)
  <2>1. B(p) \in SUBSET B(q) /\ p \in B(q) /\ p \notin B(p)
    BY <1>4 DEF Before, Ordered
  <2> HIDE DEF B
  <2>2. Rank(S, p) <= Rank(S, q) /\ Rank(S, p) # Rank(S, q)
    BY <1>r, <1>2, <2>1, FS_Subset
  <2> QED  BY <1>2, <2>2
<1> HIDE DEF B
<1> DEFINE f == [p \in S |-> Rank(S, p)]
           T == 0..(N - 1)
<1>5. f \in Injection(S, T)
  <2>1. f \in [S -> T]
    BY <1>1, <1>2, <1>3
  <2>2. \A p, q \in S : f[p] = f[q] => p = q
    BY <1>2, <1>4 DEF Ordered
  <2> QED  BY <2>1, <2>2 DEF Injection, IsInjective
<1>6. IsFiniteSet(T) /\ Cardinality(T) = N
  BY <1>1, FS_Interval
<1>7. f \in Surjection(S, T)
  <2> HIDE DEF f, T
  <2> QED  BY <1>5, <1>6, FS_Injection
<1>8. \A k \in T : \E p \in S : f[p] = k
  BY <1>7 DEF Surjection
<1> QED
  BY <1>1, <1>2, <1>3, <1>4, <1>8

\* InOrder lists a set by rank: each member once, in order.
LEMMA InOrderIs ==
  ASSUME NEW S, Ordered(S)
  PROVE  /\ InOrder(S) \in Seq(S) /\ Len(InOrder(S)) = Cardinality(S)
         /\ \A i \in 1..Cardinality(S) : Rank(S, InOrder(S)[i]) = i - 1
         /\ \A i, j \in 1..Cardinality(S) : i < j => Before(InOrder(S)[i], InOrder(S)[j])
         /\ \A p \in S : \E i \in 1..Cardinality(S) : InOrder(S)[i] = p
<1> DEFINE N == Cardinality(S)
           s == InOrder(S)
<1>0. N \in Nat
  BY Ranks
<1>1. s = [i \in 1..N |-> CHOOSE p \in S : Rank(S, p) = i - 1]
  BY DEF InOrder, Rank
<1>2. ASSUME NEW i \in 1..N PROVE s[i] \in S /\ Rank(S, s[i]) = i - 1
  <2>1. \E p \in S : Rank(S, p) = i - 1
    BY <1>0, Ranks
  <2> QED  BY <1>1, <2>1
<1>3. s \in [1..N -> S]
  BY <1>1, <1>2
<1>4. s \in Seq(S) /\ Len(s) = N
  BY <1>0, <1>3, SeqDef
<1>5. \A p, q \in S : Rank(S, p) = Rank(S, q) => p = q
  BY Ranks DEF Ordered
<1>6. ASSUME NEW p \in S PROVE \E i \in 1..N : s[i] = p
  <2>1. Rank(S, p) + 1 \in 1..N
    BY <1>0, Ranks
  <2>2. Rank(S, s[Rank(S, p) + 1]) = Rank(S, p) /\ s[Rank(S, p) + 1] \in S
    BY <1>0, <1>2, <2>1, Ranks
  <2> QED  BY <1>5, <2>1, <2>2
<1>7. ASSUME NEW i \in 1..N, NEW j \in 1..N, i < j PROVE Before(s[i], s[j])
  <2>1. Rank(S, s[i]) < Rank(S, s[j])
    BY <1>2, <1>7
  <2>2. s[i] # s[j] /\ ~Before(s[j], s[i])
    BY <1>0, <1>2, <2>1, Ranks
  <2> QED  BY <1>2, <2>2 DEF Ordered
<1> QED  BY <1>2, <1>4, <1>6, <1>7
-----------------------------------------------------------------------------
(* Sequences of items that tell what is due. *)

Items == [position : Nat \ {0}, ordinal : Nat, view : Nat]
Places == [position : Nat \ {0}, ordinal : Nat]
Tokens == [at : Nat, ordinal : Nat, view : Nat]

After(d, token) == d.position > token.at \/ (d.position = token.at /\ d.ordinal > token.ordinal)
Tells(q, d) == \E i \in 1..Len(q) : Place(q[i]) = d
Increasing(q) == \A i, j \in 1..Len(q) : i < j => Before(q[i], q[j])

\* What is due after a token, from the first on: each once, in order.
Continues(q, token, D) ==
  /\ q \in Seq(Items) /\ Increasing(q)
  /\ \A i \in 1..Len(q) : Place(q[i]) \in D /\ After(q[i], token)
  /\ \A d \in D, i \in 1..Len(q) : After(d, token) /\ Before(d, q[i]) => Tells(q, d)

\* What is due from the beginning on, and up to which token.
Gapless(q, D) == Continues(q, Start, D)
Reaches(q, token, D) == \A d \in D : Tells(q, d) <=> ~After(d, token)

\* Items are ordered as their places are.
LEMMA PlaceIs ==
  ASSUME NEW x \in Items
  PROVE  /\ Place(x) \in Places /\ Place(x).position = x.position /\ Place(x).ordinal = x.ordinal
         /\ \A d : /\ Before(d, Place(x)) <=> Before(d, x)
                   /\ Before(Place(x), d) <=> Before(x, d)
         /\ \A t : After(Place(x), t) <=> After(x, t)
         /\ x.position \in Nat \ {0} /\ x.ordinal \in Nat /\ x.view \in Nat
         /\ TokenOf(x) \in Tokens /\ TokenOf(x).at = x.position /\ TokenOf(x).view = x.view
         /\ TokenOf(x).ordinal = x.ordinal
BY DEF Items, Places, Place, At, Before, After, TokenOf, Tokens

\* Places are totally ordered, and a token cuts that order in two.
LEMMA PlacesOrder ==
  ASSUME NEW d \in Places, NEW e \in Places
  PROVE  /\ d = e \/ Before(d, e) \/ Before(e, d)
         /\ ~Before(d, d) /\ ~(Before(d, e) /\ Before(e, d))
         /\ After(d, Start) /\ Start \in Tokens
         /\ \A t \in Tokens : Before(d, e) /\ ~After(e, t) => ~After(d, t)
         /\ \A t \in Tokens : After(d, t) /\ ~After(e, t) => Before(e, d)
<1>1. /\ d.position \in Nat \ {0} /\ d.ordinal \in Nat /\ e.position \in Nat \ {0} /\ e.ordinal \in Nat
      /\ d = [position |-> d.position, ordinal |-> d.ordinal]
      /\ e = [position |-> e.position, ordinal |-> e.ordinal]
  BY DEF Places
<1>2. Start \in Tokens /\ Start.at = 0 /\ Start.ordinal = 0
  BY DEF Start, Tokens
<1>3. \A t \in Tokens : t.at \in Nat /\ t.ordinal \in Nat
  BY DEF Tokens
<1> QED  BY <1>1, <1>2, <1>3 DEF Before, After

\* What continues without a gap does so from its beginning on.
LEMMA PrefixContinues ==
  ASSUME NEW p \in Seq(Items), NEW r \in Seq(Items), NEW token, NEW D \in SUBSET Places,
         Continues(p \o r, token, D)
  PROVE  Continues(p, token, D)
<1>1. /\ Len(p) \in Nat /\ Len(r) \in Nat /\ Len(p \o r) = Len(p) + Len(r)
      /\ \A i \in 1..Len(p) : i \in 1..Len(p \o r) /\ (p \o r)[i] = p[i] /\ p[i] \in Items
  OBVIOUS
<1>2. Increasing(p)
  BY <1>1 DEF Continues, Increasing
<1>3. \A i \in 1..Len(p) : Place(p[i]) \in D /\ After(p[i], token)
  BY <1>1 DEF Continues
<1>4. ASSUME NEW d \in D, NEW i \in 1..Len(p), After(d, token), Before(d, p[i])
      PROVE  Tells(p, d)
  <2>1. PICK j \in 1..Len(p \o r) : Place((p \o r)[j]) = d
    BY <1>1, <1>4 DEF Continues, Tells
  <2>2. (p \o r)[j] \in Items /\ Before((p \o r)[j], p[i])
    BY <1>4, <2>1, PlaceIs DEF Continues
  <2>3. ASSUME i < j PROVE FALSE
    <3>1. Before(p[i], (p \o r)[j])
      BY <1>1, <2>1, <2>3 DEF Continues, Increasing
    <3> QED  BY <1>1, <2>2, <3>1, PlaceIs, PlacesOrder
  <2> QED  BY <1>1, <2>1, <2>3 DEF Tells
<1> QED  BY <1>2, <1>3, <1>4 DEF Continues

\* What is told without a gap is told up to its last item.
LEMMA ReachesLast ==
  ASSUME NEW p, NEW D \in SUBSET Places, Gapless(p, D), p # <<>>
  PROVE  Last(p) \in Items /\ Place(Last(p)) \in D /\ Reaches(p, TokenOf(Last(p)), D)
<1> DEFINE n == Len(p)
<1>1. n \in Nat \ {0} /\ Last(p) = p[n] /\ (\A i \in 1..n : p[i] \in Items)
  BY DEF Gapless, Continues, Last
<1>2. n \in 1..n
  BY <1>1
<1>3. Place(p[n]) \in D
  BY <1>2 DEF Gapless, Continues
<1>4. ASSUME NEW d \in D, Tells(p, d) PROVE ~After(d, TokenOf(p[n]))
  <2>1. PICK i \in 1..n : Place(p[i]) = d
    BY <1>4 DEF Tells
  <2>2. i = n \/ Before(p[i], p[n])
    BY <1>1, <1>2 DEF Gapless, Continues, Increasing
  <2> QED  BY <1>1, <2>1, <2>2, PlaceIs DEF Before, After
<1>5. ASSUME NEW d \in D, ~After(d, TokenOf(p[n])) PROVE Tells(p, d)
  <2>1. d = Place(p[n]) \/ Before(d, p[n])
    <3>1. p[n] \in Items /\ d \in Places
      BY <1>1
    <3>2. ~Before(Place(p[n]), d)
      BY <1>5, <3>1, PlaceIs DEF Before, After, Places
    <3> QED  BY <3>1, <3>2, PlaceIs, PlacesOrder
  <2>2. After(d, Start)
    BY PlacesOrder
  <2> QED  BY <1>2, <2>1, <2>2 DEF Gapless, Continues, Tells
<1> QED  BY <1>1, <1>2, <1>3, <1>4, <1>5 DEF Reaches

\* A sequence that reaches a token, and one that continues from there.
LEMMA Extends ==
  ASSUME NEW q, NEW r, NEW token \in Tokens, NEW D \in SUBSET Places,
         Gapless(q, D), Reaches(q, token, D), Continues(r, token, D)
  PROVE  /\ Gapless(q \o r, D)
         /\ \A d : Tells(q \o r, d) <=> Tells(q, d) \/ Tells(r, d)
<1> DEFINE s == q \o r
           m == Len(q)
<1>1. /\ q \in Seq(Items) /\ r \in Seq(Items) /\ s \in Seq(Items)
      /\ m \in Nat /\ Len(r) \in Nat /\ Len(s) = m + Len(r)
  BY DEF Gapless, Continues
<1>2. \A i \in 1..Len(s) : s[i] \in Items /\ s[i] = IF i <= m THEN q[i] ELSE r[i - m]
  BY <1>1
<1>3. \A i \in 1..Len(s) : i <= m => i \in 1..m
  BY <1>1
<1>4. \A i \in 1..Len(s) : i > m => i - m \in 1..Len(r)
  BY <1>1
<1>5. \A d : Tells(s, d) <=> Tells(q, d) \/ Tells(r, d)
  <2>1. ASSUME NEW d, Tells(q, d) PROVE Tells(s, d)
    <3>1. PICK i \in 1..m : Place(q[i]) = d
      BY <2>1 DEF Tells
    <3>2. i \in 1..Len(s) /\ s[i] = q[i]
      BY <1>1, <1>2
    <3> HIDE DEF s
    <3> QED  BY <3>1, <3>2 DEF Tells
  <2>2. ASSUME NEW d, Tells(r, d) PROVE Tells(s, d)
    <3>1. PICK i \in 1..Len(r) : Place(r[i]) = d
      BY <2>2 DEF Tells
    <3>2. m + i \in 1..Len(s) /\ s[m + i] = r[i]
      BY <1>1
    <3> HIDE DEF s
    <3> QED  BY <3>1, <3>2 DEF Tells
  <2>3. ASSUME NEW d, Tells(s, d) PROVE Tells(q, d) \/ Tells(r, d)
    <3>1. PICK i \in 1..Len(s) : Place(s[i]) = d
      BY <2>3 DEF Tells
    <3> QED  BY <1>1, <1>2, <1>3, <1>4, <3>1 DEF Tells
  <2> QED  BY <2>1, <2>2, <2>3
<1>6. \A i \in 1..m : q[i] \in Items /\ Place(q[i]) \in D /\ ~After(q[i], token)
  <2> TAKE i \in 1..m
  <2>1. q[i] \in Items /\ Place(q[i]) \in D /\ Tells(q, Place(q[i]))
    BY <1>1 DEF Gapless, Continues, Tells
  <2> QED  BY <2>1, PlaceIs DEF Reaches
<1>7. \A i \in 1..Len(r) : r[i] \in Items /\ Place(r[i]) \in D /\ After(r[i], token)
  BY <1>1 DEF Continues
<1>8. Increasing(s)
  <2> SUFFICES ASSUME NEW i \in 1..Len(s), NEW j \in 1..Len(s), i < j
               PROVE  Before(s[i], s[j])
    BY DEF Increasing
  <2>1. CASE j <= m
    <3>1. i \in 1..m /\ j \in 1..m
      BY <1>1, <2>1
    <3> QED  BY <1>2, <2>1, <3>1 DEF Gapless, Continues, Increasing
  <2>2. CASE i > m
    <3>1. i - m \in 1..Len(r) /\ j - m \in 1..Len(r) /\ i - m < j - m /\ j > m
      BY <1>1, <2>2
    <3>2. Before(r[i - m], r[j - m])
      BY <3>1 DEF Continues, Increasing
    <3>3. ~(i <= m) /\ ~(j <= m)
      BY <1>1, <2>2
    <3> QED  BY <1>2, <3>2, <3>3
  <2>3. CASE i <= m /\ j > m
    <3>1. i \in 1..m /\ j - m \in 1..Len(r) /\ ~(j <= m)
      BY <1>1, <2>3
    <3>2. s[i] = q[i] /\ s[j] = r[j - m]
      BY <1>2, <2>3, <3>1
    <3>3. ~After(Place(q[i]), token) /\ After(Place(r[j - m]), token)
      BY <1>6, <1>7, <3>1, PlaceIs
    <3>4. Before(Place(q[i]), Place(r[j - m]))
      BY <1>6, <1>7, <3>1, <3>3, PlacesOrder
    <3> QED  BY <1>6, <1>7, <3>1, <3>2, <3>4, PlaceIs
  <2> QED  BY <1>1, <2>1, <2>2, <2>3
<1>9. \A i \in 1..Len(s) : Place(s[i]) \in D /\ After(s[i], Start)
  <2> TAKE i \in 1..Len(s)
  <2>1. Place(s[i]) \in D
    BY <1>1, <1>2, <1>3, <1>4, <1>6, <1>7
  <2> QED  BY <1>2, <2>1, PlaceIs, PlacesOrder
<1>10. ASSUME NEW d \in D, NEW i \in 1..Len(s), After(d, Start), Before(d, s[i])
       PROVE  Tells(s, d)
  <2>1. CASE i <= m
    <3>1. i \in 1..m /\ Before(d, q[i])
      BY <1>2, <1>3, <1>10, <2>1
    <3> QED  BY <1>5, <1>10, <3>1 DEF Gapless, Continues
  <2>2. CASE i > m
    <3>1. i - m \in 1..Len(r) /\ ~(i <= m)
      BY <1>1, <2>2
    <3>2. Before(d, r[i - m])
      BY <1>2, <1>10, <3>1
    <3>3. CASE After(d, token)
      BY <1>5, <3>1, <3>2, <3>3 DEF Continues
    <3>4. CASE ~After(d, token)
      BY <1>5, <3>4 DEF Reaches
    <3> QED  BY <3>3, <3>4
  <2> QED  BY <1>1, <2>1, <2>2
<1>11. Gapless(s, D)
  <2> HIDE DEF s, m
  <2> QED  BY <1>1, <1>8, <1>9, <1>10 DEF Gapless, Continues
<1> QED  BY <1>5, <1>11

\* A log grows at its end.
LEMMA GrowthKeeps ==
  ASSUME NEW q, NEW D \in SUBSET Places, NEW E \in SUBSET Places,
         D \subseteq E, \A d \in D, e \in E \ D : Before(d, e)
  PROVE  /\ Gapless(q, D) => Gapless(q, E)
         /\ \A token \in Tokens :
              Gapless(q, D) /\ Reaches(q, token, D) /\ (\A e \in E \ D : After(e, token)) =>
                Reaches(q, token, E)
<1>1. ASSUME Gapless(q, D), NEW e \in E, NEW i \in 1..Len(q), Before(e, q[i])
      PROVE  e \in D
  <2>1. q[i] \in Items /\ Place(q[i]) \in D
    BY <1>1 DEF Gapless, Continues
  <2>2. Before(e, Place(q[i]))
    BY <1>1, <2>1, PlaceIs
  <2>3. ~Before(Place(q[i]), e)
    BY <2>1, <2>2, PlacesOrder
  <2> QED  BY <2>1, <2>3
<1>2. ASSUME Gapless(q, D) PROVE Gapless(q, E)
  BY <1>1, <1>2 DEF Gapless, Continues
<1>3. ASSUME NEW token \in Tokens, Gapless(q, D), Reaches(q, token, D),
             \A e \in E \ D : After(e, token)
      PROVE  Reaches(q, token, E)
  <2>1. \A e : Tells(q, e) => e \in D
    BY <1>3 DEF Gapless, Continues, Tells
  <2> QED  BY <1>3, <2>1 DEF Reaches
<1> QED  BY <1>2, <1>3

\* What is told without a gap is a prefix of what is due.
LEMMA GaplessIsPrefix ==
  ASSUME NEW q, NEW D \in SUBSET Places, IsFiniteSet(D), Gapless(q, D)
  PROVE  IsPrefix([i \in 1..Len(q) |-> Place(q[i])], InOrder(D))
<1> DEFINE n == Len(q)
           s == [i \in 1..n |-> Place(q[i])]
           N == Cardinality(D)
           t == InOrder(D)
<1>1. Ordered(D)
  BY PlacesOrder DEF Ordered, Places
<1>2. n \in Nat /\ N \in Nat /\ \A i \in 1..n : q[i] \in Items /\ s[i] \in D
  BY <1>1, Ranks DEF Gapless, Continues
<1>3. ASSUME NEW i \in 1..n PROVE Rank(D, s[i]) = i - 1
  <2> DEFINE B == {d \in D : Before(d, s[i])}
             f == [j \in 1..(i - 1) |-> s[j]]
  <2>1. \A j, k \in 1..n : j < k => Before(s[j], s[k])
    BY <1>2, PlaceIs DEF Gapless, Continues, Increasing
  <2>2. \A j \in 1..(i - 1) : j \in 1..n /\ j < i
    BY <1>2
  <2>3. \A j, k \in 1..(i - 1) : s[j] = s[k] => j = k
    <3> HIDE DEF s
    <3> QED  BY <1>2, <2>1, <2>2, PlacesOrder
  <2>4. \A j \in 1..(i - 1) : s[j] \in B
    <3> HIDE DEF s
    <3> QED  BY <1>2, <2>1, <2>2
  <2>5. ASSUME NEW d \in B PROVE \E j \in 1..(i - 1) : s[j] = d
    <3>1. After(d, Start) /\ Before(d, q[i])
      BY <1>2, PlacesOrder, PlaceIs
    <3>2. PICK j \in 1..n : s[j] = d
      BY <3>1 DEF Gapless, Continues, Tells
    <3>3. ~(i < j) /\ i # j
      <4> HIDE DEF s
      <4> QED  BY <1>2, <2>1, <3>2, PlacesOrder
    <3> QED  BY <1>2, <3>2, <3>3
  <2>6. f \in Bijection(1..(i - 1), B)
    <3> HIDE DEF s, B
    <3> QED  BY <2>3, <2>4, <2>5 DEF Bijection, Injection, Surjection, IsInjective
  <2>7. Cardinality(B) = i - 1
    <3> HIDE DEF s, B, f
    <3>1. ExistsBijection(1..(i - 1), B)
      BY <2>6 DEF ExistsBijection
    <3> QED  BY <1>2, <3>1, FS_CountingElements
  <2> QED  BY <2>7 DEF Rank
<1> HIDE DEF s, t
<1>4. ASSUME NEW i \in 1..n PROVE i \in 1..N /\ s[i] = t[i]
  <2>1. Rank(D, s[i]) \in 0..(N - 1) /\ Rank(D, s[i]) = i - 1
    BY <1>1, <1>2, <1>3, Ranks
  <2>2. i \in 1..N
    BY <1>2, <2>1
  <2>3. Rank(D, t[i]) = i - 1 /\ t[i] \in D
    BY <1>1, <1>2, <2>2, InOrderIs DEF t
  <2>4. ~Before(s[i], t[i]) /\ ~Before(t[i], s[i])
    BY <1>1, <1>2, <2>1, <2>3, Ranks
  <2> QED  BY <1>1, <1>2, <2>2, <2>3, <2>4 DEF Ordered
<1>5. n <= N
  BY <1>2, <1>4
<1>6. s \in Seq(D) /\ Len(s) = n /\ t \in Seq(D) /\ Len(t) = N
  <2>1. s \in [1..n -> D]
    BY <1>2 DEF s
  <2> QED  BY <1>1, <1>2, <2>1, InOrderIs, SeqDef DEF t
<1>7. SubSeq(s, 1, n) = SubSeq(t, 1, n)
  <2>1. \A i \in 1..n : s[i] \in D /\ t[i] \in D
    BY <1>2, <1>4
  <2>2. /\ SubSeq(s, 1, n) \in Seq(D) /\ SubSeq(t, 1, n) \in Seq(D)
        /\ Len(SubSeq(s, 1, n)) = IF 1 <= n THEN n - 1 + 1 ELSE 0
        /\ Len(SubSeq(t, 1, n)) = IF 1 <= n THEN n - 1 + 1 ELSE 0
        /\ \A i \in 1..(n - 1 + 1) : SubSeq(s, 1, n)[i] = s[1 + i - 1]
        /\ \A i \in 1..(n - 1 + 1) : SubSeq(t, 1, n)[i] = t[1 + i - 1]
    BY <1>2, <2>1, SubSeqProperties
  <2>3. \A i \in 1..n : i \in 1..(n - 1 + 1) /\ 1 + i - 1 = i
    BY <1>2
  <2>4. \A i \in 1..n : SubSeq(s, 1, n)[i] = SubSeq(t, 1, n)[i]
    BY <1>4, <2>2, <2>3
  <2>5. Len(SubSeq(s, 1, n)) = n /\ Len(SubSeq(t, 1, n)) = n
    BY <1>2, <2>2
  <2> QED  BY <2>2, <2>4, <2>5, SeqEqual
<1> QED  BY <1>5, <1>6, <1>7 DEF IsPrefix, s, t

\* A page of a set of items has the first of them, in their order.
LEMMA PageIs ==
  ASSUME NEW R \in SUBSET Items, Ordered(R)
  PROVE  LET page == Limited(InOrder(R)) IN
         /\ page \in Seq(R) /\ Increasing(page)
         /\ \A y \in R, i \in 1..Len(page) : Before(y, page[i]) => Tells(page, Place(y))
         /\ Len(InOrder(R)) = Cardinality(R)
         /\ Len(page) = Cardinality(R) => \A y \in R : Tells(page, Place(y))
         /\ Len(page) # Cardinality(R) => page # <<>>
<1> DEFINE N == Cardinality(R)
           s == InOrder(R)
           n == IF N < MaximumItems THEN N ELSE MaximumItems
           page == Limited(s)
<1>1. /\ s \in Seq(R) /\ Len(s) = N
      /\ \A i, j \in 1..N : i < j => Before(s[i], s[j])
      /\ \A x \in R : \E i \in 1..N : s[i] = x
  BY InOrderIs
<1>2. N \in Nat /\ n \in Nat /\ n <= N /\ (n # N => n > 0)
  BY Ranks, ReadsAssumption
<1>3. page = SubSeq(s, 1, n)
  BY <1>1 DEF Limited
<1> HIDE DEF s, n, page, N
<1>4. \A i \in 1..n : i \in 1..N /\ s[i] \in R
  BY <1>1, <1>2
<1>5. page \in Seq(R) /\ Len(page) = n /\ \A i \in 1..n : page[i] = s[i]
  <2>1. /\ SubSeq(s, 1, n) \in Seq(R)
        /\ Len(SubSeq(s, 1, n)) = IF 1 <= n THEN n - 1 + 1 ELSE 0
        /\ \A i \in 1..(n - 1 + 1) : SubSeq(s, 1, n)[i] = s[1 + i - 1]
    BY <1>2, <1>4, SubSeqProperties
  <2>2. \A i \in 1..n : i \in 1..(n - 1 + 1) /\ 1 + i - 1 = i
    BY <1>2
  <2> QED  BY <1>2, <1>3, <2>1, <2>2
<1>6. Increasing(page)
  BY <1>1, <1>4, <1>5 DEF Increasing
<1>7. ASSUME NEW y \in R, NEW i \in 1..n, Before(y, page[i])
      PROVE  Tells(page, Place(y))
  <2>1. PICK j \in 1..N : s[j] = y
    BY <1>1
  <2>2. Before(y, s[i]) /\ s[i] \in R
    BY <1>4, <1>5, <1>7
  <2>3. ~(i < j) /\ i # j
    <3>1. ~Before(s[i], y) /\ y # s[i]
      BY <2>2, PlaceIs DEF Before
    <3> QED  BY <1>1, <1>4, <2>1, <3>1
  <2>4. j \in 1..n
    BY <1>2, <2>3
  <2> QED  BY <1>5, <2>1, <2>4 DEF Tells
<1>8. ASSUME n = N, NEW y \in R PROVE Tells(page, Place(y))
  BY <1>1, <1>4, <1>5, <1>8 DEF Tells
<1>9. n # N => page # <<>>
  BY <1>2, <1>5
<1> QED  BY <1>1, <1>5, <1>6, <1>7, <1>8, <1>9 DEF page, s, N

\* If they are what is due beyond a token, the page continues from there.
LEMMA PageContinues ==
  ASSUME NEW token \in Tokens, NEW D \in SUBSET Places, NEW R \in SUBSET Items, Ordered(R),
         \A x \in R : Place(x) \in D /\ After(x, token),
         \A d \in D, x \in R :
           After(d, token) /\ Before(d, x) => \E y \in R : Place(y) = d
  PROVE  Continues(Limited(InOrder(R)), token, D)
<1> DEFINE page == Limited(InOrder(R))
<1>1. /\ page \in Seq(R) /\ Increasing(page)
      /\ \A y \in R, i \in 1..Len(page) : Before(y, page[i]) => Tells(page, Place(y))
  BY PageIs
<1> HIDE DEF page
<1>2. \A i \in 1..Len(page) : page[i] \in R
  BY <1>1
<1>3. ASSUME NEW d \in D, NEW i \in 1..Len(page), After(d, token), Before(d, page[i])
      PROVE  Tells(page, d)
  <2>1. PICK y \in R : Place(y) = d
    BY <1>2, <1>3
  <2>2. Before(y, page[i])
    BY <1>3, <2>1, PlaceIs
  <2> QED  BY <1>1, <2>1, <2>2
<1>4. page \in Seq(Items)
  BY <1>1
<1> QED  BY <1>1, <1>2, <1>3, <1>4 DEF Continues, page
-----------------------------------------------------------------------------
(* What is due, and what the authority reads out of it. *)

\* The shape of the log.
Log == groups \in Seq(Seq(SUBSET Resources)) /\ generation \in Nat

\* The image of a finite set is finite.
LEMMA ImageFinite ==
  ASSUME NEW S, IsFiniteSet(S), NEW f, f = [x \in S |-> f[x]]
  PROVE  IsFiniteSet({f[x] : x \in S})
<1> DEFINE T == {f[x] : x \in S}
<1>1. f \in Surjection(S, T)
  BY DEF Surjection
<1> HIDE DEF T
<1>2. IsFiniteSet(T)
  BY <1>1, FS_Surjection
<1> QED  BY <1>2 DEF T

\* A group of the log is a sequence of facts.
LEMMA GroupIs ==
  ASSUME Log
  PROVE  Position \in Nat /\ \A n \in 1..Position : Len(groups[n]) \in Nat
BY DEF Log, Position

\* What is due is finite, after the anchor and up to the end of the log.
LEMMA DueIs ==
  ASSUME Log, NEW feed, NEW anchor \in Nat
  PROVE  /\ Due(feed, anchor) \in SUBSET Places /\ IsFiniteSet(Due(feed, anchor))
         /\ feed = "changes" =>
              \A d \in Places : d \in Due(feed, anchor) <=>
                d.position \in (anchor + 1)..Position /\ d.ordinal = 0
         /\ feed # "changes" =>
              \A d \in Places : d \in Due(feed, anchor) <=>
                /\ d.position \in 1..Position /\ d.ordinal \in 1..Len(groups[d.position])
                /\ Concerns(feed, groups[d.position][d.ordinal])
<1>0. \A n \in Nat \ {0}, o \in Nat : At(n, o) \in Places /\ At(n, o).position = n /\ At(n, o).ordinal = o
  BY DEF At, Places
<1>1. \A d \in Places : d = At(d.position, d.ordinal) /\ d.position \in Nat \ {0} /\ d.ordinal \in Nat
  BY DEF At, Places
<1>2. CASE feed = "changes"
  <2> DEFINE N == (anchor + 1)..Position
             f == [n \in N |-> At(n, 0)]
             D == {f[n] : n \in N}
  <2>1. Due(feed, anchor) = D
    BY <1>2 DEF Due
  <2>2. IsFiniteSet(D)
    <3>1. IsFiniteSet(N)
      BY GroupIs, FS_Interval
    <3> HIDE DEF N
    <3>2. f = [n \in N |-> f[n]]
      OBVIOUS
    <3> HIDE DEF f
    <3> QED  BY <3>1, <3>2, ImageFinite
  <2>3. D \in SUBSET Places /\ \A d \in Places : d \in D <=> d.position \in N /\ d.ordinal = 0
    BY <1>0, <1>1, GroupIs
  <2> QED  BY <1>2, <2>1, <2>2, <2>3
<1>3. CASE feed # "changes"
  <2> DEFINE O(n) == {m \in 1..Len(groups[n]) : Concerns(feed, groups[n][m])}
             g == [n \in 1..Position |-> {At(n, o) : o \in O(n)}]
             D == UNION {g[n] : n \in 1..Position}
  <2>1. Due(feed, anchor) = D
    BY <1>3 DEF Due
  <2>2. ASSUME NEW n \in 1..Position PROVE IsFiniteSet(g[n])
    <3> DEFINE f == [o \in O(n) |-> At(n, o)]
    <3>1. IsFiniteSet(O(n))
      <4>1. O(n) \in SUBSET (1..Len(groups[n]))
        OBVIOUS
      <4> DEFINE l == Len(groups[n])
      <4>l. l \in Int
        BY GroupIs
      <4> HIDE DEF l
      <4>2. IsFiniteSet(1..l)
        BY <4>l, FS_Interval
      <4> HIDE DEF O
      <4> QED  BY <4>1, <4>2, FS_Subset DEF l
    <3>2. g[n] = {f[o] : o \in O(n)} /\ f = [o \in O(n) |-> f[o]]
      OBVIOUS
    <3> HIDE DEF f, g, O
    <3> QED  BY <3>1, <3>2, ImageFinite
  <2>3. IsFiniteSet(D)
    <3>1. g = [n \in 1..Position |-> g[n]]
      OBVIOUS
    <3>2. IsFiniteSet(1..Position)
      BY GroupIs, FS_Interval
    <3> HIDE DEF g
    <3>3. IsFiniteSet({g[n] : n \in 1..Position})
      BY <3>1, <3>2, ImageFinite
    <3> QED  BY <2>2, <3>3, FS_UNION
  <2>4. \A n \in 1..Position : O(n) \subseteq Nat /\ n \in Nat \ {0}
    BY GroupIs
  <2>5. D \in SUBSET Places
    BY <1>0, <2>4
  <2>6. \A d \in Places : d \in D <=> d.position \in 1..Position /\ d.ordinal \in O(d.position)
    BY <1>0, <1>1, <2>4
  <2> QED  BY <1>3, <2>1, <2>3, <2>5, <2>6
<1> QED  BY <1>2, <1>3

\* The Events of a group beyond a token.
LEMMA BeyondIs ==
  ASSUME Log, NEW feed, NEW token, NEW n \in 1..Position
  PROVE  /\ Beyond(feed, n, token) \in SUBSET Items /\ IsFiniteSet(Beyond(feed, n, token))
         /\ generation # 0 => Beyond(feed, n, token) = {}
         /\ \A x \in Items : x \in Beyond(feed, n, token) <=>
              /\ generation = 0 /\ x.position = n /\ x.view = generation
              /\ x.ordinal \in 1..Len(groups[n]) /\ Concerns(feed, groups[n][x.ordinal])
              /\ n = token.at => x.ordinal > token.ordinal
<1> DEFINE O == Shown(feed, n, token)
           f == [o \in O |-> Item(n, o)]
<1>1. n \in Nat \ {0} /\ Len(groups[n]) \in Nat /\ generation \in Nat
  BY GroupIs DEF Log
<1>2. /\ O \in SUBSET (1..Len(groups[n]))
      /\ \A o : o \in O <=> /\ o \in 1..Len(groups[n]) /\ generation = 0
                            /\ Concerns(feed, groups[n][o])
                            /\ n = token.at => o > token.ordinal
  BY DEF Shown
<1>3. Beyond(feed, n, token) = {f[o] : o \in O} /\ f = [o \in O |-> f[o]]
  BY DEF Beyond
<1> HIDE DEF O
<1>4. IsFiniteSet(O)
  <2>1. IsFiniteSet(1..Len(groups[n]))
    BY <1>1, FS_Interval
  <2> QED  BY <1>2, <2>1, FS_Subset
<1>5. IsFiniteSet(Beyond(feed, n, token))
  <2> HIDE DEF f
  <2> QED  BY <1>3, <1>4, ImageFinite
<1>6. \A o \in Nat : /\ Item(n, o) \in Items /\ Item(n, o).position = n /\ Item(n, o).ordinal = o
                     /\ Item(n, o).view = generation
  BY <1>1 DEF Item, Items
<1>7. \A x \in Items : x.position = n /\ x.view = generation => x = Item(n, x.ordinal)
  BY DEF Items, Item
<1>8. \A x : x \in Beyond(feed, n, token) <=> \E o \in O : x = Item(n, o)
  BY <1>3
<1>9. \A o \in O : o \in Nat
  BY <1>1, <1>2
<1>10. \A x : x \in Beyond(feed, n, token) => x \in Items
  BY <1>6, <1>8, <1>9
<1>11. ASSUME NEW x \in Items
       PROVE  x \in Beyond(feed, n, token) <=>
                x.position = n /\ x.view = generation /\ x.ordinal \in O
  BY <1>6, <1>7, <1>8, <1>9
<1>12. generation # 0 => O = {}
  BY <1>2
<1> QED  BY <1>2, <1>5, <1>8, <1>10, <1>11, <1>12

InLog(feed, anchor, token) ==
  IF feed = "changes" THEN anchor <= token.at /\ token.at <= Position
  ELSE anchor = 0 /\ (token.at <= Position \/ (token.at = Position + 1 /\ token.ordinal = 0))

\* What was sent to one who follows a feed from an anchor, under one view.
Sent(feed, anchor, q, view) ==
  /\ anchor \in Nat /\ Gapless(q, Due(feed, anchor))
  /\ \A i \in 1..Len(q) : q[i].view = view
  /\ feed # "changes" => anchor = 0 /\ (view = 0 \/ q = <<>>)

\* ... and a token that stands for all of it.
Traced(feed, anchor, q, token, view) ==
  /\ Sent(feed, anchor, q, view) /\ Reaches(q, token, Due(feed, anchor))
  /\ token \in Tokens /\ InLog(feed, anchor, token)
  /\ feed # "changes" => view = 0

\* Nothing sent changes nothing.
LEMMA EmptyExtends ==
  ASSUME NEW S, NEW q \in Seq(S)
  PROVE  q \o <<>> = q /\ <<>> \o q = q
OBVIOUS

\* Two parts of one view are together of that view.
LEMMA ViewsJoin ==
  ASSUME NEW q \in Seq(Items), NEW r \in Seq(Items), NEW view,
         \A i \in 1..Len(q) : q[i].view = view, \A i \in 1..Len(r) : r[i].view = view
  PROVE  \A i \in 1..Len(q \o r) : (q \o r)[i].view = view
OBVIOUS

\* The last of two parts is the last of the second.
LEMMA LastJoined ==
  ASSUME NEW q \in Seq(Items), NEW r \in Seq(Items), r # <<>>
  PROVE  q \o r # <<>> /\ Last(q \o r) = Last(r)
BY DEF Last

\* Items and tokens of the log.
LEMMA ItemIs ==
  ASSUME Log, NEW n \in Nat \ {0}, NEW o \in Nat
  PROVE  /\ Item(n, o) \in Items /\ Item(n, o).position = n /\ Item(n, o).ordinal = o
         /\ Item(n, o).view = generation
         /\ Token(n, o) \in Tokens /\ Token(n, o).at = n /\ Token(n, o).ordinal = o
         /\ Token(n, o).view = generation /\ TokenOf(Item(n, o)) = Token(n, o)
BY DEF Log, Item, Items, Token, Tokens, TokenOf

\* The changefeed: the next group.
LEMMA ChangesFollow ==
  ASSUME Log, NEW anchor, NEW q, NEW token, token.at < Position,
         Traced("changes", anchor, q, token, generation)
  PROVE  LET item == Item(token.at + 1, 0) IN
         /\ Traced("changes", anchor, q \o <<item>>, Token(token.at + 1, 0), generation)
         /\ TokenOf(item) = Token(token.at + 1, 0)
<1> DEFINE item == Item(token.at + 1, 0)
           next == Token(token.at + 1, 0)
           D == Due("changes", anchor)
<1>1. /\ anchor \in Nat /\ token \in Tokens /\ anchor <= token.at /\ token.at \in Nat
      /\ token.ordinal \in Nat /\ Position \in Nat /\ Gapless(q, D) /\ Reaches(q, token, D)
      /\ q \in Seq(Items)
  BY GroupIs DEF Traced, Sent, InLog, Tokens, Gapless, Continues
<1>2. /\ item \in Items /\ item.position = token.at + 1 /\ item.ordinal = 0
      /\ item.view = generation
      /\ next \in Tokens /\ next.at = token.at + 1 /\ next.ordinal = 0
      /\ TokenOf(item) = next
  BY <1>1, ItemIs
<1>3. /\ D \in SUBSET Places
      /\ \A d \in Places : d \in D <=> d.position \in (anchor + 1)..Position /\ d.ordinal = 0
  BY <1>1, DueIs
<1> HIDE DEF item, next, D
<1>4. Place(item) \in D /\ After(item, token)
  <2>1. /\ Place(item) \in Places /\ Place(item).position = token.at + 1
        /\ Place(item).ordinal = 0
    BY <1>2, PlaceIs
  <2>2. token.at + 1 \in (anchor + 1)..Position
    BY <1>1
  <2> QED  BY <1>1, <1>2, <1>3, <2>1, <2>2 DEF After
<1>5. \A d \in D : d.position \in Nat /\ d.ordinal = 0 /\ d \in Places
  BY <1>3 DEF Places
<1>6. \A d \in D : ~(After(d, token) /\ Before(d, item))
  BY <1>1, <1>2, <1>5 DEF After, Before
<1>7. <<item>> \in Seq(Items) /\ Len(<<item>>) = 1 /\ <<item>>[1] = item
  BY <1>2
<1>8. Continues(<<item>>, token, D)
  BY <1>4, <1>6, <1>7 DEF Continues, Increasing
<1>9. /\ Gapless(q \o <<item>>, D)
      /\ \A d : Tells(q \o <<item>>, d) <=> Tells(q, d) \/ Tells(<<item>>, d)
  BY <1>1, <1>3, <1>8, Extends
<1>10. \A d \in D : Tells(<<item>>, d) <=> d.position = token.at + 1
  <2> TAKE d \in D
  <2>1. Tells(<<item>>, d) <=> Place(item) = d
    BY <1>7 DEF Tells
  <2>2. d = [position |-> d.position, ordinal |-> d.ordinal]
    BY <1>5 DEF Places
  <2> QED  BY <1>2, <1>5, <2>1, <2>2 DEF Place, At
<1>11. Reaches(q \o <<item>>, next, D)
  <2> DEFINE p == q \o <<item>>
  <2>1. ASSUME NEW d \in D PROVE ~After(d, next) <=> ~After(d, token) \/ d.position = token.at + 1
    BY <1>1, <1>2, <1>5 DEF After
  <2>2. \A d \in D : Tells(q, d) <=> ~After(d, token)
    BY <1>1 DEF Reaches
  <2>3. \A d \in D : Tells(p, d) <=> ~After(d, next)
    BY <1>9, <1>10, <2>1, <2>2
  <2> QED  BY <2>3 DEF Reaches
<1>12. \A i \in 1..Len(q \o <<item>>) : (q \o <<item>>)[i].view = generation
  <2>1. \A i \in 1..Len(<<item>>) : <<item>>[i].view = generation
    BY <1>2, <1>7
  <2> QED  BY <1>1, <1>7, <2>1, ViewsJoin DEF Traced, Sent
<1>13. InLog("changes", anchor, next)
  BY <1>1, <1>2 DEF InLog
<1> QED
  BY <1>1, <1>2, <1>9, <1>11, <1>12, <1>13 DEF Traced, Sent, item, next, D

\* Items of one view are ordered.
LEMMA OrderedItems ==
  ASSUME NEW R \in SUBSET Items, IsFiniteSet(R), NEW view, \A x \in R : x.view = view
  PROVE  Ordered(R)
<1>1. \A x, y \in R : x.position = y.position /\ x.ordinal = y.ordinal => x = y
  BY DEF Items
<1>2. \A x \in R : x.position \in Nat /\ x.ordinal \in Nat
  BY DEF Items
<1> QED  BY <1>1, <1>2 DEF Ordered, Before

\* What was sent is told up to its last item.
LEMMA SentTraced ==
  ASSUME Log, NEW feed, NEW anchor, NEW q, NEW view, Sent(feed, anchor, q, view), q # <<>>
  PROVE  /\ Traced(feed, anchor, q, TokenOf(Last(q)), view)
         /\ Last(q) \in Items /\ Last(q).view = view
<1> DEFINE D == Due(feed, anchor)
<1>1. /\ anchor \in Nat /\ Gapless(q, D) /\ q \in Seq(Items) /\ D \in SUBSET Places
      /\ Position \in Nat
  BY DueIs, GroupIs DEF Sent, Gapless, Continues
<1>2. Last(q) \in Items /\ Place(Last(q)) \in D /\ Reaches(q, TokenOf(Last(q)), D)
  BY <1>1, ReachesLast
<1>3. Last(q).view = view
  BY <1>1 DEF Sent, Last
<1>4. TokenOf(Last(q)) \in Tokens /\ TokenOf(Last(q)).at = Place(Last(q)).position
  BY <1>2, PlaceIs
<1>5. InLog(feed, anchor, TokenOf(Last(q)))
  <2>1. Place(Last(q)) \in Places
    BY <1>2, PlaceIs
  <2>2. CASE feed = "changes"
    <3>1. Place(Last(q)).position \in (anchor + 1)..Position
      BY <1>1, <1>2, <2>1, <2>2, DueIs
    <3> QED  BY <1>1, <1>4, <2>2, <3>1 DEF InLog
  <2>3. CASE feed # "changes"
    <3>1. Place(Last(q)).position \in 1..Position /\ anchor = 0
      BY <1>1, <1>2, <2>1, <2>3, DueIs DEF Sent
    <3> QED  BY <1>1, <1>4, <2>3, <3>1 DEF InLog
  <2> QED  BY <2>2, <2>3
<1>6. feed # "changes" => view = 0
  BY DEF Sent
<1> QED  BY <1>2, <1>3, <1>4, <1>5, <1>6 DEF Traced

\* The Events that groups have beyond a token, up to a last one.
Ahead(feed, token, last) == UNION {Beyond(feed, n, token) : n \in FirstGroup(token)..last}

\* Of the Events from a token on, up to some group, a page tells the first, and
\* those of a group that has shown them all are told up to the next.
LEMMA EventsFollow ==
  ASSUME Log, NEW feed, feed # "changes", NEW anchor, NEW q, NEW token,
         Traced(feed, anchor, q, token, generation),
         NEW last \in FirstGroup(token)..Position
  PROVE  LET R == Ahead(feed, token, last)
             page == Limited(InOrder(R)) IN
         /\ page \in Seq(R) /\ Len(InOrder(R)) = Cardinality(R)
         /\ Sent(feed, anchor, q \o page, generation)
         /\ Len(page) = Cardinality(R) =>
              Traced(feed, anchor, q \o page, Token(last + 1, 0), generation)
         /\ Len(page) # Cardinality(R) => page # <<>>
<1> DEFINE D == Due(feed, anchor)
           R == Ahead(feed, token, last)
           page == Limited(InOrder(R))
           first == FirstGroup(token)
<1>1. /\ anchor = 0 /\ token \in Tokens /\ token.at \in Nat /\ token.ordinal \in Nat
      /\ Position \in Nat /\ Gapless(q, D) /\ Reaches(q, token, D) /\ q \in Seq(Items)
      /\ generation = 0
  BY GroupIs DEF Traced, Sent, InLog, Tokens, Gapless, Continues
<1>2. /\ D \in SUBSET Places /\ IsFiniteSet(D)
      /\ \A d \in Places : d \in D <=>
           /\ d.position \in 1..Position /\ d.ordinal \in 1..Len(groups[d.position])
           /\ Concerns(feed, groups[d.position][d.ordinal])
  BY <1>1, DueIs
<1>3. /\ first \in Nat \ {0} /\ last \in 1..Position /\ first <= last
      /\ first = IF token.at = 0 THEN 1 ELSE token.at
      /\ \A n \in first..last : n \in 1..Position
  BY <1>1 DEF FirstGroup
<1>4. \A n \in first..last :
        /\ Beyond(feed, n, token) \in SUBSET Items /\ IsFiniteSet(Beyond(feed, n, token))
        /\ \A x \in Items : x \in Beyond(feed, n, token) <=>
             /\ x.position = n /\ x.view = generation
             /\ x.ordinal \in 1..Len(groups[n]) /\ Concerns(feed, groups[n][x.ordinal])
             /\ n = token.at => x.ordinal > token.ordinal
  BY <1>1, <1>3, BeyondIs
<1>r. R = UNION {Beyond(feed, n, token) : n \in first..last}
  BY DEF Ahead
<1> HIDE DEF first, D, R
<1>5. R \in SUBSET Items
  BY <1>4, <1>r
<1>6. \A x \in Items : x \in R <=>
        /\ x.position \in first..last /\ x.view = generation
        /\ x.ordinal \in 1..Len(groups[x.position])
        /\ Concerns(feed, groups[x.position][x.ordinal])
        /\ x.position = token.at => x.ordinal > token.ordinal
  <2>1. \A x : x \in R <=> \E n \in first..last : x \in Beyond(feed, n, token)
    BY <1>r
  <2> QED  BY <1>4, <2>1
<1>7. IsFiniteSet(R)
  <2> DEFINE f == [n \in first..last |-> Beyond(feed, n, token)]
  <2>1. f = [n \in first..last |-> f[n]]
    OBVIOUS
  <2>2. R = UNION {f[n] : n \in first..last} /\ \A n \in first..last : IsFiniteSet(f[n])
    BY <1>4, <1>r
  <2>3. first \in Int /\ last \in Int
    BY <1>3
  <2> HIDE DEF f
  <2>4. IsFiniteSet(first..last)
    BY <2>3, FS_Interval
  <2>5. IsFiniteSet({f[n] : n \in first..last})
    BY <2>1, <2>4, ImageFinite
  <2> QED  BY <2>2, <2>5, FS_UNION
<1>8. Ordered(R)
  BY <1>5, <1>6, <1>7, OrderedItems
\* Seen from its places, R is what is due beyond the token.
<1>9. ASSUME NEW d \in D, After(d, token), d.position <= last
      PROVE  \E y \in R : Place(y) = d
  <2> DEFINE y == [position |-> d.position, ordinal |-> d.ordinal, view |-> generation]
  <2>1. /\ d \in Places /\ d.position \in 1..Position /\ d.ordinal \in 1..Len(groups[d.position])
        /\ Concerns(feed, groups[d.position][d.ordinal])
        /\ d = [position |-> d.position, ordinal |-> d.ordinal]
    BY <1>2 DEF Places
  <2>2. y \in Items /\ Place(y) = d
    BY <1>1, <2>1 DEF Items, Places, Place, At
  <2>3. d.position \in first..last /\ (d.position = token.at => d.ordinal > token.ordinal)
    BY <1>1, <1>3, <1>9, <2>1 DEF After
  <2>4. y \in R
    BY <1>6, <2>1, <2>2, <2>3
  <2> QED  BY <2>2, <2>4
<1>10. ASSUME NEW x \in R PROVE Place(x) \in D /\ After(x, token) /\ x.position <= last
  <2>1. /\ x \in Items /\ Place(x) \in Places /\ Place(x).position = x.position
        /\ Place(x).ordinal = x.ordinal /\ x.position \in first..last
    BY <1>5, <1>6, PlaceIs
  <2>2. Place(x) \in D
    BY <1>2, <1>3, <1>6, <2>1
  <2>3. After(x, token)
    BY <1>1, <1>3, <1>6, <2>1, PlaceIs DEF After
  <2> QED  BY <1>3, <2>1, <2>2, <2>3
<1>11. ASSUME NEW d \in D, NEW x \in R, After(d, token), Before(d, x)
       PROVE  \E y \in R : Place(y) = d
  <2>1. d.position <= x.position /\ d.position \in Nat /\ x.position \in Nat
    BY <1>2, <1>5, <1>11, PlaceIs DEF Before, Places
  <2> QED  BY <1>3, <1>9, <1>10, <1>11, <2>1
<1>12. Continues(page, token, D)
  <2>1. \A x \in R : Place(x) \in D /\ After(x, token)
    BY <1>10
  <2>2. \A d \in D, x \in R : After(d, token) /\ Before(d, x) => \E y \in R : Place(y) = d
    BY <1>11
  <2> QED  BY <1>1, <1>2, <1>5, <1>8, <2>1, <2>2, PageContinues
<1>p. /\ page \in Seq(R) /\ Len(InOrder(R)) = Cardinality(R)
      /\ Len(page) = Cardinality(R) => \A y \in R : Tells(page, Place(y))
      /\ Len(page) # Cardinality(R) => page # <<>>
  BY <1>5, <1>8, PageIs
<1> HIDE DEF page
<1>13. /\ Gapless(q \o page, D)
       /\ \A d : Tells(q \o page, d) <=> Tells(q, d) \/ Tells(page, d)
  BY <1>1, <1>2, <1>12, Extends
<1>14. page \in Seq(Items) /\ \A i \in 1..Len(page) : page[i] \in R /\ page[i].view = generation
  <2>1. \A i \in 1..Len(page) : page[i] \in R
    BY <1>p
  <2>2. \A x \in R : x \in Items /\ x.view = generation
    BY <1>5, <1>6
  <2>3. page = [i \in 1..Len(page) |-> page[i]] /\ Len(page) \in Nat
    BY <1>p
  <2>4. page \in [1..Len(page) -> Items]
    BY <2>1, <2>2, <2>3
  <2>5. page \in Seq(Items)
    BY <2>3, <2>4, SeqDef
  <2> QED  BY <2>1, <2>2, <2>5
<1>15. Sent(feed, anchor, q \o page, generation)
  <2>1. \A i \in 1..Len(q \o page) : (q \o page)[i].view = generation
    BY <1>1, <1>14, ViewsJoin DEF Traced, Sent
  <2> QED  BY <1>1, <1>13, <2>1 DEF Sent, D
<1>16. ASSUME Len(page) = Cardinality(R)
       PROVE  Traced(feed, anchor, q \o page, Token(last + 1, 0), generation)
  <2> DEFINE next == Token(last + 1, 0)
             p == q \o page
  <2>1. /\ next \in Tokens /\ next.at = last + 1 /\ next.ordinal = 0
    BY <1>3, ItemIs
  <2>2. InLog(feed, anchor, next)
    BY <1>1, <1>3, <2>1 DEF InLog
  <2> HIDE DEF next, p
  <2>3. ASSUME NEW d \in D PROVE Tells(p, d) <=> ~After(d, next)
    <3>1. /\ d.position \in Nat /\ d.ordinal \in Nat \ {0} /\ d.position \in 1..Position
      <4>1. d.position \in 1..Position /\ d.ordinal \in 1..Len(groups[d.position]) /\ d \in Places
        BY <1>2
      <4>2. Len(groups[d.position]) \in Nat
        BY <4>1, GroupIs
      <4> QED  BY <1>1, <4>1, <4>2
    <3>2. ~After(d, next) <=> d.position <= last
      BY <1>3, <2>1, <3>1 DEF After
    <3>3. Tells(q, d) <=> ~After(d, token)
      BY <1>1 DEF Reaches
    <3>4. Tells(page, d) => d.position <= last
      <4>1. ASSUME NEW y \in R, Place(y) = d PROVE d.position <= last
        BY <1>5, <1>10, <4>1, PlaceIs
      <4> QED  BY <1>14, <4>1 DEF Tells
    <3>5. ~After(d, token) => d.position <= last
      BY <1>1, <1>3, <3>1 DEF After
    <3>6. After(d, token) /\ d.position <= last => Tells(page, d)
      <4> SUFFICES ASSUME After(d, token), d.position <= last PROVE Tells(page, d)
        OBVIOUS
      <4>1. PICK y \in R : Place(y) = d
        BY <1>9
      <4> QED  BY <1>p, <1>16, <4>1
    <3> QED  BY <1>13, <3>2, <3>3, <3>4, <3>5, <3>6 DEF p
  <2>4. Reaches(p, next, D)
    BY <2>3 DEF Reaches
  <2> QED  BY <1>1, <1>15, <2>1, <2>2, <2>4 DEF Traced, D, next, p
<1> QED  BY <1>p, <1>15, <1>16 DEF page, R

\* A page of nothing.
LEMMA EmptyPage == Limited(InOrder({})) = <<>> /\ Len(InOrder({})) = 0
<1>1. Cardinality({}) = 0
  BY FS_EmptySet
<1>2. Ordered({})
  BY FS_EmptySet DEF Ordered
<1>3. Len(InOrder({})) = 0
  BY <1>1, <1>2, InOrderIs
<1>4. Limited(InOrder({})) \in Seq({})
  BY <1>2, PageIs
<1> QED  BY <1>3, <1>4

\* Under the published policy, Events show nothing.
LEMMA NothingShown ==
  ASSUME Log, generation # 0, NEW feed, feed # "changes", NEW token, token.at \in Nat
  PROVE  Packet(feed, token).items = <<>> /\ Page(feed, token) = <<>>
<1> DEFINE first == FirstGroup(token)
<1>1. first \in Nat \ {0} /\ Position \in Nat
  BY GroupIs DEF FirstGroup
<1>2. \A n \in first..Position : Beyond(feed, n, token) = {}
  <2>1. \A n \in first..Position : n \in 1..Position
    BY <1>1
  <2> QED  BY <2>1, BeyondIs
<1>3. UNION {Beyond(feed, n, token) : n \in first..Position} = {}
  BY <1>2
<1>4. Page(feed, token) = <<>>
  BY <1>3, EmptyPage DEF Page, EventPage
<1>5. first <= Position => Limited(Remaining(feed, first, token)) = <<>>
  <2>1. first <= Position => first \in first..Position
    BY <1>1
  <2> QED  BY <1>2, <2>1, EmptyPage DEF Remaining
<1>6. EventPacket(feed, token).items = <<>>
  <2>1. CASE first > Position
    BY <2>1 DEF EventPacket
  <2>2. CASE ~(first > Position)
    <3>1. Limited(Remaining(feed, first, token)) = <<>>
      BY <1>1, <1>5, <2>2
    <3> QED  BY <2>2, <3>1 DEF EventPacket
  <2> QED  BY <2>1, <2>2
<1> QED  BY <1>4, <1>6 DEF Packet

\* A packet carries on, and its next token stands for all that was sent.
LEMMA PacketFollows ==
  ASSUME Log, NEW feed, NEW anchor, NEW q, NEW token,
         Traced(feed, anchor, q, token, generation)
  PROVE  LET packet == Packet(feed, token) IN
         /\ packet.items \in Seq(Items)
         /\ Traced(feed, anchor, q \o packet.items, packet.next, generation)
<1>1. token \in Tokens /\ token.at \in Nat /\ Position \in Nat /\ q \in Seq(Items)
  BY GroupIs DEF Traced, Sent, Tokens, Gapless, Continues
<1>e. q \o <<>> = q /\ <<>> \in Seq(Items)
  BY <1>1, EmptyExtends
<1>2. CASE feed = "changes" /\ token.at < Position
  <2>1. Packet(feed, token) = [items |-> <<Item(token.at + 1, 0)>>, next |-> Token(token.at + 1, 0)]
    <3>1. token.at + 1 # 0
      BY <1>1
    <3> QED  BY <1>2, <3>1 DEF Packet, ChangesAfter, Checkpoint
  <2>2. Item(token.at + 1, 0) \in Items
    BY <1>1, ItemIs
  <2>3. Traced(feed, anchor, q \o <<Item(token.at + 1, 0)>>, Token(token.at + 1, 0), generation)
    BY <1>2, ChangesFollow
  <2> DEFINE packet == Packet(feed, token)
             item == Item(token.at + 1, 0)
             next == Token(token.at + 1, 0)
  <2> HIDE DEF packet, item, next
  <2>4. packet.items = <<item>> /\ packet.next = next
    BY <2>1 DEF packet, item, next
  <2>5. <<item>> \in Seq(Items)
    BY <2>2 DEF item
  <2> QED  BY <2>3, <2>4, <2>5 DEF packet, item, next
<1>3. CASE feed = "changes" /\ ~(token.at < Position)
  <2>1. Packet(feed, token) = [items |-> <<>>, next |-> token]
    BY <1>3 DEF Packet, ChangesAfter
  <2> QED  BY <1>e, <2>1
<1>4. CASE feed # "changes"
  <2> DEFINE at == FirstGroup(token)
             items == Limited(Remaining(feed, at, token))
  <2>1. at \in Nat \ {0} /\ at = IF token.at = 0 THEN 1 ELSE token.at
    BY <1>1 DEF FirstGroup
  <2>2. CASE at > Position
    <3>1. Packet(feed, token) = [items |-> <<>>, next |-> Token(at, 0)]
      BY <1>4, <2>2 DEF Packet, EventPacket
    <3> DEFINE next == Token(at, 0)
    <3>2. next \in Tokens /\ next.at = at /\ next.ordinal = 0
      BY <2>1, ItemIs
    <3>3. /\ Due(feed, anchor) \in SUBSET Places
          /\ \A d \in Due(feed, anchor) : d.position \in 1..Position
      BY <1>4, DueIs DEF Traced, Sent
    <3>4. InLog(feed, anchor, token) /\ token.ordinal \in Nat
      BY <1>1 DEF Traced, Tokens
    <3>5. InLog(feed, anchor, next)
      BY <1>1, <1>4, <2>1, <2>2, <3>2, <3>4 DEF InLog
    <3>6. \A d \in Due(feed, anchor) : ~After(d, next) /\ ~After(d, token)
      BY <1>1, <2>1, <2>2, <3>2, <3>3 DEF After
    <3> HIDE DEF next
    <3>7. Traced(feed, anchor, q, next, generation)
      BY <3>2, <3>5, <3>6 DEF Traced, Reaches
    <3> QED  BY <1>e, <3>1, <3>7 DEF next
  <2>3. CASE ~(at > Position)
    <3> DEFINE R == Ahead(feed, token, at)
               page == Limited(InOrder(R))
    <3>1. at \in FirstGroup(token)..Position
      BY <1>1, <2>1, <2>3
    <3>2. R = Beyond(feed, at, token)
      <4>1. \A n : n \in at..at <=> n = at
        BY <2>1
      <4> QED  BY <4>1 DEF Ahead
    <3>3. /\ page \in Seq(R) /\ Len(InOrder(R)) = Cardinality(R)
          /\ Sent(feed, anchor, q \o page, generation)
          /\ Len(page) = Cardinality(R) =>
               Traced(feed, anchor, q \o page, Token(at + 1, 0), generation)
          /\ Len(page) # Cardinality(R) => page # <<>>
      BY <1>4, <3>1, EventsFollow
    <3>4. Packet(feed, token) =
            [items |-> page, next |-> IF Len(page) = Cardinality(R) THEN Token(at + 1, 0)
                                      ELSE Token(at, Last(page).ordinal)]
      <4> HIDE DEF R
      <4>1. Remaining(feed, at, token) = InOrder(R)
        BY <3>2 DEF Remaining
      <4> QED  BY <1>4, <2>3, <3>3, <4>1 DEF Packet, EventPacket
    <3> HIDE DEF page, R
    <3>5. \A x \in R : x \in Items /\ x.position = at /\ x.view = generation
      <4>1. at \in 1..Position
        BY <1>1, <2>1, <2>3
      <4> QED  BY <3>2, <4>1, BeyondIs
    <3>6. page \in Seq(Items)
      <4>1. R \in SUBSET Items
        BY <3>5
      <4> QED  BY <3>3, <4>1
    <3>7. ASSUME page # <<>>
          PROVE  Traced(feed, anchor, q \o page, Token(at, Last(page).ordinal), generation)
      <4>1. Last(page) \in R
        BY <3>3, <3>7 DEF Last
      <4>2. TokenOf(Last(page)) = Token(at, Last(page).ordinal)
        BY <3>5, <4>1 DEF TokenOf, Token
      <4>3. q \o page # <<>> /\ Last(q \o page) = Last(page)
        BY <1>1, <3>6, <3>7, LastJoined
      <4> QED  BY <3>3, <4>2, <4>3, SentTraced
    <3> QED  BY <3>3, <3>4, <3>6, <3>7
  <2> QED  BY <2>2, <2>3
<1> QED  BY <1>2, <1>3, <1>4

\* So does a page.
LEMMA PageFollows ==
  ASSUME Log, NEW feed, NEW anchor, NEW q, NEW token,
         Traced(feed, anchor, q, token, generation)
  PROVE  LET page == Page(feed, token) IN
         page \in Seq(Items) /\ Sent(feed, anchor, q \o page, generation)
<1>1. token \in Tokens /\ token.at \in Nat /\ Position \in Nat /\ q \in Seq(Items)
  BY GroupIs DEF Traced, Sent, Tokens, Gapless, Continues
<1>e. q \o <<>> = q /\ Sent(feed, anchor, q, generation)
  BY <1>1, EmptyExtends DEF Traced
<1>2. CASE feed = "changes"
  <2>1. CASE token.at < Position
    <3> DEFINE item == Item(token.at + 1, 0)
    <3>1. Page(feed, token) = <<item>>
      BY <1>2, <2>1 DEF Page, ChangesAfter
    <3>2. item \in Items /\ Traced(feed, anchor, q \o <<item>>, Token(token.at + 1, 0), generation)
      BY <1>1, <1>2, <2>1, ChangesFollow, ItemIs
    <3> HIDE DEF item
    <3>3. <<item>> \in Seq(Items)
      BY <3>2
    <3> QED  BY <3>1, <3>2, <3>3 DEF Traced
  <2>2. CASE ~(token.at < Position)
    BY <1>2, <1>e, <2>2 DEF Page, ChangesAfter
  <2> QED  BY <2>1, <2>2
<1>3. CASE feed # "changes"
  <2> DEFINE first == FirstGroup(token)
             R == Ahead(feed, token, Position)
             page == Limited(InOrder(R))
  <2>1. Page(feed, token) = page /\ first \in Nat \ {0}
    BY <1>1, <1>3 DEF Page, EventPage, FirstGroup, Ahead
  <2>2. CASE first <= Position
    <3>1. Position \in first..Position
      BY <1>1, <2>1, <2>2
    <3>2. page \in Seq(R) /\ Sent(feed, anchor, q \o page, generation)
      BY <1>3, <3>1, EventsFollow
    <3>3. R \in SUBSET Items
      <4>1. \A n \in first..Position : n \in 1..Position
        BY <1>1, <2>1
      <4>2. \A n \in first..Position : Beyond(feed, n, token) \in SUBSET Items
        BY <4>1, BeyondIs
      <4> QED  BY <4>2 DEF Ahead
    <3> HIDE DEF page, R
    <3> QED  BY <2>1, <3>2, <3>3
  <2>3. CASE ~(first <= Position)
    <3>1. first..Position = {}
      BY <1>1, <2>1, <2>3
    <3>2. R = {}
      BY <3>1 DEF Ahead
    <3>3. page = <<>>
      BY <3>2, EmptyPage
    <3> QED  BY <1>e, <2>1, <3>3
  <2> QED  BY <2>2, <2>3
<1> QED  BY <1>2, <1>3
-----------------------------------------------------------------------------
(* Streams and the authorization view. *)

IsSequence(s) == \E S : s \in Seq(S)
OfView(items, view) == \E S : items \in Seq(S) /\ \A e \in S : e.view = view

\* Of one connection: what was selected is of one view, and what a running
\* stream has yet to write is of the view in force.
HoldsView(x, view) ==
  /\ x.phase = "selected" => OfView(x.items, x.view)
  /\ x.phase = "live" => IsSequence(x.wire)
  /\ x.phase = "live" /\ ~x.aborted => x.view = view /\ OfView(x.items, view)

VInv ==
  /\ LInv /\ Log
  /\ \A c \in Clients : HoldsView(conns[c], generation)

\* The action of StreamsKeepTheirView.
Streamed ==
  \A c \in Clients :
    Live(c) /\ conns'[c].phase = "live" /\ Len(conns'[c].wire) > Len(conns[c].wire) =>
      Last(conns'[c].wire).view = generation' /\ conns[c].view = generation'

LEMMA OfViewIntroduced ==
  ASSUME NEW S, NEW items \in Seq(S), NEW view, \A e \in S : e.view = view
  PROVE  OfView(items, view)
BY Zenon DEF OfView

\* What the authority reads out in a packet it projects under its present view.
LEMMA RemainingOfView ==
  ASSUME Log, NEW feed, NEW token, NEW n \in 1..Position
  PROVE  OfView(Remaining(feed, n, token), generation)
<1> DEFINE R == Beyond(feed, n, token)
<1>1. /\ R \in SUBSET Items /\ IsFiniteSet(R)
      /\ \A x \in R : x.view = generation
  BY BeyondIs
<1> HIDE DEF R
<1>2. Ordered(R)
  BY <1>1, OrderedItems
<1>3. InOrder(R) \in Seq(R)
  BY <1>2, InOrderIs
<1> QED  BY <1>1, <1>3, OfViewIntroduced DEF Remaining, R

LEMMA LimitedOfView ==
  ASSUME NEW items, NEW view, OfView(items, view)
  PROVE  OfView(Limited(items), view)
<1>1. PICK S : items \in Seq(S) /\ \A e \in S : e.view = view
  BY DEF OfView
<1> DEFINE n == IF Len(items) < MaximumItems THEN Len(items) ELSE MaximumItems
<1>2. n \in Nat /\ n <= Len(items)
  BY <1>1, ReadsAssumption
<1>3. \A i \in 1..n : items[i] \in S
  BY <1>1, <1>2
<1>4. SubSeq(items, 1, n) \in Seq(S)
  <2> HIDE DEF n
  <2> QED  BY <1>2, <1>3, SubSeqProperties
<1> QED  BY <1>1, <1>4 DEF Limited, OfView

LEMMA EmptyOfView == ASSUME NEW view PROVE OfView(<<>>, view)
<1> DEFINE empty == <<>>
           S == {}
<1>1. \A e \in S : e.view = view
  OBVIOUS
<1>2. empty \in Seq(S)
  OBVIOUS
<1> HIDE DEF empty, S
<1>3. OfView(empty, view)
  BY <1>1, <1>2, OfViewIntroduced
<1> QED  BY <1>3 DEF empty

LEMMA OneOfView == ASSUME NEW item PROVE OfView(<<item>>, item.view)
<1>1. \A e \in {item} : e.view = item.view
  OBVIOUS
<1> DEFINE one == <<item>>
           S == {item}
<1>2. one \in Seq(S)
  OBVIOUS
<1> HIDE DEF one
<1>3. OfView(one, item.view)
  BY <1>1, <1>2, OfViewIntroduced
<1> QED  BY <1>3 DEF one

LEMMA PacketOfView ==
  ASSUME Log, NEW feed, NEW token, token.at \in Nat
  PROVE  OfView(Packet(feed, token).items, generation)
<1>1. OfView(ChangesAfter(token), generation)
  <2>1. Item(token.at + 1, 0).view = generation
    BY DEF Item
  <2>2. OfView(<<Item(token.at + 1, 0)>>, generation)
    BY <2>1, OneOfView
  <2> QED  BY <2>2, EmptyOfView DEF ChangesAfter
<1>2. OfView(EventPacket(feed, token).items, generation)
  <2> DEFINE at == FirstGroup(token)
  <2>1. at \in Nat \ {0} /\ Position \in Nat
    BY DEF FirstGroup, Position
  <2>2. CASE at > Position
    BY <2>2, EmptyOfView DEF EventPacket
  <2>3. CASE ~(at > Position)
    <3>1. at \in 1..Position
      BY <2>1, <2>3
    <3>2. OfView(Limited(Remaining(feed, at, token)), generation)
      BY <3>1, RemainingOfView, LimitedOfView
    <3> QED  BY <2>3, <3>2 DEF EventPacket
  <2> QED  BY <2>2, <2>3
<1> QED  BY <1>1, <1>2 DEF Packet

LEMMA HeadTailOfView ==
  ASSUME NEW items, NEW view, OfView(items, view), items # <<>>
  PROVE  Head(items).view = view /\ OfView(Tail(items), view)
<1>1. PICK S : items \in Seq(S) /\ \A e \in S : e.view = view
  BY DEF OfView
<1>2. Head(items) \in S /\ Tail(items) \in Seq(S)
  BY <1>1
<1> QED  BY <1>1, <1>2, OfViewIntroduced

LEMMA AppendSequence ==
  ASSUME NEW s, IsSequence(s), NEW e
  PROVE  /\ Len(s) \in Nat
         /\ IsSequence(Append(s, e)) /\ Last(Append(s, e)) = e
         /\ s # <<>> => IsSequence(Tail(s)) /\ Len(Tail(s)) <= Len(s)
<1>1. PICK S : s \in Seq(S)
  BY DEF IsSequence
<1> DEFINE T == S \cup {e}
<1>2. s \in Seq(T) /\ e \in T
  BY <1>1
<1> HIDE DEF T
<1>3. Append(s, e) \in Seq(T) /\ Len(s) \in Nat /\ Last(Append(s, e)) = e
  BY <1>2 DEF Last
<1>4. s # <<>> => Tail(s) \in Seq(T) /\ Len(Tail(s)) <= Len(s)
  BY <1>2
<1> QED  BY <1>3, <1>4, Zenon DEF IsSequence

LEMMA LengthOfSequence == ASSUME NEW s, IsSequence(s) PROVE Len(s) \in Nat
BY DEF IsSequence

\* A step that gives one client another connection, under the same policy.
LEMMA OneConnectionOfView ==
  ASSUME VInv, LInv', UNCHANGED log, NEW c \in Clients, NEW x,
         conns' = [conns EXCEPT ![c] = x], HoldsView(x, generation),
         Live(c) /\ x.phase = "live" /\ Len(x.wire) > Len(conns[c].wire) =>
           Last(x.wire).view = generation /\ conns[c].view = generation
  PROVE  VInv' /\ Streamed
<1>1. \A d \in Clients : conns'[d] = IF d = c THEN x ELSE conns[d]
  BY DEF VInv, LInv, Shaped
<1>2. groups' = groups /\ generation' = generation
  BY DEF log
<1>3. \A d \in Clients : HoldsView(conns'[d], generation)
  BY <1>1 DEF VInv
<1>4. VInv'
  BY <1>2, <1>3 DEF VInv, Log
<1>5. \A d \in Clients : Live(d) => Len(conns[d].wire) \in Nat
  BY LengthOfSequence DEF VInv, HoldsView, Live, Phase
<1>6. Streamed
  BY <1>1, <1>2, <1>5 DEF Streamed
<1> QED  BY <1>4, <1>6

\* An attempt answers with a page of the view in force, or with none.
LEMMA AttemptOfView ==
  ASSUME VInv, NEW c \in Clients, NEW r, NEW me, Attempt(c, r, me),
         r.phase \in {"new", "waiting"},
         r = [phase |-> r.phase, feed |-> r.feed, token |-> r.token, minimum |-> r.minimum,
              context |-> r.context, media |-> r.media]
  PROVE  \E x : conns' = [conns EXCEPT ![c] = x] /\ x.phase # "live"
                /\ HoldsView(x, generation)
<1>1. CASE conns' = [conns EXCEPT ![c] = [r EXCEPT !.phase = "waiting"]]
  <2> DEFINE x == [r EXCEPT !.phase = "waiting"]
  <2>1. x.phase = "waiting"
    OBVIOUS
  <2> HIDE DEF x
  <2>2. HoldsView(x, generation)
    BY <2>1 DEF HoldsView
  <2> QED  BY <1>1, <2>1, <2>2 DEF x
<1>2. CASE conns' = [conns EXCEPT ![c] = Idle]
  <2>1. Idle.phase = "idle"
    BY DEF Idle
  <2>2. HoldsView(Idle, generation)
    BY <2>1 DEF HoldsView
  <2> QED  BY <1>2, <2>1, <2>2
<1>3. CASE AttemptAnswer(r) = "page" /\ conns' = [conns EXCEPT ![c] = Selected(r)]
  <2>1. r.token.at \in Nat
    BY <1>3 DEF AttemptAnswer, Acceptable
  <2>2. OfView(Packet(r.feed, r.token).items, generation)
    BY <2>1, PacketOfView DEF VInv
  <2>3. /\ Selected(r).phase = "selected" /\ Selected(r).view = generation
        /\ Selected(r).items = Packet(r.feed, r.token).items
    BY DEF Selected
  <2>4. HoldsView(Selected(r), generation)
    BY <2>2, <2>3 DEF HoldsView
  <2> QED  BY <1>3, <2>3, <2>4
<1> QED  BY <1>1, <1>2, <1>3 DEF Attempt

\* Aborting streams writes nothing; if all that run are aborted, the policy
\* may change.
LEMMA AbortedOfView ==
  ASSUME VInv, LInv', groups' = groups, NEW C, conns' = Aborted(C),
         generation' = generation \/ \A c \in Clients : Running(c) => c \in C,
         generation' \in Nat
  PROVE  VInv' /\ Streamed
<1>1. \A c \in Clients : conns'[c] =
        IF c \in C /\ Live(c) THEN [conns[c] EXCEPT !.aborted = TRUE] ELSE conns[c]
  BY DEF Aborted
<1>2. ASSUME NEW c \in Clients
      PROVE  HoldsView(conns'[c], generation') /\ (Live(c) => conns'[c].wire = conns[c].wire)
  <2>1. CASE c \in C /\ Live(c)
    <3>1. conns'[c] = [conns[c] EXCEPT !.aborted = TRUE] /\ IsStream(conns[c])
      BY <1>1, <2>1 DEF VInv, LInv, Shaped
    <3>2. /\ conns'[c].phase = "live" /\ conns'[c].wire = conns[c].wire
          /\ conns'[c].aborted = TRUE
      BY <3>1 DEF IsStream, StreamFields
    <3>3. IsSequence(conns[c].wire)
      BY <2>1 DEF VInv, HoldsView, Live, Phase
    <3> QED  BY <3>2, <3>3 DEF HoldsView
  <2>2. CASE ~(c \in C /\ Live(c))
    <3>1. conns'[c] = conns[c] /\ HoldsView(conns[c], generation)
      BY <1>1, <2>2 DEF VInv
    <3>2. generation' = generation \/ ~Running(c)
      BY <2>2 DEF Running
    <3> QED  BY <3>1, <3>2 DEF HoldsView, Running, Live, Phase
  <2> QED  BY <2>1, <2>2
<1>3. VInv'
  BY <1>2 DEF VInv, Log
<1>4. \A c \in Clients : Live(c) => Len(conns[c].wire) \in Nat
  BY LengthOfSequence DEF VInv, HoldsView, Live, Phase
<1>5. Streamed
  BY <1>2, <1>4 DEF Streamed
<1> QED  BY <1>3, <1>5

LEMMA InitVInv == Init => VInv
<1> SUFFICES ASSUME Init PROVE VInv
  OBVIOUS
<1>1. Log
  BY DEF Init, Log
<1>2. \A c \in Clients : HoldsView(conns[c], generation)
  BY DEF Init, Idle, HoldsView
<1> QED  BY <1>1, <1>2, InitLInv DEF VInv

LEMMA StepVInv == VInv /\ [Next]_vars => VInv' /\ Streamed
<1> SUFFICES ASSUME VInv, [Next]_vars PROVE VInv' /\ Streamed
  OBVIOUS
<1>0. LInv' /\ LInv
  BY StepLInv DEF VInv
<1>i. Idle.phase = "idle" /\ HoldsView(Idle, generation)
  BY DEF Idle, HoldsView
<1>1. ASSUME NEW c \in Clients, Ask(c) PROVE VInv' /\ Streamed
  <2>1. PICK feed, token, minimum, media, me :
          Attempt(c, Request(feed, token, minimum, media), me)
    BY <1>1 DEF Ask
  <2> DEFINE r == Request(feed, token, minimum, media)
  <2>r. /\ r.phase = "new"
        /\ r = [phase |-> r.phase, feed |-> r.feed, token |-> r.token,
                minimum |-> r.minimum, context |-> r.context, media |-> r.media]
    BY DEF Request
  <2>2. PICK x : conns' = [conns EXCEPT ![c] = x] /\ x.phase # "live"
                 /\ HoldsView(x, generation)
    <3> HIDE DEF r
    <3> QED  BY <2>1, <2>r, AttemptOfView DEF r
  <2>3. UNCHANGED log
    BY <1>1 DEF Ask
  <2> QED  BY <1>0, <2>2, <2>3, OneConnectionOfView
<1>2. ASSUME NEW c \in Clients, Retry(c) PROVE VInv' /\ Streamed
  <2>1. PICK x : conns' = [conns EXCEPT ![c] = x] /\ x.phase # "live"
                 /\ HoldsView(x, generation)
    <3>1. IsWaiting(conns[c]) /\ conns[c].phase = "waiting"
      BY <1>2, <1>0 DEF Retry, LInv, Shaped, Phase
    <3> QED  BY <1>2, <3>1, AttemptOfView DEF Retry, IsWaiting
  <2>2. UNCHANGED log
    BY <1>2 DEF Retry
  <2> QED  BY <1>0, <2>1, <2>2, OneConnectionOfView
\* Connections that end.
<1>3. ASSUME NEW c \in Clients, UNCHANGED log, conns' = [conns EXCEPT ![c] = Idle]
      PROVE  VInv' /\ Streamed
  BY <1>0, <1>i, <1>3, OneConnectionOfView
<1>4. ASSUME NEW c \in Clients, StartStream(c) PROVE VInv' /\ Streamed
  <2>1. UNCHANGED log /\ Phase(c) = "selected"
    BY <1>4 DEF StartStream
  <2>2. CASE conns[c].view = generation /\ conns' = [conns EXCEPT ![c] = Opened(conns[c])]
    <3>1. /\ Opened(conns[c]).phase = "live" /\ Opened(conns[c]).wire = <<>>
          /\ Opened(conns[c]).view = conns[c].view /\ Opened(conns[c]).items = conns[c].items
      BY DEF Opened
    <3>2. IsSequence(<<>>)
      <4>1. <<>> \in Seq({})
        OBVIOUS
      <4> QED  BY <4>1 DEF IsSequence
    <3>3. OfView(conns[c].items, conns[c].view)
      BY <2>1 DEF VInv, HoldsView, Phase
    <3>4. HoldsView(Opened(conns[c]), generation)
      BY <2>2, <3>1, <3>2, <3>3 DEF HoldsView
    <3>5. ~Live(c)
      BY <2>1 DEF Live
    <3> QED  BY <1>0, <2>1, <2>2, <3>4, <3>5, OneConnectionOfView
  <2>3. CASE conns' = [conns EXCEPT ![c] = Idle]
    BY <1>3, <2>1, <2>3
  <2> QED  BY <1>4, <2>2, <2>3 DEF StartStream
<1>5. ASSUME NEW c \in Clients, Live(c),
             Write(c) \/ Receive(c) \/ Drain(c) \/ Pull(c) \/ Disconnect(c)
      PROVE  VInv' /\ Streamed
  <2>1. UNCHANGED log
    BY <1>5 DEF Write, Receive, Drain, Pull, Disconnect
  <2>2. IsStream(conns[c]) /\ conns[c].phase = "live"
    BY <1>5, <1>0 DEF LInv, Shaped, Live, Phase
  <2>3. /\ IsSequence(conns[c].wire) /\ Len(conns[c].wire) \in Nat
        /\ ~conns[c].aborted => conns[c].view = generation /\ OfView(conns[c].items, generation)
    BY <2>2, LengthOfSequence DEF VInv, HoldsView
  <2>4. CASE Write(c)
    <3> DEFINE x == [conns[c] EXCEPT !.wire = Append(@, Head(conns[c].items)),
                                     !.items = Tail(@),
                                     !.blocked = Len(conns[c].wire) + 1 >= HighWater]
    <3>1. /\ conns' = [conns EXCEPT ![c] = x] /\ ~conns[c].aborted /\ conns[c].items # <<>>
      BY <2>4 DEF Write, Running
    <3>2. /\ x.phase = "live" /\ x.wire = Append(conns[c].wire, Head(conns[c].items))
          /\ x.view = conns[c].view /\ x.items = Tail(conns[c].items)
      BY <2>2 DEF IsStream, StreamFields
    <3>3. Head(conns[c].items).view = generation /\ OfView(Tail(conns[c].items), generation)
      BY <2>3, <3>1, HeadTailOfView
    <3>4. IsSequence(x.wire) /\ Last(x.wire) = Head(conns[c].items)
      BY <2>3, <3>2, AppendSequence
    <3> HIDE DEF x
    <3>5. HoldsView(x, generation)
      BY <2>3, <3>1, <3>2, <3>3, <3>4 DEF HoldsView
    <3> QED  BY <1>0, <2>1, <2>3, <3>1, <3>3, <3>4, <3>5, OneConnectionOfView
  <2>5. CASE Receive(c)
    <3> DEFINE x == [conns[c] EXCEPT !.wire = Tail(@)]
    <3>1. conns' = [conns EXCEPT ![c] = x] /\ conns[c].wire # <<>>
      BY <2>5 DEF Receive
    <3>2. /\ x.phase = "live" /\ x.wire = Tail(conns[c].wire) /\ x.aborted = conns[c].aborted
          /\ x.view = conns[c].view /\ x.items = conns[c].items
      BY <2>2 DEF IsStream, StreamFields
    <3>3. IsSequence(x.wire) /\ Len(x.wire) <= Len(conns[c].wire)
      BY <2>3, <3>1, <3>2, AppendSequence
    <3> HIDE DEF x
    <3>4. Len(x.wire) \in Nat /\ HoldsView(x, generation)
      BY <2>3, <3>2, <3>3, LengthOfSequence DEF HoldsView
    <3>5. ~(Len(x.wire) > Len(conns[c].wire))
      BY <2>3, <3>3, <3>4
    <3> QED  BY <1>0, <2>1, <3>1, <3>4, <3>5, OneConnectionOfView
  <2>6. CASE Drain(c)
    <3> DEFINE x == [conns[c] EXCEPT !.blocked = FALSE]
    <3>1. conns' = [conns EXCEPT ![c] = x]
      BY <2>6 DEF Drain
    <3>2. /\ x.phase = "live" /\ x.wire = conns[c].wire /\ x.aborted = conns[c].aborted
          /\ x.view = conns[c].view /\ x.items = conns[c].items
      BY <2>2 DEF IsStream, StreamFields
    <3> HIDE DEF x
    <3>3. HoldsView(x, generation)
      BY <2>3, <3>2 DEF HoldsView
    <3>4. ~(Len(x.wire) > Len(conns[c].wire))
      BY <2>3, <3>2
    <3> QED  BY <1>0, <2>1, <3>1, <3>3, <3>4, OneConnectionOfView
  <2>7. CASE Pull(c)
    <3> DEFINE packet == Packet(conns[c].feed, conns[c].next)
    <3>1. CASE /\ Acceptable(conns[c].next)
               /\ conns' = [conns EXCEPT ![c].items = packet.items, ![c].next = packet.next]
      <4>1. conns[c].next.at \in Nat
        BY <3>1 DEF Acceptable
      <4>2. OfView(packet.items, generation)
        BY <4>1, PacketOfView DEF VInv
      <4> HIDE DEF packet
      <4> DEFINE x == [conns[c] EXCEPT !.items = packet.items, !.next = packet.next]
      <4>3. conns' = [conns EXCEPT ![c] = x]
        BY <3>1
      <4>4. /\ x.phase = "live" /\ x.wire = conns[c].wire /\ x.aborted = conns[c].aborted
            /\ x.view = conns[c].view /\ x.items = packet.items
        BY <2>2 DEF IsStream, StreamFields
      <4> HIDE DEF x
      <4>5. HoldsView(x, generation)
        BY <2>3, <4>2, <4>4 DEF HoldsView
      <4>6. ~(Len(x.wire) > Len(conns[c].wire))
        BY <2>3, <4>4
      <4> QED  BY <1>0, <2>1, <4>3, <4>5, <4>6, OneConnectionOfView
    <3>2. CASE conns' = [conns EXCEPT ![c].aborted = TRUE]
      <4> DEFINE x == [conns[c] EXCEPT !.aborted = TRUE]
      <4>1. conns' = [conns EXCEPT ![c] = x]
        BY <3>2
      <4>2. x.phase = "live" /\ x.wire = conns[c].wire /\ x.aborted = TRUE
        BY <2>2 DEF IsStream, StreamFields
      <4> HIDE DEF x
      <4>3. HoldsView(x, generation)
        BY <2>3, <4>2 DEF HoldsView
      <4>4. ~(Len(x.wire) > Len(conns[c].wire))
        BY <2>3, <4>2
      <4> QED  BY <1>0, <2>1, <4>1, <4>3, <4>4, OneConnectionOfView
    <3> QED  BY <2>7, <3>1, <3>2 DEF Pull
  <2>8. CASE Disconnect(c)
    <3> DEFINE x == [conns[c] EXCEPT !.aborted = TRUE, !.wire = <<>>]
    <3>1. conns' = [conns EXCEPT ![c] = x]
      BY <2>2, <2>8 DEF Disconnect, Phase
    <3>2. x.phase = "live" /\ x.wire = <<>> /\ x.aborted = TRUE
      BY <2>2 DEF IsStream, StreamFields
    <3>3. IsSequence(<<>>) /\ Len(<<>>) = 0
      <4>1. <<>> \in Seq({})
        OBVIOUS
      <4> QED  BY <4>1 DEF IsSequence
    <3> HIDE DEF x
    <3>4. HoldsView(x, generation)
      BY <3>2, <3>3 DEF HoldsView
    <3>5. ~(Len(x.wire) > Len(conns[c].wire))
      BY <2>3, <3>2, <3>3
    <3> QED  BY <1>0, <2>1, <3>1, <3>4, <3>5, OneConnectionOfView
  <2> QED  BY <1>5, <2>4, <2>5, <2>6, <2>7, <2>8
<1>6. CASE Publish \/ Fence
  <2>1. groups' = groups /\ conns' = Aborted(leases) /\ generation' \in Nat
    BY <1>6 DEF VInv, Log, Publish, Fence, log
  <2>2. \A c \in Clients : Running(c) => c \in leases
    BY <1>0 DEF LInv, LeasesMatchStreams
  <2> QED  BY <1>0, <2>1, <2>2, AbortedOfView
<1>7. CASE Close
  <2>1. groups' = groups /\ generation' = generation /\ conns' = Aborted(Clients)
    BY <1>7 DEF Close, log
  <2> QED  BY <1>0, <2>1, AbortedOfView DEF VInv, Log
<1>8. CASE Restart
  <2>1. /\ groups' = groups /\ generation' = generation
        /\ \A c \in Clients : conns'[c] = Idle
    BY <1>8 DEF Restart, log
  <2> QED  BY <1>0, <1>i, <2>1 DEF VInv, Log, Streamed
\* The other steps leave every connection as it is.
<1>9. CASE Commit \/ Closed \/ UNCHANGED vars
  <2>1. conns' = conns /\ generation' = generation
    BY <1>9 DEF Commit, Closed, log, vars
  <2>2. groups' \in Seq(Seq(SUBSET Resources))
    <3>1. CASE groups' = groups
      BY <3>1 DEF VInv, Log
    <3>2. CASE Commit
      <4>1. PICK b \in Bodies : groups' = Append(groups, b)
        BY <3>2 DEF Commit
      <4>2. b \in Seq(SUBSET Resources)
        BY FeedAssumption
      <4> QED  BY <4>1, <4>2 DEF VInv, Log
    <3> QED  BY <1>9, <3>1, <3>2 DEF Closed, log, vars
  <2>3. \A c \in Clients : Live(c) => Len(conns[c].wire) \in Nat
    BY LengthOfSequence DEF VInv, HoldsView, Live, Phase
  <2> QED  BY <1>0, <2>1, <2>2, <2>3 DEF VInv, Log, Streamed
<1>10. ASSUME NEW c \in Clients, GiveUp(c) \/ End(c) PROVE VInv' /\ Streamed
  BY <1>3, <1>10 DEF GiveUp, End
<1>11. ASSUME NEW c \in Clients, ~Live(c),
              Write(c) \/ Receive(c) \/ Drain(c) \/ Pull(c) \/ Disconnect(c)
       PROVE  VInv' /\ Streamed
  BY <1>3, <1>11 DEF Write, Receive, Drain, Pull, Disconnect, Running
<1> QED
  BY <1>1, <1>2, <1>4, <1>5, <1>6, <1>7, <1>8, <1>9, <1>10, <1>11 DEF Next

\* The pump and the policy: whatever a stream was waiting for, in its socket or
\* between two reads, no frame of a replaced view enters it.
THEOREM ViewsArePerStream == Spec => StreamsKeepTheirView
<1>1. VInv /\ [Next]_vars => [Streamed]_vars
  BY StepVInv
<1>2. VInv /\ [Next]_vars => VInv'
  BY StepVInv
<1> QED  BY <1>1, <1>2, InitVInv, PTL DEF Spec, StreamsKeepTheirView, Streamed
-----------------------------------------------------------------------------
(* Clients that follow the log. *)

Knows(client, token) ==
  Traced(client.feed, client.anchor, client.seen, token, token.view)

\* What a client resumes from stands for all that it took in.
ClientOK(client) ==
  /\ client = [feed |-> client.feed, cursor |-> client.cursor, anchor |-> client.anchor,
               seen |-> client.seen]
  /\ \/ client.cursor = None /\ client.seen = <<>>
     \/ Knows(client, client.cursor)

\* What a stream has for its client; Events show nothing under a published policy.
Flows(client, q, x) ==
  \/ Traced(client.feed, client.anchor, q, x.next, x.view)
  \/ q = <<>> /\ x.view # 0 /\ client.feed # "changes" /\ client.anchor = 0

\* What its connection asked for, holds ready or sent goes on from there; an
\* aborted stream goes on to nothing, but what it sent was due.
ConnOK(x, client) ==
  /\ x.phase = "waiting" => x.feed = client.feed /\ Knows(client, x.token)
  /\ x.phase = "selected" =>
       x.feed = client.feed /\ x.items \in Seq(Items) /\ Flows(client, client.seen \o x.items, x)
  /\ x.phase = "live" =>
       /\ x.feed = client.feed /\ x.wire \in Seq(Items) /\ x.items \in Seq(Items)
       /\ Sent(client.feed, client.anchor, client.seen \o x.wire, x.view)
       /\ ~x.aborted => Flows(client, (client.seen \o x.wire) \o x.items, x)

\* The inductive invariant.
Followed == \A c \in Clients : ClientOK(clients[c]) /\ ConnOK(conns[c], clients[c])

FInv ==
  /\ VInv
  /\ clients = [c \in Clients |-> clients[c]]
  /\ Followed

\* All of this is about the log alone.
LEMMA SameLog ==
  ASSUME groups' = groups, NEW feed, NEW anchor, NEW q, NEW token, NEW view
  PROVE  /\ Sent(feed, anchor, q, view)' <=> Sent(feed, anchor, q, view)
         /\ Traced(feed, anchor, q, token, view)' <=> Traced(feed, anchor, q, token, view)
BY DEF Sent, Traced, Due, InLog, Position

\* A step of one connection and its client.
LEMMA OneClientFollows ==
  ASSUME FInv, groups' = groups, NEW c \in Clients, NEW x, NEW client,
         conns' = [conns EXCEPT ![c] = x], clients' = [clients EXCEPT ![c] = client],
         ClientOK(client), ConnOK(x, client)
  PROVE  Followed' /\ clients' = [d \in Clients |-> clients'[d]]
<1>1. \A d \in Clients : /\ conns'[d] = IF d = c THEN x ELSE conns[d]
                         /\ clients'[d] = IF d = c THEN client ELSE clients[d]
  BY DEF FInv, VInv, LInv, Shaped
<1>2. \A d \in Clients : ClientOK(clients'[d]) /\ ConnOK(conns'[d], clients'[d])
  BY <1>1 DEF FInv, Followed
<1>3. Followed'
  BY <1>2, SameLog DEF Followed, ClientOK, ConnOK, Knows, Flows
<1> QED  BY <1>3 DEF FInv

\* What a trace is made of.
LEMMA TracedType ==
  ASSUME NEW feed, NEW anchor, NEW q, NEW token, NEW view, Traced(feed, anchor, q, token, view)
  PROVE  q \in Seq(Items) /\ token \in Tokens /\ Sent(feed, anchor, q, view)
BY DEF Traced, Sent, Gapless, Continues

\* A token that is acceptable stands for what was told under the policy in
\* force; only Events that show nothing may be asked for after a change.
LEMMA Admitted ==
  ASSUME Log, NEW feed, NEW anchor, NEW q, NEW token, Acceptable(token),
         Traced(feed, anchor, q, token, token.view)
  PROVE  /\ feed = "changes" \/ generation = 0 => Traced(feed, anchor, q, token, generation)
         /\ feed # "changes" /\ generation # 0 => q = <<>> /\ anchor = 0
<1> DEFINE D == Due(feed, anchor)
<1>1. /\ q \in Seq(Items) /\ token \in Tokens /\ anchor \in Nat /\ D \in SUBSET Places
      /\ Gapless(q, D) /\ Reaches(q, token, D)
  BY DueIs DEF Traced, Sent, Gapless, Continues
<1>2. ASSUME token.at = 0 PROVE q = <<>>
  <2>1. ASSUME Len(q) > 0 PROVE FALSE
    <3>1. 1 \in 1..Len(q) /\ q[1] \in Items
      BY <1>1, <2>1
    <3>2. Place(q[1]) \in D /\ Tells(q, Place(q[1]))
      BY <1>1, <3>1 DEF Gapless, Continues, Tells
    <3>3. ~After(Place(q[1]), token)
      BY <1>1, <3>2 DEF Reaches
    <3> QED  BY <1>2, <3>1, <3>3, PlaceIs DEF After
  <2> QED  BY <1>1, <2>1
<1>3. token.at # 0 => token.view = generation
  BY DEF Acceptable
<1>4. feed # "changes" => token.view = 0 /\ anchor = 0
  BY DEF Traced, Sent
<1>5. ASSUME feed = "changes" \/ generation = 0 PROVE Traced(feed, anchor, q, token, generation)
  <2>1. CASE token.at # 0
    BY <1>3, <2>1
  <2>2. CASE token.at = 0
    <3>1. q = <<>> /\ Len(q) = 0
      BY <1>2, <2>2
    <3> QED  BY <1>5, <3>1 DEF Traced, Sent
  <2> QED  BY <2>1, <2>2
<1> QED  BY <1>2, <1>3, <1>4, <1>5

\* One who begins.
LEMMA BeginningTraced ==
  ASSUME Log, NEW feed, NEW anchor \in {0, Position}, feed # "changes" => anchor = 0
  PROVE  Traced(feed, anchor, <<>>, Checkpoint(anchor), Checkpoint(anchor).view)
<1> DEFINE token == Checkpoint(anchor)
           D == Due(feed, anchor)
<1>1. anchor \in Nat /\ Position \in Nat /\ anchor <= Position
  BY GroupIs
<1>2. /\ token \in Tokens /\ token.at = anchor /\ token.ordinal = 0
      /\ anchor = 0 => token = Start /\ token.view = 0
  BY <1>1 DEF Checkpoint, Start, Tokens, Token, Log
<1>3. D \in SUBSET Places /\ (feed = "changes" => \A d \in D : d.position > anchor)
  BY <1>1, DueIs
<1> HIDE DEF token, D
<1>4. \A d \in D : After(d, token)
  <2>1. CASE feed = "changes"
    BY <1>2, <1>3, <2>1 DEF After
  <2>2. CASE feed # "changes"
    BY <1>2, <1>3, <2>2, PlacesOrder
  <2> QED  BY <2>1, <2>2
<1> DEFINE q == <<>>
<1>5. q \in Seq(Items) /\ Len(q) = 0
  OBVIOUS
<1> HIDE DEF q
<1>6. Gapless(q, D)
  BY <1>5 DEF Gapless, Continues, Increasing
<1>7. Reaches(q, token, D)
  BY <1>4, <1>5 DEF Reaches, Tells
<1>8. InLog(feed, anchor, token)
  BY <1>1, <1>2 DEF InLog
<1>9. Sent(feed, anchor, q, token.view)
  BY <1>1, <1>2, <1>5, <1>6 DEF Sent, D
<1>10. Traced(feed, anchor, q, token, token.view)
  BY <1>2, <1>7, <1>8, <1>9 DEF Traced, D
<1> QED  BY <1>10 DEF q, token

\* The shape of a request.
IsRequest(r) ==
  /\ r.phase \in {"new", "waiting"}
  /\ r = [phase |-> r.phase, feed |-> r.feed, token |-> r.token, minimum |-> r.minimum,
          context |-> r.context, media |-> r.media]

\* A client that has nothing, one that is refused, a connection that is idle.
LEMMA FreshOK == ClientOK(Fresh)
BY DEF ClientOK, Fresh

LEMMA RefusedOK ==
  ASSUME NEW client, ClientOK(client)
  PROVE  ClientOK(Refused(client))
BY FreshOK DEF Refused

LEMMA IdleOK == ASSUME NEW client PROVE ConnOK(Idle, client)
BY DEF ConnOK, Idle

\* A finite page brings its client to the last item.
LEMMA DeliveredOK ==
  ASSUME Log, NEW me, NEW r, ClientOK(me), Knows(me, r.token), me.feed = r.feed,
         Acceptable(r.token)
  PROVE  ClientOK(Delivered(me, r))
<1> DEFINE page == Page(r.feed, r.token)
           asked == [me EXCEPT !.cursor = IF r.feed = "changes" THEN r.token ELSE @]
<1>1. r.token \in Tokens /\ r.token.at \in Nat /\ me.seen \in Seq(Items)
  BY TracedType DEF Knows, Tokens
<1>2. /\ asked.feed = me.feed /\ asked.anchor = me.anchor /\ asked.seen = me.seen
      /\ asked = [feed |-> asked.feed, cursor |-> asked.cursor, anchor |-> asked.anchor,
                  seen |-> asked.seen]
      /\ asked.cursor = IF r.feed = "changes" THEN r.token ELSE me.cursor
  BY DEF ClientOK
<1> HIDE DEF asked
<1>3. ClientOK(asked)
  <2>1. CASE r.feed = "changes"
    BY <1>2, <2>1 DEF ClientOK, Knows
  <2>2. CASE r.feed # "changes"
    BY <1>2, <2>2 DEF ClientOK, Knows
  <2> QED  BY <2>1, <2>2
<1>4. CASE page = <<>>
  BY <1>3, <1>4 DEF Delivered, SeeingAll, asked
<1>5. CASE page # <<>>
  <2>1. r.feed = "changes" \/ generation = 0
    BY <1>1, <1>5, NothingShown
  <2>2. Traced(me.feed, me.anchor, me.seen, r.token, generation)
    BY <2>1, Admitted DEF Knows
  <2> DEFINE last == Last(page)
             all == me.seen \o page
  <2>3. page \in Seq(Items) /\ Sent(me.feed, me.anchor, all, generation)
    BY <2>2, PageFollows
  <2> HIDE DEF page
  <2>4. Traced(me.feed, me.anchor, all, TokenOf(last), generation) /\ last.view = generation
    <3>1. all # <<>> /\ Last(all) = last
      BY <1>1, <1>5, <2>3, LastJoined
    <3> HIDE DEF all
    <3> QED  BY <2>3, <3>1, SentTraced
  <2> HIDE DEF last, all
  <2>5. Delivered(me, r) = [asked EXCEPT !.cursor = TokenOf(last), !.seen = all]
    BY <1>2, <1>5 DEF Delivered, SeeingAll, asked, page, last, all
  <2> DEFINE new == Delivered(me, r)
  <2>6. /\ new = [feed |-> me.feed, cursor |-> TokenOf(last), anchor |-> me.anchor, seen |-> all]
    BY <1>2, <2>5
  <2>7. TokenOf(last).view = generation
    BY <2>4 DEF TokenOf
  <2> HIDE DEF new
  <2>8. ClientOK(new)
    BY <2>4, <2>6, <2>7 DEF ClientOK, Knows
  <2> QED  BY <2>8 DEF new
<1> QED  BY <1>4, <1>5

\* A response selected to be a stream.
LEMMA SelectedOK ==
  ASSUME Log, NEW me, NEW r, ClientOK(me), Knows(me, r.token), me.feed = r.feed,
         Acceptable(r.token)
  PROVE  ConnOK(Selected(r), me)
<1> DEFINE packet == Packet(r.feed, r.token)
           x == Selected(r)
<1>1. r.token \in Tokens /\ r.token.at \in Nat /\ me.seen \in Seq(Items)
  BY TracedType DEF Knows, Tokens
<1>2. /\ x.phase = "selected" /\ x.feed = r.feed /\ x.view = generation
      /\ x.items = packet.items /\ x.next = packet.next
  BY DEF Selected
<1> HIDE DEF x, packet
<1>3. CASE r.feed = "changes" \/ generation = 0
  <2>1. Traced(me.feed, me.anchor, me.seen, r.token, generation)
    BY <1>3, Admitted DEF Knows
  <2>2. /\ packet.items \in Seq(Items)
        /\ Traced(me.feed, me.anchor, me.seen \o packet.items, packet.next, generation)
    BY <2>1, PacketFollows DEF packet
  <2> QED  BY <1>2, <2>2 DEF ConnOK, Flows, x
<1>4. CASE r.feed # "changes" /\ generation # 0
  <2>1. me.seen = <<>> /\ me.anchor = 0
    BY <1>4, Admitted DEF Knows
  <2>2. packet.items = <<>>
    BY <1>1, <1>4, NothingShown DEF packet
  <2>3. me.seen \o packet.items = <<>> /\ packet.items \in Seq(Items)
    BY <2>1, <2>2
  <2> QED  BY <1>2, <1>4, <2>1, <2>3 DEF ConnOK, Flows, x
<1> QED  BY <1>3, <1>4

\* An attempt, whatever its answer and whether that is received.
LEMMA AttemptFollows ==
  ASSUME Log, NEW c \in Clients, NEW r, NEW me, Attempt(c, r, me), IsRequest(r),
         ClientOK(me), Knows(me, r.token), me.feed = r.feed
  PROVE  \E x, client : /\ conns' = [conns EXCEPT ![c] = x]
                        /\ clients' = [clients EXCEPT ![c] = client]
                        /\ ClientOK(client) /\ ConnOK(x, client)
<1>1. CASE /\ conns' = [conns EXCEPT ![c] = [r EXCEPT !.phase = "waiting"]]
           /\ clients' = [clients EXCEPT ![c] = me]
  <2> DEFINE x == [r EXCEPT !.phase = "waiting"]
  <2>1. x.phase = "waiting" /\ x.feed = r.feed /\ x.token = r.token
    BY DEF IsRequest
  <2> HIDE DEF x
  <2>2. ConnOK(x, me)
    BY <2>1 DEF ConnOK
  <2> QED  BY <1>1, <2>2 DEF x
<1>2. CASE /\ conns' = [conns EXCEPT ![c] = Idle]
           /\ clients' = [clients EXCEPT ![c] = Refused(me)]
  BY <1>2, RefusedOK, IdleOK
<1>3. CASE /\ AttemptAnswer(r) = "page" /\ conns' = [conns EXCEPT ![c] = Idle]
           /\ \E received \in BOOLEAN :
                clients' = [clients EXCEPT ![c] = IF received THEN Delivered(me, r) ELSE me]
  <2>1. Acceptable(r.token)
    BY <1>3 DEF AttemptAnswer
  <2>2. ClientOK(Delivered(me, r))
    BY <2>1, DeliveredOK
  <2>3. PICK client \in {Delivered(me, r), me} : clients' = [clients EXCEPT ![c] = client]
    BY <1>3
  <2>4. ClientOK(client) /\ ConnOK(Idle, client)
    BY <2>2, <2>3, IdleOK
  <2> QED  BY <1>3, <2>3, <2>4
<1>4. CASE /\ AttemptAnswer(r) = "page" /\ conns' = [conns EXCEPT ![c] = Selected(r)]
           /\ clients' = [clients EXCEPT ![c] = me]
  <2>1. Acceptable(r.token)
    BY <1>4 DEF AttemptAnswer
  <2> QED  BY <1>4, <2>1, SelectedOK
<1> QED  BY <1>1, <1>2, <1>3, <1>4 DEF Attempt

\* What was sent first was sent.
LEMMA SentPrefix ==
  ASSUME Log, NEW feed, NEW anchor, NEW p \in Seq(Items), NEW r \in Seq(Items), NEW view,
         Sent(feed, anchor, p \o r, view)
  PROVE  Sent(feed, anchor, p, view)
<1>1. anchor \in Nat /\ Due(feed, anchor) \in SUBSET Places
  BY DueIs DEF Sent
<1>2. Gapless(p, Due(feed, anchor))
  BY <1>1, PrefixContinues DEF Sent, Gapless
<1>3. \A i \in 1..Len(p) : i \in 1..Len(p \o r) /\ (p \o r)[i] = p[i]
  OBVIOUS
<1>4. p \o r = <<>> => p = <<>>
  OBVIOUS
<1> QED  BY <1>1, <1>2, <1>3, <1>4 DEF Sent

\* What a stream has for its client is sent in order.
LEMMA FlowsSent ==
  ASSUME NEW client, NEW q, NEW x, Flows(client, q, x)
  PROVE  Sent(client.feed, client.anchor, q, x.view)
<1>1. CASE Traced(client.feed, client.anchor, q, x.next, x.view)
  BY <1>1, TracedType
<1>2. CASE q = <<>> /\ client.feed # "changes" /\ client.anchor = 0
  <2>1. q \in Seq(Items) /\ Len(q) = 0
    BY <1>2
  <2> QED  BY <1>2, <2>1 DEF Sent, Gapless, Continues, Increasing
<1> QED  BY <1>1, <1>2 DEF Flows

\* Joining is associative.
Joined(s, t) == s \o t

LEMMA JoinedAssociates ==
  ASSUME NEW S, NEW s \in Seq(S), NEW t \in Seq(S), NEW u \in Seq(S)
  PROVE  Joined(Joined(s, t), u) = Joined(s, Joined(t, u))
<1> DEFINE n == Len(s) + Len(t) + Len(u)
<1>1. /\ s \o t \in Seq(S) /\ t \o u \in Seq(S)
      /\ Len(s \o t) = Len(s) + Len(t) /\ Len(t \o u) = Len(t) + Len(u)
      /\ (s \o t) \o u \in Seq(S) /\ s \o (t \o u) \in Seq(S)
  OBVIOUS
<1>2. Len((s \o t) \o u) = n /\ Len(s \o (t \o u)) = n
  BY <1>1
<1>3. ASSUME NEW i \in 1..n PROVE ((s \o t) \o u)[i] = (s \o (t \o u))[i]
  <2>1. CASE i <= Len(s)
    BY <1>1, <2>1
  <2>2. CASE i > Len(s) /\ i <= Len(s) + Len(t)
    BY <1>1, <2>2
  <2>3. CASE i > Len(s) + Len(t)
    BY <1>1, <2>3
  <2> QED  BY <2>1, <2>2, <2>3
<1>4. (s \o t) \o u = s \o (t \o u)
  BY <1>1, <1>2, <1>3, SeqEqual
<1> QED  BY <1>4 DEF Joined

\* Items move from what is to be written to the wire, and on to the client.
LEMMA Moves ==
  ASSUME NEW S, NEW s \in Seq(S), NEW t \in Seq(S), NEW u \in Seq(S), u # <<>>
  PROVE  /\ Append(t, Head(u)) \in Seq(S) /\ Tail(u) \in Seq(S) /\ Head(u) \in S
         /\ Append(t, Head(u)) \o Tail(u) = t \o u
         /\ (s \o Append(t, Head(u))) \o Tail(u) = (s \o t) \o u
<1> DEFINE a == Append(t, Head(u))
           r == Tail(u)
<1>1. Head(u) \in S /\ r \in Seq(S) /\ Len(r) = Len(u) - 1 /\ Len(u) > 0
      /\ (\A i \in 1..Len(r) : r[i] = u[i + 1]) /\ Head(u) = u[1]
  OBVIOUS
<1>2. /\ a \in Seq(S) /\ Len(a) = Len(t) + 1
      /\ (\A i \in 1..Len(t) : a[i] = t[i]) /\ a[Len(t) + 1] = Head(u)
  BY <1>1, AppendProperties
<1> HIDE DEF a, r
<1>3. a \o r = t \o u
  <2>1. /\ a \o r \in Seq(S) /\ t \o u \in Seq(S)
        /\ Len(a \o r) = Len(a) + Len(r) /\ Len(t \o u) = Len(t) + Len(u)
        /\ \A i \in 1..(Len(a) + Len(r)) : (a \o r)[i] = IF i <= Len(a) THEN a[i] ELSE r[i - Len(a)]
        /\ \A i \in 1..(Len(t) + Len(u)) : (t \o u)[i] = IF i <= Len(t) THEN t[i] ELSE u[i - Len(t)]
    BY <1>1, <1>2, ConcatProperties
  <2>2. Len(t) \in Nat /\ Len(u) \in Nat /\ Len(a) + Len(r) = Len(t) + Len(u)
    BY <1>1, <1>2
  <2>3. ASSUME NEW i \in 1..(Len(t) + Len(u)) PROVE (a \o r)[i] = (t \o u)[i]
    <3>1. CASE i <= Len(t)
      BY <1>2, <2>1, <2>2, <3>1
    <3>2. CASE i = Len(t) + 1
      BY <1>1, <1>2, <2>1, <2>2, <3>2
    <3>3. CASE i > Len(t) + 1
      <4>1. i - Len(a) \in 1..Len(r) /\ i - Len(a) + 1 = i - Len(t)
        BY <1>1, <1>2, <2>2, <3>3
      <4>2. ~(i <= Len(a)) /\ ~(i <= Len(t))
        BY <1>2, <2>2, <3>3
      <4> QED  BY <1>1, <2>1, <2>2, <4>1, <4>2
    <3>4. i <= Len(t) \/ i = Len(t) + 1 \/ i > Len(t) + 1
      <4> DEFINE n == Len(t)
      <4>1. n \in Nat /\ i \in Int
        BY <2>2
      <4> HIDE DEF n
      <4>2. i <= n \/ i = n + 1 \/ i > n + 1
        BY <4>1
      <4> QED  BY <4>2 DEF n
    <3> QED  BY <3>1, <3>2, <3>3, <3>4
  <2> QED  BY <2>1, <2>2, <2>3, SeqEqual
<1>4. a \in Seq(S) /\ r \in Seq(S) /\ Head(u) \in S
  BY <1>1, <1>2
<1>5. Joined(Joined(s, a), r) = Joined(s, Joined(a, r))
  BY <1>4, JoinedAssociates
<1>6. Joined(Joined(s, t), u) = Joined(s, Joined(t, u))
  BY JoinedAssociates
<1>7. Joined(a, r) = Joined(t, u)
  BY <1>3 DEF Joined
<1>8. Joined(Joined(s, a), r) = Joined(Joined(s, t), u)
  BY <1>5, <1>6, <1>7
<1>9. (s \o a) \o r = (s \o t) \o u
  BY <1>8 DEF Joined
<1> QED  BY <1>3, <1>4, <1>9 DEF a, r

\* What a client took in are items.
LEMMA SeenType ==
  ASSUME NEW client, ClientOK(client)
  PROVE  client.seen \in Seq(Items)
<1>1. CASE client.seen = <<>>
  BY <1>1
<1>2. CASE Knows(client, client.cursor)
  BY <1>2, TracedType DEF Knows
<1> QED  BY <1>1, <1>2 DEF ClientOK

\* The first state.
LEMMA InitFInv == Init => FInv
<1> SUFFICES ASSUME Init PROVE FInv
  OBVIOUS
<1>1. \A c \in Clients : ClientOK(clients[c]) /\ ConnOK(conns[c], clients[c])
  BY FreshOK, IdleOK DEF Init
<1>2. clients = [c \in Clients |-> clients[c]]
  BY DEF Init
<1> QED  BY <1>1, <1>2, InitVInv DEF FInv, Followed

\* A step of one connection that leaves its client's knowledge as it is.
LEMMA OneConnectionFollows ==
  ASSUME FInv, groups' = groups, clients' = clients, NEW c \in Clients, NEW x,
         conns' = [conns EXCEPT ![c] = x], ConnOK(x, clients[c])
  PROVE  Followed' /\ clients' = [d \in Clients |-> clients'[d]]
<1>1. ClientOK(clients[c])
  BY DEF FInv, Followed
<1>2. clients' = [clients EXCEPT ![c] = clients[c]]
  BY DEF FInv
<1> QED  BY <1>1, <1>2, OneClientFollows

\* Aborting a stream takes nothing back.
LEMMA AbortedFollows ==
  ASSUME FInv, groups' = groups, clients' = clients, NEW C, conns' = Aborted(C)
  PROVE  Followed' /\ clients' = [d \in Clients |-> clients'[d]]
<1>1. \A c \in Clients : conns'[c] =
        IF c \in C /\ Live(c) THEN [conns[c] EXCEPT !.aborted = TRUE] ELSE conns[c]
  BY DEF Aborted
<1>2. ASSUME NEW c \in Clients PROVE ClientOK(clients'[c]) /\ ConnOK(conns'[c], clients'[c])
  <2>1. ClientOK(clients[c]) /\ ConnOK(conns[c], clients[c])
    BY DEF FInv, Followed
  <2>2. CASE c \in C /\ Live(c)
    <3>1. conns'[c] = [conns[c] EXCEPT !.aborted = TRUE] /\ IsStream(conns[c])
      BY <1>1, <2>2 DEF FInv, VInv, LInv, Shaped
    <3>2. /\ conns'[c].phase = "live" /\ conns'[c].wire = conns[c].wire
          /\ conns'[c].aborted = TRUE /\ conns'[c].feed = conns[c].feed
          /\ conns'[c].items = conns[c].items /\ conns'[c].view = conns[c].view
          /\ conns[c].phase = "live"
      BY <3>1 DEF IsStream, StreamFields
    <3> QED  BY <2>1, <3>2 DEF ConnOK
  <2>3. CASE ~(c \in C /\ Live(c))
    BY <1>1, <2>1, <2>3
  <2> QED  BY <2>2, <2>3
<1>3. Followed'
  BY <1>2, SameLog DEF Followed, ClientOK, ConnOK, Knows, Flows
<1> QED  BY <1>3 DEF FInv

\* A group is appended.
LEMMA GrownLog ==
  ASSUME Log, NEW b, groups' = Append(groups, b),
         NEW feed, NEW anchor, NEW q, NEW token, NEW view
  PROVE  /\ Sent(feed, anchor, q, view) => Sent(feed, anchor, q, view)'
         /\ Traced(feed, anchor, q, token, view) => Traced(feed, anchor, q, token, view)'
<1> DEFINE D == Due(feed, anchor)
           E == D'
<1> SUFFICES ASSUME Sent(feed, anchor, q, view)
             PROVE  /\ Sent(feed, anchor, q, view)'
                    /\ Traced(feed, anchor, q, token, view) => Traced(feed, anchor, q, token, view)'
  BY TracedType
<1>1. /\ Position \in Nat /\ Position' = Position + 1 /\ anchor \in Nat
      /\ \A n \in 1..Position : groups'[n] = groups[n]
  BY DEF Log, Position, Sent
<1>2. \A n \in Nat \ {0}, o \in Nat :
        /\ At(n, o) \in Places /\ At(n, o).position = n /\ At(n, o).ordinal = o
  BY DEF At, Places
<1>3. D \in SUBSET Places /\ \A d \in D : d.position \in 1..Position
  BY <1>1, DueIs
<1>4. /\ E \in SUBSET Places /\ D \subseteq E
      /\ \A e \in E \ D : e.position = Position + 1
      /\ feed # "changes" => \A e \in E \ D : e.ordinal \in Nat \ {0}
  <2>1. CASE feed = "changes"
    <3>1. D = {At(n, 0) : n \in (anchor + 1)..Position}
      BY <2>1 DEF Due
    <3>2. E = {At(n, 0) : n \in (anchor + 1)..(Position + 1)}
      BY <1>1, <2>1 DEF Due
    <3> HIDE DEF D, E
    <3> QED  BY <1>1, <1>2, <2>1, <3>1, <3>2
  <2>2. CASE feed # "changes"
    <3> DEFINE O(g, n) == {m \in 1..Len(g[n]) : Concerns(feed, g[n][m])}
    <3>1. D = UNION {{At(n, o) : o \in O(groups, n)} : n \in 1..Position}
      BY <2>2 DEF Due
    <3>2. E = UNION {{At(n, o) : o \in O(groups', n)} : n \in 1..(Position + 1)}
      BY <1>1, <2>2 DEF Due, Concerns
    <3>3. \A n \in 1..Position : O(groups', n) = O(groups, n)
      BY <1>1
    <3>4. \A n : O(groups', n) \subseteq Nat \ {0}
      OBVIOUS
    <3> HIDE DEF D, E, O
    <3>5. \A e : e \in D <=> \E n \in 1..Position : \E o \in O(groups, n) : e = At(n, o)
      BY <3>1
    <3>6. \A e : e \in E <=> \E n \in 1..(Position + 1) : \E o \in O(groups', n) : e = At(n, o)
      BY <3>2
    <3>7. \A n \in 1..(Position + 1) : n \in Nat \ {0} /\ (n \in 1..Position \/ n = Position + 1)
      BY <1>1
    <3>8. \A n \in 1..Position : n \in 1..(Position + 1)
      BY <1>1
    <3>9. D \subseteq E
      BY <3>3, <3>5, <3>6, <3>8
    <3>10. ASSUME NEW e \in E
           PROVE  e \in Places /\ (e \in D \/ (e.position = Position + 1 /\ e.ordinal \in Nat \ {0}))
      BY <1>2, <3>3, <3>4, <3>5, <3>6, <3>7
    <3> QED  BY <3>9, <3>10
  <2> QED  BY <2>1, <2>2
<1> HIDE DEF D, E
<1>5. \A d \in D, e \in E \ D : Before(d, e)
  BY <1>1, <1>3, <1>4 DEF Before
<1>6. Gapless(q, E)
  BY <1>3, <1>4, <1>5, GrowthKeeps DEF Sent, D
<1>7. Sent(feed, anchor, q, view)'
  BY <1>6 DEF Sent, D, E
<1>8. ASSUME Traced(feed, anchor, q, token, view) PROVE Traced(feed, anchor, q, token, view)'
  <2>1. token \in Tokens /\ token.at \in Nat /\ token.ordinal \in Nat /\ InLog(feed, anchor, token)
    BY <1>8 DEF Traced, Tokens
  <2>2. \A e \in E \ D : After(e, token)
    BY <1>1, <1>4, <2>1 DEF After, InLog
  <2>3. Reaches(q, token, E)
    BY <1>3, <1>4, <1>5, <1>8, <2>1, <2>2, GrowthKeeps DEF Traced, Sent, D
  <2>4. InLog(feed, anchor, token)'
    BY <1>1, <2>1 DEF InLog
  <2> QED  BY <1>7, <1>8, <2>3, <2>4 DEF Traced, E, D
<1> QED  BY <1>7, <1>8

\* The steps of a live stream.
LEMMA StreamFollows ==
  ASSUME FInv, NEW c \in Clients, Live(c),
         Write(c) \/ Receive(c) \/ Drain(c) \/ Pull(c) \/ Disconnect(c)
  PROVE  Followed' /\ clients' = [d \in Clients |-> clients'[d]]
<1> DEFINE s == conns[c]
           me == clients[c]
<1>0. /\ Log /\ IsStream(s) /\ s.phase = "live" /\ groups' = groups
      /\ ClientOK(me) /\ ConnOK(s, me)
  BY DEF FInv, VInv, LInv, Shaped, Live, Phase, Log, Followed, log,
         Write, Receive, Drain, Pull, Disconnect
<1>1. /\ s.feed = me.feed /\ s.wire \in Seq(Items) /\ s.items \in Seq(Items)
      /\ Sent(me.feed, me.anchor, me.seen \o s.wire, s.view)
      /\ ~s.aborted => Flows(me, (me.seen \o s.wire) \o s.items, s)
      /\ me.seen \in Seq(Items) /\ me.seen \o s.wire \in Seq(Items)
  BY <1>0, SeenType, ConcatProperties DEF ConnOK
<1> HIDE DEF s, me
<1>2. CASE Write(c)
  <2> DEFINE x == [s EXCEPT !.wire = Append(@, Head(s.items)), !.items = Tail(@),
                            !.blocked = Len(s.wire) + 1 >= HighWater]
  <2>1. /\ conns' = [conns EXCEPT ![c] = x] /\ clients' = clients
        /\ ~s.aborted /\ s.items # <<>>
    BY <1>2 DEF Write, Running, s
  <2>2. /\ x.phase = "live" /\ x.wire = Append(s.wire, Head(s.items)) /\ x.items = Tail(s.items)
        /\ x.aborted = s.aborted /\ x.feed = s.feed /\ x.view = s.view /\ x.next = s.next
    BY <1>0 DEF IsStream, StreamFields
  <2> HIDE DEF x
  <2>3. /\ x.wire \in Seq(Items) /\ x.items \in Seq(Items)
        /\ (me.seen \o x.wire) \o x.items = (me.seen \o s.wire) \o s.items
        /\ me.seen \o x.wire \in Seq(Items)
    <3> DEFINE p == me.seen
               t == s.wire
               u == s.items
    <3>1. p \in Seq(Items) /\ t \in Seq(Items) /\ u \in Seq(Items) /\ u # <<>>
      BY <1>1, <2>1
    <3> HIDE DEF p, t, u
    <3> DEFINE a == Append(t, Head(u))
               r == Tail(u)
    <3>a. (a \in Seq(Items) /\ r \in Seq(Items)) /\ a \o r = t \o u
      BY <3>1, Moves, SMT
    <3>d. a \in Seq(Items) /\ r \in Seq(Items)
      BY <3>a
    <3>e. p \in Seq(Items)
      BY <3>1
    <3>2. x.wire = a /\ x.items = r
      BY <2>2 DEF p, t, u
    <3> HIDE DEF a, r
    <3>b. Joined(Joined(p, a), r) = Joined(p, Joined(a, r))
      BY <3>d, <3>e, JoinedAssociates
    <3>c. Joined(Joined(p, t), u) = Joined(p, Joined(t, u))
      BY <3>1, JoinedAssociates
    <3>f. Joined(a, r) = Joined(t, u)
      BY <3>a DEF Joined
    <3>g. Joined(Joined(p, a), r) = Joined(Joined(p, t), u)
      BY <3>b, <3>c, <3>f
    <3>3. a \in Seq(Items) /\ r \in Seq(Items) /\ (p \o a) \o r = (p \o t) \o u
      BY <3>a, <3>g DEF Joined
    <3>4. p \o x.wire \in Seq(Items)
      BY <3>1, <3>2, <3>3, ConcatProperties
    <3> QED  BY <3>2, <3>3, <3>4 DEF p, t, u
  <2>4. Flows(me, (me.seen \o x.wire) \o x.items, x)
    BY <1>1, <2>1, <2>2, <2>3 DEF Flows
  <2>5. Sent(me.feed, me.anchor, me.seen \o x.wire, x.view)
    BY <1>0, <2>3, <2>4, FlowsSent, SentPrefix
  <2>6. ConnOK(x, me)
    BY <1>1, <2>2, <2>3, <2>4, <2>5 DEF ConnOK
  <2> QED  BY <1>0, <2>1, <2>6, OneConnectionFollows DEF me
<1>3. CASE Receive(c)
  <2> DEFINE x == [s EXCEPT !.wire = Tail(@)]
             item == Head(s.wire)
             new == Seeing(me, item)
  <2>1. /\ conns' = [conns EXCEPT ![c] = x] /\ s.wire # <<>>
        /\ clients' = [clients EXCEPT ![c] = new]
    BY <1>3 DEF Receive, s, me
  <2>2. /\ x.phase = "live" /\ x.wire = Tail(s.wire) /\ x.items = s.items
        /\ x.aborted = s.aborted /\ x.feed = s.feed /\ x.view = s.view /\ x.next = s.next
    BY <1>0 DEF IsStream, StreamFields
  <2>a. me = [feed |-> me.feed, cursor |-> me.cursor, anchor |-> me.anchor, seen |-> me.seen]
    BY <1>0 DEF ClientOK
  <2> HIDE DEF x, item
  <2>3. new = [feed |-> me.feed, cursor |-> TokenOf(item), anchor |-> me.anchor,
               seen |-> Append(me.seen, item)]
    <3> DEFINE k == TokenOf(item)
               z == Append(me.seen, item)
               y == [me EXCEPT !.cursor = k]
    <3>1. y = [feed |-> me.feed, cursor |-> k, anchor |-> me.anchor, seen |-> me.seen]
      BY <2>a
    <3>2. new = [y EXCEPT !.seen = Append(@, item)]
      BY DEF Seeing
    <3> HIDE DEF k, y, new
    <3>3. y.seen = me.seen
      BY <3>1
    <3>4. new = [y EXCEPT !.seen = z]
      BY <3>2, <3>3
    <3> HIDE DEF z
    <3>5. new = [feed |-> me.feed, cursor |-> k, anchor |-> me.anchor, seen |-> z]
      BY <3>1, <3>4
    <3> QED  BY <3>5 DEF k, z
  <2> HIDE DEF new
  <2>4. /\ item \in Items /\ x.wire \in Seq(Items) /\ Append(me.seen, item) \in Seq(Items)
        /\ Append(me.seen, item) \o x.wire = me.seen \o s.wire
    <3> DEFINE p == me.seen
               u == s.wire
    <3>1. p \in Seq(Items) /\ u \in Seq(Items) /\ u # <<>> /\ item = Head(u) /\ x.wire = Tail(u)
      BY <1>1, <2>1, <2>2 DEF item
    <3> HIDE DEF p, u
    <3>2. /\ Append(p, Head(u)) \in Seq(Items) /\ Tail(u) \in Seq(Items) /\ Head(u) \in Items
          /\ Append(p, Head(u)) \o Tail(u) = p \o u
      BY <3>1, Moves, SMT
    <3> QED  BY <3>1, <3>2 DEF p, u
  <2>5. Append(me.seen, item) # <<>> /\ Last(Append(me.seen, item)) = item
    BY <1>1, <2>4, AppendProperties DEF Last
  <2>6. Sent(me.feed, me.anchor, Append(me.seen, item), s.view)
    BY <1>0, <1>1, <2>4, SentPrefix
  <2>b. Traced(me.feed, me.anchor, Append(me.seen, item), TokenOf(item), s.view)
    BY <1>0, <2>5, <2>6, SentTraced
  <2>c. TokenOf(item).view = s.view
    <3> DEFINE q == Append(me.seen, item)
    <3>1. q \in Seq(Items) /\ q # <<>> /\ q[Len(q)] = item
      BY <2>4, <2>5 DEF Last
    <3>2. Len(q) \in 1..Len(q)
      BY <3>1
    <3> HIDE DEF q
    <3>3. item.view = s.view
      BY <2>6, <3>1, <3>2 DEF Sent, q
    <3> QED  BY <3>3 DEF TokenOf
  <2>7. /\ Traced(me.feed, me.anchor, Append(me.seen, item), TokenOf(item), s.view)
        /\ TokenOf(item).view = s.view
    BY <2>b, <2>c
  <2>8. ClientOK(new)
    BY <2>3, <2>7 DEF ClientOK, Knows
  <2>9. ConnOK(x, new)
    BY <1>1, <2>2, <2>3, <2>4 DEF ConnOK, Flows
  <2> QED  BY <1>0, <2>1, <2>8, <2>9, OneClientFollows
<1>4. CASE Drain(c)
  <2> DEFINE x == [s EXCEPT !.blocked = FALSE]
  <2>1. conns' = [conns EXCEPT ![c] = x] /\ clients' = clients
    BY <1>4 DEF Drain, s
  <2>2. /\ x.phase = "live" /\ x.wire = s.wire /\ x.items = s.items
        /\ x.aborted = s.aborted /\ x.feed = s.feed /\ x.view = s.view /\ x.next = s.next
    BY <1>0 DEF IsStream, StreamFields
  <2> HIDE DEF x
  <2>3. ConnOK(x, me)
    BY <1>1, <2>2 DEF ConnOK, Flows
  <2> QED  BY <1>0, <2>1, <2>3, OneConnectionFollows DEF me
<1>5. CASE Pull(c)
  <2> DEFINE packet == Packet(s.feed, s.next)
  <2>1. CASE /\ Acceptable(s.next) /\ clients' = clients /\ s.items = <<>> /\ ~s.aborted
             /\ conns' = [conns EXCEPT ![c].items = packet.items, ![c].next = packet.next]
    <3> DEFINE x == [s EXCEPT !.items = packet.items, !.next = packet.next]
    <3>1. conns' = [conns EXCEPT ![c] = x]
      BY <2>1 DEF s
    <3> HIDE DEF packet
    <3>2. /\ x.phase = "live" /\ x.wire = s.wire /\ x.items = packet.items
          /\ x.aborted = s.aborted /\ x.feed = s.feed /\ x.view = s.view
          /\ x.next = packet.next
      BY <1>0 DEF IsStream, StreamFields
    <3> HIDE DEF x
    <3>3. s.view = generation
      BY <1>0, <2>1 DEF FInv, VInv, HoldsView, s
    <3> DEFINE q == me.seen \o s.wire
    <3>4. q \in Seq(Items) /\ Flows(me, q, s)
      <4>1. q \o <<>> = q
        BY <1>1, EmptyExtends
      <4> QED  BY <1>1, <2>1, <4>1
    <3>5. Sent(me.feed, me.anchor, q, s.view)
      BY <1>1
    <3> HIDE DEF q
    <3>6. packet.items \in Seq(Items) /\ Flows(me, q \o packet.items, x)
      <4>1. CASE Traced(me.feed, me.anchor, q, s.next, s.view)
        <5>1. /\ packet.items \in Seq(Items)
              /\ Traced(me.feed, me.anchor, q \o packet.items, packet.next, generation)
          BY <1>0, <1>1, <3>3, <4>1, PacketFollows DEF packet
        <5> QED  BY <3>2, <3>3, <5>1 DEF Flows
      <4>2. CASE q = <<>> /\ s.view # 0 /\ me.feed # "changes" /\ me.anchor = 0
        <5>1. packet.items = <<>>
          BY <1>0, <1>1, <2>1, <3>3, <4>2, NothingShown DEF packet, Acceptable
        <5> QED  BY <3>2, <4>2, <5>1 DEF Flows
      <4> QED  BY <3>4, <4>1, <4>2 DEF Flows
    <3>7. ConnOK(x, me)
      BY <1>1, <3>2, <3>5, <3>6 DEF ConnOK, q
    <3> QED  BY <1>0, <2>1, <3>1, <3>7, OneConnectionFollows DEF me
  <2>2. CASE clients' = clients /\ conns' = [conns EXCEPT ![c].aborted = TRUE]
    <3> DEFINE x == [s EXCEPT !.aborted = TRUE]
    <3>1. conns' = [conns EXCEPT ![c] = x]
      BY <2>2 DEF s
    <3>2. /\ x.phase = "live" /\ x.wire = s.wire /\ x.items = s.items
          /\ x.aborted = TRUE /\ x.feed = s.feed /\ x.view = s.view
      BY <1>0 DEF IsStream, StreamFields
    <3> HIDE DEF x
    <3>3. ConnOK(x, me)
      BY <1>1, <3>2 DEF ConnOK
    <3> QED  BY <1>0, <2>2, <3>1, <3>3, OneConnectionFollows DEF me
  <2> QED  BY <1>5, <2>1, <2>2 DEF Pull, Running, s
<1>6. CASE Disconnect(c)
  <2> DEFINE x == [s EXCEPT !.aborted = TRUE, !.wire = <<>>]
  <2>1. conns' = [conns EXCEPT ![c] = x] /\ clients' = clients
    BY <1>0, <1>6 DEF Disconnect, Phase, s
  <2>2. /\ x.phase = "live" /\ x.wire = <<>> /\ x.items = s.items
        /\ x.aborted = TRUE /\ x.feed = s.feed /\ x.view = s.view
    BY <1>0 DEF IsStream, StreamFields
  <2> HIDE DEF x
  <2>3. Sent(me.feed, me.anchor, me.seen, s.view) /\ me.seen \o <<>> = me.seen
    BY <1>0, <1>1, SentPrefix, EmptyExtends
  <2>4. <<>> \in Seq(Items)
    OBVIOUS
  <2>5. ConnOK(x, me)
    BY <1>1, <2>2, <2>3, <2>4 DEF ConnOK
  <2> QED  BY <1>0, <2>1, <2>5, OneConnectionFollows DEF me
<1> QED  BY <1>2, <1>3, <1>4, <1>5, <1>6

\* A selected response that becomes a stream.
LEMMA OpenedOK ==
  ASSUME Log, NEW x, NEW client, x.phase = "selected", ClientOK(client), ConnOK(x, client)
  PROVE  ConnOK(Opened(x), client)
<1> DEFINE y == Opened(x)
<1>1. /\ y.phase = "live" /\ y.feed = x.feed /\ y.view = x.view /\ y.items = x.items
      /\ y.next = x.next /\ y.wire = <<>>
  BY DEF Opened
<1> HIDE DEF y
<1>2. /\ x.feed = client.feed /\ x.items \in Seq(Items) /\ client.seen \in Seq(Items)
      /\ Flows(client, client.seen \o x.items, x)
  BY SeenType DEF ConnOK
<1>3. client.seen \o <<>> = client.seen /\ <<>> \in Seq(Items)
  BY <1>2, EmptyExtends
<1>4. Sent(client.feed, client.anchor, client.seen, x.view)
  BY <1>2, FlowsSent, SentPrefix
<1>5. Flows(client, (client.seen \o y.wire) \o y.items, y)
  BY <1>1, <1>2, <1>3 DEF Flows
<1> QED  BY <1>1, <1>2, <1>3, <1>4, <1>5 DEF ConnOK, y

\* Asking writes nothing to the log.
LEMMA AskKeepsLog ==
  ASSUME NEW c, Ask(c)
  PROVE  groups' = groups
<1>1. \E x : UNCHANGED <<log, mode, leases>> /\ x = c
  BY Zenon DEF Ask
<1> QED  BY <1>1 DEF log

\* A client that begins anew.
Beginner(feed, anchor) == [Fresh EXCEPT !.feed = feed, !.anchor = anchor]

\* Every step.
LEMMA StepFInv == FInv /\ [Next]_vars => FInv'
<1> SUFFICES ASSUME FInv, [Next]_vars
             PROVE  Followed' /\ clients' = [d \in Clients |-> clients'[d]]
  BY StepVInv DEF FInv
<1>0. /\ Log /\ LInv /\ clients = [d \in Clients |-> clients[d]]
      /\ \A d \in Clients : ClientOK(clients[d]) /\ ConnOK(conns[d], clients[d])
  BY DEF FInv, VInv, Followed
<1>1. ASSUME NEW c \in Clients, Ask(c) PROVE Followed' /\ clients' = [d \in Clients |-> clients'[d]]
  <2>0. groups' = groups
    BY <1>1, AskKeepsLog
  <2>1. ASSUME NEW feed, NEW token, NEW minimum, NEW media, NEW me,
               Attempt(c, Request(feed, token, minimum, media), me),
               ClientOK(me), Knows(me, token), me.feed = feed
        PROVE  Followed' /\ clients' = [d \in Clients |-> clients'[d]]
    <3> DEFINE r == Request(feed, token, minimum, media)
    <3>1. IsRequest(r) /\ r.token = token /\ r.feed = feed
      BY DEF Request, IsRequest
    <3> HIDE DEF r
    <3>2. PICK x, client : /\ conns' = [conns EXCEPT ![c] = x]
                           /\ clients' = [clients EXCEPT ![c] = client]
                           /\ ClientOK(client) /\ ConnOK(x, client)
      BY <1>0, <2>1, <3>1, AttemptFollows DEF r
    <3> QED  BY <2>0, <3>2, OneClientFollows
  <2>2. ASSUME clients[c].cursor # None, NEW minimum, NEW media,
               Attempt(c, Request(clients[c].feed, clients[c].cursor, minimum, media), clients[c])
        PROVE  Followed' /\ clients' = [d \in Clients |-> clients'[d]]
    <3>1. ClientOK(clients[c]) /\ Knows(clients[c], clients[c].cursor)
      BY <1>0, <2>2 DEF ClientOK
    <3> QED  BY <2>1, <2>2, <3>1
  <2>3. ASSUME NEW feed, NEW anchor \in {0, Position}, feed # "changes" => anchor = 0,
               NEW minimum, NEW media,
               Attempt(c, Request(feed, Checkpoint(anchor), minimum, media),
                       Beginner(feed, anchor))
        PROVE  Followed' /\ clients' = [d \in Clients |-> clients'[d]]
    <3> DEFINE me == Beginner(feed, anchor)
    <3>1. me = [feed |-> feed, cursor |-> None, anchor |-> anchor, seen |-> <<>>]
      <4>1. [Fresh EXCEPT !.feed = feed] =
              [feed |-> feed, cursor |-> None, anchor |-> 0, seen |-> <<>>]
        BY DEF Fresh
      <4> DEFINE z == [Fresh EXCEPT !.feed = feed]
      <4>2. me = [z EXCEPT !.anchor = anchor]
        BY DEF Beginner
      <4> HIDE DEF z, me
      <4>3. z = [feed |-> feed, cursor |-> None, anchor |-> 0, seen |-> <<>>]
        BY <4>1 DEF z
      <4> QED  BY <4>2, <4>3
    <3> HIDE DEF me
    <3>2. ClientOK(me)
      BY <3>1 DEF ClientOK
    <3>3. Knows(me, Checkpoint(anchor))
      BY <1>0, <2>3, <3>1, BeginningTraced DEF Knows
    <3>4. Attempt(c, Request(feed, Checkpoint(anchor), minimum, media), me) /\ me.feed = feed
      BY <2>3, <3>1 DEF me
    <3> QED  BY <2>1, <3>2, <3>3, <3>4
  <2>4. CASE clients[c].cursor # None
    <3>1. \E minimum, media :
            Attempt(c, Request(clients[c].feed, clients[c].cursor, minimum, media), clients[c])
      BY <1>1, <2>4, Zenon DEF Ask
    <3> QED  BY <2>2, <2>4, <3>1
  <2>5. CASE clients[c].cursor = None
    <3>1. PICK minimum, media, feed, anchor :
            /\ anchor \in {0, Position} /\ (feed # "changes" => anchor = 0)
            /\ Attempt(c, Request(feed, Checkpoint(anchor), minimum, media),
                       Beginner(feed, anchor))
      BY <1>1, <2>5, Zenon DEF Ask, Beginner
    <3>2. anchor \in {0, Position} /\ (feed # "changes" => anchor = 0)
      BY <3>1
    <3>3. Attempt(c, Request(feed, Checkpoint(anchor), minimum, media), Beginner(feed, anchor))
      BY <3>1
    <3> QED  BY <2>3, <3>2, <3>3
  <2> QED  BY <2>4, <2>5
<1>2. ASSUME NEW c \in Clients, Retry(c) PROVE Followed' /\ clients' = [d \in Clients |-> clients'[d]]
  <2>1. conns[c].phase = "waiting" /\ IsWaiting(conns[c]) /\ Attempt(c, conns[c], clients[c])
        /\ groups' = groups
    BY <1>0, <1>2 DEF Retry, LInv, Shaped, Phase, log
  <2>2. IsRequest(conns[c])
    BY <2>1 DEF IsWaiting, IsRequest
  <2>3. ClientOK(clients[c]) /\ Knows(clients[c], conns[c].token) /\ clients[c].feed = conns[c].feed
    BY <1>0, <2>1 DEF ConnOK
  <2>4. PICK x, client : /\ conns' = [conns EXCEPT ![c] = x]
                         /\ clients' = [clients EXCEPT ![c] = client]
                         /\ ClientOK(client) /\ ConnOK(x, client)
    BY <1>0, <2>1, <2>2, <2>3, AttemptFollows
  <2> QED  BY <2>1, <2>4, OneClientFollows
\* Connections that end.
<1>3. ASSUME NEW c \in Clients, groups' = groups, clients' = clients,
             conns' = [conns EXCEPT ![c] = Idle]
      PROVE  Followed' /\ clients' = [d \in Clients |-> clients'[d]]
  BY <1>3, IdleOK, OneConnectionFollows
<1>4. ASSUME NEW c \in Clients, StartStream(c)
      PROVE  Followed' /\ clients' = [d \in Clients |-> clients'[d]]
  <2>1. groups' = groups /\ conns[c].phase = "selected"
    BY <1>4 DEF StartStream, Phase, log
  <2>2. CASE conns' = [conns EXCEPT ![c] = Opened(conns[c])] /\ clients' = clients
    BY <1>0, <2>1, <2>2, OpenedOK, OneConnectionFollows
  <2>3. CASE /\ conns' = [conns EXCEPT ![c] = Idle]
             /\ clients' = [clients EXCEPT ![c] = Refused(@)]
    <3>1. ClientOK(Refused(clients[c])) /\ ConnOK(Idle, Refused(clients[c]))
      BY <1>0, RefusedOK, IdleOK
    <3> QED  BY <2>1, <2>3, <3>1, OneClientFollows
  <2> QED  BY <1>4, <2>2, <2>3 DEF StartStream
<1>5. ASSUME NEW c \in Clients,
             Write(c) \/ Receive(c) \/ Drain(c) \/ Pull(c) \/ Disconnect(c)
      PROVE  Followed' /\ clients' = [d \in Clients |-> clients'[d]]
  <2>1. CASE Live(c)
    BY <1>5, <2>1, StreamFollows
  <2>2. CASE ~Live(c)
    BY <1>3, <1>5, <2>2 DEF Write, Receive, Drain, Pull, Disconnect, Running, log
  <2> QED  BY <2>1, <2>2
<1>6. CASE Publish \/ Fence \/ Close
  <2>1. groups' = groups /\ clients' = clients /\ \E C : conns' = Aborted(C)
    BY <1>6 DEF Publish, Fence, Close, log
  <2> QED  BY <2>1, AbortedFollows
<1>7. CASE Restart
  <2>1. groups' = groups /\ clients' = clients /\ \A d \in Clients : conns'[d] = Idle
    BY <1>7 DEF Restart, log
  <2>2. \A d \in Clients : ClientOK(clients'[d]) /\ ConnOK(conns'[d], clients'[d])
    BY <1>0, <2>1, IdleOK
  <2>3. Followed'
    BY <2>1, <2>2, SameLog DEF Followed, ClientOK, ConnOK, Knows, Flows
  <2> QED  BY <1>0, <2>1, <2>3
<1>8. CASE Commit
  <2>1. /\ conns' = conns /\ clients' = clients /\ \E b : groups' = Append(groups, b)
    BY <1>8 DEF Commit
  <2>2. Followed'
    BY <1>0, <2>1, GrownLog DEF Followed, ClientOK, ConnOK, Knows, Flows
  <2> QED  BY <1>0, <2>1, <2>2
<1>9. CASE Closed \/ UNCHANGED vars
  <2>1. groups' = groups /\ conns' = conns /\ clients' = clients
    BY <1>9 DEF Closed, vars, log
  <2>2. Followed'
    BY <1>0, <2>1, SameLog DEF Followed, ClientOK, ConnOK, Knows, Flows
  <2> QED  BY <1>0, <2>1, <2>2
<1>10. ASSUME NEW c \in Clients, GiveUp(c) \/ End(c)
       PROVE  Followed' /\ clients' = [d \in Clients |-> clients'[d]]
  BY <1>3, <1>10 DEF GiveUp, End, log
<1> QED
  BY <1>1, <1>2, <1>4, <1>5, <1>6, <1>7, <1>8, <1>9, <1>10 DEF Next

\* What the invariant says of each client is what it may rely on.
LEMMA FollowedWithoutGap == FInv => FollowsWithoutGap
<1> SUFFICES ASSUME FInv, NEW c \in Clients, clients[c].seen # <<>>
             PROVE  LET client == clients[c] IN
                    /\ IsPrefix([i \in 1..Len(client.seen) |-> Place(client.seen[i])],
                                InOrder(Due(client.feed, client.anchor)))
                    /\ Cardinality({item.view : item \in Range(client.seen)}) = 1
  BY DEF FollowsWithoutGap
<1> DEFINE client == clients[c]
           q == client.seen
           D == Due(client.feed, client.anchor)
           view == client.cursor.view
<1>1. Log /\ ClientOK(client)
  BY DEF FInv, VInv, Log, Followed
<1>2. Sent(client.feed, client.anchor, q, view)
  BY <1>1, TracedType DEF ClientOK, Knows
<1>3. Gapless(q, D) /\ D \in SUBSET Places /\ IsFiniteSet(D)
  BY <1>1, <1>2, DueIs DEF Sent
<1>4. IsPrefix([i \in 1..Len(q) |-> Place(q[i])], InOrder(D))
  <2> HIDE DEF q, D
  <2> QED  BY <1>3, GaplessIsPrefix
<1>5. {item.view : item \in Range(q)} = {view}
  <2>1. q \in Seq(Items) /\ q # <<>>
    BY <1>3 DEF Gapless, Continues
  <2>2. 1 \in DOMAIN q /\ DOMAIN q = 1..Len(q)
    BY <2>1
  <2>3. \A i \in DOMAIN q : q[i].view = view
    BY <1>2, <2>2 DEF Sent
  <2> HIDE DEF q, view
  <2> QED  BY <2>2, <2>3 DEF Range
<1>6. Cardinality({view}) = 1
  BY FS_Singleton
<1> QED  BY <1>4, <1>5, <1>6

\* readEvents, readChanges, eventPacket and the pump: whatever is committed,
\* published, lost or broken off in between, what a client of the feed took in
\* is what its feed has after its anchor, in order, with nothing left out or
\* told twice, and all of one view.
THEOREM FeedsAreGapless == Spec => []FollowsWithoutGap
BY InitFInv, StepFInv, FollowedWithoutGap, PTL DEF Spec
-----------------------------------------------------------------------------
(* What streams hold of the service. *)

\* Of one connection: its packet, and a socket that is full only if it asked to
\* wait for its drain.
Fits(x) ==
  /\ x.phase = "selected" => Len(x.items) <= MaximumItems
  /\ x.phase = "live" =>
       /\ Len(x.wire) <= HighWater /\ (~x.blocked => Len(x.wire) < HighWater)
       /\ Len(x.items) <= MaximumItems

\* The inductive part: as many streams as there is room for.
Bounded ==
  /\ IsFiniteSet(Streams) /\ Cardinality(Streams) <= MaximumStreams
  /\ \A c \in Clients : Fits(conns[c])

CInv == VInv /\ Bounded

\* A packet is within its limit.
LEMMA PacketFits ==
  ASSUME Log, NEW feed, NEW token, token.at \in Nat
  PROVE  Len(Packet(feed, token).items) <= MaximumItems
<1>1. Len(ChangesAfter(token)) <= MaximumItems
  BY ReadsAssumption DEF ChangesAfter
<1>2. ASSUME NEW S, NEW items \in Seq(S) PROVE Len(Limited(items)) <= MaximumItems
  <2> DEFINE n == IF Len(items) < MaximumItems THEN Len(items) ELSE MaximumItems
  <2>1. n \in Nat /\ n <= Len(items) /\ n <= MaximumItems
    BY ReadsAssumption
  <2>2. \A i \in 1..n : items[i] \in S
    BY <2>1
  <2> HIDE DEF n
  <2>3. Len(SubSeq(items, 1, n)) = n
    BY <2>1, <2>2
  <2> QED  BY <2>1, <2>3 DEF Limited, n
<1>3. Len(EventPacket(feed, token).items) <= MaximumItems
  <2> DEFINE at == FirstGroup(token)
             R == Beyond(feed, at, token)
  <2>1. at \in Nat \ {0} /\ Position \in Nat
    BY GroupIs DEF FirstGroup
  <2>2. CASE at > Position
    BY <2>2, ReadsAssumption DEF EventPacket
  <2>3. CASE ~(at > Position)
    <3>1. at \in 1..Position
      BY <2>1, <2>3
    <3>2. R \in SUBSET Items /\ IsFiniteSet(R) /\ \A x \in R : x.view = generation
      BY <3>1, BeyondIs
    <3> HIDE DEF R
    <3>3. InOrder(R) \in Seq(R)
      BY <3>2, OrderedItems, InOrderIs
    <3>4. Len(Limited(Remaining(feed, at, token))) <= MaximumItems
      BY <1>2, <3>3 DEF Remaining, R
    <3> QED  BY <2>3, <3>4 DEF EventPacket
  <2> QED  BY <2>2, <2>3
<1> QED  BY <1>1, <1>3 DEF Packet

\* A step of one connection that opens no stream beyond the capacity.
LEMMA OneConnectionFits ==
  ASSUME CInv, NEW c \in Clients, NEW x, conns' = [conns EXCEPT ![c] = x], Fits(x),
         x.phase = "live" => Live(c) \/ Cardinality(Streams) < MaximumStreams
  PROVE  Bounded'
<1>1. \A d \in Clients : conns'[d] = IF d = c THEN x ELSE conns[d]
  BY DEF CInv, VInv, LInv, Shaped
<1>2. IsFiniteSet(Streams) /\ Cardinality(Streams) <= MaximumStreams /\ MaximumStreams \in Nat
  BY FeedAssumption DEF CInv, Bounded
<1>3. Streams' = {d \in Clients : conns'[d].phase = "live"}
      /\ Streams = {d \in Clients : conns[d].phase = "live"}
  BY DEF Streams, Live, Phase
<1>4. IsFiniteSet(Streams') /\ Cardinality(Streams') <= MaximumStreams
  <2>1. CASE x.phase # "live"
    <3>1. Streams' \in SUBSET Streams
      BY <1>1, <1>3, <2>1
    <3>2. IsFiniteSet(Streams') /\ Cardinality(Streams') <= Cardinality(Streams)
      BY <1>2, <3>1, FS_Subset
    <3>3. Cardinality(Streams') \in Nat /\ Cardinality(Streams) \in Nat
      BY <1>2, <3>2, FS_CardinalityType
    <3> QED  BY <1>2, <3>2, <3>3
  <2>2. CASE x.phase = "live" /\ Live(c)
    <3>1. Streams' = Streams
      BY <1>1, <1>3, <2>2 DEF Live, Phase
    <3> QED  BY <1>2, <3>1
  <2>3. CASE x.phase = "live" /\ ~Live(c)
    <3>1. Streams' = Streams \cup {c} /\ c \notin Streams
      BY <1>1, <1>3, <2>3 DEF Live, Phase
    <3>2. Cardinality(Streams) \in Nat /\ Cardinality(Streams) < MaximumStreams
      BY <1>2, <2>3, FS_CardinalityType
    <3>3. IsFiniteSet(Streams \cup {c}) /\ Cardinality(Streams \cup {c}) = Cardinality(Streams) + 1
      BY <1>2, <3>1, FS_AddElement
    <3> QED  BY <1>2, <3>1, <3>2, <3>3
  <2> QED  BY <2>1, <2>2, <2>3
<1>5. \A d \in Clients : Fits(conns'[d])
  BY <1>1 DEF CInv, Bounded
<1> QED  BY <1>4, <1>5 DEF Bounded, Fits

\* An attempt opens no stream and selects one packet.
LEMMA AttemptFits ==
  ASSUME Log, NEW c \in Clients, NEW r, NEW me, Attempt(c, r, me), IsRequest(r)
  PROVE  \E x : conns' = [conns EXCEPT ![c] = x] /\ x.phase # "live" /\ Fits(x)
<1>1. CASE conns' = [conns EXCEPT ![c] = [r EXCEPT !.phase = "waiting"]]
  <2> DEFINE x == [r EXCEPT !.phase = "waiting"]
  <2>1. x.phase = "waiting"
    BY DEF IsRequest
  <2> HIDE DEF x
  <2>2. x.phase # "live" /\ Fits(x)
    BY <2>1 DEF Fits
  <2> QED  BY <1>1, <2>2 DEF x
<1>2. CASE conns' = [conns EXCEPT ![c] = Idle]
  <2>1. Idle.phase # "live" /\ Fits(Idle)
    BY DEF Idle, Fits
  <2> QED  BY <1>2, <2>1
<1>3. CASE AttemptAnswer(r) = "page" /\ conns' = [conns EXCEPT ![c] = Selected(r)]
  <2>1. r.token.at \in Nat
    BY <1>3 DEF AttemptAnswer, Acceptable
  <2>2. Len(Packet(r.feed, r.token).items) <= MaximumItems
    BY <2>1, PacketFits
  <2>3. Selected(r).phase = "selected" /\ Selected(r).items = Packet(r.feed, r.token).items
    BY DEF Selected
  <2>4. Fits(Selected(r))
    BY <2>2, <2>3 DEF Fits
  <2> QED  BY <1>3, <2>3, <2>4
<1> QED  BY <1>1, <1>2, <1>3 DEF Attempt

\* The first state.
LEMMA InitCInv == Init => CInv
<1> SUFFICES ASSUME Init PROVE CInv
  OBVIOUS
<1>1. \A c \in Clients : conns[c].phase = "idle"
  BY DEF Init, Idle
<1>2. Streams = {}
  BY <1>1 DEF Streams, Live, Phase
<1>3. IsFiniteSet({}) /\ Cardinality({}) = 0
  BY FS_EmptySet
<1>4. \A c \in Clients : Fits(conns[c])
  BY <1>1 DEF Fits
<1> QED  BY <1>2, <1>3, <1>4, InitVInv, FeedAssumption DEF CInv, Bounded

\* A step of a stream.
LEMMA StreamFits ==
  ASSUME CInv, NEW c \in Clients, Live(c),
         Write(c) \/ Receive(c) \/ Drain(c) \/ Pull(c) \/ Disconnect(c)
  PROVE  Bounded'
<1> DEFINE s == conns[c]
<1>0. /\ Log /\ IsStream(s) /\ s.phase = "live" /\ Fits(s) /\ IsSequence(s.wire)
      /\ ~s.aborted => OfView(s.items, s.view)
      /\ MaximumItems \in Nat \ {0} /\ HighWater \in Nat \ {0}
  BY FeedAssumption, ReadsAssumption
  DEF CInv, Bounded, VInv, LInv, Shaped, Live, Phase, HoldsView
<1>1. Len(s.wire) \in Nat
  BY <1>0, LengthOfSequence
<1> HIDE DEF s
\* Each leaves a stream that fits.
<1> DEFINE Goes(x) == conns' = [conns EXCEPT ![c] = x] /\ x.phase = "live" /\ Fits(x)
<1>2. CASE Write(c)
  <2> DEFINE x == [s EXCEPT !.wire = Append(@, Head(s.items)), !.items = Tail(@),
                            !.blocked = Len(s.wire) + 1 >= HighWater]
  <2>1. /\ conns' = [conns EXCEPT ![c] = x] /\ ~s.aborted /\ s.items # <<>> /\ ~s.blocked
    BY <1>2 DEF Write, Running, s
  <2>2. /\ x.phase = "live" /\ x.wire = Append(s.wire, Head(s.items)) /\ x.items = Tail(s.items)
        /\ x.blocked <=> Len(s.wire) + 1 >= HighWater
    BY <1>0 DEF IsStream, StreamFields
  <2> HIDE DEF x
  <2>3. Len(x.wire) = Len(s.wire) + 1
    <3>1. PICK S : s.wire \in Seq(S)
      BY <1>0 DEF IsSequence
    <3> QED  BY <2>2, <3>1
  <2>4. Len(s.items) \in Nat /\ Len(x.items) < Len(s.items) /\ Len(x.items) \in Nat
    <3>1. PICK S : s.items \in Seq(S)
      BY <1>0, <2>1 DEF OfView
    <3> QED  BY <2>1, <2>2, <3>1
  <2>5. Fits(x)
    BY <1>0, <1>1, <2>1, <2>2, <2>3, <2>4 DEF Fits
  <2>6. Goes(x)
    BY <2>1, <2>2, <2>5
  <2> QED  BY <2>6, OneConnectionFits
<1>3. CASE Receive(c)
  <2> DEFINE x == [s EXCEPT !.wire = Tail(@)]
  <2>1. conns' = [conns EXCEPT ![c] = x] /\ s.wire # <<>>
    BY <1>3 DEF Receive, s
  <2>2. /\ x.phase = "live" /\ x.wire = Tail(s.wire) /\ x.items = s.items
        /\ x.blocked = s.blocked
    BY <1>0 DEF IsStream, StreamFields
  <2> HIDE DEF x
  <2>3. Len(x.wire) < Len(s.wire) /\ Len(x.wire) \in Nat
    <3>1. PICK S : s.wire \in Seq(S)
      BY <1>0 DEF IsSequence
    <3> QED  BY <2>1, <2>2, <3>1
  <2>4. Fits(x)
    BY <1>0, <1>1, <2>2, <2>3 DEF Fits
  <2>5. Goes(x)
    BY <2>1, <2>2, <2>4
  <2> QED  BY <2>5, OneConnectionFits
<1>4. CASE Drain(c)
  <2> DEFINE x == [s EXCEPT !.blocked = FALSE]
  <2>1. conns' = [conns EXCEPT ![c] = x] /\ s.wire = <<>>
    BY <1>4 DEF Drain, s
  <2>2. /\ x.phase = "live" /\ x.wire = s.wire /\ x.items = s.items
    BY <1>0 DEF IsStream, StreamFields
  <2> HIDE DEF x
  <2>3. Len(x.wire) = 0
    BY <2>1, <2>2
  <2>4. Fits(x)
    BY <1>0, <2>2, <2>3 DEF Fits
  <2>5. Goes(x)
    BY <2>1, <2>2, <2>4
  <2> QED  BY <2>5, OneConnectionFits
<1>5. CASE Pull(c)
  <2> DEFINE packet == Packet(s.feed, s.next)
  <2>1. CASE /\ Acceptable(s.next)
             /\ conns' = [conns EXCEPT ![c].items = packet.items, ![c].next = packet.next]
    <3> DEFINE x == [s EXCEPT !.items = packet.items, !.next = packet.next]
    <3>1. conns' = [conns EXCEPT ![c] = x]
      BY <2>1 DEF s
    <3>2. Len(packet.items) <= MaximumItems
      BY <1>0, <2>1, PacketFits DEF Acceptable
    <3> HIDE DEF packet
    <3>3. /\ x.phase = "live" /\ x.wire = s.wire /\ x.items = packet.items
          /\ x.blocked = s.blocked
      BY <1>0 DEF IsStream, StreamFields
    <3> HIDE DEF x
    <3>4. Fits(x)
      BY <1>0, <3>2, <3>3 DEF Fits
    <3>5. Goes(x)
      BY <3>1, <3>3, <3>4
    <3> QED  BY <3>5, OneConnectionFits
  <2>2. CASE conns' = [conns EXCEPT ![c].aborted = TRUE]
    <3> DEFINE x == [s EXCEPT !.aborted = TRUE]
    <3>1. conns' = [conns EXCEPT ![c] = x]
      BY <2>2 DEF s
    <3>2. /\ x.phase = "live" /\ x.wire = s.wire /\ x.items = s.items /\ x.blocked = s.blocked
      BY <1>0 DEF IsStream, StreamFields
    <3> HIDE DEF x
    <3>3. Fits(x)
      BY <1>0, <3>2 DEF Fits
    <3>4. Goes(x)
      BY <3>1, <3>2, <3>3
    <3> QED  BY <3>4, OneConnectionFits
  <2> QED  BY <1>5, <2>1, <2>2 DEF Pull, s
<1>6. CASE Disconnect(c)
  <2> DEFINE x == [s EXCEPT !.aborted = TRUE, !.wire = <<>>]
  <2>1. conns' = [conns EXCEPT ![c] = x]
    BY <1>0, <1>6 DEF Disconnect, Phase, s
  <2>2. x.phase = "live" /\ x.wire = <<>> /\ x.items = s.items
    BY <1>0 DEF IsStream, StreamFields
  <2> HIDE DEF x
  <2>3. Len(x.wire) = 0
    BY <2>2
  <2>4. Fits(x)
    BY <1>0, <2>2, <2>3 DEF Fits
  <2>5. Goes(x)
    BY <2>1, <2>2, <2>4
  <2> QED  BY <2>5, OneConnectionFits
<1> QED  BY <1>2, <1>3, <1>4, <1>5, <1>6

\* Every step.
LEMMA StepCInv == CInv /\ [Next]_vars => CInv'
<1> SUFFICES ASSUME CInv, [Next]_vars PROVE Bounded'
  BY StepVInv DEF CInv
<1>0. Log /\ LInv
  BY DEF CInv, VInv
<1>i. Idle.phase # "live" /\ Fits(Idle)
  BY DEF Idle, Fits
<1>1. ASSUME NEW c \in Clients, Ask(c) PROVE Bounded'
  <2>1. PICK feed, token, minimum, media, me :
          Attempt(c, Request(feed, token, minimum, media), me)
    BY <1>1 DEF Ask
  <2> DEFINE r == Request(feed, token, minimum, media)
  <2>2. IsRequest(r)
    BY DEF Request, IsRequest
  <2>3. PICK x : conns' = [conns EXCEPT ![c] = x] /\ x.phase # "live" /\ Fits(x)
    <3> HIDE DEF r
    <3> QED  BY <1>0, <2>1, <2>2, AttemptFits DEF r
  <2> QED  BY <2>3, OneConnectionFits
<1>2. ASSUME NEW c \in Clients, Retry(c) PROVE Bounded'
  <2>1. IsWaiting(conns[c]) /\ Attempt(c, conns[c], clients[c])
    BY <1>0, <1>2 DEF Retry, LInv, Shaped, Phase
  <2>2. IsRequest(conns[c])
    BY <2>1 DEF IsWaiting, IsRequest
  <2>3. PICK x : conns' = [conns EXCEPT ![c] = x] /\ x.phase # "live" /\ Fits(x)
    BY <1>0, <2>1, <2>2, AttemptFits
  <2> QED  BY <2>3, OneConnectionFits
\* Connections that end.
<1>3. ASSUME NEW c \in Clients, conns' = [conns EXCEPT ![c] = Idle] PROVE Bounded'
  BY <1>i, <1>3, OneConnectionFits
<1>4. ASSUME NEW c \in Clients, StartStream(c) PROVE Bounded'
  <2>1. CASE /\ conns[c].phase = "selected" /\ Cardinality(Streams) < MaximumStreams
             /\ conns' = [conns EXCEPT ![c] = Opened(conns[c])]
    <3> DEFINE x == Opened(conns[c])
    <3>1. x.wire = <<>> /\ x.items = conns[c].items /\ x.phase = "live"
      BY DEF Opened
    <3> HIDE DEF x
    <3>2. Len(x.wire) = 0 /\ HighWater \in Nat \ {0} /\ Len(x.items) <= MaximumItems
      BY <2>1, <3>1, FeedAssumption DEF CInv, Bounded, Fits
    <3>3. Fits(x)
      BY <3>1, <3>2 DEF Fits
    <3> QED  BY <2>1, <3>3, OneConnectionFits DEF x
  <2>2. CASE conns' = [conns EXCEPT ![c] = Idle]
    BY <1>3, <2>2
  <2> QED  BY <1>4, <2>1, <2>2 DEF StartStream, Phase
<1>5. ASSUME NEW c \in Clients,
             Write(c) \/ Receive(c) \/ Drain(c) \/ Pull(c) \/ Disconnect(c)
      PROVE  Bounded'
  <2>1. CASE Live(c)
    BY <1>5, <2>1, StreamFits
  <2>2. CASE ~Live(c)
    BY <1>3, <1>5, <2>2 DEF Write, Receive, Drain, Pull, Disconnect, Running
  <2> QED  BY <2>1, <2>2
\* Aborting keeps every stream, and what it holds.
<1>6. CASE Publish \/ Fence \/ Close
  <2>1. PICK C : conns' = Aborted(C)
    BY <1>6 DEF Publish, Fence, Close
  <2>2. \A c \in Clients : conns'[c] =
          IF c \in C /\ Live(c) THEN [conns[c] EXCEPT !.aborted = TRUE] ELSE conns[c]
    BY <2>1 DEF Aborted
  <2>3. ASSUME NEW c \in Clients PROVE (Live(c)' <=> Live(c)) /\ Fits(conns'[c])
    <3>0. Fits(conns[c])
      BY DEF CInv, Bounded
    <3>1. CASE c \in C /\ Live(c)
      <4>1. conns'[c] = [conns[c] EXCEPT !.aborted = TRUE] /\ IsStream(conns[c])
        BY <1>0, <2>2, <3>1 DEF LInv, Shaped
      <4>2. /\ conns'[c].phase = "live" /\ conns'[c].wire = conns[c].wire
            /\ conns'[c].items = conns[c].items /\ conns'[c].blocked = conns[c].blocked
            /\ conns[c].phase = "live"
        BY <4>1 DEF IsStream, StreamFields
      <4> QED  BY <3>0, <4>2 DEF Fits, Live, Phase
    <3>2. CASE ~(c \in C /\ Live(c))
      BY <2>2, <3>0, <3>2 DEF Live, Phase
    <3> QED  BY <3>1, <3>2
  <2>4. Streams' = Streams
    BY <2>3 DEF Streams
  <2> QED  BY <2>3, <2>4 DEF CInv, Bounded, Fits
<1>7. CASE Restart
  <2>1. \A c \in Clients : conns'[c] = Idle
    BY <1>7 DEF Restart
  <2>2. Streams' = {}
    BY <1>i, <2>1 DEF Streams, Live, Phase
  <2>3. IsFiniteSet({}) /\ Cardinality({}) = 0
    BY FS_EmptySet
  <2>4. \A c \in Clients : Fits(conns'[c])
    BY <1>i, <2>1
  <2> QED  BY <2>2, <2>3, <2>4, FeedAssumption DEF Bounded, Fits
<1>8. CASE Commit \/ Closed \/ UNCHANGED vars
  <2>1. conns' = conns
    BY <1>8 DEF Commit, Closed, vars
  <2> QED  BY <2>1 DEF CInv, Bounded, Streams, Live, Phase, Fits
<1>9. ASSUME NEW c \in Clients, GiveUp(c) \/ End(c) PROVE Bounded'
  BY <1>3, <1>9 DEF GiveUp, End
<1> QED
  BY <1>1, <1>2, <1>4, <1>5, <1>6, <1>7, <1>8, <1>9 DEF Next

\* service.stream, the pump and the owner's leases: whatever is published,
\* fenced, closed, disconnected or left unread, there are no more streams than
\* the service admits, each holds at most its packet and what its socket takes,
\* a running one can be revoked by the owner, and no lease outlives its stream.
THEOREM StreamsStayContained == Spec => []StreamsAreContained
<1>1. CInv => StreamsAreContained
  BY DEF CInv, Bounded, VInv, LInv, StreamsAreContained, StreamsAreBounded, Fits, Streams,
         Live, Phase
<1> QED  BY <1>1, InitCInv, StepCInv, PTL DEF Spec
=============================================================================
