--------------------------- MODULE SchemaEvaluation ---------------------------
(***************************************************************************)
(* The evaluator of installed schemas (server/src/installed-schema-        *)
(* recursion.ts, installed-schema-evaluator.ts): a schema graph is         *)
(* qualified, or refused because it could recur without end on one value;  *)
(* a qualified one is evaluated with a stack of frames and a memo.         *)
(*                                                                         *)
(* A node has one keyword, or the two that belong together.  There is one  *)
(* name of dynamic anchors.                                                *)
(***************************************************************************)
EXTENDS Naturals, Sequences, FiniteSets

CONSTANTS
  Graphs,      \* of [nodes, anchors]: the resource of each anchored node is its own
  Documents,   \* of [object, at]: instance -> whether it is an object, and its members
  Keys         \* the sequence of member names; the first one is declared by "member"

VARIABLES
  graph, document,
  phase,       \* "compiling", "evaluating", "refused" or "done"
  dynamic,     \* whether the graph was specialised to its bindings
  stack,       \* of frames [state, inst, got]; the last one is running
  memo         \* of [state, inst, fact]

vars == <<graph, document, phase, dynamic, stack, memo>>

Root == 1
Top == 0       \* the instance that is the document

Node(n) == graph.nodes[n]

Request(to, inst) == [to |-> to, inst |-> inst]

\* way: "same" instance or a "member".
Edge(way, to) == [way |-> way, to |-> to]
-----------------------------------------------------------------------------
(* Qualification. *)

\* Names of members are evaluated as strings; their edges are kept all the same.
Edges(n) ==
  LET x == Node(n) IN
  CASE x.kind \in {"any", "none", "object"} -> {}
    [] x.kind \in {"ref", "dynamic", "not", "depends", "names"} -> {Edge("same", x.a)}
    [] x.kind \in {"some", "one", "if"} -> {Edge("same", x.a), Edge("same", x.b)}
    [] x.kind = "member" -> {Edge("member", x.a)}
    [] x.kind = "members" -> {Edge("member", x.a), Edge("member", x.b)}
    [] x.kind = "rest" -> {Edge("same", x.a), Edge("member", x.b)}

Anchor(n) == graph.anchors[Node(n).resource]

\* A dynamic reference whose own target is no dynamic anchor is an ordinary one.
IsDynamic(n) == Node(n).kind = "dynamic" /\ Anchor(Node(n).a) = Node(n).a

\* The first resource that binds the name keeps it: 0 while there is none.
Enter(context, n) == IF context # 0 THEN context ELSE Anchor(n)

State(context, n) == [node |-> n, context |-> IF dynamic THEN Enter(context, n) ELSE 0]

Target(state, to) ==
  LET n == IF dynamic /\ IsDynamic(state.node) /\ state.context # 0 THEN state.context ELSE to
  IN State(state.context, n)

Successors(state, ways) == {Target(state, e.to) : e \in {x \in Edges(state.node) : x.way \in ways}}

\* What Next adds to Start until nothing is new; at most Bound rounds.
Closure(Start, More(_), Bound) ==
  LET rounds[k \in 0..Bound] ==
        IF k = 0 THEN Start
        ELSE LET last == rounds[k - 1] IN last \cup UNION {More(x) : x \in last}
  IN rounds[Bound]

StateBound == Len(graph.nodes) * (Len(graph.nodes) + 1)

Entry == State(0, Root)

Reachable ==
  LET More(s) == Successors(s, {"same", "member"})
  IN Closure({Entry}, More, StateBound)

\* A state is processed when all that lead to it on one instance are.
Processed ==
  LET states == Reachable
      rounds[k \in 0..Cardinality(states)] ==
        IF k = 0 THEN {}
        ELSE LET last == rounds[k - 1] IN
             {s \in states : \A p \in states \ last : s \notin Successors(p, {"same"})}
  IN rounds[Cardinality(states)]

\* The nodes that are reached if no reference is dynamic.
ReachesDynamic ==
  LET More(n) == {e.to : e \in Edges(n)}
  IN \E n \in Closure({Root}, More, Len(graph.nodes)) : IsDynamic(n)

Frame(state, inst) == [state |-> state, inst |-> inst, got |-> <<>>]

Qualified ==
  IF Processed = Reachable
  THEN phase' = "evaluating" /\ stack' = <<Frame(Entry, Top)>>
  ELSE phase' = "refused" /\ UNCHANGED stack

\* A graph in which dynamic references are reached is specialised to its bindings.
QualifyStatic ==
  /\ phase = "compiling" /\ ~dynamic
  /\ dynamic' = ReachesDynamic
  /\ IF ReachesDynamic THEN UNCHANGED <<phase, stack>> ELSE Qualified
  /\ UNCHANGED <<graph, document, memo>>

QualifyDynamic ==
  /\ phase = "compiling" /\ dynamic /\ Qualified
  /\ UNCHANGED <<graph, document, dynamic, memo>>
-----------------------------------------------------------------------------
(* Evaluation.  A fact: whether the instance is valid, and which of its    *)
(* members were evaluated; what is not valid evaluated nothing.            *)

Members(inst) == {k \in 1..Len(Keys) : Keys[k] \in DOMAIN document.at[inst]}

Child(inst, k) == document.at[inst][Keys[k]]

\* The name of a member, as an instance of its own.
Name == Cardinality(DOMAIN document.object)

IsObject(inst) == inst # Name /\ document.object[inst]

OwnMembers(inst) == IF IsObject(inst) THEN Members(inst) ELSE {}

\* The members in their order.
Each(inst, S, to) ==
  LET chosen == SelectSeq([k \in 1..Len(Keys) |-> k], LAMBDA k : k \in S)
  IN [j \in 1..Len(chosen) |-> Request(to, Child(inst, chosen[j]))]

\* Mutant: members that an invalid schema evaluated stay evaluated.
Fact_kept(valid, seen) == [valid |-> valid, seen |-> seen]

Fact(valid, seen) == [valid |-> valid, seen |-> IF valid THEN seen ELSE {}]

\* What a frame asks for, given what it has got.
Asks(f) ==
  LET x == Node(f.state.node)  own == OwnMembers(f.inst) IN
  CASE x.kind \in {"any", "none", "object"} -> <<>>
    [] x.kind \in {"ref", "dynamic", "not"} -> <<Request(x.a, f.inst)>>
    [] x.kind \in {"some", "one"} -> <<Request(x.a, f.inst), Request(x.b, f.inst)>>
    [] x.kind = "if" ->
         <<Request(x.a, f.inst)>> \o
         IF f.got # <<>> /\ f.got[1].valid THEN <<Request(x.b, f.inst)>> ELSE <<>>
    [] x.kind = "depends" -> IF 1 \in own THEN <<Request(x.a, f.inst)>> ELSE <<>>
    [] x.kind = "member" -> Each(f.inst, own \cap {1}, x.a)
    [] x.kind = "members" -> Each(f.inst, own \cap {1}, x.a) \o Each(f.inst, own \ {1}, x.b)
    [] x.kind = "rest" ->
         <<Request(x.a, f.inst)>> \o
         IF f.got # <<>> THEN Each(f.inst, own \ f.got[1].seen, x.b) ELSE <<>>
    [] x.kind = "names" ->
         [j \in 1..Cardinality(own) |-> Request(x.a, Name)]

Valids(f) == {j \in DOMAIN f.got : f.got[j].valid}

Seen(f) == UNION {f.got[j].seen : j \in Valids(f)}

Concludes(f) ==
  LET x == Node(f.state.node)  own == OwnMembers(f.inst)  all == Valids(f) = DOMAIN f.got IN
  CASE x.kind = "any" -> Fact(TRUE, {})
    [] x.kind = "none" -> Fact(FALSE, {})
    [] x.kind = "object" -> Fact(IsObject(f.inst), {})
    [] x.kind \in {"ref", "dynamic", "depends"} -> Fact(all, Seen(f))
    [] x.kind = "not" -> Fact(Valids(f) = {}, {})
    [] x.kind = "some" -> Fact(Valids(f) # {}, Seen(f))
    [] x.kind = "one" -> Fact(Cardinality(Valids(f)) = 1, Seen(f))
    [] x.kind = "if" -> Fact(Len(f.got) = 1 \/ 2 \in Valids(f), Seen(f))
    [] x.kind = "member" -> Fact(all, own \cap {1})
    [] x.kind \in {"members", "rest"} -> Fact(all, own)
    [] x.kind = "names" -> Fact(all, {})

Running == stack[Len(stack)]

Remembers(m, state, inst) == m.state = state /\ m.inst = inst

Got(f, fact) == [f EXCEPT !.got = Append(@, fact)]

Asking == phase = "evaluating" /\ Len(Running.got) < Len(Asks(Running))

Ask ==
  /\ Asking
  /\ LET request == Asks(Running)[Len(Running.got) + 1]
         state == Target(Running.state, request.to)
         hits == {m \in memo : Remembers(m, state, request.inst) /\ request.inst # Name}
     IN stack' = IF hits = {} THEN Append(stack, Frame(state, request.inst))
                 ELSE [stack EXCEPT ![Len(stack)] = Got(@, (CHOOSE m \in hits : TRUE).fact)]
  /\ UNCHANGED <<graph, document, phase, dynamic, memo>>

\* The fact is remembered and handed to the frame that asked.
Conclude ==
  /\ phase = "evaluating" /\ ~Asking
  /\ LET fact == Concludes(Running)  below == Len(stack) - 1 IN
     /\ memo' = memo \cup {[state |-> Running.state, inst |-> Running.inst, fact |-> fact]}
     /\ stack' = [j \in 1..below |-> IF j = below THEN Got(stack[j], fact) ELSE stack[j]]
     /\ phase' = IF below = 0 THEN "done" ELSE phase
  /\ UNCHANGED <<graph, document, dynamic>>
-----------------------------------------------------------------------------
Init ==
  /\ graph \in Graphs /\ document \in Documents
  /\ phase = "compiling" /\ dynamic = FALSE /\ stack = <<>> /\ memo = {}

Next == QualifyStatic \/ QualifyDynamic \/ Ask \/ Conclude

Spec == Init /\ [][Next]_vars
-----------------------------------------------------------------------------
(***************************************************************************)
(* What a schema says of a value, by its definition: the whole dynamic     *)
(* scope, the resources in the order they were entered, is carried along,  *)
(* and nothing is remembered.                                              *)
(***************************************************************************)

\* A resource has its place in the scope where it was entered first.
Within(scope, n) ==
  LET r == Node(n).resource
  IN IF \E j \in DOMAIN scope : scope[j] = r THEN scope ELSE Append(scope, r)

Bound(scope) ==
  LET bind == {j \in DOMAIN scope : graph.anchors[scope[j]] # 0}
  IN IF bind = {} THEN 0
     ELSE graph.anchors[scope[CHOOSE j \in bind : \A k \in bind : j <= k]]

\* The node that n refers to as `to`.
Refers(n, scope, to) == IF IsDynamic(n) /\ Bound(scope) # 0 THEN Bound(scope) ELSE to

\* The facts of one value under every node of T, in their scopes.
RECURSIVE Denotes(_, _, _)
Denotes(n, inst, scope) ==
  LET x == Node(n)
      own == OwnMembers(inst)
      Of(to, i) == LET m == Refers(n, scope, to) IN Denotes(m, i, Within(scope, m))
      At(to, k) == Of(to, Child(inst, k)).valid
      both == {Of(x.a, inst), Of(x.b, inst)}
      Union(facts) == UNION {y.seen : y \in {z \in facts : z.valid}}
      fact ==
        CASE x.kind = "any" -> [valid |-> TRUE, seen |-> {}]
          [] x.kind = "none" -> [valid |-> FALSE, seen |-> {}]
          [] x.kind = "object" -> [valid |-> IsObject(inst), seen |-> {}]
          [] x.kind \in {"ref", "dynamic"} -> Of(x.a, inst)
          [] x.kind = "not" -> [valid |-> ~Of(x.a, inst).valid, seen |-> {}]
          [] x.kind = "some" -> [valid |-> \E y \in both : y.valid, seen |-> Union(both)]
          [] x.kind = "one" ->
               [valid |-> Of(x.a, inst).valid # Of(x.b, inst).valid, seen |-> Union(both)]
          [] x.kind = "if" ->
               IF Of(x.a, inst).valid
               THEN [valid |-> Of(x.b, inst).valid, seen |-> Union(both)]
               ELSE [valid |-> TRUE, seen |-> {}]
          [] x.kind = "depends" ->
               IF 1 \in own THEN Of(x.a, inst) ELSE [valid |-> TRUE, seen |-> {}]
          [] x.kind = "member" ->
               [valid |-> 1 \in own => At(x.a, 1), seen |-> own \cap {1}]
          [] x.kind = "members" ->
               [valid |-> \A k \in own : At(IF k = 1 THEN x.a ELSE x.b, k), seen |-> own]
          [] x.kind = "rest" ->
               [valid |-> Of(x.a, inst).valid
                          /\ \A k \in own \ Of(x.a, inst).seen : At(x.b, k),
                seen |-> own]
          [] x.kind = "names" -> [valid |-> \A k \in own : Of(x.a, Name).valid, seen |-> {}]
  IN [fact EXCEPT !.seen = IF fact.valid THEN @ ELSE {}]

\* Walks of an evaluation: a node in its scope.
Walk(n, scope) == [node |-> n, scope |-> Within(scope, n)]

\* What is asked of the same value, and of its members.
InPlace(n) ==
  LET x == Node(n) IN
  ({x.a} \ IF x.kind \in {"member", "members"} THEN {x.a} ELSE {0})
    \cup IF x.kind \in {"some", "one", "if"} THEN {x.b} ELSE {}

Below(n) ==
  LET x == Node(n) IN
  (IF x.kind \in {"member", "members"} THEN {x.a} ELSE {})
    \cup IF x.kind \in {"members", "rest"} THEN {x.b} ELSE {}

Steps(w, Targets(_)) == {Walk(Refers(w.node, w.scope, to), w.scope) : to \in Targets(w.node)}

Both(n) == InPlace(n) \cup Below(n)

RECURSIVE WalksFrom(_, _)
WalksFrom(S, inPlace) ==
  LET more == S \cup UNION {IF inPlace THEN Steps(w, InPlace) ELSE Steps(w, Both) : w \in S}
  IN IF more = S THEN S ELSE WalksFrom(more, inPlace)

\* Some value would be evaluated under one node in one scope again, below itself.
RecursInPlace ==
  \E w \in WalksFrom({Walk(Root, <<>>)}, FALSE) :
    w \in WalksFrom(Steps(w, InPlace), TRUE)
-----------------------------------------------------------------------------
\* A graph is refused exactly if an evaluation of some value could recur on one
\* instance: recursion through the members of a value is accepted, and so is a
\* reference to itself that its bindings lead elsewhere.
RefusalIsExact ==
  /\ phase = "refused" => RecursInPlace
  /\ phase \in {"evaluating", "done"} => ~RecursInPlace

\* An evaluation never asks for what it is in the middle of finding, so that it
\* ends, and the memo needs no entry for what is unfinished.
NoPairRepeats ==
  \A j \in DOMAIN stack : \A k \in 1..(j - 1) :
    ~(stack[j].state = stack[k].state /\ stack[j].inst = stack[k].inst)

\* What is remembered for a node with its bindings is what the schema says in each
\* scope; at the end the result of the document is.
ResultIsTheSchemas ==
  phase = "done" =>
    \E m \in memo : /\ m.state = Entry /\ m.inst = Top
                    /\ m.fact = Denotes(Root, Top, Within(<<>>, Root))
===============================================================================
