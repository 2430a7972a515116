------------------------------- MODULE MCEvaluation -------------------------------
(***************************************************************************)
(* What is computed of one input, side by side: transactions of a group    *)
(* (over Links, and over sets), installed schemas, their patterns, what an *)
(* authority's reader discloses, and the selectors of reads.  They share   *)
(* no state: a behaviour is one of them, while the others stay as they     *)
(* begin.                                                                  *)
(***************************************************************************)
EXTENDS GroupEvaluation, TLC

CONSTANTS b1, b2, l1, l2, Absent, Broken, ext

VARIABLES
  part,                                                            \* whose behaviour this is
  schema, document, phase, dynamic, stack, memo,                   \* SchemaEvaluation
  pattern, text, code, start, position, current, following, visited, verdict, \* SchemaPattern
  intent, hidden, points, missing, cache, queue, copies, owner, shown, stage,
  pending, seen, todo, refs, rows, items, outcome, answers,        \* AuthorityGraph
  limits, read, token, operators, values, expecting, state, record, frames, results \* ReadSelector

schemas == <<schema, document, phase, dynamic, stack, memo>>
patterns == <<pattern, text, code, start, position, current, following, visited, verdict>>
disclosure ==
  <<intent, hidden, points, missing, cache, queue, copies, owner, shown, stage,
    pending, seen, todo, refs, rows, items, outcome, answers>>
selection ==
  <<limits, read, token, operators, values, expecting, state, record, frames, results>>
-----------------------------------------------------------------------------
(* Transactions over two Beads and two Links. *)

Input == [operation |-> None, id |-> None, type |-> None, source |-> None, target |-> None,
          body |-> "p", subject |-> None, expected |-> 0, label |-> None,
          collection |-> None, selector |-> None, min |-> 0, max |-> 9]

Bead(id, label) == [Input EXCEPT !.operation = "createBead", !.id = id, !.label = label]
Link(id, type, source, target) ==
  [Input EXCEPT !.operation = "createLink", !.id = id, !.type = type, !.source = source,
                !.target = target]
Change(operation, subject, body) ==
  [Input EXCEPT !.operation = operation, !.subject = subject, !.body = body]
Delete(operation, subject) == [Input EXCEPT !.operation = operation, !.subject = subject]
Where(operation, collection, selector, body) ==
  [Input EXCEPT !.operation = operation, !.collection = collection, !.selector = selector,
                !.body = body]
Some(input) == [input EXCEPT !.min = 1]

Opaques == <<"o1", "o2", "o3", "o4", "o5", "o6", "o7", "o8", "o9">>
Addresses == <<"b1", "b2", "l1", "l2">> \o Opaques

\* Links between what a transaction makes and what stands.
LinkOperations ==
  {Bead("b1", "x"), Bead("b2", "y"), Bead(None, "y"), Link("l1", "owns", "x", "y"),
   Link("l1", "owns", "b1", "b2"), Link("l2", "knows", "b1", "b1"),
   Link("l2", "owns", "b1", "ext"), Change("updateBead", "b1", "q"),
   Change("updateLink", "l1", "q"), Change("updateLink", "l1", "p"), Delete("deleteLink", "l1"),
   Delete("deleteBead", "b1"), Delete("deleteBead", "x")}

LinkBatches ==
  {<<a>> : a \in LinkOperations} \cup (LinkOperations \X LinkOperations)
    \cup {<<Bead("b1", "x"), Bead("b2", "y"), c>> : c \in LinkOperations}

\* Sets over what a transaction makes and what stands.
SetOperations ==
  {Where("updateWhere", "bead", "p", "q"), Where("updateWhere", "bead", "q", "q"),
   Where("updateWhere", "link", "p", "q"), Some(Where("deleteWhere", "link", "q", None)),
   Where("deleteWhere", "link", "p", None), Where("deleteWhere", "bead", "q", None),
   Where("deleteWhere", "bead", "p", None)}
SetBatches ==
  LET first == SetOperations \cup {Bead("b1", "x"), Bead("b2", "y"),
                 Link("l1", "owns", "b1", "b2"), Link("l2", "owns", "b1", "ext")}
  IN {<<a>> : a \in first} \cup (first \X first)

AllBatches == LinkBatches \cup SetBatches
-----------------------------------------------------------------------------
(* Every small graph of three nodes in one resource, and the graphs in which *)
(* two resources give two meanings to one reference.                         *)

Leaf(r) == [kind : {"any", "none", "object"}, a : {0}, b : {0}, resource : {r}]
Unary(kinds, targets, r) == [kind : kinds, a : targets, b : {0}, resource : {r}]
Binary(kinds, as, bs, r) == [kind : kinds, a : as, b : bs, resource : {r}]

Ones == {"ref", "not", "depends", "member", "names"}
Twos == {"some", "one", "if", "members", "rest"}

All == 1..3
Plain == Leaf(1) \cup Unary(Ones, All, 1)
Forms == Plain \cup Binary(Twos, All, All, 1)

\* No dynamic anchors; the last node has at most one subschema.
StaticGraphs ==
  {[nodes |-> <<x, y, z>>, anchors |-> <<0>>] :
     x \in Binary(Twos, All, All, 1) \cup Unary({"not", "member"}, {2}, 1), y \in Forms,
     z \in Leaf(1) \cup Unary({"ref", "member"}, {1, 2}, 1)}

\* Nodes 2 and 5, and 3 and 6, are of resources that may each bind the name; node 4 is
\* reached through both and refers to it.
DynamicGraphs ==
  {[nodes |-> <<x, y, z, w, u, v>>, anchors |-> <<r, s, t, 0>>] :
     x \in Binary({"some", "if", "rest"}, {2}, {3}, 1),
     y \in Unary({"ref", "member"}, {4}, 2), z \in Unary({"ref", "not"}, {4}, 3),
     w \in Unary({"dynamic"}, {5, 6}, 4),
     u \in Leaf(2) \cup Unary({"member"}, {1, 4}, 2),
     v \in Leaf(3) \cup Unary({"member"}, {1, 5}, 3),
     r \in {0, 1}, s \in {0, 5}, t \in {0, 6}}

XY == <<"x", "y">>

\* {x: {x: ""}, y: ""}, and a string.
Nested == [object |-> [i \in 0..3 |-> i \in {0, 1}],
           at |-> 0 :> ("x" :> 1 @@ "y" :> 2) @@ 1 :> ("x" :> 3) @@ 2 :> <<>> @@ 3 :> <<>>]
Bare == [object |-> [i \in 0..0 |-> FALSE], at |-> 0 :> <<>>]

LargeDocuments == {Nested}
Graphs == StaticGraphs \cup DynamicGraphs

Schemas == INSTANCE SchemaEvaluation WITH
  graph <- schema, Documents <- LargeDocuments, Keys <- XY
-----------------------------------------------------------------------------
(* Small patterns over two characters, and all texts of up to three. *)

Unbounded == -1     \* the maximum of an unbounded repetition

Char(S) == [kind |-> "char", set |-> S]
Atoms == {Char({"a"}), Char({"b"}), Char({"a", "b"})} \cup [kind : {"empty", "start", "end"}]
Pairs(S, T) == [kind : {"cat", "alt"}, left : S, right : T]
Repeats(S) ==
  {[kind |-> "repeat", left |-> p, min |-> n[1], max |-> n[2]] :
     p \in S, n \in {<<0, Unbounded>>, <<2, Unbounded>>, <<0, 1>>, <<1, 3>>, <<2, 2>>, <<0, 0>>}}

Simple == Pairs(Atoms, Atoms) \cup Repeats(Atoms)
SmallPatterns ==
  Atoms \cup Simple \cup Pairs(Simple, Atoms) \cup Pairs(Atoms, Simple)
  \cup Repeats(Pairs(Atoms, Atoms)) \cup Repeats(Repeats(Atoms))

ShortTexts == UNION {[1..n -> {"a", "b"}] : n \in 0..3}

Pattern == INSTANCE SchemaPattern WITH
  pending <- following, Patterns <- SmallPatterns, Texts <- ShortTexts
-----------------------------------------------------------------------------
(* Two Beads and two Links, of which the reader knows different versions. *)

LinkRecord(id, source, target) == [kind |-> "link", id |-> id, source |-> source, target |-> target]
BeadRecord(id, owned) == [kind |-> "bead", id |-> id, owned |-> owned]

MCBeads == {b1, b2}
MCLinks == {l1, l2}

There == LinkRecord(l1, b1, b2)
Elsewhere == LinkRecord(l1, b1, ext)
Back == LinkRecord(l2, b2, b1)

MCRecords ==
  {BeadRecord(b1, {}), BeadRecord(b1, {There}), BeadRecord(b2, {}), BeadRecord(b2, {Back}),
   There, Elsewhere, Back}

Ask1(kind, id, of, direction) == [kind |-> kind, id |-> id, of |-> of, direction |-> direction]

MCIntents ==
  {Ask1("point", id, of, "any") : id \in {b1, l1}, of \in {"any", "bead", "link"}}
    \cup {Ask1(kind, ext, "any", "any") : kind \in {"beads", "links"}}
    \cup {Ask1("incident", b1, "bead", direction) : direction \in {"any", "outbound"}}

Disclosure == INSTANCE AuthorityGraph WITH
  subject <- shown,
  Beads <- MCBeads, Links <- MCLinks, Records <- MCRecords, Intents <- MCIntents, MaxRows <- 3
-----------------------------------------------------------------------------
(* Every sequence of up to four tokens and its end, and longer filters in   *)
(* which precedence, groups, negations and limits meet.                     *)

Token(kind, of) == [kind |-> kind, of |-> of]
Sign == [kind \in {"and", "or", "not", "open", "close", "end"} |-> Token(kind, 0)]

PathP == Token("path", "p")
PathQ == Token("path", "q")
One1 == Token("literal", <<"number", 1>>)
Text1 == Token("literal", <<"string", 1>>)
Is == Token("compare", "==")
IsNot == Token("compare", "!=")
Less == Token("compare", "<")
AtMost == Token("compare", "<=")
More == Token("compare", ">")
AtLeast == Token("compare", ">=")

FilterTokens == {PathP, One1, Is} \cup {Sign[k] : k \in DOMAIN Sign}
And == Sign["and"]
Or == Sign["or"]
Not == Sign["not"]
Left == Sign["open"]
Right == Sign["close"]

LongFilters ==
  {Append(f, Sign["end"]) : f \in {
     <<PathQ, Or, PathP, And, PathP, Is, One1>>,
     <<PathP, Less, One1, And, One1, Less, PathP, Or, PathQ>>,
     <<PathP, AtMost, One1, And, PathP, AtLeast, One1, Or, PathP, More, One1>>,
     <<PathQ, And, PathP, And, PathQ, And, PathP>>,
     <<Left, PathP, Or, PathQ, Right, And, PathQ>>,
     <<PathP, And, Left, PathP, IsNot, Text1, Or, PathQ, Right>>,
     <<Not, Left, PathP, Is, Text1, Right, Or, PathQ>>,
     <<Not, PathP, And, Not, Left, PathQ, Or, Not, PathP, Right>>,
     <<Not, Left, Not, Left, Not, PathP, Right, Right>>,
     <<Left, Left, PathP, Right, Right, Or, PathQ>>,
     <<Left, PathP, Is, One1, Right, Is, One1>>, <<PathP, Is, One1, Is, One1>>,
     <<Left, PathP, Or, Not, Left, PathQ, Right, And, PathP, Right, Right>>,
     <<One1, Is, One1, Or, PathP, And, Left, One1, Right>>}}

SmallAndLarge == {[depth |-> 4, nodes |-> 8], [depth |-> 9, nodes |-> 30]}
SegmentsOf == [n \in {"p", "q"} |-> IF n = "p" THEN 1 ELSE 4]
SomeRecords ==
  [{"p", "q"} -> {<<"missing", 0>>, <<"number", 1>>, <<"number", 2>>, <<"string", 1>>,
                   <<"null", 0>>}]

Selector == INSTANCE ReadSelector WITH
  Tokens <- FilterTokens, Filters <- LongFilters, MaxTokens <- 4, Segments <- SegmentsOf,
  Limits <- SmallAndLarge, Records <- SomeRecords
-----------------------------------------------------------------------------
PartInit ==
  /\ part \in {"links", "sets", "schemas", "patterns", "disclosure", "selectors"}
  /\ Init /\ (part # "selectors" => limits = [depth |-> 4, nodes |-> 8]) /\ Selector!Init
  /\ IF part = "schemas" THEN Schemas!Init
     ELSE /\ schema = [nodes |-> <<>>, anchors |-> <<>>] /\ document = Bare
          /\ phase = "compiling" /\ dynamic = FALSE /\ stack = <<>> /\ memo = {}
  /\ IF part = "patterns" THEN Pattern!Init
     ELSE /\ pattern = Char({}) /\ text = <<>> /\ code = <<>> /\ start = 0 /\ position = 0
          /\ current = {} /\ following = {} /\ visited = {} /\ verdict = "compiling"
  /\ IF part = "disclosure" THEN Disclosure!Init
     ELSE /\ intent = None /\ hidden = {} /\ points = {} /\ missing = {} /\ cache = <<>>
          /\ queue = {} /\ copies = {} /\ owner = Absent /\ shown = Absent /\ stage = "done"
          /\ pending = {} /\ seen = {} /\ todo = {} /\ refs = {} /\ rows = 0 /\ items = {}
          /\ outcome = "running" /\ answers = {}

Group(batches) == Execute(batches) /\ UNCHANGED <<schemas, patterns, disclosure, selection>>

PartNext ==
  /\ UNCHANGED part
  /\ \/ part = "links" /\ Group(LinkBatches)
     \/ part = "sets" /\ Group(SetBatches)
     \/ /\ part = "schemas" /\ Schemas!Next
        /\ UNCHANGED <<vars, patterns, disclosure, selection>>
     \/ /\ part = "patterns" /\ Pattern!Next
        /\ UNCHANGED <<vars, schemas, disclosure, selection>>
     \/ /\ part = "disclosure" /\ Disclosure!Next
        /\ UNCHANGED <<vars, schemas, patterns, selection>>
     \/ /\ part = "selectors" /\ Selector!Next
        /\ UNCHANGED <<vars, schemas, patterns, disclosure>>

PartSpec == PartInit /\ [][PartNext]_<<part, vars, schemas, patterns, disclosure, selection>>
-----------------------------------------------------------------------------
(* What is computed is what the definitions say. *)

\* A schema is refused exactly if its evaluation could recur on one instance; else
\* the evaluation ends and says what the schema does in its whole dynamic scope.  A
\* text is accepted exactly if the pattern matches somewhere in it, by a program of
\* the size that was projected (installed-schema-evaluator.ts, schema-pattern.ts).  A
\* selector is refused exactly if the grammar or the limits refuse it, and selects what
\* it means (read-selector.ts).
EvaluationIsExact ==
  /\ part = "schemas" =>
       Schemas!RefusalIsExact /\ Schemas!NoPairRepeats /\ Schemas!ResultIsTheSchemas
  /\ part = "patterns" => Pattern!VerdictIsExact /\ Pattern!SizeIsProjected
  /\ part = "selectors" =>
       Selector!ParsingIsExact /\ Selector!StacksAgree /\ Selector!SelectionIsExact

\* Nothing is disclosed of which a part may not be read, and nothing kept back
\* without a reason; what an answer is made of does not contradict itself, however
\* rows, lookups and the copies of Links come (authority-read.ts).
DisclosureIsExact ==
  part = "disclosure" =>
    Disclosure!OnlyReadableIsShown /\ Disclosure!AnswersAgree /\ Disclosure!RefusalIsJustified

\* The changes of a group are the difference it makes and nothing else, its events
\* lead from what was to what is, incidences included, it has a position exactly if
\* it has an effect, and the whole transaction stays within its bounds
\* (transaction-batch.ts evaluateTransaction, emitEvents).
GroupsTellTheirEffect ==
  [][(part = "links" \/ part = "sets") =>
       /\ (GraphIsSound /\ BoundsHold)'
       /\ ChangesAreTheDifference /\ NothingElseIsAChange
       /\ EventsTellTheGroup /\ IncidencesAreTold /\ PositionsAreEffects]_vars
=============================================================================
