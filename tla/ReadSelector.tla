------------------------------ MODULE ReadSelector ------------------------------
(***************************************************************************)
(* The selectors of paged reads (server/src/read-selector.ts): the tokens  *)
(* of a filter are parsed by precedence with a stack of operators and one  *)
(* of trees, within limits on the tree; the tree is evaluated for a record *)
(* with a stack of frames and one of results.                              *)
(*                                                                         *)
(* A token is [kind, of]: a path, a literal (of is a value), a comparison  *)
(* (of is its operator), or a sign.  "end" is the bracket that closes the  *)
(* filter.  A value is a pair of its JSON type and what it is; records are *)
(* the values of their paths.  Scanning is left out.                       *)
(***************************************************************************)
EXTENDS Naturals, Sequences, SequencesExt

CONSTANTS
  Tokens, Filters,      \* every sequence of up to MaxTokens with its end, and these
  MaxTokens,
  Segments,             \* the number of segments of a path
  Limits,               \* [depth, nodes]
  Records               \* functions from paths to values

VARIABLES
  limits,
  read, token,          \* what was read; the one that waits for reductions
  operators, values,    \* a group holds the number of values it began with
  expecting,            \* an operand
  state,                \* "reading", "evaluating", "over", or why it is refused
  record, frames, results

vars == <<limits, read, token, operators, values, expecting, state, record, frames, results>>

NoToken == [kind |-> "none", of |-> 0]
Missing == <<"missing", 0>>
Refusals == {"syntax", "unsupported", "depth", "nodes"}

Binary(t) == t.kind \in {"compare", "and", "or"}
-----------------------------------------------------------------------------
(* Trees: [tree, depth, nodes], where a tree is [kind, of, parts]. *)

Larger(m, n) == IF m > n THEN m ELSE n

Leaf(t) ==
  LET size == IF t.kind = "path" THEN Segments[t.of] + 1 ELSE 1 IN
  [tree |-> [kind |-> t.kind, of |-> t.of, parts |-> <<>>], depth |-> size, nodes |-> size]

Over(kind, x) ==
  [tree |-> [kind |-> kind, of |-> 0, parts |-> <<x.tree>>],
   depth |-> x.depth + 1, nodes |-> x.nodes + 1]

Joining(t, x, y) ==
  [tree |-> [kind |-> t.kind, of |-> t.of, parts |-> <<x.tree, y.tree>>],
   depth |-> Larger(x.depth, y.depth) + 1, nodes |-> x.nodes + y.nodes + 1]

IsLiteral(x) == x.tree.kind = "literal"
IsValue(x) == x.tree.kind \in {"path", "literal"}

Excess(x) ==
  IF x.depth > limits.depth THEN "depth" ELSE IF x.nodes > limits.nodes THEN "nodes" ELSE "no"

precedence(t) ==
  CASE t.kind = "not" -> 4 [] t.kind = "compare" -> 3 [] t.kind = "and" -> 2 [] t.kind = "or" -> 1

Arity(t) == IF t.kind = "not" THEN 1 ELSE 2
Operand(n) == values[Len(values) - n]     \* counted from the top
Made(t) == IF t.kind = "not" THEN Over("not", Operand(0)) ELSE Joining(t, Operand(1), Operand(0))

\* Why the top operator cannot take its operands.
Fault(t) ==
  IF \/ Len(values) < Arity(t)
     \/ t.kind # "compare" /\ \E n \in 0..(Arity(t) - 1) : IsLiteral(Operand(n))
     \/ t.kind = "compare" /\ \E n \in 0..1 : ~IsValue(Operand(n))
  THEN "syntax"
  ELSE IF t.kind = "compare" /\ \A n \in 0..1 : ~IsLiteral(Operand(n)) THEN "unsupported"
  ELSE Excess(Made(t))
-----------------------------------------------------------------------------
(* Parsing. *)

Init ==
  /\ limits \in Limits
  /\ read = <<>> /\ token = NoToken /\ operators = <<>> /\ values = <<>> /\ expecting = TRUE
  /\ state = "reading" /\ record = <<>> /\ frames = <<>> /\ results = <<>>

Comes(t) ==
  /\ read' = Append(read, t)
  /\ \/ (t \in Tokens /\ Len(read) < MaxTokens) \/ t.kind = "end"
     \/ \E f \in Filters : IsPrefix(Append(read, t), f)

Refuse(why) == state' = why /\ UNCHANGED <<token, operators, values, expecting>>
Open == [kind |-> "open", of |-> Len(values)]

AfterNot == operators # <<>> /\ Last(operators).kind = "not"

\* A literal is within every limit.
TakeOperand(t) ==
  /\ state = "reading" /\ token = NoToken /\ expecting
  /\ Comes(t)
  /\ \/ /\ t.kind = "not" /\ ~AfterNot
        /\ operators' = Append(operators, t)
        /\ UNCHANGED <<token, values, expecting, state>>
     \/ /\ t.kind = "open" /\ operators' = Append(operators, Open)
        /\ UNCHANGED <<token, values, expecting, state>>
     \/ /\ t.kind = "literal" \/ (t.kind = "path" /\ Excess(Leaf(t)) = "no")
        /\ values' = Append(values, Leaf(t)) /\ expecting' = FALSE
        /\ UNCHANGED <<token, operators, state>>
     \/ t.kind = "path" /\ Excess(Leaf(t)) # "no" /\ Refuse(Excess(Leaf(t)))
     \/ t.kind = "not" /\ AfterNot /\ Refuse("syntax")
     \/ (Binary(t) \/ t.kind = "close" \/ t.kind = "end") /\ Refuse("syntax")
  /\ UNCHANGED <<limits, record, frames, results>>

\* Nothing is reduced before an unclosed group is noticed.
Unclosed == \E i \in DOMAIN operators : operators[i].kind = "open"

TakeOperator(t) ==
  /\ state = "reading" /\ token = NoToken /\ ~expecting
  /\ Comes(t)
  /\ IF Binary(t) \/ t.kind = "close" \/ (t.kind = "end" /\ ~Unclosed)
     THEN token' = t /\ UNCHANGED <<operators, values, expecting, state>>
     ELSE Refuse("syntax")
  /\ UNCHANGED <<limits, record, frames, results>>

\* The top operator comes before the token that waits.
Reducible ==
  /\ operators # <<>> /\ Last(operators).kind # "open"
  /\ Binary(token) => precedence(Last(operators)) >= precedence(token)

reduceOperator ==
  /\ state = "reading" /\ token # NoToken /\ Reducible
  /\ LET t == Last(operators) IN
     IF Fault(t) # "no" THEN Refuse(Fault(t))
     ELSE /\ operators' = Front(operators)
          /\ values' = Append(SubSeq(values, 1, Len(values) - Arity(t)), Made(t))
          /\ UNCHANGED <<token, expecting, state>>
  /\ UNCHANGED <<limits, read, record, frames, results>>

PushOperator ==
  /\ state = "reading" /\ Binary(token) /\ ~Reducible
  /\ operators' = Append(operators, token) /\ token' = NoToken /\ expecting' = TRUE
  /\ UNCHANGED <<limits, read, values, state, record, frames, results>>

closeGroup ==
  /\ state = "reading" /\ token.kind = "close" /\ ~Reducible
  /\ IF operators = <<>> \/ Len(values) # Last(operators).of + 1 \/ IsLiteral(Last(values))
     THEN Refuse("syntax")
     ELSE LET group == Over("group", Last(values)) IN
          IF Excess(group) # "no" THEN Refuse(Excess(group))
          ELSE /\ operators' = Front(operators)
               /\ values' = Append(Front(values), group)
               /\ token' = NoToken
               /\ UNCHANGED <<expecting, state>>
  /\ UNCHANGED <<limits, read, record, frames, results>>

takeSingleBoolean ==
  /\ state = "reading" /\ token.kind = "end" /\ ~Reducible
  /\ IF Len(values) # 1 \/ IsLiteral(Last(values))
     THEN Refuse("syntax") /\ UNCHANGED <<record, frames>>
     ELSE /\ state' = "evaluating" /\ record' \in Records
          /\ frames' = <<[tree |-> Last(values).tree, visited |-> FALSE]>>
          /\ UNCHANGED <<token, operators, values, expecting>>
  /\ UNCHANGED <<limits, read, results>>

\* Only read is followed after a refusal, to know what was refused.
Ended == read # <<>> /\ Last(read).kind = "end"
ReadOn(t) ==
  /\ state \in Refusals /\ ~Ended /\ Comes(t)
  /\ UNCHANGED <<limits, token, operators, values, expecting, state, record, frames, results>>
-----------------------------------------------------------------------------
(* Evaluation. *)

resolveValue(tree) == IF tree.kind = "literal" THEN tree.of ELSE record[tree.of]

Equal(v, w) == v = w /\ v[1] \in {"null", "number", "string", "boolean"}

Comparable(v, w) == v[1] = w[1] /\ v[1] \in {"number", "string"}

compare(operator, v, w) ==
  CASE operator = "==" -> Equal(v, w)
    [] operator = "!=" -> ~Equal(v, w)
    [] operator = "<" -> Comparable(v, w) /\ v[2] < w[2]
    [] operator = "<=" -> Comparable(v, w) /\ v[2] <= w[2]
    [] operator = ">" -> Comparable(v, w) /\ v[2] > w[2]
    [] operator = ">=" -> Comparable(v, w) /\ v[2] >= w[2]

Compared(tree) == compare(tree.of, resolveValue(tree.parts[1]), resolveValue(tree.parts[2]))

Frames(trees) == [i \in DOMAIN trees |-> [tree |-> trees[i], visited |-> FALSE]]

evaluate ==
  /\ state = "evaluating" /\ frames # <<>>
  /\ LET frame == Last(frames)
         tree == frame.tree
         operands == Len(tree.parts) IN
     \/ /\ ~frame.visited /\ tree.kind \in {"path", "compare"}
        /\ frames' = Front(frames)
        /\ results' = Append(results, IF tree.kind = "path" THEN record[tree.of] # Missing
                                      ELSE Compared(tree))
     \/ /\ ~frame.visited /\ tree.kind \notin {"path", "compare"}
        /\ frames' = Append(Front(frames), [frame EXCEPT !.visited = TRUE])
                       \o Frames(Reverse(tree.parts))
        /\ UNCHANGED results
     \/ /\ frame.visited
        /\ frames' = Front(frames)
        /\ LET right == Last(results)
               left == results[Len(results) - operands + 1] IN
           results' = Append(SubSeq(results, 1, Len(results) - operands),
                             CASE tree.kind = "not" -> ~right
                               [] tree.kind = "group" -> right
                               [] tree.kind = "and" -> left /\ right
                               [] tree.kind = "or" -> left \/ right)
  /\ UNCHANGED <<limits, read, token, operators, values, expecting, state, record>>

Finish ==
  /\ state = "evaluating" /\ frames = <<>> /\ state' = "over"
  /\ UNCHANGED <<limits, read, token, operators, values, expecting, record, frames, results>>

Next ==
  \/ \E t \in Tokens \cup UNION {Range(f) : f \in Filters} :
       TakeOperand(t) \/ TakeOperator(t) \/ ReadOn(t)
  \/ reduceOperator \/ PushOperator \/ closeGroup \/ takeSingleBoolean
  \/ evaluate \/ Finish
-----------------------------------------------------------------------------
(* What a filter means, by its grammar. *)

\* The trees of the tokens from i to j, at a level of the grammar: a disjunction, a
\* conjunction, a basic expression, an operand of a comparison.
RECURSIVE Trees(_, _, _, _)
Trees(f, level, i, j) ==
  LET Node(kind, of, parts) == [kind |-> kind, of |-> of, parts |-> parts]
      Split(kind, left, right) ==
        UNION {{Node(kind, f[k].of, <<x, y>>) :
                  x \in Trees(f, left, i, k - 1), y \in Trees(f, right, k + 1, j)} :
               k \in {m \in (i + 1)..(j - 1) : f[m].kind = kind}}
      Grouped(from) ==
        IF from < j /\ f[from].kind = "open" /\ f[j].kind = "close"
        THEN {Node("group", 0, <<x>>) : x \in Trees(f, "or", from + 1, j - 1)}
        ELSE {}
      Tested(from) == IF from = j /\ f[j].kind = "path" THEN {Node("path", f[j].of, <<>>)} ELSE {}
  IN CASE i > j -> {}
       [] level = "or" -> Split("or", "or", "and") \cup Trees(f, "and", i, j)
       [] level = "and" -> Split("and", "and", "basic") \cup Trees(f, "basic", i, j)
       [] level = "basic" ->
            Grouped(i) \cup Tested(i)
            \cup {x \in Split("compare", "operand", "operand") :
                    \E n \in 1..2 : x.parts[n].kind = "literal"}
            \cup (IF f[i].kind = "not"
                  THEN {Node("not", 0, <<x>>) : x \in Grouped(i + 1) \cup Tested(i + 1)} ELSE {})
       [] level = "operand" ->
            Tested(i) \cup
              IF i = j /\ f[i].kind = "literal" THEN {Node("literal", f[i].of, <<>>)} ELSE {}

RECURSIVE Depth(_), Size(_), Holds(_)

Depth(t) ==
  CASE t.kind = "path" -> Segments[t.of] + 1
    [] t.kind = "literal" -> 1
    [] Len(t.parts) = 1 -> Depth(t.parts[1]) + 1
    [] OTHER -> Larger(Depth(t.parts[1]), Depth(t.parts[2])) + 1

Size(t) ==
  CASE t.kind = "path" -> Segments[t.of] + 1
    [] t.kind = "literal" -> 1
    [] Len(t.parts) = 1 -> Size(t.parts[1]) + 1
    [] OTHER -> Size(t.parts[1]) + Size(t.parts[2]) + 1

Holds(t) ==
  CASE t.kind = "path" -> record[t.of] # Missing
    [] t.kind = "compare" -> Compared(t)
    [] t.kind = "not" -> ~Holds(t.parts[1])
    [] t.kind = "group" -> Holds(t.parts[1])
    [] t.kind = "and" -> Holds(t.parts[1]) /\ Holds(t.parts[2])
    [] t.kind = "or" -> Holds(t.parts[1]) \/ Holds(t.parts[2])

Derived == Trees(Front(read), "or", 1, Len(read) - 1)
-----------------------------------------------------------------------------
\* A filter is refused exactly if the grammar has no tree for it, or one beyond the
\* limits; otherwise the two stacks arrive at its only tree, with its depth and size,
\* whatever operators wait for their operands on the way (parseSelector).
ParsingIsExact ==
  /\ state \in Refusals /\ Ended =>
       \A t \in Derived : Depth(t) > limits.depth \/ Size(t) > limits.nodes
  /\ state = "evaluating" =>
       /\ Derived = {values[1].tree}
       /\ Depth(values[1].tree) = values[1].depth /\ Size(values[1].tree) = values[1].nodes
       /\ values[1].depth <= limits.depth /\ values[1].nodes <= limits.nodes

\* Operators and groups on the stack account for the values: the code's own errors for
\* a missing operand and an incomplete group do not occur (popNode, closeGroup).
StacksAgree ==
  state = "reading" =>
    /\ Len(values) = Len(SelectSeq(operators, Binary)) + IF expecting THEN 0 ELSE 1
    /\ \A i \in DOMAIN operators : operators[i].kind = "open" =>
         operators[i].of = Len(SelectSeq(SubSeq(operators, 1, i), Binary))

\* A record is selected exactly if the filter holds of it, though all operands are
\* evaluated and none twice (evaluate).
SelectionIsExact == state = "over" => results = <<Holds(values[1].tree)>>
=================================================================================
