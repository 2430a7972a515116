----------------------------- MODULE SchemaPattern -----------------------------
(***************************************************************************)
(* The patterns of installed schemas (server/src/installed-schema-         *)
(* pattern.ts): a parsed pattern is compiled to instructions of a projected *)
(* number, and a text is matched by following all of them at once.         *)
(* Parsing, and characters beyond their classes, are left out.             *)
(***************************************************************************)
EXTENDS Integers, Sequences, FiniteSets

CONSTANTS
  Patterns,   \* syntax trees
  Texts       \* sequences of characters

VARIABLES
  pattern, text,
  code, start,   \* the program; instructions are counted from 1
  position,      \* the number of characters taken
  current,       \* the instructions that would consume a character
  pending,       \* the instructions to be followed
  visited,       \* those that were scheduled at this position
  verdict        \* "compiling", "matching", "accepted" or "rejected"

vars == <<pattern, text, code, start, position, current, pending, visited, verdict>>

Many == -1     \* the maximum of an unbounded repetition
-----------------------------------------------------------------------------
(* Compilation. *)

\* The instructions of a repetition of something of the size child.
RepeatSize(p, child) == IF p.max = Many THEN child * (p.min + 1) + 1
                        ELSE IF p.max = 0 THEN 1 ELSE child * p.max + p.max - p.min

RECURSIVE Size(_)
Size(p) ==
  CASE p.kind = "cat" -> Size(p.left) + Size(p.right)
    [] p.kind = "alt" -> Size(p.left) + Size(p.right) + 1
    [] p.kind = "repeat" -> RepeatSize(p, Size(p.left))
    [] OTHER -> 1

Instruction(op, x, y, set) == [op |-> op, x |-> x, y |-> y, set |-> set]

Emit(op, x, y, set, program) ==
  [code |-> Append(program, Instruction(op, x, y, set)), at |-> Len(program) + 1]

Patch(program, id, key, target) == [program EXCEPT ![id][key] = target]

\* Copies are compiled from the last; those beyond the minimum are optional.
Optional(p, rest) == p.max # Many /\ rest > p.min

Copies(p) == IF p.max = Many THEN p.min ELSE p.max

\* The program with p before next, and where it is entered.
RECURSIVE Compiled(_, _, _), Repeated(_, _, _, _)
Compiled(p, next, program) ==
  CASE p.kind = "cat" ->
         LET right == Compiled(p.right, next, program) IN Compiled(p.left, right.at, right.code)
    [] p.kind = "alt" ->
         LET split == Emit("split", 0, 0, {}, program)
             left == Compiled(p.left, next, split.code)
             right == Compiled(p.right, next, Patch(left.code, split.at, "x", left.at))
         IN [code |-> Patch(right.code, split.at, "y", right.at), at |-> split.at]
    [] p.kind = "repeat" /\ p.max = Many ->
         LET split == Emit("split", 0, next, {}, program)
             body == Compiled(p.left, split.at, split.code)
         IN Repeated(p, split.at, Copies(p), Patch(body.code, split.at, "x", body.at))
    [] p.kind = "repeat" /\ p.max \notin {Many, 0} -> Repeated(p, next, Copies(p), program)
    [] p.kind = "char" -> Emit("char", next, 0, p.set, program)
    [] p.kind \in {"start", "end"} -> Emit(p.kind, next, 0, {}, program)
    [] OTHER -> Emit("jump", next, 0, {}, program)

Repeated(p, entry, rest, program) ==
  IF rest = 0 THEN [code |-> program, at |-> entry]
  ELSE LET copy == Compiled(p.left, entry, program)
           step == IF Optional(p, rest) THEN Emit("split", copy.at, entry, {}, copy.code) ELSE copy
       IN Repeated(p, step.at, rest - 1, step.code)

Program(p) == LET accept == Emit("accept", 0, 0, {}, <<>>) IN Compiled(p, 1, accept.code)
-----------------------------------------------------------------------------
(* Matching. *)

Compile ==
  /\ verdict = "compiling" /\ verdict' = "matching"
  /\ LET program == Program(pattern) IN
     /\ code' = program.code /\ start' = program.at
     /\ pending' = {program.at} /\ visited' = {program.at}
  /\ UNCHANGED <<pattern, text, position, current>>

Leads(i) ==
  CASE i.op = "split" -> {i.x, i.y}
    [] i.op = "jump" -> {i.x}
    [] i.op = "start" -> IF position = 0 THEN {i.x} ELSE {}
    [] i.op = "end" -> IF position = Len(text) THEN {i.x} ELSE {}
    [] OTHER -> {}

\* The stack of the code is followed in one of its orders.
Follow ==
  /\ verdict = "matching" /\ pending # {}
  /\ LET id == CHOOSE i \in pending : \A j \in pending : j <= i  i == code[id] IN
     /\ verdict' = IF i.op = "accept" THEN "accepted" ELSE verdict
     /\ current' = IF i.op = "char" THEN current \cup {id} ELSE current
     /\ visited' = visited \cup Leads(i)
     /\ pending' = (pending \ {id}) \cup (Leads(i) \ visited)
  /\ UNCHANGED <<pattern, text, code, start, position>>

\* A match may begin everywhere.
Begins == {start}

Accepts(id) == text[position + 1] \in code[id].set

Advance ==
  /\ verdict = "matching" /\ pending = {} /\ position < Len(text)
  /\ pending' = Begins \cup {code[id].x : id \in {j \in current : Accepts(j)}}
  /\ visited' = pending' /\ current' = {} /\ position' = position + 1
  /\ UNCHANGED <<pattern, text, code, start, verdict>>

Reject ==
  /\ verdict = "matching" /\ pending = {} /\ position = Len(text)
  /\ verdict' = "rejected"
  /\ UNCHANGED <<pattern, text, code, start, position, current, pending, visited>>
-----------------------------------------------------------------------------
Init ==
  /\ pattern \in Patterns /\ text \in Texts
  /\ code = <<>> /\ start = 0 /\ position = 0
  /\ current = {} /\ pending = {} /\ visited = {} /\ verdict = "compiling"

Next == Compile \/ Follow \/ Advance \/ Reject

Spec == Init /\ [][Next]_vars
-----------------------------------------------------------------------------
(* Correctness. *)

\* Where a match of p that begins at i can end, by the definition of patterns: an
\* unbounded repetition goes on while it finds new ends.
RECURSIVE Ends(_, _), Times(_, _, _), More(_, _)
Ends(p, i) ==
  CASE p.kind = "char" -> IF i < Len(text) /\ text[i + 1] \in p.set THEN {i + 1} ELSE {}
    [] p.kind = "empty" -> {i}
    [] p.kind = "start" -> IF i = 0 THEN {i} ELSE {}
    [] p.kind = "end" -> IF i = Len(text) THEN {i} ELSE {}
    [] p.kind = "cat" -> UNION {Ends(p.right, j) : j \in Ends(p.left, i)}
    [] p.kind = "alt" -> Ends(p.left, i) \cup Ends(p.right, i)
    [] p.kind = "repeat" ->
         IF p.max = Many THEN More(p.left, Times(p.left, {i}, p.min))
         ELSE UNION {Times(p.left, {i}, k) : k \in p.min..p.max}

Times(p, S, k) == IF k = 0 THEN S ELSE Times(p, UNION {Ends(p, j) : j \in S}, k - 1)

More(p, S) == LET T == S \cup UNION {Ends(p, j) : j \in S} IN IF T = S THEN S ELSE More(p, T)

\* A text is accepted exactly if the pattern matches somewhere in it.
VerdictIsExact ==
  /\ verdict = "accepted" => \E i \in 0..Len(text) : Ends(pattern, i) # {}
  /\ verdict = "rejected" => \A i \in 0..Len(text) : Ends(pattern, i) = {}

\* The number of instructions is known before any is made, so that a pattern is
\* refused for its size without making them; and no jump leaves the program.
SizeIsProjected ==
  verdict # "compiling" =>
    /\ Len(code) = Size(pattern) + 1
    /\ \A i \in DOMAIN code : {code[i].x, code[i].y} \subseteq 0..Len(code)

===============================================================================
