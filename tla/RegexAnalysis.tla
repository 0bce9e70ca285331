--------------------------- MODULE RegexAnalysis ---------------------------
(***************************************************************************)
(* What the engine finds out about a pattern's tree before it matches      *)
(* (ctre.hpp): the captures, whether every match starts at the beginning,  *)
(* and whether two adjacent parts can begin with the same character.       *)
(***************************************************************************)
EXTENDS PcreActions

\* Marks the engine puts between the parts of the tree.
start_mark == Leaf("start_mark")
end_mark == Leaf("end_mark")
end_cycle_mark == Leaf("end_cycle_mark")
end_look_mark == Leaf("end_look_mark")
accept == Leaf("accept")
numeric_mark(k) == [op |-> "numeric_mark", id |-> k]

Lookaheads == {"lookahead_positive", "lookahead_negative"}
Lookbehinds == {"lookbehind_positive", "lookbehind_negative"}
References == {"back_reference", "back_reference_with_name"}

\* Mutant: the captures inside a lookahead are not looked for.
RECURSIVE find_captures_outside(_)
find_captures_outside(stack) ==
  IF stack = << >> THEN << >>
  ELSE LET x == Head(stack)
           inside == Repeats \cup {"select", "sequence", "capture"}
           own == IF x.op = "capture" THEN <<x>> ELSE << >>
           content == IF x.op \in inside THEN x.items ELSE << >>
       IN  own \o find_captures_outside(content \o Tail(stack))

\* The captures of a list of parts, each before those inside it; what is
\* inside an atomic group or a lookbehind is not looked for.
RECURSIVE find_captures(_)
find_captures(stack) ==
  IF stack = << >> THEN << >>
  ELSE LET x == Head(stack)
           inside == Repeats \cup Lookaheads \cup {"select", "sequence", "capture"}
           own == IF x.op = "capture" THEN <<x>> ELSE << >>
           content == IF x.op \in inside THEN x.items ELSE << >>
       IN  own \o find_captures(content \o Tail(stack))

\* Mutant: an optional is a repetition like any other.
RECURSIVE starts_with_anchor_once(_, _)
starts_with_anchor_once(multiline, stack) ==
  IF stack = << >> THEN FALSE
  ELSE
  LET x == Head(stack)
      tail == Tail(stack)
      behind == starts_with_anchor_once(multiline, tail)
      within == starts_with_anchor_once(multiline, x.items \o tail)
  IN  CASE x.op = "assert_subject_begin" -> TRUE
        [] x.op = "assert_line_begin" -> ~ multiline \/ behind
        [] x.op = "boundary" -> behind
        [] x.op = "select" ->
             \A i \in DOMAIN x.items : starts_with_anchor_once(multiline, <<x.items[i]>> \o tail)
        [] x.op \in Repeats \cup {"sequence"} -> within
        [] x.op = "capture" -> x.name = << >> /\ within
        [] OTHER -> FALSE

\* optional and lazy_optional, of which there need be no iteration.
IsOptional(x) == x.op \in {"repeat", "lazy_repeat"} /\ x.a = 0 /\ x.b = 1

\* Does every match of the list start at the beginning of the subject?  Other
\* repetitions that may be left out are looked at as if they could not be.
RECURSIVE starts_with_anchor(_, _)
starts_with_anchor(multiline, stack) ==
  IF stack = << >> THEN FALSE
  ELSE
  LET x == Head(stack)
      tail == Tail(stack)
      behind == starts_with_anchor(multiline, tail)
      within == starts_with_anchor(multiline, x.items \o tail)
  IN  CASE x.op = "assert_subject_begin" -> TRUE
        [] x.op = "assert_line_begin" -> ~ multiline \/ behind
        [] x.op = "boundary" -> behind
        [] x.op = "select" ->
             \A i \in DOMAIN x.items : starts_with_anchor(multiline, <<x.items[i]>> \o tail)
        [] x.op \in Repeats /\ IsOptional(x) -> within /\ behind
        [] x.op \in Repeats /\ ~ IsOptional(x) -> within
        [] x.op = "sequence" -> within
        [] x.op = "capture" -> x.name = << >> /\ within
        [] OTHER -> FALSE

can_be_anything == Leaf("can_be_anything")

FirstStops == {"accept", "end_mark", "end_cycle_mark", "end_look_mark",
               "assert_subject_end", "assert_subject_end_line", "assert_line_end"}
FirstSkips == {"numeric_mark", "empty", "boundary", "assert_subject_begin",
               "assert_line_begin"}

\* What a part that consumes text begins with, where it is known.
Opening(x) ==
  CASE x.op = "string" -> <<Chr(x.s[1])>>
    [] x.op \in {"character", "char_range"} -> <<x>>
    [] x.op = "set" -> x.items
    [] x.op \in {"negate", "negative_set"} -> <<Node("negative_set", x.items)>>

\* What the list can begin with, appended to l.
RECURSIVE first(_, _)
first(l, stack) ==
  IF stack = << >> THEN l
  ELSE
  LET x == Head(stack)
      tail == Tail(stack)
  IN  CASE x.op \in FirstStops -> l
        [] x.op \in FirstSkips -> first(l, tail)
        [] x.op \in {"sequence", "capture"} -> first(l, x.items \o tail)
        [] x.op \in Repeats /\ x.a = 0 -> first(first(l, tail), x.items \o tail)
        [] x.op \in Repeats /\ x.a > 0 -> first(l, x.items \o tail)
        [] x.op = "select" /\ x.items = << >> -> l
        [] x.op = "select" /\ x.items # << >> ->
             first(first(l, <<Head(x.items)>> \o tail), <<[x EXCEPT !.items = Tail(@)]>> \o tail)
        [] x.op \in Lookaheads \cup Lookbehinds \cup References \cup {"any"} ->
             <<can_be_anything>>
        [] x.op \in {"string", "character", "char_range", "set", "negate", "negative_set"} ->
             l \o Opening(x)

\* Ends of the number line: smaller and greater than every character.
Least == -1
Greatest == 1114112

\* The gaps between start and the items, in the order they are written: for
\* items out of order, the gaps are too large and never too small.
RECURSIVE negative_helper(_, _)
negative_helper(gaps, items) ==
  IF items = << >> THEN gaps
  ELSE
  LET x == Head(items)
      low == IF x.op = "character" THEN x.c ELSE x.a
      high == IF x.op = "character" THEN x.c ELSE x.b
      beyond == [start |-> high + 1,
                 points |-> IF gaps.start < low THEN gaps.points \cup {<<gaps.start, low - 1>>}
                            ELSE gaps.points]
  IN  negative_helper(IF x.op = "set" THEN negative_helper(gaps, x.items) ELSE beyond, Tail(items))

Complement(items) ==
  LET gaps == negative_helper([start |-> Least, points |-> {}], items)
  IN  gaps.points \cup {<<gaps.start, Greatest>>}

\* The intervals of a point_set populated from one part.
RECURSIVE Points(_)
Points(x) ==
  CASE x.op = "character" -> {<<x.c, x.c>>}
    [] x.op = "char_range" -> {<<x.a, x.b>>}
    [] x.op = "set" -> UNION {Points(x.items[i]) : i \in DOMAIN x.items}
    [] x.op = "negative_set" -> Complement(x.items)
    [] OTHER -> {<<Least, Greatest>>}

populate(l) == UNION {Points(l[i]) : i \in DOMAIN l}

\* Does the interval q meet one of the set?
check(points, q) ==
  \E p \in points :
    \/ p[1] <= q[1] /\ q[1] <= p[2]
    \/ p[1] <= q[2] /\ q[2] <= p[2]
    \/ q[1] <= p[1] /\ p[1] <= q[2]
    \/ q[1] <= p[2] /\ p[2] <= q[2]

\* Can two lists begin with the same character?
collides(a, b) == \E q \in populate(first(<< >>, b)) : check(populate(first(<< >>, a)), q)
=============================================================================
