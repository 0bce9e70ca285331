----------------------------- MODULE RegexEval -----------------------------
(***************************************************************************)
(* The matching engine of ctre.hpp: the overloads of evaluate, which walk   *)
(* a list of parts along a subject, and the captures they carry.  The list *)
(* is a stack; what is left of it is the continuation of its head.         *)
(***************************************************************************)
EXTENDS RegexAnalysis

Flags == [block_empty_match |-> FALSE, multiline |-> FALSE, case_insensitive |-> FALSE]

not_empty_match(f) == [f EXCEPT !.block_empty_match = TRUE]
consumed_something(f, condition) ==
  IF condition THEN [f EXCEPT !.block_empty_match = FALSE] ELSE f

SetMode(f, mode) ==
  CASE mode = "mode_case_insensitive" -> [f EXCEPT !.case_insensitive = TRUE]
    [] mode = "mode_case_sensitive" -> [f EXCEPT !.case_insensitive = FALSE]
    [] mode = "mode_singleline" -> [f EXCEPT !.multiline = FALSE]
    [] mode = "mode_multiline" -> [f EXCEPT !.multiline = TRUE]

\* A letter in the other case.
IsLower(c) == c \in 97..122
IsUpper(c) == c \in 65..90
Swap(c) == IF IsLower(c) THEN c - 32 ELSE c + 32

RECURSIVE match_char(_, _, _)
match_char(x, c, f) ==
  LET some == \E i \in DOMAIN x.items : match_char(x.items[i], c, f)
      cased == \/ IsLower(x.a) /\ IsLower(x.b)
               \/ IsUpper(x.a) /\ IsUpper(x.b)
  IN  CASE x.op = "character" ->
             \/ c = x.c
             \/ f.case_insensitive /\ (IsLower(x.c) \/ IsUpper(x.c)) /\ c = Swap(x.c)
        [] x.op = "char_range" ->
             \/ c \in x.a .. x.b
             \/ f.case_insensitive /\ cased /\ c \in Swap(x.a) .. Swap(x.b)
        [] x.op = "set" -> some
        [] x.op \in {"negate", "negative_set"} -> ~ some

CharacterLike == {"character", "char_range", "set", "negate", "negative_set"}
newline == 10

\* A capture: where it begins and ends, whether it matched and its name.
storage(called) == [begin |-> 0, end |-> 0, matched |-> FALSE, name |-> called]

\* The captures of a match by identifier; 0 is the match itself.
NoCaptures(list) ==
  LET name(k) == IF k = 0 THEN << >> ELSE list[CHOOSE i \in DOMAIN list : list[i].id = k].name
  IN  [k \in {0} \cup {list[i].id : i \in DOMAIN list} |-> storage(name(k))]
not_matched(r) == [k \in DOMAIN r |-> [r[k] EXCEPT !.begin = 0, !.end = 0, !.matched = FALSE]]

Matched(r) == r[0].matched
matched(r) == [r EXCEPT ![0].matched = TRUE]
unmatch(r) == [r EXCEPT ![0].matched = FALSE]
start_capture(r, k, i) == [r EXCEPT ![k].begin = i]
set_end(r, k, i) == [r EXCEPT ![k].end = i]
end_capture(r, k, i) == [r EXCEPT ![k].end = i, ![k].matched = TRUE]

\* What a caller sees of a match.
to_view(r) == r[0]

less_than_or_infinite(limit, n) == limit = 0 \/ n < limit

\* Does an assertion hold at position i?
Assertions == {"assert_subject_begin", "assert_subject_end", "assert_subject_end_line",
               "assert_line_begin", "assert_line_end", "boundary", "empty"}

Holds(x, text, i, f) ==
  LET last == Len(text)
      here(c) == i < last /\ text[i + 1] = c
      word(j) == j \in 1..last /\ match_char(x.items[1], text[j], f)
  IN  CASE x.op = "assert_subject_begin" -> i = 0
        [] x.op = "assert_subject_end" -> i = last
        [] x.op = "assert_subject_end_line" ->
             i = last \/ (f.multiline /\ here(newline) /\ i + 1 = last)
        [] x.op = "assert_line_begin" -> i = 0 \/ (f.multiline /\ text[i] = newline)
        [] x.op = "assert_line_end" -> i = last \/ (f.multiline /\ here(newline))
        [] x.op = "boundary" -> word(i) # word(i + 1)
        [] x.op = "empty" -> TRUE

\* The capture a reference names, by number or by name, and its text.
Referenced(x, r) ==
  IF x.op = "back_reference" THEN r[x.id]
  ELSE r[CHOOSE k \in DOMAIN r :
           r[k].name = x.name /\ \A m \in DOMAIN r : r[m].name = x.name => k <= m]

Captured(text, capture) == SubSeq(text, capture.begin + 1, capture.end)
match_against_range(text, i, range) ==
  i + Len(range) <= Len(text) /\ SubSeq(text, i + 1, i + Len(range)) = range

\* Does the text go on with what the referenced capture, if it matched, holds?
match_reference(reference, text, i) ==
  reference.matched /\ match_against_range(text, i, Captured(text, reference))

\* The content of a capture, with the mark that ends it.
Opened(x) == x.items \o <<numeric_mark(x.id)>>

match_string(s, text, i, f) ==
  /\ i + Len(s) <= Len(text)
  /\ \A k \in DOMAIN s : match_char(Chr(s[k]), text[i + k], f)

RECURSIVE evaluate(_, _, _, _, _), Greedy(_, _, _, _, _, _, _),
          Lazy(_, _, _, _, _, _, _, _), Possessive(_, _, _, _, _, _, _, _),
          Mandatory(_, _, _, _, _, _)

\* One more iteration of a repetition, on its own: it is not backtracked into.
Iteration(x, text, i, f, r) ==
  evaluate(text, i, not_empty_match(f), r, x.items \o <<end_cycle_mark>>)

\* The iterations there must be, from the n-th on.
Mandatory(x, n, text, i, f, r) ==
  IF n >= x.a THEN end_capture(r, 0, i)
  ELSE LET inner == Iteration(x, text, i, f, r)
       IN  IF ~ Matched(inner) THEN not_matched(r)
           ELSE Mandatory(x, n + 1, text, inner[0].end, f, unmatch(inner))

\* As many iterations as there can be, fewer of them if the rest fails.
Greedy(x, n, text, i, f, r, tail) ==
  LET inner == Iteration(x, text, i, f, r)
      longer == Greedy(x, n + 1, text, inner[0].end, f, unmatch(inner), tail)
  IN  IF less_than_or_infinite(x.b, n) /\ Matched(inner) /\ Matched(longer) THEN longer
      ELSE evaluate(text, i, consumed_something(f, TRUE), r, tail)

\* As few as there can be, more of them if the rest fails.
Lazy(x, n, begin, text, i, f, r, tail) ==
  LET outer == evaluate(text, i, consumed_something(f, n # x.a \/ begin # i), r, tail)
      inner == Iteration(x, text, i, f, r)
  IN  IF Matched(outer) THEN outer
      ELSE IF ~ less_than_or_infinite(x.b, n)
      THEN evaluate(text, i, consumed_something(f, TRUE), r, tail)
      ELSE IF ~ Matched(inner) THEN not_matched(r)
      ELSE Lazy(x, n + 1, begin, text, inner[0].end, f, unmatch(inner), tail)

\* As many as there can be, and no fewer when the rest fails.
Possessive(x, n, begin, text, i, f, r, tail) ==
  LET inner == Iteration(x, text, i, f, r)
  IN  IF less_than_or_infinite(x.b, n) /\ Matched(inner)
      THEN Possessive(x, n + 1, begin, text, inner[0].end, f, unmatch(inner), tail)
      ELSE IF less_than_or_infinite(x.b, n) /\ n < x.a THEN not_matched(r)
      ELSE evaluate(text, i, consumed_something(f, begin # i), r, tail)

\* Mutant: what follows a greedy repetition is not looked at.
IsPossessiveAlways(x, tail) == x.op \in {"possessive_repeat", "repeat"}

\* A greedy repetition that what follows cannot take a character from is
\* matched as a possessive one.
IsPossessive(x, tail) ==
  \/ x.op = "possessive_repeat"
  \/ x.op = "repeat" /\ ~ collides(x.items, tail)

Repeat(x, text, i, f, r, tail) ==
  LET required == Mandatory(x, 0, text, i, f, r)
      from == required[0].end
  IN  CASE x.b # 0 /\ x.a > x.b -> not_matched(r)
        [] IsPossessive(x, tail) -> Possessive(x, 0, i, text, i, f, r, tail)
        [] ~ Matched(required) -> not_matched(r)
        [] x.op = "lazy_repeat" -> Lazy(x, x.a, i, text, from, f, unmatch(required), tail)
        [] OTHER -> Greedy(x, x.a, text, from, f, unmatch(required), tail)

\* Looking around: from i on, or backwards along the text before i.
Look(x, text, i, f, r) ==
  IF x.op \in Lookaheads
  THEN evaluate(text, i, f, r, x.items \o <<end_look_mark>>)
  ELSE evaluate(Reverse(text), Len(text) - i, f, r, x.items \o <<end_look_mark>>)

\* The options of a select, in order.
RECURSIVE Select(_, _, _, _, _, _)
Select(options, text, i, f, r, tail) ==
  IF options = << >> THEN not_matched(r)
  ELSE LET out == evaluate(text, i, f, r, <<Head(options)>> \o tail)
       IN  IF Matched(out) THEN out ELSE Select(Tail(options), text, i, f, r, tail)

\* The match of the list at position i, or not_matched.  A part no overload
\* knows, as an atomic group, does not match.
evaluate(text, i, f, r, stack) ==
  LET x == Head(stack)
      tail == Tail(stack)
      go(j, g, q) == evaluate(text, j, g, q, tail)
      look == Look(x, text, i, f, r)
      reference == Referenced(x, r)
      Consume(condition, n) ==
        IF condition THEN go(i + n, consumed_something(f, n > 0), r) ELSE not_matched(r)
  IN  CASE x.op \in {"accept", "end_look_mark"} -> matched(r)
        [] x.op = "start_mark" -> go(i, f, start_capture(r, 0, i))
        [] x.op = "end_mark" -> go(i, f, set_end(r, 0, i))
        [] x.op = "end_cycle_mark" ->
             IF f.block_empty_match THEN not_matched(r) ELSE matched(set_end(r, 0, i))
        [] x.op \in CharacterLike ->
             Consume(i < Len(text) /\ match_char(x, text[i + 1], f), 1)
        [] x.op = "any" ->
             Consume(i < Len(text) /\ (f.multiline => text[i + 1] # newline), 1)
        [] x.op = "string" -> Consume(match_string(x.s, text, i, f), Len(x.s))
        [] x.op \in References ->
             Consume(match_reference(reference, text, i), reference.end - reference.begin)
        [] x.op \in Assertions -> IF Holds(x, text, i, f) THEN go(i, f, r) ELSE not_matched(r)
        [] x.op = "select" -> Select(x.items, text, i, f, r, tail)
        [] x.op = "sequence" -> evaluate(text, i, f, r, x.items \o tail)
        [] x.op = "capture" ->
             evaluate(text, i, f, start_capture(r, x.id, i), Opened(x) \o tail)
        [] x.op = "numeric_mark" -> go(i, f, end_capture(r, x.id, i))
        [] x.op \in Repeats -> Repeat(x, text, i, f, r, tail)
        [] x.op \in {"lookahead_positive", "lookbehind_positive"} ->
             IF Matched(look) THEN go(i, f, unmatch(look)) ELSE not_matched(r)
        [] x.op \in {"lookahead_negative", "lookbehind_negative"} ->
             IF Matched(look) THEN not_matched(r) ELSE go(i, f, r)
        [] x.op = "mode_switch" -> go(i, SetMode(f, x.mode), r)
        [] OTHER -> not_matched(r)
=============================================================================
