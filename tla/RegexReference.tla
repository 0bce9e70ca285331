--------------------------- MODULE RegexReference ---------------------------
(***************************************************************************)
(* What a pattern's tree means, as a reference for the engine: all ways it *)
(* matches from a position, the preferred first.  There is no list of what *)
(* is left to match, no flag and no shortcut for possessive repetitions.   *)
(***************************************************************************)
EXTENDS RegexEval

Way(i, r) == <<[at |-> i, captures |-> r]>>
Flatten(ways, More(_)) == FlattenSeq([k \in DOMAIN ways |-> More(ways[k])])

RECURSIVE Ways(_, _, _, _), Times(_, _, _, _, _)

InTurn(items, text, i, r) ==
  FoldLeft(LAMBDA ways, y : Flatten(ways, LAMBDA w : Ways(y, text, w.at, w.captures)),
           Way(i, r), items)

\* From the n-th iteration of a repetition on; no iteration is empty.
Times(x, n, text, i, r) ==
  LET progress(w) == w.at # i
      once == SelectSeq(InTurn(x.items, text, i, r), progress)
      more == IF x.b # 0 /\ n >= x.b THEN << >>
              ELSE Flatten(once, LAMBDA w : Times(x, n + 1, text, w.at, w.captures))
      stop == IF n < x.a THEN << >> ELSE Way(i, r)
  IN  IF x.op = "lazy_repeat" THEN stop \o more ELSE more \o stop

Ways(x, text, i, r) ==
  LET last == Len(text)
      content == InTurn(x.items, text, i, r)
      \* A lookbehind holds its content turned around.
      forward == [k \in DOMAIN x.items |-> rotate(Reverse(x.items)[k])]
      behind == {j \in 0 .. i : \E w \in Range(InTurn(forward, text, j, r)) : w.at = i}
      only(condition, n) == IF condition THEN Way(i + n, r) ELSE << >>
  IN  CASE x.op \in CharacterLike ->
             only(i < last /\ match_char(x, text[i + 1], Flags), 1)
        [] x.op = "any" -> only(i < last, 1)
        [] x.op = "string" -> only(match_string(x.s, text, i, Flags), Len(x.s))
        [] x.op \in References ->
             LET reference == Referenced(x, r)
             IN  only(match_reference(reference, text, i), reference.end - reference.begin)
        [] x.op \in Assertions -> only(Holds(x, text, i, Flags), 0)
        [] x.op = "sequence" -> content
        [] x.op = "select" ->
             FlattenSeq([k \in DOMAIN x.items |-> Ways(x.items[k], text, i, r)])
        [] x.op = "capture" ->
             [k \in DOMAIN content |->
                [content[k] EXCEPT !.captures =
                   end_capture(start_capture(@, x.id, i), x.id, content[k].at)]]
        [] x.op = "possessive_repeat" ->
             LET ways == Times(x, 0, text, i, r) IN SubSeq(ways, 1, 1)
        [] x.op \in {"repeat", "lazy_repeat"} -> Times(x, 0, text, i, r)
        [] x.op = "lookahead_positive" ->
             IF content = << >> THEN << >> ELSE Way(i, content[1].captures)
        [] x.op = "lookahead_negative" -> only(content = << >>, 0)
        [] x.op = "lookbehind_positive" -> only(behind # {}, 0)
        [] x.op = "lookbehind_negative" -> only(behind = {}, 0)

\* The first way from i on, as a match; to the end of the text if whole.
Preferred(x, text, i, r, whole) ==
  LET suits(w) == ~ whole \/ w.at = Len(text)
      ways == SelectSeq(Ways(x, text, i, r), suits)
  IN  IF ways = << >> THEN not_matched(r)
      ELSE matched(set_end(start_capture(ways[1].captures, 0, i), 0, ways[1].at))

Inside(x) == IF "items" \in DOMAIN x THEN Range(x.items) ELSE {}

\* Can the part match without a character?
RECURSIVE MatchesEmpty(_)
MatchesEmpty(x) ==
  \/ x.op \in Assertions \cup References \cup Lookaheads \cup Lookbehinds \cup {"mode_switch"}
  \/ x.op \in Repeats /\ x.a = 0
  \/ x.op = "select" /\ \E y \in Inside(x) : MatchesEmpty(y)
  \/ /\ x.op \in Repeats \cup {"sequence", "capture"}
     /\ \A y \in Inside(x) : MatchesEmpty(y)

\* The patterns the engine promises to match this way: an iteration has only
\* one way to match, since the engine does not backtrack into it, an option is
\* not looked for backwards, and no mode is switched.
RECURSIVE OneWay(_), Plain(_)
OneWay(x) == x.op \notin Repeats \cup {"select"} /\ \A y \in Inside(x) : OneWay(y)
Plain(x) ==
  /\ x.op \notin {"atomic_group", "mode_switch", "reject"}
  /\ x.op \in Repeats \cup Lookbehinds => \A y \in Inside(x) : OneWay(y)
  /\ \A y \in Inside(x) : Plain(y)

\* Does every match pass the beginning of the text, where there is one line?
RECURSIVE Anchored(_)
Anchored(x) ==
  \/ x.op \in {"assert_subject_begin", "assert_line_begin"}
  \/ x.op = "select" /\ \A y \in Inside(x) : Anchored(y)
  \/ /\ x.op \in {"sequence", "capture"} \/ (x.op \in Repeats /\ x.a > 0)
     /\ \E y \in Inside(x) : Anchored(y)

\* Is there an anchor in a repetition other than an optional that may be left
\* out?  The engine takes such a pattern for anchored (the run ctre_anchor).
RECURSIVE SkipsAnchor(_)
SkipsAnchor(x) ==
  \/ x.op \in Repeats /\ x.a = 0 /\ ~ IsOptional(x) /\ \E y \in Inside(x) : Anchored(y)
  \/ \E y \in Inside(x) : SkipsAnchor(y)
=============================================================================
