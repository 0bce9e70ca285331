---------------------------- MODULE RegexMethods ----------------------------
(***************************************************************************)
(* The methods of a regular expression (ctre.hpp, wrapper.hpp): the lists  *)
(* of parts that match, search and starts_with hand to the engine, on the  *)
(* text from place i on.                                                   *)
(***************************************************************************)
EXTENDS RegexEval

no_match(regex) == NoCaptures(find_captures(<<regex>>))

exec(regex, list, text, i, multiline) ==
  evaluate(text, i, [Flags EXCEPT !.multiline = multiline], no_match(regex), list)

match_method(regex, text, i, multiline) ==
  exec(regex, <<start_mark, regex, Leaf("assert_subject_end"), end_mark, accept>>, text, i, multiline)

starts_with_method(regex, text, i, multiline) ==
  exec(regex, <<start_mark, regex, end_mark, accept>>, text, i, multiline)

\* The first match from i on.  A pattern that starts with an anchor is only
\* tried at i; without a match the end of the search is kept, for split.
search_method(regex, text, i, multiline) ==
  LET last == Len(text)
      fixed == starts_with_anchor(multiline, <<regex>>)
      places == IF fixed THEN {i} ELSE i .. last
      at(j) == starts_with_method(regex, text, j, multiline)
      hits == {j \in places : Matched(at(j))}
  IN  IF hits # {} THEN at(Min(hits))
      ELSE set_end(no_match(regex), 0, IF fixed THEN i ELSE last)
=============================================================================
