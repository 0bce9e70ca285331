------------------------------- MODULE MCCtre -------------------------------
(***************************************************************************)
(* Patterns and texts for Ctre: all pairs and some alternatives of items   *)
(* whose meaning is known, and one pattern for each rule of the grammar.   *)
(***************************************************************************)
EXTENDS Ctre

\* An item: how it is written and what it means; k is the number its capture
\* gets in the pattern.
a == Code("a")
b == Code("b")
Atoms(k) ==
  {[text |-> "a", node |-> Chr(a), captures |-> 0],
   [text |-> "[^b]", node |-> Node("negative_set", <<Chr(b)>>), captures |-> 0],
   [text |-> "(b)", node |-> Capture(k, << >>, <<Chr(b)>>), captures |-> 1],
   [text |-> "(?:ab)", node |-> Str(<<a, b>>), captures |-> 0]}
Quantified(k) ==
  UNION {{x,
          [x EXCEPT !.text = @ \o "*", !.node = Rep("repeat", 0, 0, <<@>>)],
          [x EXCEPT !.text = @ \o "+?", !.node = Rep("lazy_repeat", 1, 0, <<@>>)],
          [x EXCEPT !.text = @ \o "?+", !.node = Rep("possessive_repeat", 0, 1, <<@>>)],
          [x EXCEPT !.text = @ \o "{1,2}", !.node = Rep("repeat", 1, 2, <<@>>)]} : x \in Atoms(k)}
Pairs ==
  {[text |-> p[1].text \o p[2].text, node |-> Node("sequence", <<p[1].node, p[2].node>>)] :
     p \in UNION {{<<x, y>> : y \in Quantified(1 + x.captures)} : x \in Quantified(1)}}
Selects ==
  {[text |-> "^(?:" \o p[1].text \o "|" \o p[2].text \o ")a?",
    node |-> Node("sequence", <<Leaf("assert_line_begin"),
                                Node("select", <<p[1].node, p[2].node>>),
                                Rep("repeat", 0, 1, <<Chr(a)>>)>>)] :
     p \in UNION {{<<x, y>> : y \in Quantified(1 + x.captures)} : x \in Atoms(1)}}

\* What else the grammar knows: classes, sets, escapes, counts, groups,
\* lookarounds, references, modes; and patterns it rejects.
Written ==
  {"", "|a", "a|", "()", "a||b", "(|a)b", "(a|b)|(ab)", "(?:a|)b", "((a)b)(?:(b))\\2",
   "(?:^a)?b", "(?:^a)??b", "(?:^a){0,1}b", "(?:^a)+b", "(?:^|a)b", "(^a)?b", "(?:^)?b", "a?^b", "(?:^a)?^b",
   "^a$", "\\Aab\\Z", "\\Aa\\z", "\\ba", "a\\B", ".\\.", "a{2}b{2,}", "a{0,1}", "(ab?)*", "a{12}",
   "(?<x>a)\\g{x}", "(?<x>a)\\k{x}", "(a)\\g{1}", "(a)\\g{-1}", "(a)(b)\\g{-1}", "(a)\\g{2}",
   "a(?=b)", "a(?!b)", "(?<=a)b", "(?<!ab)b", "(?>a)b", "(?=(a))a", "(?i)Ab", "a(?c)b", "(?s).(?m).",
   "[ab]", "[a-c]b", "[^a-z]", "[]a]", "[^]a]", "[a\\-b]", "[-a]", "[a-]", "[\\d_]", "[[:alpha:]]a",
   "[[:digit:]b]", "[^[:space:]]", "[[:^alnum:]]", "[\\x61b]", "[\\u{62}]", "\\x61b", "\\u{0061}",
   "\\d\\D", "\\s\\S", "\\w\\W", "\\h\\H", "\\v\\V", "\\N", "\\a\\e\\f\\n\\r\\t\\0", "\\{\\}\\(", "\\[\\]\\|",
   "[[:ascii:]][[:blank:]]", "[[:cntrl:]][[:graph:]]", "[[:lower:]][[:upper:]]", "[[:print:]][[:punct:]]",
   "[[:word:]][[:xdigit:]]",
   "a**", "*a", "a)", "(a", "[a", "a{1", "\\", "(?", "[b-a]", "a{,2}", "\\q", "(?<>a)", "[[:foo:]]"}

\* Characters of two, three and four units, in each encoding of a literal.
wide == {233, 8364, 128512}
Encodings == {"char8_t", "char16_t", "char32_t"}
WidePatterns ==
  UNION {{Pattern(e, Encode(e, <<c>> \o Text("?b")),
                  Node("sequence", <<Rep("repeat", 0, 1, <<Chr(c)>>), Chr(b)>>)),
          Pattern(e, Encode(e, Text("[^") \o <<c>> \o Text("]+")),
                  Rep("repeat", 1, 0, <<Node("negative_set", <<Chr(c)>>)>>)),
          Pattern(e, Encode(e, Text("(?<=") \o <<c>> \o Text(").")),
                  Node("sequence", <<Node("lookbehind_positive", <<Chr(c)>>), Leaf("any")>>))} :
         <<c, e>> \in wide \X Encodings}

MCPatterns == {Pattern("char", Text(p.text), p.node) : p \in Pairs \cup Selects}
                \cup {Pattern("char", Text(w), Unstated) : w \in Written} \cup WidePatterns
Skipping == {Pattern("char", Text("(?:^a)*b"), Unstated)}
Plains == {Exec("string_view", t) : t \in UNION {[1 .. n -> {a, b}] : n \in 0 .. 3}}
Terminated == {Exec("char *", t) : t \in {<<b, a, 0>>, <<a, 0, b, 0>>}}
WideTexts == UNION {{Encode("char8_t", <<c, b>>), Encode("char8_t", <<b, c, c>>)} : c \in wide}
IllFormed == {<<128>>, <<233>>, <<195, b>>, <<226, 130>>, <<226, b, 172>>, <<240, 159, 152, b>>}
MCTexts == Plains \cup Terminated \cup {Exec("u8string_view", t) : t \in WideTexts \cup IllFormed}
MCSubjects ==
  {[k \in DOMAIN list |-> Exec("string_view", list[k])] :
     list \in {<< >>, <<<<a, b>>, <<b>>, <<a, b>>, <<a>>>>}}
    \cup {[k \in 1 .. 3 |-> Exec("char *", <<<<b, b, 0>>, <<0>>, <<a, a, 0>>>>[k])]}
=============================================================================
