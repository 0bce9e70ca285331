---------------------------- MODULE PcreActions ----------------------------
(***************************************************************************)
(* What the semantic actions of the pattern grammar build (ctre.hpp, struct *)
(* pcre_actions).  The subject is a stack of parts of the pattern's tree,   *)
(* its top the head, with the number of captures begun so far.             *)
(***************************************************************************)
EXTENDS GrammarSymbols, Integers, SequencesExt

\* The nodes of the tree; "items" is the node's content in order.
Chr(c) == [op |-> "character", c |-> c]
Str(s) == [op |-> "string", s |-> s]
Node(op, items) == [op |-> op, items |-> items]
Leaf(op) == [op |-> op]
Rng(a, b) == [op |-> "char_range", a |-> a, b |-> b]
Rep(op, a, b, items) == [op |-> op, a |-> a, b |-> b, items |-> items]
Capture(k, name, items) == [op |-> "capture", id |-> k, name |-> name, items |-> items]

Enumeration(codes) == Node("set", [i \in DOMAIN codes |-> Chr(codes[i])])

\* The predefined sets of characters.
digit_chars == Rng(48, 57)
upper_chars == Rng(65, 90)
lower_chars == Rng(97, 122)
alpha_chars == Node("set", <<upper_chars, lower_chars>>)
alphanum_chars == Node("set", <<upper_chars, lower_chars, digit_chars>>)
word_chars == Node("set", <<upper_chars, lower_chars, digit_chars, Chr(95)>>)
space_chars == Enumeration(<<32, 9, 10, 11, 12, 13>>)
vertical_space_chars == Enumeration(<<10, 11, 12, 13, 133, 8232, 8233>>)
horizontal_space_chars ==
  Enumeration(<<9, 32, 160, 5760, 6158, 8192, 8193, 8194, 8195, 8196, 8197, 8198,
                8199, 8200, 8201, 8202, 8239, 8287, 12288>>)
xdigit_chars == Node("set", <<Rng(65, 70), Rng(97, 102), digit_chars>>)
punct_chars == Node("set", <<Rng(33, 47), Rng(58, 64), Rng(91, 96), Rng(123, 126)>>)

ClassChars ==
  [class_digit |-> Node("set", <<digit_chars>>),
   class_nondigit |-> Node("negative_set", <<digit_chars>>),
   class_space |-> Node("set", <<space_chars>>),
   class_nonspace |-> Node("negative_set", <<space_chars>>),
   class_horizontal_space |-> Node("set", <<horizontal_space_chars>>),
   class_non_horizontal_space |-> Node("negative_set", <<horizontal_space_chars>>),
   class_vertical_space |-> Node("set", <<vertical_space_chars>>),
   class_non_vertical_space |-> Node("negative_set", <<vertical_space_chars>>),
   class_word |-> Node("set", <<word_chars>>),
   class_nonword |-> Node("negative_set", <<word_chars>>),
   class_nonnewline |-> Node("negative_set", <<Chr(10)>>)]

NamedChars ==
  [class_named_alnum |-> alphanum_chars, class_named_alpha |-> alpha_chars,
   class_named_digit |-> digit_chars, class_named_ascii |-> Rng(0, 127),
   class_named_blank |-> Enumeration(<<32, 9>>),
   class_named_cntrl |-> Node("set", <<Rng(0, 31), Chr(127)>>),
   class_named_graph |-> Rng(33, 126), class_named_lower |-> lower_chars,
   class_named_upper |-> upper_chars, class_named_print |-> Rng(32, 126),
   class_named_space |-> space_chars, class_named_word |-> word_chars,
   class_named_punct |-> punct_chars, class_named_xdigit |-> xdigit_chars]

EscapeChars ==
  [push_character_alarm |-> 7, push_character_escape |-> 20,
   push_character_formfeed |-> 12, push_character_newline |-> 10,
   push_character_null |-> 0, push_character_return_carriage |-> 13,
   push_character_tab |-> 9]

\* Assertions, any character and the empty pattern; \B pushes the boundary
\* of the complement of a word.
Parts ==
  [push_assert_begin |-> Leaf("assert_line_begin"),
   push_assert_end |-> Leaf("assert_line_end"),
   push_assert_subject_begin |-> Leaf("assert_subject_begin"),
   push_assert_subject_end |-> Leaf("assert_subject_end"),
   push_assert_subject_end_with_lineend |-> Leaf("assert_subject_end_line"),
   push_word_boundary |-> Node("boundary", <<word_chars>>),
   push_not_word_boundary |-> Node("boundary", <<Node("negative_set", <<word_chars>>)>>),
   push_character_anything |-> Leaf("any"),
   push_empty |-> Leaf("empty"),
   start_atomic |-> Leaf("atomic_start"),
   start_lookahead_positive |-> [op |-> "look_start", look |-> "lookahead_positive"],
   start_lookahead_negative |-> [op |-> "look_start", look |-> "lookahead_negative"],
   start_lookbehind_positive |-> [op |-> "look_start", look |-> "lookbehind_positive"],
   start_lookbehind_negative |-> [op |-> "look_start", look |-> "lookbehind_negative"]]

Modes == {"mode_case_insensitive", "mode_case_sensitive", "mode_singleline",
          "mode_multiline"}

\* A pattern that a semantic action rejects, or that has no meaning for an
\* action and does not compile.
RejectedSubject == [stack |-> << >>, counter |-> -1]
EmptySubject == [stack |-> << >>, counter |-> 0]

\* Mutant: the content of a sequence is not taken out of it.
SpliceNested(x) == <<x>>

Splice(x) == IF x.op = "sequence" THEN x.items ELSE <<x>>

Repeats == {"repeat", "lazy_repeat", "possessive_repeat"}

combine_max_repeat_length(a, b) == IF a # 0 /\ b # 0 THEN a + b ELSE 0

\* Two adjacent repetitions of the same content as one; an upper bound of 0
\* is none.  A possessive repetition leaves nothing to the next one.
combine_repeat(x, y) ==
  LET both == combine_max_repeat_length(x.b, y.b)
  IN  CASE x.op # "possessive_repeat" -> Rep(x.op, x.a + y.a, both, x.items)
        [] x.b = 0 /\ y.a > 0 -> Node("sequence", <<Leaf("reject")>> \o x.items)
        [] x.b = 0 /\ y.a = 0 -> x
        [] x.b # 0 /\ y.a = 0 -> Rep(x.op, x.a, both, x.items)
        [] OTHER -> Rep(x.op, x.b + y.a, both, x.items)

SameRepeat(x, y) == x.op \in Repeats /\ x.op = y.op /\ x.items = y.items

\* a followed by b: repetitions of the same content are combined, characters
\* become strings, and sequences stay flat.
make_sequence(b, a) ==
  LET first == b.items[1]
      rest == Tail(b.items)
  IN  CASE SameRepeat(a, b) -> combine_repeat(a, b)
        [] b.op = "sequence" /\ SameRepeat(first, a) ->
             Node("sequence", <<combine_repeat(first, a)>> \o rest)
        [] b.op = "character" /\ a.op = "character" -> Str(<<a.c, b.c>>)
        [] b.op = "string" /\ a.op = "character" -> Str(<<a.c>> \o b.s)
        [] b.op = "sequence" /\ a.op = "character" /\ first.op = "character" ->
             Node("sequence", <<Str(<<a.c, first.c>>)>> \o rest)
        [] b.op = "sequence" /\ a.op = "character" /\ first.op = "string" ->
             Node("sequence", <<Str(<<a.c>> \o first.s)>> \o rest)
        [] OTHER -> Node("sequence", <<a>> \o Splice(b))

make_alternate(b, a) ==
  Node("select", <<a>> \o (IF b.op = "select" THEN b.items ELSE <<b>>))

\* An optional of one item is not wrapped in another, and stays lazy.
make_optional(x) ==
  IF /\ x.op \in {"repeat", "lazy_repeat"}
     /\ x.a = 0 /\ x.b = 1 /\ Len(x.items) = 1
  THEN x
  ELSE Rep("repeat", 0, 1, Splice(x))

\* A lookbehind is matched backwards, so its content is turned around; the
\* options of a select are not.
RECURSIVE rotate(_)
rotate(x) ==
  LET turned == Reverse([i \in DOMAIN x.items |-> rotate(x.items[i])])
  IN  CASE x.op \in Repeats \cup {"capture", "sequence", "atomic_group"} ->
             [x EXCEPT !.items = turned]
        [] x.op = "string" -> Str(Reverse(x.s))
        [] OTHER -> x

look_finish(x, look) ==
  IF look \in {"lookahead_positive", "lookahead_negative"} THEN Node(look, Splice(x))
  ELSE LET items == Splice(x)
       IN  Node(look, Reverse([i \in DOMAIN items |-> rotate(items[i])]))

\* The value of a hexadecimal or decimal digit.
HexValue(v) == IF v \in 97..102 THEN v - 87 ELSE IF v \in 65..70 THEN v - 55 ELSE v - 48

push_back_into_set(x, s) == IF Contains(s.items, x) THEN s
                            ELSE Node("set", Append(s.items, x))

\* Back references name a capture that was begun, or are rejected.
back_reference(action, x, counter) ==
  CASE x.op = "id" -> [op |-> "back_reference_with_name", name |-> x.name]
    [] counter < x.n -> Leaf("none")
    [] action = "make_back_reference" -> [op |-> "back_reference", id |-> x.n]
    [] OTHER -> [op |-> "back_reference", id |-> counter + 1 - x.n]

Number(n) == [op |-> "number", n |-> n]

\* Actions that replace the top of the stack, x, by one part.
Replace1(action, v, x) ==
  CASE action = "make_optional" -> make_optional(x)
    [] action = "repeat_plus" -> Rep("repeat", 1, 0, Splice(x))
    [] action = "repeat_star" -> Rep("repeat", 0, 0, Splice(x))
    [] action = "make_lazy" /\ x.op \in {"repeat", "lazy_repeat"} -> [x EXCEPT !.op = "lazy_repeat"]
    [] action = "make_possessive" /\ x.op = "repeat" -> [x EXCEPT !.op = "possessive_repeat"]
    [] action = "push_hexdec" -> Number(16 * x.n + HexValue(v))
    [] action = "push_number" -> Number(10 * x.n + (v - 48))
    [] action = "finish_hexdec" -> Chr(x.n)
    [] action = "set_start" -> Node("set", <<x>>)
    [] action = "set_make" /\ x.op = "set" -> x
    [] action = "set_make_negative" /\ x.op = "set" -> Node("negative_set", x.items)
    [] action = "negate_class_named" -> Node("negate", <<x>>)
    [] OTHER -> Leaf("none")

\* Actions that replace the top of the stack, x, and the part below it, y.
Replace2(action, x, y) ==
  CASE action = "make_sequence" -> make_sequence(x, y)
    [] action = "make_alternate" -> make_alternate(x, y)
    [] action = "make_capture" -> Capture(y.id, << >>, Splice(x))
    [] action = "make_atomic" -> Node("atomic_group", Splice(x))
    [] action = "look_finish" -> look_finish(x, y.look)
    [] action = "repeat_exactly" -> Rep("repeat", x.n, x.n, Splice(y))
    [] action = "repeat_at_least" -> Rep("repeat", x.n, 0, Splice(y))
    [] action = "set_combine" -> push_back_into_set(x, y)
    [] action = "make_range" /\ x.op = "character" /\ y.op = "character" -> Rng(y.c, x.c)
    [] OTHER -> Leaf("none")

Binary == {"make_sequence", "make_alternate", "make_capture", "make_atomic", "look_finish",
           "repeat_exactly", "repeat_at_least", "set_combine", "make_range"}
Unary == {"make_optional", "repeat_plus", "repeat_star", "make_lazy", "make_possessive",
          "push_hexdec", "push_number", "finish_hexdec", "set_start", "set_make",
          "set_make_negative", "negate_class_named"}

\* Actions that push one part, whatever is on the stack.
PushedPart(action, v) ==
  CASE action \in DOMAIN ClassChars -> ClassChars[action]
    [] action \in DOMAIN NamedChars -> NamedChars[action]
    [] action \in DOMAIN EscapeChars -> Chr(EscapeChars[action])
    [] action \in DOMAIN Parts -> Parts[action]
    [] action = "push_character" -> Chr(v)
    [] action = "create_hexdec" -> Number(0)
    [] action = "create_number" -> Number(v - 48)

Pushing == DOMAIN ClassChars \cup DOMAIN NamedChars \cup DOMAIN EscapeChars \cup DOMAIN Parts
             \cup {"push_character", "create_hexdec", "create_number"}

\* A name grows while its characters are on the top of the stack.
NameOf(kind, characters) == [op |-> kind, name |-> characters]
push_name(s, op, v) ==
  IF s # << >> /\ Head(s).op = op
  THEN <<NameOf(op, Append(Head(s).name, v))>> \o Tail(s)
  ELSE <<NameOf(op, <<v>>)>> \o s

\* The properties of characters need tables that are declared and not defined.
Properties == {"make_property", "make_property_negative"}

Actions == Pushing \cup Unary \cup Binary \cup Modes \cup Properties
             \cup {"push_name", "push_property_name", "push_property_value", "repeat_ab",
                   "prepare_capture", "reset_capture", "make_capture_with_name",
                   "make_back_reference", "make_relative_back_reference"}

IsAction(symbol) == symbol \in Actions

\* How many parts an action takes off the stack; with fewer it does not compile.
Needed(action) ==
  CASE action \in Binary -> 2
    [] action \in {"repeat_ab", "make_capture_with_name"} -> 3
    [] action \in Unary \cup {"reset_capture", "make_back_reference",
                              "make_relative_back_reference"} -> 1
    [] OTHER -> 0

\* The subject with its first n parts replaced by one.
Replace(subject, n, part) ==
  IF part.op = "none" THEN RejectedSubject
  ELSE [subject EXCEPT !.stack = <<part>> \o SubSeq(@, n + 1, Len(@))]

\* A mode, in place of a group that was prepared to capture for it.
apply_mode(mode, subject) ==
  LET s == subject.stack
      switch == [op |-> "mode_switch", mode |-> mode]
  IN  IF s # << >> /\ Head(s).op = "capture_id"
      THEN [stack |-> <<switch>> \o Tail(s), counter |-> subject.counter - 1]
      ELSE [subject EXCEPT !.stack = <<switch>> \o s]

\* One action, with the previous character, on the subject.
apply(action, v, subject) ==
  LET s == subject.stack
      counter == subject.counter
  IN  CASE action \in Pushing -> Replace(subject, 0, PushedPart(action, v))
        [] Len(s) < Needed(action) -> RejectedSubject
        [] action \in Unary -> Replace(subject, 1, Replace1(action, v, s[1]))
        [] action \in Binary -> Replace(subject, 2, Replace2(action, s[1], s[2]))
        [] action = "repeat_ab" -> Replace(subject, 3, Rep("repeat", s[2].n, s[1].n, Splice(s[3])))
        [] action = "push_name" -> [subject EXCEPT !.stack = push_name(s, "id", v)]
        [] action = "push_property_name" ->
             [subject EXCEPT !.stack = push_name(s, "property_name", v)]
        [] action = "push_property_value" ->
             [subject EXCEPT !.stack = push_name(s, "property_value", v)]
        [] action \in Properties -> RejectedSubject
        [] action = "prepare_capture" ->
             [stack |-> <<[op |-> "capture_id", id |-> counter + 1]>> \o s, counter |-> counter + 1]
        [] action = "reset_capture" -> [stack |-> Tail(s), counter |-> counter - 1]
        [] action = "make_capture_with_name" ->
             IF s[2].op = "id" THEN Replace(subject, 3, Capture(s[3].id, s[2].name, Splice(s[1])))
             ELSE RejectedSubject
        [] action \in {"make_back_reference", "make_relative_back_reference"} ->
             Replace(subject, 1, back_reference(action, s[1], counter))
        [] action \in Modes -> apply_mode(action, subject)
=============================================================================
