---------------------------- MODULE PcreGrammar ----------------------------
(***************************************************************************)
(* The grammar of patterns (ctre.hpp, struct pcre): for a nonterminal and  *)
(* the next character, the symbols that replace the nonterminal.  Rows     *)
(* the source repeats for several nonterminals are shared here.            *)
(***************************************************************************)
EXTENDS GrammarSymbols

\* Characters no rule of the grammar names.
_others == {"' ", "'#", "'%", "'&", "''", "';", "'@", "backquote", "'~", "unprintable"}

\* Characters that stand for themselves outside a set.
Literal == _others \cup Letters \cup Digits
             \cup {"'!", "',", "'/", "':", "'<", "'-", "'=", "'>", "'\"", "']"}

\* Characters that stand for themselves inside a set.
InSet == _others \cup Letters \cup Digits
           \cup {"'!", "'$", "'(", "')", "'*", "'+", "',", "'.", "'/", "':", "'<",
                 "'=", "'>", "'?", "'\"", "'{", "'|", "'}"}

\* Characters that a backslash turns into themselves.
Escapable == {"'$", "'(", "')", "'*", "'+", "'-", "'.", "'/", "'<", "'>", "'?",
              "'[", "'\\", "'\"", "']", "'^", "'{", "'|", "'}"}

\* The start of an item, then "rest"; a character that starts none is rejected.
Item(glyph, rest) ==
  CASE glyph = "'\\" -> Push(<<"anything", "backslash", "repeat">> \o rest)
    [] glyph = "'["  -> Push(<<"anything", "c", "repeat">> \o rest)
    [] glyph = "'("  -> Push(<<"anything", "prepare_capture", "block", "repeat">> \o rest)
    [] glyph = "'^"  -> Push(<<"anything", "push_assert_begin", "repeat">> \o rest)
    [] glyph = "'$"  -> Push(<<"anything", "push_assert_end", "repeat">> \o rest)
    [] glyph = "'."  -> Push(<<"anything", "push_character_anything", "repeat">> \o rest)
    [] glyph \in Literal -> Push(<<"anything", "push_character", "repeat">> \o rest)
    [] OTHER -> Reject

Content == <<"string2", "content2">>

ContentRule(n, glyph) ==
  CASE n = "s" /\ glyph = "epsilon" -> Push(<<"push_empty">>)
    [] n \in {"s", "content_in_capture"} /\ glyph = "'|" ->
         Push(<<"anything", "push_empty", "content", "make_alternate">>)
    [] n = "content_in_capture" /\ glyph = "')" -> Push(<<"push_empty">>)
    [] OTHER -> Item(glyph, Content)

\* What follows an alternative's bar.
ARule(glyph) ==
  IF glyph \in {"')", "epsilon"} THEN Push(<<"push_empty", "make_alternate">>)
  ELSE Item(glyph, Content \o <<"make_alternate">>)

\* What follows an opening parenthesis, whose capture is prepared.
BlockRule(glyph) ==
  CASE glyph = "'?" -> Push(<<"anything", "d">>)
    [] glyph = "'|" ->
         Push(<<"anything", "push_empty", "content", "make_alternate", "make_capture", "')">>)
    [] glyph = "')" -> Push(<<"push_empty", "make_capture", "anything">>)
    [] OTHER -> Item(glyph, Content \o <<"make_capture", "')">>)

Content2Rule(glyph) ==
  CASE glyph \in {"')", "epsilon"} -> Epsilon
    [] glyph = "'|" -> Push(<<"anything", "a">>)
    [] OTHER -> Reject

String2Rule(glyph) ==
  IF glyph \in {"')", "'|", "epsilon"} THEN Epsilon
  ELSE Item(glyph, <<"string2", "make_sequence">>)

Class == [d |-> "class_digit", h |-> "class_horizontal_space",
          H |-> "class_non_horizontal_space", V |-> "class_non_vertical_space",
          D |-> "class_nondigit", N |-> "class_nonnewline", S |-> "class_nonspace",
          W |-> "class_nonword", s |-> "class_space", v |-> "class_vertical_space",
          w |-> "class_word"]
Escape == [a |-> "push_character_alarm", e |-> "push_character_escape",
           f |-> "push_character_formfeed", n |-> "push_character_newline",
           r |-> "push_character_return_carriage", t |-> "push_character_tab"]
Mode == [i |-> "mode_case_insensitive", c |-> "mode_case_sensitive",
         m |-> "mode_multiline", s |-> "mode_singleline"]
Assertion == [A |-> "push_assert_subject_begin", z |-> "push_assert_subject_end",
              Z |-> "push_assert_subject_end_with_lineend",
              B |-> "push_not_word_boundary", b |-> "push_word_boundary"]

\* The entry of a table above that is keyed by a character.
Keyed(table, glyph) == {k \in DOMAIN table : glyph = "'" \o k}
Entry(table, glyph) == table[CHOOSE k \in DOMAIN table : glyph = "'" \o k]

\* An escape that denotes one character, then "rest".
CharacterEscape(glyph, rest) ==
  CASE glyph = "'u" -> Push(<<"anything", "k">> \o rest)
    [] glyph = "'x" -> Push(<<"anything", "l">> \o rest)
    [] glyph \in Escapable -> Push(<<"anything", "push_character">> \o rest)
    [] Keyed(Escape, glyph) # {} -> Push(<<"anything", Entry(Escape, glyph)>> \o rest)
    [] glyph = "'0" -> Push(<<"anything", "push_character_null">> \o rest)
    [] OTHER -> Reject

\* An escape that denotes a class of characters.
ClassEscape(glyph) ==
  CASE Keyed(Class, glyph) # {} -> Push(<<"anything", Entry(Class, glyph)>>)
    [] glyph = "'p" -> Push(<<"anything", "'{", "property_name", "'}", "make_property">>)
    [] glyph = "'P" ->
         Push(<<"anything", "'{", "property_name", "'}", "make_property_negative">>)
    [] OTHER -> Reject

BackslashRule(glyph) ==
  CASE glyph \in OneToNine -> Push(<<"anything", "create_number", "make_back_reference">>)
    [] glyph = "'g" -> Push(<<"anything", "'{", "m">>)
    [] Keyed(Assertion, glyph) # {} -> Push(<<"anything", Entry(Assertion, glyph)>>)
    [] ClassEscape(glyph) # Reject -> ClassEscape(glyph)
    [] OTHER -> CharacterEscape(glyph, << >>)

\* An escape at the start of a set or inside one.
SetEscapeRule(glyph) ==
  IF ClassEscape(glyph) # Reject THEN ClassEscape(glyph)
  ELSE CharacterEscape(glyph, <<"range">>)

Named == [xdigit |-> <<"'x", "'d", "'i", "'g", "'i", "'t">>,
          digit |-> <<"'d", "'i", "'g", "'i", "'t">>,
          blank |-> <<"'b", "'l", "'a", "'n", "'k">>,
          cntrl |-> <<"'c", "'n", "'t", "'r", "'l">>,
          word  |-> <<"'w", "'o", "'r", "'d">>,
          lower |-> <<"'l", "'o", "'w", "'e", "'r">>,
          space |-> <<"'s", "'p", "'a", "'c", "'e">>,
          upper |-> <<"'u", "'p", "'p", "'e", "'r">>,
          graph |-> <<"'g", "'r", "'a", "'p", "'h">>]

\* A named class, as in [[:digit:]], after its first character is known.
NamedRule(glyph, rest) ==
  LET names == {n \in DOMAIN Named : Named[n][1] = glyph}
  IN  CASE glyph = "'a" -> Push(<<"anything", "g">> \o rest)
        [] glyph = "'p" -> Push(<<"anything", "h">> \o rest)
        [] names # {} ->
             LET n == CHOOSE n \in names : TRUE
             IN  Push(<<"anything">> \o Tail(Named[n]) \o <<"class_named_" \o n>> \o rest)
        [] OTHER -> Reject

IRule(glyph) ==
  IF glyph = "'^"
  THEN Push(<<"anything", "class_named_name", "negate_class_named", "':", "']">>)
  ELSE NamedRule(glyph, <<"':", "']">>)

\* The named classes that share their first character.
SharedNameRule(n, glyph) ==
  CASE n = "g" /\ glyph = "'s" -> Push(<<"anything", "'c", "'i", "'i", "class_named_ascii">>)
    [] n = "g" /\ glyph = "'l" -> Push(<<"anything", "p">>)
    [] n = "h" /\ glyph = "'r" -> Push(<<"anything", "'i", "'n", "'t", "class_named_print">>)
    [] n = "h" /\ glyph = "'u" -> Push(<<"anything", "'n", "'c", "'t", "class_named_punct">>)
    [] n = "p" /\ glyph = "'p" -> Push(<<"anything", "'h", "'a", "class_named_alpha">>)
    [] n = "p" /\ glyph = "'n" -> Push(<<"anything", "'u", "'m", "class_named_alnum">>)
    [] OTHER -> Reject

SetEnd == <<"set_make", "']">>

\* The first item of a set.
CRule(glyph) ==
  CASE glyph = "'[" ->
         Push(<<"anything", "':", "i", "range", "set_start", "set2b">> \o SetEnd)
    [] glyph = "'\\" -> Push(<<"anything", "e", "set_start", "set2b">> \o SetEnd)
    [] glyph \in InSet ->
         Push(<<"anything", "push_character", "range", "set_start", "set2b">> \o SetEnd)
    [] glyph = "'^" -> Push(<<"anything", "set2a", "set_make_negative", "']">>)
    [] OTHER -> Reject

\* The next item of a set, added to it by "add"; after [^ a caret is an item.
SetItemRule(glyph, add) ==
  CASE glyph = "']" -> Epsilon
    [] glyph = "'[" -> Push(<<"anything", "':", "i", "range", add, "set2b">>)
    [] glyph = "'\\" -> Push(<<"anything", "f", add, "set2b">>)
    [] glyph \in InSet \cup {"'^"} ->
         Push(<<"anything", "push_character", "range", add, "set2b">>)
    [] OTHER -> Reject

RangeRule(glyph) == IF glyph = "'-" THEN Push(<<"anything", "j">>) ELSE Epsilon

\* The upper end of a range of characters.
JRule(glyph) ==
  CASE glyph = "'\\" -> Push(<<"anything", "backslash_range", "make_range">>)
    [] glyph \in InSet \cup {"'^"} -> Push(<<"anything", "push_character", "make_range">>)
    [] OTHER -> Reject

\* What follows (? in a group that captures nothing, or has a name.
DRule(glyph) ==
  CASE Keyed(Mode, glyph) # {} -> Push(<<"anything", Entry(Mode, glyph), "mode_switch2">>)
    [] glyph = "'<" -> Push(<<"anything", "o">>)
    [] glyph = "':" -> Push(<<"anything", "reset_capture", "content_in_capture", "')">>)
    [] glyph = "'>" -> Push(<<"anything", "reset_capture", "start_atomic",
                              "content_in_capture", "make_atomic", "')">>)
    [] glyph = "'!" -> Push(<<"anything", "reset_capture", "start_lookahead_negative",
                              "content_in_capture", "look_finish", "')">>)
    [] glyph = "'=" -> Push(<<"anything", "reset_capture", "start_lookahead_positive",
                              "content_in_capture", "look_finish", "')">>)
    [] OTHER -> Reject

ModeSwitchRule(glyph) ==
  CASE Keyed(Mode, glyph) # {} -> Push(<<"anything", Entry(Mode, glyph), "mode_switch2">>)
    [] glyph = "')" -> Push(<<"anything">>)
    [] OTHER -> Reject

ORule(glyph) ==
  CASE glyph \in Letters -> Push(<<"anything", "push_name", "block_name2", "'>",
                                   "content_in_capture", "make_capture_with_name", "')">>)
    [] glyph = "'!" -> Push(<<"anything", "reset_capture", "start_lookbehind_negative",
                              "content_in_capture", "look_finish", "')">>)
    [] glyph = "'=" -> Push(<<"anything", "reset_capture", "start_lookbehind_positive",
                              "content_in_capture", "look_finish", "')">>)
    [] OTHER -> Reject

\* A hexadecimal code: in braces, or of a fixed number of digits.
HexRule(glyph, digits) ==
  CASE glyph = "'{" -> Push(<<"create_hexdec", "anything", "hexdec", "push_hexdec",
                              "hexdec_repeat", "'}", "finish_hexdec">>)
    [] glyph \in HexDigits ->
         Push(<<"create_hexdec", "anything", "push_hexdec">>
                \o [i \in 1..(2 * (digits - 1)) |-> IF i % 2 = 1 THEN "hexdec" ELSE "push_hexdec"]
                \o <<"finish_hexdec">>)
    [] OTHER -> Reject

\* A back reference in braces: absolute, relative or by name.
MRule(glyph) ==
  CASE glyph \in Digits ->
         Push(<<"anything", "create_number", "number2", "'}", "make_back_reference">>)
    [] glyph = "'-" -> Push(<<"anything", "number", "'}", "make_relative_back_reference">>)
    [] glyph \in Letters ->
         Push(<<"anything", "push_name", "block_name2", "'}", "make_back_reference">>)
    [] OTHER -> Reject

\* What may follow a repetition.
ModRule(glyph) ==
  CASE glyph = "'?" -> Push(<<"anything", "make_lazy">>)
    [] glyph = "'+" -> Push(<<"anything", "make_possessive">>)
    [] glyph \in {"'*", "'{", "'}"} -> Reject
    [] OTHER -> Epsilon

RepeatRule(glyph) ==
  CASE glyph = "'?" -> Push(<<"anything", "make_optional", "mod">>)
    [] glyph = "'{" -> Push(<<"anything", "number", "b">>)
    [] glyph = "'+" -> Push(<<"anything", "repeat_plus", "mod">>)
    [] glyph = "'*" -> Push(<<"anything", "repeat_star", "mod">>)
    [] glyph = "'}" -> Reject
    [] OTHER -> Epsilon

\* The bounds of a repetition in braces.
BoundRule(n, glyph) ==
  CASE n = "b" /\ glyph = "'," -> Push(<<"anything", "n">>)
    [] n = "b" /\ glyph = "'}" -> Push(<<"repeat_exactly", "anything">>)
    [] n = "n" /\ glyph \in Digits ->
         Push(<<"anything", "create_number", "number2", "repeat_ab", "'}", "mod">>)
    [] n = "n" /\ glyph = "'}" -> Push(<<"repeat_at_least", "anything", "mod">>)
    [] n = "number" /\ glyph \in Digits -> Push(<<"anything", "create_number", "number2">>)
    [] OTHER -> Reject

\* Names, numbers and codes of any length: until a character of "ends".
ManyRule(n, glyph, symbols, ends, add) ==
  CASE glyph \in ends -> Epsilon
    [] glyph \in symbols -> Push(<<"anything", add, n>>)
    [] OTHER -> Reject

Words == Letters \cup Digits

PropertyRule(n, glyph) ==
  CASE n = "property_name2" /\ glyph = "'=" -> Push(<<"anything", "property_value">>)
    [] n \in {"property_name2", "property_value2"} /\ glyph = "'}" -> Epsilon
    [] n \in {"property_name", "property_name2"} /\ glyph \in Words \cup {"'."} ->
         Push(<<"anything", "push_property_name", "property_name2">>)
    [] n \in {"property_value", "property_value2"} /\ glyph \in Words \cup {"'."} ->
         Push(<<"anything", "push_property_value", "property_value2">>)
    [] OTHER -> Reject

rule(n, glyph) ==
  CASE n \in {"s", "content", "content_in_capture"} -> ContentRule(n, glyph)
    [] n = "a" -> ARule(glyph)
    [] n = "block" -> BlockRule(glyph)
    [] n = "content2" -> Content2Rule(glyph)
    [] n = "string2" -> String2Rule(glyph)
    [] n = "backslash" -> BackslashRule(glyph)
    [] n = "backslash_range" -> CharacterEscape(glyph, << >>)
    [] n \in {"e", "f"} -> SetEscapeRule(glyph)
    [] n = "class_named_name" -> NamedRule(glyph, << >>)
    [] n = "i" -> IRule(glyph)
    [] n \in {"g", "h", "p"} -> SharedNameRule(n, glyph)
    [] n = "c" -> CRule(glyph)
    [] n = "set2a" -> SetItemRule(glyph, "set_start")
    [] n = "set2b" -> SetItemRule(glyph, "set_combine")
    [] n = "range" -> RangeRule(glyph)
    [] n = "j" -> JRule(glyph)
    [] n = "d" -> DRule(glyph)
    [] n = "mode_switch2" -> ModeSwitchRule(glyph)
    [] n = "o" -> ORule(glyph)
    [] n = "k" -> HexRule(glyph, 4)
    [] n = "l" -> HexRule(glyph, 2)
    [] n = "hexdec_repeat" -> ManyRule(n, glyph, HexDigits, {"'}"}, "push_hexdec")
    [] n = "m" -> MRule(glyph)
    [] n = "mod" -> ModRule(glyph)
    [] n = "repeat" -> RepeatRule(glyph)
    [] n \in {"b", "n", "number"} -> BoundRule(n, glyph)
    [] n = "number2" -> ManyRule(n, glyph, Digits, {"',", "'}"}, "push_number")
    [] n = "block_name2" -> ManyRule(n, glyph, Words, {"'>", "'}"}, "push_name")
    [] n \in {"property_name", "property_name2", "property_value", "property_value2"} ->
         PropertyRule(n, glyph)
    [] OTHER -> Reject
=============================================================================
