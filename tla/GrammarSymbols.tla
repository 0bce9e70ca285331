-------------------------- MODULE GrammarSymbols --------------------------
(***************************************************************************)
(* The characters of patterns and messages.  A character is its code; a    *)
(* grammar rule names it by its glyph, the character after a quote mark,   *)
(* so that the terminal 'd is never taken for a nonterminal d.             *)
(***************************************************************************)
EXTENDS Naturals, Sequences

Printable ==
  << "' ", "'!", "'\"", "'#", "'$", "'%", "'&", "''", "'(", "')", "'*", "'+",
     "',", "'-", "'.", "'/", "'0", "'1", "'2", "'3", "'4", "'5", "'6", "'7",
     "'8", "'9", "':", "';", "'<", "'=", "'>", "'?", "'@", "'A", "'B", "'C",
     "'D", "'E", "'F", "'G", "'H", "'I", "'J", "'K", "'L", "'M", "'N", "'O",
     "'P", "'Q", "'R", "'S", "'T", "'U", "'V", "'W", "'X", "'Y", "'Z", "'[",
     "'\\", "']", "'^", "'_", "backquote", "'a", "'b", "'c", "'d", "'e", "'f", "'g",
     "'h", "'i", "'j", "'k", "'l", "'m", "'n", "'o", "'p", "'q", "'r", "'s",
     "'t", "'u", "'v", "'w", "'x", "'y", "'z", "'{", "'|", "'}", "'~" >>

\* The glyph of a code; no rule of a grammar tells the others apart.  The
\* backquote is named, as a string may not hold it after a quote mark.
Glyph(c) == IF c \in 32..126 THEN Printable[c - 31] ELSE "unprintable"

Codes == [g \in {Printable[i] : i \in DOMAIN Printable} |->
            CHOOSE c \in 32..126 : Printable[c - 31] = g]

\* The code of a printable character, given without the quote mark.
Code(c) == Codes["'" \o c]

\* A text, a string, as the sequence of its codes.
Text(s) == [i \in 1 .. Len(s) |-> Code(SubSeq(s, i, i))]

Glyphs(first, last) == {Glyph(c) : c \in first..last}

Upper == Glyphs(65, 90)
Lower == Glyphs(97, 122)
OneToNine == Glyphs(49, 57)
Digits == Glyphs(48, 57)
HexDigits == Digits \cup Glyphs(65, 70) \cup Glyphs(97, 102)
Letters == Upper \cup Lower \cup {"'_"}

\* What a row of a grammar says of the symbol on the top of the stack.
Push(symbols) == [move |-> "push", symbols |-> symbols]
Reject == [move |-> "reject"]
Epsilon == [move |-> "epsilon"]
PopTop == [move |-> "pop_input"]
Accept == [move |-> "accept"]
=============================================================================
