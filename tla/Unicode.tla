------------------------------ MODULE Unicode ------------------------------
(***************************************************************************)
(* Code units and code points in ctre.hpp: what ctll::fixed_string makes of *)
(* a pattern's literal at compile time, and how utf8_iterator walks along a *)
(* text in UTF-8.  The two decoders have no code in common.                *)
(***************************************************************************)
EXTENDS Integers, SequencesExt

\* The units after the first one of a code point.
IsTrailing(u) == u \in 128..191

-----------------------------------------------------------------------------
(* The pattern: a literal of units to code points; i is the unit to read *)

\* Mutant: the first unit of four keeps one bit of its mark.
length_and_value_wide_mask(u) ==
  CASE u < 128 -> [value |-> u, length |-> 1]
    [] u \in 192..223 -> [value |-> u - 192, length |-> 2]
    [] u \in 224..239 -> [value |-> u - 224, length |-> 3]
    [] u \in 240..247 -> [value |-> u - 224, length |-> 4]
    [] OTHER -> [value |-> 0, length |-> 0]

\* What a first unit says; a length of 0 means it is none.
length_and_value_of_utf8_code_point(u) ==
  CASE u < 128 -> [value |-> u, length |-> 1]
    [] u \in 192..223 -> [value |-> u - 192, length |-> 2]
    [] u \in 224..239 -> [value |-> u - 224, length |-> 3]
    [] u \in 240..247 -> [value |-> u - 240, length |-> 4]
    [] u \in 248..251 -> [value |-> u - 248, length |-> 5]
    [] u \in 252..255 -> [value |-> u % 2, length |-> 6]
    [] OTHER -> [value |-> 0, length |-> 0]

value_of_trailing_utf8_code_point(u) == IF IsTrailing(u) THEN u - 128 ELSE 0

Decoded(content, correct) == [content |-> content, correct |-> correct]

\* A null that ends the literal is not part of it.
Ends(units, i) == i > Len(units) \/ (i = Len(units) /\ units[i] = 0)

\* The units that are missing at the end are passed over.
RECURSIVE FromUtf8(_, _, _)
FromUtf8(units, i, read) ==
  LET info == length_and_value_of_utf8_code_point(units[i])
      trailing == SubSeq(units, i + 1, Min({i + info.length - 1, Len(units)}))
      value == FoldLeft(LAMBDA v, u : (v * 64) + value_of_trailing_utf8_code_point(u),
                        info.value, trailing)
  IN  IF Ends(units, i) THEN read
      ELSE IF info.length = 0 THEN [read EXCEPT !.correct = FALSE]
      ELSE FromUtf8(units, i + info.length,
                    Decoded(Append(read.content, value),
                            read.correct /\ \A k \in DOMAIN trailing : IsTrailing(trailing[k])))

HighSurrogate == 55296..56319
LowSurrogate == 56320..57343

RECURSIVE FromUtf16(_, _, _)
FromUtf16(units, i, read) ==
  IF i > Len(units) THEN read
  ELSE IF units[i] \in HighSurrogate
  THEN IF i = Len(units) THEN read
       ELSE IF units[i + 1] \notin LowSurrogate THEN [read EXCEPT !.correct = FALSE]
       ELSE FromUtf16(units, i + 2, [read EXCEPT !.content =
              Append(@, (units[i] - 55296) * 1024 + (units[i + 1] - 56320) + 65536)])
  ELSE IF Ends(units, i) THEN read
  ELSE FromUtf16(units, i + 1, [read EXCEPT !.content = Append(@, units[i])])

\* The units of a char or char32_t literal are its characters.
FromUnits(units) ==
  Decoded(IF units # << >> /\ Last(units) = 0 THEN Front(units) ELSE units, TRUE)

fixed_string(encoding, units) ==
  LET nothing == Decoded(<< >>, TRUE)
  IN  CASE encoding = "char8_t" -> FromUtf8(units, 1, nothing)
        [] encoding = "char16_t" -> FromUtf16(units, 1, nothing)
        [] encoding \in {"char", "char32_t"} -> FromUnits(units)

-----------------------------------------------------------------------------
(* The text: positions ptr count the units before them *)

mojibake == 65533

\* How many units follow the first one: the table of 5 bits to 2 bits.
Following(u) ==
  CASE u \in 192..223 -> 1 [] u \in 224..239 -> 2 [] u \in 240..247 -> 3 [] OTHER -> 0

Increment8(units, ptr) == ptr + Following(units[ptr + 1]) + 1

\* Mutant: one unit back, whatever it is.
Decrement8Once(units, ptr) == IF ptr > Len(units) THEN Len(units) - 1 ELSE ptr - 1

\* Back over trailing units; from behind the end, to the last unit first.
Decrement8(units, ptr) ==
  LET from == IF ptr > Len(units) THEN Len(units) - 1 ELSE ptr - 1
  IN  Max({j \in 0 .. from : ~ IsTrailing(units[j + 1])})

\* The code point at ptr.
Deref8(units, ptr) ==
  LET u == units[ptr + 1]
      n == Following(u)
      trailing == SubSeq(units, ptr + 2, ptr + 1 + n)
      significant == u % (2 ^ (6 - n))
  IN  CASE u < 128 -> u
        [] u >= 128 /\ (n = 0 \/ ptr + n >= Len(units)) -> mojibake
        [] OTHER ->
             IF \E k \in 1 .. n : ~ IsTrailing(trailing[k]) THEN mojibake
             ELSE FoldLeft(LAMBDA v, t : (v * 64) + (t % 64), significant, trailing)

\* The positions from ptr to the sentinel, which any position behind the text is.
RECURSIVE PositionsFrom(_, _)
PositionsFrom(units, ptr) ==
  IF ptr >= Len(units) THEN <<ptr>> ELSE <<ptr>> \o PositionsFrom(units, Increment8(units, ptr))

\* A text that its first null ends; without one it has no end.
zero_terminated(units) == SubSeq(units, 1, Min({k \in DOMAIN units : units[k] = 0}) - 1)

\* A text as utf8_range presents it.
utf8_range(units) ==
  LET positions == Front(PositionsFrom(units, 0))
  IN  [k \in DOMAIN positions |-> Deref8(units, positions[k])]

\* The same walk backwards from ptr, as reverse iterators do it.
RECURSIVE BackFrom(_, _)
BackFrom(units, ptr) ==
  IF ptr = 0 THEN <<0>> ELSE <<ptr>> \o BackFrom(units, Decrement8(units, ptr))

-----------------------------------------------------------------------------
(* What the encodings are: for reference, and for the literals of a run *)

Continue(v) == 128 + (v % 64)
Utf8Units(c) ==
  CASE c < 128 -> <<c>>
    [] c \in 128..2047 -> <<192 + (c \div 64), Continue(c)>>
    [] c \in 2048..65535 -> <<224 + (c \div 4096), Continue(c \div 64), Continue(c)>>
    [] OTHER -> <<240 + (c \div 262144), Continue(c \div 4096), Continue(c \div 64), Continue(c)>>
Utf16Units(c) ==
  IF c < 65536 THEN <<c>>
  ELSE <<55296 + ((c - 65536) \div 1024), 56320 + ((c - 65536) % 1024)>>

Encode(encoding, text) ==
  CASE encoding = "char8_t" -> FlattenSeq([k \in DOMAIN text |-> Utf8Units(text[k])])
    [] encoding = "char16_t" -> FlattenSeq([k \in DOMAIN text |-> Utf16Units(text[k])])
    [] OTHER -> text
=============================================================================
