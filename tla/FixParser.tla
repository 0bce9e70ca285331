----------------------------- MODULE FixParser -----------------------------
(***************************************************************************)
(* fix_parser.hpp behind its regular expression: four of the fields of a   *)
(* FIX message are converted and kept in local variables, of which all but *)
(* the symbol are not initialised.  How a message is cut into fields is    *)
(* the matter of FixFields.                                                *)
(***************************************************************************)
EXTENDS Integers, GrammarSymbols, FiniteSetsExt

CONSTANTS
  IntMax,      \* the largest int; smaller than the build's for TLC
  Unwritten    \* what a local variable holds that was never written

-----------------------------------------------------------------------------
(* std::stoi and std::stod: the number that a text starts with, behind     *)
(* white space and a sign; without a digit, or too large, they throw.      *)

NaN == [throws |-> TRUE, value |-> 0]
Value(n) == [throws |-> FALSE, value |-> n]

SpaceCodes == {9, 10, 11, 12, 13, 32}
DigitCodes == 48..57

\* The part of s before its first element outside of S, and the rest.
Ahead(s, S) ==
  LET n == Min({k \in 1 .. Len(s) + 1 : k > Len(s) \/ s[k] \notin S}) IN SubSeq(s, 1, n - 1)
Behind(s, S) == SubSeq(s, Len(Ahead(s, S)) + 1, Len(s))

Signed(s) == s # << >> /\ s[1] \in {Code("-"), Code("+")}
Sign(s) == IF s # << >> /\ s[1] = Code("-") THEN -1 ELSE 1
Unsigned(s) == IF Signed(s) THEN Tail(s) ELSE s

\* The digits as a number; past IntMax they only count as too large.
Decimal(digits) ==
  LET first[k \in 0 .. Len(digits)] ==
        IF k = 0 THEN 0
        ELSE IF first[k - 1] > IntMax THEN first[k - 1]
        ELSE 10 * first[k - 1] + (digits[k] - 48)
  IN  first[Len(digits)]

stoi(s) ==
  LET number == Behind(s, SpaceCodes)
      digits == Ahead(Unsigned(number), DigitCodes)
      n == Sign(number) * Decimal(digits)
  IN  IF digits = << >> \/ n > IntMax \/ n < -IntMax - 1 THEN NaN ELSE Value(n)

\* In thousandths; exponents, infinities and further decimals do not occur.
stod(s) ==
  LET number == Behind(s, SpaceCodes)
      whole == Ahead(Unsigned(number), DigitCodes)
      rest == Behind(Unsigned(number), DigitCodes)
      decimals == IF rest # << >> /\ rest[1] = Code(".") THEN Ahead(Tail(rest), DigitCodes) ELSE << >>
      padded == SubSeq(decimals \o Text("000"), 1, 3)
  IN  IF whole \o decimals = << >> THEN NaN
      ELSE Value(Sign(number) * (1000 * Decimal(whole) + Decimal(padded)))

-----------------------------------------------------------------------------
(* parseFixMessage                                                         *)

Tags == [px |-> 44, qty |-> 38, side_is_buy |-> 54, symbol |-> 55]

\* What the local variables may hold before anything is written to them.
Uninitialised ==
  [values : [px : {Unwritten}, qty : {Unwritten}, side_is_buy : BOOLEAN, symbol : {<< >>}],
   flags : [DOMAIN Tags -> BOOLEAN],
   threw : {FALSE}]

\* Mutant: a local variable is only written as long as its flag is not set.
KeepFirst(memory, v, result) ==
  IF result.throws THEN [memory EXCEPT !.threw = TRUE]
  ELSE IF memory.flags[v] THEN memory
  ELSE [memory EXCEPT !.values[v] = result.value, !.flags[v] = TRUE]

\* A value for the local variable v, or an exception.
Keep(memory, v, result) ==
  IF result.throws THEN [memory EXCEPT !.threw = TRUE]
  ELSE [memory EXCEPT !.values[v] = result.value, !.flags[v] = TRUE]

\* 2 is buy and 1 is sell: the integer, less one, becomes a bool.
AsSide(n) == IF n.throws THEN n ELSE Value(n.value - 1 # 0)

\* The value of the local variable v, converted from a text.
Convert(v, text) ==
  CASE v = "px" -> stod(text)
    [] v = "qty" -> stoi(text)
    [] v = "side_is_buy" -> AsSide(stoi(text))
    [] v = "symbol" -> Value(text)

\* Mutant: the case of the price falls through into the one of the quantity.
ReadFieldFallsThrough(memory, field) ==
  LET tag == stoi(field.name)
  IN  CASE memory.threw -> memory
        [] ~ memory.threw /\ tag.throws -> [memory EXCEPT !.threw = TRUE]
        [] ~ memory.threw /\ tag = Value(Tags.px) ->
             Keep(Keep(memory, "px", stod(field.value)), "qty", stoi(field.value))
        [] ~ memory.threw /\ tag = Value(Tags.qty) -> Keep(memory, "qty", stoi(field.value))
        [] ~ memory.threw /\ tag = Value(Tags.side_is_buy) ->
             Keep(memory, "side_is_buy", AsSide(stoi(field.value)))
        [] ~ memory.threw /\ tag = Value(Tags.symbol) ->
             Keep(memory, "symbol", Value(field.value))
        [] OTHER -> memory

\* The body of the loop.
ReadField(memory, field) ==
  LET tag == stoi(field.name)
  IN  CASE memory.threw -> memory
        [] ~ memory.threw /\ tag.throws -> [memory EXCEPT !.threw = TRUE]
        [] ~ memory.threw /\ tag = Value(Tags.px) -> Keep(memory, "px", stod(field.value))
        [] ~ memory.threw /\ tag = Value(Tags.qty) -> Keep(memory, "qty", stoi(field.value))
        [] ~ memory.threw /\ tag = Value(Tags.side_is_buy) ->
             Keep(memory, "side_is_buy", AsSide(stoi(field.value)))
        [] ~ memory.threw /\ tag = Value(Tags.symbol) ->
             Keep(memory, "symbol", Value(field.value))
        [] OTHER -> memory

\* The local variables at the end of the loop, for the fields of a message.
parseFixMessage(fields, memory) ==
  LET locals[n \in 0 .. Len(fields)] ==
        IF n = 0 THEN memory ELSE ReadField(locals[n - 1], fields[n])
  IN  locals[Len(fields)]
HasValue(memory) == ~ memory.threw /\ \A v \in DOMAIN Tags : memory.flags[v]
=============================================================================
