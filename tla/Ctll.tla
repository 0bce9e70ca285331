------------------------------- MODULE Ctll -------------------------------
(***************************************************************************)
(* The LL(1) machine that reads a pattern (ctre.hpp, namespace ctll): a     *)
(* stack of grammar symbols, a position in the input, and a subject that   *)
(* the semantic actions found on the stack transform.  As the parser       *)
(* template it is parameterised by the grammar and the actions.            *)
(***************************************************************************)
EXTENDS GrammarSymbols

CONSTANTS Start,           \* the symbol the stack starts with
          Rule(_, _),      \* the grammar: a symbol, and a glyph or "epsilon"
          IsAction(_),     \* is the symbol a semantic action?
          Apply(_, _, _),  \* action, previous term, subject: the new subject
          Rejected         \* the subject of a semantic action that rejects

VARIABLES input,     \* the pattern
          pos,       \* how many characters are consumed
          stack,     \* its top is the head
          subject,
          decision   \* "undecided", "accept" or "reject"

parserVars == <<input, pos, stack, subject, decision>>

get_current_term == IF pos < Len(input) THEN Glyph(input[pos + 1]) ELSE "epsilon"

\* Past the input, and before it, an action sees epsilon.
get_previous_term ==
  IF pos = 0 \/ pos > Len(input) THEN "epsilon" ELSE input[pos]

\* The characters a special symbol of a grammar is constructible from.
Matches(symbol, glyph) ==
  /\ glyph # "epsilon"
  /\ \/ symbol = glyph
     \/ symbol = "anything"
     \/ symbol = "hexdec" /\ glyph \in HexDigits

\* The grammar completed for all other cases.
AugmentedRule(symbol, glyph) ==
  IF symbol = "empty_stack"
  THEN IF glyph = "epsilon" THEN Accept ELSE Reject
  ELSE IF Matches(symbol, glyph) THEN PopTop
  ELSE Rule(symbol, glyph)

top_symbol == IF stack = << >> THEN "empty_stack" ELSE Head(stack)
popped == IF stack = << >> THEN stack ELSE Tail(stack)
move == AugmentedRule(top_symbol, get_current_term)

ParserInit ==
  /\ pos = 0
  /\ stack = <<Start>>
  /\ decision = "undecided"

\* An action on the stack: it changes the subject or rejects the pattern.
ApplyAction ==
  /\ decision = "undecided"
  /\ IsAction(top_symbol)
  /\ LET result == Apply(top_symbol, get_previous_term, subject)
     IN  IF result = Rejected
         THEN /\ decision' = "reject"
              /\ UNCHANGED <<stack, subject>>
         ELSE /\ stack' = popped
              /\ subject' = result
              /\ UNCHANGED decision
  /\ UNCHANGED <<input, pos>>

Reading == decision = "undecided" /\ ~ IsAction(top_symbol)

PopInput ==
  /\ Reading
  /\ move.move = "pop_input"
  /\ pos' = pos + 1
  /\ stack' = popped
  /\ UNCHANGED <<input, subject, decision>>

\* What the rule says is pushed; a rule that begins with the current character
\* consumes it at once ("quick LL(1)").  The overload for rules that begin with
\* anything has a parameter nothing determines and is never chosen.
PushRule ==
  /\ Reading
  /\ move.move = "push"
  /\ LET quick == Head(move.symbols) = get_current_term
     IN  /\ stack' = (IF quick THEN Tail(move.symbols) ELSE move.symbols) \o popped
         /\ pos' = IF quick THEN pos + 1 ELSE pos
  /\ UNCHANGED <<input, subject, decision>>

\* Mutant: the symbol that derives nothing stays on the stack.
SkipKeeping ==
  /\ Reading
  /\ move.move = "epsilon"
  /\ UNCHANGED <<input, pos, stack, subject, decision>>

Skip ==
  /\ Reading
  /\ move.move = "epsilon"
  /\ stack' = popped
  /\ UNCHANGED <<input, pos, subject, decision>>

Decide ==
  /\ Reading
  /\ move.move \in {"accept", "reject"}
  /\ decision' = move.move
  /\ stack' = popped
  /\ UNCHANGED <<input, pos, subject>>

ParserNext == ApplyAction \/ PopInput \/ PushRule \/ Skip \/ Decide
=============================================================================
