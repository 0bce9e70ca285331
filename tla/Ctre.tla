-------------------------------- MODULE Ctre --------------------------------
(***************************************************************************)
(* A regular expression of ctre.hpp from its pattern to its matches: the    *)
(* pattern is read by the LL(1) machine (Ctll) with the grammar and the    *)
(* actions of PCRE patterns, and the tree that results is matched against  *)
(* a text at once, iterated over it by range, tokenize and split, or used  *)
(* to filter a sequence of texts.                                          *)
(***************************************************************************)
EXTENDS RegexReference, RegexMethods, PcreGrammar, Unicode

CONSTANTS
  Patterns,    \* the patterns that are read, with what they mean: see Pattern
  Texts,       \* the texts they are applied to: see Exec
  Subjects,    \* the sequences of texts they are applied to
  Methods,     \* the methods used: see Single, Iterating and Filtering
  Multiline,   \* whether the modifier multiline is used: a set of Booleans
  MaxMatches   \* bound: matches of one iteration over a text

Single == {"match", "search", "starts_with"}
Iterating == {"range", "tokenize", "split", "iterator"}
Filtering == "multi_match"

ASSUME CtreAssumption ==
  Methods \subseteq Single \cup Iterating \cup {Filtering} /\ Multiline \subseteq BOOLEAN /\ MaxMatches \in Nat

\* A pattern, a literal of units in an encoding, and the tree its author has
\* in mind, if it is stated.
Pattern(code, literal, tree) == [encoding |-> code, units |-> literal, meaning |-> tree]
Unstated == Leaf("unstated")

VARIABLES
  input, pos, stack, subject, decision,   \* reading the pattern: see Ctll
  phase,          \* "read", "iterate" or "done"
  method, multiline, subjects,            \* what is asked of the pattern
  text,           \* the code points of the text
  current, current_match, last_match,     \* the iterator
  written,        \* history: the pattern as its author wrote it
  from,           \* history: where the last search began, behind the text if none did
  found           \* history: the matches the caller has seen

parserVars == <<input, pos, stack, subject, decision>>
callVars == <<method, multiline, subjects, text>>
iteratorVars == <<current, current_match, last_match, from>>
vars == <<parserVars, written, phase, callVars, iteratorVars, found>>

Parser == INSTANCE Ctll WITH Start <- "s", Rule <- rule, IsAction <- IsAction,
                             Apply <- apply, Rejected <- RejectedSubject

Init ==
  /\ \E p \in Patterns : written = p /\ input = fixed_string(p.encoding, p.units).content
  /\ Parser!ParserInit
  /\ subject = EmptySubject
  /\ phase = "read"
  /\ method = "none" /\ multiline = FALSE /\ subjects = << >> /\ text = << >>
  /\ current = 0 /\ current_match = << >> /\ last_match = FALSE /\ from = 0
  /\ found = << >>

\* The pattern is read at compile time.
Read ==
  /\ phase = "read"
  /\ Parser!ParserNext
  /\ UNCHANGED <<written, phase, callVars, iteratorVars, found>>

\* The regular expression regex_builder makes of a pattern that is accepted.
regex == Head(subject.stack)

\* tokenize iterates with starts_with, the others with search.
exec_method(i) ==
  CASE method' = "match" -> match_method(regex, text', i, multiline')
    [] method' \in {"starts_with", "tokenize"} -> starts_with_method(regex, text', i, multiline')
    [] OTHER -> search_method(regex, text', i, multiline')

\* Mutant: the iterator stays where the match began to be looked for.
StepStays(m) == current_match' = m /\ UNCHANGED <<current, last_match>>

\* The iterator at a match it found, m; split turns the match into the piece
\* before it, and the text behind the last match into the last piece.
Step(m) ==
  IF method' # "split"
  THEN /\ current_match' = m
       /\ current' = IF Matched(m) THEN m[0].end ELSE current
       /\ UNCHANGED last_match
  ELSE LET piece == start_capture(m, 0, current)
       IN  /\ current' = m[0].end
           /\ IF Matched(m)
              THEN /\ current_match' = set_end(piece, 0, m[0].begin)
                   /\ UNCHANGED last_match
              ELSE /\ current_match' = matched(piece)
                   /\ last_match' = TRUE

\* A text is code units, which an overload of exec takes for its characters:
\* all of them, in UTF-8 or not, or those before a null.
Exec(overload, characters) == [type |-> overload, units |-> characters]
Presented(t) ==
  CASE t.type = "u8string_view" -> utf8_range(t.units)
    [] t.type = "string_view" -> t.units
    [] t.type = "char *" -> zero_terminated(t.units)

\* A single method is done at once, the others make a range to iterate over.
PhaseAfter == IF method' \in Single THEN "done" ELSE "iterate"

Call ==
  /\ phase = "read" /\ decision = "accept"
  /\ method' \in Methods \ {Filtering} /\ multiline' \in Multiline
  /\ \E t \in Texts : subjects' = <<t>> /\ text' = Presented(t)
  /\ from' = 0
  /\ Step(exec_method(0))
  /\ phase' = PhaseAfter
  /\ UNCHANGED <<parserVars, written, found>>

\* The iterator over the subjects at the first one from i on that matches: all
\* iterators compare as their position does.
FindFirst(i) ==
  LET at(j) == match_method(regex, Presented(subjects'[j]), 0, multiline')
      hits == {j \in i .. Len(subjects') : Matched(at(j))}
  IN  /\ current' = IF hits = {} THEN Len(subjects') + 1 ELSE Min(hits)
      /\ current_match' = IF hits = {} THEN no_match(regex) ELSE at(Min(hits))
      /\ UNCHANGED <<last_match, from>>

CallForAll ==
  /\ phase = "read" /\ decision = "accept"
  /\ Filtering \in Methods /\ method' = Filtering
  /\ multiline' \in Multiline /\ subjects' \in Subjects
  /\ FindFirst(1)
  /\ phase' = "iterate"
  /\ UNCHANGED <<parserVars, written, text, found>>

\* Does the iterator equal the sentinel?
SubjectsAtEnd == current = Len(subjects) + 1
AtEnd == IF method = Filtering THEN SubjectsAtEnd ELSE ~ Matched(current_match)

\* The caller's loop: it sees the current match and advances the iterator,
\* which ends once the text is used up.
See(result) ==
  /\ phase = "iterate" /\ ~ AtEnd
  /\ Len(found) < MaxMatches
  /\ found' = Append(found, result)
  /\ UNCHANGED <<parserVars, written, phase, callVars>>

\* Mutant: a text that is used up ends a split before its last piece.
IncrementDropsLast ==
  /\ method # Filtering
  /\ See(to_view(current_match))
  /\ IF current = Len(text)
     THEN /\ current_match' = no_match(regex)
          /\ from' = Len(text) + 1
          /\ UNCHANGED <<current, last_match>>
     ELSE /\ from' = current
          /\ Step(exec_method(current))

Increment ==
  /\ method # Filtering
  /\ See(to_view(current_match))
  /\ IF current = Len(text) /\ (method = "split" => last_match)
     THEN /\ current_match' = no_match(regex)
          /\ from' = Len(text) + 1
          /\ UNCHANGED <<current, last_match>>
     ELSE /\ from' = current
          /\ Step(exec_method(current))

\* Mutant: the search for the next subject skips one.
IncrementSubjectTwice ==
  /\ method = Filtering
  /\ See(current)
  /\ FindFirst(current + 2)

IncrementSubject ==
  /\ method = Filtering
  /\ See(current)
  /\ FindFirst(current + 1)

\* The iterator equals the sentinel.
Finish ==
  /\ phase = "iterate" /\ AtEnd
  /\ phase' = "done"
  /\ UNCHANGED <<parserVars, written, callVars, iteratorVars, found>>

Next == Read \/ Call \/ CallForAll \/ Increment \/ IncrementSubject \/ Finish

\* Nothing delays the reading of a pattern.
Spec == Init /\ [][Next]_vars /\ WF_vars(Read)

-----------------------------------------------------------------------------
(* Properties *)

\* The tree the pattern means: the one that is stated, else the one read.
Meant == IF written.meaning = Unstated THEN regex ELSE written.meaning

\* The reference for a search from i.
Expected(i) ==
  LET places == IF method \notin {"match", "starts_with", "tokenize"} THEN i .. Len(text) ELSE {i}
      at(j) == Preferred(Meant, text, j, no_match(regex), method = "match")
      hits == {j \in places : Matched(at(j))}
  IN  IF hits = {} THEN no_match(regex) ELSE at(Min(hits))

\* Every pattern is accepted or rejected: reading ends.
ReadingEnds == <>(decision # "undecided")

\* The captures of an accepted pattern are numbered from 1 on, one for each
\* parenthesis that begins one, in their order: the counter that groups,
\* lookaheads and modes take back is never off.
Capturing(k) ==
  LET at(j) == IF j \in DOMAIN input THEN input[j] ELSE 0
  IN  /\ at(k) = Code("(") /\ at(k - 1) # Code("\\")
      /\ at(k + 1) = Code("?") =>
           at(k + 2) = Code("<") /\ at(k + 3) \notin {Code("="), Code("!")}
CapturesNumbered ==
  decision = "accept" =>
    LET list == find_captures(<<regex>>)
    IN  /\ \A k \in DOMAIN list : list[k].id = k
        /\ Len(list) = Cardinality({k \in DOMAIN input : Capturing(k)})

\* The engine's search finds what the pattern means: the first place of a
\* match and the preferred match there, with its captures.  Neither repetitions
\* that give nothing back lose a match, nor does the single try for a pattern
\* that is taken for anchored, unless the anchor is in a repetition of any number.
Searched == method \notin {"none", "split", Filtering} /\ ~ multiline /\ Plain(Meant) /\ from <= Len(text)
EngineAgrees ==
  (Searched /\ ~ SkipsAnchor(Meant)) =>
    \/ ~ Matched(current_match) /\ ~ Matched(Expected(from))
    \/ current_match = Expected(from)

\* The comment of the analysis (ctre.hpp:2992) says that what is taken for
\* anchored starts with an anchor or has one behind the parts that are empty:
\* then a single try at the place where a search begins loses no match.
AnchorInEveryOption ==
  (Searched /\ starts_with_anchor(multiline, <<regex>>) /\ Matched(Expected(from)))
    => Matched(current_match)

\* The splits by patterns that may match anywhere in a text.
Splits == method = "split" /\ ~ Anchored(Meant) /\ ~ SkipsAnchor(Meant)

\* A split loses no text: its pieces begin at the beginning, end at the end
\* and have a match of the pattern between one and the next.
SplitTiles ==
  (phase = "done" /\ Splits /\ ~ multiline /\ Plain(Meant)) =>
    LET n == Len(found)
        separates(k) == \E w \in Range(Ways(Meant, text, found[k].end, no_match(regex))) :
                          w.at = found[k + 1].begin
    IN  n > 0 /\ found[1].begin = 0 /\ found[n].end = Len(text)
          /\ \A k \in 1 .. n - 1 : separates(k)

\* Iterating over a text comes to an end: for a pattern that matches no empty
\* text, each step moves the iterator towards the end of the text, comes to
\* the last piece of a split or finds no match.  A split by an anchored pattern
\* that does not match stays where it is; one by a pattern that only looks like
\* it, as (?:^a)?b does, must not.
IterationAdvances ==
  [][ (Increment /\ ~ MatchesEmpty(Meant) /\ (method = "split" => Splits)) =>
        \/ current' > current
        \/ last_match' /\ ~ last_match
        \/ ~ Matched(current_match') ]_vars

\* Filtering keeps the subjects that the pattern means to match, each once and
\* in their order, and the result seen with each is its own.
SubjectsFiltered ==
  (method = Filtering /\ ~ multiline /\ Plain(Meant)) =>
    LET meant(j) == Preferred(Meant, Presented(subjects[j]), 0, no_match(regex), TRUE)
        kept == SelectSeq([j \in DOMAIN subjects |-> j], LAMBDA j : Matched(meant(j)))
    IN  /\ phase = "done" => found = kept
        /\ ~ AtEnd => current_match = meant(current)

\* A pattern says the same in every encoding of its literal: the parser reads
\* the code points its author wrote, and nothing is found wrong with them.
PatternAsWritten ==
  /\ Encode(written.encoding, input) = written.units
  /\ fixed_string(written.encoding, written.units).correct

\* A form that is longer than the code point needs, which the walk accepts.
Overlong(units) ==
  \E k \in DOMAIN units :
    \/ units[k] \in {192, 193}
    \/ k < Len(units) /\ units[k] = 224 /\ units[k + 1] < 160
    \/ k < Len(units) /\ units[k] = 240 /\ units[k + 1] < 144

\* The text that is matched is the one in the units, up to forms that are too
\* long: what is no UTF-8 is replaced, never read as another text, and in what
\* is, lookbehinds and boundaries walk back over the places the match came by.
TextAsWritten ==
  (subjects # << >> /\ subjects[1].type = "u8string_view") =>
    LET units == subjects[1].units
        places == PositionsFrom(units, 0)
        read == utf8_range(units)
    IN  ~ Overlong(units) =>
          \/ Contains(read, mojibake)
          \/ /\ Encode("char8_t", read) = units
             /\ Reverse(places) = BackFrom(units, Last(places))
=============================================================================
