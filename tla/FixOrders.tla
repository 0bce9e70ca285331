----------------------------- MODULE FixOrders -----------------------------
(***************************************************************************)
(* From the fields of FIX messages to queued orders: the sessions of       *)
(* SendOrder with the answers that the parser (FixParser) gives them.  The *)
(* matches of the regular expression in a message are a parameter, of      *)
(* which only the meaning of the pattern is known here; FixFields has the  *)
(* engine find them.  What a message means is said by its delimiters.      *)
(***************************************************************************)
EXTENDS SendOrder, FixParser

CONSTANT MatchesOf   \* of each message: the matches that the parser's loop runs over

Messages == UNION {UNION Range(Sends[t]) : t \in Threads}

\* The name and the value of each match: its first and its second capture, which
\* go from one offset up to another.
Part(text, capture) == SubSeq(text, capture.begin + 1, capture.end)
FieldsIn(text, matches) ==
  [k \in DOMAIN matches |-> [name |-> Part(text, matches[k][1]), value |-> Part(text, matches[k][2])]]
FieldsOf(text) == FieldsIn(text, MatchesOf[text])

\* What the parser may make of each message.
Outcome(text, memory) ==
  [text |-> text, throws |-> memory.threw, values |-> IF HasValue(memory) THEN memory.values ELSE Null]
Outcomes == {Outcome(m, parseFixMessage(FieldsOf(m), garbage)) : m \in Messages, garbage \in Uninitialised}

FixSpec == SendSpec(Outcomes)

\* The optional without a value is not one of the tuples.
ASSUME NullAssumption == \A m \in Messages, garbage \in Uninitialised :
  parseFixMessage(FieldsOf(m), garbage).values # Null

-----------------------------------------------------------------------------
(* What a loop over the matches of \x01([^=]+)=([^\x01]+) meets.           *)

SOH == 1
EQUALS == 61

\* The pattern fits at the place d: q is the place of the "=", e the last one of
\* the value, which is as long as it can be.
FitsAt(text, d, q, e) ==
  /\ text[d] = SOH /\ d + 1 < q
  /\ text[q] = EQUALS /\ \A i \in d + 1 .. q - 1 : text[i] # EQUALS
  /\ q < e /\ \A i \in q + 1 .. e : text[i] # SOH
  /\ e < Len(text) => text[e + 1] = SOH
Fits(text, d) == \E q, e \in DOMAIN text : FitsAt(text, d, q, e)

First(match) == match[0].begin + 1
Middle(match) == match[1].end + 1
Final(match) == match[0].end

\* A match is where the pattern fits, and its captures are the two parts.
Spans(text, match) ==
  /\ {First(match), Middle(match), Final(match)} \subseteq DOMAIN text
  /\ FitsAt(text, First(match), Middle(match), Final(match))
  /\ match[1].begin = First(match) /\ match[2].begin = Middle(match) /\ match[2].end = Final(match)

\* Each match is the first one behind its predecessor, and there is none behind
\* the last.
Iterated(text, matches) ==
  LET behind(k) == IF k = 0 THEN 0 ELSE Final(matches[k])
  IN  /\ \A k \in DOMAIN matches :
           /\ Spans(text, matches[k]) /\ behind(k - 1) < First(matches[k])
           /\ \A i \in behind(k - 1) + 1 .. First(matches[k]) - 1 : ~ Fits(text, i)
      /\ \A i \in behind(Len(matches)) + 1 .. Len(text) : ~ Fits(text, i)

ASSUME MatchesAssumption ==
  /\ MatchesOf \in [Messages -> Seq([0..2 -> [begin : Nat, end : Nat, matched : BOOLEAN, name : Seq(Nat)]])]
  /\ \A m \in Messages : Iterated(m, MatchesOf[m])

-----------------------------------------------------------------------------
(* A message by its delimiters: the fields behind the first, each up to    *)
(* the next delimiter.                                                     *)

Delimiters(text) == {i \in DOMAIN text : text[i] = SOH}
Segments(text) == {s \in Delimiters(text) \X Delimiters(text) :
                     s[1] < s[2] /\ ~ \E k \in Delimiters(text) : s[1] < k /\ k < s[2]}

\* The first "=" parts the name from the value; without one there is no value.
EqualsOf(text, s) == Min({i \in s[1] + 1 .. s[2] : text[i] = EQUALS \/ i = s[2]})
Name(text, s) == SubSeq(text, s[1] + 1, EqualsOf(text, s) - 1)
ValueOf(text, s) == SubSeq(text, EqualsOf(text, s) + 1, s[2] - 1)

With(text, v) == {s \in Segments(text) : stoi(Name(text, s)) = Value(Tags[v])}

\* It is well formed if each field is a number, "=" and a value, and the
\* values of the four that are read can be converted.
WellFormed(text) ==
  /\ text # << >> /\ text[Len(text)] = SOH
  /\ \A s \in Segments(text) :
       /\ ValueOf(text, s) # << >> /\ Name(text, s) # << >>
       /\ Range(Name(text, s)) \subseteq DigitCodes /\ ~ stoi(Name(text, s)).throws
  /\ \A v \in DOMAIN Tags : \A s \in With(text, v) : ~ Convert(v, ValueOf(text, s)).throws

\* The value that a well-formed message states for v, the last if it has many;
\* a set, which is empty if it has none.
LastWith(text, v) == {s \in With(text, v) : \A q \in With(text, v) : q[1] <= s[1]}
Stated(text, v) == {Convert(v, ValueOf(text, s)).value : s \in LastWith(text, v)}

-----------------------------------------------------------------------------
(* Properties *)

Meanings == {[text |-> m, px |-> Stated(m, "px"), qty |-> Stated(m, "qty"),
              side_is_buy |-> Stated(m, "side_is_buy"), symbol |-> Stated(m, "symbol")] :
               m \in {x \in Messages : WellFormed(x)}}

\* What the message that t is sending means; nothing if it is not well formed.
Meant(t) == {m \in Meanings : m.text = message[t]}

\* A well-formed message never ends the program, and one with all four fields
\* becomes an order with the values they say, whatever the memory held.
CompleteIsOrdered == \A t \in Threads : \A m \in Meant(t) :
  /\ crashed => \E u \in Threads : message[u] # << >> /\ Meant(u) = {}
  /\ (\A v \in DOMAIN Tags : m[v] # {}) =>
       stage[t] # "idle" /\ \A v \in DOMAIN Tags : values[t][v] \in m[v]

\* Memory that was never written decides about messages that lack a field, and
\* about nothing else: such a message may be ordered, and then with the values
\* that it has; a value nobody wrote stands for a field that is missing.
OnlyMissingIsUnwritten == \A t \in Threads : \A m \in Meant(t) :
  values[t] # Null =>
    \A v \in DOMAIN Tags : IF m[v] # {} THEN values[t][v] \in m[v]
                           ELSE v \in {"px", "qty"} => values[t][v] = Unwritten

-----------------------------------------------------------------------------
(* The inductive invariant *)

\* What a session holds is an answer of the parser to its message, and it goes
\* on to the factory if the answer is a tuple.
AnswerTo(t, o) ==
  o.text = message[t] /\ o.values = values[t] /\ (values[t] # Null => stage[t] # "idle")
Answered == \A t \in Threads :
  \/ message[t] = << >> /\ values[t] = Null
  \/ \E o \in Outcomes : AnswerTo(t, o)

\* Only an exception of the parser ends the program.
ThrownBy == crashed => \E t \in Threads, o \in Outcomes : o.text = message[t] /\ o.throws

\* CompleteIsOrdered and OnlyMissingIsUnwritten follow from these.
FixInv ==
  /\ message \in [Threads -> Messages \cup {<< >>}]
  /\ Answered /\ ThrownBy
=============================================================================
