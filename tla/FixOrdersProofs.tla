--------------------------- MODULE FixOrdersProofs ---------------------------
(***************************************************************************)
(* Any messages, with any matches of the pattern that follow one another:  *)
(* what the parser makes of them is what they say by their delimiters.     *)
(***************************************************************************)
EXTENDS FixOrders, SendOrderProofs, SumFacts, SequenceTheorems

(* The loop of the parser: the local variables after the first n fields.   *)

LocalsAt(fields, memory, g, n) == IF n = 0 THEN memory ELSE ReadField(g[n - 1], fields[n])
Locals(fields, memory) ==
  CHOOSE g : g = [n \in 0 .. Len(fields) |-> LocalsAt(fields, memory, g, n)]

LEMMA ParserUnfolded ==
  ASSUME NEW fields, NEW memory
  PROVE  parseFixMessage(fields, memory) = Locals(fields, memory)[Len(fields)]
BY DEF parseFixMessage, Locals, LocalsAt

\* There is such a function: one for the first fields can always be extended.
LEMMA LocalsExist ==
  ASSUME NEW fields, Len(fields) \in Nat, NEW memory
  PROVE  Locals(fields, memory) =
           [n \in 0 .. Len(fields) |-> LocalsAt(fields, memory, Locals(fields, memory), n)]
<1> DEFINE last == Len(fields)
           At(g, n) == LocalsAt(fields, memory, g, n)
           Good(k) == \E g : /\ g = [n \in 0 .. last |-> g[n]]
                             /\ \A n \in 0 .. last : n <= k => g[n] = At(g, n)
           B == {k \in Nat : Good(k)}
<1>1. 0 \in B
  <2> DEFINE g0 == [n \in 0 .. last |-> memory]
  <2>1. g0 = [n \in 0 .. last |-> g0[n]]
    OBVIOUS
  <2>2. \A n \in 0 .. last : n <= 0 => g0[n] = At(g0, n)
    BY DEF LocalsAt
  <2> HIDE DEF g0
  <2> QED BY <2>1, <2>2
<1>2. ASSUME NEW k \in Nat, k \in B PROVE k + 1 \in B
  <2>1. PICK g : /\ g = [n \in 0 .. last |-> g[n]]
                 /\ \A n \in 0 .. last : n <= k => g[n] = At(g, n)
    BY <1>2
  <2> DEFINE h == [n \in 0 .. last |-> IF n <= k THEN g[n] ELSE At(g, n)]
  <2>2. h = [n \in 0 .. last |-> h[n]]
    OBVIOUS
  <2>3. \A n \in 0 .. last : h[n] = At(g, n)
    BY <2>1
  <2>4. \A n \in 0 .. last : n <= k => h[n] = g[n]
    OBVIOUS
  <2> HIDE DEF h
  <2>5. ASSUME NEW n \in 0 .. last, n <= k + 1 PROVE h[n] = At(h, n)
    <3>1. CASE n = 0
      BY <3>1, <2>3 DEF LocalsAt
    <3>2. CASE n # 0
      <4>1. n - 1 \in 0 .. last /\ n - 1 <= k
        BY <3>2, <2>5
      <4>2. h[n - 1] = g[n - 1]
        BY <4>1, <2>4
      <4> QED BY <3>2, <4>2, <2>3 DEF LocalsAt
    <3> QED BY <3>1, <3>2
  <2>6. Good(k + 1)
    BY <2>2, <2>5
  <2> HIDE DEF Good
  <2> QED BY <2>6
<1>3. last \in B
  <2> HIDE DEF B
  <2> QED BY <1>1, <1>2, CountUp
<1>4. PICK g : /\ g = [n \in 0 .. last |-> g[n]]
               /\ \A n \in 0 .. last : n <= last => g[n] = At(g, n)
  BY <1>3
<1>5. g = [n \in 0 .. last |-> At(g, n)]
  BY <1>4
<1> QED BY <1>5 DEF Locals

LEMMA LocalsStep ==
  ASSUME NEW fields, Len(fields) \in Nat, NEW memory, NEW n \in 0 .. Len(fields)
  PROVE  Locals(fields, memory)[n] = LocalsAt(fields, memory, Locals(fields, memory), n)
<1>1. ASSUME NEW G, G = [k \in 0 .. Len(fields) |-> LocalsAt(fields, memory, G, k)]
      PROVE  G[n] = LocalsAt(fields, memory, G, n)
  <2>1. [k \in 0 .. Len(fields) |-> LocalsAt(fields, memory, G, k)][n] = LocalsAt(fields, memory, G, n)
    OBVIOUS
  <2> QED BY <1>1, <2>1, Zenon
<1> QED BY <1>1, LocalsExist, Zenon

-----------------------------------------------------------------------------
(* What the parser makes of fields that it can convert.                    *)

Vars == {"px", "qty", "side_is_buy", "symbol"}

\* The fields that are for the local variable v, by their places.
For(fields, v) == {k \in DOMAIN fields : stoi(fields[k].name) = Value(Tags[v])}

\* No field makes it throw.
Readable(fields) ==
  /\ \A k \in DOMAIN fields : ~ stoi(fields[k].name).throws
  /\ \A v \in Vars : \A k \in For(fields, v) : ~ Convert(v, fields[k].value).throws

IsMemory(memory) ==
  /\ DOMAIN memory = {"values", "flags", "threw"}
  /\ DOMAIN memory.values = Vars /\ DOMAIN memory.flags = Vars

LEMMA VarsAre == DOMAIN Tags = Vars
BY DEF Tags, Vars

LEMMA TagsDiffer == \A v, w \in Vars : Value(Tags[v]) = Value(Tags[w]) => v = w
<1>1. \A m, n : Value(m) = Value(n) => m = n
  <2> SUFFICES ASSUME NEW m, NEW n, Value(m) = Value(n) PROVE m = n
    OBVIOUS
  <2>1. Value(m).value = m /\ Value(n).value = n
    BY DEF Value
  <2> QED BY <2>1
<1>2. \A v, w \in Vars : Tags[v] = Tags[w] => v = w
  BY DEF Vars, Tags
<1> QED BY <1>1, <1>2

\* A value that can be converted is kept, and no other is touched.
Kept(r, memory, v, x) ==
  /\ IsMemory(r) /\ ~ r.threw /\ r.values[v] = x /\ r.flags[v]
  /\ \A w \in Vars \ {v} : r.values[w] = memory.values[w] /\ r.flags[w] = memory.flags[w]

LEMMA KeepIs ==
  ASSUME NEW memory, IsMemory(memory), ~ memory.threw, NEW v \in Vars,
         NEW result, ~ result.throws
  PROVE  Kept(Keep(memory, v, result), memory, v, result.value)
BY DEF Kept, Keep, IsMemory

\* One turn of the loop.
LEMMA ReadFieldIs ==
  ASSUME NEW memory, IsMemory(memory), ~ memory.threw,
         NEW field, ~ stoi(field.name).throws,
         \A v \in Vars : stoi(field.name) = Value(Tags[v]) => ~ Convert(v, field.value).throws,
         NEW r, r = ReadField(memory, field)
  PROVE  /\ IsMemory(r) /\ ~ r.threw
         /\ \A v \in Vars :
              IF stoi(field.name) = Value(Tags[v])
              THEN r.values[v] = Convert(v, field.value).value /\ r.flags[v]
              ELSE r.values[v] = memory.values[v] /\ r.flags[v] = memory.flags[v]
<1>1. ASSUME NEW v \in Vars, stoi(field.name) = Value(Tags[v])
      PROVE  r = Keep(memory, v, Convert(v, field.value))
  <2>1. \A w \in Vars : w # v => stoi(field.name) # Value(Tags[w])
    BY <1>1, TagsDiffer
  <2>2. /\ Tags["px"] = Tags.px /\ Tags["qty"] = Tags.qty
        /\ Tags["side_is_buy"] = Tags.side_is_buy /\ Tags["symbol"] = Tags.symbol
    OBVIOUS
  <2>3. CASE v = "px"
    BY <1>1, <2>1, <2>2, <2>3 DEF ReadField, Convert, Vars
  <2>4. CASE v = "qty"
    BY <1>1, <2>1, <2>2, <2>4 DEF ReadField, Convert, Vars
  <2>5. CASE v = "side_is_buy"
    BY <1>1, <2>1, <2>2, <2>5 DEF ReadField, Convert, Vars
  <2>6. CASE v = "symbol"
    BY <1>1, <2>1, <2>2, <2>6 DEF ReadField, Convert, Vars
  <2> QED BY <2>3, <2>4, <2>5, <2>6 DEF Vars
<1>2. CASE \E v \in Vars : stoi(field.name) = Value(Tags[v])
  <2>1. PICK v \in Vars : stoi(field.name) = Value(Tags[v])
    BY <1>2
  <2>2. r = Keep(memory, v, Convert(v, field.value))
    BY <1>1, <2>1
  <2>3. \A w \in Vars : stoi(field.name) = Value(Tags[w]) <=> w = v
    BY <2>1, TagsDiffer
  <2>4. PICK result : result = Convert(v, field.value)
    OBVIOUS
  <2>5. ~ result.throws /\ r = Keep(memory, v, result)
    BY <2>1, <2>2, <2>4
  <2>6. Kept(r, memory, v, result.value)
    BY <2>1, <2>5, KeepIs
  <2>7. ASSUME NEW w \in Vars
        PROVE  IF stoi(field.name) = Value(Tags[w])
               THEN r.values[w] = Convert(w, field.value).value /\ r.flags[w]
               ELSE r.values[w] = memory.values[w] /\ r.flags[w] = memory.flags[w]
    <3>1. CASE w = v
      <4>1. result = Convert(w, field.value)
        BY <2>4, <3>1
      <4> QED BY <2>3, <2>6, <3>1, <4>1 DEF Kept
    <3>2. CASE w # v
      BY <2>3, <2>6, <3>2 DEF Kept
    <3> QED BY <3>1, <3>2
  <2> QED BY <2>6, <2>7 DEF Kept
<1>3. CASE ~ \E v \in Vars : stoi(field.name) = Value(Tags[v])
  <2>1. r = memory
    BY <1>3 DEF ReadField, Vars
  <2> QED BY <1>3, <2>1
<1> QED BY <1>2, <1>3

\* It ends without an exception; each local variable has the value of the last
\* field for it, and the memory's if there is none.
ReadAs(r, fields, memory) ==
  /\ IsMemory(r) /\ ~ r.threw
  /\ \A v \in Vars : For(fields, v) = {} => r.values[v] = memory.values[v]
  /\ \A v \in Vars : \A k \in For(fields, v) :
       (\A j \in For(fields, v) : j <= k) =>
         r.values[v] = Convert(v, fields[k].value).value /\ r.flags[v]

LEMMA ParserIs ==
  ASSUME NEW fields, NEW S, fields \in Seq(S), Readable(fields),
         NEW memory, IsMemory(memory), ~ memory.threw
  PROVE  ReadAs(parseFixMessage(fields, memory), fields, memory)
<1> DEFINE last == Len(fields)
           at == Locals(fields, memory)
           Upto(v, n) == {k \in For(fields, v) : k <= n}
           Good(n) == /\ IsMemory(at[n]) /\ ~ at[n].threw
                      /\ \A v \in Vars : Upto(v, n) = {} => at[n].values[v] = memory.values[v]
                      /\ \A v \in Vars : \A k \in Upto(v, n) :
                           (\A j \in Upto(v, n) : j <= k) =>
                             at[n].values[v] = Convert(v, fields[k].value).value /\ at[n].flags[v]
           B == {n \in Nat : n <= last => Good(n)}
<1>1. last \in Nat /\ DOMAIN fields = 1 .. last
  OBVIOUS
<1>2. \A v : For(fields, v) \subseteq 1 .. last
  BY <1>1 DEF For
<1>3. 0 \in B
  <2>1. at[0] = memory
    BY <1>1, LocalsStep DEF LocalsAt
  <2>2. \A v : Upto(v, 0) = {}
    BY <1>2
  <2> HIDE DEF at
  <2> QED BY <2>1, <2>2
<1>4. ASSUME NEW n \in Nat, n \in B PROVE n + 1 \in B
  <2> HIDE DEF Good
  <2> SUFFICES ASSUME n + 1 <= last PROVE Good(n + 1)
    OBVIOUS
  <2> USE DEF Good
  <2> DEFINE field == fields[n + 1]
  <2>1. Good(n) /\ n + 1 \in 1 .. last /\ n + 1 \in 0 .. last
    BY <1>1, <1>4
  <2>2. at[n + 1] = ReadField(at[n], field)
    <3>1. at[n + 1] = LocalsAt(fields, memory, at, n + 1)
      BY <1>1, <2>1, LocalsStep
    <3> QED BY <3>1 DEF LocalsAt
  <2>3. \A v \in Vars : stoi(field.name) = Value(Tags[v]) <=> n + 1 \in For(fields, v)
    BY <1>1, <2>1 DEF For
  <2>4. /\ ~ stoi(field.name).throws
        /\ \A v \in Vars : stoi(field.name) = Value(Tags[v]) => ~ Convert(v, field.value).throws
    BY <1>1, <2>1, <2>3 DEF Readable
  <2> HIDE DEF at
  <2>5. /\ IsMemory(at[n + 1]) /\ ~ at[n + 1].threw
        /\ \A v \in Vars :
             IF n + 1 \in For(fields, v)
             THEN at[n + 1].values[v] = Convert(v, field.value).value /\ at[n + 1].flags[v]
             ELSE at[n + 1].values[v] = at[n].values[v] /\ at[n + 1].flags[v] = at[n].flags[v]
    <3>1. PICK m, r : m = at[n] /\ r = at[n + 1]
      OBVIOUS
    <3> HIDE DEF field
    <3>2. /\ IsMemory(r) /\ ~ r.threw
          /\ \A v \in Vars :
               IF stoi(field.name) = Value(Tags[v])
               THEN r.values[v] = Convert(v, field.value).value /\ r.flags[v]
               ELSE r.values[v] = m.values[v] /\ r.flags[v] = m.flags[v]
      <4>1. IsMemory(m) /\ ~ m.threw /\ r = ReadField(m, field)
        BY <2>1, <2>2, <3>1
      <4> QED BY <2>4, <4>1, ReadFieldIs
    <3> QED BY <2>3, <3>1, <3>2
  <2>6. \A v \in Vars : n + 1 \notin For(fields, v) => Upto(v, n + 1) = Upto(v, n)
    BY <1>2
  <2>7. \A v \in Vars : Upto(v, n) \subseteq Upto(v, n + 1)
    BY <1>2
  <2>8. ASSUME NEW v \in Vars, NEW k \in Upto(v, n + 1), \A j \in Upto(v, n + 1) : j <= k,
               n + 1 \in For(fields, v)
        PROVE  k = n + 1
    BY <1>2, <2>8
  <2> QED BY <2>1, <2>5, <2>6, <2>8
<1>5. Good(last)
  <2>1. last \in B
    <3> HIDE DEF B
    <3> QED BY <1>1, <1>3, <1>4, CountUp
  <2> QED BY <1>1, <2>1
<1>6. \A v : Upto(v, last) = For(fields, v)
  BY <1>1, <1>2
<1>7. parseFixMessage(fields, memory) = at[last]
  BY ParserUnfolded
<1> HIDE DEF at
<1>8. PICK r : r = at[last]
  OBVIOUS
<1>9. ReadAs(r, fields, memory)
  BY <1>5, <1>6, <1>8 DEF ReadAs
<1> QED BY <1>7, <1>8, <1>9

-----------------------------------------------------------------------------
(* A message by its delimiters.                                            *)

LEMMA SegmentsAre ==
  ASSUME NEW text \in Seq(Nat)
  PROVE  /\ \A s \in Segments(text) : s = <<s[1], s[2]>> /\ s[1] \in DOMAIN text /\ s[2] \in DOMAIN text
         /\ DOMAIN text \subseteq Nat /\ IsFiniteSet(DOMAIN text)
         /\ IsFiniteSet(Segments(text))
<1>1. DOMAIN text = 1 .. Len(text) /\ Len(text) \in Nat
  OBVIOUS
<1>2. IsFiniteSet(1 .. Len(text))
  BY <1>1, FS_Interval
<1>3. PICK D : D = DOMAIN text
  OBVIOUS
<1>4. Segments(text) \subseteq D \X D
  BY <1>3 DEF Segments, Delimiters
<1>5. IsFiniteSet(D \X D)
  BY <1>1, <1>2, <1>3, FS_Product
<1>6. IsFiniteSet(Segments(text))
  BY <1>4, <1>5, FS_Subset
<1>7. \A s \in Segments(text) : s = <<s[1], s[2]>> /\ s[1] \in D /\ s[2] \in D
  BY <1>4
<1> QED BY <1>1, <1>2, <1>3, <1>6, <1>7

\* A field is known by the delimiter before it.
LEMMA SegmentsDiffer ==
  ASSUME NEW text \in Seq(Nat), NEW s \in Segments(text), NEW q \in Segments(text), s[1] = q[1]
  PROVE  s = q
<1>1. s[2] \in Nat /\ q[2] \in Nat /\ s = <<s[1], s[2]>> /\ q = <<q[1], q[2]>>
  BY SegmentsAre
<1>2. /\ s[2] \in Delimiters(text) /\ s[1] < s[2] /\ ~ (q[1] < s[2] /\ s[2] < q[2])
      /\ q[2] \in Delimiters(text) /\ q[1] < q[2] /\ ~ (s[1] < q[2] /\ q[2] < s[2])
  BY DEF Segments
<1>3. s[2] = q[2]
  BY <1>1, <1>2
<1> QED BY <1>1, <1>3

\* The last of the fields that state a value.
LEMMA SomeIsLast ==
  ASSUME NEW text \in Seq(Nat), NEW v, With(text, v) # {}
  PROVE  LastWith(text, v) # {}
<1> DEFINE starts == {s[1] : s \in With(text, v)}
<1>1. With(text, v) \subseteq Segments(text)
  BY DEF With
<1>2. starts \in SUBSET DOMAIN text
  BY <1>1, SegmentsAre
<1>3. IsFiniteSet(starts) /\ starts # {} /\ \A x \in starts : x \in Int
  BY <1>2, SegmentsAre, FS_Subset
<1>4. PICK n \in starts : \A m \in starts : n >= m
  BY <1>3, Largest
<1>5. PICK s \in With(text, v) : s[1] = n
  BY <1>4
<1>6. \A q \in With(text, v) : q[1] <= s[1]
  BY <1>2, <1>4, <1>5, SegmentsAre
<1> QED BY <1>5, <1>6 DEF LastWith

\* The first "=" of a field, or its end.
LEMMA EqualsIs ==
  ASSUME NEW text \in Seq(Nat), NEW s \in Segments(text), NEW q, q = EqualsOf(text, s)
  PROVE  /\ q \in DOMAIN text /\ s[1] < q /\ q <= s[2]
         /\ text[q] = EQUALS \/ q = s[2]
         /\ \A i \in s[1] + 1 .. q - 1 : text[i] # EQUALS
<1> DEFINE S == {i \in s[1] + 1 .. s[2] : text[i] = EQUALS \/ i = s[2]}
<1>1. s[1] \in DOMAIN text /\ s[2] \in DOMAIN text /\ s[1] < s[2]
  BY SegmentsAre DEF Segments
<1>2. DOMAIN text = 1 .. Len(text) /\ Len(text) \in Nat
  OBVIOUS
<1>3. S \in SUBSET DOMAIN text /\ s[2] \in S
  BY <1>1, <1>2
<1>4. IsFiniteSet(S) /\ \A x \in S : x \in Int
  BY <1>3, SegmentsAre, FS_Subset
<1>5. q = Min(S)
  BY DEF EqualsOf
<1>6. q \in S /\ \A y \in S : q <= y
  <2> HIDE DEF S
  <2>1. S # {} /\ IsFiniteSet(S) /\ \A x \in S : x \in Int
    BY <1>3, <1>4
  <2>2. Min(S) \in S /\ \A y \in S : Min(S) <= y
    BY <2>1, Smallest
  <2> QED BY <1>5, <2>2
<1>7. PICK d, e : d = s[1] /\ e = s[2] /\ d \in Nat /\ e \in Nat
  BY <1>1, <1>2
<1>8. q \in d + 1 .. e /\ (text[q] = EQUALS \/ q = e)
  BY <1>6, <1>7
<1>9. \A i \in d + 1 .. e : text[i] = EQUALS => q <= i
  BY <1>6, <1>7
<1>10. \A i \in d + 1 .. q - 1 : text[i] # EQUALS
  <2> SUFFICES ASSUME NEW i \in d + 1 .. q - 1 PROVE text[i] # EQUALS
    OBVIOUS
  <2>1. q \in Int /\ q <= e
    BY <1>7, <1>8
  <2>2. i \in Int /\ d + 1 <= i /\ i < q
    BY <1>7, <2>1
  <2>3. i \in d + 1 .. e /\ ~ (q <= i)
    BY <1>7, <2>1, <2>2
  <2> QED BY <1>9, <2>3
<1> QED BY <1>3, <1>6, <1>7, <1>8, <1>10

\* In a well-formed message the pattern fits at the delimiter before each field,
LEMMA SegmentFits ==
  ASSUME NEW text \in Seq(Nat), WellFormed(text), NEW s \in Segments(text),
         NEW q, q = EqualsOf(text, s)
  PROVE  q \in DOMAIN text /\ s[2] - 1 \in DOMAIN text /\ FitsAt(text, s[1], q, s[2] - 1)
<1>1. /\ q \in DOMAIN text /\ s[1] < q /\ q <= s[2]
      /\ text[q] = EQUALS \/ q = s[2]
      /\ \A i \in s[1] + 1 .. q - 1 : text[i] # EQUALS
  BY EqualsIs
<1>2. /\ s[1] \in DOMAIN text /\ s[2] \in DOMAIN text /\ text[s[1]] = SOH /\ text[s[2]] = SOH
      /\ \A i \in DOMAIN text : text[i] = SOH => ~ (s[1] < i /\ i < s[2])
  BY SegmentsAre DEF Segments, Delimiters
<1>3. DOMAIN text = 1 .. Len(text) /\ Len(text) \in Nat
  OBVIOUS
<1>4. s[1] + 1 < q
  <2>1. SubSeq(text, s[1] + 1, q - 1) # << >>
    BY DEF WellFormed, Name
  <2>2. ~ (q - 1 < s[1] + 1)
    BY <1>1, <1>2, <1>3, <2>1, SubSeqEmpty
  <2> QED BY <1>1, <1>2, <1>3, <2>2
<1>5. q < s[2] - 1
  <2>1. SubSeq(text, q + 1, s[2] - 1) # << >>
    BY DEF WellFormed, ValueOf
  <2>2. ~ (s[2] - 1 < q + 1)
    BY <1>1, <1>2, <1>3, <2>1, SubSeqEmpty
  <2> QED BY <1>1, <1>2, <1>3, <2>2
<1>6. \A i \in q + 1 .. s[2] - 1 : text[i] # SOH
  <2>1. PICK d, e, n : /\ d = s[1] /\ e = s[2] /\ n = Len(text)
                       /\ d \in Nat /\ e \in Nat /\ n \in Nat /\ e <= n
    BY <1>2, <1>3
  <2>2. q \in Nat /\ d < q
    BY <1>1, <1>3, <2>1
  <2>3. ASSUME NEW i \in Int, q < i, i < e PROVE text[i] # SOH
    <3>1. i \in 1 .. Len(text)
      BY <2>1, <2>2, <2>3
    <3>2. d < i
      BY <2>1, <2>2, <2>3
    <3> QED BY <1>2, <1>3, <2>1, <2>3, <3>1, <3>2
  <2>4. q \in Int /\ e \in Int
    BY <2>1, <2>2
  <2>5. \A i \in q + 1 .. e - 1 : i \in Int /\ q < i /\ i < e
    BY <2>4
  <2> QED BY <2>1, <2>3, <2>5
<1>7. s[2] - 1 \in DOMAIN text /\ (s[2] - 1) + 1 = s[2]
  <2>1. PICK e : e = s[2]
    OBVIOUS
  <2>2. q \in Int /\ 1 <= q /\ q < e - 1 /\ e \in Int /\ e <= Len(text)
    BY <1>1, <1>2, <1>3, <1>5, <2>1
  <2>3. e - 1 \in 1 .. Len(text) /\ (e - 1) + 1 = e
    BY <1>3, <2>2
  <2> QED BY <1>3, <2>1, <2>3
<1> QED BY <1>1, <1>2, <1>3, <1>4, <1>5, <1>6, <1>7 DEF FitsAt

\* in one way only,
LEMMA FitUnique ==
  ASSUME NEW text \in Seq(Nat), NEW d \in DOMAIN text,
         NEW q \in DOMAIN text, NEW e \in DOMAIN text, FitsAt(text, d, q, e),
         NEW p \in DOMAIN text, NEW f \in DOMAIN text, FitsAt(text, d, p, f)
  PROVE  q = p /\ e = f
<1>1. DOMAIN text = 1 .. Len(text) /\ Len(text) \in Nat
  OBVIOUS
<1>2. /\ d \in Nat /\ q \in Nat /\ e \in Nat /\ p \in Nat /\ f \in Nat
      /\ e <= Len(text) /\ f <= Len(text)
  BY <1>1
<1>3. /\ d < q /\ d < p /\ q < e /\ p < f /\ text[q] = EQUALS /\ text[p] = EQUALS
      /\ \A i \in d + 1 .. q - 1 : text[i] # EQUALS
      /\ \A i \in d + 1 .. p - 1 : text[i] # EQUALS
  <2>1. d + 1 < q /\ q < e /\ text[q] = EQUALS /\ \A i \in d + 1 .. q - 1 : text[i] # EQUALS
    BY DEF FitsAt
  <2>2. d + 1 < p /\ p < f /\ text[p] = EQUALS /\ \A i \in d + 1 .. p - 1 : text[i] # EQUALS
    BY DEF FitsAt
  <2>3. d < q /\ d < p
    BY <1>2, <2>1, <2>2
  <2> QED BY <2>1, <2>2, <2>3
<1>4. q = p
  <2>1. ~ (q < p)
    <3>1. q < p => q \in d + 1 .. p - 1
      BY <1>2, <1>3
    <3> QED BY <1>3, <3>1
  <2>2. ~ (p < q)
    <3>1. p < q => p \in d + 1 .. q - 1
      BY <1>2, <1>3
    <3> QED BY <1>3, <3>1
  <2> QED BY <1>2, <2>1, <2>2
<1>5. /\ \A i \in q + 1 .. e : text[i] # SOH
      /\ \A i \in p + 1 .. f : text[i] # SOH
      /\ e < Len(text) => text[e + 1] = SOH
      /\ f < Len(text) => text[f + 1] = SOH
  BY DEF FitsAt
<1>6. e = f
  <2>1. ~ (e < f)
    <3>1. e < f => e + 1 \in p + 1 .. f /\ e < Len(text)
      BY <1>1, <1>2, <1>3, <1>4
    <3> QED BY <1>5, <3>1
  <2>2. ~ (f < e)
    <3>1. f < e => f + 1 \in q + 1 .. e /\ f < Len(text)
      BY <1>1, <1>2, <1>3, <1>4
    <3> QED BY <1>5, <3>1
  <2> QED BY <1>2, <2>1, <2>2
<1> QED BY <1>4, <1>6

\* and nowhere else.
LEMMA FitIsSegment ==
  ASSUME NEW text \in Seq(Nat), WellFormed(text), NEW d \in DOMAIN text, Fits(text, d)
  PROVE  \E s \in Segments(text) : s[1] = d
<1> DEFINE S == {i \in Delimiters(text) : d < i}
<1>1. DOMAIN text = 1 .. Len(text) /\ Len(text) \in Nat
  OBVIOUS
<1>2. text[d] = SOH /\ d < Len(text)
  BY <1>1 DEF Fits, FitsAt
<1>3. Len(text) \in S
  BY <1>1, <1>2 DEF WellFormed, Delimiters
<1>4. S \in SUBSET DOMAIN text
  BY DEF Delimiters
<1>5. IsFiniteSet(S) /\ \A x \in S : x \in Int
  BY <1>4, SegmentsAre, FS_Subset
<1>6. PICK n : n = Min(S)
  OBVIOUS
<1>7. n \in S /\ \A y \in S : n <= y
  BY <1>3, <1>5, <1>6, Smallest
<1>8. d \in Delimiters(text) /\ n \in Delimiters(text) /\ d < n
  BY <1>2, <1>7 DEF Delimiters
<1>9. ~ \E k \in Delimiters(text) : d < k /\ k < n
  BY <1>1, <1>4, <1>7, <1>8 DEF Delimiters
<1>10. PICK s : s = <<d, n>>
  OBVIOUS
<1>11. s \in Delimiters(text) \X Delimiters(text) /\ s[1] = d /\ s[2] = n
  BY <1>8, <1>10
<1>12. s \in Segments(text)
  BY <1>8, <1>9, <1>11 DEF Segments
<1> QED BY <1>11, <1>12

-----------------------------------------------------------------------------
(* The matches of a message.                                               *)

Match == [0..2 -> [begin : Nat, end : Nat, matched : BOOLEAN, name : Seq(Nat)]]

\* A match cuts the field s out of the message.
Cuts(text, match, s) ==
  /\ s \in Segments(text)
  /\ First(match) = s[1] /\ Final(match) = s[2] - 1
  /\ Part(text, match[1]) = Name(text, s) /\ Part(text, match[2]) = ValueOf(text, s)

LEMMA MatchCuts ==
  ASSUME NEW text \in Seq(Nat), WellFormed(text), NEW match \in Match, Spans(text, match)
  PROVE  \E s : Cuts(text, match, s)
<1>1. PICK d, p, f : d = First(match) /\ p = Middle(match) /\ f = Final(match)
  OBVIOUS
<1>2. d \in DOMAIN text /\ p \in DOMAIN text /\ f \in DOMAIN text /\ FitsAt(text, d, p, f)
  BY <1>1 DEF Spans
<1>3. Fits(text, d)
  BY <1>2 DEF Fits
<1>4. PICK s \in Segments(text) : s[1] = d
  BY <1>2, <1>3, FitIsSegment
<1>5. PICK q : q = EqualsOf(text, s)
  OBVIOUS
<1>6. q \in DOMAIN text /\ s[2] - 1 \in DOMAIN text /\ FitsAt(text, d, q, s[2] - 1)
  BY <1>4, <1>5, SegmentFits
<1>7. q = p /\ s[2] - 1 = f
  BY <1>2, <1>6, FitUnique
<1>8. match[1].end \in Nat /\ match[1].begin \in Nat /\ match[2].begin \in Nat /\ match[2].end \in Nat
  BY DEF Match
<1>9. match[1].begin = s[1] /\ match[1].end = q - 1 /\ match[2].begin = q /\ match[2].end = s[2] - 1
  <2>1. match[1].begin = d /\ match[2].begin = p /\ match[2].end = f
    BY <1>1 DEF Spans
  <2>2. match[1].end = p - 1
    BY <1>1, <1>8 DEF Middle
  <2> QED BY <1>4, <1>7, <2>1, <2>2
<1>10. Part(text, match[1]) = Name(text, s)
  BY <1>5, <1>9 DEF Part, Name
<1>11. Part(text, match[2]) = ValueOf(text, s)
  BY <1>5, <1>9 DEF Part, ValueOf
<1> QED BY <1>1, <1>4, <1>7, <1>10, <1>11 DEF Cuts

\* What Iterated says, for the first match and for a later one.
LEMMA IteratedIs ==
  ASSUME NEW text \in Seq(Nat), NEW matches \in Seq(Match), Iterated(text, matches)
  PROVE  /\ \A k \in DOMAIN matches : Spans(text, matches[k])
         /\ 1 \in DOMAIN matches => \A i \in 1 .. First(matches[1]) - 1 : ~ Fits(text, i)
         /\ \A k \in DOMAIN matches : k + 1 \in DOMAIN matches =>
              /\ Final(matches[k]) < First(matches[k + 1])
              /\ \A i \in Final(matches[k]) + 1 .. First(matches[k + 1]) - 1 : ~ Fits(text, i)
         /\ IF Len(matches) = 0 THEN \A i \in 1 .. Len(text) : ~ Fits(text, i)
            ELSE \A i \in Final(matches[Len(matches)]) + 1 .. Len(text) : ~ Fits(text, i)
<1>1. DOMAIN matches = 1 .. Len(matches) /\ Len(matches) \in Nat
  OBVIOUS
<1>2. \A k \in DOMAIN matches : k + 1 \in DOMAIN matches => (k + 1) - 1 = k /\ k # 0
  BY <1>1
<1>3. \A k \in DOMAIN matches : Spans(text, matches[k])
  BY DEF Iterated
<1>4. 1 \in DOMAIN matches => \A i \in 1 .. First(matches[1]) - 1 : ~ Fits(text, i)
  BY <1>1 DEF Iterated
<1>5. ASSUME NEW k \in DOMAIN matches, k + 1 \in DOMAIN matches
      PROVE  /\ Final(matches[k]) < First(matches[k + 1])
             /\ \A i \in Final(matches[k]) + 1 .. First(matches[k + 1]) - 1 : ~ Fits(text, i)
  BY <1>2, <1>5 DEF Iterated
<1>6. IF Len(matches) = 0 THEN \A i \in 1 .. Len(text) : ~ Fits(text, i)
      ELSE \A i \in Final(matches[Len(matches)]) + 1 .. Len(text) : ~ Fits(text, i)
  BY DEF Iterated
<1> QED BY <1>3, <1>4, <1>5, <1>6

\* The matches are in the order of the message.
LEMMA MatchesIncrease ==
  ASSUME NEW text \in Seq(Nat), NEW matches \in Seq(Match), Iterated(text, matches),
         NEW j \in DOMAIN matches, NEW k \in DOMAIN matches, j < k
  PROVE  First(matches[j]) < First(matches[k])
<1> DEFINE B == {n \in Nat : j + n + 1 \in DOMAIN matches => First(matches[j]) < First(matches[j + n + 1])}
<1>1. DOMAIN matches = 1 .. Len(matches) /\ Len(matches) \in Nat
  OBVIOUS
<1>2. \A n \in DOMAIN matches : /\ First(matches[n]) \in Int /\ Final(matches[n]) \in Int
                               /\ First(matches[n]) < Final(matches[n])
  <2> SUFFICES ASSUME NEW match \in Match, Spans(text, match)
               PROVE  First(match) \in Int /\ Final(match) \in Int /\ First(match) < Final(match)
    BY IteratedIs
  <2>1. match[0] \in [begin : Nat, end : Nat, matched : BOOLEAN, name : Seq(Nat)]
        /\ match[1] \in [begin : Nat, end : Nat, matched : BOOLEAN, name : Seq(Nat)]
    BY DEF Match
  <2>2. First(match) \in Int /\ Middle(match) \in Int /\ Final(match) \in Int
    <3>1. match[0].begin \in Nat /\ match[0].end \in Nat /\ match[1].end \in Nat
      BY <2>1
    <3> QED BY <3>1 DEF First, Middle, Final
  <2>3. First(match) + 1 < Middle(match) /\ Middle(match) < Final(match)
    BY DEF Spans, FitsAt
  <2> QED BY <2>2, <2>3
<1>3. \A n \in DOMAIN matches : n + 1 \in DOMAIN matches => First(matches[n]) < First(matches[n + 1])
  BY <1>2, IteratedIs
<1>4. 0 \in B
  BY <1>1, <1>3
<1>5. ASSUME NEW n \in Nat, n \in B PROVE n + 1 \in B
  <2> SUFFICES ASSUME j + (n + 1) + 1 \in DOMAIN matches
               PROVE  First(matches[j]) < First(matches[j + (n + 1) + 1])
    OBVIOUS
  <2>1. PICK i : i = j + n + 1
    OBVIOUS
  <2>2. i \in DOMAIN matches /\ i + 1 \in DOMAIN matches /\ i + 1 = j + (n + 1) + 1
    BY <1>1, <2>1
  <2>3. First(matches[j]) < First(matches[i])
    BY <1>5, <2>1, <2>2
  <2>4. First(matches[i]) < First(matches[i + 1])
    BY <1>3, <2>2
  <2>5. First(matches[j]) \in Int /\ First(matches[i]) \in Int /\ First(matches[i + 1]) \in Int
    BY <1>2, <2>2
  <2>6. First(matches[j]) < First(matches[i + 1])
    BY <2>3, <2>4, <2>5
  <2> QED BY <2>2, <2>6
<1>6. k - j - 1 \in Nat
  BY <1>1
<1>7. k - j - 1 \in B
  <2> HIDE DEF B
  <2> QED BY <1>4, <1>5, <1>6, CountUp
<1>8. j + (k - j - 1) + 1 = k
  BY <1>1
<1> QED BY <1>7, <1>8

\* No field of a well-formed message is passed over.
LEMMA EveryFieldMatched ==
  ASSUME NEW text \in Seq(Nat), WellFormed(text),
         NEW matches \in Seq(Match), Iterated(text, matches), NEW s \in Segments(text)
  PROVE  \E k \in DOMAIN matches : First(matches[k]) = s[1]
<1> DEFINE K == {k \in DOMAIN matches : First(matches[k]) <= s[1]}
<1>1. DOMAIN matches = 1 .. Len(matches) /\ Len(matches) \in Nat
  OBVIOUS
<1>2. DOMAIN text = 1 .. Len(text) /\ Len(text) \in Nat /\ s[1] \in DOMAIN text
  BY SegmentsAre
<1>3. Fits(text, s[1])
  BY SegmentFits DEF Fits
<1>4. \A k \in DOMAIN matches : First(matches[k]) \in Int /\ Final(matches[k]) \in Int
  <2> SUFFICES ASSUME NEW match \in Match PROVE First(match) \in Int /\ Final(match) \in Int
    OBVIOUS
  <2> QED BY DEF Match, First, Final
<1>5. K # {}
  <2> SUFFICES ASSUME K = {} PROVE FALSE
    OBVIOUS
  <2>1. CASE Len(matches) = 0
    BY <1>2, <1>3, <2>1, IteratedIs
  <2>2. CASE Len(matches) # 0
    <3>1. 1 \in DOMAIN matches /\ 1 \notin K
      BY <1>1, <2>2
    <3>2. s[1] \in 1 .. First(matches[1]) - 1
      BY <1>2, <1>4, <3>1
    <3> QED BY <1>3, <3>1, <3>2, IteratedIs
  <2> QED BY <2>1, <2>2
<1>6. IsFiniteSet(K) /\ \A k \in K : k \in Int
  <2>1. IsFiniteSet(1 .. Len(matches))
    BY <1>1, FS_Interval
  <2> QED BY <1>1, <2>1, FS_Subset
<1>7. PICK k : k = Max(K)
  OBVIOUS
<1>8. k \in K /\ \A j \in K : j <= k
  <2>1. k \in K /\ \A j \in K : k >= j
    BY <1>5, <1>6, <1>7, Largest
  <2> QED BY <1>6, <2>1
<1>9. SUFFICES ASSUME First(matches[k]) < s[1] PROVE FALSE
  BY <1>2, <1>4, <1>8
<1>10. Final(matches[k]) < s[1]
  <2>1. Spans(text, matches[k]) /\ matches[k] \in Match
    BY <1>8, IteratedIs
  <2>2. PICK z : Cuts(text, matches[k], z)
    BY <2>1, MatchCuts
  <2>3. z \in Segments(text) /\ z[1] < s[1] /\ Final(matches[k]) = z[2] - 1
    BY <1>9, <2>2 DEF Cuts
  <2>4. z[1] \in Nat /\ z[2] \in Nat /\ s[1] \in Nat /\ s[1] \in Delimiters(text)
    BY <2>3, SegmentsAre DEF Segments
  <2>5. ~ (z[1] < s[1] /\ s[1] < z[2])
    BY <2>3, <2>4 DEF Segments
  <2> QED BY <2>3, <2>4, <2>5
<1>11. CASE k = Len(matches)
  <2>1. s[1] \in Final(matches[k]) + 1 .. Len(text) /\ Len(matches) # 0
    BY <1>1, <1>2, <1>4, <1>8, <1>10, <1>11
  <2> QED BY <1>3, <1>11, <2>1, IteratedIs
<1>12. CASE k # Len(matches)
  <2>1. k \in DOMAIN matches /\ k + 1 \in DOMAIN matches /\ k + 1 \notin K
    BY <1>1, <1>8, <1>12
  <2>2. s[1] \in Final(matches[k]) + 1 .. First(matches[k + 1]) - 1
    BY <1>2, <1>4, <1>10, <2>1
  <2> QED BY <1>3, <2>1, <2>2, IteratedIs
<1> QED BY <1>11, <1>12

\* The fields that the parser reads are those between the delimiters; of the ones
\* for v, the last that it reads is the last of the message.
LEMMA FieldsStated ==
  ASSUME NEW text \in Seq(Nat), WellFormed(text),
         NEW matches \in Seq(Match), Iterated(text, matches),
         NEW fields, fields = FieldsIn(text, matches), NEW v \in Vars
  PROVE  /\ \A k \in DOMAIN fields : \E s \in Segments(text) :
              fields[k].name = Name(text, s) /\ fields[k].value = ValueOf(text, s)
         /\ With(text, v) = {} => For(fields, v) = {}
         /\ \A s \in LastWith(text, v) : \E k \in For(fields, v) :
              /\ fields[k].value = ValueOf(text, s)
              /\ \A j \in For(fields, v) : j <= k
<1>1. /\ DOMAIN fields = DOMAIN matches
      /\ \A k \in DOMAIN matches : /\ fields[k].name = Part(text, matches[k][1])
                                  /\ fields[k].value = Part(text, matches[k][2])
  BY DEF FieldsIn
<1>2. ASSUME NEW k \in DOMAIN matches, NEW s, Cuts(text, matches[k], s)
      PROVE  /\ s \in Segments(text) /\ First(matches[k]) = s[1]
             /\ fields[k].name = Name(text, s) /\ fields[k].value = ValueOf(text, s)
  BY <1>1, <1>2 DEF Cuts
<1>3. \A k \in DOMAIN matches : \E s : Cuts(text, matches[k], s)
  <2> SUFFICES ASSUME NEW k \in DOMAIN matches PROVE \E s : Cuts(text, matches[k], s)
    OBVIOUS
  <2>1. matches[k] \in Match /\ Spans(text, matches[k])
    BY IteratedIs
  <2> QED BY <2>1, MatchCuts
<1>4. \A k \in DOMAIN fields : \E s \in Segments(text) :
        fields[k].name = Name(text, s) /\ fields[k].value = ValueOf(text, s)
  BY <1>1, <1>2, <1>3
<1>5. ASSUME NEW k \in For(fields, v), NEW s, Cuts(text, matches[k], s) PROVE s \in With(text, v)
  BY <1>1, <1>2, <1>5 DEF For, With
<1>6. With(text, v) = {} => For(fields, v) = {}
  BY <1>1, <1>3, <1>5 DEF For
<1>7. ASSUME NEW s \in LastWith(text, v)
      PROVE  \E k \in For(fields, v) : /\ fields[k].value = ValueOf(text, s)
                                       /\ \A j \in For(fields, v) : j <= k
  <2>1. s \in With(text, v) /\ s \in Segments(text) /\ \A q \in With(text, v) : q[1] <= s[1]
    BY DEF LastWith, With
  <2>2. PICK k \in DOMAIN matches : First(matches[k]) = s[1]
    BY <2>1, EveryFieldMatched
  <2>3. PICK z : Cuts(text, matches[k], z)
    BY <1>3
  <2>4. z = s
    BY <1>2, <2>1, <2>2, <2>3, SegmentsDiffer
  <2>5. k \in For(fields, v) /\ fields[k].value = ValueOf(text, s)
    BY <1>1, <1>2, <2>1, <2>3, <2>4 DEF For, With
  <2>6. ASSUME NEW j \in For(fields, v) PROVE j <= k
    <3>1. j \in DOMAIN matches
      BY <1>1 DEF For
    <3>2. PICK q : Cuts(text, matches[j], q)
      BY <1>3, <3>1
    <3>3. First(matches[j]) = q[1] /\ q[1] <= s[1] /\ q \in Segments(text)
      BY <1>2, <1>5, <2>1, <3>1, <3>2
    <3>4. ~ (k < j)
      <4>1. q[1] \in Nat /\ s[1] \in Nat
        BY <2>1, <3>3, SegmentsAre
      <4> QED BY <2>2, <3>1, <3>3, <4>1, MatchesIncrease
    <3> QED BY <3>1, <3>4
  <2> QED BY <2>5, <2>6
<1> QED BY <1>4, <1>6, <1>7

LEMMA MessagesAreTexts == Messages \subseteq Seq(Nat)
<1> SUFFICES ASSUME NEW t \in Threads, NEW S \in Range(Sends[t]), NEW m \in S PROVE m \in Seq(Nat)
  BY DEF Messages
<1>1. Sends[t] \in Seq(SUBSET Seq(Nat))
  BY SendsAssumption
<1>2. S \in SUBSET Seq(Nat)
  BY <1>1 DEF Range
<1> QED BY <1>2

LEMMA MemoryTyped == \A garbage \in Uninitialised : IsMemory(garbage) /\ ~ garbage.threw
BY DEF Uninitialised, IsMemory, Vars, Tags

\* The fields of a message, and what they are cut from.
LEMMA FieldsAre ==
  ASSUME NEW m \in Messages, NEW fields, fields = FieldsOf(m)
  PROVE  \E matches \in Seq(Match) : /\ Iterated(m, matches) /\ fields = FieldsIn(m, matches)
                                     /\ DOMAIN fields = DOMAIN matches
                                     /\ \E S : fields \in Seq(S)
<1>1. PICK matches : matches = MatchesOf[m]
  OBVIOUS
<1>2. matches \in Seq(Match) /\ Iterated(m, matches)
  BY <1>1, MatchesAssumption DEF Match
<1>3. fields = FieldsIn(m, matches)
  BY <1>1 DEF FieldsOf
<1>4. DOMAIN matches = 1 .. Len(matches) /\ Len(matches) \in Nat
  BY <1>2
<1>5. fields = [k \in 1 .. Len(matches) |-> fields[k]]
  BY <1>3, <1>4 DEF FieldsIn
<1>6. PICK S : S = {fields[k] : k \in 1 .. Len(matches)}
  OBVIOUS
<1>7. fields \in [1 .. Len(matches) -> S]
  BY <1>5, <1>6
<1>8. fields \in Seq(S)
  BY <1>4, <1>7
<1> QED BY <1>2, <1>3, <1>4, <1>5, <1>8

\* The empty text has no fields, and nothing to throw at.
LEMMA EmptyIsHarmless ==
  ASSUME << >> \in Messages, NEW garbage \in Uninitialised
  PROVE  ~ parseFixMessage(FieldsOf(<< >>), garbage).threw
<1>1. PICK fields : fields = FieldsOf(<< >>)
  OBVIOUS
<1>2. PICK matches \in Seq(Match) : /\ Iterated(<< >>, matches) /\ fields = FieldsIn(<< >>, matches)
                                    /\ DOMAIN fields = DOMAIN matches
                                    /\ \E S : fields \in Seq(S)
  BY <1>1, FieldsAre
<1>3. DOMAIN fields = {}
  <2>1. DOMAIN << >> = 1 .. 0
    OBVIOUS
  <2>2. \A k \in DOMAIN matches : Spans(<< >>, matches[k])
    BY <1>2 DEF Iterated
  <2> QED BY <1>2, <2>1, <2>2 DEF Spans
<1>4. Readable(fields)
  BY <1>3 DEF Readable, For
<1>5. ReadAs(parseFixMessage(fields, garbage), fields, garbage)
  BY <1>2, <1>4, MemoryTyped, ParserIs
<1> QED BY <1>1, <1>5 DEF ReadAs

\* Whatever the memory held, the parser makes of a well-formed message the values
\* that it states, and leaves the others as they were.
LEMMA MeaningParsed ==
  ASSUME NEW m \in Messages, WellFormed(m), NEW garbage \in Uninitialised,
         NEW r, r = parseFixMessage(FieldsOf(m), garbage)
  PROVE  /\ ~ r.threw
         /\ \A v \in Vars : Stated(m, v) = {} => r.values[v] = garbage.values[v]
         /\ \A v \in Vars : Stated(m, v) # {} => r.values[v] \in Stated(m, v) /\ r.flags[v]
<1>1. m \in Seq(Nat)
  BY MessagesAreTexts
<1>2. PICK fields : fields = FieldsOf(m)
  OBVIOUS
<1>3. PICK matches \in Seq(Match) : /\ Iterated(m, matches) /\ fields = FieldsIn(m, matches)
                                    /\ DOMAIN fields = DOMAIN matches
                                    /\ \E S : fields \in Seq(S)
  BY <1>2, FieldsAre
<1>4. \A k \in DOMAIN fields : \E s \in Segments(m) :
        fields[k].name = Name(m, s) /\ fields[k].value = ValueOf(m, s)
  BY <1>1, <1>3, FieldsStated DEF Vars
<1>5. Readable(fields)
  <2>1. \A k \in DOMAIN fields : ~ stoi(fields[k].name).throws
    BY <1>4 DEF WellFormed
  <2>2. ASSUME NEW v \in Vars, NEW k \in For(fields, v)
        PROVE  ~ Convert(v, fields[k].value).throws
    <3>1. k \in DOMAIN fields /\ stoi(fields[k].name) = Value(Tags[v])
      BY DEF For
    <3>2. PICK s \in Segments(m) : fields[k].name = Name(m, s) /\ fields[k].value = ValueOf(m, s)
      BY <1>4, <3>1
    <3>3. s \in With(m, v)
      BY <3>1, <3>2 DEF With
    <3> QED BY <3>2, <3>3, VarsAre DEF WellFormed
  <2> QED BY <2>1, <2>2 DEF Readable
<1>6. ReadAs(r, fields, garbage)
  BY <1>2, <1>3, <1>5, MemoryTyped, ParserIs
<1>7. ASSUME NEW v \in Vars, Stated(m, v) = {} PROVE r.values[v] = garbage.values[v]
  <2>1. With(m, v) = {}
    BY <1>1, <1>7, SomeIsLast DEF Stated
  <2>2. For(fields, v) = {}
    BY <1>1, <1>3, <2>1, FieldsStated
  <2> QED BY <1>6, <2>2 DEF ReadAs
<1>8. ASSUME NEW v \in Vars, Stated(m, v) # {} PROVE r.values[v] \in Stated(m, v) /\ r.flags[v]
  <2>1. PICK s \in LastWith(m, v) : TRUE
    BY <1>8 DEF Stated
  <2>2. PICK k \in For(fields, v) : /\ fields[k].value = ValueOf(m, s)
                                    /\ \A j \in For(fields, v) : j <= k
    BY <1>1, <1>3, FieldsStated
  <2>3. r.values[v] = Convert(v, fields[k].value).value /\ r.flags[v]
    BY <1>6, <2>2 DEF ReadAs
  <2> QED BY <2>1, <2>2, <2>3 DEF Stated
<1> QED BY <1>6, <1>7, <1>8 DEF ReadAs

-----------------------------------------------------------------------------
(* The sessions.                                                           *)

\* The parser makes the outcome o of the message, with r in its local variables.
Makes(m, garbage, r, o) ==
  /\ r = parseFixMessage(FieldsOf(m), garbage)
  /\ o.text = m
  /\ o.throws <=> r.threw
  /\ o.values = IF HasValue(r) THEN r.values ELSE Null

LEMMA OutcomesAre ==
  ASSUME NEW o \in Outcomes
  PROVE  \E m \in Messages, garbage \in Uninitialised : \E r : Makes(m, garbage, r, o)
<1>1. PICK m \in Messages, garbage \in Uninitialised :
        o = Outcome(m, parseFixMessage(FieldsOf(m), garbage))
  BY DEF Outcomes
<1>2. PICK r : r = parseFixMessage(FieldsOf(m), garbage)
  OBVIOUS
<1>3. o = [text |-> m, throws |-> r.threw, values |-> IF HasValue(r) THEN r.values ELSE Null]
  BY <1>1, <1>2 DEF Outcome
<1>4. o.text = m /\ o.throws = r.threw /\ o.values = IF HasValue(r) THEN r.values ELSE Null
  BY <1>3
<1> QED BY <1>1, <1>2, <1>4 DEF Makes

\* A session that sends a message gets an answer to it.
LEMMA SendAnswers ==
  ASSUME SendInv(Outcomes), FixInv, NEW t \in Threads, Send(t, Outcomes)
  PROVE  FixInv'
<1> USE DEF SendInv, SendTypes, FixInv
<1>1. PICK o \in Outcomes :
        /\ message' = [message EXCEPT ![t] = o.text]
        /\ crashed' = o.throws
        /\ values' = [values EXCEPT ![t] = o.values]
        /\ stage' = [stage EXCEPT ![t] = IF o.values = Null THEN @ ELSE "ordering"]
  BY DEF Send
<1>2. ~ crashed
  BY DEF Send
<1>3. o.text \in Messages
  BY OutcomesAre DEF Makes
<1>4. message' \in [Threads -> Messages \cup {<< >>}]
  BY <1>1, <1>3
<1>5. o.text = message'[t] /\ o.values = values'[t] /\ (o.values # Null => stage'[t] # "idle")
  BY <1>1
<1>6. \A u \in Threads \ {t} : /\ message'[u] = message[u] /\ values'[u] = values[u]
                              /\ stage'[u] = stage[u]
  BY <1>1
<1>7. Answered'
  BY <1>5, <1>6 DEF Answered, AnswerTo
<1>8. ThrownBy'
  BY <1>1, <1>5 DEF ThrownBy
<1> QED BY <1>4, <1>7, <1>8

\* While its order is constructed, the session keeps the answer.
LEMMA ConstructAnswers ==
  ASSUME SendInv(Outcomes), FixInv, NEW t \in Threads, Construct(t)
  PROVE  FixInv'
<1> USE DEF SendInv, SendTypes, FixInv
<1>1. stage[t] = "ordering" /\ UNCHANGED <<message, values, crashed>>
  BY DEF Construct, callVars
<1>2. stage' = stage \/ stage' = [stage EXCEPT ![t] = "queueing"]
  BY DEF Construct
<1>3. \A u \in Threads : stage[u] # "idle" => stage'[u] # "idle"
  BY <1>1, <1>2
<1> QED BY <1>1, <1>3 DEF Answered, AnswerTo, ThrownBy

\* Once the order is queued the session is done with the message.
LEMMA EnqueueAnswers ==
  ASSUME SendInv(Outcomes), FixInv, NEW t \in Threads, Enqueue(t)
  PROVE  FixInv'
<1> USE DEF SendInv, SendTypes, FixInv
<1>1. /\ ~ crashed /\ UNCHANGED crashed
      /\ message' = [message EXCEPT ![t] = << >>]
      /\ values' = [values EXCEPT ![t] = Null]
      /\ stage' = [stage EXCEPT ![t] = "idle"]
  BY DEF Enqueue
<1>2. message'[t] = << >> /\ values'[t] = Null
  BY <1>1
<1>3. \A u \in Threads \ {t} : /\ message'[u] = message[u] /\ values'[u] = values[u]
                              /\ stage'[u] = stage[u]
  BY <1>1
<1>4. Answered'
  BY <1>2, <1>3 DEF Answered, AnswerTo
<1> QED BY <1>1, <1>4 DEF ThrownBy

\* FixInv is inductive, on top of what SendOrder keeps.
THEOREM FixInvariant == FixSpec => [](SendInv(Outcomes) /\ FixInv)
<1>1. SendInit => FixInv
  BY DEF SendInit, FixInv, Answered, ThrownBy
<1>2. SendInv(Outcomes) /\ FixInv /\ [SendNext(Outcomes)]_sendVars => FixInv'
  <2> SUFFICES ASSUME SendInv(Outcomes), FixInv, [SendNext(Outcomes)]_sendVars PROVE FixInv'
    OBVIOUS
  <2>1. CASE UNCHANGED sendVars
    <3>1. UNCHANGED <<message, values, stage, crashed>>
      BY <2>1 DEF sendVars, callVars
    <3> QED BY <3>1 DEF FixInv, Answered, AnswerTo, ThrownBy
  <2>2. CASE SendNext(Outcomes)
    BY <2>2, SendAnswers, ConstructAnswers, EnqueueAnswers DEF SendNext
  <2> QED BY <2>1, <2>2
<1>3. SendInit => SendInv(Outcomes)
  BY SendStarts
<1>4. SendInv(Outcomes) /\ [SendNext(Outcomes)]_sendVars => SendInv(Outcomes)'
  BY SendStep
<1> QED BY <1>1, <1>2, <1>3, <1>4, PTL DEF FixSpec, SendSpec

\* The meaning of a message that a session sends, by the four fields.
LEMMA MeaningsAre ==
  ASSUME NEW t \in Threads, NEW m \in Meant(t)
  PROVE  /\ message[t] \in Messages /\ WellFormed(message[t])
         /\ \A v \in Vars : m[v] = Stated(message[t], v)
<1>1. PICK text \in Messages :
        /\ WellFormed(text)
        /\ m = [text |-> text, px |-> Stated(text, "px"), qty |-> Stated(text, "qty"),
                side_is_buy |-> Stated(text, "side_is_buy"), symbol |-> Stated(text, "symbol")]
  BY DEF Meant, Meanings
<1>2. m.text = text /\ m.text = message[t]
  BY <1>1 DEF Meant
<1>3. \A v \in Vars : m[v] = Stated(text, v)
  BY <1>1 DEF Vars
<1> QED BY <1>1, <1>2, <1>3

\* What a session holds whose message is well formed.
Held(t, m, garbage, r) ==
  /\ ~ r.threw /\ r.values # Null
  /\ values[t] = IF HasValue(r) THEN r.values ELSE Null
  /\ values[t] # Null => stage[t] # "idle"
  /\ \A v \in Vars : m[v] = {} => r.values[v] = garbage.values[v]
  /\ \A v \in Vars : m[v] # {} => r.values[v] \in m[v] /\ r.flags[v]

LEMMA MeaningHeld ==
  ASSUME FixInv, NEW t \in Threads, NEW m \in Meant(t)
  PROVE  \E garbage \in Uninitialised : \E r : Held(t, m, garbage, r)
<1>1. /\ message[t] \in Messages /\ WellFormed(message[t])
      /\ \A v \in Vars : m[v] = Stated(message[t], v)
  BY MeaningsAre
<1>2. message[t] # << >>
  BY <1>1 DEF WellFormed
<1>3. PICK o \in Outcomes : AnswerTo(t, o)
  BY <1>2 DEF FixInv, Answered
<1>4. PICK garbage \in Uninitialised : \E x : Makes(message[t], garbage, x, o)
  BY <1>3, OutcomesAre DEF AnswerTo, Makes
<1>5. PICK r : Makes(message[t], garbage, r, o)
  BY <1>4
<1>6. r.values # Null
  BY <1>1, <1>5, NullAssumption DEF Makes
<1>7. /\ ~ r.threw
      /\ \A v \in Vars : Stated(message[t], v) = {} => r.values[v] = garbage.values[v]
      /\ \A v \in Vars : Stated(message[t], v) # {} =>
           r.values[v] \in Stated(message[t], v) /\ r.flags[v]
  BY <1>1, <1>5, MeaningParsed DEF Makes
<1> QED BY <1>1, <1>3, <1>5, <1>6, <1>7 DEF AnswerTo, Makes, Held

\* For any messages, whatever their number and whatever the memory holds: one that
\* states all four values becomes an order with these, and only messages that are
\* not well formed end the program.
THEOREM CompleteMessagesAreOrdered == FixSpec => []CompleteIsOrdered
<1>1. FixInv => CompleteIsOrdered
  <2> SUFFICES ASSUME FixInv, NEW t \in Threads, NEW m \in Meant(t)
               PROVE  /\ crashed => \E u \in Threads : message[u] # << >> /\ Meant(u) = {}
                      /\ (\A v \in DOMAIN Tags : m[v] # {}) =>
                           stage[t] # "idle" /\ \A v \in DOMAIN Tags : values[t][v] \in m[v]
    BY DEF CompleteIsOrdered
  <2>1. ASSUME crashed PROVE \E u \in Threads : message[u] # << >> /\ Meant(u) = {}
    <3>1. PICK u \in Threads, o \in Outcomes : o.text = message[u] /\ o.throws
      BY <2>1 DEF FixInv, ThrownBy
    <3>2. PICK garbage \in Uninitialised :
            parseFixMessage(FieldsOf(message[u]), garbage).threw /\ message[u] \in Messages
      BY <3>1, OutcomesAre DEF Makes
    <3>3. ~ WellFormed(message[u])
      BY <3>2, MeaningParsed
    <3>4. message[u] # << >>
      BY <3>2, EmptyIsHarmless
    <3>5. Meant(u) = {}
      BY <3>3, MeaningsAre
    <3> QED BY <3>4, <3>5
  <2>2. ASSUME \A v \in DOMAIN Tags : m[v] # {}
        PROVE  stage[t] # "idle" /\ \A v \in DOMAIN Tags : values[t][v] \in m[v]
    <3>1. PICK garbage \in Uninitialised : \E x : Held(t, m, garbage, x)
      BY MeaningHeld
    <3>2. PICK r : Held(t, m, garbage, r)
      BY <3>1
    <3>3. HasValue(r)
      BY <2>2, <3>2, VarsAre DEF HasValue, Held
    <3> QED BY <2>2, <3>2, <3>3, VarsAre DEF Held
  <2> QED BY <2>1, <2>2
<1> QED BY <1>1, FixInvariant, PTL

\* What was never written is only ever taken for a value that the message lacks.
THEOREM UnwrittenIsMissing == FixSpec => []OnlyMissingIsUnwritten
<1>1. FixInv => OnlyMissingIsUnwritten
  <2> SUFFICES ASSUME FixInv, NEW t \in Threads, NEW m \in Meant(t), values[t] # Null,
                      NEW v \in DOMAIN Tags
               PROVE  IF m[v] # {} THEN values[t][v] \in m[v]
                      ELSE v \in {"px", "qty"} => values[t][v] = Unwritten
    BY DEF OnlyMissingIsUnwritten
  <2>1. PICK garbage \in Uninitialised : \E x : Held(t, m, garbage, x)
    BY MeaningHeld
  <2>2. PICK r : Held(t, m, garbage, r)
    BY <2>1
  <2>3. \A w \in {"px", "qty"} : garbage.values[w] = Unwritten
    BY DEF Uninitialised
  <2> QED BY <2>2, <2>3, VarsAre DEF Held
<1> QED BY <1>1, FixInvariant, PTL
=============================================================================
