------------------------- MODULE BloomFilterProofs -------------------------
(* Proofs about BloomFilter: for any elements, any hashes of them, any size *)
(* of the filter and any number of hash functions.                         *)
EXTENDS BloomFilter, TLAPS

\* The invariant holds in a filter that has just been constructed.
LEMMA InitHolds == ASSUME Init PROVE IInv
<1>1. num_hash_functions \in Nat
  BY BloomAssumption DEF Init
<1>2. BitsSet /\ BitsHaveReason
  BY DEF Init, BitsSet, BitsHaveReason
<1>3. NoFalseNegatives /\ MaybeHasReason
  BY DEF Init, NoFalseNegatives, MaybeHasReason
<1>4. QED
  BY <1>1, <1>2, <1>3 DEF Init, IInv

\* A step that leaves the filter as it was, forgets no element it holds and
\* gives no answer keeps what the invariant says of bits and answers.
LEMMA NothingAnswered ==
  ASSUME IInv, UNCHANGED <<size, num_hash_functions, bits, inserted, answers>>, Held \subseteq Held'
  PROVE  /\ BitsHaveReason' /\ NoFalseNegatives' /\ MaybeHasReason'
         /\ \A e : Reason(e) => Reason(e)'
         /\ (\A e \in inserted : \A n \in 0 .. num_hash_functions - 1 : IndexOf(e, n) \in bits)'
<1>1. \A e, n : IndexOf(e, n)' = IndexOf(e, n)
  BY DEF IndexOf
<1>2. BitsHaveReason'
  BY <1>1 DEF IInv, BitsHaveReason
<1>3. NoFalseNegatives'
  BY DEF IInv, NoFalseNegatives
<1>4. \A e : Reason(e) => Reason(e)'
  BY <1>1 DEF Reason
<1>5. MaybeHasReason'
  BY <1>4, Zenon DEF IInv, MaybeHasReason
<1>6. QED
  BY <1>1, <1>2, <1>3, <1>4, <1>5 DEF IInv, BitsSet

\* Every step of a call keeps the invariant.
LEMMA StepHolds == ASSUME IInv, [Next]_vars PROVE IInv'
<1> USE DEF IInv
<1>1. CASE UNCHANGED vars
  BY <1>1, NothingAnswered DEF vars, Held, BitsSet, IndexOf
<1>2. ASSUME NEW name \in {"insert", "mayContain"}, NEW e \in Elements, Call(name, e)
      PROVE  IInv'
  <2>1. /\ UNCHANGED <<size, num_hash_functions, bits, inserted, answers>>
        /\ element' = e /\ i' = 0 /\ call = "none" /\ call' = name
    BY <1>2 DEF Call
  <2>2. Held \subseteq Held'
    BY <2>1 DEF Held
  <2>3. (0 .. i - 1)' = {}
    BY <2>1
  <2>4. BitsSet'
    BY <2>1, <2>2, <2>3, NothingAnswered DEF BitsSet
  <2>5. QED
    BY <2>1, <2>2, <2>4, NothingAnswered
<1>3. CASE DivideByZero
  <2>1. UNCHANGED <<size, num_hash_functions, bits, call, element, i, inserted, answers>>
    BY <1>3 DEF DivideByZero
  <2>2. BitsSet'
    BY <2>1 DEF BitsSet, IndexOf
  <2>3. QED
    BY <2>1, <2>2, NothingAnswered DEF Held
<1>4. CASE SetBit
  <2>1. index = IndexOf(element, i)
    BY DEF index, IndexOf
  <2>2. bits' = bits \cup {IndexOf(element, i)} /\ i' = i + 1 /\ call = "insert" /\ i < num_hash_functions
    BY <1>4, <2>1 DEF SetBit, Hashing
  <2>3. UNCHANGED <<size, num_hash_functions, call, element, inserted, answers>>
    BY <1>4 DEF SetBit
  <2>4. Held' = Held /\ element \in Held
    BY <2>2, <2>3 DEF Held
  <2>5. \A e, n : IndexOf(e, n)' = IndexOf(e, n)
    BY <2>3 DEF IndexOf
  <2>6. (\A n \in 0 .. i - 1 : IndexOf(element, n) \in bits)'
    <3>1. SUFFICES ASSUME NEW n \in 0 .. i PROVE IndexOf(element, n) \in bits'
      BY <2>2, <2>3, <2>5
    <3>2. CASE n = i
      BY <2>2, <3>2
    <3>3. CASE n \in 0 .. i - 1
      BY <2>2, <3>3 DEF BitsSet
    <3>4. QED
      BY <3>2, <3>3
  <2>7. BitsSet'
    BY <2>2, <2>3, <2>5, <2>6 DEF BitsSet
  <2>8. BitsHaveReason'
    <3>1. SUFFICES ASSUME NEW b \in bits'
                   PROVE  \E x \in Held : \E k \in 0 .. num_hash_functions - 1 : b = IndexOf(x, k)
      BY <2>3, <2>4, <2>5 DEF BitsHaveReason
    <3>2. CASE b \in bits
      BY <3>2 DEF BitsHaveReason
    <3>3. CASE b = IndexOf(element, i)
      <4>1. i \in 0 .. num_hash_functions - 1
        BY <2>2
      <4>2. QED
        BY <2>4, <3>3, <4>1
    <3>4. QED
      BY <2>2, <3>2, <3>3
  <2>9. \A e : Reason(e) => Reason(e)'
    BY <2>3, <2>4, <2>5 DEF Reason
  <2>10. NoFalseNegatives' /\ MaybeHasReason'
    BY <2>3, <2>9, Zenon DEF NoFalseNegatives, MaybeHasReason
  <2>11. QED
    BY <2>2, <2>3, <2>7, <2>8, <2>10
<1>5. CASE InsertReturn
  <2>1. UNCHANGED <<size, num_hash_functions, bits, element, i>> /\ call = "insert" /\ call' = "none"
    BY <1>5 DEF InsertReturn
  <2>2. inserted' = inserted \cup {element} /\ answers' = [answers EXCEPT ![element] = {}]
    BY <1>5 DEF InsertReturn
  <2>3. Held' = Held
    BY <2>1, <2>2 DEF Held
  <2>4. \A e, n : IndexOf(e, n)' = IndexOf(e, n)
    BY <2>1 DEF IndexOf
  <2>5. \A n \in 0 .. num_hash_functions - 1 : IndexOf(element, n) \in bits
    BY <1>5 DEF InsertReturn, BitsSet
  <2>6. BitsSet'
    BY <2>1, <2>2, <2>4, <2>5 DEF BitsSet
  <2>7. BitsHaveReason'
    BY <2>1, <2>3, <2>4 DEF BitsHaveReason
  <2>8. NoFalseNegatives'
    BY <2>2 DEF NoFalseNegatives
  <2>9. \A e : Reason(e) => Reason(e)'
    BY <2>1, <2>3, <2>4 DEF Reason
  <2>10. \A e \in Elements : answers'[e] \subseteq answers[e]
    BY <2>2
  <2>11. MaybeHasReason'
    BY <2>9, <2>10, Zenon DEF MaybeHasReason
  <2>12. QED
    BY <2>1, <2>2, <2>6, <2>7, <2>8, <2>11
<1>6. CASE FindBit
  <2>1. UNCHANGED <<size, num_hash_functions, bits, call, element, inserted, answers>>
    BY <1>6 DEF FindBit
  <2>2. i' = i + 1 /\ IndexOf(element, i) \in bits /\ call = "mayContain"
    BY <1>6 DEF FindBit, Hashing, index, IndexOf
  <2>3. \A e, n : IndexOf(e, n)' = IndexOf(e, n)
    BY <2>1 DEF IndexOf
  <2>4. \A n \in 0 .. i : IndexOf(element, n) \in bits
    <3>1. SUFFICES ASSUME NEW n \in 0 .. i PROVE IndexOf(element, n) \in bits
      OBVIOUS
    <3>2. n = i \/ n \in 0 .. i - 1
      OBVIOUS
    <3>3. QED
      BY <2>2, <3>2 DEF BitsSet
  <2>5. BitsSet'
    <3>1. (0 .. i - 1)' = 0 .. i
      BY <2>2
    <3>2. QED
      BY <2>1, <2>3, <2>4, <3>1 DEF BitsSet
  <2>6. QED
    BY <2>1, <2>2, <2>5, NothingAnswered DEF Held
<1>7. CASE AnswerNo
  <2>1. UNCHANGED <<size, num_hash_functions, bits, element, i, inserted>>
    BY <1>7 DEF AnswerNo, Answer
  <2>2. /\ call = "mayContain" /\ call' = "none"
        /\ answers' = [answers EXCEPT ![element] = @ \cup {FALSE}]
    BY <1>7 DEF AnswerNo, Answer, Hashing
  <2>3. element \notin inserted
    <3>1. i \in 0 .. num_hash_functions - 1 /\ IndexOf(element, i) \notin bits
      BY <1>7 DEF AnswerNo, Hashing, index, IndexOf
    <3>2. QED
      BY <3>1 DEF BitsSet
  <2>4. Held' = Held /\ \A e, n : IndexOf(e, n)' = IndexOf(e, n)
    BY <2>1, <2>2 DEF Held, IndexOf
  <2>5. NoFalseNegatives'
    BY <2>1, <2>2, <2>3 DEF NoFalseNegatives
  <2>6. \A e \in Elements : TRUE \in answers'[e] => TRUE \in answers[e]
    BY <2>2
  <2>10. \A e : Reason(e) => Reason(e)'
    BY <2>1, <2>4 DEF Reason
  <2>7. MaybeHasReason'
    BY <2>10, <2>6, Zenon DEF MaybeHasReason
  <2>8. BitsSet' /\ BitsHaveReason'
    BY <2>1, <2>2, <2>4 DEF BitsSet, BitsHaveReason
  <2>9. QED
    BY <2>1, <2>2, <2>5, <2>7, <2>8
<1>8. CASE AnswerMaybe
  <2>1. UNCHANGED <<size, num_hash_functions, bits, element, i, inserted>>
    BY <1>8 DEF AnswerMaybe, Answer
  <2>2. /\ call = "mayContain" /\ call' = "none" /\ i = num_hash_functions
        /\ answers' = [answers EXCEPT ![element] = @ \cup {TRUE}]
    BY <1>8 DEF AnswerMaybe, Answer
  <2>3. Held' = Held /\ \A e, n : IndexOf(e, n)' = IndexOf(e, n)
    BY <2>1, <2>2 DEF Held, IndexOf
  <2>4. NoFalseNegatives'
    BY <2>1, <2>2 DEF NoFalseNegatives
  <2>5. Reason(element)
    BY <2>2 DEF BitsSet, BitsHaveReason, Reason
  <2>6. \A e \in Elements : TRUE \in answers'[e] => e = element \/ TRUE \in answers[e]
    BY <2>2
  <2>10. \A e : Reason(e) => Reason(e)'
    BY <2>1, <2>3 DEF Reason
  <2>7. MaybeHasReason'
    BY <2>5, <2>6, <2>10, Zenon DEF MaybeHasReason
  <2>8. BitsSet' /\ BitsHaveReason'
    BY <2>1, <2>2, <2>3 DEF BitsSet, BitsHaveReason
  <2>9. QED
    BY <2>1, <2>2, <2>4, <2>7, <2>8
<1>9. QED
  BY <1>1, <1>2, <1>3, <1>4, <1>5, <1>6, <1>7, <1>8 DEF Next

\* The inductive invariant of the filter: the bits that are set are those of the
\* elements inserted so far, as far as the insert under way has come, and a
\* mayContain under way has passed none that is not set.
THEOREM Invariant == Spec => []IInv
<1>1. Init => IInv
  BY InitHolds
<1>2. IInv /\ [Next]_vars => IInv'
  BY StepHolds
<1>3. QED
  BY <1>1, <1>2, PTL DEF Spec

\* mayContain never denies an element whose insert has returned.
THEOREM NeverDenied == Spec => []NoFalseNegatives
<1>1. IInv => NoFalseNegatives
  BY DEF IInv
<1>2. QED
  BY <1>1, Invariant, PTL

\* It takes an element for another's only when every bit of it is a bit of one
\* that was inserted, whatever was inserted or asked in between.
THEOREM MaybesHaveReason == Spec => []MaybeHasReason
<1>1. IInv => MaybeHasReason
  BY DEF IInv
<1>2. QED
  BY <1>1, Invariant, PTL
=============================================================================
