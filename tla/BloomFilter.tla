---------------------------- MODULE BloomFilter ----------------------------
(***************************************************************************)
(* bloom_filter.hpp: a set that forgets which elements it has, one bit for *)
(* each of several hashes of an element.  Calls are made one at a time, as *)
(* in bloom_test.cpp, and each goes through the hash functions in turn.    *)
(***************************************************************************)
EXTENDS Integers, FiniteSetsExt

CONSTANTS
  Elements,    \* elements inserted and asked for
  StdHash,     \* std::hash of each
  Width,       \* bits of a size_t, from 16 on; 64 in the build
  Sizes,       \* how many bits a filter may be made with
  Counts       \* how many hash functions

ASSUME BloomAssumption ==
  /\ StdHash \in [Elements -> Nat] /\ Width \in Nat /\ Width >= 16
  /\ Sizes \subseteq Nat /\ Counts \subseteq Nat

VARIABLES
  size, num_hash_functions,
  bits,        \* the indices of the bits that are true
  call,        \* "none", "insert" or "mayContain"
  element, i,  \* its argument, and the hash function it is at
  crashed,     \* division by zero
  inserted,    \* history: the elements whose insert has returned
  answers      \* history: what was answered since then, by element

vars == <<size, num_hash_functions, bits, call, element, i, crashed, inserted, answers>>

\* What fits of 0x9e3779b9 into Width bits.
Golden == (40503 % 2^(Width - 16)) * 2^16 + 31161

Bit(n, k) == (n \div 2^k) % 2
Xor(a, b) == MapThenSumSet(LAMBDA k : IF Bit(a, k) = Bit(b, k) THEN 0 ELSE 2^k, 0 .. Width - 1)

\* The arithmetic of size_t: what is shifted out to the left is lost.
calculateHash(e, n) ==
  LET hash == StdHash[e]
  IN  Xor(hash, (n + Golden + hash * 2^6 - hash \div 2^2) % 2^Width)

\* The constructor: no bit is set.
Init ==
  /\ size \in Sizes /\ num_hash_functions \in Counts
  /\ bits = {}
  /\ call = "none" /\ element \in Elements /\ i = 0
  /\ crashed = FALSE
  /\ inserted = {}
  /\ answers = [e \in Elements |-> {}]

Call(name, e) ==
  /\ call = "none" /\ ~ crashed
  /\ call' = name /\ element' = e /\ i' = 0
  /\ UNCHANGED <<size, num_hash_functions, bits, crashed, inserted, answers>>

\* The next hash function of a call; its index is taken modulo the size.
Hashing(name) == call = name /\ ~ crashed /\ i < num_hash_functions
index == calculateHash(element, i) % size

DivideByZero ==
  /\ \E name \in {"insert", "mayContain"} : Hashing(name)
  /\ size = 0
  /\ crashed' = TRUE
  /\ UNCHANGED <<size, num_hash_functions, bits, call, element, i, inserted, answers>>

SetBit ==
  /\ Hashing("insert") /\ size > 0
  /\ bits' = bits \cup {index}
  /\ i' = i + 1
  /\ UNCHANGED <<size, num_hash_functions, call, element, crashed, inserted, answers>>

\* Mutant: the loop ends before the last hash function.
InsertReturnEarly ==
  /\ call = "insert" /\ ~ crashed /\ i + 1 >= num_hash_functions
  /\ call' = "none"
  /\ inserted' = inserted \cup {element}
  /\ answers' = [answers EXCEPT ![element] = {}]
  /\ UNCHANGED <<size, num_hash_functions, bits, element, i, crashed>>

InsertReturn ==
  /\ call = "insert" /\ ~ crashed /\ i = num_hash_functions
  /\ call' = "none"
  /\ inserted' = inserted \cup {element}
  /\ answers' = [answers EXCEPT ![element] = {}]
  /\ UNCHANGED <<size, num_hash_functions, bits, element, i, crashed>>

\* mayContain goes on as long as the bits are set, ...
FindBit ==
  /\ Hashing("mayContain") /\ size > 0
  /\ index \in bits
  /\ i' = i + 1
  /\ UNCHANGED <<size, num_hash_functions, bits, call, element, crashed, inserted, answers>>

Answer(a) ==
  /\ call' = "none"
  /\ answers' = [answers EXCEPT ![element] = @ \cup {a}]
  /\ UNCHANGED <<size, num_hash_functions, bits, element, i, crashed, inserted>>

\* ... answers no at the first that is not, ...
AnswerNo ==
  /\ Hashing("mayContain") /\ size > 0
  /\ index \notin bits
  /\ Answer(FALSE)

\* Mutant: one bit is enough.
AnswerMaybeSoon ==
  /\ call = "mayContain" /\ ~ crashed /\ (i = num_hash_functions \/ i = 1)
  /\ Answer(TRUE)

\* ... and maybe at the end.
AnswerMaybe ==
  /\ call = "mayContain" /\ ~ crashed /\ i = num_hash_functions
  /\ Answer(TRUE)

Next ==
  \/ \E name \in {"insert", "mayContain"}, e \in Elements : Call(name, e)
  \/ DivideByZero \/ SetBit \/ InsertReturn \/ FindBit \/ AnswerNo \/ AnswerMaybe

Spec == Init /\ [][Next]_vars

-----------------------------------------------------------------------------
(* Properties *)

IndexOf(e, n) == calculateHash(e, n) % size

\* The filter never denies an element whose insert has returned, whatever
\* elements share its bits and whatever was inserted since.
NoFalseNegatives == \A e \in inserted : FALSE \notin answers[e]

\* It only takes an element for another's if every bit of it is the bit of one
\* that was inserted, or is being inserted: no bit is set out of thin air.
Held == inserted \cup (IF call = "insert" THEN {element} ELSE {})
Reason(e) ==
  \A n \in 0 .. num_hash_functions - 1 : \E x \in Held : \E k \in 0 .. num_hash_functions - 1 :
    IndexOf(e, n) = IndexOf(x, k)
MaybeHasReason == \A e \in Elements : TRUE \in answers[e] => Reason(e)

\* The bits behind both: those of what was inserted, and those the call under
\* way has passed, are set; and each bit that is set is one of these.
BitsSet ==
  /\ \A e \in inserted : \A n \in 0 .. num_hash_functions - 1 : IndexOf(e, n) \in bits
  /\ call # "none" => \A n \in 0 .. i - 1 : IndexOf(element, n) \in bits
BitsHaveReason == \A b \in bits :
  \E x \in Held : \E k \in 0 .. num_hash_functions - 1 : b = IndexOf(x, k)

IInv ==
  /\ num_hash_functions \in Nat /\ i \in Nat
  /\ call \in {"none", "insert", "mayContain"}
  /\ answers \in [Elements -> SUBSET BOOLEAN]
  /\ element \in Elements /\ inserted \subseteq Elements
  /\ BitsSet /\ BitsHaveReason
  /\ NoFalseNegatives /\ MaybeHasReason
=============================================================================
