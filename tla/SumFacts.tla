------------------------------ MODULE SumFacts -------------------------------
(***************************************************************************)
(* What the proofs need to know about finite sets: the sum of a function   *)
(* over one (SumFunctionOnSet), how it changes with the set and with the   *)
(* function, and the extremes of one.                                      *)
(***************************************************************************)
EXTENDS FiniteSetsExt, FiniteSetTheorems, WellFoundedInduction, NaturalsInduction, TLAPS

\* Induction over the naturals, for a property given as a set.
LEMMA CountUp ==
  ASSUME NEW B, 0 \in B, \A n \in Nat : n \in B => n + 1 \in B
  PROVE  Nat \subseteq B
<1> DEFINE Bad == Nat \ B
<1> SUFFICES ASSUME Bad # {} PROVE FALSE
  OBVIOUS
<1>1. Bad \subseteq Nat
  OBVIOUS
<1>2. PICK n \in Bad : \A m \in Bad : ~ (<<m, n>> \in OpToRel(<, Nat))
  <2> HIDE DEF Bad
  <2> QED
    BY <1>1, NatLessThanWellFounded, WFMin
<1>3. \A m \in Bad : ~ (m < n)
  <2> TAKE m \in Bad
  <2>1. <<m, n>> \in Nat \X Nat
    BY <1>1
  <2> QED
    BY <1>2, <2>1 DEF OpToRel
<1>4. n # 0 /\ n \in Nat /\ n - 1 \in Nat
  OBVIOUS
<1>5. n - 1 \in B
  BY <1>3, <1>4
<1> QED
  BY <1>4, <1>5

\* Induction over the subsets of a finite set: a family of them that is not
\* empty has a smallest member.
LEMMA SmallestSet ==
  ASSUME NEW S, IsFiniteSet(S), NEW B \in SUBSET (SUBSET S), B # {}
  PROVE  \E T \in B : \A U \in SUBSET T : U \in B => U = T
<1>1. B \subseteq FiniteSubsetsOf(S)
  BY FS_Subset DEF FiniteSubsetsOf
<1>2. PICK T \in B : \A U \in B : ~ (<<U, T>> \in StrictSubsetOrdering(S))
  BY <1>1, FS_StrictSubsetOrderingWellFounded, WFMin
<1>3. ASSUME NEW U \in SUBSET T, U \in B PROVE U = T
  BY <1>2, <1>3 DEF StrictSubsetOrdering
<1> QED
  BY <1>3

-----------------------------------------------------------------------------
(* SumFunctionOnSet is a recursive function on the subsets of its second   *)
(* argument: such a function exists, whatever the summand ...              *)

Member(T) == CHOOSE x \in T : TRUE

SumStep(f, g, T) == IF T = {} THEN 0 ELSE f[Member(T)] + g[T \ {Member(T)}]

\* The function that adds up f over each subset of S.
Summer(f, S) == CHOOSE g : g = [T \in SUBSET S |-> SumStep(f, g, T)]

LEMMA SumUnfolded ==
  ASSUME NEW f, NEW S
  PROVE  SumFunctionOnSet(f, S) = Summer(f, S)[S]
BY DEF SumFunctionOnSet, FoldFunctionOnSet, MapThenFoldSet, Summer, SumStep, Member

LEMMA MemberOf == ASSUME NEW T, T # {} PROVE Member(T) \in T
BY DEF Member

\* ... by defining it on the small subsets first.
LEMMA SummerExists ==
  ASSUME NEW f, NEW S, IsFiniteSet(S)
  PROVE  Summer(f, S) = [T \in SUBSET S |-> SumStep(f, Summer(f, S), T)]
<1> DEFINE Upto(n) == {T \in SUBSET S : Cardinality(T) <= n}
           Good(n) == \E g : /\ g = [T \in SUBSET S |-> g[T]]
                             /\ \A T \in Upto(n) : g[T] = SumStep(f, g, T)
           B == {n \in Nat : Good(n)}
<1>0. \A T \in SUBSET S : IsFiniteSet(T) /\ Cardinality(T) \in Nat /\ (T = {} <=> Cardinality(T) = 0)
  BY FS_Subset, FS_CardinalityType, FS_EmptySet
<1>1. 0 \in B
  <2> DEFINE g0 == [T \in SUBSET S |-> 0]
  <2>1. g0 = [T \in SUBSET S |-> g0[T]]
    OBVIOUS
  <2>2. \A T \in Upto(0) : T = {} /\ g0[T] = 0
    BY <1>0
  <2>3. \A T \in Upto(0) : g0[T] = SumStep(f, g0, T)
    BY <2>2 DEF SumStep
  <2> HIDE DEF g0
  <2>4. Good(0)
    BY <2>1, <2>3
  <2> QED
    BY <2>4
<1>2. ASSUME NEW n \in Nat, n \in B PROVE n + 1 \in B
  <2>1. PICK g : /\ g = [T \in SUBSET S |-> g[T]]
                 /\ \A T \in Upto(n) : g[T] = SumStep(f, g, T)
    BY <1>2
  <2> DEFINE h == [T \in SUBSET S |-> IF T \in Upto(n) THEN g[T] ELSE SumStep(f, g, T)]
  <2>2. h = [T \in SUBSET S |-> h[T]]
    OBVIOUS
  <2>3. \A T \in Upto(n) : h[T] = g[T]
    OBVIOUS
  <2>4. \A T \in SUBSET S : h[T] = SumStep(f, g, T)
    BY <2>1
  <2> HIDE DEF h
  <2>5. ASSUME NEW T \in Upto(n + 1), T # {} PROVE T \ {Member(T)} \in Upto(n)
    <3>1. Member(T) \in T /\ IsFiniteSet(T)
      BY MemberOf, <2>5, <1>0
    <3>2. Cardinality(T \ {Member(T)}) = Cardinality(T) - 1
      BY <3>1, FS_RemoveElement
    <3>3. Cardinality(T) \in Nat /\ Cardinality(T) <= n + 1
      BY <1>0
    <3>4. Cardinality(T) - 1 <= n
      BY <3>3
    <3> QED
      BY <3>2, <3>4
  <2>6. ASSUME NEW T \in Upto(n + 1) PROVE h[T] = SumStep(f, h, T)
    <3>1. CASE T = {}
      BY <3>1, <2>4 DEF SumStep
    <3>2. CASE T # {}
      <4>1. h[T \ {Member(T)}] = g[T \ {Member(T)}]
        BY <3>2, <2>5, <2>3
      <4> QED
        BY <4>1, <2>4 DEF SumStep
    <3> QED
      BY <3>1, <3>2
  <2>7. Good(n + 1)
    BY <2>2, <2>6
  <2> HIDE DEF Good
  <2> QED
    BY <2>7
<1>3. Cardinality(S) \in Nat /\ Cardinality(S) \in B
  <2>1. Nat \subseteq B
    <3> HIDE DEF B
    <3> QED
      BY <1>1, <1>2, CountUp
  <2> QED
    BY <2>1, FS_CardinalityType
<1>4. PICK g : /\ g = [T \in SUBSET S |-> g[T]]
               /\ \A T \in Upto(Cardinality(S)) : g[T] = SumStep(f, g, T)
  BY <1>3
<1>5. \A T \in SUBSET S : T \in Upto(Cardinality(S))
  BY FS_Subset
<1>6. g = [T \in SUBSET S |-> SumStep(f, g, T)]
  BY <1>4, <1>5
<1> QED
  BY <1>6 DEF Summer

LEMMA SummerAt ==
  ASSUME NEW f, NEW S, IsFiniteSet(S), NEW T \in SUBSET S
  PROVE  Summer(f, S)[T] = SumStep(f, Summer(f, S), T)
<1>1. ASSUME NEW G, G = [U \in SUBSET S |-> SumStep(f, G, U)]
      PROVE  G[T] = SumStep(f, G, T)
  <2>1. [U \in SUBSET S |-> SumStep(f, G, U)][T] = SumStep(f, G, T)
    OBVIOUS
  <2> QED
    BY <1>1, <2>1, Zenon
<1> QED
  BY <1>1, SummerExists, Zenon

\* The same function is found whatever the set that the subsets are taken from.
LEMMA SummerAgrees ==
  ASSUME NEW f, NEW S, IsFiniteSet(S), NEW T \in SUBSET S
  PROVE  Summer(f, S)[T] = SumFunctionOnSet(f, T)
<1> DEFINE Bad == {U \in SUBSET T : Summer(f, S)[U] # Summer(f, T)[U]}
<1>1. IsFiniteSet(T)
  BY FS_Subset
<1>2. Bad = {}
  <2> SUFFICES ASSUME Bad # {} PROVE FALSE
    OBVIOUS
  <2>1. PICK U \in Bad : \A V \in SUBSET U : V \in Bad => V = U
    <3> HIDE DEF Bad
    <3>1. Bad \in SUBSET (SUBSET T)
      BY DEF Bad
    <3> QED
      BY <1>1, <3>1, SmallestSet
  <2>2. Summer(f, S)[U] = SumStep(f, Summer(f, S), U) /\ Summer(f, T)[U] = SumStep(f, Summer(f, T), U)
    <3>1. U \in SUBSET S /\ U \in SUBSET T
      OBVIOUS
    <3> QED
      BY <1>1, <3>1, SummerAt
  <2>3. CASE U = {}
    BY <2>2, <2>3 DEF SumStep
  <2>4. CASE U # {}
    <3>1. Member(U) \in U /\ U \ {Member(U)} \in SUBSET U /\ U \ {Member(U)} # U
      BY <2>4, MemberOf
    <3>2. Summer(f, S)[U \ {Member(U)}] = Summer(f, T)[U \ {Member(U)}]
      BY <2>1, <3>1
    <3> QED
      BY <2>2, <3>2 DEF SumStep
  <2> QED
    BY <2>3, <2>4
<1> QED
  BY <1>2, SumUnfolded

-----------------------------------------------------------------------------
(* Now the sum itself.                                                     *)

LEMMA SumNothing == ASSUME NEW f PROVE SumFunctionOnSet(f, {}) = 0
<1>1. Summer(f, {})[{}] = SumStep(f, Summer(f, {}), {})
  BY SummerAt, FS_EmptySet
<1> QED
  BY <1>1, SumUnfolded DEF SumStep

LEMMA SumFirst ==
  ASSUME NEW f, NEW S, IsFiniteSet(S), S # {}
  PROVE  SumFunctionOnSet(f, S) = f[Member(S)] + SumFunctionOnSet(f, S \ {Member(S)})
<1>1. Summer(f, S)[S] = SumStep(f, Summer(f, S), S)
  BY SummerAt
<1>2. S \ {Member(S)} \in SUBSET S
  OBVIOUS
<1>3. Summer(f, S)[S \ {Member(S)}] = SumFunctionOnSet(f, S \ {Member(S)})
  BY <1>2, SummerAgrees
<1> QED
  BY <1>1, <1>3, SumUnfolded DEF SumStep

\* The sum of integers is an integer.
LEMMA SumInt ==
  ASSUME NEW f, NEW S, IsFiniteSet(S), \A x \in S : f[x] \in Int
  PROVE  SumFunctionOnSet(f, S) \in Int
<1> DEFINE Bad == {T \in SUBSET S : SumFunctionOnSet(f, T) \notin Int}
<1> SUFFICES ASSUME Bad # {} PROVE FALSE
  OBVIOUS
<1>1. PICK T \in Bad : \A U \in SUBSET T : U \in Bad => U = T
  <2> HIDE DEF Bad
  <2>1. Bad \in SUBSET (SUBSET S)
    BY DEF Bad
  <2> QED
    BY <2>1, SmallestSet
<1>2. T # {} /\ IsFiniteSet(T)
  <2>1. T \in SUBSET S /\ IsFiniteSet(T)
    BY FS_Subset
  <2>2. T # {}
    BY SumNothing
  <2> QED
    BY <2>1, <2>2
<1>3. Member(T) \in T /\ SumFunctionOnSet(f, T) = f[Member(T)] + SumFunctionOnSet(f, T \ {Member(T)})
  BY <1>2, MemberOf, SumFirst
<1>4. SumFunctionOnSet(f, T \ {Member(T)}) \in Int
  BY <1>1, <1>3
<1> QED
  BY <1>3, <1>4

\* It does not matter which element is taken first.
LEMMA SumWithout ==
  ASSUME NEW f, NEW S, IsFiniteSet(S), \A x \in S : f[x] \in Int, NEW a \in S
  PROVE  SumFunctionOnSet(f, S) = f[a] + SumFunctionOnSet(f, S \ {a})
<1> DEFINE Bad == {T \in SUBSET S : \E x \in T :
                     SumFunctionOnSet(f, T) # f[x] + SumFunctionOnSet(f, T \ {x})}
<1> SUFFICES ASSUME Bad # {} PROVE FALSE
  OBVIOUS
<1>1. PICK T \in Bad : \A U \in SUBSET T : U \in Bad => U = T
  <2> HIDE DEF Bad
  <2>1. Bad \in SUBSET (SUBSET S)
    BY DEF Bad
  <2> QED
    BY <2>1, SmallestSet
<1>2. PICK x \in T : SumFunctionOnSet(f, T) # f[x] + SumFunctionOnSet(f, T \ {x})
  OBVIOUS
<1> DEFINE m == Member(T)
           R == T \ {m, x}
<1>3. IsFiniteSet(T) /\ IsFiniteSet(T \ {x}) /\ IsFiniteSet(R)
  BY FS_Subset
<1>4. m \in T /\ SumFunctionOnSet(f, T) = f[m] + SumFunctionOnSet(f, T \ {m})
  BY <1>2, <1>3, MemberOf, SumFirst
<1>5. m # x
  BY <1>2, <1>4
<1>9. \A U \in SUBSET T : U # T => \A y \in U : SumFunctionOnSet(f, U) = f[y] + SumFunctionOnSet(f, U \ {y})
  BY <1>1
<1>6. SumFunctionOnSet(f, T \ {m}) = f[x] + SumFunctionOnSet(f, R)
  <2>1. x \in T \ {m} /\ T \ {m} \in SUBSET T /\ T \ {m} # T /\ (T \ {m}) \ {x} = R
    BY <1>4, <1>5
  <2> QED
    BY <1>9, <2>1
<1>7. SumFunctionOnSet(f, T \ {x}) = f[m] + SumFunctionOnSet(f, R)
  <2>1. m \in T \ {x} /\ T \ {x} \in SUBSET T /\ T \ {x} # T /\ (T \ {x}) \ {m} = R
    BY <1>4, <1>5
  <2> QED
    BY <1>9, <2>1
<1>8. SumFunctionOnSet(f, R) \in Int /\ f[m] \in Int /\ f[x] \in Int
  BY <1>3, <1>4, SumInt
<1> QED
  BY <1>2, <1>4, <1>6, <1>7, <1>8

LEMMA SumWith ==
  ASSUME NEW f, NEW S, IsFiniteSet(S), NEW a, a \notin S, \A x \in S \cup {a} : f[x] \in Int
  PROVE  SumFunctionOnSet(f, S \cup {a}) = f[a] + SumFunctionOnSet(f, S)
<1>1. IsFiniteSet(S \cup {a}) /\ (S \cup {a}) \ {a} = S
  BY FS_AddElement
<1> QED
  BY <1>1, SumWithout

\* Only the values on the set count ...
LEMMA SumSame ==
  ASSUME NEW f, NEW g, NEW S, IsFiniteSet(S), \A x \in S : f[x] = g[x]
  PROVE  SumFunctionOnSet(f, S) = SumFunctionOnSet(g, S)
<1> DEFINE Bad == {T \in SUBSET S : SumFunctionOnSet(f, T) # SumFunctionOnSet(g, T)}
<1> SUFFICES ASSUME Bad # {} PROVE FALSE
  OBVIOUS
<1>1. PICK T \in Bad : \A U \in SUBSET T : U \in Bad => U = T
  <2> HIDE DEF Bad
  <2>1. Bad \in SUBSET (SUBSET S)
    BY DEF Bad
  <2> QED
    BY <2>1, SmallestSet
<1>2. T # {} /\ IsFiniteSet(T)
  <2>1. T \in SUBSET S /\ IsFiniteSet(T)
    BY FS_Subset
  <2>2. T # {}
    BY SumNothing
  <2> QED
    BY <2>1, <2>2
<1>3. /\ Member(T) \in T
      /\ SumFunctionOnSet(f, T) = f[Member(T)] + SumFunctionOnSet(f, T \ {Member(T)})
      /\ SumFunctionOnSet(g, T) = g[Member(T)] + SumFunctionOnSet(g, T \ {Member(T)})
  BY <1>2, MemberOf, SumFirst
<1>4. SumFunctionOnSet(f, T \ {Member(T)}) = SumFunctionOnSet(g, T \ {Member(T)})
  BY <1>1, <1>3
<1> QED
  BY <1>3, <1>4

\* ... and if one of them changes, the sum changes by as much.
LEMMA SumChanged ==
  ASSUME NEW f, NEW g, NEW S, IsFiniteSet(S), NEW a \in S,
         \A x \in S : f[x] \in Int /\ g[x] \in Int,
         \A x \in S \ {a} : g[x] = f[x]
  PROVE  SumFunctionOnSet(g, S) = SumFunctionOnSet(f, S) - f[a] + g[a]
<1>1. IsFiniteSet(S \ {a})
  BY FS_RemoveElement
<1>2. SumFunctionOnSet(f, S \ {a}) = SumFunctionOnSet(g, S \ {a})
  BY <1>1, SumSame
<1>3. /\ SumFunctionOnSet(f, S) = f[a] + SumFunctionOnSet(f, S \ {a})
      /\ SumFunctionOnSet(g, S) = g[a] + SumFunctionOnSet(g, S \ {a})
  BY SumWithout
<1>4. SumFunctionOnSet(f, S \ {a}) \in Int /\ f[a] \in Int /\ g[a] \in Int
  BY <1>1, SumInt
<1> QED
  BY <1>2, <1>3, <1>4

\* The sum of naturals is at least each of them, and so is zero only if all are.
LEMMA SumNat ==
  ASSUME NEW f, NEW S, IsFiniteSet(S), \A x \in S : f[x] \in Nat
  PROVE  /\ SumFunctionOnSet(f, S) \in Nat
         /\ \A x \in S : f[x] <= SumFunctionOnSet(f, S)
<1> DEFINE Bad == {T \in SUBSET S : SumFunctionOnSet(f, T) \notin Nat}
<1>1. Bad = {}
  <2> SUFFICES ASSUME Bad # {} PROVE FALSE
    OBVIOUS
  <2>1. PICK T \in Bad : \A U \in SUBSET T : U \in Bad => U = T
    <3> HIDE DEF Bad
    <3>1. Bad \in SUBSET (SUBSET S)
      BY DEF Bad
    <3> QED
      BY <3>1, SmallestSet
  <2>2. T # {} /\ IsFiniteSet(T)
    <3>1. T \in SUBSET S /\ IsFiniteSet(T)
      BY FS_Subset
    <3>2. T # {}
      BY SumNothing
    <3> QED
      BY <3>1, <3>2
  <2>3. Member(T) \in T /\ SumFunctionOnSet(f, T) = f[Member(T)] + SumFunctionOnSet(f, T \ {Member(T)})
    BY <2>2, MemberOf, SumFirst
  <2>4. SumFunctionOnSet(f, T \ {Member(T)}) \in Nat
    BY <2>1, <2>3
  <2> QED
    BY <2>3, <2>4
<1>2. \A T \in SUBSET S : SumFunctionOnSet(f, T) \in Nat
  BY <1>1
<1>3. ASSUME NEW x \in S PROVE f[x] <= SumFunctionOnSet(f, S)
  <2>1. SumFunctionOnSet(f, S) = f[x] + SumFunctionOnSet(f, S \ {x})
    BY SumWithout
  <2>2. SumFunctionOnSet(f, S \ {x}) \in Nat
    BY <1>2
  <2> QED
    BY <2>1, <2>2
<1> QED
  BY <1>2, <1>3

-----------------------------------------------------------------------------
\* The largest of finitely many integers.
LEMMA Largest ==
  ASSUME NEW S, IsFiniteSet(S), S # {}, \A x \in S : x \in Int
  PROVE  Max(S) \in S /\ \A y \in S : Max(S) >= y
<1> DEFINE B == {T \in SUBSET S : T # {} /\ \A x \in T, y \in S : y >= x => y \in T}
<1>1. S \in B
  OBVIOUS
<1>2. B \in SUBSET (SUBSET S)
  OBVIOUS
<1>3. PICK T \in B : \A U \in SUBSET T : U \in B => U = T
  <2>1. \A C \in SUBSET (SUBSET S) : C # {} => \E T \in C : \A U \in SUBSET T : U \in C => U = T
    BY SmallestSet
  <2>2. B # {}
    BY <1>1
  <2> HIDE DEF B
  <2> QED
    BY <1>2, <2>1, <2>2
<1>4. PICK x \in T : TRUE
  OBVIOUS
<1> DEFINE U == {y \in T : y > x}
<1>5. T \subseteq Int /\ x \in Int
  OBVIOUS
<1>6. U = {}
  <2>1. U \in SUBSET T /\ U # T
    BY <1>4, <1>5
  <2>2. U \notin B
    BY <1>3, <2>1
  <2>3. \A z \in U, y \in S : y >= z => y \in U
    BY <1>5
  <2> QED
    BY <2>1, <2>2, <2>3
<1>7. \A y \in S : x >= y
  <2> TAKE y \in S
  <2>1. y >= x => y \in T
    BY <1>3, <1>4
  <2> QED
    BY <1>5, <1>6, <2>1
<1>8. x \in S
  BY <1>4
<1> QED
  BY <1>7, <1>8 DEF Max

\* The smallest of finitely many integers.
LEMMA Smallest ==
  ASSUME NEW S, IsFiniteSet(S), S # {}, \A x \in S : x \in Int
  PROVE  Min(S) \in S /\ \A y \in S : Min(S) <= y
<1> DEFINE B == {T \in SUBSET S : T # {} /\ \A x \in T, y \in S : y <= x => y \in T}
<1>1. S \in B
  OBVIOUS
<1>2. B \in SUBSET (SUBSET S)
  OBVIOUS
<1>3. PICK T \in B : \A U \in SUBSET T : U \in B => U = T
  <2>1. \A C \in SUBSET (SUBSET S) : C # {} => \E T \in C : \A U \in SUBSET T : U \in C => U = T
    BY SmallestSet
  <2>2. B # {}
    BY <1>1
  <2> HIDE DEF B
  <2> QED
    BY <1>2, <2>1, <2>2
<1>4. PICK x \in T : TRUE
  OBVIOUS
<1> DEFINE U == {y \in T : y < x}
<1>5. T \subseteq Int /\ x \in Int
  OBVIOUS
<1>6. U = {}
  <2>1. U \in SUBSET T /\ U # T
    BY <1>4, <1>5
  <2>2. U \notin B
    BY <1>3, <2>1
  <2>3. \A z \in U, y \in S : y <= z => y \in U
    BY <1>5
  <2> QED
    BY <2>1, <2>2, <2>3
<1>7. \A y \in S : x <= y
  <2> TAKE y \in S
  <2>1. y <= x => y \in T
    BY <1>3, <1>4
  <2> QED
    BY <1>5, <1>6, <2>1
<1>8. x \in S
  BY <1>4
<1> QED
  BY <1>7, <1>8 DEF Min
=============================================================================
