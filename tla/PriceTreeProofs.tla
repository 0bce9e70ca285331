--------------------------- MODULE PriceTreeProofs ---------------------------
(***************************************************************************)
(* The walks through the tree of PriceTree, for every tree the constructor *)
(* could build, every tolerance and every way the distances are rounded.   *)
(***************************************************************************)
EXTENDS PriceTree, TLAPS

\* The levels are integers, and the prices of the constructor are levels.
LEMMA LevelFacts ==
  /\ Levels \subseteq Int /\ Root \in Levels
  /\ \A i \in DOMAIN Additions : Additions[i] \in Levels /\ Additions[i] # Root
  /\ Null \notin Levels /\ Null \notin Orders
  /\ Prices \cup Levels \subseteq Int
  /\ Len(Additions) \in Nat /\ DOMAIN Additions = 1 .. Len(Additions)
<1>1. Root \in Levels /\ Root \in Int /\ Prices \subseteq Int /\ Null \notin Levels /\ Null \notin Orders
  BY TreeAssumption DEF Levels
<1>2. Len(Additions) \in Nat /\ DOMAIN Additions = 1 .. Len(Additions)
  BY TreeAssumption
<1>3. \A i \in DOMAIN Additions : Additions[i] \in Int /\ Additions[i] # Root
  BY TreeAssumption
<1>4. \A i \in DOMAIN Additions : Additions[i] \in Levels
  BY DEF Levels, ToSet
<1>5. Levels \subseteq Int
  BY <1>1, <1>3 DEF Levels, ToSet
<1> QED
  BY <1>1, <1>2, <1>3, <1>4, <1>5

\* A level takes its own price.
LEMMA NearOwn == \A l \in Levels : Near(l, l)
BY TreeAssumption, LevelFacts DEF Near, Distance

LEMMA InitInv == Init => IInv
<1> SUFFICES ASSUME Init PROVE IInv
  OBVIOUS
<1> USE LevelFacts DEF Init
<1>1. TypeOK
  <2>1. 0 \in 0 .. Len(Additions)
    OBVIOUS
  <2>2. span \in [Levels -> SUBSET (Prices \cup Levels)]
    OBVIOUS
  <2>3. Root \in Levels
    OBVIOUS
  <2> HIDE LevelFacts
  <2> QED
    BY <2>1, <2>2, <2>3 DEF TypeOK, Link, Sides
<1>2. SpanInv
  <2>1. \A n \in Levels : span[n] = IF n = Root THEN Prices \cup Levels ELSE {}
    OBVIOUS
  <2>2. \A n \in Levels : left[n] = Null /\ right[n] = Null
    OBVIOUS
  <2>3. \A n \in Levels : Built(n) <=> n = Root
    BY <2>1 DEF Built
  <2>4. \A n, m \in Levels : Nested(n, m)
    BY <2>1, <2>3 DEF Nested
  <2>5. \A n \in Levels : Built(n) =>
          /\ ChildInv(n, left[n], {x \in span[n] : x < n})
          /\ ChildInv(n, right[n], {x \in span[n] : x > n})
    BY <2>2, <2>3 DEF ChildInv
  <2> QED
    BY <2>1, <2>2, <2>3, <2>4, <2>5 DEF SpanInv
<1>3. BuildInv
  BY TreeAssumption DEF BuildInv, Built, Building, NewPrice
<1>4. WalkInv
  BY DEF WalkInv
<1> QED
  BY <1>1, <1>2, <1>3, <1>4 DEF IInv

\* The level that the constructor is about to add is new, and lies on the way
\* through the level it has come to.
LEMMA NewLevel ==
  ASSUME IInv, Building
  PROVE  /\ NewPrice \in Levels /\ at \in Levels /\ NewPrice # at
         /\ span[NewPrice] = {} /\ NewPrice \in span[at]
         /\ added + 1 \in DOMAIN Additions /\ NewPrice # Root
<1>1. added \in 0 .. Len(Additions) /\ added < Len(Additions) /\ at \in Levels
  BY DEF IInv, TypeOK, Building
<1>2. added + 1 \in DOMAIN Additions /\ added + 1 > added
  BY <1>1, LevelFacts
<1>3. NewPrice \in Levels /\ NewPrice # Root
  BY <1>2, LevelFacts DEF NewPrice
<1>4. span[NewPrice] = {} /\ NewPrice \in span[at] /\ Built(at)
  BY <1>2 DEF IInv, BuildInv, NewPrice
<1> QED
  BY <1>1, <1>2, <1>3, <1>4 DEF Built

LEMMA TypeStep == IInv /\ [Next]_vars => TypeOK'
<1> SUFFICES ASSUME IInv, [Next]_vars PROVE TypeOK'
  OBVIOUS
<1> Root \in Levels /\ TypeOK
  BY LevelFacts DEF IInv
<1> USE DEF TypeOK, Link, Sides
<1>1. CASE BuildDescend
  <2>1. Child(at) \in Levels /\ at' = Child(at)
    BY <1>1 DEF BuildDescend, Child
  <2> QED
    BY <1>1, <2>1 DEF BuildDescend, orderVars, walkVars, scanVars, quotes
<1>2. CASE AddLevel
  <2>1. /\ NewPrice \in Levels /\ added + 1 \in DOMAIN Additions
        /\ left' = IF NewPrice < at THEN [left EXCEPT ![at] = NewPrice] ELSE left
        /\ right' = IF NewPrice > at THEN [right EXCEPT ![at] = NewPrice] ELSE right
        /\ span' = [span EXCEPT ![NewPrice] = {x \in span[at] : IF NewPrice < at THEN x < at ELSE x > at}]
        /\ added' = added + 1 /\ at' = Root
    BY <1>2, NewLevel, LevelFacts DEF AddLevel
  <2>2. left' \in [Levels -> Link] /\ right' \in [Levels -> Link]
    BY <2>1
  <2>3. {x \in span[at] : IF NewPrice < at THEN x < at ELSE x > at} \in SUBSET (Prices \cup Levels)
    OBVIOUS
  <2>4. span' \in [Levels -> SUBSET (Prices \cup Levels)]
    BY <2>1, <2>3
  <2> QED
    BY <1>2, <2>1, <2>2, <2>4 DEF AddLevel, orderVars, walkVars, scanVars, quotes
<1>3. CASE OpenMarket
  BY <1>3 DEF OpenMarket, treeVars, orderVars, walkVars, scanVars, quotes
<1>4. CASE Insert
  <2>1. ASSUME NEW o \in Orders, BeginInsert(o) PROVE TypeOK'
    BY <2>1 DEF BeginInsert, treeVars, orderVars, scanVars, quotes
  <2>2. CASE InsertDescend
    BY <2>2 DEF InsertDescend, InsertChild, treeVars, orderVars, scanVars, quotes
  <2>3. CASE Push
    BY <2>3 DEF Push, treeVars, scanVars, quotes
  <2>4. CASE Reject
    BY <2>4 DEF Reject, treeVars, scanVars, quotes
  <2> QED
    BY <1>4, <2>1, <2>2, <2>3, <2>4 DEF Insert
<1>5. CASE Cancel
  <2>1. ASSUME NEW o \in Orders, BeginCancel(o) PROVE TypeOK'
    BY <2>1 DEF BeginCancel, treeVars, orderVars, scanVars, quotes
  <2>2. CASE SearchDescend
    BY <2>2 DEF SearchDescend, SearchChild, treeVars, orderVars, scanVars, quotes
  <2>3. CASE SearchNull
    BY <2>3 DEF SearchNull, treeVars, orderVars, walkVars, scanVars, quotes
  <2>4. CASE CancelFound
    <3>1. cancelling \in Orders
      BY <2>4 DEF CancelFound, Found
    <3>2. status' \in [Orders -> {"sent", "queued", "rejected", "gone"}] /\ crashed' \in BOOLEAN
      BY <2>4, <3>1 DEF CancelFound
    <3> QED
      BY <2>4, <3>2 DEF CancelFound, treeVars, scanVars, quotes
  <2> QED
    BY <1>5, <2>1, <2>2, <2>3, <2>4 DEF Cancel
<1>6. CASE Scan
  <2>1. CASE BeginScan
    BY <2>1 DEF BeginScan, treeVars, orderVars, walkVars, quotes
  <2>2. CASE ScanDown
    BY <2>2 DEF ScanDown, Better, treeVars, orderVars, walkVars, quotes
  <2>3. CASE ReadOccupied
    BY <2>3 DEF ReadOccupied, Return, treeVars, orderVars, walkVars, quotes
  <2>4. CASE ReadEmpty
    <3>1. passed' \subseteq Levels /\ crashed' \in BOOLEAN
      BY <2>4 DEF ReadEmpty
    <3>2. /\ scanAt' \in Levels
          /\ pc' \in {"idle", "down", "read", "up", "returned"}
      BY <2>4 DEF ReadEmpty, Worse
    <3> QED
      BY <2>4, <3>1, <3>2 DEF ReadEmpty, treeVars, orderVars, walkVars, quotes
  <2>5. CASE ScanUp
    BY <2>5 DEF ScanUp, treeVars, orderVars, walkVars, quotes
  <2>6. CASE NothingFound
    BY <2>6 DEF NothingFound, Return, treeVars, orderVars, walkVars, quotes
  <2> QED
    BY <1>6, <2>1, <2>2, <2>3, <2>4, <2>5, <2>6 DEF Scan
<1>7. CASE Callers
  <2>1. CASE NoFill
    BY <2>1 DEF NoFill, treeVars, orderVars, walkVars, quotes
  <2>2. CASE Match
    BY <2>2 DEF Match, treeVars, walkVars, quotes
  <2>3. CASE JoinThreads
    BY <2>3 DEF JoinThreads, treeVars, orderVars, walkVars, scanVars, quotes
  <2>4. CASE Quote
    BY <2>4 DEF Quote, treeVars, orderVars, walkVars
  <2> QED
    BY <1>7, <2>1, <2>2, <2>3, <2>4 DEF Callers
<1>8. CASE UNCHANGED vars
  BY <1>8 DEF vars, treeVars, orderVars, walkVars, scanVars, quotes
<1> QED
  BY <1>1, <1>2, <1>3, <1>4, <1>5, <1>6, <1>7, <1>8 DEF Next, Build

-----------------------------------------------------------------------------
(* The shape of the tree *)

\* All that AddLevel does to the tree, in the terms of the invariant: the new
\* level takes the part of the span of its parent that had no level yet.
LEMMA NewPart ==
  ASSUME IInv, AddLevel
  PROVE  \E part \in SUBSET span[at] :
           /\ \A x \in span[at] : x \in part <=> x # at /\ (x < at <=> NewPrice < at)
           /\ NewPrice \in part
           /\ \A m \in Levels : m \in part => ~ Built(m)
           /\ span' = [span EXCEPT ![NewPrice] = part]
<1> DEFINE part == {x \in span[at] : IF NewPrice < at THEN x < at ELSE x > at}
<1>1. /\ NewPrice \in Levels /\ at \in Levels /\ NewPrice # at /\ NewPrice \in span[at]
  BY NewLevel DEF AddLevel
<1>2. span[at] \subseteq Int /\ NewPrice \in Int /\ at \in Int
  BY <1>1, LevelFacts DEF IInv, TypeOK
<1>3. \A x \in span[at] : x \in part <=> x # at /\ (x < at <=> NewPrice < at)
  BY <1>1, <1>2
<1>4. \A m \in Levels : m \in part => ~ Built(m)
  <2>1. /\ ChildInv(at, left[at], {x \in span[at] : x < at})
        /\ ChildInv(at, right[at], {x \in span[at] : x > at})
    BY <1>1 DEF IInv, SpanInv, BuildInv
  <2>2. CASE NewPrice < at
    BY <2>1, <2>2 DEF AddLevel, Child, ChildInv
  <2>3. CASE ~ (NewPrice < at)
    BY <2>1, <2>3 DEF AddLevel, Child, ChildInv
  <2> QED
    BY <2>2, <2>3
<1>5. span' = [span EXCEPT ![NewPrice] = part]
  BY DEF AddLevel
<1>6. NewPrice \in part
  BY <1>1, <1>3
<1>7. part \in SUBSET span[at]
  OBVIOUS
<1> HIDE DEF part
<1> QED
  BY <1>3, <1>4, <1>5, <1>6, <1>7

LEMMA SpanStep == IInv /\ AddLevel => SpanInv'
<1> SUFFICES ASSUME IInv, AddLevel PROVE SpanInv'
  OBVIOUS
<1>0. PICK N \in Levels, n \in Levels : N = NewPrice /\ n = at
  BY NewLevel DEF AddLevel
<1>1. PICK part \in SUBSET span[n] :
           /\ \A x \in span[n] : x \in part <=> x # n /\ (x < n <=> N < n)
           /\ N \in part
           /\ \A m \in Levels : m \in part => ~ Built(m)
           /\ span' = [span EXCEPT ![N] = part]
  BY <1>0, NewPart
<1>2. N \in Levels /\ n \in Levels /\ N # n /\ span[N] = {} /\ N \in span[n] /\ N # Root
  BY <1>0, NewLevel DEF AddLevel
<1>3. /\ \A m \in Levels \ {N} : span'[m] = span[m]
      /\ span'[N] = part
  BY <1>1, <1>2 DEF IInv, TypeOK
<1>4. /\ \A m \in Levels \ {N} : Built(m)' <=> Built(m)
      /\ Built(N)' /\ ~ Built(N) /\ Built(n)
  <2>1. \A m \in Levels \ {N} : Built(m)' <=> Built(m)
    BY <1>3 DEF Built
  <2>2. Built(N)' /\ ~ Built(N)
    BY <1>1, <1>2, <1>3 DEF Built
  <2> QED
    BY <1>0, <2>1, <2>2 DEF IInv, BuildInv
<1>5. /\ \A l \in Levels : span[l] # {} => Built(l)
      /\ \A l, m \in Levels : Nested(l, m)
      /\ \A l \in Levels : Built(l) =>
           /\ ChildInv(l, left[l], {x \in span[l] : x < l})
           /\ ChildInv(l, right[l], {x \in span[l] : x > l})
      /\ \A l \in Levels : ~ Built(l) => left[l] = Null /\ right[l] = Null
      /\ Built(Root)
  BY DEF IInv, SpanInv
<1>6. /\ span[n] \subseteq Int /\ N \in Int /\ n \in Int
      /\ \A l \in Levels : l \in Int /\ span[l] \subseteq Int
  BY <1>2, LevelFacts DEF IInv, TypeOK
\* Whatever has something of the new part in its span is above the parent.
<1>7. ASSUME NEW m \in Levels, m # N, m # n, NEW x \in part, x \in span[m]
      PROVE  n \in span[m] /\ span[n] \subseteq span[m] /\ (\A y \in span[n] : y < m <=> n < m) /\ m \notin span[n]
  <2>1. n \in span[m] \/ m \in span[n]
    BY <1>1, <1>2, <1>5, <1>7 DEF Nested
  <2>2. Built(m)
    BY <1>5, <1>7
  <2>3. m \notin span[n]
    <3> SUFFICES ASSUME m \in span[n] PROVE FALSE
      OBVIOUS
    <3>1. x < n <=> m < n
      BY <1>2, <1>5, <1>7, <2>2 DEF Nested
    <3>2. m \in part
      BY <1>1, <1>7, <3>1
    <3> QED
      BY <1>1, <2>2, <3>2
  <2> QED
    BY <1>2, <1>4, <1>5, <1>7, <2>1, <2>3 DEF Nested
<1>8. \A l \in Levels : span'[l] # {} => Built(l)'
  BY <1>3, <1>4, <1>5
<1>9. ASSUME NEW l \in Levels, NEW m \in Levels PROVE Nested(l, m)'
  <2>1. CASE l # N /\ m # N
    BY <1>3, <1>4, <1>5, <2>1 DEF Nested
  <2>2. CASE l = N /\ m = N
    BY <2>2 DEF Nested
  <2>3. CASE l = N /\ m = n
    <3>1. Built(m)' /\ m \notin span'[l]
      BY <1>1, <1>2, <1>3, <1>4, <2>3
    <3>2. l \in span'[m]
      BY <1>1, <1>2, <1>3, <2>3
    <3> QED
      BY <3>1, <3>2, <2>3 DEF Nested
  <2>4. CASE l = n /\ m = N
    <3>1. m \in span'[l] /\ l \notin span'[m] /\ span'[m] \subseteq span'[l]
      BY <1>1, <1>2, <1>3, <2>4
    <3>2. \A x \in span'[m] : x < l <=> m < l
      BY <1>1, <1>2, <1>3, <2>4
    <3> QED
      BY <3>1, <3>2, <2>4 DEF Nested
  <2>5. CASE l = N /\ m \notin {n, N}
    <3>1. Built(m)' => m \notin span'[l]
      BY <1>1, <1>3, <1>4, <2>5
    <3>2. ASSUME NEW x \in span'[l] \cap span'[m] PROVE l \in span'[m]
      BY <1>1, <1>3, <1>7, <2>5, <3>2
    <3> QED
      BY <3>1, <3>2 DEF Nested
  <2>6. CASE m = N /\ l \notin {n, N}
    <3>1. ASSUME NEW x \in span'[l] \cap span'[m]
          PROVE  /\ m \in span'[l] /\ span'[m] \subseteq span'[l] /\ l \notin span'[m]
                 /\ \A y \in span'[m] : y < l <=> m < l
      BY <1>1, <1>2, <1>3, <1>7, <2>6, <3>1
    <3>2. m \in span'[m]
      BY <1>1, <1>3, <2>6
    <3> QED
      BY <3>1, <3>2, <2>6 DEF Nested
  <2> QED
    BY <2>1, <2>2, <2>3, <2>4, <2>5, <2>6
<1>10. ASSUME NEW l \in Levels, Built(l)'
       PROVE  /\ ChildInv(l, left[l], {x \in span[l] : x < l})'
              /\ ChildInv(l, right[l], {x \in span[l] : x > l})'
  <2>1. /\ left' = IF N < n THEN [left EXCEPT ![n] = N] ELSE left
        /\ right' = IF N > n THEN [right EXCEPT ![n] = N] ELSE right
        /\ left \in [Levels -> Levels \cup {Null}] /\ right \in [Levels -> Levels \cup {Null}]
        /\ N < n => left[n] = Null
        /\ ~ (N < n) => right[n] = Null
    BY <1>0 DEF AddLevel, Child, IInv, TypeOK, Link
  \* A side of a level in which the new one is not stays as it was.
  <2>2. ASSUME NEW S, NEW c \in Levels \cup {Null}, NEW k \in Levels, ChildInv(k, c, S), N \notin S \/ c # Null
        PROVE  ChildInv(k, c, S)'
    <3>1. CASE c = Null
      BY <1>4, <2>2, <3>1 DEF ChildInv
    <3>2. CASE c # Null
      <4>1. c \in Levels /\ c # N /\ c \in S /\ Built(c) /\ span[c] = S
        BY <1>4, <2>2, <3>2 DEF ChildInv
      <4> QED
        BY <1>3, <1>4, <3>2, <4>1 DEF ChildInv
    <3> QED
      BY <3>1, <3>2
  <2>3. CASE l = N
    <3>1. left'[l] = Null /\ right'[l] = Null
      BY <1>2, <1>4, <1>5, <2>1, <2>3
    <3>2. \A m \in Levels : m \in span'[l] /\ m # l => ~ Built(m)'
      BY <1>1, <1>3, <1>4, <2>3
    <3>3. \A m \in {x \in span'[l] : x < l} \cup {x \in span'[l] : x > l} : m \in Levels => ~ Built(m)'
      <4> SUFFICES ASSUME NEW m \in span'[l], m < l \/ m > l, m \in Levels PROVE ~ Built(m)'
        BY Zenon
      <4> m # l
        BY <1>6
      <4> QED
        BY <3>2
    <3> QED
      BY <3>1, <3>3 DEF ChildInv
  <2>4. CASE l = n
    <3>1. span'[l] = span[l] /\ Built(l)
      BY <1>2, <1>3, <1>4, <2>4
    <3>2. /\ ChildInv(l, left[l], {x \in span[l] : x < l})
          /\ ChildInv(l, right[l], {x \in span[l] : x > l})
      BY <1>5, <3>1
    <3>3. CASE N < n
      <4>1. {x \in span[l] : x < l} = part /\ N \notin {x \in span[l] : x > l}
        <5>1. \A x \in span[n] : x \in part <=> x < n
          BY <1>1, <1>6, <3>3
        <5>2. ~ (N > n)
          BY <1>6, <3>3
        <5> QED
          BY <2>4, <5>1, <5>2
      <4>2. left'[l] = N /\ right'[l] = right[l]
        BY <1>6, <2>1, <2>4, <3>3
      <4>3. ChildInv(l, N, part)'
        BY <1>1, <1>2, <1>3, <1>4, LevelFacts DEF ChildInv
      <4>4. ChildInv(l, right[l], {x \in span[l] : x > l})'
        BY <2>1, <2>2, <3>1, <3>2, <4>1, <4>2
      <4> QED
        BY <3>1, <4>1, <4>2, <4>3, <4>4
    <3>4. CASE N > n
      <4>1. {x \in span[l] : x > l} = part /\ N \notin {x \in span[l] : x < l}
        <5>1. \A x \in span[n] : x \in part <=> x > n
          BY <1>1, <1>6, <3>4
        <5>2. ~ (N < n)
          BY <1>6, <3>4
        <5> QED
          BY <2>4, <5>1, <5>2
      <4>2. right'[l] = N /\ left'[l] = left[l]
        BY <1>6, <2>1, <2>4, <3>4
      <4>3. ChildInv(l, N, part)'
        BY <1>1, <1>2, <1>3, <1>4, LevelFacts DEF ChildInv
      <4>4. ChildInv(l, left[l], {x \in span[l] : x < l})'
        BY <2>1, <2>2, <3>1, <3>2, <4>1, <4>2
      <4> QED
        BY <3>1, <4>1, <4>2, <4>3, <4>4
    <3> QED
      BY <1>2, <1>6, <3>3, <3>4
  <2>5. CASE l \notin {n, N}
    <3>1. span'[l] = span[l] /\ Built(l) /\ left'[l] = left[l] /\ right'[l] = right[l]
      BY <1>3, <1>4, <1>10, <2>1, <2>5
    <3>2. /\ ChildInv(l, left[l], {x \in span[l] : x < l})
          /\ ChildInv(l, right[l], {x \in span[l] : x > l})
      BY <1>5, <3>1
    <3>3. N \in span[l] => n \in span[l] /\ (N < l <=> n < l) /\ (N > l <=> n > l)
      <4>1. N \in span[l] => n \in span[l] /\ (N < l <=> n < l)
        BY <1>1, <1>2, <1>7, <2>5
      <4> QED
        BY <1>2, <1>6, <2>5, <4>1
    <3>4. left[l] = Null => N \notin {x \in span[l] : x < l}
      BY <1>2, <1>4, <3>2, <3>3 DEF ChildInv
    <3>5. right[l] = Null => N \notin {x \in span[l] : x > l}
      BY <1>2, <1>4, <3>2, <3>3 DEF ChildInv
    <3> QED
      BY <2>1, <2>2, <3>1, <3>2, <3>4, <3>5
  <2> QED
    BY <2>3, <2>4, <2>5
<1>11. \A l \in Levels : ~ Built(l)' => left'[l] = Null /\ right'[l] = Null
  BY <1>0, <1>2, <1>4, <1>5 DEF IInv, TypeOK, AddLevel
<1>12. Built(Root)'
  BY <1>2, <1>4, <1>5, LevelFacts
<1> QED
  BY <1>5, <1>8, <1>9, <1>10, <1>11, <1>12 DEF SpanInv

\* The walk of the constructor stays on the way to the place of the new level.
LEMMA BuildStep == IInv /\ [Next]_vars => BuildInv'
<1> SUFFICES ASSUME IInv, [Next]_vars PROVE BuildInv'
  OBVIOUS
<1>0. BuildInv /\ TypeOK /\ SpanInv
  BY DEF IInv
<1>1. CASE BuildDescend
  <2>1. /\ at \in Levels /\ Built(at) /\ NewPrice \in span[at] /\ NewPrice # at /\ Building
        /\ NewPrice \in Int /\ at \in Int
    BY <1>0, <1>1, NewLevel, LevelFacts DEF BuildDescend, BuildInv
  <2>2. /\ Child(at) # Null
        /\ at' = Child(at)
        /\ UNCHANGED <<left, right, added, span, phase, inserting, cancelling, status>>
    BY <1>1 DEF BuildDescend, orderVars, walkVars
  <2>3. /\ ChildInv(at, left[at], {x \in span[at] : x < at})
        /\ ChildInv(at, right[at], {x \in span[at] : x > at})
    BY <1>0, <2>1 DEF SpanInv
  <2>4. Built(at)' /\ NewPrice \in span[at']
    <3>1. CASE NewPrice < at
      BY <2>1, <2>2, <2>3, <3>1 DEF Child, ChildInv, Built
    <3>2. CASE NewPrice > at
      BY <2>1, <2>2, <2>3, <3>2 DEF Child, ChildInv, Built
    <3> QED
      BY <2>1, <3>1, <3>2
  <2> QED
    BY <1>0, <2>2, <2>4 DEF BuildInv, Built, Building, NewPrice
<1>2. CASE AddLevel
  <2>1. SpanInv' /\ at' = Root /\ added' = added + 1 /\ Building
        /\ UNCHANGED <<phase, inserting, cancelling, status>>
    BY <1>2, SpanStep DEF AddLevel, orderVars, walkVars
  <2>2. \A l \in Levels : l # NewPrice => span'[l] = span[l]
    BY <1>0, <1>2, NewPart DEF TypeOK
  <2>3. NewPrice # Root /\ added + 1 \in DOMAIN Additions /\ added \in Nat
    BY <1>0, <2>1, NewLevel, LevelFacts DEF TypeOK
  <2>4. span'[Root] = Prices \cup Levels /\ Built(Root)'
    BY <1>0, <2>1, <2>2, <2>3, LevelFacts DEF BuildInv, SpanInv
  <2>5. ASSUME NEW i \in DOMAIN Additions, i > added + 1 PROVE span'[Additions[i]] = {}
    <3>1. i \in Nat /\ i # added + 1 /\ i > added
      BY <2>3, <2>5, LevelFacts
    <3>2. Additions[i] # NewPrice /\ Additions[i] \in Levels
      BY <2>3, <3>1, TreeAssumption, LevelFacts DEF NewPrice
    <3> QED
      BY <1>0, <2>2, <3>1, <3>2 DEF BuildInv
  <2>6. Building' => NewPrice' \in span'[Root]
    <3> SUFFICES ASSUME Building' PROVE NewPrice' \in Levels
      BY <2>4
    <3>1. added' + 1 \in DOMAIN Additions
      BY <2>1, <2>3, LevelFacts DEF Building
    <3> QED
      BY <3>1, LevelFacts DEF NewPrice
  <2> QED
    BY <1>0, <2>1, <2>4, <2>5, <2>6 DEF BuildInv
<1>3. CASE OpenMarket
  BY <1>0, <1>3 DEF OpenMarket, BuildInv, Built, Building, NewPrice, treeVars
<1>4. CASE UNCHANGED treeVars /\ phase # "building" /\ phase' # "building"
  BY <1>0, <1>4 DEF BuildInv, Built, Building, treeVars
<1>5. CASE Insert \/ Cancel \/ Scan \/ Callers
  <2>1. UNCHANGED treeVars
    BY <1>5 DEF Insert, BeginInsert, InsertDescend, Push, Reject,
      Cancel, BeginCancel, SearchDescend, SearchNull, CancelFound,
      Scan, BeginScan, ScanDown, ReadOccupied, ReadEmpty, ScanUp, NothingFound,
      Callers, NoFill, Match, JoinThreads, Quote
  <2>2. phase # "building" => phase' # "building"
    BY <1>5 DEF Insert, BeginInsert, InsertDescend, Push, Reject,
      Cancel, BeginCancel, SearchDescend, SearchNull, CancelFound, Found,
      Scan, BeginScan, ScanDown, ReadOccupied, ReadEmpty, ScanUp, NothingFound,
      Callers, NoFill, Match, JoinThreads, Quote
  <2>3. CASE phase = "building"
    <3>1. inserting = Null /\ cancelling = Null
      BY <1>0, <2>3 DEF BuildInv
    <3>2. UNCHANGED <<phase, inserting, cancelling, status>>
      BY <1>5, <2>3, <3>1 DEF Insert, BeginInsert, InsertDescend, Push, Reject,
        Cancel, BeginCancel, SearchDescend, SearchNull, CancelFound, Found,
        Scan, BeginScan, ScanDown, ReadOccupied, ReadEmpty, ScanUp, NothingFound,
        Callers, NoFill, Match, JoinThreads, Quote, orderVars, walkVars
    <3> QED
      BY <1>0, <2>1, <3>2 DEF BuildInv, Built, Building, NewPrice, treeVars
  <2> QED
    BY <1>4, <2>1, <2>2, <2>3
<1>6. CASE UNCHANGED vars
  BY <1>0, <1>6 DEF BuildInv, Built, Building, NewPrice, vars, treeVars, orderVars, walkVars
<1> QED
  BY <1>1, <1>2, <1>3, <1>5, <1>6 DEF Next, Build

-----------------------------------------------------------------------------
(* The walks for orders *)

\* A walk for p that is at l, does not end there and goes to child c.
LEMMA WalkDown ==
  ASSUME SpanInv, TypeOK, NEW p \in Prices, NEW l \in Levels, Reached(p, l), ~ Near(p, l),
         NEW c \in Levels \cup {Null},
         c = IF p < l THEN left[l] ELSE right[l]
  PROVE  IF c = Null THEN Missed(p) ELSE Reached(p, c)
<1>1. /\ p \in Int /\ l \in Int /\ p \in span[l] /\ Built(l) /\ p # l
      /\ \A m \in Levels : m \in Int /\ span[m] \subseteq Int
  BY LevelFacts, NearOwn DEF Reached, SpanInv, TypeOK
<1> DEFINE S == {x \in span[l] : IF p < l THEN x < l ELSE x > l}
<1>2. p \in S /\ ChildInv(l, c, S)
  <2>1. CASE p < l
    BY <1>1, <2>1 DEF SpanInv
  <2>2. CASE p > l
    <3>1. S = {x \in span[l] : x > l}
      BY <1>1, <2>2
    <3>2. c = right[l]
      BY <1>1, <2>2
    <3> QED
      BY <1>1, <2>2, <3>1, <3>2 DEF SpanInv
  <2> QED
    BY <1>1, <2>1, <2>2
\* Whatever else the price goes through is above l, or on the same side of it.
<1>3. ASSUME NEW m \in Levels, Built(m), m # l, p \in span[m]
      PROVE  (l \in span[m] /\ ~ Near(p, m)) \/ m \in S
  <2>1. l \in span[m] \/ m \in span[l]
    BY <1>1, <1>3 DEF SpanInv, Nested
  <2>2. m \in span[l] => (p < l <=> m < l)
    BY <1>1, <1>3 DEF SpanInv, Nested
  <2>3. l \in span[m] => ~ Near(p, m)
    BY <1>3 DEF Reached
  <2>4. ASSUME m \in span[l] PROVE m \in S
    <3>1. m \in Int /\ m # l /\ (p < l <=> m < l)
      BY <1>1, <1>3, <2>2, <2>4
    <3>2. IF p < l THEN m < l ELSE m > l
      BY <1>1, <3>1
    <3> QED
      BY <2>4, <3>2
  <2> QED
    BY <2>1, <2>3, <2>4
<1> HIDE DEF S
<1>4. CASE c = Null
  BY <1>2, <1>3, <1>4 DEF Missed, ChildInv
<1>5. CASE c # Null
  <2>1. c \in Levels /\ c \in S /\ Built(c) /\ span[c] = S
    BY <1>2, <1>5 DEF ChildInv
  <2>2. ASSUME NEW m \in Levels, Built(m), c \in span[m], m # c PROVE ~ Near(p, m)
    <3>1. CASE m = l
      BY <3>1
    <3>2. CASE m # l
      <4>1. span[c] \subseteq span[m] /\ m \notin span[c]
        BY <2>1, <2>2 DEF SpanInv, Nested
      <4> QED
        BY <1>2, <1>3, <2>1, <2>2, <3>2, <4>1
    <3> QED
      BY <3>1, <3>2
  <2> QED
    BY <1>2, <1>5, <2>1, <2>2 DEF Reached
<1> QED
  BY <1>4, <1>5

\* Two walks for a price that end at a level end at the same one.
LEMMA WalksMeet ==
  ASSUME SpanInv, NEW p, NEW l \in Levels, NEW m \in Levels,
         Reached(p, l), Near(p, l), Reached(p, m), Near(p, m)
  PROVE  l = m
BY DEF Reached, SpanInv, Nested

LEMMA FromRoot ==
  ASSUME SpanInv, BuildInv, NEW p \in Prices
  PROVE  Reached(p, Root)
<1>1. Root \in Levels /\ p \in span[Root] /\ Built(Root)
  BY LevelFacts DEF BuildInv, SpanInv
<1>2. ASSUME NEW m \in Levels, Built(m), Root \in span[m], m # Root PROVE FALSE
  BY <1>1, <1>2 DEF SpanInv, Nested, BuildInv
<1> QED
  BY <1>1, <1>2 DEF Reached

\* Once the tree is built the walks keep what they have reached.
LEMMA WalkStep == IInv /\ [Next]_vars => WalkInv'
<1> SUFFICES ASSUME IInv, [Next]_vars PROVE WalkInv'
  OBVIOUS
<1>0. WalkInv /\ BuildInv /\ TypeOK /\ SpanInv
  BY DEF IInv
<1>1. CASE Build
  <2>1. phase = "building" /\ UNCHANGED <<orderVars, walkVars>>
    BY <1>1 DEF Build, BuildDescend, AddLevel, OpenMarket, Building
  <2> QED
    BY <1>0, <2>1 DEF BuildInv, WalkInv, orderVars, walkVars
\* In all other steps the tree and the prices stay, and so does what is reached.
<1>2. ASSUME UNCHANGED span
      PROVE  /\ \A p, l : Reached(p, l)' <=> Reached(p, l)
             /\ \A p : Missed(p)' <=> Missed(p)
  BY <1>2 DEF Reached, Missed, Built
<1>3. CASE Insert
  <2>1. UNCHANGED <<span, price, cancelling, searchAt>>
    BY <1>3 DEF Insert, BeginInsert, InsertDescend, Push, Reject, treeVars, orderVars
  <2>2. /\ cancelling # Null =>
             IF searchAt = Null THEN Missed(price[cancelling])' ELSE Reached(price[cancelling], searchAt)'
    BY <1>0, <1>2, <2>1 DEF WalkInv
  <2>3. ASSUME NEW o \in Orders, BeginInsert(o) PROVE WalkInv'
    <3>1. Reached(price[o], Root)
      BY <1>0, FromRoot DEF TypeOK
    <3> QED
      BY <1>0, <1>2, <2>1, <2>2, <2>3, <3>1 DEF WalkInv, BeginInsert, orderVars
  <2>4. ASSUME inserting # Null
        PROVE  /\ inserting \in Orders /\ insertAt \in Levels /\ price[inserting] \in Prices
               /\ Reached(price[inserting], insertAt) /\ status[inserting] = "sent"
    BY <1>0, <2>4 DEF WalkInv, TypeOK
  <2>5. ASSUME inserting # Null, ~ Near(price[inserting], insertAt)
        PROVE  IF InsertChild(insertAt) = Null THEN Missed(price[inserting])
               ELSE Reached(price[inserting], InsertChild(insertAt))
    <3>1. price[inserting] # insertAt
      BY <2>4, <2>5, NearOwn
    <3>2. InsertChild(insertAt) = IF price[inserting] < insertAt THEN left[insertAt] ELSE right[insertAt]
      BY <2>4, <2>5, <3>1, LevelFacts DEF InsertChild
    <3>3. InsertChild(insertAt) \in Levels \cup {Null}
      BY <1>0, <2>4, <2>5, <3>2 DEF TypeOK, Link
    <3> QED
      BY <1>0, <2>4, <2>5, <3>2, <3>3, WalkDown
  <2>6. CASE InsertDescend
    <3>1. Reached(price[inserting], insertAt') /\ UNCHANGED <<inserting, status, home>> /\ inserting # Null
      BY <2>5, <2>6 DEF InsertDescend, orderVars
    <3> QED
      BY <1>0, <1>2, <2>1, <2>2, <3>1 DEF WalkInv
  <2>7. CASE Push
    <3>1. /\ inserting # Null /\ inserting' = Null /\ Near(price[inserting], insertAt)
          /\ status' = [status EXCEPT ![inserting] = "queued"]
          /\ home' = [home EXCEPT ![inserting] = insertAt]
      BY <2>7 DEF Push
    <3>2. ASSUME NEW o \in Orders
          PROVE  /\ status'[o] = "queued" => Reached(price[o], home'[o]) /\ Near(price[o], home'[o])
                 /\ status'[o] = "rejected" => Missed(price[o])
      <4>1. CASE o = inserting
        BY <1>0, <2>4, <3>1, <4>1 DEF TypeOK
      <4>2. CASE o # inserting
        BY <1>0, <2>4, <3>1, <4>2 DEF TypeOK, WalkInv
      <4> QED
        BY <4>1, <4>2
    <3> QED
      BY <1>2, <2>1, <2>2, <3>1, <3>2 DEF WalkInv
  <2>8. CASE Reject
    <3>1. /\ inserting # Null /\ inserting' = Null /\ Missed(price[inserting])
          /\ status' = [status EXCEPT ![inserting] = "rejected"] /\ UNCHANGED home
      BY <2>5, <2>8 DEF Reject
    <3>2. ASSUME NEW o \in Orders
          PROVE  /\ status'[o] = "queued" => Reached(price[o], home[o]) /\ Near(price[o], home[o])
                 /\ status'[o] = "rejected" => Missed(price[o])
      BY <1>0, <2>4, <3>1 DEF TypeOK, WalkInv
    <3> QED
      BY <1>2, <2>1, <2>2, <3>1, <3>2 DEF WalkInv
  <2> QED
    BY <1>3, <2>3, <2>6, <2>7, <2>8 DEF Insert
\* An order that leaves its level is neither queued nor rejected.
<1>4. ASSUME UNCHANGED <<span, price, home, inserting, insertAt>>,
             \A o \in Orders : status'[o] = status[o] \/ (status[o] = "queued" /\ status'[o] = "gone")
      PROVE  /\ inserting' # Null => status'[inserting'] = "sent" /\ Reached(price[inserting], insertAt)'
             /\ \A o \in Orders :
                  /\ status'[o] = "queued" => Reached(price[o], home[o])' /\ Near(price'[o], home'[o])
                  /\ status'[o] = "rejected" => Missed(price[o])'
  BY <1>0, <1>2, <1>4 DEF WalkInv, TypeOK
<1>5. CASE Cancel
  <2>1. UNCHANGED <<span, price, home, inserting, insertAt>>
    BY <1>5 DEF Cancel, BeginCancel, SearchDescend, SearchNull, CancelFound, treeVars, orderVars, walkVars
  <2>2. \A o \in Orders : status'[o] = status[o] \/ (status[o] = "queued" /\ status'[o] = "gone")
    <3>1. CASE CancelFound
      <4>1. cancelling \in Orders
        BY <1>0, <3>1 DEF CancelFound, Found, TypeOK
      <4>2. CASE UNCHANGED status
        BY <4>2
      <4>3. CASE /\ cancelling \in Queued(side[cancelling], searchAt)
                 /\ status' = [status EXCEPT ![cancelling] = "gone"]
        BY <1>0, <4>1, <4>3 DEF Queued, TypeOK
      <4> QED
        BY <3>1, <4>2, <4>3 DEF CancelFound
    <3>2. CASE UNCHANGED status
      BY <3>2
    <3> QED
      BY <1>5, <3>1, <3>2 DEF Cancel, BeginCancel, SearchDescend, SearchNull, orderVars
  <2>3. cancelling' # Null =>
          IF searchAt' = Null THEN Missed(price[cancelling])' ELSE Reached(price[cancelling], searchAt)'
    <3>1. ASSUME NEW o \in Orders, BeginCancel(o)
          PROVE  Reached(price[cancelling], searchAt)' /\ searchAt' # Null
      <4>1. Reached(price[o], Root) /\ cancelling' = o /\ searchAt' = Root
        BY <1>0, <3>1, FromRoot DEF TypeOK, BeginCancel
      <4> QED
        BY <1>2, <2>1, <4>1, LevelFacts
    <3>2. CASE SearchDescend
      <4>1. /\ cancelling \in Orders /\ searchAt \in Levels /\ price[cancelling] \in Prices
            /\ ~ Near(price[cancelling], searchAt) /\ Reached(price[cancelling], searchAt)
            /\ searchAt' = SearchChild(searchAt) /\ UNCHANGED cancelling
        BY <1>0, <3>2 DEF SearchDescend, WalkInv, TypeOK, Link
      <4>2. SearchChild(searchAt) \in Levels \cup {Null}
        BY <1>0, <4>1 DEF TypeOK, Link, SearchChild
      <4>3. IF searchAt' = Null THEN Missed(price[cancelling]) ELSE Reached(price[cancelling], searchAt')
        BY <1>0, <4>1, <4>2, WalkDown DEF SearchChild
      <4> QED
        BY <1>2, <2>1, <4>1, <4>3
    <3>3. CASE SearchNull
      BY <1>0, <1>2, <2>1, <3>3 DEF SearchNull, walkVars, WalkInv
    <3>4. CASE CancelFound
      BY <3>4 DEF CancelFound
    <3> QED
      BY <1>5, <3>1, <3>2, <3>3, <3>4 DEF Cancel
  <2> QED
    BY <1>4, <2>1, <2>2, <2>3 DEF WalkInv
<1>6. CASE Scan \/ Callers \/ UNCHANGED vars
  <2>1. UNCHANGED <<span, price, home, inserting, insertAt, cancelling, searchAt>>
    BY <1>6 DEF Scan, BeginScan, ScanDown, ReadOccupied, ReadEmpty, ScanUp, NothingFound,
      Callers, NoFill, Match, JoinThreads, Quote, vars, treeVars, orderVars, walkVars
  <2>2. \A o \in Orders : status'[o] = status[o] \/ (status[o] = "queued" /\ status'[o] = "gone")
    <3>1. CASE Match
      <4>1. PICK b \in Queued("buy", best), a \in Queued("sell", best) :
              \E done \in {{a}, {b}, {a, b}} :
                status' = [o \in Orders |-> IF o \in done THEN "gone" ELSE status[o]]
        BY <3>1 DEF Match
      <4>2. status[a] = "queued" /\ status[b] = "queued"
        BY <4>1 DEF Queued
      <4> QED
        BY <4>1, <4>2
    <3>2. CASE UNCHANGED status
      BY <3>2
    <3> QED
      BY <1>6, <3>1, <3>2 DEF Scan, BeginScan, ScanDown, ReadOccupied, ReadEmpty, ScanUp, NothingFound,
        Callers, NoFill, JoinThreads, Quote, vars, orderVars
  <2>3. cancelling' # Null =>
          IF searchAt' = Null THEN Missed(price[cancelling])' ELSE Reached(price[cancelling], searchAt)'
    BY <1>0, <1>2, <2>1 DEF WalkInv
  <2> QED
    BY <1>4, <2>1, <2>2, <2>3 DEF WalkInv
<1> QED
  BY <1>1, <1>3, <1>5, <1>6 DEF Next

LEMMA SpanKept == IInv /\ [Next]_vars => SpanInv'
<1> SUFFICES ASSUME IInv, [Next]_vars PROVE SpanInv'
  OBVIOUS
<1>1. CASE AddLevel
  BY <1>1, SpanStep
<1>2. CASE UNCHANGED <<span, left, right>>
  BY <1>2 DEF IInv, SpanInv, Nested, ChildInv, Built
<1>3. CASE ~ AddLevel
  <2>1. UNCHANGED <<span, left, right>>
    BY <1>3 DEF Next, Build, BuildDescend, OpenMarket, Insert, BeginInsert, InsertDescend, Push, Reject,
      Cancel, BeginCancel, SearchDescend, SearchNull, CancelFound,
      Scan, BeginScan, ScanDown, ReadOccupied, ReadEmpty, ScanUp, NothingFound,
      Callers, NoFill, Match, JoinThreads, Quote, vars, treeVars
  <2> QED
    BY <1>2, <2>1
<1> QED
  BY <1>1, <1>3

\* The invariant of the tree and its walks: the spans of the levels are nested,
\* and every walk has tried all the levels above the one it has come to.
THEOREM Invariant == Spec => []IInv
<1>1. IInv /\ [Next]_vars => IInv'
  BY TypeStep, SpanKept, BuildStep, WalkStep DEF IInv
<1> QED
  BY InitInv, <1>1, PTL DEF Spec

\* A cancellation meets its order: search ends where insert ended, and runs
\* into a missing child only for prices that insert rejects.
THEOREM CancelsMeetInserts == Spec => []CancelMeetsInsert
<1>1. IInv => CancelMeetsInsert
  <2> SUFFICES ASSUME IInv, cancelling # Null
               PROVE  /\ Found /\ status[cancelling] = "queued" => searchAt = home[cancelling]
                      /\ searchAt = Null => status[cancelling] # "queued"
                      /\ Found => status[cancelling] # "rejected"
    BY DEF CancelMeetsInsert
  <2>1. /\ cancelling \in Orders /\ SpanInv
        /\ searchAt = Null => Missed(price[cancelling])
        /\ searchAt # Null => Reached(price[cancelling], searchAt)
        /\ status[cancelling] = "queued" =>
             Reached(price[cancelling], home[cancelling]) /\ Near(price[cancelling], home[cancelling])
        /\ status[cancelling] = "rejected" => Missed(price[cancelling])
    BY DEF IInv, TypeOK, WalkInv
  <2>2. Found /\ status[cancelling] = "queued" => searchAt = home[cancelling]
    BY <2>1, WalksMeet DEF Found, Reached
  <2>3. searchAt = Null => status[cancelling] # "queued"
    BY <2>1 DEF Missed, Reached, SpanInv
  <2>4. Found => status[cancelling] # "rejected"
    BY <2>1 DEF Found, Missed, Reached, SpanInv
  <2> QED
    BY <2>2, <2>3, <2>4
<1> QED
  BY Invariant, <1>1, PTL
=============================================================================
