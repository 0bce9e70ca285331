--------------------------- MODULE PriceScanProofs ----------------------------
(***************************************************************************)
(* The scans of PriceTree implement BookScan, and output_market finds the  *)
(* best prices with them: for every tree the constructor could build.      *)
(***************************************************************************)
EXTENDS PriceTreeProofs, SumFacts

LEMMA InitScan == Init => ScanInv
<1> SUFFICES ASSUME Init PROVE ScanInv
  OBVIOUS
<1>1. \A n \in Levels : span[n] = IF n = Root THEN Prices \cup Levels ELSE {}
  BY DEF Init
<1>2. Whole
  <2>1. added = 0 /\ phase = "building"
    BY DEF Init
  <2>2. \A i \in DOMAIN Additions : ~ (i <= added)
    BY <2>1, LevelFacts
  <2> QED
    BY <1>1, <2>1, <2>2 DEF Whole
<1>3. PassInv
  BY DEF Init, PassInv
<1>4. QuoteInv
  BY DEF Init, QuoteInv
<1> QED
  BY <1>2, <1>3, <1>4 DEF ScanInv

\* Once the market is open every level is in the tree.
LEMMA AllBuilt ==
  ASSUME IInv, Whole, phase # "building"
  PROVE  \A l \in Levels : Built(l)
<1>1. Built(Root)
  BY DEF IInv, SpanInv
<1>2. \A i \in DOMAIN Additions : i <= added
  BY LevelFacts DEF Whole
<1> QED
  BY <1>1, <1>2 DEF Whole, Levels, ToSet

\* Two levels in the span of a third that a fourth is not in are on the same
\* side of the fourth.
LEMMA SameSide ==
  ASSUME IInv, Whole, NEW n \in Levels, NEW x \in span[n], NEW y \in span[n],
         NEW m \in Levels, m \notin span[n]
  PROVE  (m > x <=> m > y) /\ (m < x <=> m < y) /\ m # x
<1>1. m \in Int /\ x \in Int /\ y \in Int
  BY LevelFacts DEF IInv, TypeOK
<1>2. m \in Prices \cup Levels
  OBVIOUS
<1>3. ~ (x < m /\ m < y) /\ ~ (y < m /\ m < x)
  BY <1>2 DEF Whole
<1> QED
  BY <1>1, <1>3

LEMMA WholeStep == IInv /\ ScanInv /\ [Next]_vars => Whole'
<1> SUFFICES ASSUME IInv, Whole, [Next]_vars PROVE Whole'
  BY DEF ScanInv
<1>0. TypeOK /\ SpanInv /\ BuildInv
  BY DEF IInv
<1>1. CASE AddLevel
  <2>0. PICK N \in Levels, n \in Levels : N = NewPrice /\ n = at
    BY <1>1, NewLevel DEF AddLevel
  <2>1. PICK part \in SUBSET span[n] :
           /\ \A x \in span[n] : x \in part <=> x # n /\ (x < n <=> N < n)
           /\ N \in part
           /\ span' = [span EXCEPT ![N] = part]
    BY <1>1, <2>0, NewPart
  <2>2. N \in Levels /\ n \in Levels /\ N # n /\ span[N] = {} /\ N \in span[n]
        /\ added + 1 \in DOMAIN Additions
    BY <1>1, <2>0, NewLevel DEF AddLevel
  <2>3. /\ \A m \in Levels \ {N} : span'[m] = span[m]
        /\ span'[N] = part
    BY <1>0, <2>1, <2>2 DEF TypeOK
  <2>4. ASSUME NEW m \in Levels, NEW x \in span'[m], NEW y \in span'[m],
               NEW z \in Prices \cup Levels, x < z, z < y
        PROVE  z \in span'[m]
    <3>1. CASE m # N
      BY <2>3, <2>4, <3>1 DEF Whole
    <3>2. CASE m = N
      <4>1. x \in span[n] /\ y \in span[n] /\ x \in part /\ y \in part
        BY <2>1, <2>3, <2>4, <3>2
      <4>2. z \in span[n]
        BY <2>4, <4>1 DEF Whole
      <4>3. x \in Int /\ y \in Int /\ z \in Int /\ n \in Int
        BY <1>0, <4>1, <4>2, LevelFacts DEF TypeOK
      <4>4. x # n /\ y # n /\ (x < n <=> N < n) /\ (y < n <=> N < n)
        BY <2>1, <4>1
      <4>5. z # n /\ (z < n <=> N < n)
        BY <2>4, <4>3, <4>4
      <4> QED
        BY <2>1, <2>3, <3>2, <4>2, <4>5
    <3> QED
      BY <3>1, <3>2
  <2>5. added' = added + 1 /\ phase' = phase /\ phase = "building" /\ N = Additions[added + 1]
    BY <1>1, <2>0 DEF AddLevel, Building, NewPrice
  <2>6. ASSUME NEW i \in DOMAIN Additions, i <= added' PROVE Built(Additions[i])'
    <3>1. Additions[i] \in Levels /\ i \in Nat /\ added \in Nat
      BY <1>0, LevelFacts DEF TypeOK
    <3>2. CASE i = added + 1
      BY <2>1, <2>3, <2>5, <3>2 DEF Built
    <3>3. CASE i <= added
      <4>1. Built(Additions[i])
        BY <3>3 DEF Whole
      <4>2. Additions[i] # N
        BY <2>2, <4>1 DEF Built
      <4> QED
        BY <2>3, <3>1, <4>1, <4>2 DEF Built
    <3> QED
      BY <2>5, <2>6, <3>1, <3>2, <3>3
  <2> QED
    BY <2>4, <2>5, <2>6 DEF Whole
<1>2. CASE OpenMarket
  BY <1>2 DEF OpenMarket, Whole, Built, treeVars
<1>3. CASE UNCHANGED <<span, added>> /\ (phase' = "building" <=> phase = "building")
  BY <1>3 DEF Whole, Built
<1>4. CASE BuildDescend \/ Insert \/ Cancel \/ Scan \/ Callers \/ UNCHANGED vars
  BY <1>3, <1>4 DEF BuildDescend, Insert, BeginInsert, InsertDescend, Push, Reject,
    Cancel, BeginCancel, SearchDescend, SearchNull, CancelFound,
    Scan, BeginScan, ScanDown, ReadOccupied, ReadEmpty, ScanUp, NothingFound,
    Callers, NoFill, Match, JoinThreads, Quote, vars, treeVars
<1> QED
  BY <1>1, <1>2, <1>4 DEF Next, Build

-----------------------------------------------------------------------------
(* The walk of a scan *)

\* The children of a level, in the terms of a scan.
LEMMA Children ==
  ASSUME IInv, Whole, phase # "building", looking \in Sides, NEW k \in Levels
  PROVE  /\ k \in span[k]
         /\ Better[k] # Null => Better[k] \in Levels /\ span[Better[k]] = {x \in span[k] : Ahead(x, k)}
         /\ Better[k] = Null => \A m \in Levels : m \in span[k] => ~ Ahead(m, k)
         /\ Worse[k] # Null => Worse[k] \in Levels /\ span[Worse[k]] = {x \in span[k] : ~ Ahead(x, k) /\ x # k}
         /\ Worse[k] = Null => \A m \in Levels : m \in span[k] => Ahead(m, k) \/ m = k
         /\ Better[k] # Null => Better[k] \in span[Better[k]]
         /\ Worse[k] # Null => Worse[k] \in span[Worse[k]]
<1>1. \A l \in Levels : Built(l)
  BY AllBuilt
<1>2. /\ ChildInv(k, left[k], {x \in span[k] : x < k})
      /\ ChildInv(k, right[k], {x \in span[k] : x > k})
  BY <1>1 DEF IInv, SpanInv
<1>3. k \in Int /\ \A x \in span[k] : x \in Int
  BY LevelFacts DEF IInv, TypeOK
<1>4. \A m \in Levels : m \in Int
  BY LevelFacts
<1>5. left[k] \in Levels \cup {Null} /\ right[k] \in Levels \cup {Null}
  BY DEF IInv, TypeOK, Link
<1>6. k \in span[k]
  BY <1>1 DEF Built
<1>7. /\ left[k] # Null => span[left[k]] = {x \in span[k] : x < k} /\ left[k] \in span[left[k]]
      /\ left[k] = Null => \A m \in Levels : m \in span[k] => ~ (m < k)
      /\ right[k] # Null => span[right[k]] = {x \in span[k] : x > k} /\ right[k] \in span[right[k]]
      /\ right[k] = Null => \A m \in Levels : m \in span[k] => ~ (m > k)
  BY <1>1, <1>2 DEF ChildInv, Built
<1>8. CASE looking = "buy"
  <2>1. Better = right /\ Worse = left /\ (\A x, y : Ahead(x, y) <=> x > y)
    BY <1>8 DEF Better, Worse, Ahead
  <2>2. {x \in span[k] : ~ Ahead(x, k) /\ x # k} = {x \in span[k] : x < k}
    BY <1>3, <2>1
  <2>3. {x \in span[k] : Ahead(x, k)} = {x \in span[k] : x > k}
    BY <2>1
  <2> QED
    BY <1>3, <1>4, <1>5, <1>6, <1>7, <2>1, <2>2, <2>3
<1>9. CASE looking = "sell"
  <2>1. Better = left /\ Worse = right /\ (\A x, y : Ahead(x, y) <=> x < y)
    BY <1>9 DEF Better, Worse, Ahead
  <2>2. {x \in span[k] : ~ Ahead(x, k) /\ x # k} = {x \in span[k] : x > k}
    BY <1>3, <2>1
  <2>3. {x \in span[k] : Ahead(x, k)} = {x \in span[k] : x < k}
    BY <2>1
  <2> QED
    BY <1>3, <1>4, <1>5, <1>6, <1>7, <2>1, <2>2, <2>3
<1> QED
  BY <1>8, <1>9 DEF Sides

\* What Ahead is: a strict order of the levels, that does not separate the
\* members of a span for a level outside of it.
LEMMA AheadFacts ==
  ASSUME IInv, Whole
  PROVE  /\ \A x, y, z \in Prices \cup Levels : Ahead(x, y) /\ Ahead(y, z) => Ahead(x, z)
         /\ \A x, y \in Prices \cup Levels : Ahead(x, y) \/ Ahead(y, x) \/ x = y
         /\ \A x, y \in Prices \cup Levels : Ahead(x, y) => ~ Ahead(y, x) /\ x # y
         /\ \A n, m \in Levels : m \notin span[n] =>
              \A x, y \in span[n] : Ahead(m, x) <=> Ahead(m, y)
<1>1. \A x \in Prices \cup Levels : x \in Int
  BY LevelFacts
<1>2. /\ \A x, y, z \in Prices \cup Levels : Ahead(x, y) /\ Ahead(y, z) => Ahead(x, z)
      /\ \A x, y \in Prices \cup Levels : Ahead(x, y) \/ Ahead(y, x) \/ x = y
      /\ \A x, y \in Prices \cup Levels : Ahead(x, y) => ~ Ahead(y, x) /\ x # y
  BY <1>1 DEF Ahead
<1>3. \A n, m \in Levels : m \notin span[n] => \A x, y \in span[n] : Ahead(m, x) <=> Ahead(m, y)
  <2> TAKE n, m \in Levels
  <2> HAVE m \notin span[n]
  <2> TAKE x, y \in span[n]
  <2> QED
    BY SameSide DEF Ahead
<1> QED
  BY <1>2, <1>3

\* A scan at k has passed the levels ahead of k, all but those below k on the
\* way down, and those below k with them on the way up.
DownSet(k) == {m \in Levels : Ahead(m, k) /\ m \notin span[k]}
ReadSet(k) == {m \in Levels : Ahead(m, k)}
UpSet(k)   == {m \in Levels : Ahead(m, k) \/ m \in span[k]}

\* Those sets on every step that a scan can take from one level to another.
LEMMA WalkSets ==
  ASSUME IInv, Whole, phase # "building", looking \in Sides, NEW k \in Levels
  PROVE  /\ Better[k] # Null => DownSet(Better[k]) = DownSet(k) /\ UpSet(Better[k]) = ReadSet(k)
         /\ Better[k] = Null => DownSet(k) = ReadSet(k)
         /\ Worse[k] # Null => DownSet(Worse[k]) = ReadSet(k) \cup {k} /\ UpSet(Worse[k]) = UpSet(k)
         /\ Worse[k] = Null => UpSet(k) = ReadSet(k) \cup {k}
<1>0. span[k] \subseteq Prices \cup Levels
  BY DEF IInv, TypeOK
<1>1. k \in span[k]
  BY Children
\* For a child of k, the levels that are not below k are where they are for k.
<1>2. ASSUME NEW c \in Levels, span[c] \subseteq span[k], c \in span[c], NEW m \in Levels, m \notin span[k]
      PROVE  Ahead(m, c) <=> Ahead(m, k)
  BY <1>1, <1>2, AheadFacts
<1>3. ASSUME Better[k] # Null
      PROVE  DownSet(Better[k]) = DownSet(k) /\ UpSet(Better[k]) = ReadSet(k)
  <2>1. PICK c \in Levels : c = Better[k] /\ span[c] = {x \in span[k] : Ahead(x, k)} /\ c \in span[c]
    BY <1>3, Children
  <2>2. span[c] \subseteq span[k]
    BY <2>1
  <2>3. ASSUME NEW m \in Levels
        PROVE  /\ Ahead(m, c) /\ m \notin span[c] <=> Ahead(m, k) /\ m \notin span[k]
               /\ Ahead(m, c) \/ m \in span[c] <=> Ahead(m, k)
    <3>1. CASE m \in span[k]
      <4>1. m \in span[c] <=> Ahead(m, k)
        BY <2>1, <3>1
      <4>2. Ahead(c, k)
        BY <2>1
      <4>3. Ahead(m, c) => Ahead(m, k)
        BY <4>2, AheadFacts
      <4> QED
        BY <3>1, <4>1, <4>3
    <3>2. CASE m \notin span[k]
      <4>1. Ahead(m, c) <=> Ahead(m, k)
        BY <1>2, <2>1, <2>2, <3>2
      <4> QED
        BY <2>2, <3>2, <4>1
    <3> QED
      BY <3>1, <3>2
  <2>4. DownSet(c) = DownSet(k) /\ UpSet(c) = ReadSet(k)
    BY <2>3 DEF DownSet, UpSet, ReadSet
  <2> QED
    BY <2>1, <2>4
<1>4. ASSUME Worse[k] # Null
      PROVE  DownSet(Worse[k]) = ReadSet(k) \cup {k} /\ UpSet(Worse[k]) = UpSet(k)
  <2>1. PICK c \in Levels : /\ c = Worse[k] /\ c \in span[c]
                            /\ span[c] = {x \in span[k] : ~ Ahead(x, k) /\ x # k}
    BY <1>4, Children
  <2>2. span[c] \subseteq span[k]
    BY <2>1
  <2>3. Ahead(k, c)
    <3>1. ~ Ahead(c, k) /\ c # k
      BY <2>1
    <3> QED
      BY <3>1, AheadFacts
  <2>4. ASSUME NEW m \in Levels
        PROVE  /\ Ahead(m, c) /\ m \notin span[c] <=> Ahead(m, k) \/ m = k
               /\ Ahead(m, c) \/ m \in span[c] <=> Ahead(m, k) \/ m \in span[k]
    <3>1. CASE m \in span[k]
      <4>1. m \in span[c] <=> ~ (Ahead(m, k) \/ m = k)
        BY <2>1, <3>1
      <4>2. Ahead(m, k) \/ m = k => Ahead(m, c)
        BY <2>3, AheadFacts
      <4> QED
        BY <3>1, <4>1, <4>2
    <3>2. CASE m \notin span[k]
      <4>1. Ahead(m, c) <=> Ahead(m, k)
        BY <1>2, <2>1, <2>2, <3>2
      <4>2. m # k
        BY <1>1, <3>2
      <4> QED
        BY <2>2, <3>2, <4>1, <4>2
    <3> QED
      BY <3>1, <3>2
  <2>5. DownSet(c) = ReadSet(k) \cup {k} /\ UpSet(c) = UpSet(k)
    BY <2>4 DEF DownSet, UpSet, ReadSet
  <2> QED
    BY <2>1, <2>5
<1>5. ASSUME Better[k] = Null PROVE DownSet(k) = ReadSet(k)
  BY <1>5, Children DEF DownSet, ReadSet
<1>6. ASSUME Worse[k] = Null PROVE UpSet(k) = ReadSet(k) \cup {k}
  <2>1. \A m \in Levels : m \in span[k] => Ahead(m, k) \/ m = k
    BY <1>6, Children
  <2> QED
    BY <1>1, <2>1 DEF UpSet, ReadSet
<1> QED
  BY <1>3, <1>4, <1>5, <1>6

\* At the root the walk begins with nothing and ends with everything.
LEMMA RootSets == IInv /\ Whole => DownSet(Root) = {} /\ UpSet(Root) = Levels
BY LevelFacts DEF IInv, BuildInv, DownSet, UpSet

\* The level a scan reads is the next one in the order of the prices.
LEMMA ReadNext ==
  ASSUME IInv, Whole, looking \in Sides, NEW k \in Levels
  PROVE  /\ k \notin ReadSet(k)
         /\ \A m \in Levels \ ReadSet(k) : Promise!AsGood(looking, k, m)
<1>1. \A m \in Levels : m \in Int
  BY LevelFacts
<1> QED
  BY <1>1 DEF ReadSet, Ahead, Promise!AsGood, Sides

\* PassInv in those terms.
LEMMA PassSets ==
  PassInv <=> /\ pc \in {"idle", "returned"} <=> looking = Null
              /\ looking # Null => best = Null /\ phase # "building"
              /\ pc = "down" => passed = DownSet(scanAt)
              /\ pc = "read" /\ ~ crashed => passed = ReadSet(scanAt)
              /\ pc = "up" => passed = UpSet(scanAt)
BY DEF PassInv, DownSet, ReadSet, UpSet

LEMMA PassStep == IInv /\ ScanInv /\ [Next]_vars => PassInv'
<1> SUFFICES ASSUME IInv, Whole, PassInv, QuoteInv, [Next]_vars PROVE PassInv'
  BY DEF ScanInv
<1>0. TypeOK
  BY DEF IInv
<1>1. CASE UNCHANGED <<scanVars, span>> /\ (phase' = "building" => phase = "building") /\ (crashed => crashed')
  BY <1>1 DEF PassInv, scanVars, Ahead
<1>2. CASE Build
  <2>1. phase = "building" /\ UNCHANGED <<scanVars, crashed>>
    BY <1>2 DEF Build, BuildDescend, AddLevel, OpenMarket, Building
  <2>2. pc = "idle" /\ looking = Null
    BY <2>1 DEF QuoteInv, PassInv
  <2> QED
    BY <2>1, <2>2 DEF PassInv, scanVars
<1>3. CASE Insert \/ Cancel \/ JoinThreads \/ UNCHANGED vars
  BY <1>1, <1>3 DEF Insert, BeginInsert, InsertDescend, Push, Reject,
    Cancel, BeginCancel, SearchDescend, SearchNull, CancelFound, JoinThreads, vars, treeVars
<1>4. CASE NoFill \/ Match \/ Quote
  <2>1. pc' = "idle" /\ looking = Null /\ looking' = Null
    BY <1>4 DEF NoFill, Match, Quote, PassInv
  <2> QED
    BY <2>1 DEF PassInv
<1>5. CASE BeginScan
  <2>1. /\ pc' = "down" /\ scanAt' = Root /\ passed' = {} /\ best' = Null /\ looking' \in Sides
        /\ phase' # "building" /\ UNCHANGED span
    BY <1>5 DEF BeginScan, Sides, treeVars
  <2>2. looking' # Null
    BY <2>1, TreeAssumption
  <2>3. Levels \subseteq span[Root]
    BY DEF IInv, BuildInv
  <2> QED
    BY <2>1, <2>2, <2>3 DEF PassInv
\* In the other steps the side stays, and with it what is ahead.
<1>6. ASSUME UNCHANGED <<looking, best, phase, treeVars>>, looking # Null,
             \/ pc' = "down" /\ passed' = DownSet(scanAt')
             \/ pc' = "read" /\ passed' = ReadSet(scanAt')
             \/ pc' = "up" /\ passed' = UpSet(scanAt')
             \/ pc' = "read" /\ crashed'
      PROVE  PassInv'
  <2>1. span' = span /\ \A x, y : Ahead(x, y)' <=> Ahead(x, y)
    BY <1>6 DEF treeVars, Ahead
  <2>2. best = Null /\ phase # "building"
    BY <1>6 DEF PassInv
  <2> QED
    BY <1>6, <2>1, <2>2 DEF PassInv, DownSet, ReadSet, UpSet
<1>7. ASSUME pc \in {"down", "read", "up"}
      PROVE  /\ looking \in Sides /\ looking # Null /\ phase # "building" /\ scanAt \in Levels /\ best = Null
             /\ pc = "down" => passed = DownSet(scanAt)
             /\ pc = "read" /\ ~ crashed => passed = ReadSet(scanAt)
             /\ pc = "up" => passed = UpSet(scanAt)
  BY <1>0, <1>7, PassSets DEF TypeOK
<1>8. CASE ScanDown
  <2>1. passed = DownSet(scanAt) /\ looking \in Sides /\ looking # Null /\ phase # "building" /\ scanAt \in Levels
    BY <1>7, <1>8 DEF ScanDown
  <2>2. UNCHANGED <<looking, best, phase, treeVars, passed>>
    BY <1>8 DEF ScanDown
  <2>3. CASE Better[scanAt] # Null /\ scanAt' = Better[scanAt] /\ UNCHANGED pc
    BY <1>6, <1>8, <2>1, <2>2, <2>3, WalkSets DEF ScanDown
  <2>4. CASE Better[scanAt] = Null /\ pc' = "read" /\ UNCHANGED scanAt
    BY <1>6, <2>1, <2>2, <2>4, WalkSets
  <2> QED
    BY <1>8, <2>3, <2>4 DEF ScanDown
<1>9. CASE ReadEmpty
  <2>1. passed = ReadSet(scanAt) /\ looking \in Sides /\ looking # Null /\ phase # "building" /\ scanAt \in Levels
    BY <1>7, <1>9 DEF ReadEmpty
  <2>2. UNCHANGED <<looking, best, phase, treeVars>> /\ passed' = passed \cup {scanAt} /\ pc = "read"
    BY <1>9 DEF ReadEmpty
  <2>3. CASE Worse[scanAt] # Null /\ scanAt' = Worse[scanAt] /\ pc' = "down"
    BY <1>6, <2>1, <2>2, <2>3, WalkSets
  <2>4. CASE Worse[scanAt] = Null /\ pc' = "up" /\ UNCHANGED scanAt
    BY <1>6, <2>1, <2>2, <2>4, WalkSets
  <2>5. CASE crashed' /\ UNCHANGED pc
    BY <1>6, <2>1, <2>2, <2>5
  <2> QED
    BY <1>9, <2>3, <2>4, <2>5 DEF ReadEmpty
<1>10. CASE ScanUp
  <2>1. passed = UpSet(scanAt) /\ looking \in Sides /\ looking # Null /\ phase # "building" /\ scanAt \in Levels
    BY <1>7, <1>10 DEF ScanUp
  <2>2. UNCHANGED <<looking, best, phase, treeVars, passed>> /\ pc = "up"
    BY <1>10 DEF ScanUp
  <2>3. PICK k \in Levels : /\ scanAt' = k
                            /\ \/ Better[k] = scanAt /\ pc' = "read"
                               \/ Worse[k] = scanAt /\ UNCHANGED pc
    BY <1>10 DEF ScanUp
  <2>4. scanAt # Null
    BY <2>1, LevelFacts
  <2>5. \/ pc' = "read" /\ passed' = ReadSet(scanAt')
        \/ pc' = "up" /\ passed' = UpSet(scanAt')
    BY <2>1, <2>2, <2>3, <2>4, WalkSets
  <2> QED
    BY <1>6, <2>1, <2>2, <2>5
<1>11. CASE ReadOccupied \/ NothingFound
  BY <1>11 DEF ReadOccupied, NothingFound, Return, PassInv
<1> QED
  BY <1>2, <1>3, <1>4, <1>5, <1>8, <1>9, <1>10, <1>11 DEF Next, Scan, Callers

-----------------------------------------------------------------------------
(* What a scan returns *)

\* Orders wait at levels.
LEMMA HomeIsLevel ==
  ASSUME IInv, NEW o \in Orders, status[o] = "queued"
  PROVE  home[o] \in Levels
BY DEF IInv, WalkInv, Reached

\* A scan at a level, with no thread crashed.
LEMMA AtLevel ==
  ASSUME IInv, ScanInv, pc \in {"down", "read", "up"}, ~ crashed
  PROVE  /\ looking \in Sides /\ looking # Null /\ phase # "building" /\ scanAt \in Levels /\ scanAt # Null
         /\ best = Null
         /\ pc = "down" => passed = DownSet(scanAt)
         /\ pc = "read" => passed = ReadSet(scanAt)
         /\ pc = "up" => passed = UpSet(scanAt)
BY PassSets, LevelFacts DEF ScanInv, IInv, TypeOK

\* The level with an order that a scan of an unchanging book reads has the best
\* of them, if the levels it has passed have none, and if it has passed all
\* levels there is none.
LEMMA FirstIsBest ==
  ASSUME IInv, ScanInv, ~ crashed, \A o \in Resting(looking) : home[o] \notin passed
  PROVE  /\ pc = "read" /\ Count # {} => IsBest(looking, scanAt)
         /\ pc = "up" /\ scanAt = Root => IsBest(looking, Null)
<1>1. ASSUME pc = "read", Count # {} PROVE IsBest(looking, scanAt)
  <2>1. looking \in Sides /\ scanAt \in Levels /\ scanAt # Null /\ passed = ReadSet(scanAt)
    BY <1>1, AtLevel
  <2>2. ASSUME NEW o \in Resting(looking) PROVE Promise!AsGood(looking, scanAt, home[o])
    <3>1. home[o] \in Levels \ ReadSet(scanAt)
      BY <2>1, <2>2, HomeIsLevel DEF Resting
    <3> QED
      BY <2>1, <3>1, ReadNext DEF ScanInv
  <2> QED
    BY <1>1, <2>1, <2>2 DEF IsBest, Count
<1>2. ASSUME pc = "up", scanAt = Root PROVE IsBest(looking, Null)
  <2>1. passed = Levels
    BY <1>2, AtLevel, RootSets DEF ScanInv
  <2>2. \A o \in Resting(looking) : home[o] \in Levels
    BY HomeIsLevel DEF Resting
  <2> QED
    BY <2>1, <2>2 DEF IsBest
<1> QED
  BY <1>1, <1>2

LEMMA QuoteStep == IInv /\ ScanInv /\ [Next]_vars => QuoteInv'
<1> SUFFICES ASSUME IInv, ScanInv, [Next]_vars PROVE QuoteInv'
  OBVIOUS
<1>0. QuoteInv /\ PassInv /\ BuildInv /\ TypeOK
  BY DEF IInv, ScanInv
\* Before the threads are joined there is nothing to show but where the scan is.
<1>1. ASSUME phase' \in {"building", "trading", "filled"}, phase' # "trading" => pc' = "idle"
      PROVE  QuoteInv'
  BY <1>1 DEF QuoteInv
<1>2. CASE Build
  BY <1>0, <1>1, <1>2 DEF Build, BuildDescend, AddLevel, OpenMarket, Building, QuoteInv, scanVars
<1>3. CASE Insert \/ Cancel
  <2>1. phase' = phase /\ pc' = pc
    BY <1>3 DEF Insert, BeginInsert, InsertDescend, Push, Reject,
      Cancel, BeginCancel, SearchDescend, SearchNull, CancelFound, scanVars
  <2>2. phase \in {"trading", "filled"} \/ inserting # Null \/ cancelling # Null
    BY <1>3 DEF Insert, BeginInsert, InsertDescend, Push, Reject,
      Cancel, BeginCancel, SearchDescend, SearchNull, CancelFound, Found
  <2>3. phase \in {"building", "trading", "filled"}
    BY <1>0, <2>2 DEF QuoteInv, TypeOK
  <2> QED
    BY <1>0, <1>1, <2>1, <2>3 DEF QuoteInv
<1>4. CASE NoFill \/ Match
  BY <1>1, <1>4 DEF NoFill, Match
<1>5. CASE UNCHANGED vars
  BY <1>0, <1>5 DEF vars, orderVars, walkVars, scanVars, quotes, QuoteInv, IsBest, Resting, Queued,
    Promise!AsGood
\* The book, and so what is best in it, stays while nothing is inserted or cancelled.
<1>6. ASSUME UNCHANGED orderVars
      PROVE  \A s, l : (IsBest(s, l)' <=> IsBest(s, l)) /\ Resting(s)' = Resting(s)
  BY <1>6 DEF orderVars, IsBest, Resting, Queued, Promise!AsGood
<1>7. CASE JoinThreads
  <2>1. phase = "filled" /\ pc = "idle" /\ looking = Null
    BY <1>0, <1>7 DEF JoinThreads, QuoteInv, PassInv
  <2> QED
    BY <1>7, <2>1 DEF JoinThreads, QuoteInv, scanVars, walkVars
<1>8. CASE BeginScan
  <2>1. /\ pc' = "down" /\ passed' = {} /\ phase' = phase /\ phase \in {"trading", "bid", "offer"}
        /\ looking' = IF phase = "offer" THEN "sell" ELSE "buy"
        /\ UNCHANGED <<orderVars, walkVars, quotes>>
    BY <1>8 DEF BeginScan
  <2>2. IsBest("buy", bid)' <=> IsBest("buy", bid)
    BY <1>6, <2>1 DEF quotes
  <2> QED
    BY <1>0, <2>1, <2>2 DEF QuoteInv, walkVars
<1>9. CASE ScanDown \/ ScanUp \/ ReadEmpty
  <2>1. /\ pc \in {"down", "read", "up"} /\ pc' \in {"down", "read", "up"}
        /\ UNCHANGED <<phase, looking, orderVars, walkVars, quotes>>
    BY <1>9 DEF ScanDown, ScanUp, ReadEmpty
  <2>2. phase \in {"trading", "bid", "offer"} /\ looking # Null
    BY <1>0, <2>1 DEF QuoteInv, TypeOK, PassInv
  <2>3. IsBest("buy", bid)' <=> IsBest("buy", bid)
    BY <1>6, <2>1 DEF quotes
  <2>4. phase \in {"bid", "offer"} => \A o \in Resting(looking) : home[o] \notin passed'
    <3>1. CASE UNCHANGED passed
      BY <1>0, <2>2, <3>1 DEF QuoteInv
    <3>2. CASE ReadEmpty
      <4>1. passed' = passed \cup {scanAt} /\ Queued(looking, scanAt) = {}
        BY <3>2 DEF ReadEmpty, Count
      <4>2. \A o \in Resting(looking) : home[o] # scanAt
        BY <4>1 DEF Queued, Resting
      <4> QED
        BY <1>0, <2>2, <4>1, <4>2 DEF QuoteInv
    <3> QED
      BY <1>9, <3>1, <3>2 DEF ScanDown, ScanUp
  <2>5. /\ looking' = looking /\ home' = home /\ Resting(looking)' = Resting(looking) /\ phase' = phase
        /\ UNCHANGED <<inserting, cancelling>>
    BY <2>1 DEF orderVars, walkVars, Resting
  <2>6. phase \in {"bid", "offer"} => \A o \in Resting(looking)' : home'[o] \notin passed'
    BY <2>4, <2>5
  <2> QED
    BY <1>0, <2>1, <2>2, <2>3, <2>5, <2>6 DEF QuoteInv
<1>10. CASE ReadOccupied \/ NothingFound
  <2>1. /\ ~ crashed /\ pc \in {"read", "up"} /\ pc' = "returned" /\ looking' = Null
        /\ UNCHANGED <<phase, orderVars, walkVars, quotes>>
    BY <1>10 DEF ReadOccupied, NothingFound, Return
  <2>2. phase \in {"trading", "bid", "offer"} /\ looking # Null
    BY <1>0, <2>1 DEF QuoteInv, TypeOK, PassInv
  <2>3. /\ IsBest("buy", bid)' <=> IsBest("buy", bid)
        /\ IsBest("buy", best)' <=> IsBest("buy", best')
        /\ IsBest("sell", best)' <=> IsBest("sell", best')
    BY <2>1 DEF orderVars, quotes, IsBest, Resting, Queued, Promise!AsGood
  <2>4. ASSUME phase \in {"bid", "offer"} PROVE IsBest(looking, best')
    <3>1. \A o \in Resting(looking) : home[o] \notin passed
      BY <1>0, <2>2, <2>4 DEF QuoteInv
    <3> QED
      BY <1>10, <2>1, <3>1, FirstIsBest DEF ReadOccupied, NothingFound, Return
  <2>5. /\ phase = "bid" => IsBest("buy", best')
        /\ phase = "offer" => IsBest("sell", best')
    BY <1>0, <2>2, <2>4 DEF QuoteInv
  <2> QED
    BY <1>0, <2>1, <2>2, <2>3, <2>5 DEF QuoteInv, walkVars
<1>11. CASE Quote
  <2>1. /\ pc = "returned" /\ pc' = "idle" /\ phase \in {"bid", "offer"} /\ looking = Null
        /\ UNCHANGED <<orderVars, walkVars, looking>>
    BY <1>0, <1>11 DEF Quote, PassInv
  <2>2. /\ IsBest("buy", bid)' <=> IsBest("buy", bid')
        /\ IsBest("sell", offer)' <=> IsBest("sell", offer')
    BY <2>1 DEF orderVars, IsBest, Resting, Queued, Promise!AsGood
  <2>3. CASE phase = "bid"
    <3>1. phase' = "offer" /\ bid' = best /\ IsBest("buy", best)
      BY <1>0, <1>11, <2>1, <2>3 DEF Quote, QuoteInv
    <3> QED
      BY <1>0, <2>1, <2>2, <2>3, <3>1 DEF QuoteInv, walkVars
  <2>4. CASE phase = "offer"
    <3>1. phase' = "closed" /\ offer' = best /\ bid' = bid /\ IsBest("sell", best) /\ IsBest("buy", bid)
      BY <1>0, <1>11, <2>1, <2>4 DEF Quote, QuoteInv
    <3> QED
      BY <1>0, <2>1, <2>2, <2>4, <3>1 DEF QuoteInv, walkVars
  <2> QED
    BY <2>1, <2>3, <2>4
<1> QED
  BY <1>2, <1>3, <1>4, <1>5, <1>7, <1>8, <1>9, <1>10, <1>11 DEF Next, Scan, Callers

\* Where a scan is and what it has passed, and the book that output_market scans.
THEOREM ScanInvariant == Spec => []ScanInv
<1>1. IInv /\ ScanInv /\ [Next]_vars => ScanInv'
  BY WholeStep, PassStep, QuoteStep DEF ScanInv
<1> QED
  BY Invariant, InitScan, <1>1, PTL DEF Spec

\* The best bid and the best offer of a set of levels are its extremes.
LEMMA BestIsExtreme ==
  ASSUME NEW S, \A x \in S : x \in Int, NEW l \in S
  PROVE  /\ (\A x \in S : l >= x) => l = Max(S)
         /\ (\A x \in S : l <= x) => l = Min(S)
<1>1. ASSUME \A x \in S : l >= x PROVE l = Max(S)
  <2>1. Max(S) \in S /\ \A x \in S : Max(S) >= x
    BY <1>1 DEF Max
  <2> QED
    BY <1>1, <2>1
<1>2. ASSUME \A x \in S : l <= x PROVE l = Min(S)
  <2>1. Min(S) \in S /\ \A x \in S : Min(S) <= x
    BY <1>2 DEF Min
  <2> QED
    BY <1>2, <2>1
<1> QED
  BY <1>1, <1>2

\* The quotes that main prints are the best prices at which orders are left.
THEOREM BestQuotes == Spec => []QuotesAreBest
<1>1. IInv /\ ScanInv => QuotesAreBest
  <2> SUFFICES ASSUME IInv, ScanInv PROVE QuotesAreBest
    OBVIOUS
  <2>1. \A s : \A o \in Resting(s) : home[o] \in Levels /\ home[o] \in Int /\ home[o] # Null
    BY HomeIsLevel, LevelFacts DEF Resting
  <2>2. ASSUME NEW s, NEW l, IsBest(s, l)
        PROVE  IF Resting(s) = {} THEN l = Null
               ELSE /\ l \in {home[o] : o \in Resting(s)}
                    /\ \A o \in Resting(s) : Promise!AsGood(s, l, home[o])
    <3>1. CASE l = Null
      BY <2>2, <3>1 DEF IsBest
    <3>2. CASE l # Null
      BY <2>2, <3>2 DEF IsBest, Queued, Resting
    <3> QED
      BY <3>1, <3>2
  <2>3. ASSUME IsBest("buy", bid)
        PROVE  IF Resting("buy") = {} THEN bid = Null ELSE bid = Max({home[o] : o \in Resting("buy")})
    <3> DEFINE S == {home[o] : o \in Resting("buy")}
    <3>1. Resting("buy") = {} => bid = Null
      BY <2>2, <2>3
    <3>2. ASSUME Resting("buy") # {} PROVE bid = Max(S)
      <4>1. bid \in S /\ \A x \in S : bid >= x
        BY <2>2, <2>3, <3>2 DEF Promise!AsGood
      <4>2. \A x \in S : x \in Int
        BY <2>1
      <4> HIDE DEF S
      <4> QED
        BY <4>1, <4>2, BestIsExtreme
    <3> QED
      BY <3>1, <3>2
  <2>4. ASSUME IsBest("sell", offer)
        PROVE  IF Resting("sell") = {} THEN offer = Null ELSE offer = Min({home[o] : o \in Resting("sell")})
    <3> DEFINE S == {home[o] : o \in Resting("sell")}
    <3>1. Resting("sell") = {} => offer = Null
      BY <2>2, <2>4
    <3>2. ASSUME Resting("sell") # {} PROVE offer = Min(S)
      <4>1. offer \in S /\ \A x \in S : offer <= x
        BY <2>2, <2>4, <3>2 DEF Promise!AsGood
      <4>2. \A x \in S : x \in Int
        BY <2>1
      <4> HIDE DEF S
      <4> QED
        BY <4>1, <4>2, BestIsExtreme
    <3> QED
      BY <3>1, <3>2
  <2> QED
    BY <2>3, <2>4 DEF ScanInv, QuoteInv, QuotesAreBest
<1> QED
  BY Invariant, ScanInvariant, <1>1, PTL

-----------------------------------------------------------------------------
(* The walk through the tree is a scan by price *)

LEMMA InitPromise == Init => Promise!Init
<1> SUFFICES ASSUME Init PROVE Promise!Init
  OBVIOUS
<1>1. \A s : Resting(s) = {}
  BY DEF Init, Resting
<1>2. Occupied = [s \in Promise!Sides |-> {}]
  BY <1>1 DEF Occupied, Promise!Sides, Sides
<1>3. Pending = Null /\ passed = {} /\ best = Null
  BY DEF Init, Pending
<1> QED
  BY <1>2, <1>3 DEF Promise!Init

LEMMA PromiseStep == IInv /\ IInv' /\ ScanInv /\ [Next]_vars => [Promise!Next]_Promise!vars
<1> SUFFICES ASSUME IInv, IInv', ScanInv, [Next]_vars PROVE [Promise!Next]_Promise!vars
  OBVIOUS
<1>0. PassInv /\ QuoteInv /\ Whole /\ TypeOK
  BY DEF ScanInv, IInv
\* Whatever leaves the scan where it is changes the book at most.
<1>1. ASSUME UNCHANGED <<looking, passed, best>> PROVE Promise!Change
  <2>1. Occupied' \in [Promise!Sides -> SUBSET Levels]
    <3>1. \A o \in Orders : status'[o] = "queued" => home'[o] \in Levels
      BY DEF IInv, WalkInv, Reached
    <3>2. \A s \in Sides : {home'[o] : o \in Resting(s)'} \in SUBSET Levels
      BY <3>1 DEF Resting
    <3> QED
      BY <3>2 DEF Occupied, Promise!Sides, Sides
  <2>2. Pending' = Pending
    BY <1>1 DEF Pending
  <2> QED
    BY <1>1, <2>1, <2>2 DEF Promise!Change
<1>2. CASE Build \/ Insert \/ Cancel \/ Callers \/ ScanDown \/ ScanUp \/ UNCHANGED vars
  <2>1. UNCHANGED <<looking, passed, best>>
    BY <1>2 DEF Build, BuildDescend, AddLevel, OpenMarket, Insert, BeginInsert, InsertDescend, Push, Reject,
      Cancel, BeginCancel, SearchDescend, SearchNull, CancelFound, ScanDown, ScanUp,
      Callers, NoFill, Match, JoinThreads, Quote, vars, scanVars
  <2> QED
    BY <1>1, <2>1 DEF Promise!Next
<1>3. ASSUME UNCHANGED orderVars PROVE Occupied' = Occupied
  BY <1>3 DEF orderVars, Occupied, Resting
<1>4. CASE BeginScan
  <2>1. /\ looking' \in Sides /\ passed' = {} /\ best' = Null /\ looking = Null /\ UNCHANGED orderVars
    BY <1>0, <1>4 DEF BeginScan, PassInv, Sides
  <2>2. Levels # {}
    BY LevelFacts
  <2>3. Pending = Null /\ Pending' \in Promise!Sides
    BY <2>1, <2>2 DEF Pending, Promise!Sides, Sides
  <2> QED
    BY <1>3, <2>1, <2>3 DEF Promise!Next, Promise!Begin
<1>5. CASE ReadOccupied \/ ReadEmpty
  <2>1. /\ looking \in Sides /\ looking # Null /\ scanAt \in Levels /\ passed = ReadSet(scanAt) /\ phase # "building"
    BY <1>5, AtLevel DEF ReadOccupied, ReadEmpty
  <2>2. /\ scanAt \in Levels \ passed
        /\ \A m \in Levels \ passed : Promise!AsGood(looking, scanAt, m)
    BY <1>0, <2>1, ReadNext
  <2>3. Pending = looking
    BY <2>2 DEF Pending
  <2>4. Promise!IsNext(scanAt)
    BY <2>2, <2>3 DEF Promise!IsNext
  <2>5. /\ UNCHANGED orderVars /\ Occupied' = Occupied
        /\ Occupied[looking] = {home[o] : o \in Resting(looking)}
    BY <1>3, <1>5, <2>1 DEF ReadOccupied, ReadEmpty, Occupied
  <2>6. Count = {} <=> scanAt \notin Occupied[Pending]
    BY <2>3, <2>5 DEF Count, Queued, Resting
  <2>7. CASE ReadOccupied
    <3>1. best' = scanAt /\ looking' = Null /\ UNCHANGED passed /\ Count # {}
      BY <2>7 DEF ReadOccupied, Return
    <3>2. Pending' = Null
      BY <3>1 DEF Pending
    <3>3. Promise!Take(scanAt)
      BY <2>1, <2>3, <2>4, <2>5, <2>6, <3>1, <3>2 DEF Promise!Take
    <3> QED
      BY <2>1, <3>3 DEF Promise!Next
  <2>8. CASE ReadEmpty
    <3>1. passed' = passed \cup {scanAt} /\ UNCHANGED <<looking, best>> /\ Count = {}
      BY <2>8 DEF ReadEmpty
    <3>2. Pending' = IF passed' = Levels THEN Null ELSE Pending
      BY <2>3, <3>1 DEF Pending
    <3>3. Promise!Pass(scanAt)
      BY <2>1, <2>3, <2>4, <2>5, <2>6, <3>1, <3>2 DEF Promise!Pass
    <3> QED
      BY <2>1, <3>3 DEF Promise!Next
  <2> QED
    BY <1>5, <2>7, <2>8
<1>6. CASE NothingFound
  <2>1. passed = Levels /\ best = Null
    BY <1>0, <1>6, AtLevel, RootSets DEF NothingFound
  <2>2. UNCHANGED <<best, passed, orderVars>>
    BY <1>6, <2>1 DEF NothingFound, Return
  <2>3. Pending' = Pending
    BY <2>1, <2>2 DEF Pending
  <2> QED
    BY <1>3, <2>2, <2>3 DEF Promise!vars
<1> QED
  BY <1>2, <1>4, <1>5, <1>6 DEF Next, Scan

\* The walk through the tree looks at the levels in the order of their prices,
\* whatever is inserted and cancelled meanwhile, and returns the first occupied.
THEOREM ScanRefines == Spec => Implements
<1>1. Spec => Promise!Init /\ [][Promise!Next]_Promise!vars
  BY Invariant, ScanInvariant, InitPromise, PromiseStep, PTL DEF Spec
<1> QED
  BY <1>1 DEF Implements, Promise!Spec

-----------------------------------------------------------------------------
(* The level of an order *)

LEMMA LevelsFinite == IsFiniteSet(Levels)
<1>1. IsFiniteSet(DOMAIN Additions)
  BY LevelFacts, FS_Interval
<1>2. IsFiniteSet(ToSet(Additions))
  <2>1. Additions \in [DOMAIN Additions -> ToSet(Additions)]
    BY TreeAssumption DEF ToSet
  <2>2. Additions \in Surjection(DOMAIN Additions, ToSet(Additions))
    BY <2>1 DEF Surjection, ToSet
  <2> QED
    BY <1>1, <2>2, FS_Surjection
<1> QED
  BY <1>2, FS_Singleton, FS_Union DEF Levels

\* For a price that a level does not have in its span there is another level
\* that has both: the one that parts them, or whose price it is.
LEMMA Parted ==
  ASSUME IInv, Whole, phase # "building", NEW p \in Prices, NEW l \in Levels, p \notin span[l]
  PROVE  \E m \in Levels : /\ p \in span[m] /\ l \in span[m]
                           /\ (p <= m /\ m < l) \/ (l < m /\ m <= p)
<1>1. \A m \in Levels : Built(m)
  BY AllBuilt
<1>2. p \in span[Root] /\ l \in span[Root] /\ Root \in Levels
  BY LevelFacts DEF IInv, BuildInv
<1> DEFINE Above(m) == {k \in Levels : k \in span[m]}
<1> DEFINE B == {T \in SUBSET Levels : \E m \in Levels : T = Above(m) /\ p \in span[m] /\ l \in span[m]}
<1>3. B \in SUBSET (SUBSET Levels) /\ Above(Root) \in B
  BY <1>2
<1>4. PICK T \in B : \A U \in SUBSET T : U \in B => U = T
  <2> HIDE DEF B
  <2> QED
    BY <1>3, LevelsFinite, SmallestSet
<1>5. PICK m \in Levels : T = Above(m) /\ p \in span[m] /\ l \in span[m]
  BY <1>4
<1>6. \A c \in Levels : span[c] \subseteq span[m] /\ p \in span[c] /\ l \in span[c] => m \in span[c]
  <2> TAKE c \in Levels
  <2> HAVE span[c] \subseteq span[m] /\ p \in span[c] /\ l \in span[c]
  <2>1. Above(c) \in SUBSET T /\ Above(c) \in B
    BY <1>5
  <2>2. Above(c) = T
    <3> HIDE DEF B, Above
    <3> QED
      BY <1>4, <2>1
  <2>3. m \in Above(m)
    BY <1>1, <1>5 DEF Built
  <2> QED
    BY <1>5, <2>2, <2>3
<1>7. p \in Int /\ l \in Int /\ m \in Int
  BY LevelFacts
<1>8. /\ ChildInv(m, left[m], {x \in span[m] : x < m})
      /\ ChildInv(m, right[m], {x \in span[m] : x > m})
  BY <1>1 DEF IInv, SpanInv
<1>9. left[m] \in Levels \cup {Null} /\ right[m] \in Levels \cup {Null}
  BY DEF IInv, TypeOK, Link
<1>10. l # m
  BY <1>5
<1>11. ~ (p < m /\ l < m)
  <2> SUFFICES ASSUME p < m, l < m PROVE FALSE
    OBVIOUS
  <2>1. left[m] # Null
    BY <1>1, <1>5, <1>8 DEF ChildInv
  <2>2. left[m] \in Levels /\ span[left[m]] = {x \in span[m] : x < m}
    BY <1>8, <1>9, <2>1 DEF ChildInv
  <2>3. m \in span[left[m]]
    BY <1>5, <1>6, <2>2
  <2> QED
    BY <1>7, <2>2, <2>3
<1>12. ~ (p > m /\ l > m)
  <2> SUFFICES ASSUME p > m, l > m PROVE FALSE
    OBVIOUS
  <2>1. right[m] # Null
    BY <1>1, <1>5, <1>8 DEF ChildInv
  <2>2. right[m] \in Levels /\ span[right[m]] = {x \in span[m] : x > m}
    BY <1>8, <1>9, <2>1 DEF ChildInv
  <2>3. m \in span[right[m]]
    BY <1>5, <1>6, <2>2
  <2> QED
    BY <1>7, <2>2, <2>3
<1> QED
  BY <1>5, <1>7, <1>10, <1>11, <1>12

\* insert rejects an order only if no level is nearer to its price than the
\* tolerance: the walk comes to such a level, or to one that is nearer still.
LEMMA RejectsAreFar ==
  ASSUME IInv, Whole, NEW o \in Orders, status[o] = "rejected", NEW l \in Levels
  PROVE  Distance(price[o], l) >= Tolerance
<1> SUFFICES ASSUME ~ (Distance(price[o], l) >= Tolerance) PROVE FALSE
  OBVIOUS
<1>1. Missed(price[o]) /\ price[o] \in Prices
  BY DEF IInv, WalkInv, TypeOK
<1>2. phase # "building"
  BY DEF IInv, BuildInv
<1>3. \A m \in Levels : Built(m)
  BY <1>2, AllBuilt
<1>4. Tolerance \in Int /\ price[o] \in Int /\ \A m \in Levels : m \in Int
  BY <1>1, LevelFacts, TreeAssumption
<1>5. CASE price[o] \in span[l]
  <2>1. ~ (Distance(price[o], l) < Tolerance)
    BY <1>1, <1>3, <1>5 DEF Missed, Near
  <2>2. Distance(price[o], l) \in Int
    BY <1>4 DEF Distance
  <2> QED
    BY <1>4, <2>1, <2>2
<1>6. CASE price[o] \notin span[l]
  <2>1. PICK m \in Levels : /\ price[o] \in span[m]
                            /\ (price[o] <= m /\ m < l) \/ (l < m /\ m <= price[o])
    BY <1>1, <1>2, <1>6, Parted
  <2>2. Distance(price[o], m) < Tolerance
    BY <1>4, <2>1 DEF Distance
  <2> QED
    BY <1>1, <1>3, <2>1, <2>2 DEF Missed, Near
<1> QED
  BY <1>5, <1>6

\* Every order finds the right level, if the levels are further apart than the
\* tolerance and leave no gap between them that is wider than it takes.
THEOREM OrdersFindTheirLevel ==
  ASSUME Ticks
  PROVE  Spec => []RightLevel
<1>1. IInv /\ ScanInv => RightLevel
  <2> SUFFICES ASSUME IInv, ScanInv, NEW o \in Orders
               PROVE  /\ status[o] = "rejected" => ~ InBounds(price[o])
                      /\ status[o] = "queued" /\ price[o] \in Levels => home[o] = price[o]
                      /\ status[o] = "queued" =>
                           ~ \E l \in Levels : \/ price[o] <= l /\ l < home[o]
                                               \/ home[o] < l /\ l <= price[o]
    BY DEF RightLevel
  <2>1. Tolerance \in Int /\ price[o] \in Prices /\ price[o] \in Int /\ \A m \in Levels : m \in Int
    BY LevelFacts, TreeAssumption DEF IInv, TypeOK
  <2>2. ASSUME status[o] = "rejected" PROVE ~ InBounds(price[o])
    <3> SUFFICES ASSUME InBounds(price[o]) PROVE FALSE
      OBVIOUS
    <3>1. PICK l \in Levels : Distance(price[o], l) < Tolerance
      BY <2>1 DEF Ticks
    <3>2. Distance(price[o], l) >= Tolerance
      BY <2>2, RejectsAreFar DEF ScanInv
    <3> QED
      BY <2>1, <3>1, <3>2 DEF Distance
  <2>3. ASSUME status[o] = "queued"
        PROVE  home[o] \in Levels /\ Distance(price[o], home[o]) <= Tolerance
    <3>1. home[o] \in Levels /\ Near(price[o], home[o])
      BY <2>3 DEF IInv, WalkInv, Reached
    <3>2. <<price[o], home[o]>> \in Rounded => Distance(price[o], home[o]) = Tolerance
      BY DEF Ticks
    <3> QED
      BY <2>1, <3>1, <3>2 DEF Near, Distance
  <2>4. \A l, m \in Levels : l < m => m - l > Tolerance
    BY DEF Ticks
  <2>5. ASSUME status[o] = "queued", price[o] \in Levels PROVE home[o] = price[o]
    BY <2>1, <2>3, <2>4, <2>5 DEF Distance
  <2>6. ASSUME status[o] = "queued", NEW l \in Levels,
               (price[o] <= l /\ l < home[o]) \/ (home[o] < l /\ l <= price[o])
        PROVE  FALSE
    BY <2>1, <2>3, <2>4, <2>6 DEF Distance
  <2> QED
    BY <2>2, <2>5, <2>6
<1> QED
  BY Invariant, ScanInvariant, <1>1, PTL
=============================================================================
