--------------------------- MODULE ExchangeProofs ---------------------------
(***************************************************************************)
(* Proofs about Exchange: for any sessions and scripts, any price levels,  *)
(* any listeners, and for either outcome of a scan that falls off a leaf.  *)
(***************************************************************************)
EXTENDS Exchange, SumFacts, SequenceTheorems

(* Facts about the data: orders, queues of orders, the best of some prices. *)

\* An order is an operation of a session that places something.
LEMMA OrderIs ==
  ASSUME NEW o \in Orders
  PROVE  /\ o = <<Owner(o), o[2]>> /\ Owner(o) \in Sessions
         /\ o[2] \in DOMAIN Script[Owner(o)] /\ o[2] \in Nat /\ o[2] > 0
         /\ Terms(o).op = "place" /\ Terms(o).side \in Sides
         /\ Terms(o).price \in Int /\ Terms(o).qty \in Nat
<1>1. PICK t \in Sessions : o \in {t} \X DOMAIN Script[t]
  BY DEF Orders
<1>2. Script[o[1]][o[2]].op = "place"
  BY DEF Orders
<1>3. o = <<o[1], o[2]>> /\ o[1] = t /\ o[2] \in DOMAIN Script[t]
  BY <1>1
<1>4. Script[t] \in Seq(Operations)
  BY ScriptAssumption
<1>5. DOMAIN Script[t] = 1 .. Len(Script[t]) /\ Len(Script[t]) \in Nat
  BY <1>4
<1>6. Script[t][o[2]] \in Operations
  BY <1>3, <1>4, <1>5
<1>7. Script[t][o[2]] \in [op : {"place"}, side : Sides, price : Int, qty : Nat]
  BY <1>2, <1>3, <1>6 DEF Operations
<1>8. Script[t][o[2]].side \in Sides /\ Script[t][o[2]].price \in Int /\ Script[t][o[2]].qty \in Nat
  BY <1>7
<1> QED
  BY <1>2, <1>3, <1>5, <1>8 DEF Owner, Terms

\* The operation that a session is at places an order, ...
LEMMA OrderAt ==
  ASSUME NEW t \in Sessions, More(t, "place")
  PROVE  <<t, pos[t]>> \in Orders
<1>1. pos[t] \in DOMAIN Script[t] /\ Script[t][pos[t]].op = "place"
  BY DEF More
<1>2. <<t, pos[t]>> \in {t} \X DOMAIN Script[t]
  BY <1>1
<1> QED
  BY <1>1, <1>2 DEF Orders

\* ... or cancels one that was sent.
LEMMA CancelledAt ==
  ASSUME NEW t \in Sessions, More(t, "cancel")
  PROVE  LET o == <<t, Script[t][pos[t]].nth>> IN o \in Orders /\ Sent(o)
<1> DEFINE n == Script[t][pos[t]].nth
<1>1. pos[t] \in DOMAIN Script[t] /\ Script[t][pos[t]].op = "cancel"
  BY DEF More
<1>2. n \in 1 .. pos[t] - 1 /\ Script[t][n].op = "place"
  BY <1>1, ScriptAssumption
<1>3. Script[t] \in Seq(Operations)
  BY ScriptAssumption
<1>4. DOMAIN Script[t] = 1 .. Len(Script[t]) /\ Len(Script[t]) \in Nat
  BY <1>3
<1>5. n \in DOMAIN Script[t] /\ pos[t] > n
  BY <1>1, <1>2, <1>4
<1>6. <<t, n>> \in {t} \X DOMAIN Script[t]
  BY <1>5
<1>7. <<t, n>> \in Orders
  BY <1>2, <1>6 DEF Orders
<1> QED
  BY <1>5, <1>7 DEF Sent, Owner

\* What is behind the elements of a queue.
LEMMA QueueIs ==
  ASSUME NEW q \in Seq(Orders)
  PROVE  /\ ToSet(q) \subseteq Orders /\ IsFiniteSet(ToSet(q))
         /\ q = <<>> <=> ToSet(q) = {}
         /\ \A x : x \in ToSet(q) <=> \E i \in 1 .. Len(q) : q[i] = x
<1>1. DOMAIN q = 1 .. Len(q) /\ Len(q) \in Nat /\ \A i \in 1 .. Len(q) : q[i] \in Orders
  OBVIOUS
<1>2. IsFiniteSet(DOMAIN q)
  BY <1>1, FS_Interval
<1>3. IsFiniteSet(ToSet(q))
  <2>1. q \in Surjection(DOMAIN q, ToSet(q))
    BY <1>1 DEF Surjection, ToSet
  <2> QED
    BY <1>2, <2>1, FS_Surjection
<1>4. q = <<>> <=> Len(q) = 0
  OBVIOUS
<1>5. q = <<>> => ToSet(q) = {}
  BY <1>1, <1>4 DEF ToSet
<1>6. q # <<>> => ToSet(q) # {}
  <2>1. q # <<>> => 1 \in 1 .. Len(q)
    BY <1>1, <1>4
  <2> QED
    BY <2>1, <1>1 DEF ToSet
<1> QED
  BY <1>1, <1>3, <1>5, <1>6 DEF ToSet

\* The pairs of orders in a queue, the earlier one first.
LEMMA PrecedesAre ==
  ASSUME NEW q \in Seq(Orders)
  PROVE  /\ \A x, y : <<x, y>> \in Precedes(q) <=> \E i, j \in DOMAIN q : i < j /\ q[i] = x /\ q[j] = y
         /\ \A w \in Precedes(q) : w = <<w[1], w[2]>> /\ w[1] \in ToSet(q) /\ w[2] \in ToSet(q)
<1> DEFINE P == {v \in (DOMAIN q) \X (DOMAIN q) : v[1] < v[2]}
<1>1. \A i, j \in DOMAIN q : i < j => <<i, j>> \in P
  OBVIOUS
<1>2. \A v \in P : v[1] \in DOMAIN q /\ v[2] \in DOMAIN q /\ v[1] < v[2]
  OBVIOUS
<1>3. Precedes(q) = {<<q[v[1]], q[v[2]]>> : v \in P}
  BY DEF Precedes
<1> HIDE DEF P
<1>4. ASSUME NEW x, NEW y, <<x, y>> \in Precedes(q)
      PROVE  \E i, j \in DOMAIN q : i < j /\ q[i] = x /\ q[j] = y
  <2>1. PICK v \in P : <<x, y>> = <<q[v[1]], q[v[2]]>>
    BY <1>3, <1>4
  <2> QED
    BY <1>2, <2>1
<1>5. ASSUME NEW i \in DOMAIN q, NEW j \in DOMAIN q, i < j PROVE <<q[i], q[j]>> \in Precedes(q)
  <2>1. <<i, j>> \in P
    BY <1>1, <1>5
  <2> QED
    BY <1>3, <2>1
<1>6. ASSUME NEW w \in Precedes(q) PROVE w = <<w[1], w[2]>> /\ w[1] \in ToSet(q) /\ w[2] \in ToSet(q)
  <2>1. PICK v \in P : w = <<q[v[1]], q[v[2]]>>
    BY <1>3
  <2> QED
    BY <1>2, <2>1 DEF ToSet
<1> QED
  BY <1>4, <1>5, <1>6

\* Who joins comes behind all others.
LEMMA PrecedesJoined ==
  ASSUME NEW q \in Seq(Orders), NEW o \in Orders
  PROVE  Precedes(Append(q, o)) = Precedes(q) \cup (ToSet(q) \X {o})
<1> DEFINE r == Append(q, o)
<1>1. /\ r \in Seq(Orders) /\ Len(q) \in Nat /\ DOMAIN q = 1 .. Len(q)
      /\ DOMAIN r = 1 .. Len(q) + 1
      /\ \A i \in 1 .. Len(q) : r[i] = q[i]
      /\ r[Len(q) + 1] = o
  OBVIOUS
<1>2. \A i \in DOMAIN r : i \in DOMAIN q \/ i = Len(q) + 1
  BY <1>1
<1>3. DOMAIN q \subseteq DOMAIN r /\ Len(q) + 1 \in DOMAIN r /\ \A i \in DOMAIN q : i < Len(q) + 1
  BY <1>1
<1> HIDE DEF r
<1>4. ASSUME NEW x, NEW y
      PROVE  <<x, y>> \in Precedes(r) <=> <<x, y>> \in Precedes(q) \/ (x \in ToSet(q) /\ y = o)
  <2>0. r \in Seq(Orders)
    BY <1>1
  <2>1. <<x, y>> \in Precedes(r) <=> \E i, j \in DOMAIN r : i < j /\ r[i] = x /\ r[j] = y
    BY <2>0, PrecedesAre
  <2>2. <<x, y>> \in Precedes(q) <=> \E i, j \in DOMAIN q : i < j /\ q[i] = x /\ q[j] = y
    BY PrecedesAre
  <2>3. x \in ToSet(q) <=> \E i \in DOMAIN q : q[i] = x
    BY DEF ToSet
  <2>4. ASSUME NEW i \in DOMAIN r, NEW j \in DOMAIN r, i < j, r[i] = x, r[j] = y
        PROVE  <<x, y>> \in Precedes(q) \/ (x \in ToSet(q) /\ y = o)
    <3>1. i \in DOMAIN q
      BY <1>1, <2>4
    <3>2. CASE j \in DOMAIN q
      BY <1>1, <2>2, <2>4, <3>1, <3>2
    <3>3. CASE j = Len(q) + 1
      BY <1>1, <2>3, <2>4, <3>1, <3>3
    <3> QED
      BY <1>2, <3>2, <3>3
  <2>5. ASSUME NEW i \in DOMAIN q, NEW j \in DOMAIN q, i < j, q[i] = x, q[j] = y PROVE <<x, y>> \in Precedes(r)
    BY <1>1, <1>3, <2>1, <2>5
  <2>6. ASSUME NEW i \in DOMAIN q, q[i] = x, y = o PROVE <<x, y>> \in Precedes(r)
    BY <1>1, <1>3, <2>1, <2>6
  <2> QED
    BY <2>1, <2>2, <2>3, <2>4, <2>5, <2>6
<1>5. \A w \in Precedes(r) : w = <<w[1], w[2]>>
  BY <1>1, PrecedesAre
<1>6. \A w \in Precedes(q) : w = <<w[1], w[2]>>
  BY PrecedesAre
<1>7. \A w : w \in ToSet(q) \X {o} <=> w = <<w[1], w[2]>> /\ w[1] \in ToSet(q) /\ w[2] = o
  OBVIOUS
<1> QED
  BY <1>4, <1>5, <1>6, <1>7 DEF r

\* An order that joins a queue: the queue has no repetitions and is in turn
\* if it was, and the order is new and later than those of its session.
LEMMA Joined ==
  ASSUME NEW q \in Seq(Orders), NEW o \in Orders
  PROVE  /\ Append(q, o) \in Seq(Orders)
         /\ ToSet(Append(q, o)) = ToSet(q) \cup {o}
         /\ IsInjective(q) /\ o \notin ToSet(q) => IsInjective(Append(q, o))
         /\ InTurn(q) /\ (\A x \in ToSet(q) : Owner(x) = Owner(o) => x[2] < o[2])
              => InTurn(Append(q, o))
<1> DEFINE r == Append(q, o)
<1>1. /\ r \in Seq(Orders) /\ Len(q) \in Nat /\ DOMAIN q = 1 .. Len(q)
      /\ DOMAIN r = 1 .. Len(q) + 1
      /\ \A i \in 1 .. Len(q) : r[i] = q[i]
      /\ r[Len(q) + 1] = o
  OBVIOUS
<1>2. \A i \in DOMAIN r : i \in DOMAIN q \/ i = Len(q) + 1
  BY <1>1
<1>3. DOMAIN q \subseteq DOMAIN r /\ Len(q) + 1 \in DOMAIN r
  BY <1>1
<1> HIDE DEF r
<1>4. ToSet(r) = ToSet(q) \cup {o}
  BY <1>1, <1>2, <1>3 DEF ToSet
<1>5. ASSUME IsInjective(q), o \notin ToSet(q) PROVE IsInjective(r)
  <2>1. \A i \in DOMAIN q : q[i] # o
    BY <1>5 DEF ToSet
  <2> QED
    BY <1>1, <1>2, <1>5, <2>1 DEF IsInjective
<1>6. ASSUME InTurn(q), \A x \in ToSet(q) : Owner(x) = Owner(o) => x[2] < o[2] PROVE InTurn(r)
  <2>1. \A i \in DOMAIN q : Owner(q[i]) = Owner(o) => q[i][2] < o[2]
    BY <1>6 DEF ToSet
  <2>2. SUFFICES ASSUME NEW i \in DOMAIN r, NEW j \in DOMAIN r, i < j, Owner(r[i]) = Owner(r[j])
                 PROVE  r[i][2] < r[j][2]
    BY DEF InTurn
  <2>3. i \in DOMAIN q
    BY <1>1, <2>2
  <2>4. CASE j \in DOMAIN q
    BY <1>1, <1>6, <2>2, <2>3, <2>4 DEF InTurn
  <2>5. CASE j = Len(q) + 1
    BY <1>1, <2>1, <2>2, <2>3, <2>5
  <2> QED
    BY <1>2, <2>4, <2>5
<1> QED
  BY <1>1, <1>4, <1>5, <1>6 DEF r

\* A queue that one position is taken out of.
Thinned(q, k, r) ==
  /\ k \in 1 .. Len(q) /\ r \in Seq(Orders) /\ Len(r) = Len(q) - 1
  /\ \A i \in 1 .. Len(r) : r[i] = IF i < k THEN q[i] ELSE q[i + 1]

\* It keeps its order and has no repetitions if it had none.
LEMMA ThinnedIs ==
  ASSUME NEW q \in Seq(Orders), NEW k, NEW r, Thinned(q, k, r), IsInjective(q)
  PROVE  /\ ToSet(r) = ToSet(q) \ {q[k]} /\ q[k] \in ToSet(q)
         /\ IsInjective(r)
         /\ InTurn(q) => InTurn(r)
         /\ Precedes(r) = {w \in Precedes(q) : w[1] # q[k] /\ w[2] # q[k]}
<1> DEFINE m(i) == IF i < k THEN i ELSE i + 1
<1>1. /\ Len(q) \in Nat /\ k \in 1 .. Len(q) /\ DOMAIN q = 1 .. Len(q)
      /\ DOMAIN r = 1 .. Len(q) - 1
  BY DEF Thinned
<1>2. \A i \in DOMAIN r : m(i) \in DOMAIN q /\ m(i) # k /\ r[i] = q[m(i)] /\ m(i) \in Int
  BY <1>1 DEF Thinned
<1>3. \A i, j \in DOMAIN r : (i < j => m(i) < m(j)) /\ (m(i) = m(j) => i = j)
  BY <1>1
<1>4. \A j \in DOMAIN q : j # k => \E i \in DOMAIN r : m(i) = j
  <2> TAKE j \in DOMAIN q
  <2>1. CASE j < k
    <3>1. j \in DOMAIN r /\ m(j) = j
      BY <1>1, <2>1
    <3> QED
      BY <3>1
  <2>2. CASE j > k
    <3>1. j - 1 \in DOMAIN r /\ m(j - 1) = j
      BY <1>1, <2>2
    <3> QED
      BY <3>1
  <2> QED
    BY <1>1, <2>1, <2>2
<1> HIDE DEF m
<1>5. ToSet(r) = ToSet(q) \ {q[k]}
  <2>1. \A i \in DOMAIN r : r[i] \in ToSet(q) /\ r[i] # q[k]
    BY <1>1, <1>2 DEF ToSet, IsInjective
  <2>2. \A j \in DOMAIN q : q[j] # q[k] => q[j] \in ToSet(r)
    BY <1>2, <1>4 DEF ToSet
  <2> QED
    BY <2>1, <2>2 DEF ToSet
<1>6. IsInjective(r)
  BY <1>2, <1>3 DEF IsInjective
<1>7. InTurn(q) => InTurn(r)
  BY <1>2, <1>3 DEF InTurn
<1>8. ASSUME NEW x, NEW y
      PROVE  <<x, y>> \in Precedes(r) <=> <<x, y>> \in Precedes(q) /\ x # q[k] /\ y # q[k]
  <2>1. <<x, y>> \in Precedes(r) <=> \E i, j \in DOMAIN r : i < j /\ r[i] = x /\ r[j] = y
    BY PrecedesAre DEF Thinned
  <2>2. <<x, y>> \in Precedes(q) <=> \E i, j \in DOMAIN q : i < j /\ q[i] = x /\ q[j] = y
    BY PrecedesAre
  <2>3. ASSUME NEW i \in DOMAIN r, NEW j \in DOMAIN r, i < j, r[i] = x, r[j] = y
        PROVE  <<x, y>> \in Precedes(q) /\ x # q[k] /\ y # q[k]
    <3>1. m(i) \in DOMAIN q /\ m(j) \in DOMAIN q /\ m(i) < m(j) /\ q[m(i)] = x /\ q[m(j)] = y
      BY <1>2, <1>3, <2>3
    <3>2. m(i) # k /\ m(j) # k /\ k \in DOMAIN q
      BY <1>1, <1>2
    <3> QED
      BY <2>2, <3>1, <3>2 DEF IsInjective
  <2>4. ASSUME NEW i \in DOMAIN q, NEW j \in DOMAIN q, i < j, q[i] = x, q[j] = y, x # q[k], y # q[k]
        PROVE  <<x, y>> \in Precedes(r)
    <3>1. PICK u \in DOMAIN r : m(u) = i
      BY <1>4, <2>4
    <3>2. PICK v \in DOMAIN r : m(v) = j
      BY <1>4, <2>4
    <3>3. u < v
      <4>1. ~ (m(v) < m(u)) /\ m(u) # m(v) /\ u \in Int /\ v \in Int
        BY <1>1, <2>4, <3>1, <3>2
      <4>2. ~ (v < u) /\ u # v
        BY <1>3, <4>1
      <4> QED
        BY <4>1, <4>2
    <3> QED
      BY <1>2, <2>1, <2>4, <3>1, <3>2, <3>3
  <2> QED
    BY <2>1, <2>2, <2>3, <2>4
<1>9. Precedes(r) = {w \in Precedes(q) : w[1] # q[k] /\ w[2] # q[k]}
  <2>1. \A w \in Precedes(r) : w = <<w[1], w[2]>>
    BY PrecedesAre DEF Thinned
  <2>2. \A w \in Precedes(q) : w = <<w[1], w[2]>>
    BY PrecedesAre
  <2> QED
    BY <1>8, <2>1, <2>2
<1> QED
  BY <1>1, <1>5, <1>6, <1>7, <1>9 DEF ToSet

\* What pop leaves: all but the head, and none that is left of the session of
\* the head is earlier than the head.
LEMMA Popped ==
  ASSUME NEW q \in Seq(Orders), q # <<>>, IsInjective(q)
  PROVE  /\ Tail(q) \in Seq(Orders) /\ Head(q) \in ToSet(q) /\ Head(q) \in Orders
         /\ ToSet(Tail(q)) = ToSet(q) \ {Head(q)}
         /\ IsInjective(Tail(q))
         /\ Precedes(Tail(q)) = {w \in Precedes(q) : w[1] # Head(q) /\ w[2] # Head(q)}
         /\ \A x : <<x, Head(q)>> \notin Precedes(q)
         /\ InTurn(q) => /\ InTurn(Tail(q))
                         /\ \A x \in ToSet(q) : Owner(x) = Owner(Head(q)) /\ x # Head(q) => Head(q)[2] < x[2]
<1>1. /\ Len(q) \in Nat /\ Len(q) > 0 /\ Tail(q) \in Seq(Orders)
      /\ Len(Tail(q)) = Len(q) - 1 /\ Head(q) = q[1]
      /\ \A i \in 1 .. Len(q) - 1 : Tail(q)[i] = q[i + 1]
  OBVIOUS
<1>2. Thinned(q, 1, Tail(q))
  BY <1>1 DEF Thinned
<1>3. ASSUME InTurn(q), NEW x \in ToSet(q), Owner(x) = Owner(Head(q)), x # Head(q)
      PROVE  Head(q)[2] < x[2]
  <2>1. PICK j \in DOMAIN q : q[j] = x
    BY DEF ToSet
  <2>2. j # 1 /\ j \in 1 .. Len(q)
    BY <1>1, <1>3, <2>1
  <2>3. 1 < j /\ 1 \in DOMAIN q
    BY <1>1, <2>2
  <2> QED
    BY <1>1, <1>3, <2>1, <2>3 DEF InTurn
<1>4. q[1] \in Orders
  BY <1>1
<1>5. ASSUME NEW x, <<x, Head(q)>> \in Precedes(q) PROVE FALSE
  <2>1. PICK i, j \in DOMAIN q : i < j /\ q[j] = Head(q)
    BY <1>5, PrecedesAre
  <2>2. 1 \in DOMAIN q /\ j # 1
    BY <1>1, <2>1
  <2> QED
    BY <1>1, <2>1, <2>2 DEF IsInjective
<1>6. /\ ToSet(Tail(q)) = ToSet(q) \ {Head(q)} /\ Head(q) \in ToSet(q)
      /\ IsInjective(Tail(q)) /\ (InTurn(q) => InTurn(Tail(q)))
      /\ Precedes(Tail(q)) = {w \in Precedes(q) : w[1] # Head(q) /\ w[2] # Head(q)}
  BY <1>1, <1>2, ThinnedIs
<1> QED
  BY <1>1, <1>3, <1>4, <1>5, <1>6

\* What a cancellation leaves.
LEMMA Erased ==
  ASSUME NEW q \in Seq(Orders), NEW o \in ToSet(q), IsInjective(q)
  PROVE  /\ Erase(q, o) \in Seq(Orders)
         /\ ToSet(Erase(q, o)) = ToSet(q) \ {o}
         /\ IsInjective(Erase(q, o))
         /\ Precedes(Erase(q, o)) = {w \in Precedes(q) : w[1] # o /\ w[2] # o}
         /\ InTurn(q) => InTurn(Erase(q, o))
<1> DEFINE k == CHOOSE i \in DOMAIN q : q[i] = o
<1>1. k \in DOMAIN q /\ q[k] = o
  BY DEF ToSet
<1> HIDE DEF k
<1>2. k \in 1 .. Len(q) /\ Len(q) \in Nat
  BY <1>1
<1> DEFINE u == SubSeq(q, 1, k - 1)
           v == SubSeq(q, k + 1, Len(q))
<1>0. \A i \in 1 .. Len(q) : q[i] \in Orders
  OBVIOUS
<1>3. u \in Seq(Orders) /\ Len(u) = k - 1 /\ \A i \in 1 .. k - 1 : u[i] = q[i]
  BY <1>0, <1>2, SubSeqProperties
<1>4. v \in Seq(Orders) /\ Len(v) = Len(q) - k /\ \A i \in 1 .. Len(q) - k : v[i] = q[k + i]
  <2>1. \A i \in k + 1 .. Len(q) : q[i] \in Orders
    BY <1>0, <1>2
  <2>2. /\ SubSeq(q, k + 1, Len(q)) \in Seq(Orders)
        /\ Len(SubSeq(q, k + 1, Len(q))) = IF k + 1 <= Len(q) THEN Len(q) - (k + 1) + 1 ELSE 0
        /\ \A i \in 1 .. Len(q) - (k + 1) + 1 : SubSeq(q, k + 1, Len(q))[i] = q[(k + 1) + i - 1]
    BY <1>2, <2>1, SubSeqProperties
  <2>3. Len(q) - (k + 1) + 1 = Len(q) - k /\ \A i \in 1 .. Len(q) - k : (k + 1) + i - 1 = k + i
    BY <1>2
  <2>4. k + 1 <= Len(q) \/ Len(q) - k = 0
    BY <1>2
  <2> QED
    BY <2>2, <2>3, <2>4
<1> HIDE DEF u, v
<1>5. Len(u) + Len(v) = Len(q) - 1
  BY <1>2, <1>3, <1>4
<1>6. /\ u \o v \in Seq(Orders) /\ Len(u \o v) = Len(q) - 1
      /\ \A i \in 1 .. Len(q) - 1 : (u \o v)[i] = IF i <= k - 1 THEN u[i] ELSE v[i - (k - 1)]
  <2>1. /\ u \o v \in Seq(Orders) /\ Len(u \o v) = Len(u) + Len(v)
        /\ \A i \in 1 .. Len(u) + Len(v) : (u \o v)[i] = IF i <= Len(u) THEN u[i] ELSE v[i - Len(u)]
    BY <1>3, <1>4, ConcatProperties
  <2>2. Len(u) = k - 1
    BY <1>3
  <2> QED
    BY <1>5, <2>1, <2>2
<1>9. \A i \in 1 .. Len(q) - 1 : (u \o v)[i] = IF i < k THEN q[i] ELSE q[i + 1]
  <2> TAKE i \in 1 .. Len(q) - 1
  <2>1. CASE i < k
    <3>1. i \in 1 .. k - 1 /\ i <= k - 1
      BY <1>2, <2>1
    <3> QED
      BY <1>3, <1>6, <2>1, <3>1
  <2>2. CASE i >= k
    <3>1. ~ (i <= k - 1) /\ ~ (i < k) /\ i - (k - 1) \in 1 .. Len(q) - k /\ k + (i - (k - 1)) = i + 1
      BY <1>2, <2>2
    <3>2. (u \o v)[i] = v[i - (k - 1)]
      BY <1>6, <3>1
    <3>3. v[i - (k - 1)] = q[k + (i - (k - 1))]
      BY <1>4, <3>1
    <3> QED
      BY <3>1, <3>2, <3>3
  <2>3. i < k \/ i >= k
    BY <1>2
  <2> QED
    BY <2>1, <2>2, <2>3
<1>7. Erase(q, o) = u \o v
  BY DEF Erase, RemoveAt, k, u, v
<1>8. Thinned(q, k, Erase(q, o))
  BY <1>2, <1>6, <1>7, <1>9 DEF Thinned
<1> QED
  BY <1>1, <1>6, <1>7, <1>8, ThinnedIs

\* The level that a scan is at.
LEMMA CursorIs ==
  ASSUME passed \subseteq Levels, passed # Levels
  PROVE  cursor \in Levels \ passed /\ \A p \in Levels \ passed : cursor >= p
<1>1. Levels \ passed # {} /\ Levels \ passed \subseteq Int /\ IsFiniteSet(Levels \ passed)
  BY ExchangeAssumption, FS_Subset
<1> QED
  BY <1>1, Largest DEF cursor

\* The smaller of the open quantities of two orders.
LEMMA SmallerIs ==
  ASSUME open \in [Orders -> Nat], NEW b \in Orders, NEW a \in Orders
  PROVE  LET n == SmallerOf(b, a)
         IN  n \in Nat /\ n <= open[b] /\ n <= open[a] /\ (n = open[b] \/ n = open[a])
<1>1. open[b] \in Nat /\ open[a] \in Nat
  OBVIOUS
<1>2. \E x \in {open[b], open[a]} : \A y \in {open[b], open[a]} : x =< y
  BY <1>1
<1>3. SmallerOf(b, a) \in {open[b], open[a]} /\ \A y \in {open[b], open[a]} : SmallerOf(b, a) =< y
  BY <1>2 DEF SmallerOf, Min
<1> QED
  BY <1>1, <1>3

-----------------------------------------------------------------------------
(* What the actions with many parts do, in the terms the invariant uses.   *)

\* The order x is taken out of the book as cancelled.
TakenOut(x) ==
  LET p == Terms(x).price
      s == Terms(x).side
  IN  /\ InBook(x) /\ p \in Levels /\ s \in Sides /\ x \in ToSet(book[p][s])
      /\ status' = [status EXCEPT ![x] = "Cancelled"]
      /\ book' = [book EXCEPT ![p][s] = Erase(@, x)]

\* A cancellation of the order o takes an order x with its id out of the book,
\* or none.
LEMMA CancelDoes ==
  ASSUME TypeOK, OnePlace, NEW t \in Sessions, Cancel(t)
  PROVE  \E o, x \in Orders :
           /\ Sent(o) /\ More(t, "cancel") /\ pos' = [pos EXCEPT ![t] = @ + 1]
           /\ crashed' \in BOOLEAN /\ reported' \subseteq Orders /\ reported \subseteq reported'
           /\ UNCHANGED <<placing, singleton, nextId, id, open, dataQueue, consumer, hand, producer, passed,
                          fill, snapshot, fillQueue, listening, written, market, fills>>
           /\ UNCHANGED <<status, book>> \/ (TakenOut(x) /\ id[x] = id[o] /\ o \in reported')
<1> DEFINE o == <<t, Script[t][pos[t]].nth>>
           p == Terms(o).price
           s == Terms(o).side
           doomed == p \notin Levels \/ book[p][s] = <<>>
           C == Carriers(book[p][s], id[o])
           found == ~ doomed /\ C # {}
           x == FirstWith(book[p][s], id[o])
<1>1. More(t, "cancel") /\ pos' = [pos EXCEPT ![t] = @ + 1]
  BY DEF Cancel
<1>2. o \in Orders /\ Sent(o)
  BY <1>1, CancelledAt
<1>3. /\ crashed' = doomed /\ reported' = IF doomed THEN reported ELSE reported \cup {o}
      /\ status' = IF found THEN [status EXCEPT ![x] = "Cancelled"] ELSE status
      /\ book' = IF found THEN [book EXCEPT ![p][s] = Erase(@, x)] ELSE book
      /\ UNCHANGED <<placing, singleton, nextId, id, open, dataQueue, consumer, hand, producer, passed,
                     fill, snapshot, fillQueue, listening, written, market, fills>>
  BY DEF Cancel, consumerVars, producerVars, fillVars
<1>4. crashed' \in BOOLEAN /\ reported' \subseteq Orders /\ reported \subseteq reported'
  BY <1>2, <1>3 DEF TypeOK
<1>5. s \in Sides
  BY <1>2, OrderIs
<1> HIDE DEF o, p, s
<1>6. ASSUME found PROVE x \in Orders /\ TakenOut(x) /\ id[x] = id[o] /\ o \in reported'
  <2>1. p \in Levels /\ book[p][s] \in Seq(Orders)
    BY <1>5, <1>6 DEF TypeOK
  <2>2. Min(C) \in C
    <3>1. C \subseteq 1 .. Len(book[p][s]) /\ Len(book[p][s]) \in Nat
      BY <2>1 DEF Carriers
    <3>2. C # {}
      BY <1>6
    <3> HIDE DEF C
    <3>3. IsFiniteSet(1 .. Len(book[p][s])) /\ C \subseteq Int
      BY <3>1, FS_Interval
    <3>4. IsFiniteSet(C)
      BY <3>1, <3>3, FS_Subset
    <3> QED
      BY <3>2, <3>3, <3>4, Smallest
  <2>3. x \in ToSet(book[p][s]) /\ x \in Orders /\ id[x] = id[o]
    <3> DEFINE k == Min(C)
    <3>1. k \in DOMAIN book[p][s] /\ id[book[p][s][k]] = id[o] /\ x = book[p][s][k]
      BY <2>2 DEF Carriers, FirstWith
    <3> HIDE DEF k, x
    <3> QED
      BY <2>1, <3>1 DEF ToSet
  <2> HIDE DEF C, x
  <2>4. InBook(x) /\ Terms(x).price = p /\ Terms(x).side = s
    BY <1>5, <2>1, <2>3 DEF OnePlace
  <2> QED
    BY <1>3, <1>5, <1>6, <2>1, <2>3, <2>4 DEF TakenOut
<1>7. ~ found => UNCHANGED <<status, book>>
  BY <1>3
<1> HIDE DEF found, doomed, x
<1>8. UNCHANGED <<placing, singleton, nextId, id, open, dataQueue, consumer, hand, producer, passed,
                  fill, snapshot, fillQueue, listening, written, market, fills>>
  BY <1>3
<1>9. CASE found
  BY <1>1, <1>2, <1>4, <1>6, <1>8, <1>9
<1>10. CASE ~ found
  BY <1>1, <1>2, <1>4, <1>7, <1>8, <1>10
<1> QED
  BY <1>9, <1>10

\* The constructor of the order that a session is at draws its id from the
\* generator of some session.
LEMMA ConstructDoes ==
  ASSUME TypeOK, Stages, NEW t \in Sessions, Construct(t)
  PROVE  LET n == <<t, pos[t]>>
         IN  /\ n \in Orders /\ More(t, "place") /\ placing[t] \in {"no", "created"}
             /\ \E i \in Sessions : /\ id' = [id EXCEPT ![n] = nextId[i]]
                                    /\ nextId' = [nextId EXCEPT ![i] = @ + 1]
<1>1. PICK i \in Instances(t) : /\ id' = [id EXCEPT ![<<t, pos[t]>>] = nextId[i]]
                                /\ nextId' = [nextId EXCEPT ![i] = @ + 1]
  BY DEF Construct
<1>2. CASE placing[t] = "created"
  <2>1. Instances(t) = {t, singleton}
    BY <1>2 DEF Instances
  <2>2. i \in Sessions /\ More(t, "place")
    BY <1>2, <2>1 DEF Stages, TypeOK
  <2> QED
    BY <1>1, <1>2, <2>2, OrderAt
<1>3. CASE placing[t] = "no" /\ More(t, "place")
  <2>1. Instances(t) = {singleton} \ {Null}
    BY <1>3 DEF Instances
  <2>2. i \in Sessions
    BY <2>1 DEF TypeOK
  <2> QED
    BY <1>1, <1>3, <2>2, OrderAt
<1>4. CASE placing[t] # "created" /\ ~ (placing[t] = "no" /\ More(t, "place"))
  <2>1. Instances(t) = {}
    BY <1>4 DEF Instances
  <2> QED
    BY <2>1
<1> QED
  BY <1>2, <1>3, <1>4

\* A trade: the two oldest orders of the level that the scan chose.
Trade(p, b, a, n) ==
  /\ producer = "pop" /\ p = cursor
  /\ book[p]["buy"] # <<>> /\ b = Head(book[p]["buy"]) /\ InBook(b)
  /\ book[p]["sell"] # <<>> /\ a = Head(book[p]["sell"]) /\ InBook(a)
  /\ Terms(b).price = p /\ Terms(b).side = "buy" /\ Terms(a).price = p /\ Terms(a).side = "sell"
  /\ n <= open[b] /\ n <= open[a] /\ (n = open[b] \/ n = open[a])
  /\ open' = [open EXCEPT ![b] = @ - n, ![a] = @ - n]
  /\ status' = [status EXCEPT ![b] = IF open[b] = n THEN "FullFill" ELSE "PartialFill",
                              ![a] = IF open[a] = n THEN "FullFill" ELSE "PartialFill"]
  /\ book' = [book EXCEPT ![p] = [s \in Sides |-> IF open[Head(book[p][s])] = n
                                                  THEN Tail(book[p][s]) ELSE book[p][s]]]
  /\ fill' = [buy |-> b, sell |-> a, qty |-> n] /\ fills' = Append(fills, fill')
  /\ producer' = "push"
  /\ UNCHANGED <<pos, placing, singleton, nextId, id, dataQueue, consumer, hand, passed, snapshot,
                 fillQueue, listening, written, market, crashed, reported>>

LEMMA PopDoes ==
  ASSUME TypeOK, OnePlace, Stages, PopPair
  PROVE  \E p \in Levels, b \in Orders, a \in Orders, n \in Nat : Trade(p, b, a, n)
<1>1. producer = "pop" /\ passed # Levels
  BY DEF PopPair, Stages
<1>2. cursor \in Levels
  BY <1>1, CursorIs DEF TypeOK
<1> DEFINE b == Head(book[cursor]["buy"])
           a == Head(book[cursor]["sell"])
           n == SmallerOf(b, a)
<1>3. \A s \in Sides : book[cursor][s] \in Seq(Orders) /\ book[cursor][s] # <<>>
  BY <1>2 DEF TypeOK, PopPair
<1>4. "buy" \in Sides /\ "sell" \in Sides
  BY DEF Sides
<1>5. b \in ToSet(book[cursor]["buy"]) /\ b \in Orders /\ a \in ToSet(book[cursor]["sell"]) /\ a \in Orders
  BY <1>2, <1>3, <1>4, Popped DEF OnePlace
<1>6. /\ InBook(b) /\ Terms(b).price = cursor /\ Terms(b).side = "buy"
      /\ InBook(a) /\ Terms(a).price = cursor /\ Terms(a).side = "sell"
  BY <1>2, <1>4, <1>5 DEF OnePlace
<1>7. n \in Nat /\ n <= open[b] /\ n <= open[a] /\ (n = open[b] \/ n = open[a])
  BY <1>5, SmallerIs DEF TypeOK
<1>8. Trade(cursor, b, a, n)
  <2>1. /\ open' = [open EXCEPT ![b] = @ - n, ![a] = @ - n]
        /\ status' = [status EXCEPT ![b] = IF open[b] = n THEN "FullFill" ELSE "PartialFill",
                                    ![a] = IF open[a] = n THEN "FullFill" ELSE "PartialFill"]
        /\ fill' = [buy |-> b, sell |-> a, qty |-> n] /\ fills' = Append(fills, fill')
        /\ producer' = "push"
        /\ UNCHANGED <<pos, placing, singleton, nextId, id, dataQueue, consumer, hand, passed, snapshot,
                 fillQueue, listening, written, market, crashed, reported>>
    BY DEF PopPair, FillOf, sessionVars, consumerVars, fillVars
  <2>2. book' = [book EXCEPT ![cursor] = [s \in Sides |-> IF open[Head(book[cursor][s])] = n
                                             THEN Tail(book[cursor][s]) ELSE book[cursor][s]]]
    BY <1>2 DEF PopPair, TypeOK
  <2> HIDE DEF n, b, a
  <2>3. b = Head(book[cursor]["buy"]) /\ a = Head(book[cursor]["sell"])
    BY DEF b, a
  <2> QED
    BY <1>1, <1>3, <1>4, <1>6, <1>7, <2>1, <2>2, <2>3 DEF Trade
<1> QED
  BY <1>2, <1>5, <1>7, <1>8

\* What a trade leaves of the queues of its level, and of the others.
LEMMA TradeLeaves ==
  ASSUME TypeOK, OnePlace, NEW p \in Levels, NEW b \in Orders, NEW a \in Orders, NEW n \in Nat, Trade(p, b, a, n),
         NEW q \in Levels, NEW s \in Sides
  PROVE  /\ book'[q][s] \in Seq(Orders) /\ IsInjective(book'[q][s])
         /\ InTurn(book[q][s]) => InTurn(book'[q][s])
         /\ \A x : x \in ToSet(book'[q][s]) <=>
              x \in ToSet(book[q][s]) /\ ~ (x \in {b, a} /\ open[x] = n)
<1>1. book[q][s] \in Seq(Orders) /\ IsInjective(book[q][s])
  BY DEF TypeOK, OnePlace
<1>2. \A x \in ToSet(book[q][s]) : Terms(x).price = q /\ Terms(x).side = s
  BY <1>1, QueueIs DEF OnePlace
<1>3. book'[q][s] = IF q = p /\ open[Head(book[q][s])] = n THEN Tail(book[q][s]) ELSE book[q][s]
  BY DEF Trade, TypeOK
<1>4. s \in {"buy", "sell"}
  BY DEF Sides
<1>5. CASE q = p
  <2> DEFINE h == Head(book[q][s])
  <2>1. book[q][s] # <<>> /\ h \in {b, a} /\ (s = "buy" => h = b) /\ (s = "sell" => h = a)
    BY <1>4, <1>5 DEF Trade
  <2>2. \A x \in {b, a} : x \in ToSet(book[q][s]) => x = h
    BY <1>2, <1>4, <2>1 DEF Trade
  <2>3. /\ Tail(book[q][s]) \in Seq(Orders) /\ IsInjective(Tail(book[q][s]))
        /\ h \in ToSet(book[q][s]) /\ ToSet(Tail(book[q][s])) = ToSet(book[q][s]) \ {h}
        /\ InTurn(book[q][s]) => InTurn(Tail(book[q][s]))
    BY <1>1, <2>1, Popped
  <2> HIDE DEF h
  <2>4. book'[q][s] = IF open[h] = n THEN Tail(book[q][s]) ELSE book[q][s]
    BY <1>3, <1>5 DEF h
  <2>5. CASE open[h] = n
    BY <2>1, <2>2, <2>3, <2>4, <2>5
  <2>6. CASE open[h] # n
    BY <1>1, <2>1, <2>2, <2>4, <2>6
  <2> QED
    BY <2>5, <2>6
<1>6. CASE q # p
  <2>1. book'[q][s] = book[q][s]
    BY <1>3, <1>6
  <2>2. \A x \in ToSet(book[q][s]) : x \notin {b, a}
    BY <1>2, <1>6 DEF Trade
  <2> QED
    BY <1>1, <2>1, <2>2
<1> QED
  BY <1>5, <1>6

-----------------------------------------------------------------------------
(* The invariant, part by part.                                            *)

\* Types.
LEMMA TypeStep == ASSUME IInv, Next PROVE TypeOK'
<1> USE DEF IInv
<1>1. ASSUME NEW t \in Sessions, Construct(t) PROVE TypeOK'
  <2>1. PICK i \in Sessions : /\ id' = [id EXCEPT ![<<t, pos[t]>>] = nextId[i]]
                              /\ nextId' = [nextId EXCEPT ![i] = @ + 1]
    BY <1>1, ConstructDoes
  <2>2. placing' = [placing EXCEPT ![t] = "made"]
    BY <1>1 DEF Construct
  <2>3. /\ id' \in [Orders -> Nat \cup {Null}] /\ nextId' \in [Sessions -> Nat]
        /\ placing' \in [Sessions -> {"no", "create", "created", "made"}]
    BY <1>1, <2>1, <2>2, ConstructDoes DEF TypeOK
  <2> QED
    BY <1>1, <2>3 DEF TypeOK, Construct, consumerVars, producerVars, fillVars, orderVars
<1>13. ASSUME NEW t \in Sessions, FindNone(t) \/ Create(t) PROVE TypeOK'
  <2>1. /\ placing' \in [Sessions -> {"no", "create", "created", "made"}]
        /\ singleton' \in Sessions \cup {Null}
    BY <1>13 DEF FindNone, Create, TypeOK
  <2> QED
    BY <1>13, <2>1 DEF TypeOK, FindNone, Create, consumerVars, producerVars, fillVars, orderVars
<1>2. ASSUME NEW t \in Sessions, Enqueue(t) PROVE TypeOK'
  <2>1. <<t, pos[t]>> \in Orders
    BY <1>2, OrderAt DEF Enqueue, Stages
  <2>2. dataQueue' \in Seq(Orders)
    BY <1>2, <2>1, Joined DEF Enqueue, TypeOK
  <2>3. pos' \in [Sessions -> Nat] /\ placing' \in [Sessions -> {"no", "create", "created", "made"}]
    BY <1>2 DEF Enqueue, TypeOK
  <2> QED
    BY <1>2, <2>2, <2>3 DEF TypeOK, Enqueue, producerVars, fillVars, orderVars
<1>3. ASSUME NEW t \in Sessions, Cancel(t) PROVE TypeOK'
  <2>1. PICK o \in Orders :
           /\ More(t, "cancel") /\ pos' = [pos EXCEPT ![t] = @ + 1]
           /\ crashed' \in BOOLEAN /\ reported' \subseteq Orders
           /\ UNCHANGED <<placing, singleton, nextId, id, open, dataQueue, consumer, hand, producer, passed,
                          fill, snapshot, fillQueue, listening, written, market, fills>>
           /\ UNCHANGED <<status, book>> \/ TakenOut(o)
    BY <1>3, CancelDoes
  <2>2. pos' \in [Sessions -> Nat]
    BY <2>1 DEF TypeOK
  <2>3. /\ status' \in [Orders -> {"Inactive", "Active", "FullFill", "PartialFill", "Cancelled", "Rejected"}]
        /\ book' \in [Levels -> [Sides -> Seq(Orders)]]
    <3>1. CASE UNCHANGED <<status, book>>
      BY <3>1 DEF TypeOK
    <3>2. CASE ~ UNCHANGED <<status, book>>
      <4> DEFINE p == Terms(o).price
                 s == Terms(o).side
      <4>1. /\ p \in Levels /\ s \in Sides /\ o \in ToSet(book[p][s])
            /\ status' = [status EXCEPT ![o] = "Cancelled"]
            /\ book' = [book EXCEPT ![p][s] = Erase(@, o)]
        BY <2>1, <3>2 DEF TakenOut
      <4>2. book[p][s] \in Seq(Orders) /\ IsInjective(book[p][s])
        BY <4>1 DEF TypeOK, OnePlace
      <4>3. Erase(book[p][s], o) \in Seq(Orders)
        BY <4>1, <4>2, Erased
      <4> HIDE DEF p, s
      <4> QED
        BY <4>1, <4>3 DEF TypeOK
    <3> QED
      BY <3>1, <3>2
  <2> QED
    BY <2>1, <2>2, <2>3 DEF TypeOK
<1>4. CASE TakeOrder
  <2>1. Head(dataQueue) \in Orders /\ Tail(dataQueue) \in Seq(Orders)
    BY <1>4, Popped DEF TakeOrder, TypeOK, OnePlace
  <2> QED
    BY <1>4, <2>1 DEF TypeOK, TakeOrder, sessionVars, producerVars, fillVars, orderVars
<1>5. CASE InsertOrder
  <2>1. hand \in Orders
    BY <1>5 DEF InsertOrder, TypeOK
  <2>2. /\ status' \in [Orders -> {"Inactive", "Active", "FullFill", "PartialFill", "Cancelled", "Rejected"}]
        /\ book' \in [Levels -> [Sides -> Seq(Orders)]]
    <3>1. Terms(hand).side \in Sides
      BY <2>1, OrderIs
    <3>2. CASE Terms(hand).price \in Levels
      <4>1. Append(book[Terms(hand).price][Terms(hand).side], hand) \in Seq(Orders)
        BY <2>1, <3>1, <3>2, Joined DEF TypeOK
      <4> DEFINE p == Terms(hand).price
                 s == Terms(hand).side
      <4>2. book' = [book EXCEPT ![p][s] = Append(@, hand)] /\ status' = [status EXCEPT ![hand] = "Active"]
        BY <1>5, <3>2 DEF InsertOrder, Insert
      <4>3. p \in Levels /\ s \in Sides /\ Append(book[p][s], hand) \in Seq(Orders)
        BY <3>1, <3>2, <4>1
      <4> HIDE DEF p, s
      <4> QED
        BY <2>1, <4>2, <4>3 DEF TypeOK
    <3>3. CASE Terms(hand).price \notin Levels
      BY <1>5, <2>1, <3>3 DEF InsertOrder, Insert, TypeOK
    <3> QED
      BY <3>2, <3>3
  <2> QED
    BY <1>5, <2>1, <2>2 DEF TypeOK, InsertOrder, sessionVars, producerVars, fillVars
<1>6. CASE BeginScan
  <2>1. Resting("buy") \subseteq Orders
    <3>1. \A p \in Levels : book[p]["buy"] \in Seq(Orders)
      BY DEF TypeOK, Sides
    <3>2. \A p \in Levels : ToSet(book[p]["buy"]) \subseteq Orders
      BY <3>1, QueueIs
    <3> QED
      BY <3>2 DEF Resting
  <2> QED
    BY <1>6, <2>1 DEF TypeOK, BeginScan, sessionVars, consumerVars, fillVars, orderVars
<1>7. CASE ScanLevel
  <2>1. cursor \in Levels
    BY <1>7, CursorIs DEF ScanLevel, TypeOK, Stages
  <2> QED
    BY <1>7, <2>1 DEF TypeOK, ScanLevel, sessionVars, consumerVars, fillVars, orderVars
<1>8. CASE PopNothing
  BY <1>8 DEF TypeOK, PopNothing, sessionVars, consumerVars, fillVars, orderVars
<1>9. CASE PopPair
  <2>1. PICK p \in Levels, b \in Orders, a \in Orders, n \in Nat : Trade(p, b, a, n)
    BY <1>9, PopDoes
  <2>2. open' \in [Orders -> Nat]
    <3>1. b # a
      BY <2>1 DEF Trade
    <3>2. open[b] - n \in Nat /\ open[a] - n \in Nat
      <4>1. open[b] \in Nat /\ open[a] \in Nat
        BY DEF TypeOK
      <4>2. n <= open[b] /\ n <= open[a]
        BY <2>1 DEF Trade
      <4> QED
        BY <4>1, <4>2
    <3> QED
      BY <2>1, <3>1, <3>2 DEF Trade, TypeOK
  <2>3. status' \in [Orders -> {"Inactive", "Active", "FullFill", "PartialFill", "Cancelled", "Rejected"}]
    <3> DEFINE T == {"Inactive", "Active", "FullFill", "PartialFill", "Cancelled", "Rejected"}
    <3>1. \E x, y \in T : status' = [status EXCEPT ![b] = x, ![a] = y]
      BY <2>1 DEF Trade
    <3>2. status \in [Orders -> T]
      BY DEF TypeOK
    <3> HIDE DEF T
    <3>3. status' \in [Orders -> T]
      BY <3>1, <3>2
    <3> QED
      BY <3>3 DEF T
  <2>4. book' \in [Levels -> [Sides -> Seq(Orders)]]
    <3>1. \A q \in Levels, s \in Sides : book'[q][s] \in Seq(Orders)
      BY <2>1, TradeLeaves
    <3>2. book' = [book EXCEPT ![p] = book'[p]] /\ book'[p] = [s \in Sides |-> book'[p][s]]
      BY <2>1 DEF Trade, TypeOK
    <3> QED
      BY <3>1, <3>2 DEF TypeOK
  <2>5. fill' \in Fills /\ fills' \in Seq(Fills)
    BY <2>1 DEF Trade, Fills, TypeOK
  <2>6. UNCHANGED <<pos, placing, singleton, nextId, id, dataQueue, consumer, hand, passed, snapshot,
                 fillQueue, listening, written, market, crashed, reported>> /\ producer' = "push"
    BY <2>1 DEF Trade
  <2> QED
    BY <2>2, <2>3, <2>4, <2>5, <2>6 DEF TypeOK
<1>10. CASE PushFill
  <2>1. fill \in Fills
    <3>1. fills = <<fill>> /\ fills \in Seq(Fills)
      BY <1>10 DEF PushFill, FillFlow, TypeOK
    <3>2. 1 \in DOMAIN fills /\ fills[1] = fill
      BY <3>1
    <3> QED
      BY <3>1, <3>2
  <2> QED
    BY <1>10, <2>1 DEF TypeOK, PushFill, sessionVars, consumerVars, orderVars
<1>11. ASSUME NEW l \in Listeners, TakeFill(l) PROVE TypeOK'
  <2>1. Head(fillQueue) \in Fills /\ Tail(fillQueue) \in Seq(Fills)
    BY <1>11 DEF TakeFill, TypeOK
  <2>2. Halves(l, Head(fillQueue)) \in Seq(Sides \X Fills)
    <3>1. ASSUME NEW h \in Sides PROVE <<<<h, Head(fillQueue)>>>> \in Seq(Sides \X Fills)
      BY <2>1
    <3>2. "buy" \in Sides /\ "sell" \in Sides /\ <<>> \in Seq(Sides \X Fills)
      BY DEF Sides
    <3> QED
      BY <3>1, <3>2 DEF Halves
  <2>3. written' \in [Listeners -> Seq(Sides \X Fills)]
    BY <1>11, <2>2 DEF TakeFill, TypeOK
  <2> QED
    BY <1>11, <2>1, <2>3 DEF TypeOK, TakeFill, sessionVars, consumerVars, producerVars, orderVars
<1>12. CASE OutputMarket
  BY <1>12 DEF TypeOK, OutputMarket, sessionVars, consumerVars, producerVars, fillVars, orderVars
<1> QED
  BY <1>1, <1>2, <1>3, <1>4, <1>5, <1>6, <1>7, <1>8, <1>9, <1>10, <1>11, <1>12, <1>13
  DEF Next, Session, Consumer, Producer

\* What a cancellation that finds its order leaves of the queues.
LEMMA CancelLeaves ==
  ASSUME TypeOK, OnePlace, NEW o \in Orders, TakenOut(o),
         NEW q \in Levels, NEW r \in Sides
  PROVE  /\ IsInjective(book'[q][r]) /\ (InTurn(book[q][r]) => InTurn(book'[q][r]))
         /\ ToSet(book'[q][r]) = ToSet(book[q][r]) \ {o}
<1> DEFINE p == Terms(o).price
           s == Terms(o).side
<1>1. p \in Levels /\ s \in Sides /\ o \in ToSet(book[p][s])
  BY DEF TakenOut
<1>2. book' = [book EXCEPT ![p][s] = Erase(@, o)]
  BY DEF TakenOut
<1>3. book[q][r] \in Seq(Orders) /\ IsInjective(book[q][r])
  BY DEF TypeOK, OnePlace
<1>4. (q = p /\ r = s) \/ o \notin ToSet(book[q][r])
  BY DEF OnePlace
<1> HIDE DEF p, s
<1>5. book'[q][r] = IF q = p /\ r = s THEN Erase(book[q][r], o) ELSE book[q][r]
  BY <1>1, <1>2 DEF TypeOK
<1>6. CASE q = p /\ r = s
  BY <1>1, <1>3, <1>5, <1>6, Erased
<1>7. CASE ~ (q = p /\ r = s)
  BY <1>3, <1>4, <1>5, <1>7
<1> QED
  BY <1>6, <1>7

\* Every order is in one place.
LEMMA PlaceStep == ASSUME IInv, Next PROVE OnePlace'
<1> USE DEF IInv
<1>1. CASE UNCHANGED <<dataQueue, hand, book, status, pos>>
  BY <1>1 DEF OnePlace, Sent, InBook
<1>2. ASSUME NEW t \in Sessions, Enqueue(t) PROVE OnePlace'
  <2> DEFINE n == <<t, pos[t]>>
  <2>1. n \in Orders /\ Owner(n) = t /\ n[2] = pos[t]
    BY <1>2, OrderAt DEF Enqueue, Stages, Owner
  <2>2. /\ dataQueue' = Append(dataQueue, n) /\ pos' = [pos EXCEPT ![t] = @ + 1]
        /\ UNCHANGED <<hand, book, status>>
    BY <1>2 DEF Enqueue, orderVars
  <2>3. \A o \in Orders : Sent(o)' <=> Sent(o) \/ o = n
    <3> TAKE o \in Orders
    <3>1. o = <<Owner(o), o[2]>> /\ Owner(o) \in Sessions /\ o[2] \in Nat /\ pos[Owner(o)] \in Nat
      BY OrderIs DEF TypeOK
    <3>2. pos'[Owner(o)] = IF Owner(o) = t THEN pos[t] + 1 ELSE pos[Owner(o)]
      BY <2>2, <3>1 DEF TypeOK
    <3> QED
      BY <2>1, <3>1, <3>2 DEF Sent
  <2>4. ~ Sent(n) /\ pos[t] \in Nat
    BY <2>1 DEF Sent, TypeOK
  <2> HIDE DEF n
  <2>5. status[n] = "Inactive" /\ n # hand /\ n \notin ToSet(dataQueue)
    BY <2>1, <2>4 DEF OnePlace
  <2>6. IsInjective(dataQueue') /\ ToSet(dataQueue') = ToSet(dataQueue) \cup {n}
    BY <2>1, <2>2, <2>5, Joined DEF OnePlace, TypeOK
  <2> QED
    BY <2>1, <2>2, <2>3, <2>5, <2>6 DEF OnePlace, InBook
<1>3. ASSUME NEW t \in Sessions, Cancel(t) PROVE OnePlace'
  <2>1. PICK o \in Orders :
           /\ More(t, "cancel") /\ pos' = [pos EXCEPT ![t] = @ + 1]
           /\ UNCHANGED <<dataQueue, hand>>
           /\ UNCHANGED <<status, book>> \/ TakenOut(o)
    BY <1>3, CancelDoes
  <2>2. \A x \in Orders : Sent(x)' <=> Sent(x)
    <3> TAKE x \in Orders
    <3>1. x = <<Owner(x), x[2]>> /\ Owner(x) \in Sessions /\ x[2] \in Nat /\ pos[Owner(x)] \in Nat
      BY OrderIs DEF TypeOK
    <3>2. pos'[Owner(x)] = IF Owner(x) = t THEN pos[t] + 1 ELSE pos[Owner(x)]
      BY <2>1, <3>1 DEF TypeOK
    <3>3. Owner(x) = t => x[2] # pos[t]
      <4>1. Script[Owner(x)][x[2]].op = "place"
        BY OrderIs DEF Terms, Owner
      <4> QED
        BY <2>1, <4>1 DEF More
    <3> QED
      BY <3>1, <3>2, <3>3 DEF Sent
  <2>3. CASE UNCHANGED <<status, book>>
    BY <2>1, <2>2, <2>3 DEF OnePlace, InBook
  <2>4. CASE ~ UNCHANGED <<status, book>>
    <3>1. \A q \in Levels, r \in Sides : IsInjective(book'[q][r]) /\ ToSet(book'[q][r]) = ToSet(book[q][r]) \ {o}
      BY <2>1, <2>4, CancelLeaves
    <3>2. InBook(o) /\ \A x \in Orders : status'[x] = IF x = o THEN "Cancelled" ELSE status[x]
      BY <2>1, <2>4 DEF TakenOut, TypeOK
    <3>3. \A x \in Orders : /\ InBook(x)' <=> InBook(x) /\ x # o
                            /\ status'[x] = "Inactive" <=> status[x] = "Inactive"
      BY <3>2 DEF InBook
    <3>4. UNCHANGED <<dataQueue, hand>>
      BY <2>1
    <3> QED
      BY <2>2, <3>1, <3>3, <3>4 DEF OnePlace
  <2> QED
    BY <2>3, <2>4
<1>4. CASE TakeOrder
  <2>1. /\ hand = Null /\ hand' = Head(dataQueue) /\ dataQueue # <<>> /\ dataQueue' = Tail(dataQueue)
        /\ UNCHANGED <<book, status, pos>>
    BY <1>4 DEF TakeOrder, sessionVars, orderVars
  <2>2. /\ hand' \in ToSet(dataQueue) /\ ToSet(dataQueue') = ToSet(dataQueue) \ {hand'}
        /\ IsInjective(dataQueue')
    BY <2>1, Popped DEF TypeOK, OnePlace
  <2>3. \A o \in Orders : o # hand
    BY <2>1, NullAssumption
  <2> QED
    BY <2>1, <2>2, <2>3 DEF OnePlace, Sent, InBook
<1>5. CASE InsertOrder
  <2>1. /\ hand \in Orders /\ hand' = Null /\ UNCHANGED <<dataQueue, pos>>
    BY <1>5 DEF InsertOrder, TypeOK, sessionVars
  <2>2. Sent(hand) /\ status[hand] = "Inactive" /\ hand \notin ToSet(dataQueue)
    BY <2>1 DEF OnePlace
  <2>3. hand' \notin ToSet(dataQueue') /\ \A o \in Orders : o # hand' /\ (Sent(o)' <=> Sent(o))
    BY <2>1, NullAssumption, QueueIs DEF Sent, TypeOK
  <2> DEFINE p == Terms(hand).price
             s == Terms(hand).side
  <2>4. s \in Sides
    BY <2>1, OrderIs
  <2>5. \A q \in Levels, r \in Sides : hand \notin ToSet(book[q][r])
    BY <2>1, <2>2 DEF OnePlace, InBook
  <2>6. CASE p \in Levels
    <3>1. book' = [book EXCEPT ![p][s] = Append(@, hand)] /\ status' = [status EXCEPT ![hand] = "Active"]
      BY <1>5, <2>6 DEF InsertOrder, Insert
    <3>2. \A q \in Levels, r \in Sides :
            book'[q][r] = IF q = p /\ r = s THEN Append(book[q][r], hand) ELSE book[q][r]
      BY <2>4, <2>6, <3>1 DEF TypeOK
    <3>3. \A q \in Levels, r \in Sides :
            /\ IsInjective(book'[q][r])
            /\ ToSet(book'[q][r]) = ToSet(book[q][r]) \cup (IF q = p /\ r = s THEN {hand} ELSE {})
      <4> TAKE q \in Levels, r \in Sides
      <4>1. book[q][r] \in Seq(Orders) /\ IsInjective(book[q][r])
        BY DEF TypeOK, OnePlace
      <4> HIDE DEF p, s
      <4> QED
        BY <2>1, <2>5, <3>2, <4>1, Joined
    <3>4. \A o \in Orders : status'[o] = IF o = hand THEN "Active" ELSE status[o]
      BY <2>1, <3>1 DEF TypeOK
    <3>5. \A o \in Orders : InBook(o)' <=> InBook(o) \/ o = hand
      BY <3>4 DEF InBook
    <3> QED
      BY <2>1, <2>2, <2>3, <2>6, <3>3, <3>4, <3>5 DEF OnePlace
  <2>7. CASE p \notin Levels
    <3>1. book' = book /\ status' = [status EXCEPT ![hand] = "Rejected"]
      BY <1>5, <2>7 DEF InsertOrder, Insert
    <3>2. \A o \in Orders : status'[o] = IF o = hand THEN "Rejected" ELSE status[o]
      BY <2>1, <3>1 DEF TypeOK
    <3>3. \A o \in Orders : InBook(o)' <=> InBook(o)
      BY <2>2, <3>2 DEF InBook
    <3> QED
      BY <2>1, <2>2, <2>3, <3>1, <3>2, <3>3 DEF OnePlace
  <2> QED
    BY <2>6, <2>7
<1>6. CASE PopPair
  <2>1. PICK p \in Levels, b \in Orders, a \in Orders, n \in Nat : Trade(p, b, a, n)
    BY <1>6, PopDoes
  <2>2. UNCHANGED <<dataQueue, hand, pos>>
    BY <2>1 DEF Trade
  <2>3. \A q \in Levels, s \in Sides :
          /\ IsInjective(book'[q][s])
          /\ \A x : x \in ToSet(book'[q][s]) <=> x \in ToSet(book[q][s]) /\ ~ (x \in {b, a} /\ open[x] = n)
    BY <2>1, TradeLeaves
  <2>4. \A x \in Orders : /\ InBook(x)' <=> InBook(x) /\ ~ (x \in {b, a} /\ open[x] = n)
                          /\ status'[x] = "Inactive" <=> status[x] = "Inactive"
    BY <2>1 DEF Trade, InBook, TypeOK
  <2>5. \A x \in Orders : Sent(x)' <=> Sent(x)
    BY <2>2 DEF Sent
  <2> HIDE DEF IInv
  <2>6. OnePlace
    BY DEF IInv
  <2> QED
    BY <2>2, <2>3, <2>4, <2>5, <2>6 DEF OnePlace
<1>7. ASSUME ~ UNCHANGED <<dataQueue, hand, book, status, pos>>, Next
      PROVE  \/ \E t \in Sessions : Enqueue(t) \/ Cancel(t)
             \/ TakeOrder \/ InsertOrder \/ PopPair
  BY <1>7 DEF Next, Session, Consumer, Producer, FindNone, Create, Construct, BeginScan, ScanLevel,
     PopNothing, PushFill, TakeFill, OutputMarket, sessionVars, consumerVars, orderVars
<1> QED
  BY <1>1, <1>2, <1>3, <1>4, <1>5, <1>6, <1>7

\* The orders of a session stay in the order in which it placed them.
LEMMA TurnStep == ASSUME IInv, Next PROVE Turns'
<1> USE DEF IInv
<1>1. CASE UNCHANGED <<dataQueue, hand, book, status>>
  BY <1>1 DEF Turns
<1>2. ASSUME NEW t \in Sessions, Enqueue(t) PROVE Turns'
  <2> DEFINE n == <<t, pos[t]>>
  <2>1. n \in Orders /\ Owner(n) = t /\ n[2] = pos[t]
    BY <1>2, OrderAt DEF Enqueue, Stages, Owner
  <2>2. dataQueue' = Append(dataQueue, n) /\ UNCHANGED <<hand, book, status>>
    BY <1>2 DEF Enqueue, orderVars
  <2>3. \A x \in Orders : (x = hand \/ x \in ToSet(dataQueue)) /\ Owner(x) = t => x[2] < n[2]
    <3> TAKE x \in Orders
    <3>1. x[2] \in Nat /\ pos[t] \in Nat
      BY OrderIs DEF TypeOK
    <3>2. (x = hand \/ x \in ToSet(dataQueue)) /\ Owner(x) = t => pos[t] > x[2]
      BY DEF OnePlace, Sent
    <3> QED
      BY <2>1, <3>1, <3>2
  <2> HIDE DEF n
  <2>4. dataQueue \in Seq(Orders) /\ ToSet(dataQueue) \subseteq Orders /\ hand \in Orders \cup {Null}
    BY QueueIs DEF TypeOK
  <2>5. InTurn(dataQueue') /\ ToSet(dataQueue') = ToSet(dataQueue) \cup {n}
    BY <2>1, <2>2, <2>3, <2>4, Joined DEF Turns
  <2> QED
    BY <2>1, <2>2, <2>3, <2>4, <2>5 DEF Turns
<1>3. ASSUME NEW t \in Sessions, Cancel(t) PROVE Turns'
  <2>1. PICK o \in Orders :
           /\ UNCHANGED <<dataQueue, hand>>
           /\ UNCHANGED <<status, book>> \/ TakenOut(o)
    BY <1>3, CancelDoes
  <2>2. CASE UNCHANGED <<status, book>>
    BY <2>1, <2>2 DEF Turns
  <2>3. CASE ~ UNCHANGED <<status, book>>
    <3>1. \A q \in Levels, r \in Sides : InTurn(book'[q][r])
      BY <2>1, <2>3, CancelLeaves DEF Turns
    <3>2. \A x \in Orders : status'[x] = "Inactive" <=> status[x] = "Inactive"
      BY <2>1, <2>3 DEF TakenOut, TypeOK, InBook
    <3> QED
      BY <2>1, <3>1, <3>2 DEF Turns
  <2> QED
    BY <2>2, <2>3
<1>4. CASE TakeOrder
  <2>1. /\ hand' = Head(dataQueue) /\ dataQueue # <<>> /\ dataQueue' = Tail(dataQueue)
        /\ UNCHANGED <<book, status>>
    BY <1>4 DEF TakeOrder, orderVars
  <2>2. dataQueue \in Seq(Orders) /\ IsInjective(dataQueue) /\ InTurn(dataQueue)
    BY DEF TypeOK, OnePlace, Turns
  <2>3. /\ ToSet(dataQueue') = ToSet(dataQueue) \ {hand'} /\ InTurn(dataQueue')
        /\ \A x \in ToSet(dataQueue) : Owner(x) = Owner(hand') /\ x # hand' => hand'[2] < x[2]
    BY <2>1, <2>2, Popped
  <2> QED
    BY <2>1, <2>3 DEF Turns
<1>5. CASE InsertOrder
  <2>1. /\ hand \in Orders /\ hand' = Null /\ UNCHANGED dataQueue
    BY <1>5 DEF InsertOrder, TypeOK
  <2>2. status[hand] = "Inactive" /\ Sent(hand)
    BY <2>1 DEF OnePlace
  <2>3. \A x \in Orders : Owner(x) = Owner(hand) /\ status[x] # "Inactive" => x[2] < hand[2]
    <3> TAKE x \in Orders
    <3>1. x = <<Owner(x), x[2]>> /\ hand = <<Owner(hand), hand[2]>> /\ x[2] \in Nat /\ hand[2] \in Nat
      BY <2>1, OrderIs
    <3>2. Owner(x) = Owner(hand) /\ hand[2] < x[2] => status[x] = "Inactive"
      BY <2>1, <2>2 DEF Turns
    <3>3. Owner(x) = Owner(hand) /\ hand[2] = x[2] => x = hand
      BY <3>1
    <3> QED
      BY <2>2, <3>1, <3>2, <3>3
  <2>4. \A o \in Orders : Owner(o) = Owner(hand) /\ o[2] < hand[2] => status[o] # "Inactive"
    <3> SUFFICES ASSUME NEW o \in Orders, Owner(o) = Owner(hand), o[2] < hand[2], status[o] = "Inactive"
                 PROVE  FALSE
      OBVIOUS
    <3>1. o[2] \in Nat /\ hand[2] \in Nat /\ pos[Owner(hand)] \in Nat
      BY <2>1, OrderIs DEF TypeOK
    <3>2. Sent(o)
      BY <2>2, <3>1 DEF Sent
    <3>3. o # hand /\ o \in ToSet(dataQueue)
      BY <3>1, <3>2 DEF OnePlace
    <3>4. hand[2] < o[2]
      BY <2>1, <3>3, NullAssumption DEF Turns
    <3> QED
      BY <3>1, <3>4
  <2>5. \E s \in {"Active", "Rejected"} : status' = [status EXCEPT ![hand] = s]
    BY <1>5 DEF InsertOrder, Insert
  <2>6. \A o \in Orders : status'[o] = "Inactive" <=> status[o] = "Inactive" /\ o # hand
    BY <2>1, <2>5 DEF TypeOK
  <2>7. \A o, x \in Orders :
          Owner(o) = Owner(x) /\ o[2] < x[2] /\ status'[o] = "Inactive" => status'[x] = "Inactive"
    BY <2>4, <2>6 DEF Turns
  <2>8. \A p \in Levels, s \in Sides : InTurn(book'[p][s])
    <3> TAKE p \in Levels, s \in Sides
    <3>1. book[p][s] \in Seq(Orders) /\ InTurn(book[p][s])
      BY DEF TypeOK, Turns
    <3>2. book'[p][s] = book[p][s] \/ book'[p][s] = Append(book[p][s], hand)
      <4>1. Terms(hand).side \in Sides
        BY <2>1, OrderIs
      <4>2. \/ UNCHANGED book
            \/ Terms(hand).price \in Levels /\ book' = [book EXCEPT ![Terms(hand).price][Terms(hand).side] = Append(@, hand)]
        BY <1>5 DEF InsertOrder, Insert
      <4>3. \A P \in Levels, S \in Sides : book' = [book EXCEPT ![P][S] = Append(@, hand)] =>
              book'[p][s] = book[p][s] \/ book'[p][s] = Append(book[p][s], hand)
        BY DEF TypeOK
      <4> QED
        BY <4>1, <4>2, <4>3
    <3>3. \A x \in ToSet(book[p][s]) : x \in Orders /\ status[x] # "Inactive"
      BY <3>1, QueueIs DEF OnePlace, InBook
    <3> QED
      BY <2>1, <2>3, <3>1, <3>2, <3>3, Joined
  <2> QED
    BY <2>1, <2>7, <2>8 DEF Turns
<1>6. CASE PopPair
  <2>1. PICK p \in Levels, b \in Orders, a \in Orders, n \in Nat : Trade(p, b, a, n)
    BY <1>6, PopDoes
  <2>2. UNCHANGED <<dataQueue, hand>>
    BY <2>1 DEF Trade
  <2>3. \A q \in Levels, s \in Sides : InTurn(book'[q][s])
    BY <2>1, TradeLeaves DEF Turns
  <2>4. \A x \in Orders : status'[x] = "Inactive" <=> status[x] = "Inactive"
    BY <2>1 DEF Trade, InBook, TypeOK
  <2>5. Turns
    OBVIOUS
  <2> HIDE DEF IInv
  <2> QED
    BY <2>2, <2>3, <2>4, <2>5 DEF Turns
<1>7. ASSUME ~ UNCHANGED <<dataQueue, hand, book, status>>, Next
      PROVE  \/ \E t \in Sessions : Enqueue(t) \/ Cancel(t)
             \/ TakeOrder \/ InsertOrder \/ PopPair
  BY <1>7 DEF Next, Session, Consumer, Producer, FindNone, Create, Construct, BeginScan, ScanLevel,
     PopNothing, PushFill, TakeFill, OutputMarket, sessionVars, consumerVars, orderVars
<1> QED
  BY <1>1, <1>2, <1>3, <1>4, <1>5, <1>6, <1>7

\* Only three actions change the status or the open quantity of an order.
LEMMA StatusActions ==
  ASSUME Next, ~ UNCHANGED <<status, open>>
  PROVE  (\E t \in Sessions : Cancel(t)) \/ InsertOrder \/ PopPair
BY DEF Next, Session, Consumer, Producer, FindNone, Create, Construct, Enqueue, TakeOrder, BeginScan,
   ScanLevel, PopNothing, PushFill, TakeFill, OutputMarket, orderVars

\* What they change it to.
LEMMA StatusSteps ==
  ASSUME TypeOK, OnePlace, Stages, Next, NEW x \in Orders
  PROVE  \/ status'[x] = status[x] /\ open'[x] = open[x]
         \/ InBook(x) /\ status'[x] = "Cancelled" /\ open'[x] = open[x]
         \/ /\ status[x] = "Inactive" /\ open'[x] = open[x]
            /\ \/ status'[x] = "Active" 
               \/ status'[x] = "Rejected" /\ Terms(x).price \notin Levels
         \/ PopPair /\ InBook(x) /\ status'[x] = "FullFill"
         \/ PopPair /\ InBook(x) /\ status'[x] = "PartialFill" /\ open'[x] > 0
<1>1. CASE UNCHANGED <<status, open>>
  BY <1>1
<1>2. ASSUME NEW t \in Sessions, Cancel(t)
      PROVE  open' = open /\ (status'[x] = status[x] \/ (InBook(x) /\ status'[x] = "Cancelled"))
  <2>1. PICK o \in Orders :
           /\ UNCHANGED open
           /\ UNCHANGED <<status, book>> \/ TakenOut(o)
    BY <1>2, CancelDoes
  <2> QED
    BY <2>1 DEF TakenOut, TypeOK
<1>3. CASE InsertOrder
  <2>1. hand \in Orders /\ open' = open /\ status[hand] = "Inactive"
    BY <1>3 DEF InsertOrder, TypeOK, OnePlace
  <2>2. \/ status' = [status EXCEPT ![hand] = "Active"]
        \/ status' = [status EXCEPT ![hand] = "Rejected"] /\ Terms(hand).price \notin Levels
    BY <1>3 DEF InsertOrder, Insert
  <2> QED
    BY <2>1, <2>2 DEF TypeOK
<1>4. CASE PopPair
  <2>1. PICK p \in Levels, b \in Orders, a \in Orders, n \in Nat : Trade(p, b, a, n)
    BY <1>4, PopDoes
  <2>2. b # a /\ InBook(b) /\ InBook(a)
    BY <2>1 DEF Trade
  <2>3. /\ open'[x] = IF x \in {b, a} THEN open[x] - n ELSE open[x]
        /\ status'[x] = IF x \in {b, a} THEN IF open[x] = n THEN "FullFill" ELSE "PartialFill" ELSE status[x]
    BY <2>1, <2>2 DEF Trade, TypeOK
  <2>4. x \in {b, a} => n <= open[x]
    BY <2>1 DEF Trade
  <2>5. open[x] \in Nat
    BY DEF TypeOK
  <2> QED
    BY <1>4, <2>2, <2>3, <2>4, <2>5
<1> QED
  BY <1>1, <1>2, <1>3, <1>4, StatusActions

\* The status of an order says what it should.
LEMMA StatusStep == ASSUME IInv, Next PROVE Statuses'
<1>1. SUFFICES ASSUME NEW x \in Orders
               PROVE  /\ status'[x] = "Rejected" => Terms(x).price \notin Levels
                      /\ status'[x] \in {"Inactive", "Active"} => open'[x] = Terms(x).qty
                      /\ status'[x] = "PartialFill" => open'[x] > 0
  BY DEF Statuses
<1>2. /\ status[x] = "Rejected" => Terms(x).price \notin Levels
      /\ status[x] \in {"Inactive", "Active"} => open[x] = Terms(x).qty
      /\ status[x] = "PartialFill" => open[x] > 0
  BY DEF IInv, Statuses
<1> QED
  BY <1>2, StatusSteps DEF IInv

\* The threads are where their parts of the state say.
LEMMA StageStep == ASSUME IInv, Next PROVE Stages'
<1> USE DEF IInv
<1>1. \A x \in Orders : status[x] # "Inactive" => status'[x] # "Inactive"
  BY StatusSteps
<1> DEFINE Placed == \A u \in Sessions : /\ placing[u] # "no" => More(u, "place")
                                         /\ placing[u] = "created" => singleton # Null
<1>2. Placed'
  <2>0. Placed
    BY DEF Stages
  <2>1. ASSUME NEW t \in Sessions, FindNone(t) \/ Create(t) \/ Construct(t) PROVE Placed'
    <3>1. /\ pos' = pos /\ More(t, "place")
          /\ \E x \in {"create", "created", "made"} : placing' = [placing EXCEPT ![t] = x]
      <4>1. CASE FindNone(t)
        BY <4>1 DEF FindNone
      <4>2. CASE Create(t)
        BY <2>0, <4>2 DEF Create
      <4>3. CASE Construct(t)
        BY <4>3, ConstructDoes DEF Construct
      <4> QED
        BY <2>1, <4>1, <4>2, <4>3
    <3>2. singleton' = singleton \/ singleton' # Null
      BY <2>1, NullAssumption DEF FindNone, Create, Construct
    <3>3. placing'[t] = "created" => singleton' # Null
      BY <2>1, NullAssumption DEF FindNone, Create, Construct, TypeOK
    <3>4. \A u \in Sessions : More(u, "place")' <=> More(u, "place")
      BY <3>1 DEF More
    <3>5. \A u \in Sessions \ {t} : placing'[u] = placing[u]
      BY <3>1 DEF TypeOK
    <3> HIDE DEF IInv
    <3> QED
      BY <2>0, <3>1, <3>2, <3>3, <3>4, <3>5
  <2>2. ASSUME NEW t \in Sessions, Enqueue(t) \/ Cancel(t) PROVE Placed'
    <3>1. /\ pos' = [pos EXCEPT ![t] = @ + 1] /\ placing'[t] = "no" /\ singleton' = singleton
          /\ \A u \in Sessions \ {t} : placing'[u] = placing[u]
      BY <2>0, <2>2 DEF Enqueue, Cancel, More, TypeOK
    <3>2. \A u \in Sessions \ {t} : More(u, "place")' <=> More(u, "place")
      BY <3>1 DEF More, TypeOK
    <3> HIDE DEF IInv
    <3> QED
      BY <2>0, <3>1, <3>2
  <2>3. CASE UNCHANGED <<pos, placing, singleton>>
    BY <2>0, <2>3 DEF More
  <2> QED
    BY <2>1, <2>2, <2>3 DEF Next, Session, Consumer, Producer, TakeOrder, InsertOrder, BeginScan, ScanLevel,
       PopNothing, PopPair, PushFill, TakeFill, OutputMarket, sessionVars
<1>3. (consumer = "done" => hand = Null)'
  <2>1. CASE TakeOrder
    BY <2>1 DEF TakeOrder
  <2>2. CASE InsertOrder
    BY <2>2 DEF InsertOrder
  <2>3. CASE UNCHANGED <<consumer, hand>>
    BY <2>3 DEF Stages
  <2> QED
    BY <2>1, <2>2, <2>3 DEF Next, Session, Consumer, Producer, FindNone, Create, Construct, Enqueue, Cancel,
       BeginScan, ScanLevel, PopNothing, PopPair, PushFill, TakeFill, OutputMarket, consumerVars
<1>4. (producer \in {"scan", "pop", "push", "done"} => passed # Levels)'
      /\ (\A o \in snapshot : status[o] # "Inactive")'
  <2>1. CASE BeginScan
    <3>1. \A o \in Resting("buy") : o \in Orders /\ status[o] # "Inactive"
      <4>1. \A p \in Levels : book[p]["buy"] \in Seq(Orders)
        BY DEF TypeOK, Sides
      <4>2. \A p \in Levels : \A o \in ToSet(book[p]["buy"]) : o \in Orders /\ InBook(o)
        BY <4>1, QueueIs DEF OnePlace, Sides
      <4> QED
        BY <4>2 DEF Resting, InBook
    <3>2. passed' = {} /\ snapshot' = Resting("buy")
      BY <2>1 DEF BeginScan
    <3> QED
      BY <1>1, <3>1, <3>2, ExchangeAssumption
  <2>2. CASE ScanLevel \/ PopNothing \/ PopPair \/ PushFill
    <3>1. UNCHANGED snapshot /\ (producer' \in {"scan", "pop", "push", "done"} => passed' # Levels)
      BY <2>2 DEF ScanLevel, PopNothing, PopPair, PushFill, Stages
    <3> QED
      BY <1>1, <3>1 DEF Stages, TypeOK
  <2>3. CASE UNCHANGED <<producer, passed, snapshot>>
    BY <1>1, <2>3 DEF Stages, TypeOK
  <2> QED
    BY <2>1, <2>2, <2>3 DEF Next, Session, Consumer, Producer, FindNone, Create, Construct, Enqueue, Cancel,
       TakeOrder, InsertOrder, TakeFill, OutputMarket, producerVars
<1>5. /\ \A t \in Sessions : placing'[t] # "no" => More(t, "place")'
      /\ \A t \in Sessions : placing'[t] = "created" => singleton' # Null
  BY <1>2
<1> HIDE DEF IInv, Placed
<1> QED
  BY <1>3, <1>4, <1>5 DEF Stages

\* The fill is in one place.
LEMMA FillStep == ASSUME IInv, Next PROVE FillFlow'
<1> USE DEF IInv
<1>1. CASE UNCHANGED <<producer, fill, fills, fillQueue, written>>
  BY <1>1 DEF FillFlow
<1>2. CASE BeginScan \/ ScanLevel \/ PopNothing
  <2>1. /\ UNCHANGED <<fill, fills, fillQueue, written>>
        /\ producer \in {"idle", "scan", "pop"} /\ producer' \in {"idle", "scan", "pop"}
    BY <1>2 DEF BeginScan, ScanLevel, PopNothing, fillVars, TypeOK
  <2> QED
    BY <2>1 DEF FillFlow
<1>3. CASE PopPair
  <2>1. /\ producer = "pop" /\ producer' = "push" /\ fills' = Append(fills, fill')
        /\ UNCHANGED <<fillQueue, written>>
    BY <1>3 DEF PopPair, fillVars
  <2>2. fills' = <<fill'>>
    BY <2>1 DEF FillFlow
  <2> QED
    BY <2>1, <2>2 DEF FillFlow
<1>4. CASE PushFill
  <2>1. /\ producer = "push" /\ producer' = "done" /\ fill' = Null
        /\ fillQueue' = Append(fillQueue, fill) /\ UNCHANGED <<fills, written>>
    BY <1>4 DEF PushFill
  <2>2. fillQueue' = <<fill>> /\ fills' = <<fill>>
    BY <2>1 DEF FillFlow
  <2> QED
    BY <2>1, <2>2 DEF FillFlow
<1>5. ASSUME NEW l \in Listeners, TakeFill(l) PROVE FillFlow'
  <2> DEFINE f == Head(fillQueue)
  <2>1. /\ fillQueue # <<>> /\ fillQueue' = Tail(fillQueue)
        /\ written' = [written EXCEPT ![l] = @ \o Halves(l, f)]
        /\ UNCHANGED <<producer, fill, fills>>
    BY <1>5 DEF TakeFill, producerVars
  <2>2. /\ producer = "done" /\ fill = Null /\ fills \in Seq(Fills) /\ Len(fills) = 1
        /\ fillQueue = fills /\ \A k \in Listeners : written[k] = <<>>
    BY <2>1 DEF FillFlow, TypeOK
  <2>3. f = fills[1] /\ fillQueue' = <<>>
    BY <2>1, <2>2
  <2>4. \A e \in ToSet(Halves(l, f)) : e[2] = f /\ Owner(e[2][e[1]]) = l
    BY DEF Halves, ToSet
  <2>5. Halves(l, f) \in Seq({"buy", "sell"} \X {f})
    <3>1. ASSUME NEW h \in {"buy", "sell"} PROVE <<<<h, f>>>> \in Seq({"buy", "sell"} \X {f})
      OBVIOUS
    <3> QED
      BY <3>1 DEF Halves
  <2> HIDE DEF f
  <2>6. <<>> \o Halves(l, f) = Halves(l, f)
    BY <2>5, ConcatEmptySeq
  <2>7. written'[l] = Halves(l, f) /\ \A k \in Listeners \ {l} : written'[k] = <<>>
    BY <2>1, <2>2, <2>6 DEF TypeOK
  <2> QED
    BY <2>1, <2>2, <2>3, <2>4, <2>7 DEF FillFlow
<1> QED
  BY <1>1, <1>2, <1>3, <1>4, <1>5 DEF Next, Session, Consumer, Producer, FindNone, Create, Construct,
     Enqueue, Cancel, TakeOrder, InsertOrder, OutputMarket, producerVars, fillVars

\* What a fill adds to the filled quantity of an order.
Part(o, f) == IF o \in {f.buy, f.sell} THEN f.qty ELSE 0

LEMMA FilledIs ==
  ASSUME fills \in Seq(Fills), NEW f \in Fills, fills' = Append(fills, f), NEW o
  PROVE  FilledQty(o)' = FilledQty(o) + Part(o, f)
<1> DEFINE g == [k \in 1 .. Len(fills) |-> Part(o, fills[k])]
           h == [k \in 1 .. Len(fills) + 1 |-> Part(o, fills'[k])]
           m == Len(fills) + 1
<1>1. /\ Len(fills) \in Nat /\ DOMAIN fills = 1 .. Len(fills) /\ DOMAIN fills' = 1 .. m
      /\ fills'[m] = f /\ \A k \in 1 .. Len(fills) : fills'[k] = fills[k] /\ fills[k] \in Fills
  OBVIOUS
<1>2. \A k \in 1 .. m : k \in 1 .. Len(fills) \/ k = m
  BY <1>1
<1>3. \A k \in 1 .. m : fills'[k] \in Fills
  BY <1>1, <1>2
<1>4. \A x \in Fills : Part(o, x) \in Nat
  BY DEF Part, Fills
<1>5. FilledQty(o) = SumFunctionOnSet(g, 1 .. Len(fills))
  BY <1>1 DEF FilledQty, SumFunction, Part
<1>6. FilledQty(o)' = SumFunctionOnSet(h, 1 .. m)
  BY <1>1 DEF FilledQty, SumFunction, Part
<1>7. /\ \A k \in 1 .. Len(fills) : h[k] = g[k]
      /\ h[m] = Part(o, f) /\ \A k \in 1 .. m : h[k] \in Int
  BY <1>1, <1>2, <1>3, <1>4
<1>8. 1 .. m = (1 .. Len(fills)) \cup {m} /\ m \notin 1 .. Len(fills) /\ IsFiniteSet(1 .. Len(fills))
  <2>1. Len(fills) \in Nat
    BY <1>1
  <2>2. 1 .. m = (1 .. Len(fills)) \cup {m} /\ m \notin 1 .. Len(fills)
    BY <2>1
  <2>3. IsFiniteSet(1 .. Len(fills))
    BY <2>1, FS_Interval
  <2> QED
    BY <2>2, <2>3
<1> HIDE DEF g, h
<1>9. SumFunctionOnSet(h, 1 .. m) = h[m] + SumFunctionOnSet(h, 1 .. Len(fills))
  BY <1>7, <1>8, SumWith
<1>10. SumFunctionOnSet(h, 1 .. Len(fills)) = SumFunctionOnSet(g, 1 .. Len(fills))
  BY <1>7, <1>8, SumSame
<1>11. SumFunctionOnSet(g, 1 .. Len(fills)) \in Int
  BY <1>7, <1>8, SumInt
<1>12. Part(o, f) \in Nat
  BY <1>4
<1> QED
  BY <1>5, <1>6, <1>7, <1>9, <1>10, <1>11, <1>12

\* No quantity is lost.
LEMMA ConserveStep == ASSUME IInv, Next PROVE Conservation'
<1>1. CASE UNCHANGED <<fills, open>>
  BY <1>1 DEF IInv, Conservation, FilledQty
<1>2. CASE PopPair
  <2>1. PICK p \in Levels, b \in Orders, a \in Orders, n \in Nat : Trade(p, b, a, n)
    BY <1>2, PopDoes DEF IInv
  <2>2. fill' = [buy |-> b, sell |-> a, qty |-> n] /\ fills' = Append(fills, fill') /\ fill' \in Fills
    BY <2>1 DEF Trade, Fills
  <2>3. b # a /\ \A o \in Orders : open'[o] = IF o \in {b, a} THEN open[o] - n ELSE open[o]
    BY <2>1 DEF Trade, IInv, TypeOK
  <2>4. \A o : Part(o, fill') = IF o \in {b, a} THEN n ELSE 0
    BY <2>2 DEF Part
  <2>5. fills \in Seq(Fills)
    BY DEF IInv, TypeOK
  <2>6. SUFFICES ASSUME NEW o \in Orders PROVE (FilledQty(o) + open[o] = Terms(o).qty)'
    BY DEF Conservation
  <2>7. FilledQty(o)' = FilledQty(o) + Part(o, fill')
    <3>1. \A f \in Fills : fills' = Append(fills, f) => FilledQty(o)' = FilledQty(o) + Part(o, f)
      BY <2>5, FilledIs
    <3> QED
      BY <2>2, <3>1
  <2>8. FilledQty(o) + open[o] = Terms(o).qty /\ open[o] \in Nat
    BY DEF IInv, Conservation, TypeOK
  <2>9. FilledQty(o) \in Int
    <3> DEFINE g == [k \in DOMAIN fills |-> Part(o, fills[k])]
    <3>1. FilledQty(o) = SumFunctionOnSet(g, DOMAIN fills)
      BY DEF FilledQty, SumFunction, Part
    <3>2. \A k \in DOMAIN fills : g[k] \in Int
      <4>1. \A k \in DOMAIN fills : fills[k] \in Fills
        BY <2>5
      <4>2. \A f \in Fills : Part(o, f) \in Int
        BY DEF Part, Fills
      <4> QED
        BY <4>1, <4>2
    <3>3. IsFiniteSet(DOMAIN fills)
      <4>1. DOMAIN fills = 1 .. Len(fills) /\ Len(fills) \in Nat
        BY <2>5
      <4> QED
        BY <4>1, FS_Interval
    <3> HIDE DEF g
    <3> QED
      BY <3>1, <3>2, <3>3, SumInt
  <2> QED
    BY <2>3, <2>4, <2>7, <2>8, <2>9
<1>3. ASSUME ~ UNCHANGED <<fills, open>>, Next PROVE PopPair
  BY <1>3 DEF Next, Session, Consumer, Producer, FindNone, Create, Construct, Enqueue, Cancel, TakeOrder,
     InsertOrder, BeginScan, ScanLevel, PopNothing, PushFill, TakeFill, OutputMarket, orderVars
<1> QED
  BY <1>1, <1>2, <1>3

\* The earlier order of a session is served first: the later one trades only
\* when it is at the head of the queue that the earlier one has left.
LEMMA PriorityStep == ASSUME IInv, Next PROVE SessionPriority'
<1> USE DEF IInv
<1>1. SUFFICES ASSUME NEW o \in Orders, NEW x \in Orders, Owner(o) = Owner(x), o[2] < x[2],
                      Terms(o).side = Terms(x).side, Terms(o).price = Terms(x).price
               PROVE  /\ status'[x] # "Inactive" => status'[o] # "Inactive"
                      /\ open'[x] < Terms(x).qty => status'[o] \in {"FullFill", "Cancelled"}
  BY DEF SessionPriority
<1>2. /\ status[x] # "Inactive" => status[o] # "Inactive"
      /\ open[x] < Terms(x).qty => status[o] \in {"FullFill", "Cancelled"}
  BY <1>1 DEF SessionPriority
<1>3. status'[x] # "Inactive" => status'[o] # "Inactive"
  BY <1>1, TurnStep DEF Turns
<1>4. status[o] \in {"FullFill", "Cancelled"} => status'[o] \in {"FullFill", "Cancelled"}
  BY StatusSteps DEF InBook
<1>5. ASSUME PopPair, open'[x] < open[x] PROVE status[o] \in {"FullFill", "Cancelled"}
  <2>1. PICK p \in Levels, b \in Orders, a \in Orders, n \in Nat : Trade(p, b, a, n)
    BY <1>5, PopDoes
  <2>2. x \in {b, a}
    <3>1. open[x] \in Nat /\ (x \notin {b, a} => open'[x] = open[x])
      BY <2>1 DEF Trade, TypeOK
    <3> QED
      BY <1>5, <3>1
  <2>3. PICK s \in Sides : x = Head(book[p][s]) /\ book[p][s] # <<>> /\ Terms(x).price = p /\ Terms(x).side = s
    BY <2>1, <2>2 DEF Trade, Sides
  <2>4. book[p][s] \in Seq(Orders) /\ IsInjective(book[p][s]) /\ InTurn(book[p][s])
    BY DEF TypeOK, OnePlace, Turns
  <2>5. /\ x \in ToSet(book[p][s])
        /\ \A y \in ToSet(book[p][s]) : Owner(y) = Owner(x) /\ y # x => x[2] < y[2]
    BY <2>3, <2>4, Popped
  <2>6. o[2] \in Nat /\ x[2] \in Nat
    BY OrderIs
  <2>7. o \notin ToSet(book[p][s])
    BY <1>1, <2>5, <2>6
  <2>8. ~ InBook(o) /\ InBook(x)
    BY <1>1, <2>3, <2>5, <2>7 DEF OnePlace
  <2>9. status[o] # "Inactive" /\ status[o] # "Rejected"
    BY <1>1, <1>2, <2>3, <2>8 DEF InBook, Statuses
  <2> QED
    BY <2>8, <2>9 DEF InBook, TypeOK
<1>6. open'[x] = open[x] \/ (PopPair /\ open'[x] < open[x]) \/ (PopPair /\ open'[x] >= open[x])
  <2>1. open[x] \in Nat /\ open'[x] \in Nat
    BY TypeStep DEF TypeOK
  <2>2. open'[x] = open[x] \/ PopPair
    BY StatusSteps
  <2> QED
    BY <2>1, <2>2
<1>7. open[x] \in Nat /\ open'[x] \in Nat /\ Terms(x).qty \in Nat
  BY TypeStep, OrderIs DEF TypeOK
<1> QED
  BY <1>2, <1>3, <1>4, <1>5, <1>6, <1>7

\* Once the market is published nothing happens any more.
LEMMA Over == ASSUME IInv, market # Null, Next PROVE FALSE
<1>1. AllJoined
  BY DEF IInv
<1>2. \A t \in Sessions : ~ Session(t)
  <2> TAKE t \in Sessions
  <2>1. ~ More(t, "place") /\ ~ More(t, "cancel")
    BY <1>1 DEF AllJoined, More
  <2>2. placing[t] = "no"
    BY <2>1 DEF IInv, Stages
  <2>3. Instances(t) = {}
    BY <2>1, <2>2 DEF Instances
  <2> QED
    BY <2>1, <2>2, <2>3 DEF Session, FindNone, Create, Construct, Enqueue, Cancel
<1>3. ~ Consumer /\ ~ Producer
  BY <1>1 DEF AllJoined, Consumer, TakeOrder, InsertOrder, Producer, BeginScan, ScanLevel, PopNothing,
     PopPair, PushFill, IInv, Stages
<1>4. ~ OutputMarket /\ \A l \in Listeners : ~ TakeFill(l)
  BY <1>1 DEF AllJoined, OutputMarket, TakeFill
<1> QED
  BY <1>2, <1>3, <1>4 DEF Next

LEMMA JoinStep == ASSUME IInv, Next PROVE (market # Null => AllJoined)'
<1>1. market = Null
  BY Over
<1>2. CASE OutputMarket
  BY <1>2 DEF OutputMarket, AllJoined, sessionVars, consumerVars, producerVars, fillVars
<1>3. CASE market' = market
  BY <1>1, <1>3
<1> QED
  BY <1>2, <1>3 DEF Next, Session, Consumer, Producer, FindNone, Create, Construct, Enqueue, Cancel,
     TakeOrder, InsertOrder, BeginScan, ScanLevel, PopNothing, PopPair, PushFill, TakeFill

-----------------------------------------------------------------------------
\* The invariant holds before any thread has run.
LEMMA InitHolds == ASSUME Init PROVE IInv
<1> USE DEF Init
<1>1. \A o \in Orders : Terms(o).qty \in Nat /\ o[2] \in Nat /\ o[2] > 0 /\ Owner(o) \in Sessions
  BY OrderIs
<1>2. TypeOK
  <2>1. <<>> \in Seq(Orders) /\ <<>> \in Seq(Fills) /\ <<>> \in Seq(Sides \X Fills)
    OBVIOUS
  <2>2. listening \subseteq Listeners
    BY ExchangeAssumption
  <2> QED
    BY <1>1, <2>1, <2>2 DEF TypeOK
<1>3. ToSet(<<>>) = {} /\ IsInjective(<<>>) /\ InTurn(<<>>)
  BY DEF ToSet, IsInjective, InTurn
<1>4. OnePlace
  <2>1. \A o \in Orders : ~ Sent(o)
    BY <1>1 DEF Sent
  <2>2. \A o \in Orders : o # hand
    BY NullAssumption
  <2> QED
    BY <1>3, <2>1, <2>2 DEF OnePlace, InBook
<1>5. Turns
  BY <1>3 DEF Turns
<1>6. Statuses
  BY DEF Statuses
<1>7. Stages
  BY DEF Stages
<1>8. FillFlow
  BY DEF FillFlow
<1>9. Conservation
  <2>1. \A o \in Orders : FilledQty(o) = 0
    <3> TAKE o \in Orders
    <3>1. DOMAIN fills = {}
      OBVIOUS
    <3>2. \A f : DOMAIN f = {} => SumFunction(f) = 0
      BY SumNothing DEF SumFunction
    <3> QED
      BY <3>1, <3>2 DEF FilledQty
  <2> QED
    BY <1>1, <2>1 DEF Conservation
<1>10. SessionPriority
  BY <1>1 DEF SessionPriority
<1> QED
  BY <1>2, <1>4, <1>5, <1>6, <1>7, <1>8, <1>9, <1>10 DEF IInv

LEMMA StepHolds == ASSUME IInv, [Next]_vars PROVE IInv'
<1>1. CASE Next
  BY <1>1, TypeStep, PlaceStep, TurnStep, StatusStep, StageStep, FillStep, ConserveStep, PriorityStep, JoinStep
  DEF IInv
<1>2. CASE UNCHANGED vars
  <2> USE <1>2 DEF IInv, vars, sessionVars, consumerVars, producerVars, fillVars, orderVars
  <2>1. TypeOK'
    BY DEF TypeOK
  <2>2. OnePlace'
    BY DEF OnePlace, Sent, InBook
  <2>3. Turns' /\ Statuses' /\ FillFlow' /\ SessionPriority'
    BY DEF Turns, Statuses, FillFlow, SessionPriority
  <2>4. Stages'
    BY DEF Stages, More
  <2>5. Conservation'
    BY DEF Conservation, FilledQty
  <2>6. (market # Null => AllJoined)'
    BY DEF AllJoined
  <2> QED
    BY <2>1, <2>2, <2>3, <2>4, <2>5, <2>6
<1> QED
  BY <1>1, <1>2

\* The inductive invariant of the exchange: the places of the orders, their
\* turns and statuses, the stages of the threads and the way of the fill.
THEOREM Invariant == Spec => []IInv
<1>1. Init => IInv
  BY InitHolds
<1>2. IInv /\ [Next]_vars => IInv'
  BY StepHolds
<1> QED
  BY <1>1, <1>2, PTL DEF Spec

\* Types: the state keeps its shape.
THEOREM Types == Spec => []TypeOK
<1>1. IInv => TypeOK
  BY DEF IInv
<1> QED
  BY <1>1, Invariant, PTL

\* An order that was sent is on its way, in the hands of the consumer, in its
\* own level or gone, and never in two places.
THEOREM EveryOrderHasItsPlace == Spec => []OnePlace
<1>1. IInv => OnePlace
  BY DEF IInv
<1> QED
  BY <1>1, Invariant, PTL

\* The fills of an order and what is still open add up to what was asked for.
THEOREM QuantitiesConserved == Spec => []Conservation
<1>1. IInv => Conservation
  BY DEF IInv
<1> QED
  BY <1>1, Invariant, PTL

\* The orders of one session are served in the order it placed them.
THEOREM SessionsInTurn == Spec => []SessionPriority
<1>1. IInv => SessionPriority
  BY DEF IInv
<1> QED
  BY <1>1, Invariant, PTL

\* A fill is taken by one listener, which writes what is its own.
THEOREM FillsTakenOnce == Spec => []OwnFillsOnce
<1>1. ASSUME IInv PROVE OwnFillsOnce
  <2>1. SUFFICES ASSUME NEW l \in Listeners, NEW e \in ToSet(written[l])
                 PROVE  /\ Owner(e[2][e[1]]) = l
                        /\ e[2] \in ToSet(fills) /\ e[2] \notin ToSet(fillQueue) /\ e[2] # fill
                        /\ \A k \in Listeners \ {l} : \A g \in ToSet(written[k]) : g[2] # e[2]
    BY DEF OwnFillsOnce
  <2>2. ToSet(<<>>) = {}
    BY DEF ToSet
  <2>3. producer = "done" /\ fill = Null /\ fills \in Seq(Fills) /\ Len(fills) = 1
    BY <1>1, <2>2 DEF IInv, FillFlow, TypeOK
  <2>4. /\ fillQueue = <<>>
        /\ \A k \in Listeners \ {l} : written[k] = <<>>
        /\ e[2] = fills[1] /\ Owner(e[2][e[1]]) = l
    BY <1>1, <2>2, <2>3 DEF IInv, FillFlow
  <2>5. 1 \in DOMAIN fills /\ fills[1] \in Fills
    BY <2>3
  <2>6. fills[1] \in ToSet(fills)
    BY <2>5 DEF ToSet
  <2> QED
    BY <2>2, <2>3, <2>4, <2>5, <2>6, NullAssumption
<1> QED
  BY <1>1, Invariant, PTL

-----------------------------------------------------------------------------
(* Ids, and whose orders are cancelled.                                    *)

\* Which orders have an id changes with the constructor only.
LEMMA NumberedOrders ==
  ASSUME IInv, Next, \A t \in Sessions : ~ Construct(t), NEW o \in Orders,
         id[o] # Null <=> Sent(o) \/ (o[2] = pos[Owner(o)] /\ placing[Owner(o)] = "made")
  PROVE  /\ UNCHANGED <<id, nextId>>
         /\ id'[o] # Null <=> Sent(o)' \/ (o[2] = pos'[Owner(o)] /\ placing'[Owner(o)] = "made")
<1> DEFINE u == Owner(o)
<1>1. /\ u \in Sessions /\ o[2] \in Nat /\ pos[u] \in Nat /\ Script[u][o[2]].op = "place"
      /\ pos \in [Sessions -> Nat] /\ placing \in [Sessions -> {"no", "create", "created", "made"}]
      /\ Sent(o) <=> pos[u] > o[2]
  BY OrderIs DEF IInv, TypeOK, Terms, Owner, Sent
<1>2. Sent(o)' <=> pos'[u] > o[2]
  BY DEF Sent
<1> HIDE DEF u
<1>3. ASSUME NEW t \in Sessions, FindNone(t) \/ Create(t)
      PROVE  /\ UNCHANGED <<id, nextId>>
             /\ Sent(o) \/ (o[2] = pos[u] /\ placing[u] = "made")
                  <=> pos'[u] > o[2] \/ (o[2] = pos'[u] /\ placing'[u] = "made")
  <2>1. UNCHANGED <<pos, id, nextId>> /\ (placing[u] = "made" <=> placing'[u] = "made")
    BY <1>1, <1>3 DEF FindNone, Create
  <2> QED
    BY <1>1, <2>1
<1>4. ASSUME NEW t \in Sessions, Enqueue(t)
      PROVE  /\ UNCHANGED <<id, nextId>>
             /\ Sent(o) \/ (o[2] = pos[u] /\ placing[u] = "made")
                  <=> pos'[u] > o[2] \/ (o[2] = pos'[u] /\ placing'[u] = "made")
  <2>1. /\ placing[t] = "made" /\ UNCHANGED <<id, nextId>>
        /\ pos' = [pos EXCEPT ![t] = @ + 1] /\ placing' = [placing EXCEPT ![t] = "no"]
    BY <1>4 DEF Enqueue
  <2> QED
    BY <1>1, <2>1
<1>5. ASSUME NEW t \in Sessions, Cancel(t)
      PROVE  /\ UNCHANGED <<id, nextId>>
             /\ Sent(o) \/ (o[2] = pos[u] /\ placing[u] = "made")
                  <=> pos'[u] > o[2] \/ (o[2] = pos'[u] /\ placing'[u] = "made")
  <2>1. /\ More(t, "cancel") /\ UNCHANGED <<id, nextId, placing>> /\ pos' = [pos EXCEPT ![t] = @ + 1]
    BY <1>5 DEF Cancel
  <2>2. Script[t][pos[t]].op = "cancel"
    BY <2>1 DEF More
  <2>3. u = t => o[2] # pos[t] /\ placing[t] = "no"
    BY <1>1, <2>2 DEF IInv, Stages, More
  <2> QED
    BY <1>1, <2>1, <2>3
<1>6. CASE UNCHANGED sessionVars
  BY <1>1, <1>2, <1>6 DEF sessionVars, u
<1>7. (\E t \in Sessions : FindNone(t) \/ Create(t) \/ Enqueue(t) \/ Cancel(t)) \/ UNCHANGED sessionVars
  BY DEF Next, Session, Consumer, Producer, TakeOrder, InsertOrder, BeginScan, ScanLevel, PopNothing, PopPair,
         PushFill, TakeFill, OutputMarket
<1>8. CASE \E t \in Sessions : FindNone(t) \/ Create(t)
  BY <1>2, <1>3, <1>8 DEF u
<1>9. CASE \E t \in Sessions : Enqueue(t) \/ Cancel(t)
  BY <1>2, <1>4, <1>5, <1>9 DEF u
<1> QED
  BY <1>6, <1>7, <1>8, <1>9

\* A new id is the first of its generator, or comes after all that this has
\* given; the ids of one generator differ.
LEMMA NumberedStep == ASSUME IInv, Numbered, Next PROVE Numbered'
<1>1. ASSUME NEW t \in Sessions, Construct(t) PROVE Numbered'
  <2> DEFINE n == <<t, pos[t]>>
  <2>1. TypeOK /\ Stages
    BY DEF IInv
  <2>2. n \in Orders /\ Owner(n) = t /\ n[2] = pos[t] /\ placing[t] # "made"
    BY <1>1, <2>1, ConstructDoes DEF Owner
  <2>3. PICK i \in Sessions : id' = [id EXCEPT ![n] = nextId[i]] /\ nextId' = [nextId EXCEPT ![i] = @ + 1]
    BY <1>1, <2>1, ConstructDoes
  <2>4. pos' = pos /\ placing' = [placing EXCEPT ![t] = "made"]
    BY <1>1 DEF Construct
  <2>5. \A o \in Orders : o = n <=> Owner(o) = t /\ o[2] = pos[t]
    BY <2>2, OrderIs
  <2> HIDE DEF n
  <2>6. /\ \A o \in Orders : id'[o] = IF o = n THEN nextId[i] ELSE id[o]
        /\ \A j \in Sessions : nextId'[j] = IF j = i THEN nextId[i] + 1 ELSE nextId[j]
        /\ \A j \in Sessions : nextId[j] \in Nat
        /\ \A o \in Orders : id[o] \in Nat \cup {Null}
        /\ \A u \in Sessions : placing'[u] = IF u = t THEN "made" ELSE placing[u]
    BY <2>1, <2>2, <2>3, <2>4 DEF TypeOK
  <2>7. nextId[i] # Null
    BY <2>6, NullAssumption
  <2>8. \A o \in Orders : id[o] # Null => \E j \in Sessions : id[o] < nextId[j]
    BY DEF Numbered
  <2>9. ASSUME NEW o \in Orders
        PROVE  id'[o] # Null <=> Sent(o)' \/ (o[2] = pos'[Owner(o)] /\ placing'[Owner(o)] = "made")
    <3>1. Owner(o) \in Sessions /\ (Sent(o)' <=> Sent(o))
      BY <2>4, OrderIs DEF Sent
    <3>2. id[o] # Null <=> Sent(o) \/ (o[2] = pos[Owner(o)] /\ placing[Owner(o)] = "made")
      BY DEF Numbered
    <3> QED
      BY <2>2, <2>4, <2>5, <2>6, <2>7, <3>1, <3>2
  <2>10. ASSUME NEW o \in Orders, id'[o] # Null PROVE \E j \in Sessions : id'[o] < nextId'[j]
    <3>1. CASE o = n
      BY <2>6, <3>1
    <3>2. CASE o # n
      <4>1. id[o] \in Nat /\ id'[o] = id[o]
        BY <2>6, <2>10, <3>2
      <4>2. PICK j \in Sessions : id[o] < nextId[j]
        BY <2>8, <4>1, NullAssumption
      <4>3. id[o] < nextId'[j]
        BY <2>6, <4>1, <4>2
      <4> QED
        BY <4>1, <4>3
    <3> QED
      BY <3>1, <3>2
  <2>11. ASSUME OneGenerator', NEW o \in Orders, NEW x \in Orders, id'[o] # Null, id'[o] = id'[x] PROVE o = x
    <3>1. \A j \in Sessions \ {i} : nextId[j] = 0
      BY <2>6, <2>11 DEF OneGenerator
    <3>2. OneGenerator
      BY <2>6, <3>1 DEF OneGenerator
    <3>3. \A y \in Orders : id[y] # Null => id[y] < nextId[i] /\ id[y] # nextId[i]
      <4> TAKE y \in Orders
      <4> HAVE id[y] # Null
      <4>1. id[y] \in Nat
        BY <2>6
      <4>2. PICK j \in Sessions : id[y] < nextId[j]
        BY <2>8
      <4>3. j = i
        BY <3>1, <4>1, <4>2
      <4> QED
        BY <2>6, <4>1, <4>2, <4>3
    <3>4. CASE o = n \/ x = n
      BY <2>6, <2>7, <2>11, <3>3, <3>4
    <3>5. CASE o # n /\ x # n
      BY <2>6, <2>11, <3>2, <3>5 DEF Numbered
    <3> QED
      BY <3>4, <3>5
  <2> QED
    BY <2>9, <2>10, <2>11 DEF Numbered
<1>2. CASE \A t \in Sessions : ~ Construct(t)
  <2>1. ASSUME NEW o \in Orders
        PROVE  id'[o] # Null <=> Sent(o)' \/ (o[2] = pos'[Owner(o)] /\ placing'[Owner(o)] = "made")
    BY <1>2, NumberedOrders DEF Numbered
  <2>2. CASE Orders # {}
    <3>1. UNCHANGED <<id, nextId>>
      BY <1>2, <2>2, NumberedOrders DEF Numbered
    <3> QED
      BY <2>1, <3>1 DEF Numbered, OneGenerator
  <2>3. CASE Orders = {}
    BY <2>3 DEF Numbered
  <2> QED
    BY <2>2, <2>3
<1> QED
  BY <1>1, <1>2

\* A cancellation takes the order it was asked for if ids differ.
LEMMA OwnStep == ASSUME IInv, Numbered, WithdrawnWasAsked, Next PROVE WithdrawnWasAsked'
<1>1. SUFFICES ASSUME OneGenerator', NEW y \in Orders, status'[y] = "Cancelled"
               PROVE  y \in reported'
  BY DEF WithdrawnWasAsked
<1>2. OneGenerator
  <2>1. \A j \in Sessions : nextId[j] \in Nat /\ (nextId[j] > 0 => nextId'[j] > 0)
    <3>1. CASE \E t \in Sessions : Construct(t)
      <4>1. PICK i \in Sessions : nextId' = [nextId EXCEPT ![i] = @ + 1]
        BY <3>1, ConstructDoes DEF IInv
      <4> QED
        BY <4>1 DEF IInv, TypeOK
    <3>2. CASE \A t \in Sessions : ~ Construct(t)
      <4>1. nextId' = nextId
        BY <3>2 DEF Next, Session, Consumer, Producer, FindNone, Create, Enqueue, Cancel, TakeOrder, InsertOrder,
           BeginScan, ScanLevel, PopNothing, PopPair, PushFill, TakeFill, OutputMarket, sessionVars
      <4> QED
        BY <4>1 DEF IInv, TypeOK
    <3> QED
      BY <3>1, <3>2
  <2> QED
    BY <1>1, <2>1 DEF OneGenerator
<1>3. status[y] = "Cancelled" => y \in reported
  BY <1>2 DEF WithdrawnWasAsked
<1>4. CASE \E t \in Sessions : Cancel(t)
  <2>1. PICK o, x \in Orders : /\ Sent(o) /\ reported \subseteq reported'
                               /\ UNCHANGED <<status, book>> \/ (TakenOut(x) /\ id[x] = id[o] /\ o \in reported')
    BY <1>4, CancelDoes DEF IInv
  <2>2. CASE UNCHANGED <<status, book>>
    BY <1>1, <1>3, <2>1, <2>2
  <2>3. CASE TakenOut(x) /\ id[x] = id[o] /\ o \in reported'
    <3>1. id[o] # Null
      BY <2>1 DEF Numbered
    <3>2. x = o
      BY <1>2, <2>3, <3>1 DEF Numbered
    <3>3. status'[y] = IF y = x THEN "Cancelled" ELSE status[y]
      BY <2>3 DEF TakenOut, IInv, TypeOK
    <3> QED
      BY <1>1, <1>3, <2>1, <2>3, <3>2, <3>3
  <2> QED
    BY <2>1, <2>2, <2>3
<1>5. CASE \A t \in Sessions : ~ Cancel(t)
  <2>1. reported' = reported
    BY <1>5 DEF Next, Session, Consumer, Producer, FindNone, Create, Construct, Enqueue, TakeOrder, InsertOrder,
       BeginScan, ScanLevel, PopNothing, PopPair, PushFill, TakeFill, OutputMarket
  <2>2. status'[y] = status[y]
    <3>1. CASE UNCHANGED <<status, open>>
      BY <3>1
    <3>2. CASE InsertOrder
      <4>1. status' = [status EXCEPT ![hand] = "Active"] \/ status' = [status EXCEPT ![hand] = "Rejected"]
        BY <3>2 DEF InsertOrder, Insert
      <4> QED
        BY <1>1, <4>1 DEF IInv, TypeOK
    <3>3. CASE PopPair
      <4>1. PICK p \in Levels, b \in Orders, a \in Orders, n \in Nat : Trade(p, b, a, n)
        BY <3>3, PopDoes DEF IInv
      <4> QED
        BY <1>1, <4>1 DEF Trade, IInv, TypeOK
    <3> QED
      BY <1>5, <3>1, <3>2, <3>3, StatusActions
  <2> QED
    BY <1>1, <1>3, <2>1, <2>2
<1> QED
  BY <1>4, <1>5

\* As long as one generator gives the ids, an order leaves the book as cancelled
\* only if its own session has asked for that.
THEOREM CancellationsAreOwn == Spec => []WithdrawnWasAsked
<1>1. Init => Numbered /\ WithdrawnWasAsked
  <2> SUFFICES ASSUME Init PROVE Numbered /\ WithdrawnWasAsked
    OBVIOUS
  <2>1. \A o \in Orders : ~ Sent(o) /\ id[o] = Null /\ status[o] = "Inactive" /\ placing[Owner(o)] = "no"
    BY OrderIs DEF Init, Sent
  <2> QED
    BY <2>1 DEF Numbered, WithdrawnWasAsked
<1>2. IInv /\ Numbered /\ WithdrawnWasAsked /\ [Next]_vars => Numbered' /\ WithdrawnWasAsked'
  <2>1. IInv /\ Numbered /\ WithdrawnWasAsked /\ Next => Numbered' /\ WithdrawnWasAsked'
    BY NumberedStep, OwnStep
  <2>2. Numbered /\ WithdrawnWasAsked /\ UNCHANGED vars => Numbered' /\ WithdrawnWasAsked'
    BY DEF Numbered, WithdrawnWasAsked, OneGenerator, Sent, vars, sessionVars, orderVars
  <2> QED
    BY <2>1, <2>2
<1> QED
  BY <1>1, <1>2, Invariant, PTL DEF Spec

-----------------------------------------------------------------------------
(* What the counters of the levels tell the scans.                         *)

\* The orders that rest on one side.
LEMMA RestingIs ==
  ASSUME TypeOK, OnePlace, NEW s \in Sides
  PROVE  /\ Resting(s) = {o \in Orders : InBook(o) /\ Terms(o).side = s}
         /\ \A p \in Levels : ToSet(book[p][s]) = {o \in Resting(s) : Terms(o).price = p}
         /\ \A o \in Resting(s) : Terms(o).price \in Levels
<1>1. \A p \in Levels : ToSet(book[p][s]) \subseteq Orders
  BY QueueIs DEF TypeOK
<1>2. \A p \in Levels : \A o \in Orders :
        o \in ToSet(book[p][s]) <=> InBook(o) /\ Terms(o).price = p /\ Terms(o).side = s
  BY DEF OnePlace
<1>3. \A o \in Orders : InBook(o) => Terms(o).price \in Levels
  BY DEF OnePlace
<1> QED
  BY <1>1, <1>2, <1>3 DEF Resting

\* A counter is zero when nothing rests there, and only then.
LEMMA SizeIs ==
  ASSUME IInv, Positive, NEW p \in Levels, NEW s \in Sides
  PROVE  Size(p, s) # 0 <=> book[p][s] # <<>>
<1> DEFINE S == ToSet(book[p][s])
<1>1. IsFiniteSet(S) /\ S \subseteq Orders /\ (book[p][s] = <<>> <=> S = {})
  <2>1. book[p][s] \in Seq(Orders)
    BY DEF IInv, TypeOK
  <2> QED
    BY <2>1, QueueIs
<1>2. \A x \in S : open[x] \in Nat /\ open[x] > 0
  <2> TAKE x \in S
  <2>1. x \in Orders /\ open[x] \in Nat /\ Terms(x).qty > 0
    BY <1>1 DEF IInv, TypeOK, Positive
  <2>2. status[x] \in {"Active", "PartialFill"}
    BY <2>1 DEF IInv, OnePlace, InBook
  <2> QED
    BY <2>1, <2>2 DEF IInv, Statuses
<1> HIDE DEF S
<1>3. CASE S = {}
  BY <1>1, <1>3, SumNothing DEF Size, S
<1>4. CASE S # {}
  <2>1. PICK x \in S : TRUE
    BY <1>4
  <2>2. SumFunctionOnSet(open, S) \in Nat /\ open[x] <= SumFunctionOnSet(open, S)
    BY <1>1, <1>2, SumNat
  <2>3. open[x] \in Nat /\ open[x] > 0
    BY <1>2
  <2>4. SumFunctionOnSet(open, S) # 0
    BY <2>2, <2>3
  <2> QED
    BY <1>1, <1>4, <2>4 DEF Size, S
<1> QED
  BY <1>3, <1>4

\* No bid of the snapshot comes back to the book once it has left it, so the
\* levels that the scan has passed stay without one.
LEMMA ScanStep == ASSUME IInv, Positive, ScanInv, Next PROVE ScanInv'
<1> USE DEF IInv
<1>1. TypeOK' /\ OnePlace' /\ "buy" \in Sides
  BY TypeStep, PlaceStep DEF Sides
<1>2. \A o \in Orders : o \in Resting("buy")' => InBook(o)' /\ Terms(o).side = "buy"
  BY <1>1 DEF Resting, OnePlace
<1>3. Resting("buy") = {o \in Orders : InBook(o) /\ Terms(o).side = "buy"}
  BY <1>1, RestingIs
<1>4. \A o \in snapshot : o \in Resting("buy")' => o \in Resting("buy")
  <2> TAKE o \in snapshot
  <2>1. o \in Orders /\ status[o] # "Inactive"
    BY DEF TypeOK, Stages
  <2>2. InBook(o)' => InBook(o)
    BY <2>1, StatusSteps DEF InBook
  <2> QED
    BY <1>2, <1>3, <2>1, <2>2
<1>5. CASE BeginScan
  BY <1>5 DEF BeginScan, ScanInv
<1>6. CASE ScanLevel
  <2>1. cursor \in Levels
    BY <1>6, CursorIs DEF ScanLevel, TypeOK, Stages
  <2>2. passed' = passed \/ (passed' = passed \cup {cursor} /\ Size(cursor, "buy") = 0)
    BY <1>6 DEF ScanLevel
  <2>3. Size(cursor, "buy") = 0 => \A o \in Resting("buy") : Terms(o).price # cursor
    <3>1. Size(cursor, "buy") = 0 => book[cursor]["buy"] = <<>>
      BY <1>1, <2>1, SizeIs
    <3>2. book[cursor]["buy"] = <<>> => ToSet(book[cursor]["buy"]) = {}
      BY DEF ToSet
    <3>3. ToSet(book[cursor]["buy"]) = {o \in Resting("buy") : Terms(o).price = cursor}
      BY <1>1, <2>1, RestingIs
    <3> QED
      BY <3>1, <3>2, <3>3
  <2>4. producer = "scan" /\ snapshot' = snapshot
    BY <1>6 DEF ScanLevel
  <2>5. \A o \in snapshot \cap Resting("buy") : Terms(o).price \notin passed
    BY <2>4 DEF ScanInv
  <2> QED
    BY <1>4, <2>2, <2>3, <2>4, <2>5 DEF ScanInv
<1>7. CASE UNCHANGED <<producer, passed, snapshot>>
  BY <1>4, <1>7 DEF ScanInv
<1>8. CASE producer' \notin {"scan", "pop"}
  BY <1>8 DEF ScanInv
<1> QED
  BY <1>5, <1>6, <1>7, <1>8 DEF Next, Session, Consumer, Producer, FindNone, Create, Construct, Enqueue,
     Cancel, TakeOrder, InsertOrder, PopNothing, PopPair, PushFill, TakeFill, OutputMarket, producerVars

\* The scan passes over no bid that rests at a higher price all the time.
THEOREM BestBidNotOverlooked ==
  ASSUME Positive
  PROVE  Spec => []NoneOverlooked
<1>1. Init => ScanInv
  BY DEF Init, ScanInv
<1>2. IInv /\ ScanInv /\ [Next]_vars => ScanInv'
  <2>1. IInv /\ ScanInv /\ Next => ScanInv'
    BY ScanStep
  <2>2. ScanInv /\ UNCHANGED vars => ScanInv'
    BY DEF ScanInv, Resting, vars, producerVars, orderVars
  <2> QED
    BY <2>1, <2>2
<1>3. IInv /\ ScanInv => NoneOverlooked
  <2> SUFFICES ASSUME IInv, ScanInv, producer = "pop", NEW o \in snapshot \cap Resting("buy")
               PROVE  Terms(o).price <= cursor
    BY DEF NoneOverlooked
  <2>1. Terms(o).price \in Levels \ passed
    BY RestingIs DEF ScanInv, IInv, Sides
  <2>2. cursor \in Levels /\ cursor >= Terms(o).price
    BY <2>1, CursorIs DEF IInv, TypeOK
  <2>3. cursor \in Int /\ Terms(o).price \in Int
    BY <2>1, <2>2, ExchangeAssumption
  <2> QED
    BY <2>2, <2>3
<1> QED
  BY <1>1, <1>2, <1>3, Invariant, PTL DEF Spec

\* The prices that have something to trade, as the counters say and as the
\* orders do.
LEMMA PricesAre ==
  ASSUME IInv, Positive, NEW s \in Sides
  PROVE  /\ NonEmpty(s) = {Terms(o).price : o \in Resting(s)}
         /\ NonEmpty(s) \subseteq Levels /\ IsFiniteSet(NonEmpty(s)) /\ \A p \in NonEmpty(s) : p \in Int
<1>1. \A p \in Levels : Size(p, s) # 0 <=> ToSet(book[p][s]) # {}
  <2>1. \A p \in Levels : book[p][s] \in Seq(Orders)
    BY DEF IInv, TypeOK
  <2>2. \A p \in Levels : book[p][s] = <<>> <=> ToSet(book[p][s]) = {}
    BY <2>1, QueueIs
  <2> QED
    BY <2>2, SizeIs
<1>2. /\ \A p \in Levels : ToSet(book[p][s]) = {o \in Resting(s) : Terms(o).price = p}
      /\ \A o \in Resting(s) : Terms(o).price \in Levels
  BY RestingIs DEF IInv
<1>3. NonEmpty(s) = {Terms(o).price : o \in Resting(s)}
  BY <1>1, <1>2 DEF NonEmpty
<1>4. NonEmpty(s) \subseteq Levels
  BY DEF NonEmpty
<1>5. IsFiniteSet(NonEmpty(s))
  BY <1>4, FS_Subset, ExchangeAssumption
<1>6. \A p \in NonEmpty(s) : p \in Int
  BY <1>4, ExchangeAssumption
<1> QED
  BY <1>3, <1>4, <1>5, <1>6

\* The market is published once, from a book that no thread changes any more.
LEMMA MarketStep == ASSUME IInv, Positive, Next PROVE MarketIsBook'
<1> USE DEF Sides
<1>1. market = Null
  BY Over
<1>2. CASE market' = Null
  BY <1>2 DEF MarketIsBook
<1>3. ASSUME market' # Null PROVE MarketIsBook'
  <2>1. OutputMarket
    BY <1>1, <1>3 DEF Next, Session, Consumer, Producer, FindNone, Create, Construct, Enqueue, Cancel,
       TakeOrder, InsertOrder, BeginScan, ScanLevel, PopNothing, PopPair, PushFill, TakeFill
  <2> DEFINE bid == Max(NonEmpty("buy"))
             offer == Min(NonEmpty("sell"))
  <2>2. /\ NonEmpty("buy") # {} /\ NonEmpty("sell") # {}
        /\ market' = [bid |-> bid, bidSize |-> Size(bid, "buy"), offer |-> offer, offerSize |-> Size(offer, "sell")]
    BY <1>1, <1>3, <2>1 DEF OutputMarket
  <2>3. UNCHANGED <<open, book>>
    BY <2>1 DEF OutputMarket, orderVars
  <2>4. bid \in Levels /\ offer \in Levels
    BY <2>2, PricesAre, Largest, Smallest
  <2>5. \A s \in Sides : Resting(s)' = Resting(s)
    BY <2>3 DEF Resting
  <2>6. Size(bid, "buy") = SumFunctionOnSet(open, {o \in Resting("buy") : Terms(o).price = bid})
    BY <2>4, RestingIs DEF Size, IInv
  <2>7. Size(offer, "sell") = SumFunctionOnSet(open, {o \in Resting("sell") : Terms(o).price = offer})
    BY <2>4, RestingIs DEF Size, IInv
  <2>8. bid = Max({Terms(o).price : o \in Resting("buy")}) /\ offer = Min({Terms(o).price : o \in Resting("sell")})
    BY PricesAre
  <2> HIDE DEF bid, offer
  <2>9. /\ market'.bid = bid /\ market'.offer = offer
        /\ market'.bidSize = Size(bid, "buy") /\ market'.offerSize = Size(offer, "sell")
    BY <2>2
  <2> QED
    BY <2>3, <2>5, <2>6, <2>7, <2>8, <2>9 DEF MarketIsBook
<1> QED
  BY <1>2, <1>3

\* The published market is what rests in the book, and stays so.
THEOREM PublishedMarketIsBook ==
  ASSUME Positive
  PROVE  Spec => []MarketIsBook
<1>1. Init => MarketIsBook
  BY DEF Init, MarketIsBook
<1>2. IInv /\ MarketIsBook /\ [Next]_vars => MarketIsBook'
  <2>1. IInv /\ Next => MarketIsBook'
    BY MarketStep
  <2>2. MarketIsBook /\ UNCHANGED vars => MarketIsBook'
    BY DEF MarketIsBook, Resting, vars, orderVars
  <2> QED
    BY <2>1, <2>2
<1> QED
  BY <1>1, <1>2, Invariant, PTL DEF Spec

-----------------------------------------------------------------------------
(* The refinement of BookScan.                                             *)

\* The levels with orders on side s, and the result of the scan.
Occupied == [s \in Sides |-> {p \in Levels : book[p][s] # <<>>}]
Looking == IF producer = "scan" THEN "buy" ELSE Null
Found == IF producer \in {"pop", "push", "done"} THEN cursor ELSE Null

LEMMA ScanStart == ASSUME Init PROVE BestBid!Init
<1>1. Occupied = [s \in Sides |-> {}]
  BY DEF Init, Occupied
<1> QED
  BY <1>1 DEF Init, BestBid!Init, BestBid!Sides, Sides, Occupied

\* Orders come and go while the scan stands still.
LEMMA BookChanges ==
  ASSUME UNCHANGED <<Looking, passed, Found>>
  PROVE  BestBid!Change
<1>1. Occupied' \in [Sides -> SUBSET Levels]
  BY DEF Occupied
<1> QED
  BY <1>1 DEF BestBid!Change, BestBid!Sides, Sides, Looking, Found, Occupied

\* Every step is a step of the scan by price, a change of the book, or neither.
LEMMA ScanByPriceStep ==
  ASSUME IInv, Positive, [Next]_vars
  PROVE  [BestBid!Next]_BestBid!vars
<1> SUFFICES BestBid!Next \/ UNCHANGED <<Occupied, Looking, passed, Found>>
  BY DEF BestBid!vars, Occupied, Looking, Found
<1>1. CASE UNCHANGED <<producer, passed>>
  <2>1. UNCHANGED <<Looking, passed, Found>>
    BY <1>1 DEF Looking, Found, cursor
  <2> QED
    BY <2>1, BookChanges DEF BestBid!Next
<1>2. CASE BeginScan
  <2>1. /\ producer = "idle" /\ producer' = "scan" /\ passed' = {} /\ UNCHANGED book
    BY <1>2 DEF BeginScan, orderVars
  <2>2. Looking = Null /\ Looking' = "buy" /\ Found' = Null /\ Occupied' = Occupied
    BY <2>1 DEF Looking, Found, Occupied
  <2> QED
    BY <2>1, <2>2 DEF BestBid!Next, BestBid!Begin, BestBid!Sides, Looking, Found, Occupied
<1>3. CASE ScanLevel
  <2>1. /\ producer = "scan" /\ UNCHANGED book
        /\ passed \subseteq Levels /\ passed # Levels
    BY <1>3 DEF ScanLevel, orderVars, IInv, TypeOK, Stages
  <2>2. cursor \in Levels \ passed /\ \A p \in Levels \ passed : cursor >= p
    BY <2>1, CursorIs
  <2>3. Looking = "buy" /\ Looking # Null /\ Found = Null /\ Occupied' = Occupied
    BY <2>1, NullAssumption DEF Looking, Found, Occupied, Sides
  <2>4. BestBid!IsNext(cursor)
    BY <2>2, <2>3 DEF BestBid!IsNext, BestBid!AsGood, Looking
  <2>5. cursor \in Occupied["buy"] <=> Size(cursor, "buy") # 0
    BY <2>2, SizeIs DEF Occupied, Sides
  <2>6. CASE Size(cursor, "buy") # 0
    <3>1. producer' = "pop" /\ passed' = passed
      BY <1>3, <2>6 DEF ScanLevel
    <3>2. Looking' = Null /\ Found' = cursor
      BY <3>1 DEF Looking, Found, cursor
    <3>3. BestBid!Take(cursor)
      BY <2>3, <2>4, <2>5, <2>6, <3>1, <3>2 DEF BestBid!Take, Looking, Found, Occupied
    <3> QED
      BY <2>2, <3>3 DEF BestBid!Next
  <2>7. CASE Size(cursor, "buy") = 0 /\ passed' # passed
    <3>1. passed' = passed \cup {cursor} /\ producer' = IF passed' = Levels THEN "idle" ELSE "scan"
      BY <1>3, <2>1, <2>7 DEF ScanLevel
    <3>2. Looking' = (IF passed' = Levels THEN Null ELSE Looking) /\ Found' = Found
      BY <2>3, <3>1 DEF Looking, Found
    <3>3. BestBid!Pass(cursor)
      BY <2>3, <2>4, <2>5, <2>7, <3>1, <3>2 DEF BestBid!Pass, Looking, Found, Occupied
    <3> QED
      BY <2>2, <3>3 DEF BestBid!Next
  <2>8. CASE Size(cursor, "buy") = 0 /\ passed' = passed
    <3>1. passed' = passed /\ producer' = producer
      BY <1>3, <2>2, <2>8 DEF ScanLevel
    <3> QED
      BY <1>1, <3>1
  <2> QED
    BY <2>6, <2>7, <2>8
<1>4. CASE PopNothing
  <2>1. producer = "pop" /\ producer' = "idle" /\ UNCHANGED <<passed, book>>
    BY <1>4 DEF PopNothing, orderVars
  <2>2. Looking = Null /\ Looking' = Null /\ Found' = Null /\ Occupied' = Occupied
    BY <2>1 DEF Looking, Found, Occupied
  <2> QED
    BY <2>1, <2>2 DEF BestBid!Next, BestBid!Drop, Looking, Found, Occupied
<1>5. CASE PopPair \/ PushFill
  <2>1. producer \in {"pop", "push"} /\ producer' \in {"push", "done"} /\ UNCHANGED passed
    BY <1>5 DEF PopPair, PushFill
  <2>2. UNCHANGED <<Looking, passed, Found>>
    BY <2>1 DEF Looking, Found, cursor
  <2> QED
    BY <2>2, BookChanges DEF BestBid!Next
<1> QED
  BY <1>1, <1>2, <1>3, <1>4, <1>5 DEF Next, Session, Consumer, Producer, FindNone, Create, Construct,
     Enqueue, Cancel, TakeOrder, InsertOrder, TakeFill, OutputMarket, vars, producerVars

\* The producer scans by price, as BookScan promises, whatever the sessions and
\* the consumer do to the book meanwhile.
THEOREM ScanIsByPrice ==
  ASSUME Positive
  PROVE  Spec => ScansByPrice
<1>1. Init => BestBid!Init
  BY ScanStart
<1>2. IInv /\ [Next]_vars => [BestBid!Next]_BestBid!vars
  BY ScanByPriceStep
<1> QED
  BY <1>1, <1>2, Invariant, PTL DEF Spec, ScansByPrice, BestBid!Spec

-----------------------------------------------------------------------------
(* Every level is the pair of queues that LevelFifo promises.              *)

\* What waits at a level, and in which order.
LEMMA WaitingIs ==
  ASSUME TypeOK, OnePlace, NEW p \in Levels, NEW s \in Sides
  PROVE  /\ book[p][s] \in Seq(Orders) /\ IsInjective(book[p][s])
         /\ Waiting(p)[s] = ToSet(book[p][s])
         /\ Waiting(p)[s] \subseteq AtLevel(p)
         /\ \A o \in Waiting(p)[s] : InBook(o) /\ Terms(o).side = s
         /\ \A w \in Precedes(book[p][s]) : w = <<w[1], w[2]>> /\ w[1] \in Waiting(p)[s] /\ w[2] \in Waiting(p)[s]
<1>1. book[p][s] \in Seq(Orders) /\ IsInjective(book[p][s])
  BY DEF TypeOK, OnePlace
<1>2. Waiting(p)[s] = ToSet(book[p][s])
  BY DEF Waiting
<1>3. ToSet(book[p][s]) \subseteq Orders
  BY <1>1, QueueIs
<1>4. \A o \in ToSet(book[p][s]) : InBook(o) /\ Terms(o).side = s /\ Terms(o).price = p
  BY <1>3 DEF OnePlace
<1> QED
  BY <1>1, <1>2, <1>3, <1>4, PrecedesAre DEF AtLevel

\* An order of a queue that nobody precedes is the oldest of its side.
LEMMA OldestIs ==
  ASSUME TypeOK, OnePlace, NEW p \in Levels, NEW s \in Sides,
         NEW S \in SUBSET Waiting(p)[s], NEW o \in S,
         \A x \in S : <<x, o>> \notin Precedes(book[p][s])
  PROVE  Level(p)!Oldest(o, S)
<1>1. ASSUME NEW x \in S, <<x, o>> \in Earlier(p) PROVE FALSE
  <2>1. PICK r \in Sides : <<x, o>> \in Precedes(book[p][r])
    BY <1>1 DEF Earlier
  <2>2. o \in Waiting(p)[r] /\ o \in Waiting(p)[s]
    <3>1. <<x, o>>[2] \in Waiting(p)[r]
      BY <2>1, WaitingIs
    <3> QED
      BY <3>1
  <2>3. r = s
    <3>1. Terms(o).side = r
      BY <2>2, WaitingIs
    <3>2. Terms(o).side = s
      BY <2>2, WaitingIs
    <3> QED
      BY <3>1, <3>2
  <2> QED
    BY <2>1, <2>3
<1> QED
  BY <1>1 DEF Level!Oldest

\* Orders that leave the queues of a level leave the level.
LEMMA LeaveIs ==
  ASSUME TypeOK, OnePlace, NEW p \in Levels, NEW gone,
         \A s \in Sides : /\ ToSet(book'[p][s]) = ToSet(book[p][s]) \ gone
                          /\ Precedes(book'[p][s]) = {w \in Precedes(book[p][s]) : w[1] \notin gone /\ w[2] \notin gone},
         Come(p)' = Come(p)
  PROVE  Level(p)!Leave(gone)
<1>1. Waiting(p)' = [s \in Sides |-> Waiting(p)[s] \ gone]
  BY DEF Waiting
<1>2. Earlier(p)' = {w \in Earlier(p) : w[1] \notin gone /\ w[2] \notin gone}
  <2>1. \A w : w \in Earlier(p)' <=> \E s \in Sides : w \in Precedes(book'[p][s])
    BY DEF Earlier
  <2>2. \A w : w \in Earlier(p) <=> \E s \in Sides : w \in Precedes(book[p][s])
    BY DEF Earlier
  <2> QED
    BY <2>1, <2>2
<1> QED
  BY <1>1, <1>2 DEF Level!Leave, Level!Sides, Sides

\* Nothing of a level is seen to change when its queues do not, and its orders
\* have come and want what they did.
LEMMA LevelRests ==
  ASSUME NEW p \in Levels, book'[p] = book[p], Come(p)' = Come(p), Wanted(p)' = Wanted(p)
  PROVE  UNCHANGED Level(p)!vars
<1>1. Waiting(p)' = Waiting(p) /\ Earlier(p)' = Earlier(p)
  BY DEF Waiting, Earlier
<1> QED
  BY <1>1 DEF Level!vars

\* The order in the hand of the consumer arrives at its level.
LEMMA InsertArrives ==
  ASSUME IInv, InsertOrder, NEW p \in Levels, Terms(hand).price = p
  PROVE  Level(p)!Arrive(hand)
<1> USE DEF IInv
<1>1. /\ hand \in Orders /\ status[hand] = "Inactive" /\ hand \in AtLevel(p)
  BY NullAssumption DEF InsertOrder, TypeOK, OnePlace, AtLevel
<1> DEFINE s == Terms(hand).side
<1>2. s \in Sides
  BY <1>1, OrderIs
<1>3. /\ book' = [book EXCEPT ![p][s] = Append(@, hand)]
      /\ status' = [status EXCEPT ![hand] = "Active"]
      /\ UNCHANGED open
  BY DEF InsertOrder, Insert
<1>4. \A r \in Sides : book[p][r] \in Seq(Orders)
  BY DEF TypeOK
<1> HIDE DEF s
<1>5. \A r \in Sides : book'[p][r] = IF r = s THEN Append(book[p][r], hand) ELSE book[p][r]
  BY <1>2, <1>3 DEF TypeOK
<1>6. /\ ToSet(book'[p][s]) = ToSet(book[p][s]) \cup {hand}
      /\ Precedes(book'[p][s]) = Precedes(book[p][s]) \cup (ToSet(book[p][s]) \X {hand})
  BY <1>1, <1>2, <1>4, <1>5, Joined, PrecedesJoined
<1>7. Waiting(p)' = [Waiting(p) EXCEPT ![s] = @ \cup {hand}]
  <2>1. \A r \in Sides : ToSet(book'[p][r]) = IF r = s THEN ToSet(book[p][r]) \cup {hand} ELSE ToSet(book[p][r])
    BY <1>5, <1>6
  <2> QED
    BY <2>1 DEF Waiting
<1>8. Earlier(p)' = Earlier(p) \cup (Waiting(p)[s] \X {hand})
  <2>1. Waiting(p)[s] = ToSet(book[p][s])
    BY <1>2 DEF Waiting
  <2>2. \A r \in Sides \ {s} : Precedes(book'[p][r]) = Precedes(book[p][r])
    BY <1>5
  <2>3. \A w : w \in Earlier(p)' <=> \E r \in Sides : w \in Precedes(book'[p][r])
    BY DEF Earlier
  <2>4. \A w : w \in Earlier(p) <=> \E r \in Sides : w \in Precedes(book[p][r])
    BY DEF Earlier
  <2> QED
    BY <1>2, <1>6, <2>1, <2>2, <2>3, <2>4
<1>9. Come(p)' = Come(p) \cup {hand} /\ hand \notin Come(p)
  <2>1. \A o \in Orders : status'[o] = IF o = hand THEN "Active" ELSE status[o]
    BY <1>1, <1>3 DEF TypeOK
  <2>2. AtLevel(p) \subseteq Orders
    BY DEF AtLevel
  <2> QED
    BY <1>1, <2>1, <2>2 DEF Come
<1>10. Level(p)!SideOf(hand) = s
  BY <1>1, <1>2 DEF Level!SideOf, Sides, s
<1>11. Wanted(p)' = Wanted(p)
  BY <1>3 DEF Wanted
<1> QED
  BY <1>7, <1>8, <1>9, <1>10, <1>11 DEF Level!Arrive

\* A cancellation that finds its order withdraws it.
LEMMA CancelWithdraws ==
  ASSUME IInv, NEW o \in Orders, TakenOut(o), UNCHANGED open,
         NEW p \in Levels, NEW s \in Sides, p = Terms(o).price, s = Terms(o).side
  PROVE  Level(p)!Withdraw(s, o)
<1> USE DEF IInv
<1>0. /\ InBook(o) /\ o \in ToSet(book[p][s])
      /\ status' = [status EXCEPT ![o] = "Cancelled"]
      /\ book' = [book EXCEPT ![p][s] = Erase(@, o)]
  BY DEF TakenOut
<1>1. /\ Waiting(p)[s] = ToSet(book[p][s]) /\ o \in AtLevel(p)
      /\ book[p][s] \in Seq(Orders) /\ IsInjective(book[p][s])
  BY <1>0, WaitingIs DEF AtLevel
<1>2. Level(p)!Oldest(o, Level(p)!Carrying(o, Waiting(p)[s]))
  <2> DEFINE S == Level(p)!Carrying(o, Waiting(p)[s])
  <2>1. S = {o}
    <3>1. Waiting(p)[s] \subseteq AtLevel(p)
      BY WaitingIs
    <3> QED
      BY <1>0, <1>1, <3>1 DEF Level!Carrying
  <2>2. <<o, o>> \notin Precedes(book[p][s])
    <3>1. SUFFICES ASSUME <<o, o>> \in Precedes(book[p][s]) PROVE FALSE
      OBVIOUS
    <3>2. PICK i, j \in DOMAIN book[p][s] : i < j /\ book[p][s][i] = o /\ book[p][s][j] = o
      BY <1>1, <3>1, PrecedesAre
    <3>3. i = j
      BY <1>1, <3>2 DEF IsInjective
    <3>4. DOMAIN book[p][s] \subseteq Int
      BY <1>1
    <3> QED
      BY <3>2, <3>3, <3>4
  <2> HIDE DEF S
  <2>3. Level(p)!Oldest(o, S)
    BY <1>0, <1>1, <2>1, <2>2, OldestIs
  <2> QED
    BY <2>3 DEF S
<1>3. \A r \in Sides : r # s => o \notin ToSet(book[p][r])
  BY <1>0 DEF OnePlace
<1>4. \A r \in Sides : book'[p][r] = IF r = s THEN Erase(book[p][r], o) ELSE book[p][r]
  BY <1>0 DEF TypeOK
<1>5. \A r \in Sides : /\ ToSet(book'[p][r]) = ToSet(book[p][r]) \ {o}
                       /\ Precedes(book'[p][r]) = {w \in Precedes(book[p][r]) : w[1] \notin {o} /\ w[2] \notin {o}}
  <2> TAKE r \in Sides
  <2>1. CASE r = s
    BY <1>0, <1>1, <1>4, <2>1, Erased
  <2>2. CASE r # s
    <3>1. \A w \in Precedes(book[p][r]) : w[1] # o /\ w[2] # o
      BY <1>3, <2>2, WaitingIs
    <3> QED
      BY <1>3, <1>4, <2>2, <3>1
  <2> QED
    BY <2>1, <2>2
<1>6. Come(p)' = Come(p)
  <2>1. \A x \in Orders : status'[x] # "Inactive" <=> status[x] # "Inactive"
    BY <1>0 DEF TypeOK, InBook
  <2> QED
    BY <2>1 DEF Come, AtLevel
<1>7. Level(p)!Leave({o})
  BY <1>5, <1>6, LeaveIs
<1>8. Wanted(p)' = Wanted(p)
  BY DEF Wanted
<1>9. [x \in AtLevel(p) |-> x][o] = o
  BY <1>1
<1> QED
  BY <1>2, <1>7, <1>8, <1>9 DEF Level!Withdraw

\* The producer's pop is a trade of its level.
LEMMA PopTrades ==
  ASSUME IInv, NEW p \in Levels, NEW b \in Orders, NEW a \in Orders, NEW n \in Nat, Trade(p, b, a, n)
  PROVE  /\ b \in Waiting(p)["buy"] /\ a \in Waiting(p)["sell"]
         /\ Level(p)!Trade(b, a)
<1> USE DEF IInv
<1>0. "buy" \in Sides /\ "sell" \in Sides
  BY DEF Sides
<1>1. /\ \A s \in Sides : /\ book[p][s] \in Seq(Orders) /\ IsInjective(book[p][s])
                          /\ Waiting(p)[s] = ToSet(book[p][s])
      /\ b \in AtLevel(p) /\ a \in AtLevel(p) /\ a # b
  BY WaitingIs DEF AtLevel, Trade
<1>2. /\ b \in Waiting(p)["buy"] /\ Level(p)!Oldest(b, Waiting(p)["buy"])
  <2>1. b \in ToSet(book[p]["buy"]) /\ \A x : <<x, b>> \notin Precedes(book[p]["buy"])
    BY <1>0, <1>1, Popped DEF Trade
  <2> QED
    BY <1>0, <1>1, <2>1, OldestIs
<1>3. /\ a \in Waiting(p)["sell"] /\ Level(p)!Oldest(a, Waiting(p)["sell"])
  <2>1. a \in ToSet(book[p]["sell"]) /\ \A x : <<x, a>> \notin Precedes(book[p]["sell"])
    BY <1>0, <1>1, Popped DEF Trade
  <2> QED
    BY <1>0, <1>1, <2>1, OldestIs
<1>4. /\ n <= open[b] /\ n <= open[a] /\ (n = open[b] \/ n = open[a])
      /\ open' = [open EXCEPT ![b] = @ - n, ![a] = @ - n]
      /\ open \in [Orders -> Nat]
  BY DEF Trade, TypeOK
<1>5. n = Level(p)!Smaller(Wanted(p)[b], Wanted(p)[a])
  <2>1. Wanted(p)[b] = open[b] /\ Wanted(p)[a] = open[a] /\ open[b] \in Nat /\ open[a] \in Nat
    BY <1>1, <1>4 DEF Wanted
  <2> QED
    BY <1>4, <2>1 DEF Level!Smaller
<1>6. Wanted(p)' = [o \in AtLevel(p) |-> IF o \in {b, a} THEN Wanted(p)[o] - n ELSE Wanted(p)[o]]
  <2>1. AtLevel(p) \subseteq Orders
    BY DEF AtLevel
  <2>2. \A o \in AtLevel(p) : open'[o] = IF o \in {b, a} THEN open[o] - n ELSE open[o]
    BY <1>1, <1>4, <2>1
  <2>3. \A o \in AtLevel(p) : Wanted(p)[o] = open[o]
    BY DEF Wanted
  <2>4. Wanted(p)' = [o \in AtLevel(p) |-> open'[o]]
    BY DEF Wanted
  <2> QED
    BY <2>2, <2>3, <2>4
<1>7. Level(p)!Leave({o \in {b, a} : Wanted(p)[o] = n})
  <2> DEFINE gone == {o \in {b, a} : Wanted(p)[o] = n}
  <2>1. \A x : x \in gone <=> x \in {b, a} /\ open[x] = n
    BY <1>1 DEF Wanted
  <2> HIDE DEF gone
  <2>2. \A s \in Sides : /\ ToSet(book'[p][s]) = ToSet(book[p][s]) \ gone
                         /\ Precedes(book'[p][s]) = {w \in Precedes(book[p][s]) : w[1] \notin gone /\ w[2] \notin gone}
    <3> TAKE s \in Sides
    <3> DEFINE h == Head(book[p][s])
    <3>1. ToSet(book'[p][s]) = ToSet(book[p][s]) \ gone
      BY <2>1, TradeLeaves
    <3>2. book'[p][s] = IF open[h] = n THEN Tail(book[p][s]) ELSE book[p][s]
      BY DEF Trade, TypeOK
    <3>3. h \in {b, a} /\ book[p][s] # <<>>
      BY DEF Sides, Trade
    <3>4. h \in Waiting(p)[s]
      BY <1>1, <3>3, Popped
    <3>5. \A x \in {b, a} : x \in Waiting(p)[s] => x = h
      <4>1. \A x \in Waiting(p)[s] : Terms(x).side = s
        BY WaitingIs
      <4>2. s = "buy" => h = b
        BY DEF Trade
      <4>3. s = "sell" => h = a
        BY DEF Trade
      <4> QED
        BY <4>1, <4>2, <4>3 DEF Sides, Trade
    <3> HIDE DEF h
    <3>6. \A w \in Precedes(book[p][s]) : w[1] \in Waiting(p)[s] /\ w[2] \in Waiting(p)[s]
      BY WaitingIs
    <3>7. CASE open[h] = n
      <4>1. Precedes(Tail(book[p][s])) = {w \in Precedes(book[p][s]) : w[1] # h /\ w[2] # h}
        BY <1>1, <3>3, Popped DEF h
      <4>2. \A w \in Precedes(book[p][s]) : (w[1] # h <=> w[1] \notin gone) /\ (w[2] # h <=> w[2] \notin gone)
        BY <2>1, <3>3, <3>5, <3>6, <3>7
      <4> QED
        BY <3>1, <3>2, <3>7, <4>1, <4>2
    <3>8. CASE open[h] # n
      <4>1. \A w \in Precedes(book[p][s]) : w[1] \notin gone /\ w[2] \notin gone
        BY <2>1, <3>5, <3>6, <3>8
      <4> QED
        BY <3>1, <3>2, <3>8, <4>1
    <3> QED
      BY <3>7, <3>8
  <2>3. Come(p)' = Come(p)
    <3>1. \A x \in Orders : status'[x] # "Inactive" <=> status[x] # "Inactive"
      BY DEF Trade, TypeOK, InBook
    <3> QED
      BY <3>1 DEF Come, AtLevel
  <2>4. Level(p)!Leave(gone)
    BY <2>2, <2>3, LeaveIs
  <2> QED
    BY <2>4 DEF gone
<1> QED
  BY <1>2, <1>3, <1>5, <1>6, <1>7 DEF Level!Trade

\* Every step of the exchange is a step of one level, or shows at none.
LEMMA LevelStep ==
  ASSUME IInv, [Next]_vars, NEW p \in Levels
  PROVE  [Level(p)!Next]_(Level(p)!vars)
<1> USE DEF IInv
<1>1. CASE UNCHANGED orderVars
  <2>1. Come(p)' = Come(p) /\ Wanted(p)' = Wanted(p) /\ book'[p] = book[p]
    BY <1>1 DEF orderVars, Come, Wanted
  <2> QED
    BY <2>1, LevelRests
<1>2. CASE InsertOrder
  <2>1. hand \in Orders /\ status[hand] = "Inactive"
    BY <1>2, NullAssumption DEF InsertOrder, TypeOK, OnePlace
  <2>2. CASE Terms(hand).price = p
    <3>1. hand \in AtLevel(p)
      BY <2>1, <2>2 DEF AtLevel
    <3> QED
      BY <1>2, <2>2, <3>1, InsertArrives DEF Level!Next
  <2>3. CASE Terms(hand).price # p
    <3>1. book'[p] = book[p] /\ UNCHANGED open
      BY <1>2, <2>3 DEF InsertOrder, Insert, TypeOK
    <3>2. \A o \in AtLevel(p) : status'[o] = status[o]
      BY <1>2, <2>1, <2>3 DEF InsertOrder, Insert, TypeOK, AtLevel
    <3>3. Come(p)' = Come(p) /\ Wanted(p)' = Wanted(p)
      BY <3>1, <3>2 DEF Come, Wanted
    <3> QED
      BY <3>1, <3>3, LevelRests
  <2> QED
    BY <2>2, <2>3
<1>3. ASSUME NEW t \in Sessions, Cancel(t) PROVE [Level(p)!Next]_(Level(p)!vars)
  <2>1. PICK o \in Orders :
           /\ UNCHANGED open
           /\ UNCHANGED <<status, book>> \/ TakenOut(o)
    BY <1>3, CancelDoes
  <2>2. CASE UNCHANGED <<status, book>>
    BY <1>1, <2>1, <2>2 DEF orderVars
  <2>3. CASE ~ UNCHANGED <<status, book>> /\ Terms(o).price = p
    <3>1. Level(p)!Withdraw(Terms(o).side, o)
      BY <2>1, <2>3, CancelWithdraws DEF TakenOut
    <3>2. Terms(o).side \in Sides /\ o \in Waiting(p)[Terms(o).side]
      BY <2>1, <2>3, WaitingIs DEF TakenOut
    <3> QED
      BY <3>1, <3>2 DEF Level!Next, Level!Sides, Sides
  <2>4. CASE ~ UNCHANGED <<status, book>> /\ Terms(o).price # p
    <3>1. book'[p] = book[p]
      BY <2>1, <2>4 DEF TakenOut, TypeOK
    <3>2. \A x \in AtLevel(p) : status'[x] = status[x]
      BY <2>1, <2>4 DEF TakenOut, TypeOK, AtLevel
    <3>3. Come(p)' = Come(p) /\ Wanted(p)' = Wanted(p)
      BY <2>1, <3>2 DEF Come, Wanted
    <3> QED
      BY <3>1, <3>3, LevelRests
  <2> QED
    BY <2>2, <2>3, <2>4
<1>4. CASE PopPair
  <2>1. PICK q \in Levels, b \in Orders, a \in Orders, n \in Nat : Trade(q, b, a, n)
    BY <1>4, PopDoes
  <2>2. CASE q = p
    <3>1. b \in Waiting(p)["buy"] /\ a \in Waiting(p)["sell"] /\ Level(p)!Trade(b, a)
      BY <2>1, <2>2, PopTrades
    <3> QED
      BY <3>1 DEF Level!Next
  <2>3. CASE q # p
    <3>1. book'[p] = book[p]
      BY <2>1, <2>3 DEF Trade, TypeOK
    <3>2. \A x \in AtLevel(p) : x \in Orders /\ x # b /\ x # a
      BY <2>1, <2>3 DEF Trade, AtLevel
    <3>3. \A x \in AtLevel(p) : status'[x] = status[x] /\ open'[x] = open[x]
      BY <2>1, <3>2 DEF Trade, TypeOK
    <3>4. Come(p)' = Come(p) /\ Wanted(p)' = Wanted(p)
      BY <3>3 DEF Come, Wanted
    <3> QED
      BY <3>1, <3>4, LevelRests
  <2> QED
    BY <2>2, <2>3
<1> QED
  BY <1>1, <1>2, <1>3, <1>4 DEF Next, Session, Consumer, Producer, FindNone, Create, Construct, Enqueue,
     TakeOrder, BeginScan, ScanLevel, PopNothing, PushFill, TakeFill, OutputMarket, vars

\* No order has come to a level at the start.
LEMMA LevelStart ==
  ASSUME Init, NEW p \in Levels
  PROVE  Level(p)!Init
<1>1. /\ book[p] = [s \in Sides |-> <<>>]
      /\ \A o \in Orders : status[o] = "Inactive" /\ open[o] = Terms(o).qty
  BY DEF Init
<1>2. AtLevel(p) \subseteq Orders
  BY DEF AtLevel
<1>3. Come(p) = {} /\ Wanted(p) = [o \in AtLevel(p) |-> Terms(o).qty]
  BY <1>1, <1>2 DEF Come, Wanted
<1>4. <<>> \in Seq(Orders) /\ ToSet(<<>>) = {}
  <2>1. <<>> \in Seq(Orders)
    OBVIOUS
  <2> QED
    BY <2>1, QueueIs
<1>5. Precedes(<<>>) = {}
  BY <1>4, PrecedesAre
<1>6. Waiting(p) = [s \in Sides |-> {}] /\ Earlier(p) = {}
  BY <1>1, <1>4, <1>5 DEF Waiting, Earlier
<1> QED
  BY <1>3, <1>6 DEF Level!Init, Level!Sides, Sides

\* Whatever the sessions, the consumer and the producer do, every price level
\* of the exchange stays the pair of first-in-first-out queues of LevelFifo.
THEOREM LevelsKeepPromise == Spec => LevelsAreFifo
<1>1. Init => \A p \in Levels : Level(p)!Init
  BY LevelStart
<1>2. IInv /\ [Next]_vars =>
        [UNCHANGED orderVars \/ \A p \in Levels : [Level(p)!Next]_(Level(p)!vars)]_vars
  BY LevelStep
<1> QED
  BY <1>1, <1>2, Invariant, PTL DEF Spec, LevelsAreFifo

\* The same, as the refinement of LevelFifo that it is, level by level.
THEOREM EveryLevelIsFifo ==
  ASSUME NEW p \in Levels
  PROVE  Spec => Level(p)!Spec
<1>1. Init => Level(p)!Init
  BY LevelStart
<1>2. IInv /\ [Next]_vars => [Level(p)!Next]_(Level(p)!vars)
  BY LevelStep
<1> QED
  BY <1>1, <1>2, Invariant, PTL DEF Spec, Level!Spec
=============================================================================
