------------------------------ MODULE LevelFifo ------------------------------
(***************************************************************************)
(* What one price level of the book promises its callers, without threads, *)
(* locks or pointers: each side is a set of resting orders with the order  *)
(* in which they came, a trade always pairs the oldest resting bid with    *)
(* the oldest resting ask, and a cancellation takes the oldest resting     *)
(* order that carries the requested id.  LevelQueue implements this        *)
(* module, and so does each level of the book of Exchange.                 *)
(***************************************************************************)
EXTENDS Integers

CONSTANTS
  Orders,      \* the order objects that may reach this level
  Bids,        \* those of them whose side is Buy; the others are Sell
  IdOf,        \* the order_id_ of each order (ids may repeat, see OrderIds)
  Quantities   \* the quantities the orders may be placed with: functions of the order

VARIABLES
  resting,     \* resting[s]: the orders waiting on side s
  ahead,       \* the pairs of orders resting on one side, the earlier one first
  joined,      \* the orders that have come to the level
  qty          \* qty[o]: the quantity of o that is still open

vars == <<resting, ahead, joined, qty>>

Sides == {"buy", "sell"}
SideOf(o) == IF o \in Bids THEN "buy" ELSE "sell"

Smaller(a, b) == IF a <= b THEN a ELSE b

\* o is the oldest member of S.
Oldest(o, S) == o \in S /\ \A x \in S : <<x, o>> \notin ahead

Carrying(id, S) == {o \in S : IdOf[o] = id}

-----------------------------------------------------------------------------
Init ==
  /\ resting = [s \in Sides |-> {}]
  /\ ahead = {}
  /\ joined = {}
  /\ qty \in Quantities

\* A new order joins its side behind everything that already rests there.
Arrive(o) ==
  /\ o \notin joined
  /\ joined' = joined \cup {o}
  /\ ahead' = ahead \cup (resting[SideOf(o)] \X {o})
  /\ resting' = [resting EXCEPT ![SideOf(o)] = @ \cup {o}]
  /\ UNCHANGED qty

Leave(gone) ==
  /\ resting' = [s \in Sides |-> resting[s] \ gone]
  /\ ahead' = {w \in ahead : w[1] \notin gone /\ w[2] \notin gone}
  /\ UNCHANGED joined

\* The oldest bid trades with the oldest ask for the smaller of their open
\* quantities, and whichever is then complete leaves the level.
Trade(b, a) ==
  LET f == Smaller(qty[b], qty[a])
  IN  /\ Oldest(b, resting["buy"])
      /\ Oldest(a, resting["sell"])
      /\ qty' = [o \in Orders |-> IF o \in {a, b} THEN qty[o] - f ELSE qty[o]]
      /\ Leave({o \in {a, b} : qty[o] = f})

\* The oldest order of side s that carries some id leaves without trading.
Withdraw(s, o) ==
  /\ Oldest(o, Carrying(IdOf[o], resting[s]))
  /\ Leave({o})
  /\ UNCHANGED qty

Next ==
  \/ \E o \in Orders : Arrive(o)
  \/ \E b \in resting["buy"], a \in resting["sell"] : Trade(b, a)
  \/ \E s \in Sides : \E o \in resting[s] : Withdraw(s, o)

Spec == Init /\ [][Next]_vars
=============================================================================
