---------------------------- MODULE MCOrderEntry -----------------------------
(* OrderEntry for TLC: short messages, well formed and not.                *)
EXTENDS OrderEntry

CONSTANTS t1, t2, t3

Field(s) == <<SOH>> \o Text(s)
Message(fields) == FoldLeft(LAMBDA m, f : m \o Field(f), Text("8=F"), fields) \o <<SOH>>

Buy == Message(<<"55=S", "44=1.5", "54=2", "38=4">>)
Sell == Message(<<"55=S", "44=2", "54=1", "38=1">>)

Others3 == {
  Message(<<"44=3", "38=9", "54=1", "55=S", "60=x", "44=1.5", "38=4", "54=2">>), \* twice
  Message(<<"55=S", "54=2", "38=4">>),                   \* without a price
  Message(<<"44=1.5", "54=2", "55=S">>),                 \* without a quantity
  Message(<<"44=1.5", "38=4", "55=S">>),                 \* without a side
  Message(<<"44=1.5", "54=2", "38=4">>),                 \* without a symbol
  Message(<<"55=S", "58", "44=1.5", "54=2", "38=4">>),   \* no "=": takes the next one
  Message(<<"55=S", "44=", "54=2", "38=4">>),            \* no value
  Message(<<"55=S", "44=1=5", "54=2", "38=4">>),         \* "=" in a value
  Message(<<"55=S", "44=-.5", "54=3", "38= +0">>),       \* converted all the same
  Message(<<"55=S", "x=1", "44=1.5", "54=2", "38=4">>),  \* throws: the name,
  Message(<<"55=S", "44=.", "54=2", "38=4">>),           \* the price,
  Message(<<"55=S", "44=1.5", "54=b", "38=4">>),         \* the side, and
  Message(<<"55=S", "44=1.5", "54=2", "38=1000">>)}      \* the quantity: too large

MCSends == t1 :> <<{Buy, Sell} \cup Others3, {Buy}>> @@ t2 :> <<{Buy}, {Sell}>> @@ t3 :> <<{Buy}, {Sell}>>

MCMatchesOf == [m \in Messages |-> MatchesFrom(m, 0)]

\* The sessions that send the same messages are interchangeable.
SessionSymmetry == Permutations({t2, t3})
=============================================================================
