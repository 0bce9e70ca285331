---------------------------- MODULE MCLevelQueue -----------------------------
(* LevelQueue for TLC: named orders, and ids of which one is used twice.   *)
EXTENDS LevelQueue, TLC

CONSTANTS b1, b2, b3, a1, i1, i2, i3

MCIdOf == b1 :> i1 @@ b2 :> i2 @@ b3 :> i1 @@ a1 :> i3

\* Bids that one ask fills, fills in part or does not reach, and one for zero
\* lots.
MCQuantities == {b1 :> q[1] @@ b2 :> q[2] @@ b3 :> q[3] @@ a1 :> q[4] :
  q \in {<<2, 1, 1, 1>>, <<0, 1, 2, 2>>}}
=============================================================================
