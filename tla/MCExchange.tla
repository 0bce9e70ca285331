----------------------------- MODULE MCExchange ------------------------------
(* Exchange for TLC: short scripts over two price levels, 1 and 2.         *)
EXTENDS Exchange, TLC

CONSTANTS Belv, Wolv, Citadel

\* One listener, as in main, or two.
OneOrTwo == {{Wolv}, {Belv, Wolv}}

Buy(p, n)  == [op |-> "place", side |-> "buy", price |-> p, qty |-> n]
Sell(p, n) == [op |-> "place", side |-> "sell", price |-> p, qty |-> n]
CancelNth(i) == [op |-> "cancel", nth |-> i]

\* The run of main in small: Belvedere buys and cancels, Wolverine buys at the
\* same level, Citadel crosses and makes an offer.
SmallRun == [t \in Sessions |->
  CASE t = Belv    -> <<Buy(1, 2), CancelNth(1)>>
    [] t = Wolv    -> <<Buy(1, 1)>>
    [] t = Citadel -> <<Sell(1, 2), Sell(2, 2)>>]

\* Two sessions with as much to do as the three: both have bids at level 1, one of
\* them is cancelled, and one has two there; a better bid, an offer that fills two
\* bids and has some left, and one outside of the tree.
CrossingRun == [t \in Sessions |->
  CASE t = Belv -> <<Buy(1, 1), CancelNth(1), Sell(1, 3)>>
    [] t = Wolv -> <<Sell(3, 1), Buy(1, 2), Buy(1, 1), Buy(2, 1)>>]

\* TLC computes a definition once, but what a constant stands for at every use.
TwoLevels == CrossingRun
=============================================================================
