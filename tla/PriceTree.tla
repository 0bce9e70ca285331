------------------------------ MODULE PriceTree ------------------------------
(***************************************************************************)
(* level_btree (btree.h): the binary tree of price levels.  The            *)
(* constructor builds it before any thread runs and it never changes       *)
(* again, which is why it has no lock.  The consumer of orders walks it to *)
(* insert, sessions walk it to cancel, and the producer of fills and main  *)
(* scan it for the best bid and offer.  Prices are in cents.  Of a level,  *)
(* only which orders wait in it is kept: LevelQueue has the rest.          *)
(***************************************************************************)
EXTENDS Integers, Sequences, SequencesExt, FiniteSetsExt

CONSTANTS
  Root,        \* the price of the root, and the prices that the constructor
  Additions,   \*   inserts below it, in its order
  Tolerance,   \* 9: a level takes the prices less than 0.09 away from it ...
  Rounded,     \* ... and those <<price, level>> exactly 0.09 apart whose
               \*   distance comes out below 0.09 in double precision
  Orders,      \* limit orders
  Prices,      \* prices that sessions ask for
  FallOff,     \* what a scan that falls off an empty leaf returns in this
               \*   build: a subset of {"null", "crash"} (undefined behaviour)
  Null

Levels == {Root} \cup ToSet(Additions)
Sides == {"buy", "sell"}

ASSUME TreeAssumption ==
  /\ Root \in Int /\ Additions \in Seq(Int) /\ Prices \subseteq Int
  /\ \A i \in DOMAIN Additions : /\ Additions[i] # Root
                                /\ \A j \in DOMAIN Additions : Additions[i] = Additions[j] => i = j
  /\ Tolerance \in Int /\ Tolerance > 0
  /\ Rounded \subseteq Prices \X Levels
  /\ Null \notin Levels /\ Null \notin Orders /\ Null \notin Sides
  /\ FallOff \subseteq {"null", "crash"} /\ FallOff # {}

VARIABLES
  left, right,             \* the children of each level
  added, at,               \* constructor: additions made, and where it walks
  phase,                   \* "building"; "trading" until the producer is done, "filled"
                           \*   until all are joined; "bid", "offer", "closed"
  price, side,             \* price_ and side_ of each order
  status, home,            \* its status_, and the level that queued it
  inserting, insertAt,     \* the consumer's insert: the order, where it walks
  cancelling, searchAt,    \* a session's cancel: the order, where it walks
  pc, scanAt,              \* the scan: its step, and where it walks
  looking, best,           \* the side it is for, and the pointer it returned
  bid, offer,              \* the pointers that output_market keeps
  crashed,                 \* a null pointer was followed, or std::terminate
  \* history, read by no guard
  span,                    \* the prices whose walk goes through each level
  passed                   \* the levels this scan has found empty

treeVars   == <<left, right, added, at, span>>
orderVars  == <<price, side, status, home>>
walkVars   == <<inserting, insertAt, cancelling, searchAt>>
scanVars   == <<pc, scanAt, looking, best, passed>>
quotes     == <<bid, offer>>
vars == <<treeVars, phase, orderVars, walkVars, scanVars, quotes, crashed>>

Distance(p, l) == IF p >= l THEN p - l ELSE l - p

\* Mutant: a tolerance below half of it.
NearNarrow(p, l) == Distance(p, l) < 5

\* fabs(price - leaf->price) < 0.09
Near(p, l) == Distance(p, l) < Tolerance \/ <<p, l>> \in Rounded

Queued(s, l) == {o \in Orders : status[o] = "queued" /\ home[o] = l /\ side[o] = s}
Resting(s) == {o \in Orders : status[o] = "queued" /\ side[o] = s}

Init ==
  /\ left = [l \in Levels |-> Null] /\ right = [l \in Levels |-> Null]
  /\ span = [l \in Levels |-> IF l = Root THEN Prices \cup Levels ELSE {}]
  /\ added = 0 /\ at = Root /\ phase = "building"
  /\ price \in [Orders -> Prices] /\ side \in [Orders -> Sides]
  /\ status = [o \in Orders |-> "sent"] /\ home = [o \in Orders |-> Null]
  /\ inserting = Null /\ insertAt = Null /\ cancelling = Null /\ searchAt = Null
  /\ pc = "idle" /\ scanAt = Null /\ looking = Null /\ best = Null
  /\ bid = Null /\ offer = Null /\ passed = {} /\ crashed = FALSE

-----------------------------------------------------------------------------
(* The constructor: insert(double, unique_ptr<level_queue>&) for every     *)
(* addition in turn.                                                       *)

Building == phase = "building" /\ added < Len(Additions)
NewPrice == Additions[added + 1]

Child(l) == IF NewPrice < l THEN left[l] ELSE right[l]

BuildDescend ==
  /\ Building /\ Child(at) # Null
  /\ at' = Child(at)
  /\ UNCHANGED <<left, right, added, span, phase, orderVars, walkVars, scanVars, quotes, crashed>>

AddLevel ==
  /\ Building /\ Child(at) = Null
  /\ left'  = IF NewPrice < at THEN [left EXCEPT ![at] = NewPrice] ELSE left
  /\ right' = IF NewPrice > at THEN [right EXCEPT ![at] = NewPrice] ELSE right
  /\ span'  = [span EXCEPT ![NewPrice] = {x \in span[at] : IF NewPrice < at THEN x < at ELSE x > at}]
  /\ added' = added + 1 /\ at' = Root
  /\ UNCHANGED <<phase, orderVars, walkVars, scanVars, quotes, crashed>>

\* The book is complete, and trade() starts the threads.
OpenMarket ==
  /\ phase = "building" /\ added = Len(Additions)
  /\ phase' = "trading"
  /\ UNCHANGED <<treeVars, orderVars, walkVars, scanVars, quotes, crashed>>

Build == BuildDescend \/ AddLevel \/ OpenMarket

-----------------------------------------------------------------------------
(* insert(order&), by the one consumer of orders                           *)

BeginInsert(o) ==
  /\ ~ crashed
  /\ phase \in {"trading", "filled"} /\ inserting = Null /\ status[o] = "sent"
  /\ inserting' = o /\ insertAt' = Root
  /\ UNCHANGED <<treeVars, phase, orderVars, cancelling, searchAt, scanVars, quotes, crashed>>

InsertChild(l) == IF price[inserting] > l THEN right[l] ELSE left[l]

\* Mutant: the child is not tested.
InsertDescendBlind ==
  /\ ~ crashed
  /\ inserting # Null
  /\ ~ Near(price[inserting], insertAt)
  /\ insertAt' = InsertChild(insertAt)
  /\ UNCHANGED <<treeVars, phase, orderVars, inserting, cancelling, searchAt, scanVars, quotes, crashed>>

InsertDescend ==
  /\ ~ crashed
  /\ inserting # Null
  /\ ~ Near(price[inserting], insertAt) /\ InsertChild(insertAt) # Null
  /\ insertAt' = InsertChild(insertAt)
  /\ UNCHANGED <<treeVars, phase, orderVars, inserting, cancelling, searchAt, scanVars, quotes, crashed>>

Push ==
  /\ ~ crashed
  /\ inserting # Null
  /\ Near(price[inserting], insertAt)
  /\ status' = [status EXCEPT ![inserting] = "queued"]
  /\ home' = [home EXCEPT ![inserting] = insertAt]
  /\ inserting' = Null /\ insertAt' = Null
  /\ UNCHANGED <<treeVars, phase, price, side, cancelling, searchAt, scanVars, quotes, crashed>>

\* Outside of the price bounds.
Reject ==
  /\ ~ crashed
  /\ inserting # Null
  /\ ~ Near(price[inserting], insertAt) /\ InsertChild(insertAt) = Null
  /\ status' = [status EXCEPT ![inserting] = "rejected"]
  /\ inserting' = Null /\ insertAt' = Null
  /\ UNCHANGED <<treeVars, phase, price, side, home, cancelling, searchAt, scanVars, quotes, crashed>>

Insert == (\E o \in Orders : BeginInsert(o)) \/ InsertDescend \/ Push \/ Reject

-----------------------------------------------------------------------------
(* cancel(int, double, order_side), by the session that sent the order     *)

BeginCancel(o) ==
  /\ ~ crashed
  /\ phase \in {"trading", "filled"} /\ cancelling = Null
  /\ cancelling' = o /\ searchAt' = Root
  /\ UNCHANGED <<treeVars, phase, orderVars, inserting, insertAt, scanVars, quotes, crashed>>

\* Mutant: the comparison the other way round.
SearchChildSwapped(l) == IF price[cancelling] < l THEN right[l] ELSE left[l]

SearchChild(l) == IF price[cancelling] < l THEN left[l] ELSE right[l]

\* search does not test the child it goes to ...
SearchDescend ==
  /\ ~ crashed
  /\ cancelling # Null /\ searchAt # Null
  /\ ~ Near(price[cancelling], searchAt)
  /\ searchAt' = SearchChild(searchAt)
  /\ UNCHANGED <<treeVars, phase, orderVars, inserting, insertAt, cancelling, scanVars, quotes, crashed>>

\* ... and reads its price, whatever it is.
SearchNull ==
  /\ ~ crashed
  /\ cancelling # Null /\ searchAt = Null
  /\ crashed' = TRUE
  /\ UNCHANGED <<treeVars, phase, orderVars, walkVars, scanVars, quotes>>

Found == cancelling # Null /\ searchAt # Null /\ Near(price[cancelling], searchAt)

\* buy_pop and sell_pop throw if that side of the level is empty; otherwise
\* the order leaves the level if it is there.
CancelFound ==
  LET o == cancelling
      there == Queued(side[o], searchAt)
  IN  /\ ~ crashed
      /\ Found
      /\ \/ /\ there = {}
            /\ crashed' = TRUE
            /\ UNCHANGED status
         \/ /\ there # {}
            /\ status' = IF o \in there THEN [status EXCEPT ![o] = "gone"] ELSE status
            /\ UNCHANGED crashed
      /\ cancelling' = Null /\ searchAt' = Null
      /\ UNCHANGED <<treeVars, phase, price, side, home, inserting, insertAt, scanVars, quotes>>

Cancel == (\E o \in Orders : BeginCancel(o)) \/ SearchDescend \/ SearchNull \/ CancelFound

-----------------------------------------------------------------------------
(* get_best_bid is reverse_in_order, get_best_offer is in_order: the same  *)
(* recursion with left and right exchanged.  It reads one counter at each  *)
(* level, with no lock, and follows nothing else that changes.             *)

\* producer_fills scans for bids until it has its fill; output_market scans
\* for bids and then for offers when all threads are joined.
BeginScan ==
  /\ ~ crashed
  /\ pc = "idle" /\ phase \in {"trading", "bid", "offer"}
  /\ looking' = IF phase = "offer" THEN "sell" ELSE "buy"
  /\ scanAt' = Root /\ pc' = "down"
  /\ best' = Null /\ passed' = {}
  /\ UNCHANGED <<treeVars, phase, orderVars, walkVars, quotes, crashed>>

\* Mutants: the scan for bids goes left first; both look at buy_size.
BetterExchanged == IF looking = "buy" THEN left ELSE right
CountBids == Queued("buy", scanAt)

Better == IF looking = "buy" THEN right ELSE left
Worse  == IF looking = "buy" THEN left ELSE right
Count  == Queued(looking, scanAt)

ScanDown ==
  /\ ~ crashed
  /\ pc = "down"
  /\ \/ /\ Better[scanAt] # Null
        /\ scanAt' = Better[scanAt]
        /\ UNCHANGED pc
     \/ /\ Better[scanAt] = Null
        /\ pc' = "read"
        /\ UNCHANGED scanAt
  /\ UNCHANGED <<treeVars, phase, orderVars, walkVars, looking, best, passed, quotes, crashed>>

Return(l) == best' = l /\ looking' = Null /\ pc' = "returned"

ReadOccupied ==
  /\ ~ crashed
  /\ pc = "read" /\ Count # {}
  /\ Return(scanAt)
  /\ UNCHANGED <<treeVars, phase, orderVars, walkVars, scanAt, passed, quotes, crashed>>

\* An empty level: on to the worse child, or off the end of the function.
ReadEmpty ==
  /\ ~ crashed
  /\ pc = "read" /\ Count = {}
  /\ \/ /\ Worse[scanAt] # Null
        /\ scanAt' = Worse[scanAt] /\ pc' = "down"
        /\ UNCHANGED crashed
     \/ /\ Worse[scanAt] = Null /\ "null" \in FallOff
        /\ pc' = "up"
        /\ UNCHANGED <<scanAt, crashed>>
     \/ /\ Worse[scanAt] = Null /\ "crash" \in FallOff
        /\ crashed' = TRUE
        /\ UNCHANGED <<scanAt, pc>>
  /\ passed' = passed \cup {scanAt}
  /\ UNCHANGED <<treeVars, phase, orderVars, walkVars, looking, best, quotes>>

\* Mutant: the caller reads its counter again after its worse child.
ScanUpAgain ==
  /\ ~ crashed
  /\ pc = "up" /\ scanAt # Root
  /\ \E k \in Levels : (Better[k] = scanAt \/ Worse[k] = scanAt) /\ scanAt' = k
  /\ pc' = "read"
  /\ UNCHANGED <<treeVars, phase, orderVars, walkVars, looking, best, passed, quotes, crashed>>

\* The caller got null: from its better child it goes on to itself, from its
\* worse child it falls off in turn.
ScanUp ==
  /\ ~ crashed
  /\ pc = "up" /\ scanAt # Root
  /\ \E k \in Levels :
       /\ scanAt' = k
       /\ \/ Better[k] = scanAt /\ pc' = "read"
          \/ Worse[k] = scanAt /\ UNCHANGED pc
  /\ UNCHANGED <<treeVars, phase, orderVars, walkVars, looking, best, passed, quotes, crashed>>

NothingFound ==
  /\ ~ crashed
  /\ pc = "up" /\ scanAt = Root
  /\ Return(Null)
  /\ UNCHANGED <<treeVars, phase, orderVars, walkVars, scanAt, passed, quotes, crashed>>

Scan == BeginScan \/ ScanDown \/ ReadOccupied \/ ReadEmpty \/ ScanUp \/ NothingFound

-----------------------------------------------------------------------------
(* What the callers of the scans do with the pointer                       *)

\* producer_fills: nothing to match at that level, or no level; once more.
NoFill ==
  /\ ~ crashed
  /\ pc = "returned" /\ phase = "trading"
  /\ best # Null => \E s \in Sides : Queued(s, best) = {}
  /\ pc' = "idle"
  /\ UNCHANGED <<treeVars, phase, orderVars, walkVars, scanAt, looking, best, passed, quotes, crashed>>

\* A bid and an offer trade, one of them or both are complete, and the
\* producer is done.  (Which two: see LevelFifo.)
Match ==
  /\ ~ crashed
  /\ pc = "returned" /\ phase = "trading" /\ best # Null
  /\ \E b \in Queued("buy", best), a \in Queued("sell", best) :
       \E done \in {{a}, {b}, {a, b}} :
         status' = [o \in Orders |-> IF o \in done THEN "gone" ELSE status[o]]
  /\ phase' = "filled" /\ pc' = "idle"
  /\ UNCHANGED <<treeVars, price, side, home, walkVars, scanAt, looking, best, passed, quotes, crashed>>

\* All threads are joined.
JoinThreads ==
  /\ ~ crashed
  /\ phase = "filled" /\ inserting = Null /\ cancelling = Null
  /\ phase' = "bid"
  /\ UNCHANGED <<treeVars, orderVars, walkVars, scanVars, quotes, crashed>>

\* output_market keeps the pointer and scans for the other side.
Quote ==
  /\ ~ crashed
  /\ pc = "returned" /\ phase \in {"bid", "offer"}
  /\ IF phase = "bid" THEN phase' = "offer" /\ bid' = best /\ UNCHANGED offer
                      ELSE phase' = "closed" /\ offer' = best /\ UNCHANGED bid
  /\ pc' = "idle"
  /\ UNCHANGED <<treeVars, orderVars, walkVars, scanAt, looking, best, passed, crashed>>

Callers == NoFill \/ Match \/ JoinThreads \/ Quote

-----------------------------------------------------------------------------
\* No thread takes a step after the program has crashed.
Next == Build \/ Insert \/ Cancel \/ Scan \/ Callers

Spec == Init /\ [][Next]_vars

\* The thread that scans is scheduled again and again.
FairSpec == Spec /\ WF_vars(Scan)

-----------------------------------------------------------------------------
(* Properties *)

Link == Levels \cup {Null}

\* Types: links lead to levels, walks are somewhere in the tree, and the
\* orders and the scan are in one of their states.
TypeOK ==
  /\ left \in [Levels -> Link] /\ right \in [Levels -> Link]
  /\ added \in 0 .. Len(Additions) /\ at \in Levels
  /\ phase \in {"building", "trading", "filled", "bid", "offer", "closed"}
  /\ price \in [Orders -> Prices] /\ side \in [Orders -> Sides]
  /\ status \in [Orders -> {"sent", "queued", "rejected", "gone"}]
  /\ home \in [Orders -> Link]
  /\ inserting \in Orders \cup {Null} /\ insertAt \in Link
  /\ inserting # Null => insertAt \in Levels
  /\ cancelling \in Orders \cup {Null} /\ searchAt \in Link
  /\ pc \in {"idle", "down", "read", "up", "returned"} /\ scanAt \in Link
  /\ looking \in Sides \cup {Null} /\ best \in Link
  /\ pc \in {"down", "read", "up"} => scanAt \in Levels
  /\ bid \in Link /\ offer \in Link
  /\ crashed \in BOOLEAN /\ passed \subseteq Levels
  /\ span \in [Levels -> SUBSET (Prices \cup Levels)]

\* A cancellation ends at the level where the insertion of its order ended,
\* although search and insert decide in another order; and it follows a null
\* pointer only for an order that insert has rejected, or will reject.
CancelMeetsInsert == cancelling # Null =>
  LET queued == status[cancelling] = "queued"
  IN  /\ Found /\ queued => searchAt = home[cancelling]
      /\ searchAt = Null => ~ queued
      /\ Found => status[cancelling] # "rejected"

\* What the proof of it needs.  The levels that are in the tree are those that
\* a walk can reach, ...
Built(l) == l \in span[l]

\* ... and whatever goes through two of them goes through one to the other; a
\* level that lies on the way through n has its whole span on one side of n, ...
Nested(n, m) ==
  /\ \A x \in span[n] \cap span[m] : n = m \/ n \in span[m] \/ m \in span[n]
  /\ Built(m) /\ m \in span[n] /\ m # n =>
       /\ n \notin span[m] /\ span[m] \subseteq span[n]
       /\ \A x \in span[m] : x < n <=> m < n

\* ... a child has the part of the span on its side, and a missing child stands
\* for a side without levels, ...
ChildInv(n, c, part) ==
  IF c = Null THEN \A m \in part : m \in Levels => ~ Built(m)
  ELSE c \in part /\ Built(c) /\ span[c] = part

SpanInv ==
  /\ Built(Root)
  /\ \A n \in Levels : span[n] # {} => Built(n)
  /\ \A n, m \in Levels : Nested(n, m)
  /\ \A n \in Levels : Built(n) =>
       /\ ChildInv(n, left[n], {x \in span[n] : x < n})
       /\ ChildInv(n, right[n], {x \in span[n] : x > n})
  /\ \A n \in Levels : ~ Built(n) => left[n] = Null /\ right[n] = Null

\* ... the constructor is on the way to the place of the next level, ...
BuildInv ==
  /\ span[Root] = Prices \cup Levels
  /\ Built(at)
  /\ \A i \in DOMAIN Additions : i > added => span[Additions[i]] = {}
  /\ Building => NewPrice \in span[at]
  /\ phase = "building" =>
       /\ inserting = Null /\ cancelling = Null
       /\ \A o \in Orders : status[o] = "sent"

\* ... a walk for price p that has come to l has tried all levels above it, ...
Reached(p, l) ==
  /\ l \in Levels /\ p \in span[l]
  /\ \A m \in Levels : Built(m) /\ l \in span[m] /\ m # l => ~ Near(p, m)

\* ... and one that has ended nowhere has tried all there are.
Missed(p) == \A m \in Levels : Built(m) /\ p \in span[m] => ~ Near(p, m)

WalkInv ==
  /\ inserting # Null => status[inserting] = "sent" /\ Reached(price[inserting], insertAt)
  /\ cancelling # Null =>
       IF searchAt = Null THEN Missed(price[cancelling]) ELSE Reached(price[cancelling], searchAt)
  /\ \A o \in Orders :
       /\ status[o] = "queued" => Reached(price[o], home[o]) /\ Near(price[o], home[o])
       /\ status[o] = "rejected" => Missed(price[o])

\* The inductive invariant: the tree, its construction, the walks of insert and
\* search, and what they leave behind in the orders.
IInv == TypeOK /\ SpanInv /\ BuildInv /\ WalkInv

InBounds(p) == Min(Levels) <= p /\ p <= Max(Levels)

\* Every order finds a level unless its price is outside of all of them: the
\* tolerances that insert tests on its way down (btree.h:98) leave no gap, do
\* not take the price of another level, and skip no level on the way.
RightLevel == \A o \in Orders :
  /\ status[o] = "rejected" => ~ InBounds(price[o])
  /\ status[o] = "queued" /\ price[o] \in Levels => home[o] = price[o]
  /\ status[o] = "queued" /\ InBounds(price[o]) =>
       ~ \E l \in Levels : \/ price[o] <= l /\ l < home[o]
                           \/ home[o] < l /\ l <= price[o]

\* The quotes that main is about to print, with nobody else left, are the
\* best prices at which orders wait, or null if none does.
QuotesAreBest ==
  /\ phase \in {"offer", "closed"} =>
       IF Resting("buy") = {} THEN bid = Null ELSE bid = Max({home[o] : o \in Resting("buy")})
  /\ phase = "closed" =>
       IF Resting("sell") = {} THEN offer = Null ELSE offer = Min({home[o] : o \in Resting("sell")})

\* Every scan returns, whatever happens in the book meanwhile.
ScansReturn == looking # Null ~> looking = Null \/ crashed

\* The walk through the tree is a scan by price (BookScan), for both sides.
\* It is over when it has passed the last level, and then climbs to the root.
Occupied == [s \in Sides |-> {home[o] : o \in Resting(s)}]
Pending  == IF passed = Levels THEN Null ELSE looking
Promise  == INSTANCE BookScan WITH occupied <- Occupied, looking <- Pending
Implements == Promise!Spec

\* What the proofs of the last three need.  The span of a level has no gap, and
\* the market opens when all levels are in the tree; ...
Whole ==
  /\ \A n \in Levels : \A x, y \in span[n], z \in Prices \cup Levels : x < z /\ z < y => z \in span[n]
  /\ \A i \in DOMAIN Additions : i <= added => Built(Additions[i])
  /\ phase # "building" => added = Len(Additions)

Ahead(m, l) == IF looking = "buy" THEN m > l ELSE m < l

\* ... a scan has passed the levels ahead of the one it is at: without those it
\* has yet to go down to, and on the way up with those it comes up from, ...
PassInv ==
  /\ pc \in {"idle", "returned"} <=> looking = Null
  /\ looking # Null => best = Null /\ phase # "building"
  /\ pc = "down" => passed = {m \in Levels : Ahead(m, scanAt) /\ m \notin span[scanAt]}
  /\ pc = "read" /\ ~ crashed => passed = {m \in Levels : Ahead(m, scanAt)}
  /\ pc = "up" => passed = {m \in Levels : Ahead(m, scanAt) \/ m \in span[scanAt]}

IsBest(s, l) ==
  IF l = Null THEN Resting(s) = {}
  ELSE Queued(s, l) # {} /\ \A o \in Resting(s) : Promise!AsGood(s, l, home[o])

\* ... and nothing changes in the book under the two scans of output_market.
QuoteInv ==
  /\ phase \in {"building", "filled", "closed"} => pc = "idle"
  /\ phase \in {"bid", "offer", "closed"} => inserting = Null /\ cancelling = Null
  /\ phase = "bid" /\ looking # Null => looking = "buy"
  /\ phase = "offer" /\ looking # Null => looking = "sell"
  /\ phase \in {"bid", "offer"} /\ looking # Null => \A o \in Resting(looking) : home[o] \notin passed
  /\ phase = "bid" /\ pc = "returned" => IsBest("buy", best)
  /\ phase = "offer" /\ pc = "returned" => IsBest("sell", best)
  /\ phase \in {"offer", "closed"} => IsBest("buy", bid)
  /\ phase = "closed" => IsBest("sell", offer)

ScanInv == Whole /\ PassInv /\ QuoteInv

\* The prices of the constructor are a tick apart, which is more than the
\* tolerance, and no price between two of them is further from both than it.
Ticks ==
  /\ \A l, m \in Levels : l < m => m - l > Tolerance
  /\ \A p \in Prices : InBounds(p) => \E l \in Levels : Distance(p, l) < Tolerance
  /\ \A x \in Rounded : Distance(x[1], x[2]) = Tolerance
=============================================================================
