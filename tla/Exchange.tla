------------------------------ MODULE Exchange -------------------------------
(***************************************************************************)
(* The exchange as HydeParkExchange.cpp wires it: trading sessions, each a *)
(* thread, hand orders to one consumer through a queue; the consumer puts  *)
(* them in the book; the producer of fills scans the book and matches one  *)
(* level; listeners take the fills from a second queue; main joins them    *)
(* all and publishes the market.  A price level is the pair of FIFO queues *)
(* LevelFifo promises, with its calls atomic (LevelQueue shows why); ids   *)
(* come from the generator that the first order creates, or from several   *)
(* if sessions race for it (OrderIds).                                     *)
(***************************************************************************)
EXTENDS Integers, Sequences, SequencesExt, FiniteSetsExt

CONSTANTS
  Sessions,    \* trading sessions; each is a trading_entity with a thread
  Script,      \* what each session does: a sequence of operations, each
               \*   [op |-> "place", side, price, qty] or [op |-> "cancel", nth]
               \*   to cancel the order placed by its nth operation
  Levels,      \* the prices that have a level in the tree
  Listeners,   \* the entities that may have a fill listener
  Listening,   \* the sets of them that main may start
  StopId,      \* the literal 9: the id at which the consumer stops
  FallOff,     \* what a scan that falls off an empty leaf returns in this
               \*   build: a subset of {"null", "crash"} (undefined behaviour)
  Null

Sides == {"buy", "sell"}

ASSUME ExchangeAssumption ==
  /\ StopId \in Nat /\ Listeners \subseteq Sessions
  /\ Levels # {} /\ Levels \subseteq Int /\ IsFiniteSet(Levels)
  /\ Listening \subseteq SUBSET Listeners
  /\ FallOff \subseteq {"null", "crash"} /\ FallOff # {}

Operations ==
  [op : {"place"}, side : Sides, price : Int, qty : Nat] \cup [op : {"cancel"}, nth : Nat]

\* A session cancels only orders that it has placed before.
ASSUME ScriptAssumption == \A t \in Sessions :
  /\ Script[t] \in Seq(Operations)
  /\ \A i \in DOMAIN Script[t] : Script[t][i].op = "cancel" =>
       Script[t][i].nth \in 1 .. i - 1 /\ Script[t][Script[t][i].nth].op = "place"

\* An order is named by the session and the operation that places it.
Orders == {o \in UNION {{t} \X DOMAIN Script[t] : t \in Sessions} : Script[o[1]][o[2]].op = "place"}
Terms(o)   == Script[o[1]][o[2]]       \* its side, price and quantity
Owner(o)   == o[1]                     \* its trading_entity_
Fills      == [buy : Orders, sell : Orders, qty : Nat]

ASSUME NullAssumption ==
  Null \notin Orders /\ Null \notin Fills /\ Null \notin Sides /\ Null \notin Sessions /\ Null \notin Nat

VARIABLES
  pos, placing,      \* each session: its next operation, and where it is in
                     \* place_limit_order
  singleton, nextId, \* singleton_, a generator named by the session that created
                     \* it, and the counter of each generator
  id,                \* the order_id_ of each order
  status, open,      \* status_ and quantity_ of each order
  dataQueue,         \* the orders on their way to the book
  consumer, hand,    \* consumer_all_orders, and the order it has popped
  book,              \* the two queues of each level
  producer, passed,  \* producer_fills, and the levels its scan has found empty
  fill,              \* the fill it is about to push
  fillQueue,         \* single_asset_book::data_queue
  listening,         \* the listeners that have not stopped
  written,           \* the fills in each listener's file
  market,            \* what main has published
  crashed,           \* std::terminate, or a null pointer was followed
  \* history, read by no guard
  reported,          \* orders for which "cancelled order ID" was printed
  fills,             \* all fills, in order
  snapshot           \* the bids that rested in the book when the scan began

sessionVars  == <<pos, placing, singleton, nextId, id>>
consumerVars == <<dataQueue, consumer, hand>>
producerVars == <<producer, passed, fill, snapshot>>
fillVars     == <<fillQueue, listening, written>>
orderVars    == <<status, open, book>>
vars == <<sessionVars, consumerVars, producerVars, fillVars, orderVars, market, crashed, reported, fills>>

Resting(s) == UNION {ToSet(book[p][s]) : p \in Levels}

\* Mutant: the counter of the other side is read.
SizeOfOther(p, s) == SumFunctionOnSet(open, ToSet(book[p][IF s = "buy" THEN "sell" ELSE "buy"]))

\* buy_size and sell_size of a level (LevelQueue!SizeAgrees)
Size(p, s) == SumFunctionOnSet(open, ToSet(book[p][s]))

Init ==
  /\ pos = [t \in Sessions |-> 1] /\ placing = [t \in Sessions |-> "no"]
  /\ singleton = Null /\ nextId = [i \in Sessions |-> 0] /\ id = [o \in Orders |-> Null]
  /\ status = [o \in Orders |-> "Inactive"]
  /\ open = [o \in Orders |-> Terms(o).qty]
  /\ dataQueue = <<>> /\ consumer = "running" /\ hand = Null
  /\ book = [p \in Levels |-> [s \in Sides |-> <<>>]]
  /\ producer = "idle" /\ passed = {} /\ fill = Null /\ snapshot = {}
  /\ fillQueue = <<>> /\ listening \in Listening /\ written = [l \in Listeners |-> <<>>]
  /\ market = Null /\ crashed = FALSE
  /\ reported = {} /\ fills = <<>>

-----------------------------------------------------------------------------
(* A trading session (send_orders_1, _2, _3).  The sleeps between its      *)
(* operations order nothing.                                               *)

More(t, op) == pos[t] \in DOMAIN Script[t] /\ Script[t][pos[t]].op = op

\* place_limit_order makes the order, whose constructor calls get_instance.
\* That finds no generator, ...
FindNone(t) ==
  /\ ~ crashed
  /\ More(t, "place") /\ placing[t] = "no" /\ singleton = Null
  /\ placing' = [placing EXCEPT ![t] = "create"]
  /\ UNCHANGED <<pos, singleton, nextId, id, consumerVars, producerVars, fillVars, orderVars, market, crashed, reported, fills>>

\* ... and makes one, whether or not another session has done so meanwhile; ...
Create(t) ==
  /\ ~ crashed
  /\ placing[t] = "create"
  /\ singleton' = t
  /\ placing' = [placing EXCEPT ![t] = "created"]
  /\ UNCHANGED <<pos, nextId, id, consumerVars, producerVars, fillVars, orderVars, market, crashed, reported, fills>>

\* ... or it returns the one there is.  Who has created one gets that or, as the
\* pointer is read without a lock, one that was stored since.
Instances(t) ==
  CASE placing[t] = "created" -> {t, singleton}
    [] placing[t] = "no" /\ More(t, "place") -> {singleton} \ {Null}
    [] OTHER -> {}

\* Mutant: the id is read and not incremented.
ConstructStale(t) ==
  /\ ~ crashed
  /\ \E i \in Instances(t) : id' = [id EXCEPT ![<<t, pos[t]>>] = nextId[i]]
  /\ placing' = [placing EXCEPT ![t] = "made"]
  /\ UNCHANGED <<pos, singleton, nextId, consumerVars, producerVars, fillVars, orderVars, market, crashed, reported, fills>>

\* The constructor draws the id from the generator that it was given.  That is
\* one step with the reading of the pointer: a draw that comes after another
\* session's Create could as well come right before it, for only other draws
\* from the same generator can tell the difference, and they could come with it.
Construct(t) ==
  /\ ~ crashed
  /\ \E i \in Instances(t) :
       /\ id' = [id EXCEPT ![<<t, pos[t]>>] = nextId[i]]
       /\ nextId' = [nextId EXCEPT ![i] = @ + 1]
  /\ placing' = [placing EXCEPT ![t] = "made"]
  /\ UNCHANGED <<pos, singleton, consumerVars, producerVars, fillVars, orderVars, market, crashed, reported, fills>>

\* Mutant: a stack for the queue.
EnqueueFirst(t) ==
  /\ ~ crashed
  /\ placing[t] = "made"
  /\ dataQueue' = <<<<t, pos[t]>>>> \o dataQueue
  /\ placing' = [placing EXCEPT ![t] = "no"]
  /\ pos' = [pos EXCEPT ![t] = @ + 1]
  /\ UNCHANGED <<singleton, nextId, id, consumer, hand, producerVars, fillVars, orderVars, market, crashed, reported, fills>>

\* Then the session locks the queue, pushes the order and wakes the consumer.
Enqueue(t) ==
  /\ ~ crashed
  /\ placing[t] = "made"
  /\ dataQueue' = Append(dataQueue, <<t, pos[t]>>)
  /\ placing' = [placing EXCEPT ![t] = "no"]
  /\ pos' = [pos EXCEPT ![t] = @ + 1]
  /\ UNCHANGED <<singleton, nextId, id, consumer, hand, producerVars, fillVars, orderVars, market, crashed, reported, fills>>

\* The first order in q with the id n, which a walk along the list finds, and q
\* without an order.
Carriers(q, n) == {k \in DOMAIN q : id[q[k]] = n}
FirstWith(q, n) == q[Min(Carriers(q, n))]
Erase(q, o) == RemoveAt(q, CHOOSE k \in DOMAIN q : q[k] = o)

\* single_asset_book::cancel, in the session's own thread: it goes straight
\* to the level, past the orders that are still queued.  Without a level at
\* that price, or with nothing to cancel on that side, the program ends; an id
\* that is not there is not noticed, nor whose order it is that has it.
Cancel(t) ==
  LET o == <<t, Script[t][pos[t]].nth>>
      p == Terms(o).price
      s == Terms(o).side
      doomed == p \notin Levels \/ book[p][s] = <<>>
      found == ~ doomed /\ Carriers(book[p][s], id[o]) # {}
      x == FirstWith(book[p][s], id[o])
  IN  /\ ~ crashed
      /\ More(t, "cancel")
      /\ crashed' = doomed
      /\ status' = IF found THEN [status EXCEPT ![x] = "Cancelled"] ELSE status
      /\ book' = IF found THEN [book EXCEPT ![p][s] = Erase(@, x)] ELSE book
      /\ reported' = IF doomed THEN reported ELSE reported \cup {o}
      /\ pos' = [pos EXCEPT ![t] = @ + 1]
      /\ UNCHANGED <<placing, singleton, nextId, id, open, consumerVars, producerVars, fillVars, market, fills>>

Session(t) == FindNone(t) \/ Create(t) \/ Construct(t) \/ Enqueue(t) \/ Cancel(t)

-----------------------------------------------------------------------------
(* consumer_all_orders, the one thread that inserts orders                 *)

\* Mutant: front() without pop().
TakeOrderKeeping ==
  /\ ~ crashed
  /\ consumer = "running" /\ hand = Null /\ dataQueue # <<>>
  /\ hand' = Head(dataQueue)
  /\ UNCHANGED <<dataQueue, consumer, sessionVars, producerVars, fillVars, orderVars, market, crashed, reported, fills>>

\* cond.wait with a predicate: it returns whenever the queue is not empty.
TakeOrder ==
  /\ ~ crashed
  /\ consumer = "running" /\ hand = Null /\ dataQueue # <<>>
  /\ hand' = Head(dataQueue)
  /\ dataQueue' = Tail(dataQueue)
  /\ UNCHANGED <<consumer, sessionVars, producerVars, fillVars, orderVars, market, crashed, reported, fills>>

\* Mutant: the order joins the front of its level.
InsertFirst(o) ==
  LET p == Terms(o).price
      s == Terms(o).side
  IN  \/ /\ p \in Levels
         /\ book' = [book EXCEPT ![p][s] = <<o>> \o @]
         /\ status' = [status EXCEPT ![o] = "Active"]
      \/ /\ p \notin Levels
         /\ status' = [status EXCEPT ![o] = "Rejected"]
         /\ UNCHANGED book

\* level_btree::insert: the order joins the end of its level, or is rejected
\* if the walk through the tree ends outside of the price bounds.
Insert(o) ==
  LET p == Terms(o).price
      s == Terms(o).side
  IN  \/ /\ p \in Levels
         /\ book' = [book EXCEPT ![p][s] = Append(@, o)]
         /\ status' = [status EXCEPT ![o] = "Active"]
      \/ /\ p \notin Levels
         /\ status' = [status EXCEPT ![o] = "Rejected"]
         /\ UNCHANGED book

\* After the order with the last id, the consumer stops.
InsertOrder ==
  /\ ~ crashed
  /\ hand # Null
  /\ Insert(hand)
  /\ consumer' = IF id[hand] = StopId THEN "done" ELSE consumer
  /\ hand' = Null
  /\ UNCHANGED <<open, dataQueue, sessionVars, producerVars, fillVars, market, crashed, reported, fills>>

Consumer == TakeOrder \/ InsertOrder

-----------------------------------------------------------------------------
(* producer_fills                                                          *)

BeginScan ==
  /\ ~ crashed
  /\ producer = "idle"
  /\ producer' = "scan" /\ passed' = {}
  /\ snapshot' = Resting("buy")
  /\ UNCHANGED <<fill, crashed, sessionVars, consumerVars, fillVars, orderVars, market, reported, fills>>

\* Mutant: in_order for reverse_in_order.
CursorLowest == Min(Levels \ passed)

\* The level that the scan is at, and that it returned.
cursor == Max(Levels \ passed)

\* One step of get_best_bid: from the highest level down, one counter at a
\* time and without a lock, to the first level that has bids (BookScan).
ScanLevel ==
  /\ ~ crashed
  /\ producer = "scan"
  /\ \/ /\ Size(cursor, "buy") # 0
        /\ producer' = "pop"
        /\ UNCHANGED <<passed, crashed>>
     \/ /\ Size(cursor, "buy") = 0 /\ "null" \in FallOff
        /\ passed' = passed \cup {cursor}
        /\ producer' = IF passed' = Levels THEN "idle" ELSE producer
        /\ UNCHANGED crashed
     \/ /\ Size(cursor, "buy") = 0 /\ "crash" \in FallOff
        /\ crashed' = TRUE
        /\ UNCHANGED <<producer, passed>>
  /\ UNCHANGED <<fill, snapshot, sessionVars, consumerVars, fillVars, orderVars, market, reported, fills>>

\* level_queue::pop on that level finds no pair, and the loop starts again.
PopNothing ==
  /\ ~ crashed
  /\ producer = "pop"
  /\ \E s \in Sides : book[cursor][s] = <<>>
  /\ producer' = "idle"
  /\ UNCHANGED <<passed, snapshot, fill, crashed, sessionVars, consumerVars, fillVars, orderVars, market, reported, fills>>

\* Mutants: the larger quantity trades; the fill reports what was open.
LargerOf(b, a) == Max({open[b], open[a]})
FillOfOpen(b, a, n) == [buy |-> b, sell |-> a, qty |-> open[a]]

SmallerOf(b, a) == Min({open[b], open[a]})
FillOf(b, a, n) == [buy |-> b, sell |-> a, qty |-> n]

\* level_queue::pop: the two oldest orders trade (LevelFifo!Trade).
PopPair ==
  LET b == Head(book[cursor]["buy"])
      a == Head(book[cursor]["sell"])
      n == SmallerOf(b, a)
      Done(o) == open[o] = n
      Status(o) == IF Done(o) THEN "FullFill" ELSE "PartialFill"
  IN  /\ ~ crashed
      /\ producer = "pop"
      /\ \A s \in Sides : book[cursor][s] # <<>>
      /\ open' = [open EXCEPT ![b] = @ - n, ![a] = @ - n]
      /\ status' = [status EXCEPT ![b] = Status(b), ![a] = Status(a)]
      /\ book' = [book EXCEPT ![cursor] =
                    [s \in Sides |-> IF Done(Head(@[s])) THEN Tail(@[s]) ELSE @[s]]]
      /\ fill' = FillOf(b, a, n)
      /\ fills' = Append(fills, fill')
      /\ producer' = "push"
      /\ UNCHANGED <<passed, snapshot, crashed, sessionVars, consumerVars, fillVars, market, reported>>

\* The fill is queued, a listener woken, and the loop is left.
PushFill ==
  /\ ~ crashed
  /\ producer = "push"
  /\ fillQueue' = Append(fillQueue, fill)
  /\ fill' = Null
  /\ producer' = "done"
  /\ UNCHANGED <<passed, snapshot, listening, written, crashed, sessionVars, consumerVars, orderVars, market, reported, fills>>

Producer == BeginScan \/ ScanLevel \/ PopNothing \/ PopPair \/ PushFill

-----------------------------------------------------------------------------
(* consumer_fills, of which every listener runs its own on the one queue   *)

\* Mutants: nothing is filtered; the test of consumer_all_orders.
HalvesUnfiltered(l, f) == <<<<"sell", f>>>>
StopsAfterLast(f) == id[f.sell] = StopId

\* entity_stream::myfn: the buy half if the entity bought, else the sell half
\* if it sold, so only the buy half of a trade with itself.
Halves(l, f) == IF Owner(f.buy) = l THEN <<<<"buy", f>>>>
                ELSE IF Owner(f.sell) = l THEN <<<<"sell", f>>>> ELSE <<>>

\* A listener stops after a fill of any sell but the last.
StopsAfter(f) == id[f.sell] < StopId

TakeFill(l) ==
  LET f == Head(fillQueue)
  IN  /\ ~ crashed
      /\ l \in listening /\ fillQueue # <<>>
      /\ fillQueue' = Tail(fillQueue)
      /\ written' = [written EXCEPT ![l] = @ \o Halves(l, f)]
      /\ listening' = IF StopsAfter(f) THEN listening \ {l} ELSE listening
      /\ UNCHANGED <<sessionVars, consumerVars, producerVars, orderVars, market, crashed, reported, fills>>

-----------------------------------------------------------------------------
(* main: the jthreads are joined, then output_market                       *)

AllJoined ==
  /\ \A t \in Sessions : pos[t] \notin DOMAIN Script[t]
  /\ consumer = "done" /\ producer = "done" /\ listening = {}

NonEmpty(s) == {p \in Levels : Size(p, s) # 0}

\* The empty levels that get_best_bid and get_best_offer pass.
Passed == {p \in Levels : \/ \A q \in NonEmpty("buy") : p > q
                          \/ \A q \in NonEmpty("sell") : p < q}

\* The pointers that the two scans return are followed without a test.
OutputMarket ==
  /\ ~ crashed
  /\ AllJoined /\ market = Null
  /\ \/ /\ \A s \in Sides : NonEmpty(s) # {}
        /\ Passed = {} \/ "null" \in FallOff
        /\ LET bid == Max(NonEmpty("buy"))
               offer == Min(NonEmpty("sell"))
           IN  market' = [bid |-> bid, bidSize |-> Size(bid, "buy"),
                          offer |-> offer, offerSize |-> Size(offer, "sell")]
        /\ UNCHANGED crashed
     \/ /\ \/ \E s \in Sides : NonEmpty(s) = {}
           \/ Passed # {} /\ "crash" \in FallOff
        /\ crashed' = TRUE
        /\ UNCHANGED market
  /\ UNCHANGED <<sessionVars, consumerVars, producerVars, fillVars, orderVars, reported, fills>>

-----------------------------------------------------------------------------
\* No thread takes a step after the program has crashed.
Next == \/ \E t \in Sessions : Session(t)
        \/ Consumer
        \/ Producer
        \/ \E l \in Listeners : TakeFill(l)
        \/ OutputMarket

Spec == Init /\ [][Next]_vars

\* Every thread that is not blocked is scheduled again and again.  Only the
\* producer takes infinitely many steps, so the others share one condition.
FairSpec ==
  /\ Spec
  /\ WF_vars((\E t \in Sessions : Session(t)) \/ Consumer \/ (\E l \in Listeners : TakeFill(l)) \/ OutputMarket)
  /\ WF_vars(Producer)

-----------------------------------------------------------------------------
(* Properties *)

\* Types: the threads, the queues, the orders and the book keep their shape.
TypeOK ==
  /\ pos \in [Sessions -> Nat] /\ placing \in [Sessions -> {"no", "create", "created", "made"}]
  /\ singleton \in Sessions \cup {Null} /\ nextId \in [Sessions -> Nat]
  /\ id \in [Orders -> Nat \cup {Null}]
  /\ status \in [Orders -> {"Inactive", "Active", "FullFill", "PartialFill", "Cancelled", "Rejected"}]
  /\ open \in [Orders -> Nat]
  /\ consumer \in {"running", "done"} /\ hand \in Orders \cup {Null}
  /\ dataQueue \in Seq(Orders) /\ fill \in Fills \cup {Null}
  /\ fills \in Seq(Fills) /\ fillQueue \in Seq(Fills)
  /\ written \in [Listeners -> Seq(Sides \X Fills)]
  /\ book \in [Levels -> [Sides -> Seq(Orders)]]
  /\ producer \in {"idle", "scan", "pop", "push", "done"} /\ passed \subseteq Levels
  /\ listening \subseteq Listeners
  /\ crashed \in BOOLEAN
  /\ reported \subseteq Orders /\ snapshot \subseteq Orders

Sent(o) == pos[Owner(o)] > o[2]

InBook(o) == status[o] \in {"Active", "PartialFill"}

\* An order that was sent is in one place and only one: on its way, in the
\* hands of the consumer, in its own level, or gone for a reason its status
\* gives; the two queues, two threads and the cancellations neither lose nor
\* duplicate it.
OnePlace ==
  /\ IsInjective(dataQueue) /\ hand \notin ToSet(dataQueue)
  /\ \A p \in Levels, s \in Sides : IsInjective(book[p][s])
  /\ \A o \in Orders :
       /\ ~ Sent(o) => status[o] = "Inactive"
       /\ o = hand \/ o \in ToSet(dataQueue) <=> Sent(o) /\ status[o] = "Inactive"
       /\ \A p \in Levels, s \in Sides :
            o \in ToSet(book[p][s]) <=> InBook(o) /\ Terms(o).price = p /\ Terms(o).side = s
       /\ InBook(o) => Terms(o).price \in Levels

FilledQty(o) ==
  SumFunction([k \in DOMAIN fills |-> IF o \in {fills[k].buy, fills[k].sell} THEN fills[k].qty ELSE 0])

\* The fills of an order and what is still open add up to what was asked for.
Conservation == \A o \in Orders : FilledQty(o) + open[o] = Terms(o).qty

\* Between the orders of one session on one side of one level the earlier one
\* is served first: the later one is not in the book before it, and does not
\* trade while any of it is open.
SessionPriority == \A o, x \in Orders :
  /\ Owner(o) = Owner(x) /\ o[2] < x[2]
  /\ Terms(o).side = Terms(x).side /\ Terms(o).price = Terms(x).price
  => /\ status[x] # "Inactive" => status[o] # "Inactive"
     /\ open[x] < Terms(x).qty => status[o] \in {"FullFill", "Cancelled"}

\* All ids were given by the same generator.
OneGenerator == \A i, j \in Sessions : nextId[i] > 0 /\ nextId[j] > 0 => i = j

\* An order leaves the book as cancelled only if its own session has asked for
\* it: a cancellation knows an id, and takes the first order of its level that
\* has it.  With two generators that may be another session's.
WithdrawnWasAsked == OneGenerator => \A o \in Orders : status[o] = "Cancelled" => o \in reported

\* The level that the scan chose may no longer be the best one, but it passed
\* over no bid that rested at a higher price during the whole of the scan.
NoneOverlooked == producer = "pop" =>
  \A o \in snapshot \cap Resting("buy") : Terms(o).price <= cursor

\* The producer's scan is a scan by price, like the walk through the tree that
\* it stands for (PriceTree!Implements), whatever the other threads do to the
\* book meanwhile.
BestBid == INSTANCE BookScan
             WITH occupied <- [s \in Sides |-> {p \in Levels : book[p][s] # <<>>}],
                  looking  <- IF producer = "scan" THEN "buy" ELSE Null,
                  best     <- IF producer \in {"pop", "push", "done"} THEN cursor ELSE Null
ScansByPrice == BestBid!Spec

\* Every price level keeps the promise of LevelFifo, which LevelQueue keeps for
\* the code of the lists: an order joins behind those that wait, a trade is
\* between the oldest bid and the oldest ask, a cancellation takes out one order,
\* and no step of another thread shows at the level.  Ids are given while the
\* program runs, so an order stands for its id here; which order a cancellation
\* takes out is the matter of WithdrawnWasAsked.
\* A step that leaves orderVars alone changes nothing at any level.
AtLevel(p)  == {o \in Orders : Terms(o).price = p}
Precedes(q) == {<<q[w[1]], q[w[2]]>> : w \in {v \in (DOMAIN q) \X (DOMAIN q) : v[1] < v[2]}}
Waiting(p)  == [s \in Sides |-> ToSet(book[p][s])]
Earlier(p)  == UNION {Precedes(book[p][s]) : s \in Sides}
Come(p)     == {o \in AtLevel(p) : status[o] # "Inactive"}
Wanted(p)   == [o \in AtLevel(p) |-> open[o]]
Level(p) == INSTANCE LevelFifo
              WITH Orders     <- AtLevel(p),
                   Bids       <- {o \in AtLevel(p) : Terms(o).side = "buy"},
                   IdOf       <- [o \in AtLevel(p) |-> o],
                   Quantities <- {[o \in AtLevel(p) |-> Terms(o).qty]},
                   resting <- Waiting(p), ahead <- Earlier(p), joined <- Come(p), qty <- Wanted(p)
LevelsAreFifo ==
  /\ \A p \in Levels : Level(p)!Init
  /\ [][UNCHANGED orderVars \/ \A p \in Levels : [Level(p)!Next]_(Level(p)!vars)]_vars

\* A fill is about to be pushed, or queued, or taken by one listener, never by
\* two; and a listener writes only what was filled for its own entity.
OwnFillsOnce == \A l \in Listeners : \A e \in ToSet(written[l]) :
  /\ Owner(e[2][e[1]]) = l
  /\ e[2] \in ToSet(fills) /\ e[2] \notin ToSet(fillQueue) /\ e[2] # fill
  /\ \A k \in Listeners \ {l} : \A g \in ToSet(written[k]) : g[2] # e[2]

\* The published market is what rests in the book when all threads are gone,
\* and stays so: its prices are the best of all orders with something open, and
\* its sizes are all that is open there.
MarketIsBook == market # Null =>
  LET OpenAt(s, p) == SumFunctionOnSet(open, {o \in Resting(s) : Terms(o).price = p})
  IN  /\ market.bid = Max({Terms(o).price : o \in Resting("buy")})
      /\ market.offer = Min({Terms(o).price : o \in Resting("sell")})
      /\ market.bidSize = OpenAt("buy", market.bid)
      /\ market.offerSize = OpenAt("sell", market.offer)

\* What the proofs of the invariants need besides.
\* The orders of one session stand in a queue in the order it placed them, ...
InTurn(q) == \A i, j \in DOMAIN q : i < j /\ Owner(q[i]) = Owner(q[j]) => q[i][2] < q[j][2]
\* ... also the one that is between two queues; and they leave the first queue
\* so as well.
Turns ==
  /\ InTurn(dataQueue) /\ \A p \in Levels, s \in Sides : InTurn(book[p][s])
  /\ \A o \in ToSet(dataQueue) : hand # Null /\ Owner(o) = Owner(hand) => hand[2] < o[2]
  /\ \A o, x \in Orders :
       Owner(o) = Owner(x) /\ o[2] < x[2] /\ status[o] = "Inactive" => status[x] = "Inactive"

\* What the status of an order says of its price and its open quantity.
Statuses == \A o \in Orders :
  /\ status[o] = "Rejected" => Terms(o).price \notin Levels
  /\ status[o] \in {"Inactive", "Active"} => open[o] = Terms(o).qty
  /\ status[o] = "PartialFill" => open[o] > 0

\* An order has an id from its construction on.  It is below the counter of the
\* generator that gave it; and if there was one generator only, ids differ.
Numbered ==
  /\ \A o \in Orders :
       id[o] # Null <=> Sent(o) \/ (o[2] = pos[Owner(o)] /\ placing[Owner(o)] = "made")
  /\ \A o \in Orders : id[o] # Null => \E i \in Sessions : id[o] < nextId[i]
  /\ OneGenerator => \A o, x \in Orders : id[o] # Null /\ id[o] = id[x] => o = x

\* Where the threads are.
Stages ==
  /\ \A t \in Sessions : placing[t] # "no" => More(t, "place")
  /\ \A t \in Sessions : placing[t] = "created" => singleton # Null
  /\ consumer = "done" => hand = Null
  /\ producer \in {"scan", "pop", "push", "done"} => passed # Levels
  /\ \A o \in snapshot : status[o] # "Inactive"

\* The one fill is about to be pushed, or queued, or in at most one file.
FillFlow ==
  /\ producer \in {"idle", "scan", "pop"} => fills = <<>> /\ fill = Null
  /\ producer = "push" => fills = <<fill>>
  /\ producer # "done" => fillQueue = <<>> /\ \A l \in Listeners : written[l] = <<>>
  /\ producer = "done" =>
       /\ fill = Null /\ Len(fills) = 1
       /\ \/ fillQueue = fills /\ \A l \in Listeners : written[l] = <<>>
          \/ /\ fillQueue = <<>>
             /\ \E l \in Listeners :
                  /\ \A k \in Listeners \ {l} : written[k] = <<>>
                  /\ \A e \in ToSet(written[l]) : e[2] = fills[1] /\ Owner(e[2][e[1]]) = l

IInv ==
  /\ TypeOK /\ OnePlace /\ Turns /\ Statuses /\ Stages /\ FillFlow
  /\ Conservation /\ SessionPriority
  /\ market # Null => AllJoined

\* The sessions of HydeParkExchange.cpp ask for something with every order; one
\* for nothing would rest in a level whose counters are zero.
Positive == \A o \in Orders : Terms(o).qty > 0

\* The scan has not passed over a bid of the snapshot that still rests.
ScanInv == producer \in {"scan", "pop"} =>
  \A o \in snapshot \cap Resting("buy") : Terms(o).price \notin passed

\* The consumer of orders ends its work: the order it waits for arrives.  If
\* two generators have given ids, that order may not exist (order_id_singleton.h:30).
ConsumerStops == <>(consumer = "done" \/ crashed \/ ~ OneGenerator)

\* Once the fill is there, and sells anything but the last order, and no more
\* than one listener waits for it, every thread is joined and the market is
\* published; unless two generators have given ids.
FillEndsRun ==
  (producer = "push" /\ id[fill.sell] < StopId /\ Cardinality(listening) <= 1)
    ~> (market # Null \/ crashed \/ ~ OneGenerator)

\* "cancelled order ID" (single_asset_book.h:45): an order reported so does not
\* wait in the book any more.  A cancellation that overtakes its order in the
\* queue breaks it.
CancelledIsGone == \A o \in reported : o \notin Resting(Terms(o).side)

\* README:6, orders are filled "when an opposite order is placed": a level
\* with orders on both sides does not stay so.  The producer makes one fill,
\* and looks at the best bid only.
OppositeOrdersTrade == \A p \in Levels :
  (\A s \in Sides : book[p][s] # <<>>) ~> (crashed \/ \E s \in Sides : book[p][s] = <<>>)

\* README:34, "at the very end of the run after we tear down all the threads
\* we print the market prices".
RunEnds == <>(market # Null \/ crashed)
=============================================================================
