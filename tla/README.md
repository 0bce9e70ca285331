# HydeParkExchange: a TLA+ verification project

This directory holds the specification, the model-checking configurations and
the machine-checked proofs kept beside the exchange in
`src/src/HydeParkExchange/`.  Every definition was written from that code; where
the repository's `README.md` or a comment says something else, the difference is
a run of its own (see *Where the code and its documents disagree*).

## 1. Inventory of the system

| Part | State it keeps | Operations | Hard behaviour |
|---|---|---|---|
| `order.h`, `fill.h` | side, status, open quantity, id, owner, price | constructor (draws an id), `fill_order` | status and quantity are changed by several threads, each under some level's mutex |
| `order_id_singleton.h` | the instance pointer, the atomic counter | `get_instance`, `get_new_order_id` | unsynchronised test-and-create |
| `level_queue.h` | two doubly linked queues, two mutexes, two size counters | `push`, `pop`, `buy_pop`, `sell_pop` | relinking in the middle of a list under per-side mutexes; counters read without one |
| `btree.h` | the fixed tree of 15 price levels | `insert`, `cancel` (`search`), `get_best_bid`, `get_best_offer` | scans run without a lock while orders come and go; tolerance of 0.09; a missing return; an untested child |
| `single_asset_book.h` | the tree, the queue of fills | `insert`, `cancel`, `producer_fills`, `consumer_fills`, `output_market` | scan, then pop; one fill only; listeners share a queue; stop conditions on ids |
| `traders.h` | the queue of orders (`data_queue`, `m`, `cond`) | `place_limit_order`, `consumer_all_orders`, three sessions | the id is drawn before the queue is locked; a cancellation does not go through the queue; the consumer stops at id 9 |
| `HydeParkExchange.cpp` | six `jthread`s | `trade`, `main` | joining, then publishing |
| `entity_stream.h` | the entity of a file stream | `entity_filtered_manip` | which half of a fill is written |
| `fix_parser.hpp` | none (locals) | `parseFixMessage` | flags and values that are never initialised; conversions that throw; fields cut by a regular expression |
| `abstract_order_factory.h` | none | `create<limit_order>` | resolved at compile time |
| `ctre.hpp` (vendored) | the parser's stacks; the engine's captures; iterators | reading a pattern at compile time; `match`, `search`, `starts_with`, `range`, `tokenize`, `split`, filtering of several texts | an LL(1) machine with actions on a stack; repetitions rewritten when first sets do not meet; one try for anchored patterns; when an iteration ends; two UTF-8 decoders |
| `bloom_filter.hpp` | a bit vector | `insert`, `mayContain` | shared bits; size 0; not used by the exchange |
| `fmt/` (vendored) | none | `format` | output only |

How the parts interact.  A session parses a FIX message, makes an order (whose
constructor draws the id) and puts a copy on `data_queue` under `m`.  One
consumer thread pops that queue and inserts into the tree, which routes to a
level and calls `push`.  Sessions call `single_asset_book::cancel` *directly*:
it searches the tree and calls `buy_pop` or `sell_pop` in the session's thread.
One producer of fills loops over `get_best_bid` and `pop` until it has one fill,
which goes to a second queue; fill listeners pop that queue and write to their
entity's file.  `main` joins all threads and publishes the best bid and offer.
The condition variables are always waited on with a predicate.

What makes each part correct:

- *level*: the pointers form one list per side in the order of arrival; the
  counters and statuses agree with the lists whenever nobody is inside; a
  cancellation that misses had nothing to find; calls return.
- *ids*: sequential and distinct (they are, per generator).
- *tree*: an order is found again at the level it was put in; a scan
  overlooks no order that was there throughout.
- *FIX messages*: a complete message becomes an order with the values it states,
  never ends the program, and is not touched by memory nobody wrote; a session is
  told the id of the order it has queued.
- *regular expressions*: a pattern means what it says, in each encoding; the
  engine finds what a plain backtracking matcher finds; iterations end and lose
  no text.
- *Bloom filter*: no false negatives, and no maybe without a reason.
- *book, sessions, main*: no order is lost or doubled between the two queues;
  fills and open quantity add up; each session's orders keep their order; a fill
  is taken by one listener and written only for a party of the trade; what is
  published is what rests; the run ends.

## 2. Modules

| Module | Models | Uses |
|---|---|---|
| `LevelFifo` | what a price level promises: time priority, no threads, no pointers | - |
| `LevelQueue` | `level_queue.h`, step by step, any number of threads | INSTANCE `LevelFifo` (refinement) |
| `MCLevelQueue` | instances for TLC | `LevelQueue` |
| `LevelQueueProofs` | theorems | `LevelQueue`, `SumFacts`, TLAPS |
| `SumFacts` | lemmas: sums over finite sets, the extremes of one | TLAPS |
| `OrderIds` | `order_id_singleton.h` and its use by the order constructor | - |
| `BookScan` | what a scan for the best bid or offer promises while the book changes under it | - |
| `PriceTree` | `btree.h`: construction, `insert`, `cancel` with `search`, both scans, and what their callers do with the result | INSTANCE `BookScan` (refinement) |
| `MCPriceTree` | instances for TLC | `PriceTree` |
| `PriceTreeProofs` | theorems about the tree and the walks of `insert` and `search` | `PriceTree`, TLAPS |
| `PriceScanProofs` | theorems about the scans, and about which level an order finds | `PriceTreeProofs`, `SumFacts` |
| `Exchange` | sessions, consumer, producer of fills, listeners, `main` | INSTANCE `BookScan` and, for each level, `LevelFifo` (refinements) |
| `MCExchange` | two scripts for the sessions | `Exchange` |
| `ExchangeProofs` | theorems | `Exchange`, `SumFacts`, TLAPS |
| `FixParser` | `fix_parser.hpp`: the loop over the fields, conversions, uninitialised locals | `GrammarSymbols` |
| `SendOrder` | `send_fix_order` and `place_limit_order` of several sessions, from the parsed message to the queue | `OrderIds` |
| `SendOrderProofs` | theorems about `OrderIds` and `SendOrder` | `SendOrder`, TLAPS |
| `FixOrders` | the sessions with the parser's answers; what a message says by its delimiters | `SendOrder`, `FixParser` |
| `FixOrdersProofs` | theorems | `FixOrders`, `SendOrderProofs`, `SumFacts` |
| `FixFields` | the pattern of a field, and the matches that the engine finds | `FixOrders`, `RegexMethods` |
| `OrderEntry`, `MCOrderEntry` | the same with the parser of patterns; the messages | `FixFields`, `PcreGrammar`, INSTANCE `Ctll` |
| `GrammarSymbols` | terminals, sets of them and the alternatives of a rule (`ctll`) | - |
| `Ctll` | the LL(1) machine `ctll::parser`, for any grammar and actions | `GrammarSymbols` |
| `PcreGrammar` | the grammar of patterns | `GrammarSymbols`, `PcreActions` |
| `PcreActions` | what each action does to the stack of parts, and the counter of captures | - |
| `Unicode` | code units and code points of patterns and texts | - |
| `RegexAnalysis` | captures, anchors and first sets of a pattern | `PcreActions` |
| `RegexEval` | the engine, `ctre::evaluate` | `RegexAnalysis` |
| `RegexMethods` | `match`, `search`, `starts_with` | `RegexEval` |
| `RegexReference` | what a pattern means: all ways to match it, by preference | `RegexEval` |
| `Ctre`, `MCCtre` | a pattern from its literal to the last match of an iteration | `RegexMethods`, `RegexReference`, `PcreGrammar`, `Unicode`, INSTANCE `Ctll` |
| `BloomFilter`, `MCBloomFilter`, `BloomFilterProofs` | `bloom_filter.hpp`, instance, theorems | TLAPS |

Names follow the code (`buy_head` is `head["buy"]`, `pc` labels are the steps
between two accesses that another thread could tell apart).  An operator that
stands just before a definition under a comment "Mutant" is that definition with
a plausible mistake; it is used only to see that a property would notice.

### LevelQueue

One action per step of `push`, `buy_pop`/`sell_pop` and `pop`.  A step is what
lies between two points at which another thread could see a difference: the
scans of the book read `buy_size`/`sell_size` without a lock, so an update of a
counter is a step of its own, and so is the setting of a pointer where a call
updates several of them one after the other.  `queue_item`s are named by the
order they own (a `unique_ptr`, so no order is in two items).  `linked`,
`arrival` and `clock` are history variables that no guard reads.

| Code | Actions |
|---|---|
| `push` | `PushLock`, `LinkLast`, `SetTail`, `CountPushed` |
| `buy_pop`, `sell_pop` | `CancelThrows` (empty side: `invalid_argument`), `CancelLock`, `Advance`, `NotFound`, `Unlink`, `UncountCancelled` |
| `pop` | `PopLock`, `NoMatch`, `Fill`, `UncountSell`, `DropFilled` |

`std::scoped_lock` is its guarantee (it acquires both mutexes or waits with
neither).  Ids may repeat (see `OrderIds`); quantities may be zero or negative
(the parser accepts them).

`LevelFifo` is the promise: two sets of resting orders, the pairs of which the
first came before the second (`ahead`), and three actions, `Arrive`, `Trade`
(oldest bid with oldest ask) and `Withdraw` (oldest order with that id).  It has no
clock, so that an implementation may keep the order of arrival in whatever way it
likes.  The mapping of `LevelQueue` takes `resting` to the linked orders
that are not completely filled, and `ahead` to the times of arrival: an executed
order stops resting when its quantity is updated, two steps before it leaves the
list.

### OrderIds

`get_instance` is three steps: the test, the creation and the return of the
pointer, which in a racing build may be the value the thread has at hand or the
one another thread stored meanwhile (a nondeterministic choice, as the race is
undefined behaviour).  `get_new_order_id` is atomic.  The constructor of the
generator shadows its member with a local, so counters start at 0.

### PriceTree and BookScan

Prices are in cents.  The constructor's insertions are actions too, one per
level they walk through, so that what is proved of the tree is proved of the way
it is built; `OpenMarket` starts the threads.  From then on the tree is constant
and three walks may be under way in it, each one level per step:

| Code | Actions |
|---|---|
| `level_btree()`, `insert(double, ...)` | `BuildDescend`, `AddLevel`, `OpenMarket` |
| `insert(order&)` and its recursion (the consumer of orders) | `BeginInsert`, `InsertDescend`, `Push`, `Reject` |
| `cancel`, `search` (a session) | `BeginCancel`, `SearchDescend`, `SearchNull`, `CancelFound` |
| `get_best_bid`, `get_best_offer` (the producer; `main`) | `BeginScan`, `ScanDown`, `ReadOccupied`, `ReadEmpty`, `ScanUp`, `NothingFound` |
| `producer_fills`, `trade`, `output_market` | `NoFill`, `Match`, `JoinThreads`, `Quote` |

`fabs(price - leaf->price) < 0.09` is a difference below 9 cents, or a pair of
price and level that are 9 cents apart and whose difference comes out below
0.09 in double precision.  `Rounded` lists those pairs: `MCPriceTree` has the ones
of the 15 levels as the code computes them (`12.3 + 0.4` and so on); the proofs
hold for any.  The recursion of a scan needs no stack: what a caller does when its
child returns null depends only on which child it was.  Of a level only the set of
orders is kept, and `Match` says only that a bid and an offer there may trade.
`CancelFound` throws on an empty side, as in `LevelQueue`.  `span[l]` is a
history variable: the prices whose walk goes through `l`.

`BookScan` is the promise: levels are looked at from the best price to the worst,
empty ones are passed, the first that is not is returned.  `PriceTree` implements
it with its walk (the scan is over when the last level is passed, the climb back
to the root stutters), and `Exchange`, which has no tree, implements it with its
one step per level; so `Exchange` may leave the tree out.

### Exchange

Each session is a thread with a script of operations.

| Code | Actions |
|---|---|
| `place_limit_order`: the constructor of `order` with `get_instance` | `FindNone`, `Create`, `Construct` |
| `place_limit_order` from the lock on | `Enqueue` |
| `single_asset_book::cancel`, in the session's thread | `Cancel` |
| `consumer_all_orders` | `TakeOrder`, `InsertOrder` |
| `producer_fills` | `BeginScan`, `ScanLevel`, `PopNothing`, `PopPair`, `PushFill` |
| `consumer_fills` | `TakeFill` |
| `main` after the joins | `OutputMarket` |

Sessions race for the generator of ids as in `OrderIds`: each that finds no
instance creates one, named by its session, and `nextId` has a counter for each.
The reading of the pointer and the drawing of the id are one step here
(`Construct`): between them only a draw from the same generator can make a
difference, and that may as well come before both.  So with two generators ids
repeat, and the id at which the consumer stops may never be given; what needs
distinct or complete ids is stated under `OneGenerator` (`WithdrawnWasAsked`,
`ConsumerStops`, `FillEndsRun`), the rest for any number of generators.

`Cancel` is the whole of `single_asset_book::cancel` with the outcome of `search`
and of `buy_pop`/`sell_pop`: the program ends when the price is outside of the
tree (the null child is followed) or that side of the level is empty (the
exception leaves the thread); otherwise the first order of that side that carries
the id is taken out, whoever owns it, and nothing if there is none.  The scan for the best bid is one step per level and reads
only the counter.  A scan that passes an empty leaf falls off the end of a
function that returns a pointer, which is undefined; `FallOff` says what the
build makes of it (an unoptimised one returns null, an optimised one crashes),
and both are explored.  A call of a level is atomic here.  What justifies that is
`LevelFifo`: `LevelQueue` implements it with the pointers, locks and steps of the
code, and each level of the book here implements it too (`LevelsAreFifo`, where a
level is `Level(p)`: the two sequences of its price, and the orders there that have
come).  `main` starts one listener; with two, which the runs
allow, a fill may be taken by the one it does not concern, and then nobody writes it:
`OwnFillsOnce` bounds what is written from above only.  Sleeps order nothing: any
schedule that the code's `sleep_for` calls make unlikely is still possible.

### FixParser, SendOrder and OrderEntry

`SendOrder` is the session from the parser's answer on; the answers are a parameter
of its `Send`.  `FixOrders` gives it those that `FixParser` computes from the matches
of each message.  There the matches are a constant, `MatchesOf`, of which only the
meaning of the pattern `\x01([^=]+)=([^\x01]+)` and of an iteration is assumed
(`MatchesAssumption`): each match is where the pattern fits (`FitsAt`), its captures
are the parts before and behind the first `=`, and it is the first such place behind
its predecessor; behind the last there is none.  `FixFields` has the engine find them:
`MatchesFrom` is `ctre::range`, computed by `RegexMethods` on the tree `FixRegex`; and
that the grammar reads the pattern as that tree is `PatternRead`, for which `OrderEntry`
also runs the parser of patterns (`Compile`).  In `order_entry` TLC gives `MatchesOf` the
engine's matches and evaluates the assumption for them.

So the odd cases come from the code and not from an idea of FIX: a name runs over a
delimiter when a field has no `=`, a field without a value is skipped, the part
before the first delimiter is never looked at.  What a message *means* is said without
the pattern, by its delimiters (`Segments`, `Name`, `ValueOf`, `Stated`), and only for
messages that are `WellFormed`.  `stoi` and `stod` are external:
white space, a sign, digits, and an exception without a digit or above `IntMax`.
The locals `px`, `qty`, `side_is_buy` and the four flags start with any value
(`Uninitialised`); `Unwritten` stands for a number nobody wrote.  An exception
leaves the session's thread and ends the program (`crashed`).

| Code | Actions |
|---|---|
| the template argument of `ctre::range` | `Compile` |
| `send_fix_order`, `parseFixMessage` | `Send` |
| `create<limit_order>`, the constructor of `order`, `get_instance` | `Construct` (three steps of `OrderIds` and the drawing of the id) |
| `place_limit_order` from the lock on, the returns | `Enqueue` |

### Regular expressions

The program's only pattern is the one above, but what it relies on is the
library's promise about every pattern, so the header is modelled as a component:

- `Ctll` is the machine: one step per decision (`PopInput`, `PushRule`, `Skip`,
  `ApplyAction`, `Decide`).  `PcreGrammar` has one definition per group of rules,
  `PcreActions` one operator per kind of action; a part on the stack is a record
  with the name of the atom's type.
- `RegexEval!evaluate` is the engine, case by case; like the code's it never looks
  back into an iteration of a repetition, a group or an alternative other than by
  calling what follows, and repetitions are rewritten into possessive ones when
  `RegexAnalysis!collides` says so.
- `Ctre` reads a pattern, then calls a method: `Call` and `Increment` are the
  constructors and `operator++` of `regex_iterator` and `regex_split_iterator`,
  `CallForAll` and `IncrementSubject` those of `multi_subject_range`; of the comparisons
  with the sentinel, `!=` is the negation of `==`.
- `Unicode` has both decoders: of literals (`fixed_string`) and of texts
  (`utf8_iterator`, forwards and backwards).
- `RegexReference` is the specification the engine is compared with: all ways to
  match, in the order a backtracking matcher prefers.  It shares the smallest parts
  with the engine, so the runs say nothing of these: what a character, an assertion or
  a reference means on its own (`match_char`, `Holds`, `Referenced`).

The engine is not a backtracking matcher in every respect.  `Plain` names the
patterns on which the two must agree; outside of it are, on purpose:
repetitions with a choice inside (another repetition or a `select`; `(a*a?)*` even
recurses for ever on a text it does not fit), choices in a lookbehind, atomic groups
(never match) and modes.  Two oddities are in the tree that is read, and so in the
reference too: `a{0}` has no upper limit, and `\B` means `\b`.  A range does not advance
behind an empty match, and a split by an anchored pattern that does not match never
ends (a comment at `ctre.hpp:5294` calls the reason a hack), so `IterationAdvances` and
`SplitTiles` leave out those.  Which patterns are anchored, they take from the tree
(`Anchored`: every match passes the beginning) and not from the engine's own analysis,
so that a pattern which only looks anchored to the engine, as `(?:^a)?b` would without
the overloads for optionals, is found by a split that never ends.  `SkipsAnchor` names
the patterns that the analysis does take for anchored and that are not; they are the
subject of `ctre_anchor` and left out elsewhere.

### BloomFilter

One step per hash function of a call; `size_t` has `Width` bits, so the shift and
the sum of `calculateHash` lose what does not fit.  A filter of size 0 divides by
zero in its first call (`DivideByZero`).

## 3. Runs

| Run | What it shows | Bounds, and why they are enough |
|---|---|---|
| `queue_run` | counters, statuses, honest misses, refinement of `LevelFifo`, calls return, and the invariant of the proofs, of which the lists are a part | two threads; 3 bids (two with the same id) and one ask, in two sets of quantities, one with a bid of zero lots: enough for a relinking in the middle, at both ends and of the only item, and for partial fills on either side; two threads cover each pair of calls, and the mutexes admit at most one holder per side |
| `order_entry` | messages become the orders they state; no generator repeats an id; each session's turns | three sessions of two messages that all race to create; one of them takes its first message from fourteen, one for each way in which a message may be incomplete, cut wrongly or not convertible; the other two are interchangeable (symmetry); `IntMax` is 999 |
| `ids_unique` | violation: the comment's claim over all generators | 2 threads |
| `ctre_engine` | the engine against its reference, iterations, filters, encodings | all pairs of 20 quantified items, with and without captures, alternatives of them behind an anchor, about 100 patterns, among them one or more for each rule of the grammar, and characters of 2, 3 and 4 units in three encodings; all texts of up to 3 of two letters, wide and ill-formed ones, and ones ended by a null; 5 matches per iteration are more than a text has |
| `ctre_anchor` | violation: what a comment says of the analysis of anchors | one pattern, `(?:^a)*b`, and the texts of up to 3 letters |
| `bloom` | the promise of the filter | the three numbers of `bloom_test.cpp` and one more; sizes 0, 1, 7 (collisions) and 5000 as in the test; 0, 1 and 3 hash functions; 20 bits for a `size_t` |
| `tree_routes` | invariant of the proofs; cancellations end where insertions did; every order within bounds finds its level | the code's own tree of 15 levels; one order at each of 39 prices: levels, between them, out of bounds, and the ones 0.09 from a level on either side of the rounding; both kinds of build |
| `tree_scans` | refinement of `BookScan`, scans return, the published quotes are the best | 5 levels of the same shape (a leaf below the root, and above it an inner level with two leaves), 3 orders of either side at two prices on different sides of the root |
| `exchange_run` | conservation, published market, one place for every order, session priority, nothing overlooked, fills taken once, refinement of `BookScan` and, by each level, of `LevelFifo`; if one generator gave all ids, an order is withdrawn only if its session asked for it, the consumer stops and a fill ends the run | two sessions of seven operations that may create two generators: bids of both at the level that crosses, two of them of one session, a better bid, a cancellation by id, an offer that fills two bids and has some left, one outside of the tree; one or two listeners, fair, both kinds of build.  Every hazard here is between two sessions, or a session and another thread; three sessions run in the violations |
| `exchange_cancel`, `exchange_opposite`, `exchange_teardown` | violations, below | a small version of the run of `main` with its three sessions and one listener, in the build that returns null |

The literal 9 at which the consumer stops is `StopId`, set to the highest id of
the script, as in `main` where ten orders are sent.  The exchange runs use two
or three prices and quantities of 1 to 3: the smallest that give partial fills
on both sides, a better and a worse level, and a price without a level.
`CHECK_DEADLOCK FALSE` is set for the exchange and the tree, whose program is meant to end,
for `ids_unique` and `order_entry`, whose sessions make a bounded number of
orders, for `ctre_engine` and `ctre_anchor`, where a method returns or a pattern is rejected, and
for `bloom`, where a filter may have crashed.

Fairness.  `LevelQueue!FairSpec` is weak fairness of the steps *inside* a call
of each thread: once a thread has its lock, no step of the call waits for
anything.  Starting a call is not fair, and neither is getting a lock, since
`std::mutex` promises no order.  `PriceTree!FairSpec` is weak
fairness of the scanning thread: it takes no lock and waits for nothing.
`Exchange!FairSpec` is weak fairness of each
thread: every one of them waits only on a condition variable with a predicate
that stays true until that thread (or, for the fills, one of the listeners)
consumes it, so a running thread of the operating system's scheduler gets on.
`Ctre!Spec` is weakly fair to `Read`: a compiler that reads a pattern does not
stop in the middle.

## 4. Where the code and its documents disagree

Each is a run whose property quotes the document and that TLC violates.

1. `ids_unique`: the comment of `order_id_singleton.h` claims thread-safe
   sequential ids; two sessions that both find a null pointer use two generators.
2. `exchange_cancel`: "cancelled order ID" is printed whether or not anything
   was cancelled; a cancellation that overtakes its order in the queue is
   reported and the order enters the book afterwards.
3. `exchange_opposite`: the README says that an order is filled when an opposite
   order is placed; the producer makes one fill and looks at the best bid only.
4. `exchange_teardown`: the README says the threads are torn down and the market
   printed; if the last id is queued before a lower one, the consumer leaves that
   order in the queue, and if it was needed to cross, the run never ends.
5. `ctre_anchor`: a comment of `starts_with_anchor` says that if an option is empty there
   is an anchor behind it; for `*` and the other repetitions from 0 that is not tested.
   `(?:^a)*b` is taken for anchored, a search of `aab` tries the first place only and
   finds nothing, although the `b` at 2 matches.

## 5. Proofs

`LevelQueueProofs`, for any sets of threads, orders and ids, any assignment of
ids and any integer quantities (assumption `QueueAssumption`: the bids are
orders, ids and quantities are typed, and `Null` is none of them):

- `Invariant`: `Spec => []IInv`.  None of the properties is inductive alone.
  The list of a side is right only because its mutex is held while it is being
  relinked (`LockInv`), because the locals of a call name the item its next step
  needs (`CallInv`, `ItemInv`) and because arrival times are distinct
  (`HistoryInv`).  `ListInv` states the pointers against the history: `next` of
  `x` is the one that arrived directly after `x` among those still linked, and so
  on; between `LinkLast` and `SetTail` the tail lags.  `SearchInv` says that what
  a search has passed does not carry the id, `StatusInv` in which calls a status
  may differ from the list.  The proof goes in stages, each using those before
  it: types, locks and locals; then the history and the lists; then searches;
  then statuses; one step per action.
- `TypeCorrect`, `ListsCorrect`, `StatusCorrect`, `MissesAreHonest` follow.
- `CountersCorrect`: when a side's mutex is free, `buy_size` or `sell_size` is the sum
  of the open quantities in its list.  Inside a call it is not: `push` links before
  it counts, `pop` changes the order before the counter, a cancellation unlinks
  before it subtracts.  `SizeInv` therefore says that the counter is that sum plus
  what the call under way still owes it (`Owed`), and the proof follows the sum
  through each step that links, unlinks or fills an order.
- `CountersNatural`: if all quantities are natural numbers, no counter is ever
  negative, not even between two steps of a call.  The hypothesis is needed, since
  the parser accepts a negative quantity.
- `Refinement`: `Spec => Implements`.  `LinkLast` is `Arrive`, `Fill` is `Trade`,
  `Unlink` is `Withdraw`; every other step stutters.  The pairs of `ahead` are the
  pairs of resting orders with the times of their arrival in order, so the proof has
  to show of each step what it does to those pairs: that the one that links makes the
  new order the last of all that rest, and that no other changes the order of two.

`SumFacts` has what those proofs, and the ones of `Exchange`, use of
`SumFunctionOnSet`: how the sum changes with one element, that it is natural or
zero when the summands are, and that `Max` and `Min` of a finite set are members.
Induction is over a family of subsets, given as a set, that has a smallest member.

`PriceTreeProofs`, for any tree (root, distinct additions in any order), any
prices, orders and tolerance, and any outcome of the rounding:

- `Invariant`: `Spec => []IInv`.  The spans of the levels are nested: what goes
  through two levels goes through one of them to the other (`Nested`), and a child
  has exactly the part of its parent's span on its side (`ChildInv`).  So while the
  tree is built no level is lost, and a walk that has come to `l` has tried every
  level whose span contains `l` (`Reached`); one that ended nowhere has tried all
  there are on its way (`Missed`).
- `CancelsMeetInserts`: two levels that both accept price `p` and both lie on its way
  cannot both have been reached without one having been tried before the other
  (`WalksMeet`), so `search` ends where `insert` ended, although the one tests `<`
  and the other `>` and the tolerances of neighbours overlap.

`PriceScanProofs`, for the same trees, and for both outcomes of the scan that
falls off the end:

- `ScanInvariant`: `Spec => []ScanInv`.  The span of a level has no gap, and once the
  market is open every level is in the tree (`Whole`); so where the scan is says
  which levels it has passed (`PassInv`): going down, the levels ahead of it that are
  not below it; reading, those ahead of it; coming up, those ahead of it and those
  below it.  `WalkSets` shows that each step of the recursion leads from one of
  these sets to the right other one, for bids and offers alike.  After the threads
  are joined the book is frozen (`QuoteInv`).
- `ScanRefines`: `Spec => Implements`.  `ReadEmpty` is `Pass`, `ReadOccupied` is
  `Take`, `BeginScan` is `Begin`, what others do to the book is `Change`; a step
  down or up stutters.
- `BestQuotes`: `output_market` keeps the best bid and offer that rest, or null.
- `OrdersFindTheirLevel`: `RightLevel`, under the hypothesis `Ticks`: levels are
  further apart than the tolerance, no price between them is further than the
  tolerance from both, and the pairs that rounding decides are exactly at it.
  `MCPriceTree` has TLC evaluate `Ticks` for the tree of the constructor and the
  small one.  The proof needs that a walk cannot miss a level that takes its price:
  if the price is not in the span of that level, some level in between has both in
  its span and parts them (`Parted`, by taking the smallest span that has both), and
  it is nearer still (`RejectsAreFar`, which needs no hypothesis).

`ExchangeProofs`, for any set of sessions, any scripts, any finite set of levels,
any listeners and id at which the consumer stops, and both kinds of build.  The
assumptions on the constants say that a script is a sequence of operations whose
cancellations name an order placed before (a session has no other id to give), that
levels are integers and that `Null` is nothing else:

- `Invariant`: `Spec => []IInv`.  `OnePlace` needs that the queues hold no order twice
  and hold only orders in the right status; `SessionPriority` is a consequence of the
  turns (`Turns`): a session's orders are in its order in `dataQueue`, in each level,
  and from the hand of the consumer to the queue; `Statuses` ties the status of an
  order to its open quantity, `Stages` says who holds what between two steps, and
  `FillFlow` that the one fill is in one place.
- `LevelsKeepPromise`: `Spec => LevelsAreFifo`, and level by level `EveryLevelIsFifo`:
  `Spec => Level(p)!Spec` for each price level `p`.  `InsertOrder` is `Arrive` at its
  level, the pop of the producer `Trade`, a cancellation that finds the id
  `Withdraw` of the order that carries it, and a step at one level is none at any other.  It needs the invariant:
  that the sequences of a level hold the orders of its price and side once each, that
  one waiting in a queue has not come yet, and that what rests is not filled.
- `Types`, `EveryOrderHasItsPlace`, `QuantitiesConserved`, `SessionsInTurn` and
  `FillsTakenOnce` follow.
- `CancellationsAreOwn`: `WithdrawnWasAsked`, with one more invariant (`Numbered`): an
  order has an id from its construction on, every id is below the counter of the
  generator that gave it, and with one generator no two orders share one.  So the
  order that a cancellation finds is the one whose id it was given.
- `BestBidNotOverlooked`, `PublishedMarketIsBook` and `ScanIsByPrice` (the refinement
  of `BookScan`) assume `Positive`: every order asks for something.  The sessions of
  `HydeParkExchange.cpp` do, and so do the scripts of the runs; an order for zero
  lots rests at a level whose counter is zero, and a scan rightly passes it.
  `PublishedMarketIsBook` also needs that nothing happens once the market is
  published (`Over`).

`SendOrderProofs` has the theorems about `OrderIds`, for any number of threads and
orders: `Invariant`, `DistinctPerGenerator`, `SequentialIds`; and those about
`SendOrder`, for any sessions and messages and any answers of the parser:
`SendInvariant` adds to `TurnsKept` that a session is in the constructor of an order
only while it orders, and that the order it is about to queue carries the id it was
given last (`Placing`); `SessionsKeepTurns` follows.  `SendingNumbers` shows that the
sessions implement `OrderIds!Spec`, so `DistinctPerGenerator` and `SequentialIds` are
about the orders in the queue.  `SequentialIds` (no id is skipped) is proved and no run
checks it; in the runs of `Exchange` a skipped id would show in `ConsumerStops`.

`FixOrdersProofs`, for any sessions and any texts as messages, any `MatchesOf` with
`MatchesAssumption` (above) and any bound `IntMax`; `NullAssumption` says that the
optional without a value is not a tuple:

- `ParserIs`: what the parser's loop leaves in a local variable is the converted value
  of the last field for it, and what the memory held if there is none, provided that
  nothing throws.  The loop is a recursive function; `LocalsExist` shows that there is
  such a function by extending it field by field, after which a fact about it goes from
  each turn to the next (`LocalsStep`, `ReadFieldIs`).  The four tags differ, so at
  most one branch is taken.
- `FieldsStated`: in a well-formed message the matches are the fields between the
  delimiters.  The pattern fits at the delimiter before each field (`SegmentFits`), in
  one way only (`FitUnique`) and nowhere else (`FitIsSegment`); so each match cuts out one
  field (`MatchCuts`), they are in the order of the message (`MatchesIncrease`), and no
  field is passed over, because between two matches the pattern fits nowhere
  (`EveryFieldMatched`).
- `FixInvariant`: `FixSpec => [](SendInv(Outcomes) /\ FixInv)`.  A session holds an answer of
  the parser to the message it sends, for *some* content of the memory, and only an
  exception of the parser ends the program.
- `CompleteMessagesAreOrdered` and `UnwrittenIsMissing` follow, that is
  `CompleteIsOrdered` and `OnlyMissingIsUnwritten` of `FixSpec`.

The steps of `OrderEntry` on the variables of `SendOrder` are steps of
`SendNext(Outcomes)`, so what is proved of `SendOrder` and `FixOrders` is about its
sessions; that its `MatchesOf` is what the engine finds is not proved but evaluated.

`BloomFilterProofs`, for any elements, hashes, sizes and numbers of hash
functions: `Invariant` (the bits of what was inserted are set, and so are those
an insert or a question under way has passed; and every bit that is set belongs to an
element that was inserted or is being inserted), `NeverDenied` and
`MaybesHaveReason`.

The inductive invariants were checked by TLC on the instances of the runs before they
were proved: `IInv` of `LevelQueue` and `PriceTree` are invariants of the runs, `FixInv`
was checked on the instance of `order_entry`, and `ScanInv` of `PriceTree` on that of
`tree_scans`, not on the larger one of `tree_routes`.

Checked by TLC only: all liveness (`CallsReturn`, `ScansReturn`, `ConsumerStops`,
`FillEndsRun`, `ReadingEnds`: fairness and ENABLED are outside of
the prover's reach), and what is computed by RECURSIVE operators, which the prover
cannot expand: the engine, the actions on patterns and the decoders, and with them
every property of `Ctre`, `PatternRead` of `OrderEntry`, and that the engine's matches
are as `MatchesAssumption` says.

## 6. Not modelled

- `order_type` and the market and IOC orders: nothing in the code acts on them.
- The copy operations of the tree and the levels: used before any order exists,
  if at all; they copy neither orders nor, for the tree, children's contents.
- Memory: the `prev`/`next` cycles of the queues leak; nothing depends on it.
- Output formatting and the vendored `fmt`: only printing uses it.
- Of `ctre.hpp`: properties of characters (`\p{...}`), whose tables the header
  declares and does not define; conversions of results to strings and numbers,
  structured bindings; wide characters; texts in UTF-16 and UTF-32, whose units are
  taken as characters like those of `std::string_view`.
- Of `std::stod`: exponents, infinities and hexadecimal numbers.
- The orders of `entity_stream.h`: nothing sends them there.

## 7. Plan

1. Done: `LevelFifo`, `LevelQueue` and its proofs, `OrderIds`, `BookScan`, `PriceTree`
   and its proofs, `Exchange` and its proofs, with its levels shown to implement
   `LevelFifo`, `FixParser`, `SendOrder` and `FixOrders` and their proofs, `OrderEntry`,
   the regular expressions, `BloomFilter` and its proofs.
2. Patterns whose repetitions can match the empty text: a reference for what the
   engine makes of them.
3. `RegexEval` without RECURSIVE operators, so that what it makes of the pattern of a
   field can be proved to be what `MatchesAssumption` says.
