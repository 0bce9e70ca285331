----------------------------- MODULE LevelQueue ------------------------------
(***************************************************************************)
(* level_queue (level_queue.h): the doubly linked queues of one price      *)
(* level, one per side, their two mutexes and their two size counters,     *)
(* used by several threads at once.  Every call is a critical section of   *)
(* several steps, because threads that scan the book read the counters     *)
(* without a lock, and because the lists are right only thanks to the      *)
(* locks.  A queue_item is named by the order it owns.                     *)
(***************************************************************************)
EXTENDS Integers, FiniteSets, FiniteSetsExt

CONSTANTS
  Orders,      \* the order objects that may be pushed here
  Bids,        \* those of them whose side_ is Buy
  Ids,         \* order ids
  IdOf,        \* order_id_ of each order; the id generator may repeat one
  Quantities,  \* the quantities the orders may be placed with: functions of the order
  Threads,     \* the threads that hold a pointer to this level
  Null         \* nullptr, and an unlocked mutex

ASSUME QueueAssumption ==
  /\ Bids \subseteq Orders
  /\ IdOf \in [Orders -> Ids]
  /\ Quantities \subseteq [Orders -> Int]
  /\ Null \notin Orders
  /\ Null \notin Ids
  /\ Null \notin Threads

VARIABLES
  \* the memory of the level
  next, prev,  \* the links of each queue_item
  head, tail,  \* buy_head, buy_tail, sell_head, sell_tail, by side
  size,        \* buy_size and sell_size, by side
  qty, status, \* quantity_ and status_ of each order
  mtx,         \* the thread that holds buy_mtx / sell_mtx, by side
  \* the call each thread is in
  pc,          \* where it is
  book,        \* the side it works on
  item,        \* new_item, or item_to_check
  target,      \* the order_id to cancel
  amount,      \* filled_qty
  \* history, read by no guard
  linked,      \* the items that are in each list
  arrival,     \* when each item joined its list, 0 if it has not
  clock        \* the last arrival time

links   == <<next, prev, head, tail>>
orderVars == <<qty, status>>
locals  == <<book, item, target, amount>>
history == <<linked, arrival, clock>>
vars    == <<links, size, orderVars, mtx, pc, locals, history>>

Sides == {"buy", "sell"}
SideOf(o) == IF o \in Bids THEN "buy" ELSE "sell"

Statuses == {"Inactive", "Active", "FullFill", "PartialFill", "Cancelled"}
Ready    == {"idle", "threw"}     \* no call in progress
Steps    == {"link", "settail", "count", "search", "uncount",
             "match", "sellsize", "drop"}

\* Mutant: std::max for std::min.
Larger(a, b) == IF a >= b THEN a ELSE b

Smaller(a, b) == IF a <= b THEN a ELSE b

\* Mutant: fill_order forgets to look whether anything is left.
StatusAfterAlwaysFull(o, f) == "FullFill"

\* order::fill_order(f): the status of o once f of its quantity is executed
StatusAfter(o, f) == IF qty[o] - f = 0 THEN "FullFill" ELSE "PartialFill"

-----------------------------------------------------------------------------
Init ==
  /\ next = [o \in Orders |-> Null] /\ prev = [o \in Orders |-> Null]
  /\ head = [s \in Sides |-> Null]  /\ tail = [s \in Sides |-> Null]
  /\ size = [s \in Sides |-> 0]
  /\ qty \in Quantities
  /\ status = [o \in Orders |-> "Inactive"]
  /\ mtx = [s \in Sides |-> Null]
  /\ pc = [t \in Threads |-> "idle"]
  /\ book = [t \in Threads |-> "buy"]
  /\ item = [t \in Threads |-> Null]
  /\ target = [t \in Threads |-> Null]
  /\ amount = [t \in Threads |-> 0]
  /\ linked = [s \in Sides |-> {}]
  /\ arrival = [o \in Orders |-> 0]
  /\ clock = 0

Goto(t, l) == pc' = [pc EXCEPT ![t] = l]

Acquire(t, S) ==
  /\ \A s \in S : mtx[s] = Null
  /\ mtx' = [s \in Sides |-> IF s \in S THEN t ELSE mtx[s]]

\* The end of a call: the guard's destructor unlocks, the locals die.
Return(t, S) ==
  /\ mtx' = [s \in Sides |-> IF s \in S THEN Null ELSE mtx[s]]
  /\ book' = [book EXCEPT ![t] = "buy"]
  /\ item' = [item EXCEPT ![t] = Null]
  /\ target' = [target EXCEPT ![t] = Null]
  /\ amount' = [amount EXCEPT ![t] = 0]

-----------------------------------------------------------------------------
(* push: the caller hands over the order (a unique_ptr, so no other thread *)
(* has it), and it joins the tail of its side.                             *)

PushLock(t, o) ==
  /\ pc[t] \in Ready
  /\ arrival[o] = 0 /\ \A u \in Threads : item[u] # o
  /\ Acquire(t, {SideOf(o)})
  /\ Goto(t, "link")
  /\ book' = [book EXCEPT ![t] = SideOf(o)]
  /\ item' = [item EXCEPT ![t] = o]
  /\ UNCHANGED <<links, size, orderVars, target, amount, history>>

LinkLast(t) ==
  LET s == book[t]
      o == item[t]
  IN  /\ pc[t] = "link"
      /\ \/ /\ tail[s] # Null
            /\ next' = [next EXCEPT ![tail[s]] = o]
            /\ prev' = [prev EXCEPT ![o] = tail[s]]
            /\ UNCHANGED head
         \/ /\ tail[s] = Null
            /\ head' = [head EXCEPT ![s] = o]
            /\ UNCHANGED <<next, prev>>
      /\ linked' = [linked EXCEPT ![s] = @ \cup {o}]
      /\ clock' = clock + 1
      /\ arrival' = [arrival EXCEPT ![o] = clock + 1]
      /\ Goto(t, "settail")
      /\ UNCHANGED <<tail, size, orderVars, mtx, locals>>

\* Mutant: the tail is set for the first item only.
SetTailOnce(t) ==
  /\ pc[t] = "settail"
  /\ tail' = [tail EXCEPT ![book[t]] = IF @ = Null THEN item[t] ELSE @]
  /\ Goto(t, "count")
  /\ UNCHANGED <<next, prev, head, size, orderVars, mtx, locals, history>>

SetTail(t) ==
  /\ pc[t] = "settail"
  /\ tail' = [tail EXCEPT ![book[t]] = item[t]]
  /\ Goto(t, "count")
  /\ UNCHANGED <<next, prev, head, size, orderVars, mtx, locals, history>>

\* Mutant: the order is counted but never becomes Active.
CountPushedInactive(t) ==
  /\ pc[t] = "count"
  /\ size' = [size EXCEPT ![book[t]] = @ + qty[item[t]]]
  /\ Return(t, {book[t]})
  /\ Goto(t, "idle")
  /\ UNCHANGED <<links, orderVars, history>>

CountPushed(t) ==
  /\ pc[t] = "count"
  /\ size' = [size EXCEPT ![book[t]] = @ + qty[item[t]]]
  /\ status' = [status EXCEPT ![item[t]] = "Active"]
  /\ Return(t, {book[t]})
  /\ Goto(t, "idle")
  /\ UNCHANGED <<links, qty, history>>

-----------------------------------------------------------------------------
(* buy_pop and sell_pop: cancel the first item that carries the id.        *)

\* Mutant: sell_pop is a copy of buy_pop and still tests buy_head.
CancelThrowsCopied(t, s) ==
  /\ pc[t] \in Ready
  /\ mtx[s] = Null /\ head["buy"] = Null
  /\ Goto(t, "threw")
  /\ book' = [book EXCEPT ![t] = s]
  /\ UNCHANGED <<links, size, orderVars, mtx, item, target, amount, history>>

\* Nothing rests on that side: the call throws, whatever the id.  The side of
\* the call is kept while its exception is on its way.
CancelThrows(t, s) ==
  /\ pc[t] \in Ready
  /\ mtx[s] = Null /\ head[s] = Null
  /\ Goto(t, "threw")
  /\ book' = [book EXCEPT ![t] = s]
  /\ UNCHANGED <<links, size, orderVars, mtx, item, target, amount, history>>

CancelLock(t, s, id) ==
  /\ pc[t] \in Ready
  /\ Acquire(t, {s})
  /\ head[s] # Null
  /\ Goto(t, "search")
  /\ book' = [book EXCEPT ![t] = s]
  /\ item' = [item EXCEPT ![t] = head[s]]
  /\ target' = [target EXCEPT ![t] = id]
  /\ UNCHANGED <<links, size, orderVars, amount, history>>

\* Mutant: the search does not move on.
AdvanceStuck(t) ==
  /\ pc[t] = "search"
  /\ item[t] # Null /\ IdOf[item[t]] # target[t]
  /\ UNCHANGED vars

Advance(t) ==
  /\ pc[t] = "search"
  /\ item[t] # Null /\ IdOf[item[t]] # target[t]
  /\ item' = [item EXCEPT ![t] = next[item[t]]]
  /\ UNCHANGED <<links, size, orderVars, mtx, pc, book, target, amount, history>>

\* The whole list was searched in vain: the call returns, silently.
NotFound(t) ==
  /\ pc[t] = "search"
  /\ item[t] = Null
  /\ Return(t, {book[t]})
  /\ Goto(t, "idle")
  /\ UNCHANGED <<links, size, orderVars, history>>

Unlink(t) ==
  LET s == book[t]
      x == item[t]
  IN  /\ pc[t] = "search"
      /\ x # Null /\ IdOf[x] = target[t]
      /\ tail' = IF tail[s] = x THEN [tail EXCEPT ![s] = prev[x]] ELSE tail
      /\ head' = IF head[s] = x THEN [head EXCEPT ![s] = next[x]] ELSE head
      /\ next' = IF prev[x] # Null THEN [next EXCEPT ![prev[x]] = next[x]] ELSE next
      /\ prev' = IF next[x] # Null THEN [prev EXCEPT ![next[x]] = prev[x]] ELSE prev
      /\ linked' = [linked EXCEPT ![s] = @ \ {x}]
      /\ Goto(t, "uncount")
      /\ UNCHANGED <<size, orderVars, mtx, locals, arrival, clock>>

UncountCancelled(t) ==
  /\ pc[t] = "uncount"
  /\ status' = [status EXCEPT ![item[t]] = "Cancelled"]
  /\ size' = [size EXCEPT ![book[t]] = @ - qty[item[t]]]
  /\ Return(t, {book[t]})
  /\ Goto(t, "idle")
  /\ UNCHANGED <<links, qty, history>>

-----------------------------------------------------------------------------
(* pop: match the two heads.  scoped_lock takes both mutexes or neither.   *)

PopLock(t) ==
  /\ pc[t] \in Ready
  /\ Acquire(t, Sides)
  /\ Goto(t, "match")
  /\ UNCHANGED <<links, size, orderVars, locals, history>>

\* One side is empty: the call returns nullptr.
NoMatch(t) ==
  /\ pc[t] = "match"
  /\ \E s \in Sides : head[s] = Null
  /\ Return(t, Sides)
  /\ Goto(t, "idle")
  /\ UNCHANGED <<links, size, orderVars, history>>

Fill(t) ==
  LET b == head["buy"]
      a == head["sell"]
      f == Smaller(qty[b], qty[a])
  IN  /\ pc[t] = "match"
      /\ b # Null /\ a # Null
      /\ qty' = [qty EXCEPT ![b] = @ - f, ![a] = @ - f]
      /\ status' = [status EXCEPT ![b] = StatusAfter(b, f), ![a] = StatusAfter(a, f)]
      /\ size' = [size EXCEPT !["buy"] = @ - f]
      /\ amount' = [amount EXCEPT ![t] = f]
      /\ Goto(t, "sellsize")
      /\ UNCHANGED <<links, mtx, book, item, target, history>>

\* Mutant: both subtractions hit buy_size.
UncountSellAsBuy(t) ==
  /\ pc[t] = "sellsize"
  /\ size' = [size EXCEPT !["buy"] = @ - amount[t]]
  /\ Goto(t, "drop")
  /\ UNCHANGED <<links, orderVars, mtx, locals, history>>

UncountSell(t) ==
  /\ pc[t] = "sellsize"
  /\ size' = [size EXCEPT !["sell"] = @ - amount[t]]
  /\ Goto(t, "drop")
  /\ UNCHANGED <<links, orderVars, mtx, locals, history>>

\* Each head that is now complete leaves its list; the fill is returned.
DropFilled(t) ==
  LET done == {s \in Sides : status[head[s]] = "FullFill"}
      newHead(s) == next[head[s]]
  IN  /\ pc[t] = "drop"
      /\ head' = [s \in Sides |-> IF s \in done THEN newHead(s) ELSE head[s]]
      /\ prev' = [o \in Orders |-> IF \E s \in done : o = newHead(s) THEN Null ELSE prev[o]]
      /\ tail' = [s \in Sides |-> IF s \in done /\ newHead(s) = Null THEN Null ELSE tail[s]]
      /\ linked' = [s \in Sides |-> IF s \in done THEN linked[s] \ {head[s]} ELSE linked[s]]
      /\ Return(t, Sides)
      /\ Goto(t, "idle")
      /\ UNCHANGED <<next, size, orderVars, arrival, clock>>

-----------------------------------------------------------------------------
\* Calls a thread may start, and the steps of the call it is in.
Begin(t) ==
  \/ \E o \in Orders : PushLock(t, o)
  \/ \E s \in Sides : CancelThrows(t, s)
  \/ \E s \in Sides, id \in Ids : CancelLock(t, s, id)
  \/ PopLock(t)

Proceed(t) ==
  \/ LinkLast(t) \/ SetTail(t) \/ CountPushed(t)
  \/ Advance(t) \/ NotFound(t) \/ Unlink(t) \/ UncountCancelled(t)
  \/ NoMatch(t) \/ Fill(t) \/ UncountSell(t) \/ DropFilled(t)

Next == \E t \in Threads : Begin(t) \/ Proceed(t)

Spec == Init /\ [][Next]_vars

\* The scheduler never stops a thread that is inside a call: nothing blocks
\* between the lock and the unlock.
FairSpec == Spec /\ \A t \in Threads : WF_vars(Proceed(t))

-----------------------------------------------------------------------------
(* Properties *)

\* Types: the pointers, counters, locks and locals of the calls keep their shape.
TypeOK ==
  /\ next \in [Orders -> Orders \cup {Null}]
  /\ prev \in [Orders -> Orders \cup {Null}]
  /\ head \in [Sides -> Orders \cup {Null}]
  /\ tail \in [Sides -> Orders \cup {Null}]
  /\ size \in [Sides -> Int]
  /\ qty \in [Orders -> Int]
  /\ status \in [Orders -> Statuses]
  /\ mtx \in [Sides -> Threads \cup {Null}]
  /\ pc \in [Threads -> Ready \cup Steps]
  /\ book \in [Threads -> Sides]
  /\ item \in [Threads -> Orders \cup {Null}]
  /\ target \in [Threads -> Ids \cup {Null}]
  /\ amount \in [Threads -> Int]
  /\ linked \in [Sides -> SUBSET Orders]
  /\ arrival \in [Orders -> Nat]
  /\ clock \in Nat

\* Thread t is between the lock and the unlock of side s.
Holds(t, s) ==
  \/ pc[t] \in {"match", "sellsize", "drop"}
  \/ pc[t] \in {"link", "settail", "count", "search", "uncount"} /\ book[t] = s

\* The mutexes are held by exactly the threads that are inside a call on
\* that side, so never by two of them (lock_guard and scoped_lock).
LockInv == \A t \in Threads, s \in Sides : mtx[s] = t <=> Holds(t, s)

\* y joined list s directly after x, among those still in the list.
Follows(s, x, y) ==
  /\ y \in linked[s]
  /\ arrival[x] < arrival[y]
  /\ \A z \in linked[s] : arrival[z] <= arrival[x] \/ arrival[y] <= arrival[z]

First(s, x) == x \in linked[s] /\ \A z \in linked[s] : arrival[x] <= arrival[z]
Last(s, x)  == x \in linked[s] /\ \A z \in linked[s] : arrival[z] <= arrival[x]

HeadInv(s) == IF linked[s] = {} THEN head[s] = Null ELSE First(s, head[s])
NextInv(s) == \A x \in linked[s] :
                IF next[x] = Null THEN Last(s, x) ELSE Follows(s, x, next[x])
PrevInv(s) == \A x \in linked[s] :
                IF prev[x] = Null THEN First(s, x)
                ELSE prev[x] \in linked[s] /\ Follows(s, prev[x], x)
TailInv(s) == IF linked[s] = {} THEN tail[s] = Null ELSE Last(s, tail[s])

\* Between LinkLast and SetTail the tail pointer still names the item that
\* was last before; whoever holds the mutex knows that, nobody else may look.
TailLags(s) == \E t \in Threads : pc[t] = "settail" /\ book[t] = s
LaggingTailInv(s) == \A t \in Threads :
  pc[t] = "settail" /\ book[t] = s => Last(s, item[t]) /\ tail[s] = prev[item[t]]

\* The pointers of each side describe one list, the same read forwards and
\* backwards: the items pushed and not yet popped or cancelled, in the order
\* in which they were pushed (level_queue.h, queue_item and all its users).
ListInv == \A s \in Sides :
  /\ HeadInv(s) /\ NextInv(s) /\ PrevInv(s)
  /\ IF TailLags(s) THEN LaggingTailInv(s) ELSE TailInv(s)

OpenQty(s) == SumFunctionOnSet(qty, linked[s])

\* Whenever nobody is inside a call on a side, its counter is the sum of what
\* its queue still wants (buy_size and sell_size, the only thing the scans of
\* the book and the published market look at).
SizeAgrees == \A s \in Sides : mtx[s] = Null => size[s] = OpenQty(s)

\* A thread that reads a counter without the lock, in the middle of somebody
\* else's call, never sees it below zero.
SizeNeverNegative == \A s \in Sides : size[s] >= 0

\* Whenever nobody is inside a call on a side, the orders in its queue are
\* exactly those whose status says so: nothing executed or cancelled can be
\* matched again, and no open order has dropped out of the list.
StatusAgrees == \A s \in Sides : mtx[s] = Null =>
  \A o \in Orders : o \in linked[s] <=> SideOf(o) = s /\ status[o] \in {"Active", "PartialFill"}

\* What the proofs need on top of the properties above to make them inductive:
\* each call has in its locals what its next step dereferences, ...
CallInv == \A t \in Threads :
  /\ pc[t] \in {"link", "settail", "count", "uncount"} => item[t] \in Orders
  /\ pc[t] = "search" => target[t] \in Ids
  /\ pc[t] \in {"sellsize", "drop"} => \A s \in Sides : head[s] # Null

\* ... the history variables are what they are meant to be, ...
HistoryInv ==
  /\ \A o \in Orders : arrival[o] <= clock
  /\ \A x, y \in Orders : arrival[x] = arrival[y] /\ arrival[x] # 0 => x = y
  /\ \A s \in Sides : \A o \in linked[s] : arrival[o] # 0 /\ SideOf(o) = s
  /\ \A o \in Orders : arrival[o] = 0 => next[o] = Null /\ prev[o] = Null /\ status[o] = "Inactive"

\* ... the item of each call is where the step it is at expects it, ...
ItemInv == \A t \in Threads :
  LET x == item[t]
      s == book[t]
  IN  /\ pc[t] = "link" => arrival[x] = 0 /\ SideOf(x) = s
      /\ pc[t] \in {"settail", "count"} => x \in linked[s] /\ status[x] = "Inactive"
      /\ pc[t] = "search" /\ x # Null => x \in linked[s]
      /\ pc[t] = "uncount" => x \notin linked[s] /\ SideOf(x) = s /\ arrival[x] # 0

\* ... everything that a search has passed carries another id, ...
SearchInv == \A t \in Threads : pc[t] = "search" =>
  \A o \in linked[book[t]] :
    (item[t] = Null \/ arrival[o] < arrival[item[t]]) => IdOf[o] # target[t]

\* ... and an order is in its list against its status only in the middle of
\* the call that is about to make the two agree.
StatusInv == \A o \in Orders :
  LET s == SideOf(o)
  IN  /\ o \in linked[s] /\ status[o] = "FullFill" =>
           o = head[s] /\ \E t \in Threads : pc[t] \in {"sellsize", "drop"}
      /\ o \in linked[s] /\ status[o] = "Inactive" =>
           \E t \in Threads : pc[t] \in {"settail", "count"} /\ item[t] = o
      /\ status[o] = "Cancelled" => o \notin linked[s]
      /\ status[o] \in {"Active", "PartialFill"} /\ o \notin linked[s] =>
           \E t \in Threads : pc[t] = "uncount" /\ item[t] = o

\* What thread t, which holds side s, still has to add to its counter.
Owed(t, s) ==
  CASE pc[t] \in {"settail", "count"} /\ book[t] = s -> qty[item[t]]
    [] pc[t] = "uncount" /\ book[t] = s -> 0 - qty[item[t]]
    [] pc[t] = "sellsize" /\ s = "sell" -> 0 - amount[t]
    [] OTHER -> 0

\* A counter is right but for what the holder of its mutex still owes it, and
\* an order that is dropped as executed has nothing left to count.
SizeInv ==
  /\ \A s \in Sides : IsFiniteSet(linked[s])
  /\ \A s \in Sides : size[s] = OpenQty(s) - (IF mtx[s] = Null THEN 0 ELSE Owed(mtx[s], s))
  /\ \A o \in Orders : status[o] = "FullFill" => qty[o] = 0

IInv == /\ TypeOK /\ LockInv /\ CallInv
        /\ HistoryInv /\ ItemInv /\ ListInv
        /\ SearchInv /\ StatusInv /\ SizeInv

\* A cancellation comes back without having cancelled only if there is nothing
\* to cancel in the queue of the side it was called on: silently if no order
\* there carries the id at that moment, by throwing if no order is there at all.
MissIsHonest == [][\A t \in Threads :
  /\ pc[t] = "search" /\ pc'[t] = "idle" => \A o \in linked[book[t]] : IdOf[o] # target[t]
  /\ pc'[t] = "threw" /\ <<pc[t], book[t]>> # <<"threw", book'[t]>> => linked[book'[t]] = {}]_vars

\* Every call that got its lock comes back: in particular the search never
\* runs in circles, although other calls relink the list between two searches.
CallsReturn == \A t \in Threads : pc[t] \notin Ready ~> pc[t] \in Ready

\* The level does what LevelFifo promises; an executed order is no longer
\* resting from the moment its quantities are updated, although it is dropped
\* from the list two steps later.
Resting == [s \in Sides |-> {o \in linked[s] : status[o] # "FullFill"}]
Ahead == UNION {{w \in Resting[s] \X Resting[s] : arrival[w[1]] < arrival[w[2]]} : s \in Sides}
Joined == {o \in Orders : arrival[o] # 0}
Promise == INSTANCE LevelFifo WITH resting <- Resting, ahead <- Ahead, joined <- Joined
Implements == Promise!Spec
=============================================================================
