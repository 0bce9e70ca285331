-------------------------- MODULE LevelQueueProofs --------------------------
EXTENDS LevelQueue, SumFacts

(***************************************************************************)
(* Stage 1: types, locks, and what each call has at hand.                  *)
(***************************************************************************)
Base == TypeOK /\ LockInv /\ CallInv

\* Two threads are never between the lock and the unlock of the same side.
LEMMA Exclusion ==
  ASSUME LockInv, NEW t \in Threads, NEW u \in Threads, NEW s \in Sides,
         Holds(t, s), Holds(u, s)
  PROVE  t = u
BY DEF LockInv

LEMMA BaseInit == Init => Base
<1> SUFFICES ASSUME Init PROVE Base
  OBVIOUS
<1> USE QueueAssumption DEF Init, Sides
<1>1. TypeOK
  <2>1. qty \in [Orders -> Int]
    OBVIOUS
  <2>2. linked \in [Sides -> SUBSET Orders]
    OBVIOUS
  <2>3. arrival \in [Orders -> Nat] /\ clock \in Nat
    OBVIOUS
  <2> QED
    BY <2>1, <2>2, <2>3 DEF TypeOK, Statuses, Ready, Steps
<1>2. LockInv
  BY DEF LockInv, Holds
<1>3. CallInv
  BY DEF CallInv
<1> QED BY <1>1, <1>2, <1>3 DEF Base

LEMMA BaseStep == Base /\ [Next]_vars => Base'
<1> SUFFICES ASSUME Base, [Next]_vars PROVE Base'
  OBVIOUS
<1> USE QueueAssumption DEF Base, TypeOK, LockInv, CallInv, Holds, Sides, Ready, Statuses, Steps, Goto, Acquire, Return,
   links, orderVars, locals, history
<1>0. CASE UNCHANGED vars
  BY <1>0 DEF vars
<1>1. ASSUME NEW t \in Threads, NEW o \in Orders, PushLock(t, o) PROVE Base'
  BY <1>1 DEF PushLock, SideOf
<1>2. ASSUME NEW t \in Threads, NEW s \in Sides, CancelThrows(t, s) PROVE Base'
  BY <1>2 DEF CancelThrows
<1>3. ASSUME NEW t \in Threads, NEW s \in Sides, NEW id \in Ids, CancelLock(t, s, id) PROVE Base'
  BY <1>3 DEF CancelLock
<1>4. ASSUME NEW t \in Threads, PopLock(t) PROVE Base'
  BY <1>4 DEF PopLock
<1>5. ASSUME NEW t \in Threads, LinkLast(t) PROVE Base'
  BY <1>5 DEF LinkLast
<1>6. ASSUME NEW t \in Threads, SetTail(t) PROVE Base'
  BY <1>6 DEF SetTail
<1>7. ASSUME NEW t \in Threads, CountPushed(t) PROVE Base'
  BY <1>7 DEF CountPushed
<1>8. ASSUME NEW t \in Threads, Advance(t) PROVE Base'
  BY <1>8 DEF Advance
<1>9. ASSUME NEW t \in Threads, NotFound(t) PROVE Base'
  BY <1>9 DEF NotFound
<1>10. ASSUME NEW t \in Threads, Unlink(t) PROVE Base'
  BY <1>10 DEF Unlink
<1>11. ASSUME NEW t \in Threads, UncountCancelled(t) PROVE Base'
  BY <1>11 DEF UncountCancelled
<1>12. ASSUME NEW t \in Threads, NoMatch(t) PROVE Base'
  BY <1>12 DEF NoMatch
<1>13. ASSUME NEW t \in Threads, Fill(t) PROVE Base'
  BY <1>13 DEF Fill, Smaller, StatusAfter
<1>14. ASSUME NEW t \in Threads, UncountSell(t) PROVE Base'
  BY <1>14 DEF UncountSell
<1>15. ASSUME NEW t \in Threads, DropFilled(t) PROVE Base'
  BY <1>15 DEF DropFilled
<1> QED
  BY <1>0, <1>1, <1>2, <1>3, <1>4, <1>5, <1>6, <1>7, <1>8, <1>9, <1>10, <1>11, <1>12, <1>13, <1>14, <1>15
  DEF Next, Begin, Proceed

(***************************************************************************)
(* Stage 2: the lists.                                                     *)
(***************************************************************************)
Lists == HistoryInv /\ ItemInv /\ ListInv

LEMMA ListsInit == Init => Lists
<1> SUFFICES ASSUME Init PROVE Lists
  OBVIOUS
<1> USE QueueAssumption DEF Init, Sides
<1>1. HistoryInv
  BY DEF HistoryInv
<1>2. ItemInv
  BY DEF ItemInv
<1>3. ListInv
  BY DEF ListInv, HeadInv, NextInv, PrevInv, TailInv, TailLags
<1> QED BY <1>1, <1>2, <1>3 DEF Lists

\* A step that leaves the pointers alone, and does not enter or leave
\* "settail", leaves the lists as they were.
QuietStep ==
  /\ UNCHANGED <<links, linked, arrival, clock>>
  /\ \A u \in Threads :
       /\ pc'[u] = "settail" <=> pc[u] = "settail"
       /\ pc[u] = "settail" => book'[u] = book[u] /\ item'[u] = item[u]

LEMMA QuietLists ==
  ASSUME ListInv, QuietStep
  PROVE  ListInv'
BY DEF QuietStep, links, ListInv, HeadInv, NextInv, PrevInv, TailInv, TailLags, LaggingTailInv, First, Last, Follows

LEMMA ListsStep == Base /\ Base' /\ Lists /\ [Next]_vars => Lists'
<1> SUFFICES ASSUME Base, Base', Lists, [Next]_vars PROVE Lists'
  OBVIOUS
<1> USE QueueAssumption DEF Base, Lists
<1>0. CASE UNCHANGED vars
  <2>1. QuietStep /\ UNCHANGED <<linked, arrival, clock, pc, book, item, status>>
    BY <1>0 DEF vars, QuietStep, links, locals, history, orderVars
  <2>2. HistoryInv' /\ ItemInv'
    BY <1>0 DEF vars, HistoryInv, ItemInv, links, locals, history, orderVars
  <2> QED BY <2>1, <2>2, QuietLists
<1>1. ASSUME NEW t \in Threads, NEW o \in Orders, PushLock(t, o) PROVE Lists'
  <2>1. QuietStep
    BY <1>1 DEF PushLock, QuietStep, TypeOK, history, Goto, Ready
  <2>2. HistoryInv'
    BY <1>1 DEF PushLock, HistoryInv, links, history, orderVars
  <2>3. ItemInv'
    BY <1>1 DEF PushLock, ItemInv, history, orderVars, TypeOK, Goto
  <2> QED BY <2>1, <2>2, <2>3, QuietLists
<1>2. ASSUME NEW t \in Threads, NEW s \in Sides, CancelThrows(t, s) PROVE Lists'
  <2>1. QuietStep
    BY <1>2 DEF CancelThrows, QuietStep, TypeOK, history, Goto, locals, Ready
  <2>2. HistoryInv'
    BY <1>2 DEF CancelThrows, HistoryInv, links, history, orderVars
  <2>3. ItemInv'
    BY <1>2 DEF CancelThrows, ItemInv, history, orderVars, TypeOK, Goto, locals
  <2> QED BY <2>1, <2>2, <2>3, QuietLists
<1>3. ASSUME NEW t \in Threads, NEW s \in Sides, NEW id \in Ids, CancelLock(t, s, id) PROVE Lists'
  <2>1. QuietStep
    BY <1>3 DEF CancelLock, QuietStep, TypeOK, history, Goto, Ready
  <2>2. HistoryInv'
    BY <1>3 DEF CancelLock, HistoryInv, links, history, orderVars
  <2>3. head[s] \in linked[s]
    BY <1>3 DEF CancelLock, ListInv, HeadInv, First
  <2>4. ItemInv'
    BY <1>3, <2>3 DEF CancelLock, ItemInv, history, orderVars, TypeOK, Goto
  <2> QED BY <2>1, <2>2, <2>4, QuietLists
<1>4. ASSUME NEW t \in Threads, PopLock(t) PROVE Lists'
  <2>1. QuietStep
    BY <1>4 DEF PopLock, QuietStep, TypeOK, history, Goto, locals, Ready
  <2>2. HistoryInv'
    BY <1>4 DEF PopLock, HistoryInv, links, history, orderVars
  <2>3. ItemInv'
    BY <1>4 DEF PopLock, ItemInv, history, orderVars, TypeOK, Goto, locals
  <2> QED BY <2>1, <2>2, <2>3, QuietLists
<1>7. ASSUME NEW t \in Threads, CountPushed(t) PROVE Lists'
  <2>1. QuietStep
    BY <1>7 DEF CountPushed, QuietStep, TypeOK, history, Goto, Return
  <2>2. HistoryInv'
    BY <1>7 DEF CountPushed, HistoryInv, ItemInv, links, history, TypeOK
  <2>3. ItemInv'
    <3> SUFFICES ASSUME NEW u \in Threads, u # t, pc[u] \in {"settail", "count"} PROVE item[u] # item[t]
      BY <1>7 DEF CountPushed, ItemInv, history, TypeOK, Goto, Return
    <3> QED BY <1>7, Exclusion DEF CountPushed, ItemInv, HistoryInv, Holds, TypeOK
  <2> QED BY <2>1, <2>2, <2>3, QuietLists
<1>8. ASSUME NEW t \in Threads, Advance(t) PROVE Lists'
  <2>1. QuietStep
    BY <1>8 DEF Advance, QuietStep, TypeOK, history
  <2>2. HistoryInv'
    BY <1>8 DEF Advance, HistoryInv, links, history, orderVars
  <2>3. next[item[t]] # Null => next[item[t]] \in linked[book[t]]
    BY <1>8 DEF Advance, ItemInv, ListInv, NextInv, Follows, TypeOK
  <2>4. ItemInv'
    BY <1>8, <2>3 DEF Advance, ItemInv, history, orderVars, TypeOK
  <2> QED BY <2>1, <2>2, <2>4, QuietLists
<1>9. ASSUME NEW t \in Threads, NotFound(t) PROVE Lists'
  <2>1. QuietStep
    BY <1>9 DEF NotFound, QuietStep, TypeOK, history, Goto, Return
  <2>2. HistoryInv'
    BY <1>9 DEF NotFound, HistoryInv, links, history, orderVars
  <2>3. ItemInv'
    BY <1>9 DEF NotFound, ItemInv, history, orderVars, TypeOK, Goto, Return
  <2> QED BY <2>1, <2>2, <2>3, QuietLists
<1>11. ASSUME NEW t \in Threads, UncountCancelled(t) PROVE Lists'
  <2>1. QuietStep
    BY <1>11 DEF UncountCancelled, QuietStep, TypeOK, history, Goto, Return
  <2>2. arrival[item[t]] # 0
    BY <1>11 DEF UncountCancelled, ItemInv
  <2>3. HistoryInv'
    BY <1>11, <2>2 DEF UncountCancelled, HistoryInv, links, history, TypeOK
  <2>4. ItemInv'
    <3>1. \A u \in Threads : pc[u] \in {"settail", "count"} => item[u] # item[t]
      BY <1>11 DEF UncountCancelled, ItemInv, HistoryInv, TypeOK, CallInv
    <3> QED BY <3>1, <1>11 DEF UncountCancelled, ItemInv, history, TypeOK, Goto, Return
  <2> QED BY <2>1, <2>3, <2>4, QuietLists
<1>12. ASSUME NEW t \in Threads, NoMatch(t) PROVE Lists'
  <2>1. QuietStep
    BY <1>12 DEF NoMatch, QuietStep, TypeOK, history, Goto, Return
  <2>2. HistoryInv'
    BY <1>12 DEF NoMatch, HistoryInv, links, history, orderVars
  <2>3. ItemInv'
    BY <1>12 DEF NoMatch, ItemInv, history, orderVars, TypeOK, Goto, Return
  <2> QED BY <2>1, <2>2, <2>3, QuietLists
<1>13. ASSUME NEW t \in Threads, Fill(t) PROVE Lists'
  <2>1. QuietStep
    BY <1>13 DEF Fill, QuietStep, TypeOK, history, Goto
  <2>2. head["buy"] \in linked["buy"] /\ head["sell"] \in linked["sell"]
    BY <1>13 DEF Fill, ListInv, HeadInv, First, Sides
  <2>3. HistoryInv'
    BY <1>13, <2>2 DEF Fill, HistoryInv, links, history, TypeOK, Sides
  <2>4. ItemInv'
    <3>1. ASSUME NEW u \in Threads, pc[u] \in {"settail", "count"} PROVE FALSE
      BY <3>1, <1>13, Exclusion DEF Fill, Holds, TypeOK
    <3> QED BY <3>1, <1>13 DEF Fill, ItemInv, history, TypeOK, Goto
  <2> QED BY <2>1, <2>3, <2>4, QuietLists
<1>14. ASSUME NEW t \in Threads, UncountSell(t) PROVE Lists'
  <2>1. QuietStep
    BY <1>14 DEF UncountSell, QuietStep, TypeOK, history, Goto, locals
  <2>2. HistoryInv'
    BY <1>14 DEF UncountSell, HistoryInv, links, history, orderVars
  <2>3. ItemInv'
    BY <1>14 DEF UncountSell, ItemInv, history, orderVars, TypeOK, Goto, locals
  <2> QED BY <2>1, <2>2, <2>3, QuietLists
<1>5. ASSUME NEW t \in Threads, LinkLast(t) PROVE Lists'
  <2> DEFINE s == book[t]
             o == item[t]
  <2>1. /\ s \in Sides /\ o \in Orders /\ arrival[o] = 0 /\ SideOf(o) = s
        /\ pc[t] = "link" /\ Holds(t, s)
    BY <1>5 DEF LinkLast, TypeOK, CallInv, ItemInv, Holds
  <2>2. /\ arrival' = [arrival EXCEPT ![o] = clock + 1]
        /\ clock' = clock + 1
        /\ linked' = [linked EXCEPT ![s] = @ \cup {o}]
        /\ pc' = [pc EXCEPT ![t] = "settail"]
        /\ UNCHANGED <<tail, status, book, item>>
    BY <1>5 DEF LinkLast, orderVars, locals, Goto
  <2>3. ~ TailLags(s)
    BY <2>1, Exclusion DEF TailLags, Holds
  <2>4. TailInv(s)
    BY <2>1, <2>3 DEF ListInv
  <2>5. /\ tail[s] = Null => linked[s] = {}
        /\ tail[s] # Null => Last(s, tail[s])
    BY <2>4, QueueAssumption, <2>1 DEF TailInv, Last, TypeOK
  <2>6. o \notin linked[s] /\ \A c \in Sides : o \notin linked[c]
    BY <2>1 DEF HistoryInv
  <2>7. /\ head' = IF tail[s] = Null THEN [head EXCEPT ![s] = o] ELSE head
        /\ next' = IF tail[s] = Null THEN next ELSE [next EXCEPT ![tail[s]] = o]
        /\ prev' = IF tail[s] = Null THEN prev ELSE [prev EXCEPT ![o] = tail[s]]
    BY <1>5 DEF LinkLast
  <2>8. next[o] = Null /\ prev[o] = Null /\ status[o] = "Inactive"
    BY <2>1 DEF HistoryInv
  <2>9. HistoryInv'
    BY <2>1, <2>2, <2>5, <2>7, <2>8 DEF HistoryInv, TypeOK, Last, SideOf
  <2>10. ItemInv'
    <3>1. ASSUME NEW u \in Threads, u # t, pc[u] \in {"link", "uncount"} PROVE item[u] # o
      BY <3>1, <2>1, Exclusion DEF ItemInv, Holds
    <3> QED BY <3>1, <2>1, <2>2, <2>6, <2>8 DEF ItemInv, TypeOK, CallInv, SideOf
  <2>11. ASSUME NEW c \in Sides
         PROVE  /\ HeadInv(c)' /\ NextInv(c)' /\ PrevInv(c)'
                /\ IF TailLags(c)' THEN LaggingTailInv(c)' ELSE TailInv(c)'
    <3>1. CASE c # s
      <4>1. linked'[c] = linked[c] /\ head'[c] = head[c] /\ tail'[c] = tail[c]
        BY <3>1, <2>1, <2>2, <2>7 DEF TypeOK
      <4>2. \A x \in linked[c] : arrival'[x] = arrival[x] /\ next'[x] = next[x] /\ prev'[x] = prev[x]
        BY <3>1, <2>1, <2>2, <2>5, <2>6, <2>7 DEF TypeOK, HistoryInv, Last
      <4>3. TailLags(c)' <=> TailLags(c)
        BY <3>1, <2>1, <2>2 DEF TailLags, TypeOK
      <4>4. HeadInv(c) /\ NextInv(c) /\ PrevInv(c)
        BY DEF ListInv
      <4>5. HeadInv(c)' /\ NextInv(c)' /\ PrevInv(c)'
        BY <4>1, <4>2, <4>4 DEF HeadInv, NextInv, PrevInv, First, Last, Follows
      <4>6. TailLags(c) => LaggingTailInv(c)'
        BY <3>1, <4>1, <4>2, <2>1, <2>2 DEF ListInv, LaggingTailInv, Last, TypeOK
      <4>7. ~ TailLags(c) => TailInv(c)'
        BY <4>1, <4>2 DEF ListInv, TailInv, Last
      <4> QED BY <4>3, <4>5, <4>6, <4>7
    <3>2. CASE c = s
      <4>1. /\ \A x \in linked[s] : arrival'[x] = arrival[x] /\ arrival[x] < arrival'[o]
            /\ linked'[s] = linked[s] \cup {o}
        BY <2>1, <2>2, <2>6 DEF TypeOK, HistoryInv
      <4>2. HeadInv(c)'
        BY <3>2, <2>1, <2>2, <2>5, <2>7, <4>1, <2>6 DEF ListInv, HeadInv, First, Last, TypeOK
      <4>3. NextInv(c)'
        <5> SUFFICES ASSUME NEW x \in linked'[c]
                     PROVE  IF next'[x] = Null THEN Last(c, x)' ELSE Follows(c, x, next[x])'
          BY DEF NextInv
        <5>1. CASE x = o
          BY <5>1, <3>2, <2>1, <2>2, <2>5, <2>6, <2>7, <2>8, <4>1 DEF Last, TypeOK
        <5>2. CASE x # o /\ x = tail[s]
          BY <5>2, <3>2, <2>1, <2>2, <2>5, <2>7, <4>1, QueueAssumption DEF Follows, Last, TypeOK
        <5>3. CASE x # o /\ x # tail[s]
          <6>1. x \in linked[s] /\ x \in Orders /\ next'[x] = next[x]
            BY <5>3, <3>2, <2>1, <2>7, <4>1 DEF TypeOK
          <6>2. ~ Last(s, x)
            <7> SUFFICES ASSUME Last(s, x) PROVE FALSE
              OBVIOUS
            <7>1. tail[s] \in linked[s] /\ tail[s] \in Orders /\ Last(s, tail[s])
              BY <6>1, <2>1, <2>5 DEF Last, TypeOK
            <7>2. arrival[x] = arrival[tail[s]]
              <8>1. arrival[x] \in Nat /\ arrival[tail[s]] \in Nat
                BY <6>1, <7>1 DEF TypeOK
              <8>2. arrival[x] <= arrival[tail[s]] /\ arrival[tail[s]] <= arrival[x]
                BY <6>1, <7>1 DEF Last
              <8> QED BY <8>1, <8>2
            <7>3. arrival[x] # 0
              BY <6>1, <2>1 DEF HistoryInv
            <7> QED BY <7>1, <7>2, <7>3, <6>1, <5>3 DEF HistoryInv
          <6>3. next[x] # Null /\ Follows(s, x, next[x])
            BY <6>1, <6>2, <2>1 DEF ListInv, NextInv
          <6> QED BY <6>1, <6>3, <3>2, <2>1, <2>2, <4>1 DEF Follows, TypeOK
        <5> QED BY <5>1, <5>2, <5>3
      <4>4. PrevInv(c)'
        BY <3>2, <2>1, <2>2, <2>5, <2>7, <2>8, <4>1, <2>6, QueueAssumption DEF ListInv, PrevInv, Follows, First, Last, TypeOK
      <4>5. TailLags(c)'
        BY <3>2, <2>1, <2>2 DEF TailLags, TypeOK
      <4>6. LaggingTailInv(c)'
        BY <3>2, <2>1, <2>2, <2>3, <2>5, <2>7, <2>8, <4>1 DEF LaggingTailInv, TailLags, Last, TypeOK
      <4> QED BY <4>2, <4>3, <4>4, <4>5, <4>6
    <3> QED BY <3>1, <3>2
  <2> QED BY <2>9, <2>10, <2>11 DEF ListInv
<1>6. ASSUME NEW t \in Threads, SetTail(t) PROVE Lists'
  <2>1. HistoryInv'
    BY <1>6 DEF SetTail, HistoryInv, history, orderVars
  <2>2. ItemInv'
    BY <1>6 DEF SetTail, ItemInv, history, orderVars, TypeOK, Goto, locals
  <2>3. ASSUME NEW c \in Sides
        PROVE  /\ HeadInv(c)' /\ NextInv(c)' /\ PrevInv(c)'
               /\ IF TailLags(c)' THEN LaggingTailInv(c)' ELSE TailInv(c)'
    <3>1. HeadInv(c)' /\ NextInv(c)' /\ PrevInv(c)'
      BY <1>6 DEF SetTail, ListInv, HeadInv, NextInv, PrevInv, First, Last, Follows, history
    <3>2. CASE c # book[t]
      BY <1>6, <3>1, <3>2 DEF SetTail, ListInv, TailInv, TailLags, LaggingTailInv, Last, history, locals, TypeOK, Goto
    <3>3. CASE c = book[t]
      <4>1. \A u \in Threads : pc[u] = "settail" /\ book[u] = c => u = t
        BY <1>6, <3>3, Exclusion DEF SetTail, Holds
      <4>2. ~ TailLags(c)'
        BY <4>1, <1>6 DEF TailLags, SetTail, Goto, TypeOK, locals
      <4>3. Last(c, item[t])
        BY <1>6, <3>3 DEF SetTail, ListInv, TailLags, LaggingTailInv
      <4>4. TailInv(c)'
        BY <4>3, <1>6, <3>3 DEF TailInv, SetTail, Last, history, TypeOK
      <4> QED BY <3>1, <4>2, <4>4
    <3> QED BY <3>2, <3>3
  <2> QED BY <2>1, <2>2, <2>3 DEF ListInv
<1>10. ASSUME NEW t \in Threads, Unlink(t) PROVE Lists'
  <2> DEFINE s == book[t]
             x == item[t]
  <2>1. /\ s \in Sides /\ x \in linked[s] /\ x \in Orders
        /\ pc[t] = "search" /\ Holds(t, s)
    BY <1>10 DEF Unlink, TypeOK, ItemInv, Holds
  <2>2. /\ linked' = [linked EXCEPT ![s] = @ \ {x}]
        /\ pc' = [pc EXCEPT ![t] = "uncount"]
        /\ UNCHANGED <<arrival, clock, status, book, item>>
    BY <1>10 DEF Unlink, orderVars, locals, Goto
  <2>3. /\ tail' = IF tail[s] = x THEN [tail EXCEPT ![s] = prev[x]] ELSE tail
        /\ head' = IF head[s] = x THEN [head EXCEPT ![s] = next[x]] ELSE head
        /\ next' = IF prev[x] # Null THEN [next EXCEPT ![prev[x]] = next[x]] ELSE next
        /\ prev' = IF next[x] # Null THEN [prev EXCEPT ![next[x]] = prev[x]] ELSE prev
    BY <1>10 DEF Unlink
  <2>4. ~ TailLags(s)
    BY <2>1, Exclusion DEF TailLags, Holds
  <2>5. HeadInv(s) /\ NextInv(s) /\ PrevInv(s) /\ TailInv(s)
    BY <2>1, <2>4 DEF ListInv
  <2>6. /\ next[x] = Null => Last(s, x)
        /\ next[x] # Null => next[x] \in linked[s] /\ Follows(s, x, next[x])
    BY <2>1, <2>5 DEF NextInv, Follows
  <2>7. /\ prev[x] = Null => First(s, x)
        /\ prev[x] # Null => prev[x] \in linked[s] /\ Follows(s, prev[x], x)
    BY <2>1, <2>5 DEF PrevInv
  <2>8. arrival \in [Orders -> Nat] /\ \A y \in linked[s] : y \in Orders
    BY <2>1 DEF TypeOK
  <2>9. \A y, z \in linked[s] : arrival[y] = arrival[z] => y = z
    BY <2>1, <2>8 DEF HistoryInv
  <2>10. HistoryInv'
    BY <2>1, <2>2, <2>3, <2>6, <2>7 DEF HistoryInv, TypeOK, SideOf
  <2>11. ItemInv'
    <3>1. ASSUME NEW u \in Threads, u # t, pc[u] \in {"settail", "count", "search"} PROVE book[u] # s
      BY <3>1, <2>1, Exclusion DEF Holds
    <3> QED BY <3>1, <2>1, <2>2 DEF ItemInv, TypeOK, HistoryInv, SideOf
  <2>12. ASSUME NEW c \in Sides
         PROVE  /\ HeadInv(c)' /\ NextInv(c)' /\ PrevInv(c)'
                /\ IF TailLags(c)' THEN LaggingTailInv(c)' ELSE TailInv(c)'
    <3>0. TailLags(c)' <=> TailLags(c)
      BY <2>1, <2>2 DEF TailLags, TypeOK
    <3>1. CASE c # s
      <4>1. linked'[c] = linked[c] /\ head'[c] = head[c] /\ tail'[c] = tail[c]
        BY <3>1, <2>1, <2>2, <2>3 DEF TypeOK
      <4>2. \A y \in linked[c] : arrival'[y] = arrival[y] /\ next'[y] = next[y] /\ prev'[y] = prev[y]
        BY <3>1, <2>1, <2>2, <2>3, <2>6, <2>7 DEF TypeOK, HistoryInv
      <4>3. HeadInv(c) /\ NextInv(c) /\ PrevInv(c)
        BY DEF ListInv
      <4>4. HeadInv(c)' /\ NextInv(c)' /\ PrevInv(c)'
        BY <4>1, <4>2, <4>3 DEF HeadInv, NextInv, PrevInv, First, Last, Follows
      <4>5. TailLags(c) => LaggingTailInv(c)'
        BY <3>1, <4>1, <4>2, <2>1, <2>2 DEF ListInv, LaggingTailInv, Last, TypeOK
      <4>6. ~ TailLags(c) => TailInv(c)'
        BY <4>1, <4>2 DEF ListInv, TailInv, Last
      <4> QED BY <3>0, <4>4, <4>5, <4>6
    <3>2. CASE c = s
      <4>1. linked'[c] = linked[c] \ {x} /\ arrival' = arrival
        BY <3>2, <2>1, <2>2 DEF TypeOK
      <4>2. HeadInv(c)'
        <5>1. head'[c] = IF head[c] = x THEN next[x] ELSE head[c]
          BY <3>2, <2>3 DEF TypeOK
        <5> QED BY <5>1, <4>1, <3>2, <2>1, <2>5, <2>6, <2>8, <2>9 DEF HeadInv, First, Follows, Last
      <4>3. TailInv(c)'
        <5>1. tail'[c] = IF tail[c] = x THEN prev[x] ELSE tail[c]
          BY <3>2, <2>3 DEF TypeOK
        <5> QED BY <5>1, <4>1, <3>2, <2>1, <2>5, <2>7, <2>8, <2>9 DEF TailInv, First, Follows, Last
      <4>4. NextInv(c)'
        <5> SUFFICES ASSUME NEW y \in linked[c], y # x
                     PROVE  IF next'[y] = Null THEN Last(c, y)' ELSE Follows(c, y, next[y])'
          BY <4>1 DEF NextInv
        <5>1. CASE y = prev[x]
          <6>1. next'[y] = next[x]
            BY <5>1, <3>2, <2>3, <2>8 DEF TypeOK, QueueAssumption
          <6> QED BY <6>1, <5>1, <4>1, <3>2, <2>1, <2>6, <2>7, <2>8, <2>9 DEF Last, Follows
        <5>2. CASE y # prev[x]
          <6>1. next'[y] = next[y]
            BY <5>2, <3>2, <2>3, <2>8 DEF TypeOK
          <6>2. next[y] # x
            BY <5>2, <3>2, <2>1, <2>5, <2>7, <2>8, <2>9 DEF NextInv, First, Follows
          <6> QED BY <6>1, <6>2, <4>1, <3>2, <2>1, <2>5 DEF NextInv, Last, Follows
        <5> QED BY <5>1, <5>2
      <4>5. PrevInv(c)'
        <5> SUFFICES ASSUME NEW y \in linked[c], y # x
                     PROVE  IF prev'[y] = Null THEN First(c, y)'
                            ELSE prev'[y] \in linked'[c] /\ Follows(c, prev[y], y)'
          BY <4>1 DEF PrevInv
        <5>1. CASE y = next[x]
          <6>1. prev'[y] = prev[x]
            BY <5>1, <3>2, <2>3, <2>8 DEF TypeOK, QueueAssumption
          <6> QED BY <6>1, <5>1, <4>1, <3>2, <2>1, <2>6, <2>7, <2>8, <2>9 DEF First, Follows
        <5>2. CASE y # next[x]
          <6>1. prev'[y] = prev[y]
            BY <5>2, <3>2, <2>3, <2>8 DEF TypeOK
          <6>2. prev[y] # x
            BY <5>2, <3>2, <2>1, <2>5, <2>6, <2>8, <2>9 DEF PrevInv, Last, Follows
          <6> QED BY <6>1, <6>2, <4>1, <3>2, <2>1, <2>5 DEF PrevInv, First, Follows
        <5> QED BY <5>1, <5>2
      <4> QED BY <3>0, <3>2, <2>4, <4>2, <4>3, <4>4, <4>5
    <3> QED BY <3>1, <3>2
  <2> QED BY <2>10, <2>11, <2>12 DEF ListInv
<1>15. ASSUME NEW t \in Threads, DropFilled(t) PROVE Lists'
  <2> DEFINE done == {s \in Sides : status[head[s]] = "FullFill"}
  <2>1. /\ pc[t] = "drop" /\ \A s \in Sides : head[s] # Null /\ head[s] \in Orders
    BY <1>15 DEF DropFilled, TypeOK, CallInv
  <2>2. /\ head' = [s \in Sides |-> IF s \in done THEN next[head[s]] ELSE head[s]]
        /\ prev' = [o \in Orders |-> IF \E s \in done : o = next[head[s]] THEN Null ELSE prev[o]]
        /\ tail' = [s \in Sides |-> IF s \in done /\ next[head[s]] = Null THEN Null ELSE tail[s]]
        /\ linked' = [s \in Sides |-> IF s \in done THEN linked[s] \ {head[s]} ELSE linked[s]]
        /\ pc' = [pc EXCEPT ![t] = "idle"]
        /\ UNCHANGED <<next, status, arrival, clock>>
        /\ \A u \in Threads : u # t => item'[u] = item[u] /\ book'[u] = book[u]
    BY <1>15 DEF DropFilled, orderVars, Goto, Return, TypeOK
  <2>3. \A u \in Threads : pc[u] \in {"link", "settail", "count", "search", "uncount"} => FALSE
    BY <2>1, Exclusion DEF Holds, TypeOK
  <2>4. HistoryInv'
    BY <2>2 DEF HistoryInv, TypeOK
  <2>5. ItemInv'
    BY <2>2, <2>3 DEF ItemInv, TypeOK
  <2>6. ASSUME NEW c \in Sides
        PROVE  HeadInv(c)' /\ NextInv(c)' /\ PrevInv(c)' /\ TailInv(c)' /\ ~ TailLags(c)'
    <3>0. ~ TailLags(c) /\ ~ TailLags(c)'
      BY <2>2, <2>3 DEF TailLags, TypeOK
    <3>1. HeadInv(c) /\ NextInv(c) /\ PrevInv(c) /\ TailInv(c)
      BY <3>0 DEF ListInv
    <3>2. head[c] \in linked[c] /\ First(c, head[c])
      BY <2>1, <3>1 DEF HeadInv, TailInv, First
    <3>3. /\ \A y \in linked[c] : y \in Orders /\ SideOf(y) = c
          /\ \A y, z \in linked[c] : arrival[y] = arrival[z] => y = z
      BY DEF TypeOK, HistoryInv
    <3>4. \A s \in Sides : next[head[s]] # Null => next[head[s]] \in linked[s] /\ SideOf(next[head[s]]) = s
      BY <2>1 DEF ListInv, HeadInv, NextInv, Follows, First, HistoryInv
    <3>5. CASE c \notin done
      <4>1. linked'[c] = linked[c] /\ head'[c] = head[c] /\ tail'[c] = tail[c]
        BY <3>5, <2>2
      <4>2. \A y \in linked[c] : arrival'[y] = arrival[y] /\ next'[y] = next[y] /\ prev'[y] = prev[y]
        BY <3>5, <2>2, <3>3, <3>4, QueueAssumption
      <4> QED BY <4>1, <4>2, <3>0, <3>1 DEF HeadInv, NextInv, PrevInv, TailInv, First, Last, Follows
    <3>6. CASE c \in done
      <4> DEFINE h == head[c]
                 n == next[h]
      <4>1. linked'[c] = linked[c] \ {h} /\ arrival' = arrival /\ next' = next /\ head'[c] = n
        BY <3>6, <2>2
      <4>2. tail'[c] = IF n = Null THEN Null ELSE tail[c]
        BY <3>6, <2>2
      <4>3. \A y \in linked[c] : prev'[y] = IF y = n THEN Null ELSE prev[y]
        BY <3>6, <2>2, <3>3, <3>4, QueueAssumption
      <4>4. arrival \in [Orders -> Nat]
        BY DEF TypeOK
      <4>5. /\ n = Null => linked[c] = {h}
            /\ n # Null => n \in linked[c] /\ Follows(c, h, n)
        BY <3>1, <3>2, <3>3, <4>4 DEF NextInv, Last, First, Follows
      <4>6. n # Null => First(c, head[c])'
        BY <4>1, <4>4, <4>5, <3>2, <3>3 DEF First, Follows
      <4>7. HeadInv(c)'
        BY <4>1, <4>5, <4>6 DEF HeadInv, First
      <4>8. TailInv(c)'
        BY <4>1, <4>2, <4>4, <4>5, <3>1, <3>2, <3>3 DEF TailInv, Last, Follows
      <4>9. NextInv(c)'
        BY <4>1, <4>4, <3>1, <3>2, <3>3 DEF NextInv, Last, First, Follows
      <4>10. PrevInv(c)'
        <5> SUFFICES ASSUME NEW y \in linked[c], y # h
                     PROVE  IF prev'[y] = Null THEN First(c, y)'
                            ELSE prev'[y] \in linked'[c] /\ Follows(c, prev[y], y)'
          BY <4>1 DEF PrevInv
        <5>1. CASE y = n
          BY <5>1, <4>1, <4>3, <4>6, <3>3, QueueAssumption DEF First
        <5>2. CASE y # n
          <6>1. prev'[y] = prev[y] /\ n # Null
            BY <5>2, <4>3, <4>5
          <6>2. prev[y] # Null /\ prev[y] # h
            BY <5>2, <6>1, <4>4, <4>5, <3>1, <3>2, <3>3 DEF PrevInv, First, Follows
          <6> QED BY <6>1, <6>2, <4>1, <3>1 DEF PrevInv, Follows
        <5> QED BY <5>1, <5>2
      <4> QED BY <3>0, <4>7, <4>8, <4>9, <4>10
    <3> QED BY <3>5, <3>6
  <2> QED BY <2>4, <2>5, <2>6 DEF ListInv
<1> QED
  BY <1>0, <1>1, <1>2, <1>3, <1>4, <1>5, <1>6, <1>7, <1>8, <1>9, <1>10, <1>11, <1>12, <1>13, <1>14, <1>15
  DEF Next, Begin, Proceed

(***************************************************************************)
(* Stage 3: what a search has passed, and the statuses.                    *)
(***************************************************************************)

\* A step of thread t leaves the searches of the others where they were,
\* because it can only touch a list whose mutex t holds.
LEMMA OtherSearches ==
  ASSUME Base, ItemInv, SearchInv, NEW t \in Threads, NEW u \in Threads, u # t,
         pc'[u] = pc[u], book'[u] = book[u], item'[u] = item[u], target'[u] = target[u],
         \A c \in Sides : ~ Holds(t, c) => linked'[c] = linked[c],
         \A o \in linked[book[u]] : arrival'[o] = arrival[o]
  PROVE  pc'[u] = "search" => \A o \in linked'[book'[u]] :
           (item'[u] = Null \/ arrival'[o] < arrival'[item'[u]]) => IdOf[o] # target'[u]
<1> SUFFICES ASSUME pc[u] = "search", NEW o \in linked'[book'[u]],
                    item'[u] = Null \/ arrival'[o] < arrival'[item'[u]]
             PROVE  IdOf[o] # target'[u]
  OBVIOUS
<1>1. book[u] \in Sides /\ Holds(u, book[u])
  BY DEF Holds, Base, TypeOK
<1>2. linked'[book[u]] = linked[book[u]]
  BY <1>1, Exclusion DEF Base
<1>3. item[u] = Null \/ arrival[o] < arrival[item[u]]
  BY <1>2 DEF ItemInv
<1> QED BY <1>2, <1>3 DEF SearchInv

LEMMA SearchStep == Base /\ Lists /\ SearchInv /\ [Next]_vars => SearchInv'
<1> SUFFICES ASSUME Base, Lists, SearchInv, [Next]_vars PROVE SearchInv'
  OBVIOUS
<1> USE DEF Lists
<1> DEFINE Good(u) == pc[u] = "search" => \A o \in linked[book[u]] :
             (item[u] = Null \/ arrival[o] < arrival[item[u]]) => IdOf[o] # target[u]
<1>0. CASE UNCHANGED vars
  BY <1>0 DEF vars, locals, history, SearchInv
<1>1. ASSUME NEW t \in Threads, Begin(t) \/ Proceed(t) PROVE SearchInv'
  <2>1. \A u \in Threads : u # t => /\ pc'[u] = pc[u] /\ book'[u] = book[u]
                                    /\ item'[u] = item[u] /\ target'[u] = target[u]
    BY <1>1 DEF Begin, Proceed, PushLock, CancelThrows, CancelLock, PopLock, LinkLast, SetTail, CountPushed,
         Advance, NotFound, Unlink, UncountCancelled, NoMatch, Fill, UncountSell, DropFilled,
         Goto, Return, locals, Base, TypeOK
  <2>2. \A c \in Sides : ~ Holds(t, c) => linked'[c] = linked[c]
    <3>1. CASE LinkLast(t)
      BY <3>1 DEF LinkLast, Holds, Base, TypeOK
    <3>2. CASE Unlink(t)
      BY <3>2 DEF Unlink, Holds, Base, TypeOK
    <3>3. CASE DropFilled(t)
      BY <3>3 DEF DropFilled, Holds
    <3>4. CASE ~ (LinkLast(t) \/ Unlink(t) \/ DropFilled(t))
      BY <3>4, <1>1 DEF Begin, Proceed, PushLock, CancelThrows, CancelLock, PopLock, SetTail, CountPushed,
           Advance, NotFound, UncountCancelled, NoMatch, Fill, UncountSell, history
    <3> QED BY <3>1, <3>2, <3>3, <3>4
  <2>3. \A c \in Sides : \A o \in linked[c] : arrival'[o] = arrival[o]
    <3>1. CASE LinkLast(t)
      BY <3>1 DEF LinkLast, ItemInv, HistoryInv, Base, TypeOK
    <3>2. CASE ~ LinkLast(t)
      BY <3>2, <1>1 DEF Begin, Proceed, PushLock, CancelThrows, CancelLock, PopLock, SetTail, CountPushed, Unlink,
           Advance, NotFound, UncountCancelled, NoMatch, Fill, UncountSell, DropFilled, history
    <3> QED BY <3>1, <3>2
  <2>4. \A u \in Threads : u # t => Good(u)'
    BY <2>1, <2>2, <2>3, OtherSearches DEF Base, TypeOK
  <2>5. Good(t)'
    <3>1. ASSUME NEW s \in Sides, NEW id \in Ids, CancelLock(t, s, id) PROVE Good(t)'
      <4>1. \A o \in linked[s] : ~ (arrival[o] < arrival[head[s]])
        BY DEF ListInv, HeadInv, First, Base, TypeOK
      <4> QED BY <4>1, <3>1 DEF CancelLock, Base, TypeOK, history
    <3>2. CASE Advance(t)
      <4> DEFINE s == book[t]
                 x == item[t]
      <4>1. /\ pc[t] = "search" /\ s \in Sides /\ x \in linked[s] /\ IdOf[x] # target[t]
            /\ \A o \in linked[s] : o \in Orders
        BY <3>2 DEF Advance, ItemInv, Base, TypeOK
      <4>2. item'[t] = next[x] /\ UNCHANGED <<linked, arrival, book, target>>
        BY <3>2 DEF Advance, history, Base, TypeOK
      <4>3. IF next[x] = Null THEN Last(s, x) ELSE Follows(s, x, next[x])
        BY <4>1 DEF ListInv, NextInv
      <4>4. \A o \in linked[s] : next[x] = Null \/ arrival[o] < arrival[next[x]] => arrival[o] <= arrival[x]
        <5> SUFFICES ASSUME NEW o \in linked[s], next[x] = Null \/ arrival[o] < arrival[next[x]]
                     PROVE  arrival[o] <= arrival[x]
          OBVIOUS
        <5>1. arrival[o] \in Nat /\ (next[x] # Null => next[x] \in Orders /\ arrival[next[x]] \in Nat)
          BY <4>1 DEF Base, TypeOK
        <5> QED BY <4>3, <5>1 DEF Last, Follows
      <4>5. \A o \in linked[s] : arrival[o] <= arrival[x] => arrival[o] < arrival[x] \/ o = x
        <5> SUFFICES ASSUME NEW o \in linked[s], arrival[o] <= arrival[x], ~ (arrival[o] < arrival[x])
                     PROVE  o = x
          OBVIOUS
        <5>1. o \in Orders /\ x \in Orders /\ arrival[o] \in Nat /\ arrival[x] \in Nat
          BY <4>1 DEF Base, TypeOK
        <5>2. arrival[o] = arrival[x]
          BY <5>1
        <5>3. arrival[o] # 0
          BY <4>1 DEF HistoryInv
        <5> QED BY <5>1, <5>2, <5>3 DEF HistoryInv
      <4>6. \A o \in linked[s] : arrival[o] < arrival[x] => IdOf[o] # target[t]
        BY <4>1 DEF SearchInv
      <4>7. \A o \in linked[s] : next[x] = Null \/ arrival[o] < arrival[next[x]] => IdOf[o] # target[t]
        BY <4>1, <4>4, <4>5, <4>6
      <4> QED BY <4>1, <4>2, <4>7
    <3>3. CASE ~ (Advance(t) \/ \E s \in Sides, id \in Ids : CancelLock(t, s, id))
      <4>1. pc'[t] # "search"
        BY <3>3, <1>1 DEF Begin, Proceed, PushLock, CancelThrows, PopLock, LinkLast, SetTail, CountPushed, Unlink,
             NotFound, UncountCancelled, NoMatch, Fill, UncountSell, DropFilled, Goto, Base, TypeOK
      <4> QED BY <4>1
    <3> QED BY <3>1, <3>2, <3>3
  <2> QED BY <2>4, <2>5 DEF SearchInv
<1> QED BY <1>0, <1>1 DEF Next

LEMMA StatusStep == Base /\ Lists /\ StatusInv /\ [Next]_vars => StatusInv'
<1> SUFFICES ASSUME Base, Lists, StatusInv, [Next]_vars PROVE StatusInv'
  OBVIOUS
<1> USE DEF Lists, Base
<1>0. CASE UNCHANGED vars
  BY <1>0 DEF vars, links, orderVars, locals, history, StatusInv
<1>1. ASSUME NEW t \in Threads, NEW o \in Orders, PushLock(t, o) PROVE StatusInv'
  BY <1>1 DEF PushLock, StatusInv, TypeOK, Goto, Ready, links, orderVars, history
<1>2. ASSUME NEW t \in Threads, NEW s \in Sides, CancelThrows(t, s) PROVE StatusInv'
  BY <1>2 DEF CancelThrows, StatusInv, TypeOK, Goto, Ready, links, orderVars, history, locals
<1>3. ASSUME NEW t \in Threads, NEW s \in Sides, NEW id \in Ids, CancelLock(t, s, id) PROVE StatusInv'
  BY <1>3 DEF CancelLock, StatusInv, TypeOK, Goto, Ready, links, orderVars, history
<1>4. ASSUME NEW t \in Threads, PopLock(t) PROVE StatusInv'
  BY <1>4 DEF PopLock, StatusInv, TypeOK, Goto, Ready, links, orderVars, history, locals
<1>6. ASSUME NEW t \in Threads, SetTail(t) PROVE StatusInv'
  BY <1>6 DEF SetTail, StatusInv, TypeOK, Goto, orderVars, history, locals
<1>8. ASSUME NEW t \in Threads, Advance(t) PROVE StatusInv'
  BY <1>8 DEF Advance, StatusInv, TypeOK, links, orderVars, history
<1>9. ASSUME NEW t \in Threads, NotFound(t) PROVE StatusInv'
  BY <1>9 DEF NotFound, StatusInv, TypeOK, Goto, Return, links, orderVars, history
<1>12. ASSUME NEW t \in Threads, NoMatch(t) PROVE StatusInv'
  BY <1>12 DEF NoMatch, StatusInv, TypeOK, Goto, Return, links, orderVars, history
<1>14. ASSUME NEW t \in Threads, UncountSell(t) PROVE StatusInv'
  BY <1>14 DEF UncountSell, StatusInv, TypeOK, Goto, links, orderVars, history, locals
<1>5. ASSUME NEW t \in Threads, LinkLast(t) PROVE StatusInv'
  <2>1. /\ pc[t] = "link" /\ item[t] \in Orders /\ arrival[item[t]] = 0 /\ SideOf(item[t]) = book[t]
        /\ book[t] \in Sides /\ Holds(t, book[t])
    BY <1>5 DEF LinkLast, CallInv, ItemInv, TypeOK, Holds
  <2>2. status[item[t]] = "Inactive" /\ item[t] \notin linked[book[t]]
    BY <2>1 DEF HistoryInv
  <2>3. /\ linked' = [linked EXCEPT ![book[t]] = @ \cup {item[t]}]
        /\ pc' = [pc EXCEPT ![t] = "settail"]
        /\ UNCHANGED <<status, item>>
    BY <1>5 DEF LinkLast, Goto, orderVars, locals
  <2>4. ~ TailLags(book[t])
    BY <2>1, Exclusion DEF TailLags, Holds
  <2>5. tail[book[t]] = Null => head[book[t]] = Null
    BY <2>1, <2>4, QueueAssumption DEF ListInv, TailInv, HeadInv, Last, TypeOK
  <2>6. \A c \in Sides : head[c] # Null => head'[c] = head[c]
    BY <1>5, <2>1, <2>5 DEF LinkLast, TypeOK
  <2> QED BY <2>1, <2>2, <2>3, <2>6, QueueAssumption DEF StatusInv, TypeOK, SideOf, Sides
<1>7. ASSUME NEW t \in Threads, CountPushed(t) PROVE StatusInv'
  <2>1. item[t] \in Orders /\ SideOf(item[t]) = book[t] /\ item[t] \in linked[book[t]] /\ pc[t] = "count"
    BY <1>7 DEF CountPushed, CallInv, ItemInv, HistoryInv, TypeOK
  <2>2. /\ status' = [status EXCEPT ![item[t]] = "Active"]
        /\ pc' = [pc EXCEPT ![t] = "idle"] /\ item' = [item EXCEPT ![t] = Null]
        /\ UNCHANGED <<linked, head>>
    BY <1>7 DEF CountPushed, Goto, Return, links, history
  <2> QED BY <2>1, <2>2 DEF StatusInv, TypeOK, SideOf, Sides
<1>10. ASSUME NEW t \in Threads, Unlink(t) PROVE StatusInv'
  <2>1. /\ item[t] \in Orders /\ book[t] \in Sides /\ SideOf(item[t]) = book[t]
        /\ pc[t] = "search" /\ Holds(t, book[t])
    BY <1>10 DEF Unlink, ItemInv, HistoryInv, TypeOK, Holds
  <2>2. /\ linked' = [linked EXCEPT ![book[t]] = @ \ {item[t]}]
        /\ pc' = [pc EXCEPT ![t] = "uncount"]
        /\ UNCHANGED <<status, item>>
    BY <1>10 DEF Unlink, Goto, orderVars, locals
  <2>3. \A u \in Threads : pc[u] \notin {"sellsize", "drop"}
    BY <2>1, Exclusion DEF Holds
  <2> QED BY <2>1, <2>2, <2>3 DEF StatusInv, TypeOK, SideOf, Sides
<1>11. ASSUME NEW t \in Threads, UncountCancelled(t) PROVE StatusInv'
  <2>1. item[t] \in Orders /\ SideOf(item[t]) = book[t] /\ item[t] \notin linked[book[t]] /\ pc[t] = "uncount"
    BY <1>11 DEF UncountCancelled, CallInv, ItemInv
  <2>2. /\ status' = [status EXCEPT ![item[t]] = "Cancelled"]
        /\ pc' = [pc EXCEPT ![t] = "idle"] /\ item' = [item EXCEPT ![t] = Null]
        /\ UNCHANGED <<linked, head>>
    BY <1>11 DEF UncountCancelled, Goto, Return, links, history
  <2> QED BY <2>1, <2>2 DEF StatusInv, TypeOK, SideOf, Sides
<1>13. ASSUME NEW t \in Threads, Fill(t) PROVE StatusInv'
  <2> DEFINE b == head["buy"]
             a == head["sell"]
             f == Smaller(qty[b], qty[a])
  <2>1. /\ pc[t] = "match" /\ b \in Orders /\ a \in Orders
        /\ b \in linked["buy"] /\ a \in linked["sell"]
        /\ SideOf(a) = "sell" /\ SideOf(b) = "buy"
    BY <1>13 DEF Fill, TypeOK, ListInv, HeadInv, First, Sides, HistoryInv
  <2>2. /\ status' = [status EXCEPT ![b] = StatusAfter(b, f), ![a] = StatusAfter(a, f)]
        /\ pc' = [pc EXCEPT ![t] = "sellsize"]
        /\ UNCHANGED <<linked, head, item>>
    BY <1>13 DEF Fill, Goto, links, history
  <2>3. StatusAfter(a, f) \in {"FullFill", "PartialFill"} /\ StatusAfter(b, f) \in {"FullFill", "PartialFill"}
    BY DEF StatusAfter
  <2> QED BY <2>1, <2>2, <2>3 DEF StatusInv, TypeOK, SideOf, Sides
<1>15. ASSUME NEW t \in Threads, DropFilled(t) PROVE StatusInv'
  <2>1. /\ pc[t] = "drop"
        /\ \A s \in Sides : head[s] \in linked[s] /\ head[s] \in Orders /\ SideOf(head[s]) = s
    BY <1>15 DEF DropFilled, CallInv, TypeOK, ListInv, HeadInv, First, HistoryInv
  <2>2. /\ linked' = [s \in Sides |-> IF status[head[s]] = "FullFill" THEN linked[s] \ {head[s]} ELSE linked[s]]
        /\ pc' = [pc EXCEPT ![t] = "idle"]
        /\ UNCHANGED status
        /\ \A u \in Threads : u # t => item'[u] = item[u]
    BY <1>15 DEF DropFilled, Goto, Return, orderVars, TypeOK
  <2>3. \A u \in Threads : u # t => pc[u] \notin {"sellsize", "drop", "settail", "count", "uncount"}
    BY <2>1, Exclusion DEF Holds, TypeOK, Sides
  <2> QED BY <2>1, <2>2, <2>3 DEF StatusInv, TypeOK, SideOf, Sides
<1> QED
  BY <1>0, <1>1, <1>2, <1>3, <1>4, <1>5, <1>6, <1>7, <1>8, <1>9, <1>10, <1>11, <1>12, <1>13, <1>14, <1>15
  DEF Next, Begin, Proceed

(***************************************************************************)
(* Stage 5: the counters.                                                  *)
(***************************************************************************)

Debt(s) == IF mtx[s] = Null THEN 0 ELSE Owed(mtx[s], s)
Counted(s) == IsFiniteSet(linked[s]) /\ size[s] = OpenQty(s) - Debt(s)

LEMMA SizeInvIs ==
  SizeInv <=> (\A s \in Sides : Counted(s)) /\ (\A o \in Orders : status[o] = "FullFill" => qty[o] = 0)
BY DEF SizeInv, Counted, Debt

\* The counters, debts and open quantities are integers.
LEMMA Amounts ==
  ASSUME Base, Lists, NEW s \in Sides, Counted(s)
  PROVE  /\ \A o \in linked[s] : o \in Orders /\ qty[o] \in Int
         /\ OpenQty(s) \in Int /\ size[s] \in Int /\ Debt(s) \in Int
<1>1. \A o \in linked[s] : o \in Orders /\ qty[o] \in Int
  BY DEF Base, TypeOK
<1>2. OpenQty(s) \in Int
  BY <1>1, SumInt DEF OpenQty, Counted
<1>3. size[s] \in Int
  BY DEF Base, TypeOK
<1>4. ASSUME mtx[s] # Null PROVE Owed(mtx[s], s) \in Int
  <2> DEFINE t == mtx[s]
  <2>1. t \in Threads
    BY <1>4 DEF Base, TypeOK
  <2>2. amount[t] \in Int
    BY <2>1 DEF Base, TypeOK
  <2>3. pc[t] \in {"settail", "count", "uncount"} => qty[item[t]] \in Int
    BY <2>1 DEF Base, TypeOK, CallInv
  <2> HIDE DEF t
  <2>4. Owed(t, s) \in Int
    BY <2>2, <2>3 DEF Owed
  <2> QED
    BY <2>4 DEF t
<1> QED
  BY <1>1, <1>2, <1>3, <1>4 DEF Debt

\* A step that leaves the counter, the list and its quantities alone, and the
\* debt of the holder.
LEMMA CounterKept ==
  ASSUME Base, Lists, NEW s \in Sides, Counted(s),
         size'[s] = size[s], linked'[s] = linked[s],
         \A o \in linked[s] : qty'[o] = qty[o],
         Debt(s)' = Debt(s)
  PROVE  Counted(s)'
<1>1. SumFunctionOnSet(qty', linked[s]) = SumFunctionOnSet(qty, linked[s])
  BY SumSame DEF Counted
<1> QED
  BY <1>1 DEF Counted, OpenQty

\* Nothing that the other threads owe changes with a step of thread t ...
Alone(t) ==
  \A u \in Threads \ {t} :
    /\ pc'[u] = pc[u] /\ book'[u] = book[u] /\ item'[u] = item[u] /\ amount'[u] = amount[u]
    /\ pc[u] \in {"settail", "count", "uncount"} => qty'[item[u]] = qty[item[u]]

\* ... so on a side that t does not hold, neither before nor after, all is well.
LEMMA OtherSide ==
  ASSUME Base, Lists, NEW s \in Sides, Counted(s), NEW t \in Threads, Alone(t),
         size'[s] = size[s], linked'[s] = linked[s],
         \A o \in linked[s] : qty'[o] = qty[o],
         mtx'[s] = mtx[s], mtx[s] # t
  PROVE  Counted(s)'
<1>1. CASE mtx[s] = Null
  <2>1. Debt(s)' = Debt(s)
    BY <1>1 DEF Debt
  <2> QED
    BY <2>1, CounterKept
<1>2. CASE mtx[s] # Null
  <2>1. mtx[s] \in Threads \ {t}
    BY <1>2 DEF Base, TypeOK
  <2>2. Owed(mtx[s], s)' = Owed(mtx[s], s)
    BY <2>1 DEF Alone, Owed
  <2>3. Debt(s)' = Debt(s)
    BY <2>2, <1>2 DEF Debt
  <2> QED
    BY <2>3, CounterKept
<1> QED
  BY <1>1, <1>2

\* A side that t has just got or has just let go, or holds without a debt.
LEMMA NoDebt ==
  ASSUME Base, Lists, NEW s \in Sides, Counted(s),
         size'[s] = size[s], linked'[s] = linked[s],
         \A o \in linked[s] : qty'[o] = qty[o],
         Debt(s) = 0, Debt(s)' = 0
  PROVE  Counted(s)'
BY CounterKept

LEMMA SizeStep == Base /\ Base' /\ Lists /\ StatusInv /\ SizeInv /\ [Next]_vars => SizeInv'
<1> SUFFICES ASSUME Base, Base', Lists, StatusInv, SizeInv, [Next]_vars PROVE SizeInv'
  OBVIOUS
<1> DEFINE Spent == \A o \in Orders : status[o] = "FullFill" => qty[o] = 0
<1>a. (\A s \in Sides : Counted(s)) /\ Spent
  BY SizeInvIs
<1>b. SUFFICES (\A s \in Sides : Counted(s)') /\ Spent'
  BY DEF SizeInv, Counted, Debt
<1>c. Sides = {"buy", "sell"}
  BY DEF Sides
<1>0. CASE UNCHANGED vars
  BY <1>0, <1>a DEF vars, links, orderVars, locals, history, Counted, Debt, Owed, OpenQty
<1>1. ASSUME NEW t \in Threads, NEW o \in Orders, PushLock(t, o)
      PROVE  (\A s \in Sides : Counted(s)') /\ Spent'
  <2>1. /\ UNCHANGED <<size, linked, qty, status>> /\ pc'[t] = "link" /\ Alone(t)
        /\ \A s \in Sides : mtx[s] # t
        /\ \A s \in Sides : IF s = SideOf(o) THEN mtx[s] = Null /\ mtx'[s] = t ELSE mtx'[s] = mtx[s]
    BY <1>1, QueueAssumption
       DEF PushLock, Acquire, Goto, Ready, orderVars, history, Alone, Base, TypeOK, LockInv, Holds
  <2>2. ASSUME NEW s \in Sides PROVE Counted(s)'
    <3>1. CASE s = SideOf(o)
      <4>1. Debt(s) = 0 /\ Debt(s)' = 0
        BY <2>1, <3>1 DEF Debt, Owed
      <4> QED
        BY <2>1, <4>1, <1>a, NoDebt
    <3>2. CASE s # SideOf(o)
      BY <2>1, <3>2, <1>a, OtherSide
    <3> QED
      BY <3>1, <3>2
  <2> QED
    BY <2>1, <2>2, <1>a
<1>2. ASSUME NEW t \in Threads, NEW c \in Sides, CancelThrows(t, c)
      PROVE  (\A s \in Sides : Counted(s)') /\ Spent'
  <2>1. /\ UNCHANGED <<size, linked, qty, status, mtx>> /\ Alone(t)
        /\ \A s \in Sides : mtx[s] # t
    BY <1>2 DEF CancelThrows, Goto, Ready, orderVars, history, locals, Alone, Base, TypeOK, LockInv, Holds
  <2>2. ASSUME NEW s \in Sides PROVE Counted(s)'
    BY <2>1, <1>a, OtherSide
  <2> QED
    BY <2>1, <2>2, <1>a
<1>3. ASSUME NEW t \in Threads, NEW c \in Sides, NEW id \in Ids, CancelLock(t, c, id)
      PROVE  (\A s \in Sides : Counted(s)') /\ Spent'
  <2>1. /\ UNCHANGED <<size, linked, qty, status>> /\ pc'[t] = "search" /\ Alone(t)
        /\ \A s \in Sides : mtx[s] # t
        /\ \A s \in Sides : IF s = c THEN mtx[s] = Null /\ mtx'[s] = t ELSE mtx'[s] = mtx[s]
    BY <1>3, QueueAssumption
       DEF CancelLock, Acquire, Goto, Ready, orderVars, history, Alone, Base, TypeOK, LockInv, Holds
  <2>2. ASSUME NEW s \in Sides PROVE Counted(s)'
    <3>1. CASE s = c
      <4>1. Debt(s) = 0 /\ Debt(s)' = 0
        BY <2>1, <3>1 DEF Debt, Owed
      <4> QED
        BY <2>1, <4>1, <1>a, NoDebt
    <3>2. CASE s # c
      BY <2>1, <3>2, <1>a, OtherSide
    <3> QED
      BY <3>1, <3>2
  <2> QED
    BY <2>1, <2>2, <1>a
<1>4. ASSUME NEW t \in Threads, PopLock(t)
      PROVE  (\A s \in Sides : Counted(s)') /\ Spent'
  <2>1. /\ UNCHANGED <<size, linked, qty, status>> /\ pc'[t] = "match"
        /\ \A s \in Sides : mtx[s] = Null /\ mtx'[s] = t
    BY <1>4, QueueAssumption DEF PopLock, Acquire, Goto, orderVars, history, Base, TypeOK
  <2>2. ASSUME NEW s \in Sides PROVE Counted(s)'
    <3>1. Debt(s) = 0 /\ Debt(s)' = 0
      BY <2>1 DEF Debt, Owed
    <3> QED
      BY <2>1, <3>1, <1>a, NoDebt
  <2> QED
    BY <2>1, <2>2, <1>a
<1>5. ASSUME NEW t \in Threads, LinkLast(t)
      PROVE  (\A s \in Sides : Counted(s)') /\ Spent'
  <2> DEFINE c == book[t]
             x == item[t]
  <2>1. /\ c \in Sides /\ x \in Orders /\ pc[t] = "link" /\ pc'[t] = "settail" /\ arrival[x] = 0
        /\ UNCHANGED <<size, qty, status, mtx, book, item, amount>> /\ Alone(t)
        /\ linked' = [linked EXCEPT ![c] = @ \cup {x}]
    BY <1>5 DEF LinkLast, Goto, orderVars, locals, Alone, Base, TypeOK, CallInv, Lists, ItemInv
  <2>2. mtx[c] = t /\ \A s \in Sides \ {c} : mtx[s] # t
    BY <2>1 DEF Base, LockInv, Holds
  <2>3. x \notin linked[c]
    BY <2>1 DEF Lists, HistoryInv
  <2>4. Counted(c)'
    <3>1. Debt(c) = 0 /\ Debt(c)' = qty[x]
      BY <2>1, <2>2, QueueAssumption DEF Debt, Owed
    <3>2. linked'[c] = linked[c] \cup {x}
      BY <2>1 DEF Base, TypeOK
    <3>3. IsFiniteSet(linked[c]) /\ IsFiniteSet(linked'[c])
      <4>1. IsFiniteSet(linked[c])
        BY <1>a, <2>1 DEF Counted
      <4>2. IsFiniteSet(linked[c] \cup {x})
        BY <4>1, FS_AddElement
      <4> QED
        BY <3>2, <4>1, <4>2
    <3>4. \A o \in linked[c] \cup {x} : qty[o] \in Int
      BY <2>1 DEF Base, TypeOK
    <3>5. OpenQty(c)' = qty[x] + OpenQty(c)
      BY <2>1, <2>3, <3>2, <3>3, <3>4, SumWith DEF OpenQty
    <3>6. size[c] = OpenQty(c) - Debt(c) /\ OpenQty(c) \in Int /\ qty[x] \in Int
      BY <2>1, <1>a, <3>4, Amounts DEF Counted
    <3> QED
      BY <2>1, <3>1, <3>3, <3>5, <3>6 DEF Counted
  <2>5. ASSUME NEW s \in Sides, s # c PROVE Counted(s)'
    <3>1. linked'[s] = linked[s]
      BY <2>1, <2>5 DEF Base, TypeOK
    <3> QED
      BY <2>1, <2>2, <2>5, <3>1, <1>a, OtherSide
  <2> QED
    BY <2>1, <2>4, <2>5, <1>a
<1>6. ASSUME NEW t \in Threads, SetTail(t)
      PROVE  (\A s \in Sides : Counted(s)') /\ Spent'
  <2>1. /\ pc[t] = "settail" /\ pc'[t] = "count"
        /\ UNCHANGED <<size, linked, qty, status, mtx, book, item, amount>> /\ Alone(t)
    BY <1>6 DEF SetTail, Goto, orderVars, locals, history, Alone, Base, TypeOK
  <2>2. ASSUME NEW s \in Sides PROVE Counted(s)'
    <3>1. CASE mtx[s] = t
      <4>1. Debt(s)' = Debt(s)
        BY <2>1, <3>1 DEF Debt, Owed
      <4> QED
        BY <2>1, <4>1, <1>a, CounterKept
    <3>2. CASE mtx[s] # t
      BY <2>1, <3>2, <1>a, OtherSide
    <3> QED
      BY <3>1, <3>2
  <2> QED
    BY <2>1, <2>2, <1>a
<1>7. ASSUME NEW t \in Threads, CountPushed(t)
      PROVE  (\A s \in Sides : Counted(s)') /\ Spent'
  <2>0. PICK c \in Sides, x \in Orders : c = book[t] /\ x = item[t]
    BY <1>7 DEF CountPushed, Base, TypeOK, CallInv
  <2>1. /\ c \in Sides /\ x \in Orders /\ pc[t] = "count" /\ mtx'[c] = Null
        /\ UNCHANGED <<linked, qty>> /\ Alone(t)
        /\ size' = [size EXCEPT ![c] = @ + qty[x]]
        /\ \A s \in Sides \ {c} : mtx'[s] = mtx[s]
        /\ status' = [status EXCEPT ![x] = "Active"]
    BY <2>0, <1>7 DEF CountPushed, Goto, Return, orderVars, history, Alone, Base, TypeOK, CallInv
  <2>2. mtx[c] = t /\ t # Null /\ \A s \in Sides \ {c} : mtx[s] # t
    BY <2>0, <2>1, QueueAssumption DEF Base, LockInv, Holds
  <2>3. Counted(c)'
    <3>1. Debt(c) = qty[x] /\ Debt(c)' = 0
      BY <2>0, <2>1, <2>2 DEF Debt, Owed
    <3>2. OpenQty(c)' = OpenQty(c)
      BY <2>1 DEF OpenQty
    <3>3. size[c] = OpenQty(c) - Debt(c) /\ OpenQty(c) \in Int /\ qty[x] \in Int /\ size'[c] = size[c] + qty[x]
      BY <2>1, <1>a, Amounts DEF Counted, Base, TypeOK
    <3> QED
      BY <2>1, <1>a, <3>1, <3>2, <3>3 DEF Counted
  <2>4. ASSUME NEW s \in Sides, s # c PROVE Counted(s)'
    <3>1. size'[s] = size[s]
      BY <2>1, <2>4 DEF Base, TypeOK
    <3> QED
      BY <2>1, <2>2, <2>4, <3>1, <1>a, OtherSide
  <2>5. Spent'
    BY <2>1, <1>a DEF Base, TypeOK
  <2> QED
    BY <2>3, <2>4, <2>5
<1>8. ASSUME NEW t \in Threads, Advance(t)
      PROVE  (\A s \in Sides : Counted(s)') /\ Spent'
  <2>1. /\ pc[t] = "search" /\ UNCHANGED <<pc, size, linked, qty, status, mtx>> /\ Alone(t)
    BY <1>8 DEF Advance, orderVars, history, Alone, Base, TypeOK
  <2>2. ASSUME NEW s \in Sides PROVE Counted(s)'
    <3>1. CASE mtx[s] = t
      <4>1. Debt(s) = 0 /\ Debt(s)' = 0
        BY <2>1, <3>1 DEF Debt, Owed
      <4> QED
        BY <2>1, <4>1, <1>a, NoDebt
    <3>2. CASE mtx[s] # t
      BY <2>1, <3>2, <1>a, OtherSide
    <3> QED
      BY <3>1, <3>2
  <2> QED
    BY <2>1, <2>2, <1>a
<1>9. ASSUME NEW t \in Threads, NotFound(t)
      PROVE  (\A s \in Sides : Counted(s)') /\ Spent'
  <2>0. PICK c \in Sides : c = book[t]
    BY DEF Base, TypeOK
  <2>1. /\ c \in Sides /\ pc[t] = "search" /\ mtx'[c] = Null
        /\ UNCHANGED <<size, linked, qty, status>> /\ Alone(t)
        /\ \A s \in Sides \ {c} : mtx'[s] = mtx[s]
    BY <2>0, <1>9 DEF NotFound, Goto, Return, orderVars, history, Alone, Base, TypeOK
  <2>2. mtx[c] = t /\ \A s \in Sides \ {c} : mtx[s] # t
    BY <2>0, <2>1 DEF Base, LockInv, Holds
  <2>3. Counted(c)'
    <3>1. Debt(c) = 0 /\ Debt(c)' = 0
      BY <2>1, <2>2 DEF Debt, Owed
    <3> QED
      BY <2>1, <3>1, <1>a, NoDebt
  <2>4. ASSUME NEW s \in Sides, s # c PROVE Counted(s)'
    BY <2>1, <2>2, <2>4, <1>a, OtherSide
  <2> QED
    BY <2>1, <2>3, <2>4, <1>a
<1>10. ASSUME NEW t \in Threads, Unlink(t)
      PROVE  (\A s \in Sides : Counted(s)') /\ Spent'
  <2> DEFINE c == book[t]
             x == item[t]
  <2>1. /\ c \in Sides /\ x \in Orders /\ pc[t] = "search" /\ pc'[t] = "uncount" /\ x \in linked[c]
        /\ UNCHANGED <<size, qty, status, mtx, book, item, amount>> /\ Alone(t)
        /\ linked' = [linked EXCEPT ![c] = @ \ {x}]
    BY <1>10 DEF Unlink, Goto, orderVars, locals, Alone, Base, TypeOK, CallInv, Lists, ItemInv
  <2>2. mtx[c] = t /\ \A s \in Sides \ {c} : mtx[s] # t
    BY <2>1 DEF Base, LockInv, Holds
  <2>4. Counted(c)'
    <3>1. Debt(c) = 0 /\ Debt(c)' = 0 - qty[x]
      BY <2>1, <2>2, QueueAssumption DEF Debt, Owed
    <3>2. linked'[c] = linked[c] \ {x}
      BY <2>1 DEF Base, TypeOK
    <3>3. IsFiniteSet(linked[c]) /\ IsFiniteSet(linked'[c])
      BY <1>a, <2>1, <3>2, FS_RemoveElement DEF Counted
    <3>4. \A o \in linked[c] : qty[o] \in Int
      BY <2>1 DEF Base, TypeOK
    <3>5. OpenQty(c) = qty[x] + OpenQty(c)'
      BY <2>1, <3>2, <3>3, <3>4, SumWithout DEF OpenQty
    <3>6. OpenQty(c)' \in Int
      BY <2>1, <3>2, <3>3, <3>4, SumInt DEF OpenQty
    <3>7. size[c] = OpenQty(c) - Debt(c) /\ qty[x] \in Int
      BY <2>1, <1>a, <3>4 DEF Counted
    <3> QED
      BY <2>1, <3>1, <3>3, <3>5, <3>6, <3>7 DEF Counted
  <2>5. ASSUME NEW s \in Sides, s # c PROVE Counted(s)'
    <3>1. linked'[s] = linked[s]
      BY <2>1, <2>5 DEF Base, TypeOK
    <3> QED
      BY <2>1, <2>2, <2>5, <3>1, <1>a, OtherSide
  <2> QED
    BY <2>1, <2>4, <2>5, <1>a
<1>11. ASSUME NEW t \in Threads, UncountCancelled(t)
      PROVE  (\A s \in Sides : Counted(s)') /\ Spent'
  <2>0. PICK c \in Sides, x \in Orders : c = book[t] /\ x = item[t]
    BY <1>11 DEF UncountCancelled, Base, TypeOK, CallInv
  <2>1. /\ c \in Sides /\ x \in Orders /\ pc[t] = "uncount" /\ mtx'[c] = Null
        /\ UNCHANGED <<linked, qty>> /\ Alone(t)
        /\ size' = [size EXCEPT ![c] = @ - qty[x]]
        /\ \A s \in Sides \ {c} : mtx'[s] = mtx[s]
        /\ status' = [status EXCEPT ![x] = "Cancelled"]
    BY <2>0, <1>11 DEF UncountCancelled, Goto, Return, orderVars, history, links, Alone, Base, TypeOK, CallInv
  <2>2. mtx[c] = t /\ t # Null /\ \A s \in Sides \ {c} : mtx[s] # t
    BY <2>0, <2>1, QueueAssumption DEF Base, LockInv, Holds
  <2>3. Counted(c)'
    <3>1. Debt(c) = 0 - qty[x] /\ Debt(c)' = 0
      BY <2>0, <2>1, <2>2 DEF Debt, Owed
    <3>2. OpenQty(c)' = OpenQty(c)
      BY <2>1 DEF OpenQty
    <3>3. size[c] = OpenQty(c) - Debt(c) /\ OpenQty(c) \in Int /\ qty[x] \in Int /\ size'[c] = size[c] - qty[x]
      BY <2>1, <1>a, Amounts DEF Counted, Base, TypeOK
    <3> QED
      BY <2>1, <1>a, <3>1, <3>2, <3>3 DEF Counted
  <2>4. ASSUME NEW s \in Sides, s # c PROVE Counted(s)'
    <3>1. size'[s] = size[s]
      BY <2>1, <2>4 DEF Base, TypeOK
    <3> QED
      BY <2>1, <2>2, <2>4, <3>1, <1>a, OtherSide
  <2>5. Spent'
    BY <2>1, <1>a DEF Base, TypeOK
  <2> QED
    BY <2>3, <2>4, <2>5
<1>12. ASSUME NEW t \in Threads, NoMatch(t)
      PROVE  (\A s \in Sides : Counted(s)') /\ Spent'
  <2>1. /\ UNCHANGED <<size, linked, qty, status>> /\ pc[t] = "match"
        /\ \A s \in Sides : mtx[s] = t /\ mtx'[s] = Null
    BY <1>12 DEF NoMatch, Return, Goto, orderVars, history, Base, TypeOK, LockInv, Holds
  <2>2. ASSUME NEW s \in Sides PROVE Counted(s)'
    <3>1. Debt(s) = 0 /\ Debt(s)' = 0
      BY <2>1 DEF Debt, Owed
    <3> QED
      BY <2>1, <3>1, <1>a, NoDebt
  <2> QED
    BY <2>1, <2>2, <1>a
<1>13. ASSUME NEW t \in Threads, Fill(t)
      PROVE  (\A s \in Sides : Counted(s)') /\ Spent'
  <2> DEFINE b == head["buy"]
             a == head["sell"]
             f == Smaller(qty[b], qty[a])
  <2>1. /\ pc[t] = "match" /\ b \in Orders /\ a \in Orders /\ a # b
        /\ b \in linked["buy"] /\ a \in linked["sell"]
        /\ b \notin linked["sell"] /\ a \notin linked["buy"]
    BY <1>13 DEF Fill, Base, Lists, TypeOK, ListInv, HeadInv, First, Sides, HistoryInv
  <2>2. qty[a] \in Int /\ qty[b] \in Int /\ f \in Int
    BY <2>1 DEF Base, TypeOK, Smaller
  <2>3. /\ pc'[t] = "sellsize" /\ amount'[t] = f
        /\ qty' = [qty EXCEPT ![b] = @ - f, ![a] = @ - f]
        /\ status' = [status EXCEPT ![b] = StatusAfter(b, f), ![a] = StatusAfter(a, f)]
        /\ size' = [size EXCEPT !["buy"] = @ - f]
        /\ UNCHANGED <<linked, mtx, book>>
    BY <1>13 DEF Fill, Goto, history, Base, TypeOK
  <2>4. \A s \in Sides : mtx[s] = t /\ t # Null
    BY <2>1, QueueAssumption DEF Base, LockInv, Holds
  <2>5. /\ qty'[b] = qty[b] - f /\ qty'[a] = qty[a] - f
        /\ \A o \in Orders \ {a, b} : qty'[o] = qty[o]
    BY <2>1, <2>3 DEF Base, TypeOK
  <2>6. \A s \in Sides : \A o \in linked[s] : qty[o] \in Int /\ qty'[o] \in Int
    BY <2>1, <2>2, <2>5 DEF Base, TypeOK
  <2>7. \A s \in Sides : /\ IsFiniteSet(linked[s]) /\ IsFiniteSet(linked'[s])
                         /\ size[s] = OpenQty(s) /\ OpenQty(s) \in Int
    <3> SUFFICES ASSUME NEW s \in Sides
                 PROVE  /\ IsFiniteSet(linked[s]) /\ IsFiniteSet(linked'[s])
                        /\ size[s] = OpenQty(s) /\ OpenQty(s) \in Int
      OBVIOUS
    <3>1. Debt(s) = 0
      BY <2>1, <2>4 DEF Debt, Owed
    <3> QED
      BY <1>a, <2>3, <3>1, Amounts DEF Counted
  <2>8. Counted("buy")'
    <3>1. Debt("buy")' = 0
      BY <2>3, <2>4, <1>c DEF Debt, Owed
    <3>2. \A o \in linked["buy"] \ {b} : qty'[o] = qty[o]
      BY <2>1, <2>5, <1>c DEF Base, TypeOK
    <3>3. SumFunctionOnSet(qty', linked["buy"]) = SumFunctionOnSet(qty, linked["buy"]) - qty[b] + qty'[b]
      BY <2>1, <2>6, <2>7, <3>2, <1>c, SumChanged
    <3>4. OpenQty("buy")' = OpenQty("buy") - f
      BY <2>2, <2>3, <2>5, <2>7, <3>3, <1>c DEF OpenQty
    <3>5. size'["buy"] = size["buy"] - f
      BY <2>3, <1>c DEF Base, TypeOK
    <3> QED
      BY <2>2, <2>7, <3>1, <3>4, <3>5, <1>c DEF Counted
  <2>9. Counted("sell")'
    <3>1. Debt("sell")' = 0 - f
      BY <2>3, <2>4, <1>c DEF Debt, Owed
    <3>2. \A o \in linked["sell"] \ {a} : qty'[o] = qty[o]
      BY <2>1, <2>5, <1>c DEF Base, TypeOK
    <3>3. SumFunctionOnSet(qty', linked["sell"]) = SumFunctionOnSet(qty, linked["sell"]) - qty[a] + qty'[a]
      BY <2>1, <2>6, <2>7, <3>2, <1>c, SumChanged
    <3>4. OpenQty("sell")' = OpenQty("sell") - f
      BY <2>2, <2>3, <2>5, <2>7, <3>3, <1>c DEF OpenQty
    <3>5. size'["sell"] = size["sell"]
      BY <2>3, <1>c DEF Base, TypeOK
    <3> QED
      BY <2>2, <2>7, <3>1, <3>4, <3>5, <1>c DEF Counted
  <2>10. Spent'
    <3>1. /\ StatusAfter(b, f) = "FullFill" => qty[b] - f = 0
          /\ StatusAfter(a, f) = "FullFill" => qty[a] - f = 0
      BY DEF StatusAfter
    <3>2. \A o \in Orders : status'[o] = IF o = a THEN StatusAfter(a, f)
                                         ELSE IF o = b THEN StatusAfter(b, f) ELSE status[o]
      BY <2>1, <2>3 DEF Base, TypeOK
    <3> HIDE DEF f
    <3> QED
      BY <1>a, <2>5, <3>1, <3>2
  <2> QED
    BY <2>8, <2>9, <2>10, <1>c
<1>14. ASSUME NEW t \in Threads, UncountSell(t)
      PROVE  (\A s \in Sides : Counted(s)') /\ Spent'
  <2>1. /\ pc[t] = "sellsize" /\ pc'[t] = "drop"
        /\ size' = [size EXCEPT !["sell"] = @ - amount[t]]
        /\ UNCHANGED <<linked, qty, status, mtx>>
    BY <1>14 DEF UncountSell, Goto, orderVars, history, Base, TypeOK
  <2>2. \A s \in Sides : mtx[s] = t /\ t # Null
    BY <2>1, QueueAssumption DEF Base, LockInv, Holds
  <2>3. Counted("buy")'
    <3>1. Debt("buy") = 0 /\ Debt("buy")' = 0 /\ size'["buy"] = size["buy"]
      BY <2>1, <2>2, <1>c DEF Debt, Owed, Base, TypeOK
    <3> QED
      BY <2>1, <3>1, <1>a, <1>c, NoDebt
  <2>4. Counted("sell")'
    <3>1. Debt("sell") = 0 - amount[t] /\ Debt("sell")' = 0
      BY <2>1, <2>2, <1>c DEF Debt, Owed
    <3>2. OpenQty("sell")' = OpenQty("sell")
      BY <2>1 DEF OpenQty
    <3>3. /\ size["sell"] = OpenQty("sell") - Debt("sell") /\ OpenQty("sell") \in Int
          /\ amount[t] \in Int /\ size'["sell"] = size["sell"] - amount[t]
      BY <2>1, <1>a, <1>c, Amounts DEF Counted, Base, TypeOK
    <3> QED
      BY <2>1, <1>a, <1>c, <3>1, <3>2, <3>3 DEF Counted
  <2> QED
    BY <2>1, <2>3, <2>4, <1>a, <1>c
<1>15. ASSUME NEW t \in Threads, DropFilled(t)
      PROVE  (\A s \in Sides : Counted(s)') /\ Spent'
  <2>1. /\ pc[t] = "drop" /\ UNCHANGED <<size, qty, status>>
        /\ \A s \in Sides : head[s] \in linked[s] /\ head[s] \in Orders
        /\ linked' = [s \in Sides |-> IF status[head[s]] = "FullFill" THEN linked[s] \ {head[s]} ELSE linked[s]]
        /\ \A s \in Sides : mtx'[s] = Null
    BY <1>15 DEF DropFilled, Return, Goto, orderVars, Base, TypeOK, CallInv, Lists, ListInv, HeadInv, First
  <2>2. \A s \in Sides : mtx[s] = t /\ t # Null
    BY <2>1, QueueAssumption DEF Base, LockInv, Holds
  <2>3. ASSUME NEW s \in Sides PROVE Counted(s)'
    <3>1. Debt(s) = 0 /\ Debt(s)' = 0
      BY <2>1, <2>2 DEF Debt, Owed
    <3>2. CASE status[head[s]] # "FullFill"
      BY <2>1, <3>1, <3>2, <1>a, NoDebt
    <3>3. CASE status[head[s]] = "FullFill"
      <4>1. linked'[s] = linked[s] \ {head[s]} /\ qty[head[s]] = 0
        BY <2>1, <3>3, <1>a
      <4>2. IsFiniteSet(linked[s]) /\ IsFiniteSet(linked'[s])
        BY <1>a, <4>1, FS_RemoveElement DEF Counted
      <4>3. \A o \in linked[s] : qty[o] \in Int
        BY DEF Base, TypeOK
      <4>4. OpenQty(s) = qty[head[s]] + OpenQty(s)'
        BY <2>1, <4>1, <4>2, <4>3, SumWithout DEF OpenQty
      <4>5. OpenQty(s)' \in Int
        BY <2>1, <4>1, <4>2, <4>3, SumInt DEF OpenQty
      <4>6. size[s] = OpenQty(s) - Debt(s)
        BY <1>a DEF Counted
      <4> QED
        BY <2>1, <3>1, <4>1, <4>2, <4>4, <4>5, <4>6 DEF Counted
    <3> QED
      BY <3>2, <3>3
  <2> QED
    BY <2>1, <2>3, <1>a
<1> QED
  BY <1>0, <1>1, <1>2, <1>3, <1>4, <1>5, <1>6, <1>7, <1>8, <1>9, <1>10, <1>11, <1>12, <1>13, <1>14, <1>15
  DEF Next, Begin, Proceed

LEMMA SizeStart == Init => SizeInv
<1> SUFFICES ASSUME Init PROVE SizeInv
  OBVIOUS
<1>1. \A s \in Sides : linked[s] = {} /\ size[s] = 0 /\ mtx[s] = Null
  BY DEF Init
<1>2. \A s \in Sides : IsFiniteSet(linked[s]) /\ OpenQty(s) = 0
  BY <1>1, SumNothing, FS_EmptySet DEF OpenQty
<1> QED
  BY <1>1, <1>2 DEF SizeInv, Init

(***************************************************************************)
(* The theorems.                                                           *)
(***************************************************************************)

\* In every reachable state of every level, with any number of threads and
\* orders and with repeated ids or zero quantities too, IInv holds.
THEOREM Invariant == Spec => []IInv
<1>1. Init => IInv
  <2> SUFFICES ASSUME Init PROVE IInv
    OBVIOUS
  <2>1. SearchInv /\ StatusInv
    BY DEF Init, SearchInv, StatusInv, Sides, SideOf
  <2> QED BY <2>1, BaseInit, ListsInit, SizeStart DEF IInv, Base, Lists
<1>2. IInv /\ [Next]_vars => IInv'
  BY BaseStep, ListsStep, SearchStep, StatusStep, SizeStep DEF IInv, Base, Lists
<1> QED BY <1>1, <1>2, PTL DEF Spec

\* Every variable keeps its type: no call dereferences nullptr.
THEOREM TypeCorrect == Spec => []TypeOK
<1>1. IInv => TypeOK
  BY DEF IInv
<1> QED BY <1>1, Invariant, PTL

\* A side's mutex is held by exactly the threads inside a call on that side.
THEOREM LocksHeld == Spec => []LockInv
<1>1. IInv => LockInv
  BY DEF IInv
<1> QED BY <1>1, Invariant, PTL

\* The four pointers and the links of a level always describe its two lists.
THEOREM ListsCorrect == Spec => []ListInv
<1>1. IInv => ListInv
  BY DEF IInv
<1> QED BY <1>1, Invariant, PTL

\* Between two calls, the orders of a list are exactly the open ones.
THEOREM StatusCorrect == Spec => []StatusAgrees
<1>1. IInv => StatusAgrees
  <2> SUFFICES ASSUME IInv, NEW s \in Sides, mtx[s] = Null, NEW o \in Orders
               PROVE  o \in linked[s] <=> SideOf(o) = s /\ status[o] \in {"Active", "PartialFill"}
    BY DEF StatusAgrees
  <2>1. \A t \in Threads : ~ Holds(t, s)
    BY QueueAssumption DEF IInv, LockInv
  <2>2. o \in linked[s] => SideOf(o) = s /\ arrival[o] # 0
    BY DEF IInv, HistoryInv
  <2>3. \A t \in Threads : pc[t] \in {"settail", "count", "uncount"} /\ item[t] = o => SideOf(o) # s
    BY <2>1 DEF IInv, ItemInv, HistoryInv, CallInv, TypeOK, Holds
  <2>4. \A t \in Threads : pc[t] \notin {"sellsize", "drop"}
    BY <2>1 DEF Holds
  <2>5. status[o] \in Statuses
    BY DEF IInv, TypeOK
  <2> QED BY <2>2, <2>3, <2>4, <2>5 DEF IInv, StatusInv, Statuses
<1> QED BY <1>1, Invariant, PTL

\* Between two calls, the counter of a side is what its list still wants.
THEOREM CountersCorrect == Spec => []SizeAgrees
<1>1. IInv => SizeAgrees
  <2> SUFFICES ASSUME IInv, NEW s \in Sides, mtx[s] = Null PROVE size[s] = OpenQty(s)
    BY DEF SizeAgrees
  <2>1. Counted(s) /\ OpenQty(s) \in Int
    BY SizeInvIs, Amounts DEF IInv, Base, Lists
  <2> QED
    BY <2>1 DEF Counted, Debt
<1> QED BY <1>1, Invariant, PTL

\* No order is sold or bought more than it was for, and so no thread that reads
\* a counter without its mutex sees it below zero, in whatever call it looks.
THEOREM CountersNatural ==
  ASSUME Quantities \subseteq [Orders -> Nat]
  PROVE  Spec => []SizeNeverNegative
<1> DEFINE Natural == /\ qty \in [Orders -> Nat]
                      /\ \A t \in Threads : pc[t] = "sellsize" => amount[t] \in Nat
<1>1. Init => Natural
  BY DEF Init
<1>2. IInv /\ Natural /\ [Next]_vars => Natural'
  <2> SUFFICES ASSUME IInv, Natural, [Next]_vars PROVE Natural'
    OBVIOUS
  <2>1. CASE UNCHANGED vars
    BY <2>1 DEF vars, orderVars, locals
  <2>2. ASSUME NEW t \in Threads, Begin(t) \/ Proceed(t), ~ Fill(t) PROVE Natural'
    <3>1. UNCHANGED qty
      BY <2>2 DEF Begin, Proceed, PushLock, CancelThrows, CancelLock, PopLock, LinkLast, SetTail, CountPushed,
           Advance, NotFound, Unlink, UncountCancelled, NoMatch, UncountSell, DropFilled, orderVars
    \* No other step comes to that counter, or sets an amount but to zero.
    <3>2. /\ \E l : l # "sellsize" /\ pc' = [pc EXCEPT ![t] = l]
          /\ amount' = amount \/ amount' = [amount EXCEPT ![t] = 0]
      <4>1. CASE \E o \in Orders : PushLock(t, o)
        BY <4>1 DEF PushLock, Goto
      <4>2. CASE \E s \in Sides : CancelThrows(t, s)
        BY <4>2 DEF CancelThrows, Goto, locals
      <4>3. CASE \E s \in Sides, id \in Ids : CancelLock(t, s, id)
        BY <4>3 DEF CancelLock, Goto
      <4>4. CASE PopLock(t)
        BY <4>4 DEF PopLock, Goto, locals
      <4>5. CASE LinkLast(t) \/ SetTail(t) \/ CountPushed(t)
        BY <4>5 DEF LinkLast, SetTail, CountPushed, Goto, Return, locals
      <4>6. CASE Advance(t) \/ NotFound(t) \/ Unlink(t) \/ UncountCancelled(t)
        <5>1. CASE Advance(t)
          <6>1. pc' = [pc EXCEPT ![t] = "search"]
            BY <5>1 DEF Advance, IInv, TypeOK
          <6> QED
            BY <5>1, <6>1 DEF Advance
        <5>2. CASE NotFound(t) \/ Unlink(t) \/ UncountCancelled(t)
          BY <5>2 DEF NotFound, Unlink, UncountCancelled, Goto, Return, locals
        <5> QED
          BY <4>6, <5>1, <5>2
      <4>7. CASE NoMatch(t) \/ UncountSell(t) \/ DropFilled(t)
        BY <4>7 DEF NoMatch, UncountSell, DropFilled, Goto, Return, locals
      <4> QED
        BY <2>2, <4>1, <4>2, <4>3, <4>4, <4>5, <4>6, <4>7 DEF Begin, Proceed
    <3>3. ASSUME NEW u \in Threads, pc'[u] = "sellsize" PROVE pc[u] = "sellsize" /\ amount'[u] = amount[u]
      BY <3>2, <3>3 DEF IInv, TypeOK
    <3> QED BY <3>1, <3>3
  <2>3. ASSUME NEW t \in Threads, Fill(t) PROVE Natural'
    <3> DEFINE b == head["buy"]
               a == head["sell"]
               f == Smaller(qty[b], qty[a])
    <3>1. a \in Orders /\ b \in Orders /\ a # b
      BY <2>3 DEF Fill, IInv, TypeOK, ListInv, HeadInv, First, HistoryInv, Sides
    <3>2. f \in Nat /\ qty[a] - f \in Nat /\ qty[b] - f \in Nat
      BY <3>1 DEF Smaller
    <3>3. qty' = [qty EXCEPT ![b] = @ - f, ![a] = @ - f] /\ amount' = [amount EXCEPT ![t] = f]
      BY <2>3 DEF Fill
    <3>4. \A u \in Threads : pc'[u] = "sellsize" => u = t \/ pc[u] = "sellsize"
      BY <2>3 DEF Fill, Goto, IInv, TypeOK
    <3> HIDE DEF f
    <3>5. qty' \in [Orders -> Nat]
      BY <3>1, <3>2, <3>3
    <3> QED BY <3>2, <3>3, <3>4, <3>5 DEF IInv, TypeOK
  <2> QED BY <2>1, <2>2, <2>3 DEF Next
<1>3. IInv /\ Natural => SizeNeverNegative
  <2> SUFFICES ASSUME IInv, Natural, NEW s \in Sides PROVE size[s] >= 0
    BY DEF SizeNeverNegative
  <2>1. Counted(s) /\ linked[s] \subseteq Orders
    BY SizeInvIs DEF IInv, TypeOK
  <2>2. \A o \in linked[s] : qty[o] \in Nat
    BY <2>1
  <2>3. OpenQty(s) \in Nat /\ \A o \in linked[s] : qty[o] <= OpenQty(s)
    BY <2>1, <2>2, SumNat DEF OpenQty, Counted
  <2>4. Debt(s) \in Int /\ Debt(s) <= OpenQty(s)
    <3>1. CASE mtx[s] = Null
      BY <3>1, <2>3 DEF Debt
    <3>2. CASE mtx[s] # Null
      <4> DEFINE t == mtx[s]
      <4>1. t \in Threads
        BY <3>2 DEF IInv, TypeOK
      <4>2. pc[t] \in {"settail", "count"} /\ book[t] = s => item[t] \in linked[s] /\ qty[item[t]] \in Nat
        BY <4>1, <2>2 DEF IInv, ItemInv
      <4>3. pc[t] = "uncount" => qty[item[t]] \in Nat
        BY <4>1 DEF IInv, CallInv
      <4>4. pc[t] = "sellsize" => amount[t] \in Nat
        BY <4>1
      <4>5. Debt(s) = Owed(t, s)
        BY <3>2 DEF Debt
      <4> HIDE DEF t
      <4> QED BY <2>3, <4>2, <4>3, <4>4, <4>5 DEF Owed
    <3> QED BY <3>1, <3>2
  <2> QED BY <2>1, <2>3, <2>4 DEF Counted
<1> HIDE DEF Natural
<1> QED BY <1>1, <1>2, <1>3, Invariant, PTL DEF Spec

\* A cancellation that returns without cancelling has missed nothing: there is
\* no order with its id in the queue of its side, and when it throws no order.
THEOREM MissesAreHonest == Spec => MissIsHonest
<1> DEFINE Honest(t) ==
             /\ pc[t] = "search" /\ pc'[t] = "idle" => \A o \in linked[book[t]] : IdOf[o] # target[t]
             /\ pc'[t] = "threw" /\ <<pc[t], book[t]>> # <<"threw", book'[t]>> => linked[book'[t]] = {}
<1>1. IInv /\ [Next]_vars => [\A t \in Threads : Honest(t)]_vars
  <2> SUFFICES ASSUME IInv, NEW u \in Threads, Begin(u) \/ Proceed(u), NEW t \in Threads
               PROVE  Honest(t)
    BY DEF Next
  <2>1. t # u => pc'[t] = pc[t] /\ book'[t] = book[t]
    BY DEF Begin, Proceed, PushLock, CancelThrows, CancelLock, PopLock, LinkLast, SetTail, CountPushed,
         Advance, NotFound, Unlink, UncountCancelled, NoMatch, Fill, UncountSell, DropFilled,
         Goto, Return, locals, IInv, TypeOK
  <2>2. ASSUME pc[t] = "search", pc'[t] = "idle" PROVE \A o \in linked[book[t]] : IdOf[o] # target[t]
    <3>1. NotFound(t)
      BY <2>1, <2>2 DEF Begin, Proceed, PushLock, CancelThrows, CancelLock, PopLock, LinkLast, SetTail, CountPushed,
           Advance, Unlink, UncountCancelled, NoMatch, Fill, UncountSell, DropFilled, Goto, IInv, TypeOK, Ready
    <3> QED BY <3>1 DEF NotFound, IInv, SearchInv
  <2>3. ASSUME pc'[t] = "threw", <<pc[t], book[t]>> # <<"threw", book'[t]>> PROVE linked[book'[t]] = {}
    <3>1. t = u
      BY <2>1, <2>3
    <3>2. PICK s \in Sides : CancelThrows(t, s)
      BY <2>3, <3>1 DEF Begin, Proceed, PushLock, CancelLock, PopLock, LinkLast, SetTail, CountPushed,
           Advance, NotFound, Unlink, UncountCancelled, NoMatch, Fill, UncountSell, DropFilled, Goto, IInv, TypeOK
    <3>3. book'[t] = s /\ head[s] = Null
      BY <3>2 DEF CancelThrows, IInv, TypeOK
    <3> QED BY <3>3, QueueAssumption DEF IInv, ListInv, HeadInv, First, TypeOK
  <2> QED BY <2>2, <2>3
<1> QED BY <1>1, Invariant, PTL DEF Spec, MissIsHonest

\* Nothing but the link, the match and the unlink is visible to LevelFifo.
LEMMA InvisibleStep ==
  ASSUME UNCHANGED <<Resting, arrival, qty>>
  PROVE  [Promise!Next]_(Promise!vars)
<1>1. UNCHANGED <<Ahead, Joined>>
  BY DEF Ahead, Joined
<1> QED
  BY <1>1 DEF Promise!vars

\* The pairs that LevelFifo keeps, by name.
LEMMA AheadIs ==
  ASSUME NEW x, NEW y
  PROVE  <<x, y>> \in Ahead <=> \E s \in Sides : x \in Resting[s] /\ y \in Resting[s] /\ arrival[x] < arrival[y]
BY DEF Ahead

\* The oldest of some orders that rest on one side is the one that came first.
LEMMA OldestIs ==
  ASSUME TypeOK, HistoryInv, NEW s \in Sides, NEW S \in SUBSET Resting[s], NEW o \in S,
         \A x \in S : arrival[o] <= arrival[x]
  PROVE  Promise!Oldest(o, S)
<1>1. ASSUME NEW x \in S PROVE <<x, o>> \notin Ahead
  <2>1. Resting[s] \subseteq Orders
    BY DEF Resting, TypeOK
  <2>2. arrival[x] \in Nat /\ arrival[o] \in Nat
    BY <2>1, <1>1 DEF TypeOK
  <2>3. ~ (arrival[x] < arrival[o])
    BY <1>1, <2>2
  <2> QED
    BY <2>3, AheadIs
<1> QED
  BY <1>1 DEF Promise!Oldest

\* What rests on the two sides has come, and has a side.
LEMMA RestingAre ==
  ASSUME TypeOK, HistoryInv
  PROVE  /\ Resting \in [Sides -> SUBSET Orders]
         /\ \A s \in Sides : \A o \in Resting[s] : SideOf(o) = s /\ arrival[o] # 0
         /\ Ahead \subseteq Orders \X Orders
<1>1. \A s \in Sides : Resting[s] \subseteq linked[s] /\ Resting[s] \subseteq Orders
  BY DEF Resting, TypeOK
<1>2. Resting \in [Sides -> SUBSET Orders]
  BY <1>1 DEF Resting
<1>3. Ahead \subseteq Orders \X Orders
  BY <1>1 DEF Ahead
<1> QED
  BY <1>1, <1>2, <1>3 DEF HistoryInv

\* Orders that stop resting take their pairs with them.
LEMMA LeaveIs ==
  ASSUME TypeOK, HistoryInv, NEW gone,
         Resting' = [s \in Sides |-> Resting[s] \ gone], arrival' = arrival
  PROVE  Promise!Leave(gone)
<1>1. Joined' = Joined
  BY DEF Joined
<1>2. Ahead' = {w \in Ahead : w[1] \notin gone /\ w[2] \notin gone}
  <2>1. \A s \in Sides : Resting'[s] = Resting[s] \ gone
    OBVIOUS
  <2>2. Ahead' = UNION {{w \in Resting'[s] \X Resting'[s] : arrival[w[1]] < arrival[w[2]]} : s \in Sides}
    BY DEF Ahead
  <2>3. ASSUME NEW w PROVE w \in Ahead' <=> w \in Ahead /\ w[1] \notin gone /\ w[2] \notin gone
    <3>1. w \in Ahead' <=> \E s \in Sides : w \in Resting'[s] \X Resting'[s] /\ arrival[w[1]] < arrival[w[2]]
      BY <2>2
    <3>2. w \in Ahead <=> \E s \in Sides : w \in Resting[s] \X Resting[s] /\ arrival[w[1]] < arrival[w[2]]
      BY DEF Ahead
    <3>3. \A s \in Sides : w \in Resting'[s] \X Resting'[s] <=>
            w \in Resting[s] \X Resting[s] /\ w[1] \notin gone /\ w[2] \notin gone
      BY <2>1
    <3> QED
      BY <3>1, <3>2, <3>3
  <2> QED
    BY <2>3
<1> QED
  BY <1>1, <1>2 DEF Promise!Leave, Sides, Promise!Sides

\* Every level, whatever the interleaving of the threads, does what LevelFifo
\* promises: the oldest bid trades with the oldest ask, and so on.
THEOREM Refinement == Spec => Implements
<1>1. Init => Promise!Init
  BY DEF Init, Promise!Init, Resting, Ahead, Joined, Sides, Promise!Sides
<1>2. IInv /\ [Next]_vars => [Promise!Next]_(Promise!vars)
  <2> SUFFICES ASSUME IInv, [Next]_vars PROVE [Promise!Next]_(Promise!vars)
    OBVIOUS
  <2>0. CASE UNCHANGED vars
    BY <2>0, InvisibleStep DEF vars, history, orderVars, Resting
  <2>1. ASSUME NEW t \in Threads, Begin(t) PROVE [Promise!Next]_(Promise!vars)
    <3>1. UNCHANGED <<linked, arrival, clock, qty, status>>
      BY <2>1 DEF Begin, PushLock, CancelThrows, CancelLock, PopLock, history, orderVars
    <3> QED BY <3>1, InvisibleStep DEF Resting
  <2>2. ASSUME NEW t \in Threads,
               SetTail(t) \/ Advance(t) \/ NotFound(t) \/ NoMatch(t) \/ UncountSell(t)
        PROVE  [Promise!Next]_(Promise!vars)
    <3>1. UNCHANGED <<linked, arrival, clock, qty, status>>
      BY <2>2 DEF SetTail, Advance, NotFound, NoMatch, UncountSell, history, orderVars
    <3> QED BY <3>1, InvisibleStep DEF Resting
  <2>3. ASSUME NEW t \in Threads, CountPushed(t) PROVE [Promise!Next]_(Promise!vars)
    <3>1. /\ UNCHANGED <<linked, arrival, clock, qty>>
          /\ status' = [status EXCEPT ![item[t]] = "Active"]
          /\ status[item[t]] = "Inactive"
      BY <2>3 DEF CountPushed, history, IInv, ItemInv
    <3>2. \A o \in Orders : status[o] = "FullFill" <=> status'[o] = "FullFill"
      BY <3>1 DEF IInv, TypeOK
    <3>3. UNCHANGED Resting
      BY <3>1, <3>2 DEF Resting, IInv, TypeOK
    <3> QED BY <3>1, <3>3, InvisibleStep
  <2>4. ASSUME NEW t \in Threads, UncountCancelled(t) PROVE [Promise!Next]_(Promise!vars)
    <3>1. /\ UNCHANGED <<linked, arrival, clock, qty>>
          /\ status' = [status EXCEPT ![item[t]] = "Cancelled"]
          /\ \A s \in Sides : item[t] \notin linked[s]
      BY <2>4 DEF UncountCancelled, history, IInv, ItemInv, HistoryInv
    <3>2. \A s \in Sides : \A o \in linked[s] : status[o] = status'[o]
      BY <3>1 DEF IInv, TypeOK
    <3>3. UNCHANGED Resting
      BY <3>1, <3>2 DEF Resting
    <3> QED BY <3>1, <3>3, InvisibleStep
  <2>5. ASSUME NEW t \in Threads, DropFilled(t) PROVE [Promise!Next]_(Promise!vars)
    <3>1. /\ UNCHANGED <<arrival, clock, qty, status>>
          /\ linked' = [s \in Sides |-> IF status[head[s]] = "FullFill" THEN linked[s] \ {head[s]} ELSE linked[s]]
      BY <2>5 DEF DropFilled, orderVars
    <3>2. UNCHANGED Resting
      BY <3>1 DEF Resting
    <3> QED BY <3>1, <3>2, InvisibleStep
  <2>6. ASSUME NEW t \in Threads, LinkLast(t) PROVE Promise!Next
    <3> DEFINE o == item[t]
    <3>1. o \in Orders /\ arrival[o] = 0 /\ SideOf(o) = book[t] /\ book[t] \in Sides /\ status[o] = "Inactive"
      BY <2>6 DEF LinkLast, IInv, CallInv, ItemInv, TypeOK, HistoryInv
    <3>2. /\ linked' = [linked EXCEPT ![SideOf(o)] = @ \cup {o}]
          /\ clock' = clock + 1
          /\ arrival' = [arrival EXCEPT ![o] = clock + 1]
          /\ UNCHANGED <<qty, status>>
      BY <2>6, <3>1 DEF LinkLast, orderVars
    <3>3. Resting' = [Resting EXCEPT ![SideOf(o)] = @ \cup {o}]
      BY <3>1, <3>2 DEF Resting, IInv, TypeOK
    <3> HIDE DEF o
    <3>4. Resting'[SideOf(o)] = Resting[SideOf(o)] \cup {o} /\ \A s \in Sides \ {SideOf(o)} : Resting'[s] = Resting[s]
      BY <3>1, <3>3 DEF Resting
    <3>5. \A x \in Orders : /\ arrival'[x] = IF x = o THEN clock + 1 ELSE arrival[x]
                            /\ arrival[x] < clock + 1 /\ ~ (clock + 1 < arrival[x])
      BY <3>1, <3>2 DEF IInv, TypeOK, HistoryInv
    <3>6. Joined' = Joined \cup {o}
      BY <3>1, <3>5 DEF Joined, IInv, TypeOK
    <3>7. o \notin Joined
      BY <3>1 DEF Joined
    <3>8. /\ \A s \in Sides : Resting[s] \subseteq Orders /\ o \notin Resting[s]
          /\ \A s \in Sides : \A x \in Resting[s] : SideOf(x) = s
      BY <3>1, RestingAre DEF IInv
    <3>9. ASSUME NEW w PROVE w \in Ahead' <=> w \in Ahead \/ w \in Resting[SideOf(o)] \X {o}
      <4>1. w \in Ahead' <=> \E s \in Sides : w \in Resting'[s] \X Resting'[s] /\ arrival'[w[1]] < arrival'[w[2]]
        BY DEF Ahead
      <4>2. w \in Ahead <=> \E s \in Sides : w \in Resting[s] \X Resting[s] /\ arrival[w[1]] < arrival[w[2]]
        BY DEF Ahead
      <4>3. ASSUME NEW s \in Sides, s # SideOf(o), w \in Resting[s] \X Resting[s]
            PROVE  arrival'[w[1]] = arrival[w[1]] /\ arrival'[w[2]] = arrival[w[2]]
        BY <4>3, <3>5, <3>8
      <4>4. ASSUME w \in Resting'[SideOf(o)] \X Resting'[SideOf(o)]
            PROVE  arrival'[w[1]] < arrival'[w[2]] <=>
                     \/ w \in Resting[SideOf(o)] \X Resting[SideOf(o)] /\ arrival[w[1]] < arrival[w[2]]
                     \/ w \in Resting[SideOf(o)] \X {o}
        <5>1. w = <<w[1], w[2]>> /\ w[1] \in Resting[SideOf(o)] \cup {o} /\ w[2] \in Resting[SideOf(o)] \cup {o}
          BY <4>4, <3>4
        <5>2. CASE w[1] = o
          <6>1. arrival'[w[1]] = clock + 1 /\ ~ (clock + 1 < arrival'[w[2]])
            BY <5>1, <5>2, <3>1, <3>5, <3>8 DEF IInv, TypeOK
          <6>2. w[1] \notin Resting[SideOf(o)]
            BY <5>2, <3>1, <3>8
          <6> QED
            BY <6>1, <6>2
        <5>3. CASE w[1] # o /\ w[2] = o
          <6>1. arrival'[w[1]] < arrival'[w[2]]
            BY <5>1, <5>3, <3>1, <3>5, <3>8
          <6> QED
            BY <5>1, <5>3, <6>1
        <5>4. CASE w[1] # o /\ w[2] # o
          <6>1. arrival'[w[1]] = arrival[w[1]] /\ arrival'[w[2]] = arrival[w[2]]
            BY <5>1, <5>4, <3>1, <3>5, <3>8
          <6> QED
            BY <5>1, <5>4, <6>1
        <5> QED
          BY <5>2, <5>3, <5>4
      <4>5. w \in Resting[SideOf(o)] \X Resting[SideOf(o)] \/ w \in Resting[SideOf(o)] \X {o}
              => w \in Resting'[SideOf(o)] \X Resting'[SideOf(o)]
        BY <3>4
      <4>6. SideOf(o) \in Sides
        BY <3>1
      <4>7. \A s \in Sides : s # SideOf(o) => Resting'[s] = Resting[s]
        BY <3>4
      <4> QED
        BY <4>1, <4>2, <4>3, <4>4, <4>5, <4>6, <4>7
    <3>10. Ahead' = Ahead \cup (Resting[SideOf(o)] \X {o})
      BY <3>9
    <3>11. SideOf(o) = Promise!SideOf(o)
      BY DEF SideOf, Promise!SideOf
    <3>12. Promise!Arrive(o)
      BY <3>2, <3>3, <3>6, <3>7, <3>10, <3>11 DEF Promise!Arrive
    <3>13. o \in Orders
      BY <3>1
    <3> QED BY <3>12, <3>13 DEF Promise!Next
  <2>7. ASSUME NEW t \in Threads, Unlink(t) PROVE Promise!Next
    <3> DEFINE s == book[t]
               x == item[t]
    <3>1. /\ pc[t] = "search" /\ s \in Sides /\ x \in Orders /\ x \in linked[s]
          /\ IdOf[x] = target[t] /\ target[t] \in Ids /\ Holds(t, s)
      BY <2>7 DEF Unlink, IInv, ItemInv, CallInv, TypeOK, Holds
    <3>2. linked' = [linked EXCEPT ![s] = @ \ {x}] /\ UNCHANGED <<arrival, clock, qty, status>>
      BY <2>7 DEF Unlink, orderVars
    <3>3. \A c \in Sides : \A o \in linked[c] : status[o] # "FullFill"
      <4>1. \A u \in Threads : pc[u] \notin {"sellsize", "drop"}
        BY <3>1, Exclusion DEF Holds, IInv
      <4> QED BY <4>1 DEF IInv, StatusInv, HistoryInv, TypeOK
    <3>4. Resting = linked
      BY <3>3 DEF Resting, IInv, TypeOK
    <3>5. Resting' = [c \in Sides |-> Resting[c] \ {x}]
      <4>1. Resting' = [c \in Sides |-> linked'[c]]
        <5>1. \A c \in Sides : \A o \in linked'[c] : status'[o] # "FullFill"
          BY <3>1, <3>2, <3>3 DEF IInv, TypeOK
        <5> QED BY <5>1 DEF Resting
      <4>2. ASSUME NEW c \in Sides PROVE linked'[c] = linked[c] \ {x}
        <5>1. c # s => x \notin linked[c]
          BY <3>1 DEF IInv, HistoryInv
        <5> QED BY <5>1, <3>1, <3>2 DEF IInv, TypeOK
      <4> QED BY <4>1, <4>2, <3>4
    <3>6. Promise!Oldest(x, Promise!Carrying(target[t], Resting[s]))
      <4>1. ASSUME NEW o \in linked[s], IdOf[o] = target[t] PROVE arrival[x] <= arrival[o]
        <5>1. ~ (arrival[o] < arrival[x])
          BY <3>1, <4>1 DEF IInv, SearchInv
        <5>2. arrival[o] \in Nat /\ arrival[x] \in Nat
          BY <3>1 DEF IInv, TypeOK
        <5> QED BY <5>1, <5>2
      <4> DEFINE S == Promise!Carrying(target[t], Resting[s])
      <4>2. S \in SUBSET Resting[s] /\ x \in S /\ \A o \in S : o \in linked[s] /\ IdOf[o] = target[t]
        BY <3>1, <3>4 DEF Promise!Carrying
      <4>3. s \in Sides /\ TypeOK /\ HistoryInv
        BY <3>1 DEF IInv
      <4> HIDE DEF S, s, x
      <4>4. \A o \in S : arrival[x] <= arrival[o]
        BY <4>1, <4>2
      <4>5. Promise!Oldest(x, S)
        BY <4>2, <4>3, <4>4, OldestIs
      <4> QED BY <4>5 DEF S
    <3>7. Promise!Leave({x})
      <4>1. arrival' = arrival
        BY <3>2
      <4> HIDE DEF x
      <4> QED BY <3>5, <4>1, LeaveIs DEF IInv
    <3>8. Promise!Withdraw(s, x)
      BY <3>1, <3>2, <3>6, <3>7 DEF Promise!Withdraw
    <3> QED BY <3>1, <3>4, <3>8 DEF Promise!Next, Sides, Promise!Sides
  <2>8. ASSUME NEW t \in Threads, Fill(t) PROVE Promise!Next
    <3> DEFINE b == head["buy"]
               a == head["sell"]
               f == Smaller(qty[b], qty[a])
    <3>1. /\ pc[t] = "match" /\ b \in Orders /\ a \in Orders /\ a # b
          /\ b \in linked["buy"] /\ a \in linked["sell"]
          /\ SideOf(b) = "buy" /\ SideOf(a) = "sell"
          /\ First("buy", b) /\ First("sell", a)
      BY <2>8 DEF Fill, IInv, TypeOK, ListInv, HeadInv, First, Sides, HistoryInv
    <3>2. /\ qty' = [qty EXCEPT ![b] = @ - f, ![a] = @ - f]
          /\ status' = [status EXCEPT ![b] = StatusAfter(b, f), ![a] = StatusAfter(a, f)]
          /\ UNCHANGED <<linked, arrival, clock>>
      BY <2>8 DEF Fill, history
    <3>3. \A c \in Sides : \A o \in linked[c] : status[o] # "FullFill"
      <4>1. \A u \in Threads : pc[u] \notin {"sellsize", "drop"}
        BY <3>1, Exclusion DEF Holds, IInv, TypeOK, Sides
      <4> QED BY <4>1 DEF IInv, StatusInv, HistoryInv, TypeOK
    <3>4. Resting = linked
      BY <3>3 DEF Resting, IInv, TypeOK
    <3>5. Promise!Oldest(b, Resting["buy"]) /\ Promise!Oldest(a, Resting["sell"])
      <4>1. "buy" \in Sides /\ "sell" \in Sides /\ TypeOK /\ HistoryInv
        BY DEF Sides, IInv
      <4>2. b \in Resting["buy"] /\ \A x \in Resting["buy"] : arrival[b] <= arrival[x]
        BY <3>1, <3>4 DEF First
      <4>3. a \in Resting["sell"] /\ \A x \in Resting["sell"] : arrival[a] <= arrival[x]
        BY <3>1, <3>4 DEF First
      <4> HIDE DEF a, b
      <4> QED BY <4>1, <4>2, <4>3, OldestIs
    <3>6. qty[b] \in Int /\ qty[a] \in Int /\ f \in Int
      BY <3>1 DEF IInv, TypeOK, Smaller
    <3>7. qty' = [o \in Orders |-> IF o \in {a, b} THEN qty[o] - f ELSE qty[o]]
      BY <3>1, <3>2 DEF IInv, TypeOK
    <3>8. \A o \in Orders : status'[o] = "FullFill" <=>
             IF o \in {a, b} THEN qty[o] = f ELSE status[o] = "FullFill"
      <4>1. /\ StatusAfter(b, f) = "FullFill" <=> qty[b] = f
            /\ StatusAfter(a, f) = "FullFill" <=> qty[a] = f
        BY <3>6 DEF StatusAfter
      <4> QED BY <4>1, <3>1, <3>2 DEF IInv, TypeOK
    <3>9. Resting' = [s \in Sides |-> Resting[s] \ {o \in {a, b} : qty[o] = f}]
      <4>1. \A s \in Sides : \A o \in linked[s] :
               status'[o] # "FullFill" <=> ~(o \in {a, b} /\ qty[o] = f)
        BY <3>3, <3>8 DEF IInv, TypeOK
      <4> QED BY <4>1, <3>2, <3>4 DEF Resting
    <3>10. f = Promise!Smaller(qty[b], qty[a])
      BY DEF Smaller, Promise!Smaller
    <3>11. Promise!Trade(b, a)
      <4>1. Promise!Oldest(b, Resting["buy"]) /\ Promise!Oldest(a, Resting["sell"])
        BY <3>5
      <4>2. Promise!Leave({o \in {a, b} : qty[o] = f})
        <5>1. arrival' = arrival
          BY <3>2
        <5> HIDE DEF f, a, b
        <5> QED BY <3>9, <5>1, LeaveIs DEF IInv
      <4> HIDE DEF f
      <4> QED BY <4>1, <4>2, <3>7, <3>10 DEF Promise!Trade
    <3> QED BY <3>1, <3>4, <3>11 DEF Promise!Next
  <2> QED
    BY <2>0, <2>1, <2>2, <2>3, <2>4, <2>5, <2>6, <2>7, <2>8 DEF Next, Proceed
<1> QED BY <1>1, <1>2, Invariant, PTL DEF Spec, Implements, Promise!Spec
=============================================================================
