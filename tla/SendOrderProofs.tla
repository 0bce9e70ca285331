--------------------------- MODULE SendOrderProofs ---------------------------
EXTENDS SendOrder, FiniteSetTheorems, TLAPS

(* The generators of ids (OrderIds).                                       *)

\* Every step keeps IInv.
LEMMA StepKeeps == IInv /\ [Next]_vars => IInv'
<1> SUFFICES ASSUME IInv, [Next]_vars PROVE IInv'
  OBVIOUS
<1> USE IdsAssumption DEF IInv, TypeOK
<1>0. CASE UNCHANGED vars
  BY <1>0 DEF vars, SameIdTwoGenerators
<1>1. ASSUME NEW t \in Threads, GetInstance(t) PROVE IInv'
  BY <1>1 DEF GetInstance, SameIdTwoGenerators
<1>2. ASSUME NEW t \in Threads, Create(t) PROVE IInv'
  BY <1>2 DEF Create, SameIdTwoGenerators
<1>3. ASSUME NEW t \in Threads, ReturnInstance(t) PROVE IInv'
  BY <1>3 DEF ReturnInstance, SameIdTwoGenerators
<1>4. ASSUME NEW t \in Threads, GetNewOrderId(t) PROVE IInv'
  <2> DEFINE new == [by |-> mine[t], id |-> id[mine[t]], thread |-> t, nth |-> made[t]]
  <2>1. mine[t] \in Threads /\ id[mine[t]] \in Nat
    BY <1>4 DEF GetNewOrderId
  <2>2. new \in [by : Threads, id : Nat, thread : Threads, nth : Nat]
    BY <2>1
  <2>3. /\ issued' = issued \cup {new}
        /\ id' = [id EXCEPT ![mine[t]] = id[mine[t]] + 1]
        /\ made' = [made EXCEPT ![t] = @ + 1]
        /\ pc' = [pc EXCEPT ![t] = "idle"]
        /\ UNCHANGED <<singleton, mine>>
    BY <1>4 DEF GetNewOrderId
  <2>4. TypeOK'
    BY <2>1, <2>2, <2>3
  <2>5. \A r \in issued' : r.id < id'[r.by]
    <3>1. new.by = mine[t] /\ new.id = id[mine[t]]
      OBVIOUS
    <3> QED BY <2>1, <2>3, <3>1
  <2>6. SameIdTwoGenerators'
    <3>1. \A r \in issued : r.by = new.by => r.id # new.id
      BY <2>1
    <3> QED BY <2>3, <3>1 DEF SameIdTwoGenerators
  <2> QED BY <2>3, <2>4, <2>5, <2>6
<1> QED BY <1>0, <1>1, <1>2, <1>3, <1>4 DEF Next

\* IInv is inductive.
THEOREM Invariant == Spec => []IInv
<1>1. Init => IInv
  BY IdsAssumption DEF Init, IInv, TypeOK, SameIdTwoGenerators
<1> QED BY <1>1, StepKeeps, PTL DEF Spec

\* Whatever the race for the instance does, with any number of threads, two
\* orders with the same id have it from different generators.
THEOREM DistinctPerGenerator == Spec => []SameIdTwoGenerators
<1>1. IInv => SameIdTwoGenerators
  BY DEF IInv
<1> QED BY <1>1, Invariant, PTL

\* Every generator numbers its orders 0, 1, 2, ... without a gap.
THEOREM SequentialIds == Spec => []Sequential
<1>1. Init => Sequential
  <2> SUFFICES ASSUME Init, NEW i \in Threads
               PROVE  {r.id : r \in {q \in issued : q.by = i}} = 0 .. id[i] - 1
    BY DEF Sequential
  <2>1. {r.id : r \in {q \in issued : q.by = i}} = {}
    BY DEF Init
  <2>2. id[i] - 1 = -1 /\ 0 .. -1 = {}
    BY DEF Init
  <2> QED BY <2>1, <2>2
<1>2. IInv /\ Sequential /\ [Next]_vars => Sequential'
  <2> SUFFICES ASSUME IInv, Sequential, [Next]_vars PROVE Sequential'
    OBVIOUS
  <2> USE DEF IInv, TypeOK
  <2>1. CASE UNCHANGED <<id, issued>>
    BY <2>1 DEF Sequential
  <2>2. ASSUME NEW t \in Threads, GetNewOrderId(t), NEW i \in Threads
        PROVE  {r.id : r \in {q \in issued' : q.by = i}} = 0 .. id'[i] - 1
    <3> DEFINE new == [by |-> mine[t], id |-> id[mine[t]], thread |-> t, nth |-> made[t]]
               ids == {r.id : r \in {q \in issued : q.by = i}}
    <3>1. mine[t] \in Threads /\ new.by = mine[t] /\ new.id = id[mine[t]]
      BY <2>2 DEF GetNewOrderId
    <3>2. issued' = issued \cup {new} /\ id' = [id EXCEPT ![mine[t]] = @ + 1]
      BY <2>2 DEF GetNewOrderId
    <3>3. ids = 0 .. id[i] - 1 /\ id[i] \in Nat
      BY DEF Sequential
    <3> HIDE DEF new
    <3>4. CASE i = mine[t]
      <4>1. {r.id : r \in {q \in issued' : q.by = i}} = ids \cup {id[i]}
        BY <3>1, <3>2, <3>4
      <4>2. id'[i] - 1 = id[i]
        BY <3>1, <3>2, <3>3, <3>4
      <4> HIDE DEF ids
      <4>3. (0 .. id[i] - 1) \cup {id[i]} = 0 .. id[i]
        BY <3>3
      <4> QED BY <3>3, <4>1, <4>2, <4>3
    <3>5. CASE i # mine[t]
      <4>1. {r.id : r \in {q \in issued' : q.by = i}} = ids
        BY <3>1, <3>2, <3>5
      <4> QED BY <4>1, <3>1, <3>2, <3>3, <3>5
    <3> QED BY <3>4, <3>5
  <2> QED
    BY <2>1, <2>2 DEF Next, GetInstance, Create, ReturnInstance, Sequential, vars
<1> QED BY <1>1, <1>2, Invariant, PTL DEF Spec

-----------------------------------------------------------------------------
(* The sessions (SendOrder).                                               *)

\* A step of a session is a step of the generators, or changes none of them.
LEMMA SendsUseIds == ASSUME NEW outcomes
                     PROVE  [SendNext(outcomes)]_sendVars => [Next]_vars
BY DEF SendNext, Send, Construct, Enqueue, Next, sendVars

\* The places of an owner's orders are finitely many.
LEMMA OwnFinite == ASSUME NEW S, data_queue \in Seq(S), NEW t
                   PROVE  IsFiniteSet(Own(t)) /\ Cardinality(Own(t)) \in Nat
<1>1. Own(t) \in SUBSET (1 .. Len(data_queue)) /\ Len(data_queue) \in Nat
  BY DEF Own
<1>2. IsFiniteSet(1 .. Len(data_queue))
  BY <1>1, FS_Interval
<1>3. IsFiniteSet(Own(t))
  BY <1>1, <1>2, FS_Subset
<1> QED BY <1>3, FS_CardinalityType

\* The places are those of the queue.
LEMMA SameQueue == ASSUME UNCHANGED data_queue
                   PROVE  /\ \A u : Own(u)' = Own(u)
                          /\ \A k : Earlier(k)' = Earlier(k)
BY DEF Own, Earlier

\* A session that finds the text without a value returns -1 and stays idle; else
\* it goes on to the factory.
LEMMA SendKeeps ==
  ASSUME NEW outcomes, SendInv(outcomes), NEW t \in Threads, Send(t, outcomes)
  PROVE  SendTypes(outcomes)' /\ Placing' /\ TurnsKept'
<1> USE DEF SendInv, SendTypes
<1>1. PICK o \in outcomes :
        /\ values' = [values EXCEPT ![t] = o.values]
        /\ stage' = [stage EXCEPT ![t] = IF o.values = Null THEN @ ELSE "ordering"]
        /\ reply' = [reply EXCEPT ![t] = IF o.values = Null THEN -1 ELSE Null]
  BY DEF Send
<1>2. stage[t] = "idle" /\ UNCHANGED <<pc, mine, made, issued, order_id, data_queue>>
  BY DEF Send, vars
<1>3. SendTypes(outcomes)'
  BY <1>1, <1>2
<1>4. Placing'
  BY <1>1, <1>2 DEF Placing
<1>5. TurnsKept'
  <2>1. \A u \in Threads : stage'[u] = "queueing" <=> stage[u] = "queueing"
    BY <1>1, <1>2
  <2>2. \A u \in Threads : reply'[u] \in {Null, -1} \/ reply'[u] = reply[u]
    BY <1>1
  <2>3. (\A u : Own(u)' = Own(u)) /\ \A k : Earlier(k)' = Earlier(k)
    BY <1>2, SameQueue
  <2> QED BY <1>2, <2>1, <2>2, <2>3 DEF TurnsKept
<1> QED BY <1>3, <1>4, <1>5

\* The constructor of an order hands out at most one id, to the order.
LEMMA ConstructKeeps ==
  ASSUME NEW outcomes, SendInv(outcomes), NEW t \in Threads, Construct(t)
  PROVE  SendTypes(outcomes)' /\ Placing' /\ TurnsKept'
<1> USE DEF SendInv, SendTypes
<1>1. stage[t] = "ordering" /\ UNCHANGED <<values, reply, data_queue>>
  BY DEF Construct, callVars
<1>2. /\ pc \in [Threads -> {"idle", "create", "return", "number"}]
      /\ made \in [Threads -> Nat]
  BY DEF IInv, TypeOK
<1>3. CASE GetInstance(t) \/ Create(t) \/ ReturnInstance(t)
  <2>1. UNCHANGED <<made, issued>> /\ \E p : pc' = [pc EXCEPT ![t] = p]
    BY <1>3 DEF GetInstance, Create, ReturnInstance
  <2>2. ~ (made'[t] > made[t])
    BY <1>2, <2>1
  <2>3. UNCHANGED <<order_id, stage>>
    BY <2>2 DEF Construct
  <2>4. SendTypes(outcomes)'
    BY <1>1, <2>3
  <2>5. Placing'
    BY <1>1, <1>2, <2>1, <2>3 DEF Placing
  <2>6. (\A u : Own(u)' = Own(u)) /\ \A k : Earlier(k)' = Earlier(k)
    BY <1>1, SameQueue
  <2>7. TurnsKept'
    BY <1>1, <2>1, <2>3, <2>6 DEF TurnsKept
  <2> QED BY <2>4, <2>5, <2>7
<1>4. CASE GetNewOrderId(t)
  <2>1. mine[t] \in Threads /\ id[mine[t]] \in Nat
    BY <1>4 DEF IInv, TypeOK, GetNewOrderId
  <2>2. /\ issued' = issued \cup {[by |-> mine[t], id |-> id[mine[t]], thread |-> t, nth |-> made[t]]}
        /\ made' = [made EXCEPT ![t] = @ + 1]
        /\ pc' = [pc EXCEPT ![t] = "idle"]
    BY <1>4 DEF GetNewOrderId
  <2>3. made'[t] = made[t] + 1 /\ made'[t] > made[t]
    BY <1>2, <2>2
  <2>4. /\ order_id' = [order_id EXCEPT ![t] = id[mine[t]]]
        /\ stage' = [stage EXCEPT ![t] = "queueing"]
    BY <2>3 DEF Construct
  <2>5. SendTypes(outcomes)'
    BY <1>1, <2>1, <2>4
  <2>6. \E r \in issued' : r.thread = t /\ r.nth = made'[t] - 1 /\ r.id = order_id'[t]
    <3> DEFINE new == [by |-> mine[t], id |-> id[mine[t]], thread |-> t, nth |-> made[t]]
    <3>1. new \in issued'
      BY <2>2
    <3>2. new.thread = t /\ new.nth = made[t] /\ new.id = id[mine[t]]
      OBVIOUS
    <3>3. made'[t] - 1 = made[t] /\ order_id'[t] = id[mine[t]]
      BY <1>2, <2>3, <2>4
    <3> HIDE DEF new
    <3> QED BY <3>1, <3>2, <3>3
  <2>7. Placing'
    BY <1>1, <1>2, <2>2, <2>4, <2>6 DEF Placing
  <2>8. TurnsKept'
    <3>1. (\A u : Own(u)' = Own(u)) /\ \A k : Earlier(k)' = Earlier(k)
      BY <1>1, SameQueue
    <3>2. \A u \in Threads : Cardinality(Own(u)) \in Nat
      BY OwnFinite
    <3>3. \A u \in Threads :
            made'[u] = Cardinality(Own(u)) + (IF stage'[u] = "queueing" THEN 1 ELSE 0)
      BY <1>1, <1>2, <2>2, <2>4, <3>2 DEF TurnsKept
    <3> QED BY <1>1, <2>2, <3>1, <3>3 DEF TurnsKept
  <2> QED BY <2>5, <2>7, <2>8
<1> QED BY <1>3, <1>4 DEF Construct

\* The order that is queued is the session's next one, and the reply is its id.
LEMMA EnqueueKeeps ==
  ASSUME NEW outcomes, SendInv(outcomes), NEW t \in Threads, Enqueue(t)
  PROVE  SendTypes(outcomes)' /\ Placing' /\ TurnsKept'
<1> USE DEF SendInv, SendTypes
<1>0. PICK n \in Nat : n = Len(data_queue)
  OBVIOUS
<1>1. /\ stage[t] = "queueing" /\ UNCHANGED <<pc, made, issued>>
      /\ data_queue' = Append(data_queue, limit_order(t))
      /\ reply' = [reply EXCEPT ![t] = order_id[t]]
      /\ stage' = [stage EXCEPT ![t] = "idle"]
      /\ values' = [values EXCEPT ![t] = Null]
      /\ order_id' = [order_id EXCEPT ![t] = Null]
  BY DEF Enqueue, vars
<1>2. PICK r \in issued : r.thread = t /\ r.nth = made[t] - 1 /\ r.id = order_id[t]
  BY <1>1 DEF Placing
<1>3. order_id[t] \in Nat /\ made \in [Threads -> Nat]
  BY <1>2 DEF IInv, TypeOK
<1>4. limit_order(t) \in Orders(outcomes)
  <2>1. PICK o \in outcomes : values[t] = o.values /\ o.values # Null
    BY <1>1 DEF Placing
  <2> QED BY <1>3, <2>1 DEF limit_order, Orders
<1>5. /\ DOMAIN data_queue = 1 .. n /\ DOMAIN data_queue' = 1 .. n + 1
      /\ \A k \in 1 .. n : data_queue'[k] = data_queue[k]
      /\ data_queue'[n + 1] = limit_order(t)
      /\ data_queue' \in Seq(Orders(outcomes))
  BY <1>0, <1>1, <1>4
<1>6. limit_order(t).entity = t /\ limit_order(t).order_id = order_id[t]
  BY DEF limit_order
<1>7. SendTypes(outcomes)'
  BY <1>1, <1>3, <1>5
<1>8. Placing'
  BY <1>1 DEF Placing
<1>9. Own(t)' = Own(t) \cup {n + 1} /\ n + 1 \notin Own(t)
  BY <1>5, <1>6 DEF Own
<1>10. \A u \in Threads : u # t => Own(u)' = Own(u)
  BY <1>5, <1>6 DEF Own
<1>11. \A k \in 1 .. n : Earlier(k)' = Earlier(k)
  BY <1>5 DEF Earlier, Own
<1>12. Earlier(n + 1)' = Own(t)
  BY <1>5, <1>6 DEF Earlier, Own
<1>13. IsFiniteSet(Own(t)) /\ Cardinality(Own(t)) \in Nat
  BY OwnFinite
<1>14. Cardinality(Own(t)') = Cardinality(Own(t)) + 1
  BY <1>9, <1>13, FS_AddElement
<1>15. made[t] = Cardinality(Own(t)) + 1
  BY <1>1 DEF TurnsKept
<1>16. ASSUME NEW k \in DOMAIN data_queue'
       PROVE  \E q \in issued' :
                /\ q.thread = data_queue'[k].entity /\ q.nth = Cardinality(Earlier(k)')
                /\ q.id = data_queue'[k].order_id
  <2>1. CASE k = n + 1
    <3>1. Earlier(k)' = Own(t)
      BY <1>12, <2>1 DEF Earlier, Own
    <3>2. r.nth = Cardinality(Own(t))
      BY <1>2, <1>13, <1>15
    <3> QED BY <1>1, <1>2, <1>5, <1>6, <2>1, <3>1, <3>2
  <2>2. CASE k \in 1 .. n
    BY <1>1, <1>5, <1>11, <2>2 DEF TurnsKept
  <2> QED BY <1>5, <2>1, <2>2
<1>17. ASSUME NEW u \in Threads
       PROVE  /\ made'[u] = Cardinality(Own(u)') + (IF stage'[u] = "queueing" THEN 1 ELSE 0)
              /\ \/ reply'[u] \in {Null, -1}
                 \/ \E k \in Own(u)' : (\A j \in Own(u)' : j <= k) /\ reply'[u] = data_queue'[k].order_id
  <2>1. CASE u = t
    <3>1. made'[t] = Cardinality(Own(t)') /\ stage'[t] = "idle" /\ reply'[t] = order_id[t]
      BY <1>1, <1>14, <1>15
    <3>2. \A j \in Own(t)' : j <= n + 1
      BY <1>5 DEF Own
    <3>3. Own(u)' = Own(t)'
      BY <2>1 DEF Own
    <3>4. n + 1 \in Own(t)' /\ reply'[t] = data_queue'[n + 1].order_id
      BY <1>5, <1>6, <1>9, <3>1
    <3>5. made'[t] = Cardinality(Own(t)') + (IF stage'[t] = "queueing" THEN 1 ELSE 0)
      BY <1>13, <1>14, <3>1
    <3> QED BY <2>1, <3>2, <3>3, <3>4, <3>5
  <2>2. CASE u # t
    <3>1. stage'[u] = stage[u] /\ reply'[u] = reply[u] /\ made'[u] = made[u]
      BY <1>1, <2>2
    <3>2. \A k \in Own(u) : data_queue'[k] = data_queue[k]
      BY <1>5 DEF Own
    <3> QED BY <1>10, <2>2, <3>1, <3>2 DEF TurnsKept
  <2> QED BY <2>1, <2>2
<1>18. TurnsKept'
  BY <1>16, <1>17 DEF TurnsKept
<1> QED BY <1>7, <1>8, <1>18

\* SendInv holds at the start and is inductive, whatever the parser makes of the
\* messages.
LEMMA SendStarts == ASSUME NEW outcomes PROVE SendInit => SendInv(outcomes)
<1> SUFFICES ASSUME SendInit PROVE SendInv(outcomes)
  OBVIOUS
<1>1. IInv
  BY IdsAssumption DEF SendInit, Init, IInv, TypeOK, SameIdTwoGenerators
<1>2. SendTypes(outcomes) /\ Placing
  BY DEF SendInit, Init, SendTypes, Placing
<1>3. DOMAIN data_queue = {} /\ \A t \in Threads : Own(t) = {}
  <2>1. DOMAIN data_queue = 1 .. 0
    BY DEF SendInit
  <2> QED BY <2>1 DEF Own
<1>4. TurnsKept
  BY <1>3, FS_EmptySet DEF SendInit, Init, TurnsKept
<1> QED BY <1>1, <1>2, <1>4 DEF SendInv

LEMMA SendStep == ASSUME NEW outcomes
                  PROVE  SendInv(outcomes) /\ [SendNext(outcomes)]_sendVars => SendInv(outcomes)'
<1> SUFFICES ASSUME SendInv(outcomes), [SendNext(outcomes)]_sendVars
             PROVE  SendInv(outcomes)'
  OBVIOUS
<1>1. IInv'
  BY SendsUseIds, StepKeeps DEF SendInv
<1>2. CASE UNCHANGED sendVars
  <2>1. UNCHANGED <<pc, made, issued, stage, values, reply, order_id, data_queue>>
    BY <1>2 DEF sendVars, vars, callVars
  <2>2. SendTypes(outcomes)' /\ Placing'
    BY <2>1 DEF SendInv, SendTypes, Placing
  <2>3. (\A u : Own(u)' = Own(u)) /\ \A k : Earlier(k)' = Earlier(k)
    BY <2>1, SameQueue
  <2>4. TurnsKept'
    BY <2>1, <2>3 DEF SendInv, TurnsKept
  <2> QED BY <1>1, <2>2, <2>4 DEF SendInv
<1>3. CASE SendNext(outcomes)
  BY <1>1, <1>3, SendKeeps, ConstructKeeps, EnqueueKeeps DEF SendNext, SendInv
<1> QED BY <1>2, <1>3

\* So it always holds: the types, and what a session holds at each of its stages.
THEOREM SendInvariant == ASSUME NEW CONSTANT outcomes
                         PROVE  SendSpec(outcomes) => []SendInv(outcomes)
<1>1. SendInit => SendInv(outcomes)
  BY SendStarts
<1>2. SendInv(outcomes) /\ [SendNext(outcomes)]_sendVars => SendInv(outcomes)'
  BY SendStep
<1> QED BY <1>1, <1>2, PTL DEF SendSpec

\* For any number of sessions and messages, and whatever the parser makes of
\* them: each session's orders are queued in its turn and with the ids they were
\* given, and it is told -1 or the id of its last.
THEOREM SessionsKeepTurns == ASSUME NEW CONSTANT outcomes
                             PROVE  SendSpec(outcomes) => []TurnsKept
<1>1. SendInv(outcomes) => TurnsKept
  BY DEF SendInv
<1> QED BY <1>1, SendInvariant, PTL

\* Sending orders uses the generators as OrderIds has it; so what is proved of
\* their ids holds of the orders that are queued.
THEOREM SendingNumbers == ASSUME NEW CONSTANT outcomes
                          PROVE  SendSpec(outcomes) => Spec
<1>1. SendInit => Init
  BY DEF SendInit
<1> QED BY <1>1, SendsUseIds, PTL DEF SendSpec, Spec
=============================================================================
