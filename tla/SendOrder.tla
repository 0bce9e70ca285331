------------------------------ MODULE SendOrder ------------------------------
(***************************************************************************)
(* send_fix_order and place_limit_order (traders.h) after the parser: the  *)
(* factory constructs the order, whose constructor draws an id from a      *)
(* generator that the sessions race to create (OrderIds), and the order is *)
(* queued.  What the parser makes of the messages is a parameter; in       *)
(* OrderEntry it is what the model of the parser makes of them.            *)
(***************************************************************************)
EXTENDS OrderIds, Sequences, FiniteSets

CONSTANT Sends   \* for each thread, the sets its messages are taken from, in turn

ASSUME SendsAssumption == Sends \in [Threads -> Seq(SUBSET Seq(Nat))]

VARIABLES
  stage,       \* of each thread: "idle", "ordering" or "queueing"
  sent,        \* how many messages it has sent
  message,     \* the message it is sending
  values,      \* what was parsed from it
  reply,       \* what its last send_fix_order returned
  order_id,    \* the id of the order it has constructed
  data_queue,
  crashed      \* an exception has left a thread

callVars == <<sent, message, values>>
sendVars == <<vars, callVars, stage, reply, order_id, data_queue, crashed>>

SendInit ==
  /\ Init
  /\ stage = [t \in Threads |-> "idle"]
  /\ sent = [t \in Threads |-> 0]
  /\ message = [t \in Threads |-> << >>]
  /\ values = [t \in Threads |-> Null]
  /\ reply = [t \in Threads |-> Null]
  /\ order_id = [t \in Threads |-> Null]
  /\ data_queue = << >>
  /\ crashed = FALSE

\* send_fix_order up to the factory: without a value it returns -1.
Send(t, outcomes) ==
  /\ ~ crashed
  /\ stage[t] = "idle" /\ sent[t] < Len(Sends[t])
  /\ sent' = [sent EXCEPT ![t] = @ + 1]
  /\ \E outcome \in outcomes :
       /\ outcome.text \in Sends[t][sent[t] + 1]
       /\ message' = [message EXCEPT ![t] = outcome.text]
       /\ crashed' = outcome.throws
       /\ values' = [values EXCEPT ![t] = outcome.values]
       /\ stage' = [stage EXCEPT ![t] = IF outcome.values = Null THEN @ ELSE "ordering"]
       /\ reply' = [reply EXCEPT ![t] = IF outcome.values = Null THEN -1 ELSE Null]
  /\ UNCHANGED <<vars, order_id, data_queue>>

\* The constructor of order: get_instance first, the id at the end.
Construct(t) ==
  /\ ~ crashed
  /\ stage[t] = "ordering"
  /\ \/ GetInstance(t) \/ Create(t) \/ ReturnInstance(t)
     \/ GetNewOrderId(t)
  /\ IF made'[t] > made[t]
     THEN /\ order_id' = [order_id EXCEPT ![t] = id[mine[t]]]
          /\ stage' = [stage EXCEPT ![t] = "queueing"]
     ELSE UNCHANGED <<order_id, stage>>
  /\ UNCHANGED <<callVars, reply, data_queue, crashed>>

\* factory->create<limit_order>: the overload of the creator for that type and
\* the constructor of limit_order.
limit_order(t) ==
  [type |-> "Limit", side |-> IF values[t].side_is_buy THEN "buy" ELSE "sell",
   status |-> "Inactive", quantity |-> values[t].qty, price |-> values[t].px,
   order_id |-> order_id[t], entity |-> t]

\* Mutant: the id that is returned is read again from the generator.
EnqueueStale(t) ==
  /\ ~ crashed
  /\ stage[t] = "queueing"
  /\ data_queue' = Append(data_queue, limit_order(t))
  /\ reply' = [reply EXCEPT ![t] = id[mine[t]] - 1]
  /\ stage' = [stage EXCEPT ![t] = "idle"]
  /\ message' = [message EXCEPT ![t] = << >>]
  /\ values' = [values EXCEPT ![t] = Null]
  /\ order_id' = [order_id EXCEPT ![t] = Null]
  /\ UNCHANGED <<vars, sent, crashed>>

\* place_limit_order under the lock, and the return of send_fix_order.
Enqueue(t) ==
  /\ ~ crashed
  /\ stage[t] = "queueing"
  /\ data_queue' = Append(data_queue, limit_order(t))
  /\ reply' = [reply EXCEPT ![t] = order_id[t]]
  /\ stage' = [stage EXCEPT ![t] = "idle"]
  /\ message' = [message EXCEPT ![t] = << >>]
  /\ values' = [values EXCEPT ![t] = Null]
  /\ order_id' = [order_id EXCEPT ![t] = Null]
  /\ UNCHANGED <<vars, sent, crashed>>

SendNext(outcomes) ==
  \E t \in Threads : Send(t, outcomes) \/ Construct(t) \/ Enqueue(t)

SendSpec(outcomes) == SendInit /\ [][SendNext(outcomes)]_sendVars

-----------------------------------------------------------------------------
(* Properties *)

\* The places of t's orders in the queue, and those before k with k's owner.
Own(t) == {k \in DOMAIN data_queue : data_queue[k].entity = t}
Earlier(k) == {j \in Own(data_queue[k].entity) : j < k}

\* The queue has the orders of each session in the order in which it sent them
\* and with the ids they were given, and a session is told -1 or the id of the
\* order it has queued last, however the sessions interleave.
TurnsKept ==
  /\ \A k \in DOMAIN data_queue : \E r \in issued :
       /\ r.thread = data_queue[k].entity /\ r.nth = Cardinality(Earlier(k))
       /\ r.id = data_queue[k].order_id
  /\ \A t \in Threads :
       /\ made[t] = Cardinality(Own(t)) + (IF stage[t] = "queueing" THEN 1 ELSE 0)
       /\ \/ reply[t] \in {Null, -1}
          \/ \E k \in Own(t) : (\A j \in Own(t) : j <= k) /\ reply[t] = data_queue[k].order_id

\* The orders that may be in the queue.
Orders(outcomes) ==
  [type : {"Limit"}, side : {"buy", "sell"}, status : {"Inactive"},
   quantity : {o.values.qty : o \in {p \in outcomes : p.values # Null}},
   price : {o.values.px : o \in {p \in outcomes : p.values # Null}},
   order_id : Nat, entity : Threads]

SendTypes(outcomes) ==
  /\ stage \in [Threads -> {"idle", "ordering", "queueing"}]
  /\ values \in [Threads -> {o.values : o \in outcomes} \cup {Null}]
  /\ order_id \in [Threads -> Nat \cup {Null}]
  /\ reply \in [Threads -> Int \cup {Null}]
  /\ data_queue \in Seq(Orders(outcomes))

\* A session is in the constructor only while it orders, it orders what was
\* parsed, and the order it is about to queue has the id it was given last.
Placing == \A t \in Threads :
  /\ stage[t] # "ordering" => pc[t] = "idle"
  /\ stage[t] # "idle" => values[t] # Null
  /\ stage[t] = "queueing" =>
       \E r \in issued : r.thread = t /\ r.nth = made[t] - 1 /\ r.id = order_id[t]

\* TurnsKept with what its proof needs.
SendInv(outcomes) == IInv /\ SendTypes(outcomes) /\ Placing /\ TurnsKept
=============================================================================
