------------------------------ MODULE OrderIds -------------------------------
(***************************************************************************)
(* order_id_singleton (order_id_singleton.h): the generator of order ids,  *)
(* created by whoever asks first.  Every order constructor calls           *)
(* get_instance, whose test and creation no lock protects, and then the    *)
(* atomic get_new_order_id of the instance it was given.                   *)
(***************************************************************************)
EXTENDS Integers

CONSTANTS
  Threads,     \* the threads that construct orders
  MaxOrders,   \* bound: orders each of them constructs
  Null         \* nullptr

ASSUME IdsAssumption == MaxOrders \in Nat /\ Null \notin Threads

VARIABLES
  singleton,   \* singleton_: an instance, named by the thread that created it
  id,          \* the atomic counter of each instance
  pc, mine,    \* where each thread is in the constructor, the instance it got
  made,        \* the orders each thread has constructed
  issued       \* history: the ids handed out, by instance, thread and turn

vars == <<singleton, id, pc, mine, made, issued>>

Init ==
  /\ singleton = Null
  /\ id = [i \in Threads |-> 0]
  /\ pc = [t \in Threads |-> "idle"]
  /\ mine = [t \in Threads |-> Null]
  /\ made = [t \in Threads |-> 0]
  /\ issued = {}

\* get_instance tests the pointer, ...
GetInstance(t) ==
  /\ pc[t] = "idle" /\ made[t] < MaxOrders
  /\ mine' = [mine EXCEPT ![t] = singleton]
  /\ pc' = [pc EXCEPT ![t] = IF singleton = Null THEN "create" ELSE "return"]
  /\ UNCHANGED <<singleton, id, made, issued>>

\* ... creates the instance if the pointer was null when it was tested, ...
\* The constructor shadows the member with a local of the same name, so the
\* counter of a new instance is 0 and not starting_id.
Create(t) ==
  /\ pc[t] = "create"
  /\ singleton' = t
  /\ mine' = [mine EXCEPT ![t] = t]
  /\ pc' = [pc EXCEPT ![t] = "return"]
  /\ UNCHANGED <<id, made, issued>>

\* ... and returns the pointer.  This races with other creators: the build may
\* read the pointer once more, or keep the value it has at hand.
ReturnInstance(t) ==
  /\ pc[t] = "return"
  /\ \E i \in {mine[t], singleton} : mine' = [mine EXCEPT ![t] = i]
  /\ pc' = [pc EXCEPT ![t] = "number"]
  /\ UNCHANGED <<singleton, id, made, issued>>

\* Mutants: the increment is lost, and ++id for id++.
GetNewOrderIdStale(t) ==
  /\ pc[t] = "number"
  /\ issued' = issued \cup {[by |-> mine[t], id |-> id[mine[t]], thread |-> t, nth |-> made[t]]}
  /\ made' = [made EXCEPT ![t] = @ + 1]
  /\ pc' = [pc EXCEPT ![t] = "idle"]
  /\ UNCHANGED <<singleton, id, mine>>

GetNewOrderId(t) ==
  /\ pc[t] = "number"
  /\ issued' = issued \cup {[by |-> mine[t], id |-> id[mine[t]], thread |-> t, nth |-> made[t]]}
  /\ made' = [made EXCEPT ![t] = @ + 1]
  /\ id' = [id EXCEPT ![mine[t]] = @ + 1]
  /\ pc' = [pc EXCEPT ![t] = "idle"]
  /\ UNCHANGED <<singleton, mine>>

Next == \E t \in Threads :
  GetInstance(t) \/ Create(t) \/ ReturnInstance(t) \/ GetNewOrderId(t)

Spec == Init /\ [][Next]_vars

-----------------------------------------------------------------------------
(* Properties *)

\* Types: the generators, the pointers to them and the ids keep their shape.
TypeOK ==
  /\ singleton \in Threads \cup {Null}
  /\ id \in [Threads -> Nat]
  /\ pc \in [Threads -> {"idle", "create", "return", "number"}]
  /\ mine \in [Threads -> Threads \cup {Null}]
  /\ made \in [Threads -> Nat]
  /\ issued \subseteq [by : Threads, id : Nat, thread : Threads, nth : Nat]

\* Two orders get the same id only from two different generators: whatever
\* the race for the instance does, the ids of each instance are distinct.
SameIdTwoGenerators == \A r, q \in issued : r # q /\ r.id = q.id => r.by # q.by

\* The ids of an instance are sequential, from 0 on, with no gap between them
\* (consumer_all_orders waits for one particular id before it stops).
Sequential == \A i \in Threads : {r.id : r \in {q \in issued : q.by = i}} = 0 .. id[i] - 1

\* What the comment on order_id_singleton claims (order_id_singleton.h:7):
\* sequential ids, generated in a thread-safe way, so no two orders share one.
\* Two threads that both find no instance break it.
ThreadSafeIds == \A r, q \in issued : r # q => r.id # q.id

\* With what the proof needs: a generator has passed every id it issued, and
\* whoever is about to return or use an instance has one.
IInv ==
  /\ TypeOK
  /\ \A t \in Threads : pc[t] \in {"return", "number"} => mine[t] # Null
  /\ \A t \in Threads : pc[t] \in {"return", "number"} => singleton # Null
  /\ \A r \in issued : r.id < id[r.by]
  /\ SameIdTwoGenerators
=============================================================================
