--------------------------- MODULE ConditionQueues ---------------------------
(***************************************************************************)
(* The slot table of a protocol layer: class condition_queues of           *)
(* lib/vtrc/common/condition-queues.h.  A slot is a FIFO of units with a   *)
(* "canceled" mark; one thread waits in it and any thread may push, cancel *)
(* or erase.                                                               *)
(*                                                                         *)
(* The table's mutex lock_ is held across each operator below, except      *)
(* write_queue_if_exists, which releases it between looking the slot up    *)
(* (value_by_key) and pushing (push_value_data).  A slot's object outlives *)
(* its entry in the table for as long as somebody holds a pointer to it,   *)
(* so data and canceled stay defined for keys that left store.  A key is   *)
(* never added twice in this program (see SlotLifetime in RpcCalls), so    *)
(* the object is identified by its key.                                    *)
(***************************************************************************)
EXTENDS Naturals, Sequences

CONSTANT Key    \* identifiers of slots

VARIABLES
  store,        \* store_: the keys present in the table
  data,         \* hold_value_type::data_ of every slot object
  canceled      \* hold_value_type::canceled_ of every slot object

queueVars == <<store, data, canceled>>

QueuesInit ==
  /\ store = {}
  /\ data = [k \in Key |-> <<>>]
  /\ canceled = [k \in Key |-> FALSE]

\* A map insert: an existing slot is left as it is.
add_queue(k) ==
  /\ store' = store \cup {k}
  /\ data' = IF k \in store THEN data ELSE [data EXCEPT ![k] = <<>>]
  /\ canceled' = IF k \in store THEN canceled
                                ELSE [canceled EXCEPT ![k] = FALSE]

erase_queue(k) ==
  /\ store' = store \ {k}
  /\ canceled' = IF k \in store THEN [canceled EXCEPT ![k] = TRUE]
                                ELSE canceled
  /\ UNCHANGED data

cancel_all ==
  /\ canceled' = [k \in Key |-> k \in store \/ canceled[k]]
  /\ UNCHANGED <<store, data>>

\* Mutant: only idle slots are told.
write_all_idle(u) ==
  /\ data' = [k \in Key |-> IF k \in store /\ data[k] = <<>>
                              THEN Append(data[k], u) ELSE data[k]]
  /\ UNCHANGED <<store, canceled>>

write_all(u) ==
  /\ data' = [k \in Key |-> IF k \in store THEN Append(data[k], u)
                                           ELSE data[k]]
  /\ UNCHANGED <<store, canceled>>

\* Mutant: the unit goes to the front of the queue.
push_value_front(k, u) ==
  /\ data' = [data EXCEPT ![k] = <<u>> \o @]
  /\ UNCHANGED <<store, canceled>>

\* The slot object is written whether or not it is still in the table.
push_value_data(k, u) ==
  /\ data' = [data EXCEPT ![k] = Append(@, u)]
  /\ UNCHANGED <<store, canceled>>

\* The predicate a reader waits for.
queue_empty_predicate(k) == data[k] # <<>> \/ canceled[k]

\* A reader takes the lock of the slot and finds nothing to read: whatever
\* cancel came before is forgotten, and it starts to wait.
read_blocks(k) ==
  /\ data[k] = <<>>
  /\ canceled' = [canceled EXCEPT ![k] = FALSE]
  /\ UNCHANGED <<store, data>>

\* A reader takes the lock of the slot and there is a unit: it is popped
\* under the same lock, and an earlier cancel is forgotten.
read_at_once(k) ==
  /\ data[k] # <<>>
  /\ canceled' = [canceled EXCEPT ![k] = FALSE]
  /\ data' = [data EXCEPT ![k] = Tail(@)]
  /\ UNCHANGED store

\* A waiting reader wakes up with a unit: WAIT_RESULT_SUCCESS.
read_wakes(k) ==
  /\ ~canceled[k] /\ data[k] # <<>>
  /\ data' = [data EXCEPT ![k] = Tail(@)]
  /\ UNCHANGED <<store, canceled>>
==============================================================================
