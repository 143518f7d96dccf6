------------------------------- MODULE RpcCalls -------------------------------
(***************************************************************************)
(* The calling half of one connection: threads that make blocking calls    *)
(* (rpc_channel::call_and_wait over protocol_layer's slot operations), the *)
(* read handler that routes what the peer sends into their slots, and the  *)
(* three ways a connection dies under them (a read error, a write error, a *)
(* local close) together with the two kinds of bad input.                  *)
(*                                                                         *)
(* The same code serves both ends; IsServer selects the handlers that      *)
(* differ (server/connection/impl.h, server/protocol-layer-s.cpp against   *)
(* client/stream-impl.h, client/protocol-layer-c.cpp).                     *)
(*                                                                         *)
(* Everything that can interleave is a step of its own: the two reads of   *)
(* ready_, adding the slot, posting the request, each read of the slot,    *)
(* the lookup and the push of write_queue_if_exists, and the stages of a   *)
(* failing connection.                                                     *)
(***************************************************************************)
EXTENDS ConditionQueues, FiniteSets

CONSTANTS
  Callers,      \* threads that make calls
  FirstIndex,   \* initial rpc_index_: 101 on a client, 100 on a server
  MaxCalls,     \* bound: how many identifiers next_index hands out
  MaxPeer,      \* bound: how many units the peer sends
  PeerKinds,    \* the kinds of units the peer may send
  Failures,     \* which of "read", "write" and "close" may happen
  IsServer      \* which end of the connection this is

ASSUME RpcCallsAssumption ==
  /\ FirstIndex \in Nat
  /\ MaxCalls \in Nat
  /\ MaxPeer \in Nat
  /\ IsServer \in BOOLEAN
  /\ Failures \subseteq {"read", "write", "close"}
  /\ Key = {FirstIndex + 2 * i : i \in 1..MaxCalls}

VARIABLES
  ready,        \* protocol_layer::ready_
  closed,       \* transport_impl::closed_
  rpcIndex,     \* protocol_layer::rpc_index_
  pc,           \* where each caller is in call_and_wait
  callId,       \* the identifier of each caller's current call
  sent,         \* calls whose request reached the peer
  inbound,      \* what the peer sent and the read handler has not taken
  hand,         \* the unit the read handler is about to push; a slot is held
  fail,         \* stage of each actor that tears the connection down
  errUnit,      \* what the failing actor pushes to every slot
  log,          \* history: all the peer sent, in order
  consumed,     \* history: what each call popped from its slot, in order
  result,       \* history: how each call ended
  refused,      \* history: insertions answered with ERR_CONTEXT
  pooled,       \* history: insertions executed without a context
  failed,       \* history: a transport error was pushed to every slot
  late          \* history: slots added after that

callVars    == <<pc, callId, rpcIndex, sent>>
readerVars  == <<inbound, hand>>
connVars    == <<ready, closed, fail, errUnit>>
historyVars == <<consumed, result, refused, pooled, failed, late>>
vars == <<queueVars, callVars, readerVars, connVars, log, historyVars>>

------------------------------------------------------------------------------
(* Units. A unit's key is the slot it is addressed to: the id of an answer, *)
(* the target_id of an insertion. n is its place in the peer's log.         *)

Answers   == {"answer", "refusal"}         \* refusal: error().code() # 0
Inserts   == {"insert", "post", "alone"}   \* waited, not waited, ALONE flag
Garbage   == {"bad", "broken"}             \* parse_and_pop fails; frame raises
Broadcast == {"fatal", "blank"}            \* pushed to every slot; code 0: blank

ASSUME PeerKindsAssumption == PeerKinds \subseteq Answers \cup Inserts \cup Garbage

Unit == [kind : Answers \cup Inserts \cup Garbage \cup Broadcast,
         key : Nat, n : Nat]

NoUnit == [kind |-> "bad", key |-> 0, n |-> 0]
ToAll(kind) == [kind |-> kind, key |-> 0, n |-> 0]

\* Actors that close the connection: the read handler, the write handler, a
\* local thread, and on_rpc_process when a message does not parse.
Actors == {"reader", "writer", "user", "parser"}
Stages == {"no", "notready", "pushall", "closing", "cancel", "done"}

\* Stages of call_and_wait in which the call owns a slot.
Inside == {"send", "read", "wait", "local"}
Pcs == {"idle", "check", "add", "erase"} \cup Inside

Results == {"none", "answer", "error", "canceled", "timeout", "comm",
            "inactive", "notified"}

Init ==
  /\ QueuesInit
  /\ ready = TRUE
  /\ closed = FALSE
  /\ rpcIndex = FirstIndex
  /\ pc = [c \in Callers |-> "idle"]
  /\ callId = [c \in Callers |-> FirstIndex]
  /\ sent = {}
  /\ inbound = <<>>
  /\ hand = NoUnit
  /\ fail = [a \in Actors |-> "no"]
  /\ errUnit = [a \in Actors |-> "fatal"]
  /\ log = <<>>
  /\ consumed = [k \in Key |-> <<>>]
  /\ result = [k \in Key |-> "none"]
  /\ refused = {}
  /\ pooled = {}
  /\ failed = FALSE
  /\ late = {}

------------------------------------------------------------------------------
(* A blocking call.                                                         *)

next_index == rpcIndex + 2

\* configure_message takes an identifier, call_and_wait tests active().
BeginCall(c) ==
  /\ pc[c] = "idle"
  /\ rpcIndex < FirstIndex + 2 * MaxCalls
  /\ rpcIndex' = next_index
  /\ callId' = [callId EXCEPT ![c] = next_index]
  /\ IF ready
       THEN pc' = [pc EXCEPT ![c] = "check"] /\ UNCHANGED result
       ELSE /\ result' = [result EXCEPT ![next_index] = "inactive"]
            /\ UNCHANGED pc
  /\ UNCHANGED <<queueVars, sent, readerVars, connVars, log, consumed,
                 refused, pooled, failed, late>>

\* The connection takes a request: an open socket whose write queue moves.
Writable == ~closed /\ fail["writer"] = "no"

\* A call without waiting: no slot, and the answer the peer may still send
\* finds none.
Notify(c) ==
  /\ pc[c] = "idle"
  /\ rpcIndex < FirstIndex + 2 * MaxCalls
  /\ rpcIndex' = next_index
  /\ result' = [result EXCEPT ![next_index] =
                  IF ready THEN "notified" ELSE "comm"]
  /\ sent' = IF ready /\ Writable THEN sent \cup {next_index} ELSE sent
  /\ UNCHANGED <<queueVars, pc, callId, readerVars, connVars, log, consumed,
                 refused, pooled, failed, late>>

\* The call is over with res; the slot is about to be erased.
Finish(c, res) ==
  /\ pc' = [pc EXCEPT ![c] = "erase"]
  /\ result' = [result EXCEPT ![callId[c]] = res]

\* call_rpc_method tests ready_ again and raises ERR_COMM.
CheckReady(c) ==
  /\ pc[c] = "check"
  /\ IF ready
       THEN pc' = [pc EXCEPT ![c] = "add"] /\ UNCHANGED result
       ELSE Finish(c, "comm")
  /\ UNCHANGED <<queueVars, callId, rpcIndex, sent, readerVars, connVars, log,
                 consumed, refused, pooled, failed, late>>

AddSlot(c) ==
  /\ pc[c] = "add"
  /\ add_queue(callId[c])
  /\ pc' = [pc EXCEPT ![c] = "send"]
  /\ late' = IF failed THEN late \cup {callId[c]} ELSE late
  /\ UNCHANGED <<callId, rpcIndex, sent, readerVars, connVars, log,
                 consumed, result, refused, pooled, failed>>

\* send_message posts the request to the write strand.
SendRequest(c) ==
  /\ pc[c] = "send"
  /\ pc' = [pc EXCEPT ![c] = "read"]
  /\ sent' = IF Writable THEN sent \cup {callId[c]} ELSE sent
  /\ UNCHANGED <<queueVars, callId, rpcIndex, readerVars, connVars, log,
                 historyVars>>

\* Mutant: the error code of the unit is not looked at.
HandleAnyCode(c, u) ==
  /\ consumed' = [consumed EXCEPT ![callId[c]] = Append(@, u)]
  /\ \/ u.kind \in Answers /\ Finish(c, "answer")
     \/ /\ u.kind \notin Answers
        /\ pc' = [pc EXCEPT ![c] = "local"]
        /\ UNCHANGED result

\* What call_and_wait does with the unit it read: a unit with an error code
\* ends the call, so does the answer, anything else is a call to run here.
Handle(c, u) ==
  /\ consumed' = [consumed EXCEPT ![callId[c]] = Append(@, u)]
  /\ \/ u.kind = "answer" /\ Finish(c, "answer")
     \/ u.kind \in {"refusal", "fatal"} /\ Finish(c, "error")
     \/ /\ u.kind \in Inserts \cup {"blank"}
        /\ pc' = [pc EXCEPT ![c] = "local"]
        /\ UNCHANGED result

\* read_slot_for finds a unit as soon as it has the slot's lock.
ReadAtOnce(c) ==
  /\ pc[c] = "read"
  /\ read_at_once(callId[c])
  /\ Handle(c, Head(data[callId[c]]))
  /\ UNCHANGED <<callId, rpcIndex, sent, readerVars, connVars, log,
                 refused, pooled, failed, late>>

\* read_slot_for finds the slot empty and waits.
ReadBlocks(c) ==
  /\ pc[c] = "read"
  /\ read_blocks(callId[c])
  /\ pc' = [pc EXCEPT ![c] = "wait"]
  /\ UNCHANGED <<callId, rpcIndex, sent, readerVars, connVars, log,
                 historyVars>>

WakeWithUnit(c) ==
  /\ pc[c] = "wait"
  /\ read_wakes(callId[c])
  /\ Handle(c, Head(data[callId[c]]))
  /\ UNCHANGED <<callId, rpcIndex, sent, readerVars, connVars, log,
                 refused, pooled, failed, late>>

\* read_slot_for turns a failed read into ERR_CANCELED or ERR_TIMEOUT.
EndRead(c, res) ==
  /\ Finish(c, res)
  /\ UNCHANGED <<queueVars, callId, rpcIndex, sent, readerVars, connVars, log,
                 consumed, refused, pooled, failed, late>>

WakeCanceled(c) ==
  /\ pc[c] = "wait"
  /\ canceled[callId[c]]
  /\ EndRead(c, "canceled")

\* Mutant: a read that timed out is tried again.
TimeoutRetries(c) ==
  /\ pc[c] = "wait"
  /\ ~queue_empty_predicate(callId[c])
  /\ pc' = [pc EXCEPT ![c] = "read"]
  /\ UNCHANGED <<queueVars, callId, rpcIndex, sent, readerVars, connVars, log,
                 historyVars>>

Timeout(c) ==
  /\ pc[c] = "wait"
  /\ ~queue_empty_predicate(callId[c])
  /\ EndRead(c, "timeout")

\* make_local_call runs the insertion in the waiting thread; then the loop
\* reads the slot again.
LocalCall(c) ==
  /\ pc[c] = "local"
  /\ pc' = [pc EXCEPT ![c] = "read"]
  /\ UNCHANGED <<queueVars, callId, rpcIndex, sent, readerVars, connVars, log,
                 historyVars>>

\* Mutant: the slot is erased only when the call succeeded.
EraseOnSuccess(c) ==
  /\ pc[c] = "erase"
  /\ IF result[callId[c]] = "answer" THEN erase_queue(callId[c])
                                     ELSE UNCHANGED queueVars
  /\ pc' = [pc EXCEPT ![c] = "idle"]
  /\ UNCHANGED <<callId, rpcIndex, sent, readerVars, connVars, log,
                 historyVars>>

\* The slot_erase guard's destructor, on every way out.
EraseSlot(c) ==
  /\ pc[c] = "erase"
  /\ erase_queue(callId[c])
  /\ pc' = [pc EXCEPT ![c] = "idle"]
  /\ UNCHANGED <<callId, rpcIndex, sent, readerVars, connVars, log,
                 historyVars>>

CallStep(c) ==
  \/ CheckReady(c) \/ AddSlot(c) \/ SendRequest(c)
  \/ ReadAtOnce(c) \/ ReadBlocks(c) \/ WakeWithUnit(c) \/ WakeCanceled(c)
  \/ LocalCall(c) \/ EraseSlot(c)

------------------------------------------------------------------------------
(* The peer and the read handler.                                           *)

\* The peer may send anything about a request it has, and broken input.
PeerSends(k, kind) ==
  /\ Len(log) < MaxPeer
  /\ k \in sent
  /\ LET u == [kind |-> kind, key |-> k, n |-> Len(log) + 1] IN
       inbound' = Append(inbound, u) /\ log' = Append(log, u)
  /\ UNCHANGED <<queueVars, callVars, hand, connVars, historyVars>>

\* The read handler is between two messages.
Reading ==
  /\ fail["reader"] = "no"
  /\ fail["parser"] = "no"
  /\ hand = NoUnit
  /\ inbound # <<>>

\* Mutant: what push_rpc_message returned is not looked at.
FindSlotRefusing ==
  /\ Reading
  /\ Head(inbound).kind \in Answers \cup Inserts
  /\ Head(inbound).key \in store
  /\ hand' = Head(inbound)
  /\ inbound' = Tail(inbound)
  /\ refused' = IF Head(inbound).kind = "insert"
                  THEN refused \cup {Head(inbound)} ELSE refused
  /\ UNCHANGED <<queueVars, callVars, connVars, log, consumed, result, pooled,
                 failed, late>>

\* The first half of write_queue_if_exists: the slot is there and is held.
FindSlot ==
  /\ Reading
  /\ Head(inbound).kind \in Answers \cup Inserts
  /\ Head(inbound).key \in store
  /\ hand' = Head(inbound)
  /\ inbound' = Tail(inbound)
  /\ UNCHANGED <<queueVars, callVars, connVars, log, historyVars>>

\* The second half: the push, into a slot that may have been erased since.
PushUnit ==
  /\ hand # NoUnit
  /\ push_value_data(hand.key, hand)
  /\ hand' = NoUnit
  /\ UNCHANGED <<callVars, inbound, connVars, log, historyVars>>

\* process_data raised: the server reports a read error with the success
\* code to every slot and closes, the client only closes.
ReadRaises ==
  /\ fail' = [fail EXCEPT !["reader"] = IF IsServer THEN "notready"
                                                    ELSE "closing"]
  /\ errUnit' = [errUnit EXCEPT !["reader"] = "blank"]
  /\ UNCHANGED <<ready, closed>>

\* process_answer and process_insertion when the slot is gone. The reply
\* ERR_CONTEXT goes through call_rpc_method, which raises if not ready.
MissSlot ==
  /\ Reading
  /\ LET u == Head(inbound) IN
     /\ u.kind \in Answers \cup Inserts
     /\ u.key \notin store
     /\ IF u.kind = "insert" /\ ~ready THEN ReadRaises ELSE UNCHANGED connVars
     /\ refused' = IF u.kind = "insert" /\ ready THEN refused \cup {u}
                                                ELSE refused
     /\ pooled' = IF u.kind = "alone" THEN pooled \cup {u} ELSE pooled
  /\ inbound' = Tail(inbound)
  /\ UNCHANGED <<queueVars, callVars, hand, log, consumed, result, failed, late>>

\* A message that does not parse: the client pushes ERR_PROTOCOL to every
\* slot, both ends close the connection and leave the dispatch loop.
BadMessage ==
  /\ Reading
  /\ Head(inbound).kind = "bad"
  /\ inbound' = Tail(inbound)
  /\ fail' = [fail EXCEPT !["parser"] = IF IsServer THEN "closing"
                                                    ELSE "pushall"]
  /\ UNCHANGED <<queueVars, callVars, hand, ready, closed, errUnit, log,
                 historyVars>>

\* The frame parser raises on a length it refuses.
BrokenFrame ==
  /\ Reading
  /\ Head(inbound).kind = "broken"
  /\ inbound' = Tail(inbound)
  /\ ReadRaises
  /\ UNCHANGED <<queueVars, callVars, hand, log, historyVars>>

------------------------------------------------------------------------------
(* Tearing the connection down.                                             *)

\* Mutant: a read error only closes the connection.
ReadErrorCloses ==
  /\ "read" \in Failures \/ closed
  /\ fail["reader"] = "no"
  /\ fail["parser"] \in {"no", "done"}
  /\ hand = NoUnit
  /\ fail' = [fail EXCEPT !["reader"] = "closing"]
  /\ UNCHANGED <<queueVars, callVars, readerVars, ready, closed, errUnit, log,
                 historyVars>>

\* An asynchronous read ends with an error: the peer is gone, or the socket
\* was closed here.
ReadError ==
  /\ "read" \in Failures \/ closed
  /\ fail["reader"] = "no"
  /\ fail["parser"] \in {"no", "done"}
  /\ hand = NoUnit
  /\ fail' = [fail EXCEPT !["reader"] = "notready"]
  /\ UNCHANGED <<queueVars, callVars, readerVars, ready, closed, errUnit, log,
                 historyVars>>

\* An asynchronous write ends with an error.
WriteError ==
  /\ "write" \in Failures
  /\ fail["writer"] = "no"
  /\ sent # {}
  /\ fail' = [fail EXCEPT !["writer"] = "notready"]
  /\ UNCHANGED <<queueVars, callVars, readerVars, ready, closed, errUnit, log,
                 historyVars>>

\* base::disconnect: close an active connection.
Disconnect ==
  /\ "close" \in Failures
  /\ fail["user"] = "no"
  /\ ready
  /\ fail' = [fail EXCEPT !["user"] = "closing"]
  /\ UNCHANGED <<queueVars, callVars, readerVars, ready, closed, errUnit, log,
                 historyVars>>

\* on_system_error, first statement.
SetNotReady(a) ==
  /\ fail[a] = "notready"
  /\ ready' = FALSE
  /\ fail' = [fail EXCEPT ![a] = "pushall"]
  /\ UNCHANGED <<queueVars, callVars, readerVars, closed, errUnit, log,
                 historyVars>>

\* on_system_error, last statement: push_rpc_message_all.
PushAll(a) ==
  /\ fail[a] = "pushall"
  /\ write_all(ToAll(errUnit[a]))
  /\ fail' = [fail EXCEPT ![a] = "closing"]
  /\ failed' = (failed \/ errUnit[a] = "fatal")
  /\ UNCHANGED <<callVars, readerVars, ready, closed, errUnit, log,
                 consumed, result, refused, pooled, late>>

\* transport_impl::close: the mutex close_lock_ covers the test of closed_
\* and the callbacks.
Close(a) ==
  /\ fail[a] = "closing"
  /\ \A b \in Actors : fail[b] # "cancel"
  /\ closed' = TRUE
  /\ fail' = [fail EXCEPT ![a] = IF closed THEN "done" ELSE "cancel"]
  /\ UNCHANGED <<queueVars, callVars, readerVars, ready, errUnit, log,
                 historyVars>>

\* on_close: the protocol layer cancels every slot.
CancelSlots(a) ==
  /\ fail[a] = "cancel"
  /\ cancel_all
  /\ fail' = [fail EXCEPT ![a] = "done"]
  /\ UNCHANGED <<callVars, readerVars, ready, closed, errUnit, log,
                 historyVars>>

TearDown(a) == SetNotReady(a) \/ PushAll(a) \/ Close(a) \/ CancelSlots(a)

Dispatch == FindSlot \/ PushUnit \/ MissSlot \/ BadMessage \/ BrokenFrame

Next ==
  \/ \E c \in Callers : BeginCall(c) \/ Notify(c) \/ CallStep(c) \/ Timeout(c)
  \/ \E k \in Key, kind \in PeerKinds : PeerSends(k, kind)
  \/ Dispatch \/ ReadError \/ WriteError \/ Disconnect
  \/ \E a \in Actors : TearDown(a)

Spec == Init /\ [][Next]_vars

\* Threads run, user methods return, handlers of the I/O pool run, and a
\* socket closed here completes its pending read with an error. The timer of
\* a read is left out: EveryCallReturns adds it.
Fairness ==
  /\ \A c \in Callers : WF_vars(CallStep(c))
  /\ WF_vars(Dispatch)
  /\ \A a \in Actors : WF_vars(TearDown(a))
  /\ WF_vars(closed /\ ReadError)

FairSpec == Spec /\ Fairness

------------------------------------------------------------------------------
(* Properties.                                                              *)

\* Types of the variables; a call in progress has an identifier of its own.
TypeOK ==
  /\ store \subseteq Key
  /\ data \in [Key -> Seq(Unit)]
  /\ canceled \in [Key -> BOOLEAN]
  /\ ready \in BOOLEAN
  /\ closed \in BOOLEAN
  /\ rpcIndex \in {FirstIndex + 2 * i : i \in 0..MaxCalls}
  /\ pc \in [Callers -> Pcs]
  /\ callId \in [Callers -> Key \cup {FirstIndex}]
  /\ \A c \in Callers : pc[c] # "idle" => callId[c] \in Key
  /\ sent \subseteq Key
  /\ inbound \in Seq(Unit)
  /\ hand \in Unit
  /\ fail \in [Actors -> Stages]
  /\ errUnit \in [Actors -> Broadcast]
  /\ log \in Seq(Unit)
  /\ consumed \in [Key -> Seq(Unit)]
  /\ result \in [Key -> Results]
  /\ refused \subseteq Unit
  /\ pooled \subseteq Unit
  /\ failed \in BOOLEAN
  /\ late \subseteq Key

\* A slot is in the table exactly while the call that added it is inside
\* call_and_wait, and no two calls share one: read_slot_for never meets
\* "Bad queue index" (condition-queues.h, at), no slot outlives its call on
\* any way out, and add_queue never finds its key taken.
SlotLifetime ==
  /\ \A c \in Callers : pc[c] \in Inside => callId[c] \in store
  /\ \A c \in Callers : pc[c] = "add" => callId[c] \notin store
  /\ \A k \in store : \E c \in Callers :
        callId[c] = k /\ pc[c] \in Inside \cup {"erase"}
  /\ \A c, d \in Callers : c # d /\ pc[c] # "idle" /\ pc[d] # "idle"
                             => callId[c] # callId[d]

HasFatal(s) == \E i \in DOMAIN s : s[i].kind = "fatal"

\* Once on_system_error has pushed a transport error, every call that had
\* its slot by then finds the error in it before it can block again, whatever
\* it was doing (sending, waiting, running a callback). Only a call that
\* tested ready_ before the failure and added its slot after the push (late)
\* is left to its timer.
FailureReachesSlots ==
  failed => \A c \in Callers :
    pc[c] \in Inside /\ callId[c] \notin late => HasFatal(data[callId[c]])

\* The peer addressed u to a call; u is one of the units of s.
FromPeer(u) == u.kind \in Answers \cup Inserts
Among(u, s) == \E i \in DOMAIN s : s[i] = u

\* What a call reads from its slot is, in order and without a gap, what the
\* peer sent to that call and to no other: each unit once, and only after
\* every unit the peer sent to the call before it.  So a call that returns its
\* answer has run every callback the peer sent before the answer.
InOrder ==
  \A k \in Key : \A i \in DOMAIN consumed[k] : FromPeer(consumed[k][i]) =>
    LET n == consumed[k][i].n IN
    /\ n \in DOMAIN log /\ log[n] = consumed[k][i] /\ log[n].key = k
    /\ \A j \in 1..(i - 1) : FromPeer(consumed[k][j]) => consumed[k][j].n < n
    /\ \A m \in 1..(n - 1) : FromPeer(log[m]) /\ log[m].key = k
         => \E j \in 1..(i - 1) : consumed[k][j] = log[m]

\* Where a unit the peer sent is now.
Places(u) ==
  {p \in {"wire", "hand", "slot", "taken", "refused", "pooled"} :
     \/ p = "wire"    /\ Among(u, inbound)
     \/ p = "hand"    /\ u = hand
     \/ p = "slot"    /\ Among(u, data[u.key])
     \/ p = "taken"   /\ Among(u, consumed[u.key])
     \/ p = "refused" /\ u \in refused
     \/ p = "pooled"  /\ u \in pooled}

\* An insertion is never both run in its call's thread and refused with
\* ERR_CONTEXT or run in the pool, and it is refused or run in the pool only
\* when the call it targets is over (process_insertion).
CallbackFate ==
  \A i \in DOMAIN log : log[i].kind \in Inserts =>
    /\ Cardinality(Places(log[i])) <= 1
    /\ Places(log[i]) \cap {"refused", "pooled"} # {}
         => result[log[i].key] # "none"

\* With no timer at all, a transport error makes every call that had its slot
\* leave call_and_wait.
FailureReleases ==
  \A c \in Callers :
    (failed /\ pc[c] \in Inside /\ callId[c] \notin late) ~> (pc[c] = "idle")

\* The read handler ended by an exception: no read error follows a close.
Raised == errUnit["reader"] = "blank"

\* With no timer at all, closing the connection from this end makes every
\* call that has its slot leave: by its cancel, or, when the cancel came
\* before the call's next read and was forgotten, by the read error that the
\* closed socket causes, unless the read handler has ended by an exception.
CloseReleases ==
  \A c \in Callers :
    (closed /\ pc[c] \in Inside) ~> (pc[c] = "idle" \/ callId[c] \in late \/ Raised)

\* With the timer of read_slot_for, every call returns whatever the peer and
\* the connection do.
EveryCallReturns ==
  (\A c \in Callers : WF_vars(Timeout(c)))
    => \A c \in Callers : (pc[c] # "idle") ~> (pc[c] = "idle")

\* Every call returns: released by a transport error, by a close, or at last by the
\* timer of read_slot_for.  (call_and_wait, write_all, cancel_all)
CallsEnd == FailureReleases /\ CloseReleases /\ EveryCallReturns
==============================================================================
