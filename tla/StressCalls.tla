------------------------------ MODULE StressCalls ------------------------------
(***************************************************************************)
(* The calls of examples/stress: threads of one client ping the server, ask*)
(* it for events, or recurse with it, and the server calls back into the   *)
(* call that waits.                                                        *)
(*                                                                         *)
(* A recursion of balance n is a call, whose handler makes a callback,     *)
(* which makes a call of balance n - 1, and so on: each side executes the  *)
(* nested calls on the thread that waits.  The service of a connection has *)
(* one channel_ for the callbacks of all its recursions and sets the call  *)
(* they go to before each, in a step of its own: when two recursions of a  *)
(* connection interleave there, a callback goes into the wait of the other.*)
(* That wait may be over (the callback fails), or not be the innermost of  *)
(* its thread (nobody reads it until the timeout of the call, which ends   *)
(* both recursions and is not modelled).                                   *)
(***************************************************************************)
EXTENDS Naturals, Sequences, FiniteSets, SequencesExt

CONSTANTS
  balance,      \* bound: the balance recursions start with
  count,        \* bound: events a thread asks for
  rpc_threads   \* threads of the server's rpc pool

Threads == {"t1", "t2"}
None == "none"
Jobs == {"ping", "events", "callbacks", "recursive"}

\* A call is named by the thread that began it and by its depth.
Call(t, d) == [of |-> t, depth |-> d]
Calls == [of : Threads, depth : 0..balance]
NoCall == Call(None, 0)

VARIABLES
  job,        \* thread -> what it does, None before and "done" after
  waits,      \* thread -> the calls it waits for, the innermost first
  inbox,      \* call -> what its slot holds: callbacks and its answer
  server,     \* thread -> the server's part of its call: [depth, step]
  channel_,   \* the call the service's channel is set to
  left,       \* thread -> events that are still to be sent
  handled,    \* thread -> events its calls have handled
  failed,     \* threads whose recursion ended with an error
  mixed       \* history: a recursion set channel_ between the two steps of another

vars == <<job, waits, inbox, server, channel_, left, handled, failed, mixed>>

Init ==
  /\ job = [t \in Threads |-> None] /\ waits = [t \in Threads |-> <<>>]
  /\ inbox = [c \in Calls |-> <<>>]
  /\ server = [t \in Threads |-> [depth |-> 0, step |-> "idle"]]
  /\ channel_ = NoCall /\ left = [t \in Threads |-> 0] /\ handled = [t \in Threads |-> 0]
  /\ failed = {} /\ mixed = FALSE

Waiting(c) == \E t \in Threads : Contains(waits[t], c)
Current(t) == Call(t, server[t].depth)
Put(c, what) == [inbox EXCEPT ![c] = Append(@, what)]
At(t, d, step) == server' = [server EXCEPT ![t] = [depth |-> d, step |-> step]]
Answers(t, how) == At(t, server[t].depth, "idle") /\ inbox' = Put(Current(t), [kind |-> how, of |-> t])
Busy == {t \in Threads : server[t].step \notin {"idle", "request"} \/ server[t].depth > 0}

------------------------------------------------------------------------------
(* The threads of the client.                                               *)

\* start with its thread group: start_ping_flood, start_generate_events,
\* start_recursive.
start(t) ==
  /\ job[t] = None
  /\ \E j \in Jobs :
       /\ job' = [job EXCEPT ![t] = j]
       /\ left' = [left EXCEPT ![t] = IF j \in {"events", "callbacks"} THEN count ELSE 0]
  /\ waits' = [waits EXCEPT ![t] = <<Call(t, 0)>>]
  /\ At(t, 0, "request")
  /\ UNCHANGED <<inbox, channel_, handled, failed, mixed>>

Reads(t, kinds) ==
  /\ waits[t] # <<>> /\ inbox[Head(waits[t])] # <<>>
  /\ Head(inbox[Head(waits[t])]).kind \in kinds

Got(t) == Head(inbox[Head(waits[t])])
Taken(t) == [inbox EXCEPT ![Head(waits[t])] = Tail(@)]

\* recursive_callback: the call of the next balance goes into the wait of the
\* server that made the callback.
recursive_callback(t) ==
  /\ Reads(t, {"callback"})
  /\ LET r == Got(t).of IN
       /\ waits' = [waits EXCEPT ![t] = <<Call(r, server[r].depth + 1)>> \o @]
       /\ At(r, server[r].depth + 1, "request")
  /\ inbox' = Taken(t)
  /\ UNCHANGED <<job, channel_, left, handled, failed, mixed>>

\* event: the server that waits for it is answered.
event(t) ==
  /\ Reads(t, {"event"})
  /\ handled' = [handled EXCEPT ![Got(t).of] = @ + 1]
  /\ inbox' = Taken(t)
  /\ IF job[Got(t).of] = "callbacks" THEN At(Got(t).of, 0, "generate") ELSE UNCHANGED server
  /\ UNCHANGED <<job, waits, channel_, left, failed, mixed>>

\* The call returns or throws.  What else is in its slot is dropped with it.  A
\* nested call ends its callback the same way.
CallReturns(t) ==
  /\ Reads(t, {"answer", "error"})
  /\ waits' = [waits EXCEPT ![t] = Tail(@)]
  /\ inbox' = [inbox EXCEPT ![Head(waits[t])] = <<>>]
  /\ LET c == Head(waits[t]) IN
       IF c.depth = 0
         THEN /\ job' = [job EXCEPT ![t] = "done"]
              /\ failed' = IF Got(t).kind = "error" THEN failed \cup {t} ELSE failed
              /\ UNCHANGED server
         ELSE /\ At(c.of, c.depth - 1, IF Got(t).kind = "error" THEN "throws" ELSE "returns")
              /\ UNCHANGED <<job, failed>>
  /\ UNCHANGED <<channel_, left, handled, mixed>>

------------------------------------------------------------------------------
(* The service.  A call from outside takes a thread of the pool, a nested   *)
(* one is executed by the thread that waits.                                *)

\* Mutant: a nested call waits for a thread of the pool, too.
Takes_pool(t) == server[t].step = "request" /\ Cardinality(Busy) < rpc_threads

Takes(t) ==
  /\ server[t].step = "request"
  /\ server[t].depth = 0 => Cardinality(Busy) < rpc_threads

ping(t) ==
  /\ Takes(t) /\ job[t] = "ping"
  /\ Answers(t, "answer")
  /\ UNCHANGED <<job, waits, channel_, left, handled, failed, mixed>>

generate_event(t) ==
  /\ Takes(t) /\ job[t] \in {"events", "callbacks"}
  /\ At(t, 0, "generate")
  /\ UNCHANGED <<job, waits, inbox, channel_, left, handled, failed, mixed>>

\* Mutant: the loop of generate_event sends one event too few.
SendEvent_short(t) ==
  /\ server[t].step = "generate"
  /\ IF left[t] > 1
       THEN /\ inbox' = Put(Current(t), [kind |-> "event", of |-> t])
            /\ At(t, 0, IF job[t] = "callbacks" THEN "sent" ELSE "generate")
       ELSE Answers(t, "answer")
  /\ left' = [left EXCEPT ![t] = IF @ > 0 THEN @ - 1 ELSE 0]
  /\ UNCHANGED <<job, waits, channel_, handled, failed, mixed>>

\* The loop of generate_event: the channel is made in the handler, so its events
\* go into the call that asked.
SendEvent(t) ==
  /\ server[t].step = "generate"
  /\ IF left[t] > 0
       THEN /\ inbox' = Put(Current(t), [kind |-> "event", of |-> t])
            /\ At(t, 0, IF job[t] = "callbacks" THEN "sent" ELSE "generate")
       ELSE Answers(t, "answer")
  /\ left' = [left EXCEPT ![t] = IF @ > 0 THEN @ - 1 ELSE 0]
  /\ UNCHANGED <<job, waits, channel_, handled, failed, mixed>>

\* recursive_call: with nothing left to do it answers, else it sets the channel
\* to its call ...
recursive_call(t) ==
  /\ Takes(t) /\ job[t] = "recursive"
  /\ IF server[t].depth = balance
       THEN Answers(t, "answer") /\ UNCHANGED channel_
       ELSE channel_' = Current(t) /\ At(t, server[t].depth, "set") /\ UNCHANGED inbox
  /\ mixed' = (mixed \/ (channel_' # channel_ /\ \E u \in Threads \ {t} : server[u].step = "set"))
  /\ UNCHANGED <<job, waits, left, handled, failed>>

\* ... and makes the callback.  One that finds no call that waits throws.
MakeCallback(t) ==
  /\ server[t].step = "set"
  /\ IF Waiting(channel_)
       THEN inbox' = Put(channel_, [kind |-> "callback", of |-> t]) /\ At(t, server[t].depth, "sent")
       ELSE Answers(t, "error")
  /\ UNCHANGED <<job, waits, channel_, left, handled, failed, mixed>>

\* The callback returned: done is run.  It threw: the call is answered with it.
recursive_call_returns(t) ==
  /\ server[t].step \in {"returns", "throws"}
  /\ Answers(t, IF server[t].step = "returns" THEN "answer" ELSE "error")
  /\ UNCHANGED <<job, waits, channel_, left, handled, failed, mixed>>

ClientStep(t) == recursive_callback(t) \/ event(t) \/ CallReturns(t)
ServerStep(t) ==
  \/ ping(t) \/ generate_event(t) \/ SendEvent(t)
  \/ recursive_call(t) \/ MakeCallback(t) \/ recursive_call_returns(t)

Next == \E t \in Threads : start(t) \/ ClientStep(t) \/ ServerStep(t)

\* Threads of both sides run.
Spec ==
  /\ Init /\ [][Next]_vars
  /\ \A t \in Threads : WF_vars(ClientStep(t)) /\ WF_vars(ServerStep(t))

------------------------------------------------------------------------------
(* Properties.                                                              *)

\* While no two recursions of the connection met in channel_, none fails, and
\* what a thread asked for, all of it, was done before its call returned.
FailsOnlyMixed ==
  /\ failed # {} => mixed
  /\ ~mixed => \A t \in Threads :
       job[t] = "done" => handled[t] \in {0, count} /\ left[t] = 0

Out(t) == job[t] \notin {None, "done"} /\ ~mixed

\* Every call that was started returns, however deep it nests and however few
\* threads the server has, unless two recursions met in channel_.
CallsReturn == \A t \in Threads : Out(t) ~> ~Out(t)
===============================================================================
