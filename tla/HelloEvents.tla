------------------------------ MODULE HelloEvents ------------------------------
(***************************************************************************)
(* examples/hello and examples/hello-events: two clients of a server whose *)
(* rpc pool has one thread.  A client calls send_hello, which only answers,*)
(* or generate_events, whose handler sends an event and then makes a       *)
(* callback and waits for it.                                              *)
(*                                                                         *)
(* The event is a call of the server: the client's io thread posts it to   *)
(* the client's rpc pool.  The callback goes into the call that waits: the *)
(* main thread executes it.  When its call returns the main thread stops   *)
(* both pools, and an event that still waits there is never handled.       *)
(***************************************************************************)
EXTENDS Naturals, Sequences, SequencesExt

Clients == {"c1", "c2"}
Idle == [of |-> "none", step |-> "idle"]

VARIABLES
  open,       \* clients whose connection lives
  main,       \* client -> "new", "waits", "ok", "failed" or "ended"
  job,        \* client -> the method it calls: "hello" or "events"
  net,        \* client -> messages of the server it has not read
  slot,       \* client -> what the slot of its call holds
  rpc_pool,   \* client -> events posted to its rpc pool
  handled,    \* client -> events its rpc pool has handled
  called,     \* clients whose main thread has executed the callback
  requests,   \* requests posted to the server's rpc pool
  handler     \* the handler the server's rpc thread is in

vars == <<open, main, job, net, slot, rpc_pool, handled, called, requests, handler>>

Init ==
  /\ open = Clients /\ main = [c \in Clients |-> "new"]
  /\ job \in [Clients -> {"hello", "events"}]
  /\ net = [c \in Clients |-> <<>>] /\ slot = [c \in Clients |-> <<>>]
  /\ rpc_pool = [c \in Clients |-> 0] /\ handled = [c \in Clients |-> 0] /\ called = {}
  /\ requests = <<>> /\ handler = Idle

Waits(c) == main[c] = "waits"
Sends(c, what) == net' = IF c \in open THEN [net EXCEPT ![c] = Append(@, what)] ELSE net

------------------------------------------------------------------------------
(* A client.                                                                *)

\* The main thread calls and waits.
call(c) ==
  /\ main[c] = "new" /\ c \in open
  /\ main' = [main EXCEPT ![c] = "waits"] /\ requests' = Append(requests, c)
  /\ UNCHANGED <<job, open, net, slot, rpc_pool, handled, called, handler>>

\* The io thread: an event goes to the rpc pool, anything else into the slot.
read(c) ==
  /\ net[c] # <<>> /\ c \in open
  /\ net' = [net EXCEPT ![c] = Tail(@)]
  /\ IF Head(net[c]) = "event"
       THEN rpc_pool' = [rpc_pool EXCEPT ![c] = @ + 1] /\ UNCHANGED slot
       ELSE slot' = [slot EXCEPT ![c] = Append(@, Head(net[c]))] /\ UNCHANGED rpc_pool
  /\ UNCHANGED <<job, open, main, handled, called, requests, handler>>

\* hello_event on the thread of the rpc pool, until the pool is stopped.
hello_event(c) ==
  /\ rpc_pool[c] > 0 /\ main[c] # "ended"
  /\ rpc_pool' = [rpc_pool EXCEPT ![c] = @ - 1] /\ handled' = [handled EXCEPT ![c] = @ + 1]
  /\ UNCHANGED <<job, open, main, net, slot, called, requests, handler>>

\* hello_callback on the main thread; its answer wakes the server's handler.
hello_callback(c) ==
  /\ Waits(c) /\ slot[c] # <<>> /\ Head(slot[c]) = "callback"
  /\ slot' = [slot EXCEPT ![c] = Tail(@)] /\ called' = called \cup {c}
  /\ handler' = IF handler = [of |-> c, step |-> "wait"] /\ c \in open
                  THEN [handler EXCEPT !.step = "done"] ELSE handler
  /\ UNCHANGED <<job, open, main, net, rpc_pool, handled, requests>>

\* The call returns; when the connection is lost, it throws.
call_returns(c) ==
  /\ Waits(c)
  /\ \/ slot[c] # <<>> /\ Head(slot[c]) = "answer" /\ main' = [main EXCEPT ![c] = "ok"]
     \/ slot[c] = <<>> /\ c \notin open /\ main' = [main EXCEPT ![c] = "failed"]
  /\ UNCHANGED <<job, open, net, slot, rpc_pool, handled, called, requests, handler>>

\* stop_all and join_all.
stop_all(c) ==
  /\ main[c] \in {"ok", "failed"}
  /\ main' = [main EXCEPT ![c] = "ended"] /\ open' = open \ {c}
  /\ UNCHANGED <<job, net, slot, rpc_pool, handled, called, requests, handler>>

Lost(c) ==
  /\ c \in open
  /\ open' = open \ {c}
  /\ UNCHANGED <<job, main, net, slot, rpc_pool, handled, called, requests, handler>>

------------------------------------------------------------------------------
(* The server's rpc thread.                                                 *)

\* A request of a connection that is gone is dropped.
Takes ==
  /\ handler = Idle /\ requests # <<>>
  /\ requests' = Tail(requests)
  /\ LET c == Head(requests) IN
       handler' = IF c \notin open THEN Idle
                    ELSE [of |-> c, step |-> IF job[c] = "hello" THEN "done" ELSE "event"]
  /\ UNCHANGED <<job, open, main, net, slot, rpc_pool, handled, called>>

\* generate_events: a channel whose connection is gone throws out of the handler.
send_event ==
  /\ handler.step = "event"
  /\ Sends(handler.of, "event")
  /\ handler' = IF handler.of \in open THEN [handler EXCEPT !.step = "callback"] ELSE Idle
  /\ UNCHANGED <<job, open, main, slot, rpc_pool, handled, called, requests>>

\* Mutant: the callback is sent as an event, without waiting.
send_callback_quick ==
  /\ handler.step = "callback"
  /\ Sends(handler.of, "event")
  /\ handler' = IF handler.of \in open THEN [handler EXCEPT !.step = "done"] ELSE Idle
  /\ UNCHANGED <<job, open, main, slot, rpc_pool, handled, called, requests>>

send_callback ==
  /\ handler.step = "callback"
  /\ Sends(handler.of, "callback")
  /\ handler' = IF handler.of \in open THEN [handler EXCEPT !.step = "wait"] ELSE Idle
  /\ UNCHANGED <<job, open, main, slot, rpc_pool, handled, called, requests>>

\* Mutant: the end of a connection does not reach the callback that waits.
callback_lost_never ==
  /\ handler.step = "wait" /\ handler.of \notin Clients
  /\ handler' = Idle
  /\ UNCHANGED <<job, open, main, net, slot, rpc_pool, handled, called, requests>>

\* The connection ends while the handler waits for the callback: it throws.
callback_lost ==
  /\ handler.step = "wait" /\ handler.of \notin open
  /\ handler' = Idle
  /\ UNCHANGED <<job, open, main, net, slot, rpc_pool, handled, called, requests>>

\* closure_holder: done is run.
answer ==
  /\ handler.step = "done"
  /\ Sends(handler.of, "answer") /\ handler' = Idle
  /\ UNCHANGED <<job, open, main, slot, rpc_pool, handled, called, requests>>

Server == Takes \/ send_event \/ send_callback \/ callback_lost \/ answer
MainThread(c) == hello_callback(c) \/ call_returns(c) \/ stop_all(c)

Next ==
  \/ Server
  \/ \E c \in Clients : call(c) \/ read(c) \/ hello_event(c) \/ MainThread(c) \/ Lost(c)

\* Threads run; nobody has to call, and no connection has to be lost.
Spec ==
  /\ Init /\ [][Next]_vars /\ WF_vars(Server)
  /\ \A c \in Clients : WF_vars(read(c)) /\ WF_vars(hello_event(c)) /\ WF_vars(MainThread(c))

------------------------------------------------------------------------------
(* Properties.                                                              *)

\* generate_events succeeds only when the callback was executed, and the event
\* sent before it is by then in the client's rpc pool: it is handled once, unless
\* the client stops its pools first.
OkMeansCalled ==
  \A c \in Clients :
    /\ main[c] = "ok" /\ job[c] = "events" => c \in called
    /\ c \in called => handled[c] + rpc_pool[c] = 1

\* Every call returns: a client that goes away in its callback does not keep the
\* server's only rpc thread from the other.
BothServed == \A c \in Clients : Waits(c) ~> ~Waits(c)
===============================================================================
