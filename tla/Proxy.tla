--------------------------------- MODULE Proxy ---------------------------------
(***************************************************************************)
(* examples/proxy-test: clients call each other through the server.  A     *)
(* client registers under its name; send_to finds the target's connection, *)
(* sends it the caller's unit with raw_call and waits on the server's only *)
(* rpc thread.                                                             *)
(*                                                                         *)
(* raw_call returns an error of the target as a unit, and throws when the  *)
(* connection is not active.  The caller's channel reads only the response *)
(* of what comes back: an unknown target and an error of the target give it*)
(* an empty answer, not an exception.                                      *)
(***************************************************************************)
EXTENDS Naturals, Sequences, FiniteSets, SequencesExt

Callers == {"c1", "c2", "c3"}
Idle == [of |-> "none", to |-> "none", step |-> "idle"]

VARIABLES
  open,      \* clients whose connection lives
  main,      \* client -> "new", "waits" or the outcome: "registered", "pong", "empty", "error"
  requests,  \* requests posted to the server's rpc pool: [of, to], to itself for reg
  clients_,  \* the names of the server's map, of weak pointers
  handler,   \* the handler the rpc thread is in
  inbox,     \* client -> the callers its rpc pool has to answer
  served,    \* history: callers for whom send_hello ran
  missing    \* history: callers whose target was once not registered, not open or too slow

vars == <<open, main, requests, clients_, handler, inbox, served, missing>>

Init ==
  /\ open = Callers /\ main = [c \in Callers |-> "new"] /\ requests = <<>> /\ clients_ = {}
  /\ handler = Idle /\ inbox = [c \in Callers |-> <<>>] /\ served = {} /\ missing = {}

------------------------------------------------------------------------------
(* The clients.                                                             *)

\* reg_for_proxy, and then the program only waits.
reg_for_proxy(c) ==
  /\ main[c] = "new" /\ c \in open
  /\ main' = [main EXCEPT ![c] = "waits"]
  /\ requests' = Append(requests, [of |-> c, to |-> c])
  /\ UNCHANGED <<open, clients_, handler, inbox, served, missing>>

\* make_call: hello_channel::send_message calls send_to of the server.
make_call(c, t) ==
  /\ main[c] = "new" /\ c \in open
  /\ main' = [main EXCEPT ![c] = "waits"]
  /\ requests' = Append(requests, [of |-> c, to |-> t])
  /\ UNCHANGED <<open, clients_, handler, inbox, served, missing>>

\* send_hello on the thread of the client's rpc pool: the server is answered.
send_hello(t) ==
  /\ t \in open /\ inbox[t] # <<>>
  /\ inbox' = [inbox EXCEPT ![t] = Tail(@)]
  /\ served' = served \cup {Head(inbox[t])}
  /\ handler' = IF handler = [of |-> Head(inbox[t]), to |-> t, step |-> "wait"]
                  THEN [handler EXCEPT !.step = "pong"] ELSE handler
  /\ UNCHANGED <<open, main, requests, clients_, missing>>

\* A connection ends; the call that waits on it throws.
Lost(c) ==
  /\ c \in open
  /\ open' = open \ {c}
  /\ main' = [main EXCEPT ![c] = IF @ = "waits" THEN "error" ELSE @]
  /\ inbox' = [inbox EXCEPT ![c] = <<>>]
  /\ missing' = IF handler.to = c THEN missing \cup {handler.of} ELSE missing
  /\ UNCHANGED <<requests, clients_, handler, served>>

------------------------------------------------------------------------------
(* The transmitter service.                                                 *)

Answer(c, how) == main' = [main EXCEPT ![c] = IF c \in open THEN how ELSE @]

register_client(c) ==
  /\ clients_' = clients_ \cup {c} /\ Answer(c, "registered")
  /\ UNCHANGED <<handler, missing>>

\* client_by_id: an entry whose connection is gone is erased.
client_by_id(c, t) ==
  IF t \in clients_ \cap open
    THEN handler' = [of |-> c, to |-> t, step |-> "found"] /\ UNCHANGED <<clients_, main, missing>>
    ELSE /\ clients_' = clients_ \ {t} /\ Answer(c, "empty") /\ missing' = missing \cup {c}
         /\ UNCHANGED handler

\* The rpc thread takes a request; one of a connection that is gone is dropped.
Takes ==
  /\ handler = Idle /\ requests # <<>>
  /\ requests' = Tail(requests)
  /\ LET r == Head(requests) IN
       \/ r.of \notin open /\ UNCHANGED <<clients_, main, handler, missing>>
       \/ r.of \in open /\ r.of = r.to /\ register_client(r.of)
       \/ r.of \in open /\ r.of # r.to /\ client_by_id(r.of, r.to)
  /\ UNCHANGED <<open, inbox, served>>

\* Mutant: the unit is sent without waiting for the answer.
raw_call_nowait ==
  /\ handler.step = "found"
  /\ IF handler.to \in open
       THEN /\ inbox' = [inbox EXCEPT ![handler.to] = Append(@, handler.of)]
            /\ handler' = [handler EXCEPT !.step = "pong"]
       ELSE handler' = [handler EXCEPT !.step = "error"] /\ UNCHANGED inbox
  /\ UNCHANGED <<open, main, requests, clients_, served, missing>>

\* raw_call: "Channel is not ready" is an exception.
raw_call ==
  /\ handler.step = "found"
  /\ IF handler.to \in open
       THEN /\ inbox' = [inbox EXCEPT ![handler.to] = Append(@, handler.of)]
            /\ handler' = [handler EXCEPT !.step = "wait"]
       ELSE handler' = [handler EXCEPT !.step = "error"] /\ UNCHANGED inbox
  /\ UNCHANGED <<open, main, requests, clients_, served, missing>>

\* Mutant: the wait of raw_call goes on.
call_and_wait_raw_on ==
  /\ handler.step = "wait" /\ handler.to \notin Callers
  /\ handler' = [handler EXCEPT !.step = "empty"]
  /\ UNCHANGED <<open, main, requests, clients_, inbox, served, missing>>

\* call_and_wait_raw: the target's connection ends, the error is pushed to the slot
\* and raw_call returns it.
call_and_wait_raw ==
  /\ handler.step = "wait" /\ handler.to \notin open
  /\ handler' = [handler EXCEPT !.step = "empty"]
  /\ UNCHANGED <<open, main, requests, clients_, inbox, served, missing>>

\* read_slot_for gives up after 30 s, with an error that raw_call returns as well; the
\* target may be at work and its answer finds no slot.
call_and_wait_raw_times_out ==
  /\ handler.step = "wait"
  /\ handler' = [handler EXCEPT !.step = "empty"]
  /\ missing' = missing \cup {handler.of}
  /\ UNCHANGED <<open, main, requests, clients_, inbox, served>>

\* send_to returns.
send_to_returns ==
  /\ handler.step \in {"pong", "empty", "error"}
  /\ Answer(handler.of, handler.step) /\ handler' = Idle
  /\ UNCHANGED <<open, requests, clients_, inbox, served, missing>>

Server == Takes \/ raw_call \/ call_and_wait_raw \/ send_to_returns

Next ==
  \/ Server \/ call_and_wait_raw_times_out
  \/ \E c \in Callers : reg_for_proxy(c) \/ (\E t \in Callers \ {c} : make_call(c, t)) \/ send_hello(c) \/ Lost(c)

\* The server's threads and the clients' pools run; nothing relies on the timer.
Spec ==
  /\ Init /\ [][Next]_vars /\ WF_vars(Server)
  /\ \A c \in Callers : WF_vars(send_hello(c))

------------------------------------------------------------------------------
(* Properties.                                                              *)

\* A pong was said by the target for this caller.  A call that comes back empty
\* had a target that was not registered, went away or was too slow; the caller cannot
\* tell.
PongIsServed ==
  \A c \in Callers :
    /\ main[c] = "pong" => c \in served
    /\ main[c] \in {"empty", "error"} => c \in missing \/ c \notin open

Waits(c) == main[c] = "waits"

\* Every call returns, also when the target goes away while the server's only rpc
\* thread waits for it.
ProxyReturns == \A c \in Callers : Waits(c) ~> ~Waits(c)
===============================================================================
