--------------------------- MODULE ServerConnections ---------------------------
(***************************************************************************)
(* The connections of a server: from on_accept of a listener through the   *)
(* connection list of the application to close and drop                    *)
(* (server/listener/impl.h, ssl.cpp, win-pipe.cpp, server/connection/impl.h*)
(* and default.cpp, common/connection-list.cpp, server/application.cpp, the*)
(* broadcast channel of server/channels.cpp).                              *)
(*                                                                         *)
(* The handlers run on the threads of the io_service without a strand, so  *)
(* those of one connection overlap: a read, a write, a timer.  Two mutexes *)
(* are held over calls: clients_lock_ of the list while it is walked, and  *)
(* close_lock_ of a transport while close runs the slots of on_close.      *)
(* Handlers find their connection through a weak pointer, except those of  *)
(* the timers, which are bound to the raw one.                             *)
(***************************************************************************)
EXTENDS Integers, Sequences, FiniteSets, SequencesExt

CONSTANTS
  Conns,     \* the sockets, in the order they are accepted
  Arrivals,  \* bound: kind of listener, slots -> how many of them arrive
  Expiring   \* bound: the kinds of listener and slots with which timers expire

\* The mutex of the list is not one of the connections.
ASSUME ConnsAssumption ==
  /\ Conns \in Seq(Range(Conns)) /\ "clients_lock_" \notin Range(Conns)
  /\ Arrivals \in [{"impl", "ssl", "pipe"} \X {"throws", "lists"} -> 0..Len(Conns)]

Io == {"io1", "io2"}
Threads == Io \cup {"user"}
Nobody == "nobody"
Members == Range(Conns)
List == "clients_lock_"

VARIABLES
  kind,          \* the listener: "impl" (tcp, unix-local), "ssl" or "pipe"
  slot,          \* what the user's slots may do: "throws" or "lists"
  con,           \* connection -> its state
  clients_,      \* the connections in the list
  client_count_, \* clients_count( ) of the listener, an atomic size_t
  job,           \* thread -> the steps it has still to do
  held,          \* mutex -> the thread that holds it
  cast,          \* the broadcast: who had it, how it ended
  all            \* history: stop_all_clients was called

vars == <<kind, slot, con, clients_, client_count_, job, held, cast, all>>

NewConnection ==
  [made |-> FALSE, announced |-> FALSE, thrown |-> FALSE,
   closed |-> FALSE, stops |-> 0,
   shaken |-> FALSE,      \* ready_ of the handshake
   switched |-> FALSE,    \* switch_to_ready: messages are calls from now on
   ready |-> FALSE,       \* ready_ of the protocol layer: active( )
   hello |-> "no",        \* the first write: "posted", "sent", "done" or "lost"
   bye |-> FALSE,         \* the write of send_and_close is posted
   reading |-> FALSE, everRead |-> FALSE,
   timer |-> "off",       \* of the protocol's handshake: "armed", "due" (its
                          \* handler is queued) or "off"
   tlsTimer |-> "off",    \* of the TLS handshake
   tls |-> "no",          \* the TLS handshake: "pending", "done"
   late |-> {},           \* history: the handshakes that were not done when
                          \* their timers expired
   ousted |-> {}]         \* history: the timers that had it closed

Init ==
  /\ kind \in {"impl", "ssl", "pipe"}
  /\ slot \in {"throws", "lists"} /\ (slot = "lists" => kind = "impl")
  /\ con = [c \in Members |-> NewConnection]
  /\ clients_ = {} /\ client_count_ = 0
  /\ job = [t \in Threads |-> <<>>]
  /\ held = [l \in {List} \cup Members |-> Nobody]
  /\ cast = [state |-> "no", sender |-> Nobody, got |-> {}, steady |-> {}]
  /\ all = FALSE

Op(op, c) == [op |-> op, c |-> c]
Idle(t) == job[t] = <<>>

\* The threads of the io_service are alike: a handler is given to io2 only when
\* io1 is busy.
Free(t) == Idle(t) /\ (t = "io2" => ~Idle("io1"))
At(t, op) == ~Idle(t) /\ Head(job[t]).op = op
Of(t) == Head(job[t]).c
Does(t, steps) == job' = [job EXCEPT ![t] = steps]
Then(t, steps) == Does(t, steps \o Tail(job[t]))

\* A shared pointer keeps c: the list, a handler that locked its weak pointer,
\* a broadcast from it, a write that is posted.  (A timer is not one, nor is the
\* handler of one.)
Alive(c) ==
  \/ c \in clients_
  \/ \E t \in Threads : \E i \in DOMAIN job[t] : job[t][i].c = c /\ job[t][i].op # "expel"
  \/ ~Idle("user") /\ cast.sender = c
  \/ con[c].hello = "posted" \/ con[c].bye

------------------------------------------------------------------------------
(* on_accept                                                                *)

\* The connection is made.  connection_setup asks the socket for its remote
\* endpoint and may throw: the connection is given up before it is stored.
on_accept(t) ==
  /\ Free(t)
  /\ \E i \in 1..Arrivals[<<kind, slot>>] :
       /\ ~con[Conns[i]].made /\ \A j \in 1..(i - 1) : con[Conns[j]].made
       /\ con' = [con EXCEPT ![Conns[i]].made = TRUE]
       /\ \/ Does(t, <<Op("store", Conns[i]), Op("new", Conns[i])>>)
          \/ kind # "pipe" /\ UNCHANGED job
  /\ UNCHANGED <<kind, slot, clients_, client_count_, held, cast, all>>

store(t) ==
  /\ At(t, "store") /\ held[List] = Nobody
  /\ clients_' = clients_ \cup {Of(t)}
  /\ Then(t, <<>>)
  /\ UNCHANGED <<kind, slot, con, client_count_, held, cast, all>>

\* new_connection counts and runs the slots of on_new_connection; one may
\* throw, and the catch of on_accept drops the connection, without closing it
\* (the pipe's does nothing).  Then init.
new_connection(t) ==
  /\ At(t, "new")
  /\ client_count_' = client_count_ + 1
  /\ \/ /\ con' = [con EXCEPT ![Of(t)].announced = TRUE]
        /\ Then(t, IF kind = "ssl" THEN <<Op("arm_tls", Of(t)), Op("tls", Of(t))>>
                                   ELSE <<Op("hello", Of(t)), Op("arm", Of(t))>>)
     \/ /\ slot = "throws"
        /\ con' = [con EXCEPT ![Of(t)].announced = TRUE, ![Of(t)].thrown = TRUE]
        /\ Then(t, IF kind = "pipe" THEN <<>> ELSE <<Op("drop", Of(t))>>)
  /\ UNCHANGED <<kind, slot, clients_, held, cast, all>>

\* init of the protocol writes the first message ...
hello(t) ==
  /\ At(t, "hello")
  /\ con' = [con EXCEPT ![Of(t)].hello = "posted"]
  /\ Then(t, <<>>)
  /\ UNCHANGED <<kind, slot, clients_, client_count_, held, cast, all>>

\* ... and then arms the init timer: the client may be ready by then.
arm(t) ==
  /\ At(t, "arm")
  /\ con' = [con EXCEPT ![Of(t)].timer = "armed"]
  /\ Then(t, <<>>)
  /\ UNCHANGED <<kind, slot, clients_, client_count_, held, cast, all>>

\* init of the TLS connection arms its own timer, of five seconds, and starts
\* the TLS handshake.
arm_tls(t) ==
  /\ At(t, "arm_tls")
  /\ con' = [con EXCEPT ![Of(t)].tlsTimer = "armed"]
  /\ Then(t, <<>>)
  /\ UNCHANGED <<kind, slot, clients_, client_count_, held, cast, all>>

tls(t) ==
  /\ At(t, "tls")
  /\ con' = [con EXCEPT ![Of(t)].tls = "pending"]
  /\ Then(t, <<>>)
  /\ UNCHANGED <<kind, slot, clients_, client_count_, held, cast, all>>

------------------------------------------------------------------------------
(* The handlers of a connection.                                            *)

\* cancel takes back a timer that is armed, not one whose handler is queued.
Cancelled(timer) == IF timer = "armed" THEN "off" ELSE timer

\* Mutant: the timer of the TLS handshake is not cancelled.
ssl_handshake_handler_armed(t, c) ==
  /\ Free(t) /\ con[c].tls = "pending" /\ Alive(c)
  /\ con' = [con EXCEPT ![c].tls = "done"]
  /\ \/ ~con[c].closed /\ Does(t, <<Op("hello", c), Op("arm", c)>>)
     \/ Does(t, <<Op("close", c)>>)
  /\ UNCHANGED <<kind, slot, clients_, client_count_, held, cast, all>>

\* ssl_handshake_handler cancels that timer; init_success of the protocol is
\* its init, or the transport is closed.
ssl_handshake_handler(t, c) ==
  /\ Free(t) /\ con[c].tls = "pending" /\ Alive(c)
  /\ con' = [con EXCEPT ![c].tls = "done", ![c].tlsTimer = Cancelled(@)]
  /\ \/ ~con[c].closed /\ Does(t, <<Op("hello", c), Op("arm", c)>>)
     \/ Does(t, <<Op("close", c)>>)
  /\ UNCHANGED <<kind, slot, clients_, client_count_, held, cast, all>>

\* write_impl of the first message: nothing is written to a closed transport,
\* and its closure is never run.
write_impl(c) ==
  /\ con[c].hello = "posted"
  /\ con' = [con EXCEPT ![c].hello = IF con[c].closed THEN "lost" ELSE "sent"]
  /\ UNCHANGED <<kind, slot, clients_, client_count_, job, held, cast, all>>

\* write_handler: the closure starts the reading, whether the write failed or
\* not; an error closes.
write_handler(t, c) ==
  /\ Free(t) /\ con[c].hello = "sent" /\ Alive(c)
  /\ con' = [con EXCEPT ![c].hello = "done", ![c].reading = TRUE, ![c].everRead = TRUE]
  /\ \/ ~con[c].closed /\ UNCHANGED job
     \/ Does(t, <<Op("close", c)>>)
  /\ UNCHANGED <<kind, slot, clients_, client_count_, held, cast, all>>

\* read_handler with data that ends the handshake: set_client_ready cancels the
\* init timer, ...
set_client_ready(t, c) ==
  /\ Free(t) /\ con[c].reading /\ ~con[c].closed /\ ~con[c].switched /\ Alive(c)
  /\ con' = [con EXCEPT ![c].reading = FALSE, ![c].timer = Cancelled(@)]
  /\ Does(t, <<Op("shake", c), Op("publish", c)>>)
  /\ UNCHANGED <<kind, slot, clients_, client_count_, held, cast, all>>

\* ... configures the session and sets ready_ of the handshake.
shake(t) ==
  /\ At(t, "shake")
  /\ con' = [con EXCEPT ![Of(t)].shaken = TRUE]
  /\ Then(t, <<>>)
  /\ UNCHANGED <<kind, slot, clients_, client_count_, held, cast, all>>

\* do_handshake looks at it again and makes the protocol ready; the next read.
do_handshake(t) ==
  /\ At(t, "publish")
  /\ con' = [con EXCEPT ![Of(t)].switched = con[Of(t)].shaken, ![Of(t)].ready = con[Of(t)].shaken,
                        ![Of(t)].reading = TRUE]
  /\ Then(t, <<>>)
  /\ UNCHANGED <<kind, slot, clients_, client_count_, held, cast, all>>

\* read_handler with a message that does not parse: close, and read on.
get_pop_message(t, c) ==
  /\ Free(t) /\ con[c].reading /\ ~con[c].closed /\ Alive(c)
  /\ Does(t, <<Op("close", c)>>)
  /\ UNCHANGED <<kind, slot, con, clients_, client_count_, held, cast, all>>

\* Mutant: the connection is closed and not dropped.
read_handler_close(t, c) ==
  /\ Free(t) /\ con[c].reading /\ Alive(c)
  /\ con' = [con EXCEPT ![c].reading = FALSE, ![c].ready = FALSE]
  /\ Does(t, <<Op("close", c)>>)
  /\ UNCHANGED <<kind, slot, clients_, client_count_, held, cast, all>>

\* Mutant: the connection is dropped and not closed.
read_handler_drop(t, c) ==
  /\ Free(t) /\ con[c].reading /\ Alive(c)
  /\ con' = [con EXCEPT ![c].reading = FALSE, ![c].ready = FALSE]
  /\ Does(t, <<Op("drop", c)>>)
  /\ UNCHANGED <<kind, slot, clients_, client_count_, held, cast, all>>

\* read_handler with an error, or an exception of process_data: on_read_error
\* and close_drop.
read_handler(t, c) ==
  /\ Free(t) /\ con[c].reading /\ Alive(c)
  /\ con' = [con EXCEPT ![c].reading = FALSE, ![c].ready = FALSE]
  /\ Does(t, <<Op("close", c), Op("drop", c)>>)
  /\ UNCHANGED <<kind, slot, clients_, client_count_, held, cast, all>>

\* A timer expires.  The timers of a connection that was freed are cancelled.
Expire(c) ==
  /\ Alive(c) /\ <<kind, slot>> \in Expiring
  /\ \/ /\ con[c].timer = "armed"
        /\ con' = [con EXCEPT ![c].timer = "due",
                              ![c].late = IF con[c].shaken THEN @ ELSE @ \cup {"init"}]
     \/ /\ con[c].tlsTimer = "armed"
        /\ con' = [con EXCEPT ![c].tlsTimer = "due",
                              ![c].late = IF con[c].tls = "done" THEN @ ELSE @ \cup {"tls"}]
  /\ UNCHANGED <<kind, slot, clients_, client_count_, job, held, cast, all>>

\* Mutant: on_init_timeout does not look at ready_.
on_init_timeout_blind(t, c) ==
  /\ Free(t) /\ con[c].timer = "due"
  /\ con' = [con EXCEPT ![c].timer = "off"]
  /\ Does(t, IF Alive(c) THEN <<Op("expel", c)>> ELSE <<>>)
  /\ UNCHANGED <<kind, slot, clients_, client_count_, held, cast, all>>

\* on_init_timeout of the protocol: a client whose handshake is not over ...
\* (The handler has the raw pointer: of a connection that was freed it reads
\* what is there, and nothing is said of it here.)
on_init_timeout(t, c) ==
  /\ Free(t) /\ con[c].timer = "due"
  /\ con' = [con EXCEPT ![c].timer = "off"]
  /\ Does(t, IF Alive(c) /\ ~con[c].shaken THEN <<Op("expel", c)>> ELSE <<>>)
  /\ UNCHANGED <<kind, slot, clients_, client_count_, held, cast, all>>

\* ... is sent the error, and closed once that is written; it may have become
\* ready in between.
send_and_close(t) ==
  /\ At(t, "expel")
  /\ con' = IF Alive(Of(t))
              THEN [con EXCEPT ![Of(t)].bye = TRUE, ![Of(t)].ousted = @ \cup {"init"}]
              ELSE con
  /\ Then(t, <<>>)
  /\ UNCHANGED <<kind, slot, clients_, client_count_, held, cast, all>>

\* on_init_timeout of the TLS connection: close, without looking at anything.
on_init_timeout_ssl(t, c) ==
  /\ Free(t) /\ con[c].tlsTimer = "due"
  /\ con' = IF Alive(c) THEN [con EXCEPT ![c].tlsTimer = "off", ![c].ousted = @ \cup {"tls"}]
                         ELSE [con EXCEPT ![c].tlsTimer = "off"]
  /\ Does(t, IF Alive(c) THEN <<Op("close", c)>> ELSE <<>>)
  /\ UNCHANGED <<kind, slot, clients_, client_count_, held, cast, all>>

\* close_client, the closure of send_and_close; a closed transport writes
\* nothing, and neither does one whose first write never ends.
close_client(t, c) ==
  /\ Free(t) /\ con[c].bye
  /\ con[c].hello \in {"done", "lost"} \/ con[c].closed
  /\ con' = [con EXCEPT ![c].bye = FALSE, ![c].shaken = @ /\ con[c].closed]
  /\ Does(t, IF con[c].closed THEN <<>> ELSE <<Op("close", c)>>)
  /\ UNCHANGED <<kind, slot, clients_, client_count_, held, cast, all>>

------------------------------------------------------------------------------
(* close, under close_lock_, and drop, under clients_lock_.                 *)

\* Mutant: the lock is kept while the connection is dropped.
close_and_drop(t) ==
  /\ At(t, "close") /\ held[Of(t)] = Nobody
  /\ IF con[Of(t)].closed
       THEN Then(t, <<>>) /\ UNCHANGED <<con, client_count_, held>>
       ELSE /\ con' = [con EXCEPT ![Of(t)].closed = TRUE, ![Of(t)].stops = @ + 1]
            /\ client_count_' = client_count_ - 1
            /\ held' = [held EXCEPT ![Of(t)] = t]
            /\ Then(t, <<Op("drop", Of(t)), Op("handle", Of(t))>>)
  /\ UNCHANGED <<kind, slot, clients_, cast, all>>

\* Mutant: closed_ is not tested.
close_again(t) ==
  /\ At(t, "close") /\ held[Of(t)] = Nobody
  /\ con' = [con EXCEPT ![Of(t)].closed = TRUE, ![Of(t)].stops = @ + 1]
  /\ client_count_' = client_count_ - 1
  /\ held' = [held EXCEPT ![Of(t)] = t]
  /\ Then(t, <<Op("handle", Of(t))>>)
  /\ UNCHANGED <<kind, slot, clients_, cast, all>>

\* closed_ is set; on_close cancels the slots of the protocol, and
\* on_client_destroy has the listener count down and run on_stop_connection.
close(t) ==
  /\ At(t, "close") /\ held[Of(t)] = Nobody
  /\ IF con[Of(t)].closed
       THEN Then(t, <<>>) /\ UNCHANGED <<con, client_count_, held>>
       ELSE /\ con' = [con EXCEPT ![Of(t)].closed = TRUE, ![Of(t)].stops = @ + 1]
            /\ client_count_' = client_count_ - 1
            /\ held' = [held EXCEPT ![Of(t)] = t]
            /\ Then(t, IF slot = "lists" THEN <<Op("on_stop", Of(t)), Op("handle", Of(t))>>
                                         ELSE <<Op("handle", Of(t))>>)
  /\ UNCHANGED <<kind, slot, clients_, cast, all>>

\* A slot of on_stop_connection that uses the list, to tell the others.
on_stop_connection(t) ==
  /\ At(t, "on_stop") /\ held[List] = Nobody
  /\ Then(t, <<>>)
  /\ UNCHANGED <<kind, slot, con, clients_, client_count_, held, cast, all>>

\* close_handle: what is pending on the socket ends with an error.
close_handle(t) ==
  /\ At(t, "handle")
  /\ held' = [held EXCEPT ![Of(t)] = Nobody]
  /\ Then(t, <<>>)
  /\ UNCHANGED <<kind, slot, con, clients_, client_count_, cast, all>>

drop(t) ==
  /\ At(t, "drop") /\ held[List] = Nobody
  /\ clients_' = clients_ \ {Of(t)}
  /\ Then(t, <<>>)
  /\ UNCHANGED <<kind, slot, con, client_count_, held, cast, all>>

------------------------------------------------------------------------------
(* The user: stop_all_clients or a broadcast; both walk the list.           *)

\* The walk calls op for every connection in the list, under clients_lock_, in
\* the order of their addresses: any order.
foreach_while(op, t) ==
  /\ Idle(t) /\ held[List] = Nobody
  /\ held' = [held EXCEPT ![List] = t]
  /\ \E walk \in SetToSeqs(clients_) :
       Does(t, [i \in DOMAIN walk |-> Op(op, walk[i])] \o <<Op("unlist", List)>>)

stop_all_clients ==
  /\ ~all /\ cast.state = "no"
  /\ foreach_while("close", "user")
  /\ all' = TRUE
  /\ UNCHANGED <<kind, slot, con, clients_, client_count_, cast>>

unlist(t) ==
  /\ At(t, "unlist")
  /\ held' = [held EXCEPT ![List] = Nobody]
  /\ cast' = IF cast.state = "on" THEN [cast EXCEPT !.state = "sent"] ELSE cast
  /\ Does(t, <<>>)
  /\ UNCHANGED <<kind, slot, con, clients_, client_count_, all>>

\* send_message of a channel, which may have a sender; it is locked for the walk
\* if it is still there.
broadcast ==
  /\ cast.state = "no" /\ ~all
  /\ foreach_while("test", "user")
  /\ \E c \in {d \in Members : con[d].announced /\ Alive(d)} \cup {Nobody} :
       cast' = [state |-> "on", sender |-> c, got |-> {}, steady |-> {d \in clients_ : con[d].ready}]
  /\ UNCHANGED <<kind, slot, con, clients_, client_count_, all>>

\* Mutant: a client that is not active ends the walk.
send_to_client_stop(t) ==
  /\ At(t, "test")
  /\ IF con[Of(t)].ready THEN Then(t, <<Op("send", Of(t))>>)
                         ELSE Does(t, <<Op("unlist", List)>>)
  /\ UNCHANGED <<kind, slot, con, clients_, client_count_, held, cast, all>>

\* Mutant: the sender is sent it too.
send_to_client_all(t) ==
  /\ At(t, "test")
  /\ Then(t, IF con[Of(t)].ready THEN <<Op("send", Of(t))>> ELSE <<>>)
  /\ UNCHANGED <<kind, slot, con, clients_, client_count_, held, cast, all>>

\* send_to_client: the clients that are active are called, except the sender ...
send_to_client(t) ==
  /\ At(t, "test")
  /\ Then(t, IF Of(t) # cast.sender /\ con[Of(t)].ready THEN <<Op("send", Of(t))>> ELSE <<>>)
  /\ UNCHANGED <<kind, slot, con, clients_, client_count_, held, cast, all>>

\* ... and call_rpc_method raises if ready_ was reset since: the exception ends
\* the walk and reaches the caller.
call_rpc_method(t) ==
  /\ At(t, "send")
  /\ IF con[Of(t)].ready
       THEN cast' = [cast EXCEPT !.got = @ \cup {Of(t)}] /\ Then(t, <<>>)
       ELSE cast' = [cast EXCEPT !.state = "raised"] /\ Does(t, <<Op("unlist", List)>>)
  /\ UNCHANGED <<kind, slot, con, clients_, client_count_, held, all>>

------------------------------------------------------------------------------
\* What a thread of the io_service may take up.
Handle(t, c) ==
  \/ ssl_handshake_handler(t, c) \/ write_handler(t, c)
  \/ set_client_ready(t, c) \/ get_pop_message(t, c) \/ read_handler(t, c)
  \/ on_init_timeout(t, c) \/ on_init_timeout_ssl(t, c) \/ close_client(t, c)

\* The next step of what a thread does.
Go(t) ==
  \/ store(t) \/ new_connection(t) \/ hello(t) \/ arm(t) \/ arm_tls(t) \/ tls(t)
  \/ shake(t) \/ do_handshake(t) \/ send_and_close(t)
  \/ close(t) \/ on_stop_connection(t) \/ close_handle(t) \/ drop(t)
  \/ unlist(t) \/ send_to_client(t) \/ call_rpc_method(t)

Next ==
  \/ \E t \in Io : on_accept(t)
  \/ \E t \in Io : \E c \in Members : Handle(t, c)
  \/ \E t \in Threads : Go(t)
  \/ \E c \in Members : write_impl(c) \/ Expire(c)
  \/ stop_all_clients \/ broadcast

\* Threads go on, and the io_service runs the handlers of what must complete:
\* a posted write, a write, and a read of a closed socket.
Fairness ==
  /\ \A t \in Threads : WF_vars(Go(t))
  /\ \A c \in Members :
       /\ WF_vars(write_impl(c))
       /\ WF_vars(\E t \in Io : write_handler(t, c))
       /\ WF_vars(con[c].closed /\ \E t \in Io : read_handler(t, c))

Spec == Init /\ [][Next]_vars /\ Fairness

------------------------------------------------------------------------------
Quiet == \A t \in Threads : Idle(t)

\* At rest, clients_count( ) is the number of connections in the list that are
\* not closed, and one more for each whose slot threw and was dropped without
\* being closed.  It falls below zero only between store and new_connection,
\* when stop_all_clients closes what is not yet counted.
CountFollowsList ==
  /\ Quiet => client_count_ = Cardinality({c \in clients_ : ~con[c].closed})
                 + Cardinality({c \in Members : con[c].thrown /\ ~con[c].closed /\ c \notin clients_})
  /\ client_count_ < 0 => all

\* A connection is announced as stopped at most once, and only after it was
\* announced as new unless stop_all_clients closed it.  (close, stop_connection)
StoppedOnce ==
  \A c \in Members :
    con[c].stops <= 1 /\ (con[c].stops = 1 /\ ~con[c].announced => all)

\* No set of threads waits for each other's mutexes, as long as no slot of
\* on_stop_connection uses the list: close holds close_lock_ while the slot
\* runs, and stop_all_clients holds clients_lock_ while it closes.
Waits(t, u) ==
  \/ t # u /\ At(t, "close") /\ held[Of(t)] = u
  \/ (At(t, "store") \/ At(t, "drop") \/ At(t, "on_stop")) /\ held[List] = u
NoCircularWait ==
  slot # "lists" =>
    \A W \in (SUBSET Threads) \ {{}} : \E t \in W : \A u \in W : ~Waits(t, u)

\* A timer has a connection closed only if the handshake it watches was not over
\* when it expired: a client that finished in time is never expelled, although
\* the init timer may be armed after its client is ready, cancel does not reach
\* a handler that is queued, and the handler of the TLS timer looks at nothing.
\* (on_init_timeout, set_client_ready, ssl_handshake_handler)
OnlyLateOusted == \A c \in Members : con[c].ousted \subseteq con[c].late

\* A broadcast that did not raise was sent to every client other than its sender
\* that was ready when it began and is ready still, and never to its sender.
\* (foreach_while, send_to_client)
BroadcastReaches ==
  /\ cast.state = "sent" => \A c \in cast.steady \ {cast.sender} : c \in cast.got \/ ~con[c].ready
  /\ cast.sender \notin cast.got

\* A closed connection leaves the list, if the server ever began to read from
\* it; nothing else takes one out.
ClosedLeavesList ==
  \A c \in Members :
    slot # "lists" => (con[c].closed /\ con[c].everRead) ~> (c \notin clients_)

\* The number of clients and the signals of a listener follow the list of its
\* connections.  (new_connection, stop_connection, drop)
ListAccounted == CountFollowsList /\ StoppedOnce
===============================================================================
