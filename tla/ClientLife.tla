------------------------------ MODULE ClientLife ------------------------------
(***************************************************************************)
(* The connections of one client over several connects: lib/vtrc/client,   *)
(* client.cpp and base.cpp with the transports tcp, ssl, unix-local,       *)
(* win-pipe and posix-stream.                                              *)
(*                                                                         *)
(* A connect makes a new connection object and puts it into connection_,   *)
(* which gives up the old one.  Objects are kept by shared pointers: by    *)
(* connection_, by the frame of the call that made them and by the handler *)
(* of an unfinished async_connect.  The handler of a pending read keeps    *)
(* nothing: it is bound to the raw connection and asks only whether the    *)
(* client is still there.  This module follows who keeps what, and which   *)
(* handlers touch an object that is gone.                                  *)
(*                                                                         *)
(* How connect_impl waits is module ClientConnect; the handshake is        *)
(* Handshake.                                                              *)
(***************************************************************************)
EXTENDS Naturals, FiniteSets

CONSTANT MaxConns   \* bound: connections one client makes

Kinds == {"tcp", "ssl", "local", "pipe", "posix", "custom"}
Conns == 1..MaxConns
None == 0

VARIABLES
  client,      \* the vtrc_client exists
  connection_, \* impl::connection_
  made,        \* the connections made so far are 1..made
  kind,        \* connection -> transport
  keep,        \* connection -> the frames and handlers that keep it
  socket,      \* connection -> "idle", "open" or "closed"
  ready,       \* the connections whose protocol is ready
  told,        \* the connections whose handshake reported its end
  reads,       \* the connections with a read pending
  ops,         \* <<connection, stage>>: unfinished async connects
  call,        \* the user's call: [does, on]
  closures,    \* connection -> calls of the closure of its async_connect
  dangling,    \* history: <<connection, handler>> that touched a freed object
  replaced,    \* history: connections given up by reset_connection
  blamed       \* history: connections whose failure ended the connect of another

vars == <<client, connection_, made, kind, keep, socket, ready, told, reads, ops,
          call, closures, dangling, replaced, blamed>>

History == <<dangling, replaced, blamed>>
NoCall == [does |-> "nothing", on |-> None]

Init ==
  /\ client = TRUE /\ connection_ = None /\ made = 0
  /\ kind = [n \in Conns |-> "tcp"]
  /\ keep = [n \in Conns |-> {}]
  /\ socket = [n \in Conns |-> "idle"]
  /\ ready = {} /\ told = {} /\ reads = {} /\ ops = {}
  /\ call = NoCall /\ closures = [n \in Conns |-> 0]
  /\ dangling = {} /\ replaced = {} /\ blamed = {}

\* The object exists: somebody keeps it.
Alive(n) == keep[n] # {} \/ (client /\ connection_ = n)
Idle == call = NoCall /\ client
Returns == call' = NoCall
Lets(n, who) == keep' = [keep EXCEPT ![n] = @ \ {who}]

------------------------------------------------------------------------------
(* What the handlers and calls are made of.                                 *)

\* on_init_error of the client runs every slot that is subscribed: one of them
\* may belong to a connect that waits for another connection.
InitError(n) ==
  IF call.does = "wait"
    THEN call' = [call EXCEPT !.does = "failed"]
         /\ blamed' = IF call.on = n THEN blamed ELSE blamed \cup {n}
    ELSE UNCHANGED <<call, blamed>>

\* transport close and protocol_layer_c::close: a handshake that was not over
\* reports it.  Only the first close does anything.
close(n) ==
  /\ socket' = [socket EXCEPT ![n] = "closed"]
  /\ ready' = ready \ {n}
  /\ told' = told \cup {n}
  /\ IF n \in told \/ socket[n] = "closed" THEN UNCHANGED <<call, blamed>> ELSE InitError(n)

\* connection_setup and start_reading.
Opens(n) == socket' = [socket EXCEPT ![n] = "open"] /\ reads' = reads \cup {n}

------------------------------------------------------------------------------
(* The user's calls.                                                        *)

\* create_client of any kind, with init of the protocol; ssl may fail to load
\* its file first.  open makes an object that only its frame keeps.
create_client(k, does) ==
  /\ Idle /\ made < MaxConns /\ k # "custom" /\ (k = "posix" => does = "connect")
  /\ LET n == made + 1 IN
     /\ made' = n
     /\ kind' = [kind EXCEPT ![n] = k]
     /\ keep' = [keep EXCEPT ![n] = {"frame"}]
     /\ IF k = "posix" THEN UNCHANGED <<connection_, replaced>>
          ELSE connection_' = n /\ replaced' = replaced \cup ({connection_} \ {None})
     /\ call' = [does |-> does, on |-> n]
  /\ UNCHANGED <<client, socket, ready, told, reads, ops, closures, dangling, blamed>>

\* init_protocol for a transport of the user's own, which the user keeps.
init_protocol ==
  /\ Idle /\ made < MaxConns
  /\ made' = made + 1
  /\ kind' = [kind EXCEPT ![made + 1] = "custom"]
  /\ keep' = [keep EXCEPT ![made + 1] = {"user"}]
  /\ connection_' = made + 1 /\ replaced' = replaced \cup ({connection_} \ {None})
  /\ UNCHANGED <<client, socket, ready, told, reads, ops, call, closures, dangling, blamed>>

\* The synchronous connect of a transport: it throws, and the dead connection
\* stays in connection_, or it opens and starts to read.
connect ==
  /\ call.does = "connect"
  /\ \/ /\ Returns /\ Lets(call.on, "frame") /\ UNCHANGED <<socket, reads>>
     \/ /\ Opens(call.on)
        /\ IF kind[call.on] = "posix" THEN Returns /\ Lets(call.on, "frame")
             ELSE call' = [call EXCEPT !.does = "wait"] /\ UNCHANGED keep
  /\ UNCHANGED <<client, connection_, made, kind, ready, told, ops, closures, History>>

\* connect_impl after its wait: ready, failed, or ten seconds are over.
connect_impl ==
  /\ call.does \in {"wait", "failed"}
  /\ Returns /\ Lets(call.on, "frame")
  /\ UNCHANGED <<client, connection_, made, kind, socket, ready, told, reads, ops, closures, History>>

\* Mutant: the handler does not keep the connection.
async_connect_raw ==
  /\ call.does = "async" /\ kind[call.on] # "pipe"
  /\ ops' = ops \cup {<<call.on, "connect">>}
  /\ Returns /\ Lets(call.on, "frame")
  /\ UNCHANGED <<client, connection_, made, kind, socket, ready, told, reads, closures, History>>

\* async_connect of the sockets: the handler keeps the connection.
async_connect ==
  /\ call.does = "async" /\ kind[call.on] # "pipe"
  /\ ops' = ops \cup {<<call.on, "connect">>}
  /\ keep' = [keep EXCEPT ![call.on] = {"handler"}]
  /\ Returns
  /\ UNCHANGED <<client, connection_, made, kind, socket, ready, told, reads, closures, History>>

\* async_connect of the pipe connects at once: it throws, and the closure is
\* never called, or calls the closure before it returns.
async_connect_pipe ==
  /\ call.does = "async" /\ kind[call.on] = "pipe"
  /\ Returns /\ Lets(call.on, "frame")
  /\ \/ UNCHANGED <<socket, reads, closures>>
     \/ Opens(call.on) /\ closures' = [closures EXCEPT ![call.on] = @ + 1]
  /\ UNCHANGED <<client, connection_, made, kind, ready, told, ops, History>>

\* disconnect: only a connection that is ready is closed.
disconnect ==
  /\ Idle /\ connection_ \in ready
  /\ close(connection_)
  /\ UNCHANGED <<client, connection_, made, kind, keep, reads, ops, closures, dangling, replaced>>

\* The user lets the client go; connection_ goes with it.
Destroy ==
  /\ Idle
  /\ client' = FALSE
  /\ UNCHANGED <<connection_, made, kind, keep, socket, ready, told, reads, ops, call, closures, History>>

------------------------------------------------------------------------------
(* The handlers.                                                            *)

\* async_connect_success: on_connect, or on_init_error, then the closure.  It
\* is bound to the raw impl of the client.
async_connect_success(n, ok) ==
  /\ closures' = [closures EXCEPT ![n] = @ + 1]
  /\ IF ok \/ ~client THEN UNCHANGED <<call, blamed>> ELSE InitError(n)

\* A handler that was bound to raw pointers runs: note the ones that are gone.
Touches(n, handler) ==
  dangling' = dangling \cup (IF Alive(n) THEN {} ELSE {<<n, handler>>})
                       \cup (IF client THEN {} ELSE {<<n, "client">>})

\* stream on_connect of tcp and local, and handle_handshake of ssl.
on_connect(n, stage, ok) ==
  /\ <<n, stage>> \in ops
  /\ (stage = "connect") = (kind[n] # "ssl")
  /\ ok => socket[n] = "idle"
  /\ ops' = ops \ {<<n, stage>>}
  /\ Lets(n, "handler")
  /\ Touches(n, "connect")
  /\ IF ok THEN Opens(n) ELSE UNCHANGED <<socket, reads>>
  /\ async_connect_success(n, ok)
  /\ UNCHANGED <<client, connection_, made, kind, ready, told, replaced>>

\* handle_connect of ssl: the TLS handshake follows.
handle_connect(n, ok) ==
  /\ <<n, "connect">> \in ops /\ kind[n] = "ssl"
  /\ Touches(n, "connect")
  /\ IF ok
       THEN ops' = (ops \ {<<n, "connect">>}) \cup {<<n, "handshake">>} /\ UNCHANGED <<keep, closures, call, blamed>>
       ELSE ops' = ops \ {<<n, "connect">>} /\ Lets(n, "handler") /\ async_connect_success(n, FALSE)
  /\ UNCHANGED <<client, connection_, made, kind, socket, ready, told, reads, replaced>>

\* read_handler without an error: the handshake may become ready, or the data
\* is refused with an exception and the connection closed.
read_handler(n) ==
  /\ n \in reads /\ Alive(n) /\ client /\ socket[n] = "open"
  /\ \/ n \notin told /\ ready' = ready \cup {n} /\ told' = told \cup {n} /\ UNCHANGED <<reads, socket, call, blamed>>
     \/ close(n) /\ reads' = reads \ {n}
  /\ UNCHANGED <<client, connection_, made, kind, keep, ops, closures, dangling, replaced>>

\* Mutant: the handler does not ask for the client.
read_handler_error_blind(n) ==
  /\ n \in reads
  /\ reads' = reads \ {n}
  /\ IF Alive(n) THEN close(n) /\ UNCHANGED dangling
       ELSE dangling' = dangling \cup {<<n, "read">>} /\ UNCHANGED <<socket, ready, told, call, blamed>>
  /\ UNCHANGED <<client, connection_, made, kind, keep, ops, closures, replaced>>

\* read_handler with an error: the peer is gone, the socket was closed, or the
\* object was destroyed and its socket with it.  Without the client the handler
\* touches nothing.
read_handler_error(n) ==
  /\ n \in reads
  /\ reads' = reads \ {n}
  /\ \/ ~client /\ UNCHANGED <<socket, ready, told, call, blamed, dangling>>
     \/ client /\ Alive(n) /\ close(n) /\ UNCHANGED dangling
     \/ /\ client /\ ~Alive(n)
        /\ dangling' = dangling \cup {<<n, "read">>}
        /\ UNCHANGED <<socket, ready, told, call, blamed>>
  /\ UNCHANGED <<client, connection_, made, kind, keep, ops, closures, replaced>>

Handlers(n) ==
  \/ \E ok \in BOOLEAN, stage \in {"connect", "handshake"} : on_connect(n, stage, ok)
  \/ \E ok \in BOOLEAN : handle_connect(n, ok)
  \/ read_handler(n)
  \/ (socket[n] # "open" \/ ~Alive(n)) /\ read_handler_error(n)

UserSteps == connect \/ connect_impl \/ async_connect \/ async_connect_pipe

Next ==
  \/ \E k \in Kinds, does \in {"connect", "async"} : create_client(k, does)
  \/ init_protocol \/ disconnect \/ Destroy \/ UserSteps
  \/ \E n \in Conns : Handlers(n) \/ read_handler_error(n)

\* Calls go on and completed operations are run; a peer need not answer or
\* fail, but every pending connect ends.
Fairness ==
  /\ WF_vars(UserSteps)
  /\ \A n \in Conns : WF_vars(Handlers(n))

Spec == Init /\ [][Next]_vars /\ Fairness

------------------------------------------------------------------------------
(* Properties.                                                              *)

\* A handler touches a freed object in three cases only: the read of a
\* connection that another connect has replaced, the read of a connection that
\* open made and nobody keeps, and an async_connect that outlives the client.
\* (start_reading, async_connect_success)
FreedTouched ==
  \A d \in dangling :
    \/ d[2] = "read" /\ (d[1] \in replaced \/ kind[d[1]] = "posix")
    \/ d[2] = "client" /\ ~client

\* A connect is ended by the failure of another connection only if that one is
\* an async_connect that it replaced before it was finished; and no closure is
\* called twice.  (on_init_error)
OthersBlamed ==
  /\ \A n \in blamed : n \in replaced /\ closures[n] = 1
  /\ \A n \in Conns : closures[n] <= 1

Connecting(n) == \E s \in {"connect", "handshake"} : <<n, s>> \in ops
Told(n) == closures[n] = 1

\* The closure of an async_connect that has begun is called.  (async_connect, async_connect_success)
AsyncIsTold == \A n \in Conns : Connecting(n) ~> Told(n)
===============================================================================
