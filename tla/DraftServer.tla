----------------------------- MODULE DraftServer -----------------------------
(***************************************************************************)
(* The chat server of src/draft: what a client sends is written to every   *)
(* client.  One thread runs all handlers; a point (async-transport-point)  *)
(* queues its messages and writes them with async_write_some, which may    *)
(* take a part only.                                                       *)
(*                                                                         *)
(* The slots of a point's own signals keep it alive, so a point that ended *)
(* stays connected to g_read_signal and is written to for ever; a write    *)
(* error leaves the message at the head of the queue, and nothing behind it*)
(* is ever written.  remote_endpoint, asked for what is printed, throws for*)
(* a connection that was reset, and the exception ends the program.        *)
(***************************************************************************)
EXTENDS Naturals, Sequences, FiniteSets, SequencesExt

CONSTANTS
  MaxMessages,   \* bound: messages posted to the points
  Size           \* bound: bytes of a message

Points == {"p1", "p2"}
Bytes == 1..Size

VARIABLES
  server,        \* "accepts" (an async_accept is pending), "deaf" or "ended"
  socket,        \* point -> "none", "open", "broken" or "closed"
  reading,       \* points with a read that is pending
  active_,       \* point -> its close was not executed
  connections,   \* the set of the server
  slots,         \* points connected to g_read_signal
  strand,        \* point -> tasks posted to write_dispatcher_
  write_queue_,  \* point -> messages, the one being written first
  total,         \* point -> bytes of the first message that are written
  writing,       \* points with an async_write_some that is pending
  wire,          \* point -> bytes its client received: <<message, byte>>
  log            \* history: point -> messages posted to it

vars == <<server, socket, reading, active_, connections, slots, strand, write_queue_, total,
          writing, wire, log>>

Init ==
  /\ server = "accepts" /\ socket = [p \in Points |-> "none"] /\ reading = {}
  /\ active_ = [p \in Points |-> TRUE] /\ connections = {} /\ slots = {}
  /\ strand = [p \in Points |-> <<>>] /\ write_queue_ = [p \in Points |-> <<>>]
  /\ total = [p \in Points |-> 0] /\ writing = {} /\ wire = [p \in Points |-> <<>>]
  /\ log = [p \in Points |-> <<>>]

Said == Len(log["p1"]) + Len(log["p2"])

------------------------------------------------------------------------------
(* Connections.                                                             *)

\* accept_handle: the point reads and is connected to the signal, and the next
\* accept begins; the last line asks for the endpoint, which may be gone.
accept_handle(p) ==
  /\ server = "accepts" /\ socket[p] = "none"
  /\ \/ socket' = [socket EXCEPT ![p] = "open"] /\ UNCHANGED server
     \/ socket' = [socket EXCEPT ![p] = "broken"] /\ server' = "ended"
  /\ reading' = reading \cup {p}
  /\ connections' = connections \cup {p} /\ slots' = slots \cup {p}
  /\ strand' = [strand EXCEPT ![p] = Append(@, "set_transformer")]
  /\ UNCHANGED <<active_, write_queue_, total, writing, wire, log>>

\* An error ends the accepting.
accept_fails ==
  /\ server = "accepts" /\ server' = "deaf"
  /\ UNCHANGED <<socket, reading, active_, connections, slots, strand, write_queue_, total, writing, wire, log>>

\* The client goes away.
Breaks(p) ==
  /\ socket[p] = "open"
  /\ socket' = [socket EXCEPT ![p] = "broken"]
  /\ UNCHANGED <<server, reading, active_, connections, slots, strand, write_queue_, total, writing, wire, log>>

\* read_handler with data: on_client_read emits g_read_signal, whose slots post
\* a write on every point; then the next read.  The data may have come before
\* the client went away.
read_handler(p) ==
  /\ p \in reading /\ socket[p] \in {"open", "broken"} /\ Said < MaxMessages
  /\ strand' = [q \in Points |-> IF q \in slots THEN Append(strand[q], "write") ELSE strand[q]]
  /\ log' = [q \in Points |-> IF q \in slots THEN Append(log[q], p) ELSE log[q]]
  /\ UNCHANGED <<server, socket, reading, active_, connections, slots, write_queue_, total, writing, wire>>

\* on_client_read and on_error ask for the endpoint first: if the connection was
\* reset, remote_endpoint throws through read_handler, run_ios and into main.
remote_endpoint_throws(p) ==
  /\ p \in reading /\ socket[p] = "broken"
  /\ server' = "ended"
  /\ UNCHANGED <<socket, reading, active_, connections, slots, strand, write_queue_, total, writing, wire, log>>

\* read_handler with an error: on_error posts the close and takes the point out
\* of the set.
on_error(p) ==
  /\ p \in reading /\ socket[p] = "broken"
  /\ reading' = reading \ {p}
  /\ strand' = [strand EXCEPT ![p] = Append(@, "close")]
  /\ connections' = connections \ {p}
  /\ UNCHANGED <<server, socket, active_, slots, write_queue_, total, writing, wire, log>>

------------------------------------------------------------------------------
(* The strand of a point.                                                   *)

Task(p, task) == strand[p] # <<>> /\ Head(strand[p]) = task
Done(p) == strand' = [strand EXCEPT ![p] = Tail(@)]
\* The message that a write task carries: the first that is not queued yet.
Posted(p) == log[p][Len(log[p]) - Cardinality({i \in DOMAIN strand[p] : strand[p][i] = "write"}) + 1]

\* Mutant: every message is written at once.
write_impl_now(p) ==
  /\ Task(p, "write") /\ Done(p)
  /\ write_queue_' = [write_queue_ EXCEPT ![p] = Append(@, Posted(p))]
  /\ writing' = writing \cup {p} /\ total' = [total EXCEPT ![p] = 0]
  /\ UNCHANGED <<server, socket, reading, active_, connections, slots, wire, log>>

\* write_impl: the write starts if the queue was empty.
write_impl(p) ==
  /\ Task(p, "write") /\ Done(p)
  /\ write_queue_' = [write_queue_ EXCEPT ![p] = Append(@, Posted(p))]
  /\ IF write_queue_[p] = <<>>
       THEN writing' = writing \cup {p} /\ total' = [total EXCEPT ![p] = 0]
       ELSE UNCHANGED <<writing, total>>
  /\ UNCHANGED <<server, socket, reading, active_, connections, slots, wire, log>>

set_transformer_impl(p) ==
  /\ Task(p, "set_transformer") /\ Done(p)
  /\ UNCHANGED <<server, socket, reading, active_, connections, slots, write_queue_, total, writing, wire, log>>

close_impl(p) ==
  /\ Task(p, "close") /\ Done(p)
  /\ active_' = [active_ EXCEPT ![p] = FALSE]
  /\ socket' = [socket EXCEPT ![p] = IF active_[p] THEN "closed" ELSE @]
  /\ UNCHANGED <<server, reading, connections, slots, write_queue_, total, writing, wire, log>>

\* async_write: what is left of the first message.
Unsent(p) == Size - total[p]

\* write_handler: a part was written, the rest is next; or all, and the next
\* message is.
write_handler(p, bytes) ==
  /\ p \in writing /\ socket[p] = "open" /\ bytes \in 1..Unsent(p)
  /\ wire' = [wire EXCEPT ![p] = @ \o
       [i \in 1..bytes |-> <<Head(write_queue_[p]), (Size - Unsent(p)) + i>>]]
  /\ IF bytes < Unsent(p)
       THEN total' = [total EXCEPT ![p] = @ + bytes] /\ UNCHANGED <<write_queue_, writing>>
       ELSE /\ write_queue_' = [write_queue_ EXCEPT ![p] = Tail(@)]
            /\ total' = [total EXCEPT ![p] = 0]
            /\ writing' = IF Tail(write_queue_[p]) = <<>> THEN writing \ {p} ELSE writing
  /\ UNCHANGED <<server, socket, reading, active_, connections, slots, strand, log>>

\* write_handler with an error: the message stays in the queue, and nobody is
\* connected to on_write_error.
write_error(p) ==
  /\ p \in writing /\ socket[p] # "open"
  /\ writing' = writing \ {p}
  /\ UNCHANGED <<server, socket, reading, active_, connections, slots, strand, write_queue_, total, wire, log>>

Handlers(p) ==
  /\ server # "ended"
  /\ \/ write_impl(p) \/ set_transformer_impl(p) \/ close_impl(p)
     \/ write_error(p) \/ on_error(p) \/ remote_endpoint_throws(p)
     \/ \E b \in Bytes : write_handler(p, b)

Next ==
  \/ accept_fails
  \/ \E p \in Points : accept_handle(p) \/ Handlers(p)
  \/ server # "ended" /\ \E p \in Points : Breaks(p) \/ read_handler(p)

\* run_ios runs the handlers until one throws.
Spec == Init /\ [][Next]_vars /\ \A p \in Points : WF_vars(Handlers(p))

------------------------------------------------------------------------------
(* Properties.                                                              *)

Text(p) == FlattenSeq([i \in DOMAIN log[p] |-> [b \in 1..Size |-> <<log[p][i], b>>]])

\* What a client receives is the beginning of the messages posted for it, byte
\* by byte, however async_write_some divides them.
StreamKept == \A p \in Points : IsPrefix(wire[p], Text(p))

Behind(p) == server # "ended" /\ socket[p] = "open" /\ Len(wire[p]) < Size * Len(log[p])

\* A client that stays receives every message to its end, unless the server
\* ends because another client's connection was reset.
MessagesArrive == \A p \in Points : Behind(p) ~> ~Behind(p)
==============================================================================
