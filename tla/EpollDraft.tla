------------------------------- MODULE EpollDraft -------------------------------
(***************************************************************************)
(* draft/client: a thread that polls descriptors with epoll, edge          *)
(* triggered.  Another thread hands it a descriptor by writing the address *)
(* of a small structure to an eventfd; the poll thread frees it.           *)
(*                                                                         *)
(* An eventfd is a counter: a second address written before the first is   *)
(* read would be added to it.  The program writes one.  Nobody writes to   *)
(* del_event and stop_event, so their branches are left out.               *)
(***************************************************************************)
EXTENDS Naturals, FiniteSets

CONSTANT MaxBytes   \* bound: bytes that arrive at the descriptor

VARIABLES
  main,       \* "open", "add", "join" or "ended"
  thread,     \* "start", "wait", "add", "callback" or "ended"
  fd,         \* the descriptor: "none", "stream", "file" (epoll refuses it) or "bad"
  add_event,  \* the counter of the eventfd, 0 or the address
  heap,       \* the structure is allocated
  polled,     \* descriptors the epoll instance watches
  edges,      \* of these, those with an edge that was not reported
  unread,     \* bytes of the descriptor that were not read
  arrived,    \* bytes that arrived
  callbacks   \* calls of fd_cb

vars == <<main, thread, fd, add_event, heap, polled, edges, unread, arrived, callbacks>>

Address == 1

Init ==
  /\ main = "open" /\ thread = "start" /\ fd = "none" /\ add_event = 0 /\ heap = FALSE
  /\ polled = {} /\ edges = {} /\ unread = 0 /\ arrived = 0 /\ callbacks = 0

\* The kernel reports an edge of a descriptor that is watched.
Edge(d) == edges' = IF d \in polled THEN edges \cup {d} ELSE edges

------------------------------------------------------------------------------
(* The main thread.                                                         *)

open(kind) ==
  /\ main = "open" /\ main' = "add" /\ fd' = kind
  /\ UNCHANGED <<thread, add_event, heap, polled, edges, unread, arrived, callbacks>>

\* add_fd: a write to an eventfd the poll thread has closed fails, unnoticed.
add_fd ==
  /\ main = "add" /\ main' = "join" /\ heap' = TRUE
  /\ IF thread = "ended" THEN UNCHANGED <<add_event, edges>>
       ELSE add_event' = add_event + Address /\ Edge("add_event")
  /\ UNCHANGED <<thread, fd, polled, unread, arrived, callbacks>>

join ==
  /\ main = "join" /\ thread = "ended" /\ main' = "ended"
  /\ UNCHANGED <<thread, fd, add_event, heap, polled, edges, unread, arrived, callbacks>>

\* Something is written at the other end of the descriptor.
Arrives ==
  /\ fd = "stream" /\ arrived < MaxBytes
  /\ arrived' = arrived + 1 /\ unread' = unread + 1 /\ Edge("fd")
  /\ UNCHANGED <<main, thread, fd, add_event, heap, polled, callbacks>>

------------------------------------------------------------------------------
(* poll_thread.                                                             *)

\* epoll_create, and the events are added: one that was written to is ready.
add_event_to_epoll ==
  /\ thread = "start"
  /\ \/ thread' = "ended" /\ UNCHANGED <<polled, edges>>    \* epoll_create fails
     \/ /\ thread' = "wait" /\ polled' = {"add_event"}
        /\ edges' = IF add_event > 0 THEN {"add_event"} ELSE {}
  /\ UNCHANGED <<main, fd, add_event, heap, unread, arrived, callbacks>>

\* epoll_wait: one edge, or an error, which ends the loop.
epoll_wait ==
  /\ thread = "wait"
  /\ \/ \E d \in edges : edges' = edges \ {d} /\ thread' = IF d = "fd" THEN "callback" ELSE "add"
     \/ thread' = "ended" /\ UNCHANGED edges
  /\ UNCHANGED <<main, fd, add_event, heap, polled, unread, arrived, callbacks>>

\* Mutant: what came before the descriptor was added is not reported.
add_fd_to_epoll_late ==
  /\ thread = "add" /\ thread' = "wait" /\ add_event' = 0 /\ heap' = FALSE
  /\ IF fd = "stream" THEN polled' = polled \cup {"fd"} ELSE UNCHANGED polled
  /\ UNCHANGED <<main, fd, edges, unread, arrived, callbacks>>

\* The address is read, the descriptor added and the structure freed.
add_fd_to_epoll ==
  /\ thread = "add" /\ thread' = "wait" /\ add_event' = 0 /\ heap' = FALSE
  /\ IF fd = "stream"
       THEN polled' = polled \cup {"fd"} /\ edges' = edges \cup (IF unread > 0 THEN {"fd"} ELSE {})
       ELSE UNCHANGED <<polled, edges>>
  /\ UNCHANGED <<main, fd, unread, arrived, callbacks>>

\* fd_cb reads one byte, if there is one; what else arrived waits for the next edge.
fd_cb ==
  /\ thread = "callback" /\ thread' = "wait" /\ callbacks' = callbacks + 1
  /\ unread' = IF unread > 0 THEN unread - 1 ELSE 0
  /\ UNCHANGED <<main, fd, add_event, heap, polled, edges, arrived>>

Thread == add_event_to_epoll \/ epoll_wait \/ add_fd_to_epoll \/ fd_cb
Main == (\E kind \in {"stream", "file", "bad"} : open(kind)) \/ add_fd \/ join
Next == Main \/ Thread \/ Arrives

Spec == Init /\ [][Next]_vars /\ WF_vars(Main) /\ WF_vars(Thread)

------------------------------------------------------------------------------
(* Properties.                                                              *)

\* While the descriptor is watched and unread bytes wait, either an edge is
\* pending, or the callback runs, or fd_cb has already read a byte for an edge
\* that stood for several: then fewer callbacks were made than bytes arrived.
\* The structure is never read after it was freed.
BytesCovered ==
  /\ thread = "add" => heap /\ add_event = Address
  /\ thread = "wait" /\ "fd" \in polled /\ unread > 0 => "fd" \in edges \/ (callbacks > 0 /\ callbacks < arrived)

Handed == heap /\ thread # "ended"

\* A structure that is handed over is freed, unless the poll thread ends first.
HandedOver == Handed ~> ~Handed
================================================================================
