------------------------------- MODULE LukkiDb -------------------------------
(***************************************************************************)
(* The database of examples/lukki-db: requests and events go through one   *)
(* strand, event_queue_, so that nothing needs a lock.                     *)
(*                                                                         *)
(* A request that is executed changes db_ and posts its event behind       *)
(* whatever waits in the strand; the event goes to those who are in        *)
(* subscribers_ when its turn comes.  So a client that subscribes also sees*)
(* the changes made just before it, and a connection that is gone is       *)
(* noticed only by the next event.                                         *)
(***************************************************************************)
EXTENDS Naturals, Sequences, FiniteSets, SequencesExt

CONSTANT MaxChanges     \* bound: changes of the database

Clients == {"c1", "c2"}
Names == {"n"}
Ops == {"set", "upd", "del", "get", "subscribe"}
None == "none"

VARIABLES
  open,          \* the clients whose connection lives
  call,          \* client -> the call it waits for, None, or its outcome
  event_queue_,  \* the strand: requests [task, of, name], events [task, what]
  db_,           \* name -> version of its value, for the names that have one
  subscribers_,  \* the list of subscribers
  got,           \* client -> the events it was sent
  log,           \* history: the changes so far, as <<what, name>>
  since          \* history: client -> changes whose events came before it

vars == <<open, call, event_queue_, db_, subscribers_, got, log, since>>

Init ==
  /\ open = Clients /\ call = [c \in Clients |-> None] /\ event_queue_ = <<>>
  /\ db_ = <<>> /\ subscribers_ = <<>> /\ got = [c \in Clients |-> <<>>]
  /\ log = <<>> /\ since = [c \in Clients |-> 0]

IsEvent(x) == x.task = "event"
Events(q) == [i \in DOMAIN SelectSeq(q, IsEvent) |-> SelectSeq(q, IsEvent)[i].what]

------------------------------------------------------------------------------
(* The clients.                                                             *)

\* The order of start: the program subscribes before its other calls or never,
\* and makes one call at a time.
start(c, op) == c \in open /\ call[c] # "waiting" /\ (op = "subscribe" => call[c] = None)

\* call_method of the service wrapper posts a request to the strand.
call_method(c, op, n) == event_queue_' = Append(event_queue_, [task |-> op, of |-> c, name |-> n])

\* A call of the client's lukki_db_impl.
Call(c, op, n) ==
  /\ start(c, op) /\ Len(log) < MaxChanges
  /\ call' = [call EXCEPT ![c] = "waiting"]
  /\ call_method(c, op, n)
  /\ UNCHANGED <<open, db_, subscribers_, got, log, since>>

\* The connection ends.
CloseConnection(c) ==
  /\ c \in open
  /\ open' = open \ {c}
  /\ UNCHANGED <<call, event_queue_, db_, subscribers_, got, log, since>>

------------------------------------------------------------------------------
(* The strand.                                                              *)

Turn(task) == event_queue_ # <<>> /\ Head(event_queue_).task = task
Request == Head(event_queue_)
Rest == Tail(event_queue_)

\* call: a request of a connection that is gone is dropped, its closure never
\* run.
call_dropped ==
  /\ event_queue_ # <<>> /\ ~IsEvent(Request) /\ Request.of \notin open
  /\ event_queue_' = Rest
  /\ UNCHANGED <<open, call, db_, subscribers_, got, log, since>>

\* The handler ran and _ runs the closure.
Answer(how) == Request.of \in open /\ call' = [call EXCEPT ![Request.of] = how]
Answered(how) == Answer(how) /\ event_queue_' = Rest /\ UNCHANGED <<db_, log>>

\* send_event: the event is posted to the strand.
send_event(what, n) ==
  /\ event_queue_' = Append(Rest, [task |-> "event", what |-> <<what, n>>])
  /\ log' = Append(log, <<what, n>>)

\* Mutant: a record that exists ends the call without its closure.
set_unanswered ==
  /\ Turn("set")
  /\ LET n == Request.name IN
       IF n \in DOMAIN db_ THEN event_queue_' = Rest /\ UNCHANGED <<db_, log, call>>
         ELSE /\ db_' = [m \in DOMAIN db_ \cup {n} |-> IF m = n THEN 0 ELSE db_[m]]
              /\ send_event("RECORD_ADDED", n) /\ Answer("done")
  /\ UNCHANGED <<open, subscribers_, got, since>>

set ==
  /\ Turn("set")
  /\ LET n == Request.name IN
       IF n \in DOMAIN db_ THEN Answered("failed")
         ELSE /\ db_' = [m \in DOMAIN db_ \cup {n} |-> IF m = n THEN 0 ELSE db_[m]]
              /\ send_event("RECORD_ADDED", n) /\ Answer("done")
  /\ UNCHANGED <<open, subscribers_, got, since>>

upd ==
  /\ Turn("upd")
  /\ LET n == Request.name IN
       IF n \notin DOMAIN db_ THEN Answered("failed")
         ELSE /\ db_' = [db_ EXCEPT ![n] = 1 - @]
              /\ send_event("RECORD_CHANGED", n) /\ Answer("done")
  /\ UNCHANGED <<open, subscribers_, got, since>>

\* del leaves total_records of the statistics as it was.
del ==
  /\ Turn("del")
  /\ LET n == Request.name IN
       IF n \notin DOMAIN db_ THEN Answered("failed")
         ELSE /\ db_' = [m \in DOMAIN db_ \ {n} |-> db_[m]]
              /\ send_event("RECORD_DELETED", n) /\ Answer("done")
  /\ UNCHANGED <<open, subscribers_, got, since>>

\* get, exist and stat read.
get ==
  /\ Turn("get")
  /\ Answered(IF Request.name \in DOMAIN db_ THEN "done" ELSE "failed")
  /\ UNCHANGED <<open, subscribers_, got, since>>

Subscribed == <<"SUBSCRIBED", None>>

\* The client is told at once, ahead of the events that wait in the strand.
subscribe_client ==
  /\ Turn("subscribe")
  /\ subscribers_' = Append(subscribers_, Request.of)
  /\ got' = [got EXCEPT ![Request.of] = Append(@, Subscribed)]
  /\ since' = [since EXCEPT ![Request.of] = Len(log) - Len(Events(event_queue_))]
  /\ Answered("done")
  /\ UNCHANGED open

\* Mutant: after an erased entry the next one is skipped.
send_event_impl_skip ==
  /\ Turn("event")
  /\ LET first == IF \E i \in DOMAIN subscribers_ : subscribers_[i] \notin open
                    THEN CHOOSE i \in DOMAIN subscribers_ : subscribers_[i] \notin open
                    ELSE 0
     IN got' = [c \in Clients |->
          IF c \in open /\ \E i \in DOMAIN subscribers_ : subscribers_[i] = c /\ i # first + 1
            THEN Append(got[c], Request.what) ELSE got[c]]
  /\ subscribers_' = SelectSeq(subscribers_, LAMBDA c : c \in open)
  /\ event_queue_' = Rest
  /\ UNCHANGED <<open, call, db_, log, since>>

\* send_event_impl: those that are gone leave the list, the others are sent the
\* event.
send_event_impl ==
  /\ Turn("event")
  /\ subscribers_' = SelectSeq(subscribers_, LAMBDA c : c \in open)
  /\ got' = [c \in Clients |->
       IF Contains(subscribers_', c) THEN Append(got[c], Request.what) ELSE got[c]]
  /\ event_queue_' = Rest
  /\ UNCHANGED <<open, call, db_, log, since>>

Strand == call_dropped \/ set \/ upd \/ del \/ get \/ subscribe_client \/ send_event_impl

Next ==
  \/ Strand
  \/ \E c \in Clients : CloseConnection(c) \/ \E op \in Ops, n \in Names : Call(c, op, n)

\* The rpc thread runs the strand.
Spec == Init /\ [][Next]_vars /\ WF_vars(Strand)

------------------------------------------------------------------------------
(* Properties.                                                              *)

\* A subscriber has been told so first, and then sent, in order and once each, the
\* events of all changes since it subscribed, but for those that still wait in the
\* strand.
NoEventMissed ==
  \A c \in open : Contains(subscribers_, c) =>
    got[c] \o Events(event_queue_) = <<Subscribed>> \o SubSeq(log, since[c] + 1, Len(log))

Waits(c) == call[c] = "waiting" /\ c \in open

\* A call is answered, unless its connection ends.
CallAnswered == \A c \in Clients : Waits(c) ~> ~Waits(c)
==============================================================================
