------------------------------ MODULE WriteQueue ------------------------------
(***************************************************************************)
(* The sending half of transport_impl (transport/stream-impl.h). Any thread*)
(* may write: write posts write_impl to the strand write_dispatcher_, which*)
(* runs its handlers one at a time in the order they were posted.          *)
(* write_impl packs the message (hash and cipher, both of which have state)*)
(* and queues it; one asynchronous write is in flight at a time, may write *)
(* only a part of the front message, and its completion is a strand        *)
(* handler too. close may come from any thread at any moment.              *)
(***************************************************************************)
EXTENDS Naturals, Sequences, SequencesExt, FiniteSets

CONSTANTS
  Threads,     \* threads that write
  MaxWrites,   \* bound: messages each of them writes
  Size,        \* bytes of every packed message
  OnSend,      \* threads whose closure is to run when the message is sent
  Faults       \* which of "error" and "close" may happen

ASSUME WriteQueueAssumption ==
  /\ MaxWrites \in Nat
  /\ Size \in Nat \ {0}
  /\ OnSend \subseteq Threads
  /\ Faults \subseteq {"error", "close"}

Message == Threads \X (1..MaxWrites)

\* Handlers of the strand: write_impl for a message, write_handler for n
\* bytes written (n = 0 stands for an error).
Task == [do : {"write_impl"}, msg : Message] \cup
        [do : {"write_handler"}, n : 0..Size]

VARIABLES
  written,     \* how many messages each thread has written
  strand,      \* handlers posted to write_dispatcher_ and not run
  packed,      \* messages in the order pack_message saw them
  queue,       \* write_queue_
  flight,      \* the write in flight: its offset in the front, and length
  wire,        \* bytes that reached the stream, as <<message, index>>
  closed,      \* closed_
  failed,      \* on_write_error was called
  told         \* history: which closures ran, and with what

vars == <<written, strand, packed, queue, flight, wire, closed, failed, told>>

Idle == [total |-> 0, length |-> 0]
Closures == Message \X {"ok", "error"}

Init ==
  /\ written = [t \in Threads |-> 0]
  /\ strand = <<>>
  /\ packed = <<>>
  /\ queue = <<>>
  /\ flight = Idle
  /\ wire = <<>>
  /\ closed = FALSE
  /\ failed = FALSE
  /\ told = <<>>

------------------------------------------------------------------------------
write(t) ==
  /\ written[t] < MaxWrites
  /\ written' = [written EXCEPT ![t] = @ + 1]
  /\ strand' = Append(strand, [do |-> "write_impl", msg |-> <<t, written[t] + 1>>])
  /\ UNCHANGED <<packed, queue, flight, wire, closed, failed, told>>

\* Mutant: a write that goes on after a part forgets where it was.
async_write_again(total) ==
  flight' = IF closed THEN Idle ELSE [total |-> 0, length |-> Size - total]

\* Mutant: the whole length is written again from there.
async_write_full(total) ==
  flight' = IF closed THEN Idle ELSE [total |-> total, length |-> Size]

\* Start writing the front message from its byte total + 1 on; nothing is
\* started on a connection that is closed.
async_write(total) ==
  flight' = IF closed THEN Idle ELSE [total |-> total, length |-> Size - total]

\* The closure of m runs with result how.
Tell(m, how) == told' = Append(told, <<m, how>>)

\* Mutant: on_send_ is not looked at.
write_impl_tells ==
  /\ strand # <<>> /\ Head(strand).do = "write_impl"
  /\ strand' = Tail(strand)
  /\ LET m == Head(strand).msg IN
     /\ packed' = Append(packed, m)
     /\ queue' = Append(queue, m)
     /\ Tell(m, "ok")
     /\ IF queue = <<>> THEN async_write(0) ELSE UNCHANGED flight
  /\ UNCHANGED <<written, wire, closed, failed>>

\* Pack and queue the message, run its closure unless it waits for the
\* sending, and start writing if nothing was queued.
write_impl ==
  /\ strand # <<>> /\ Head(strand).do = "write_impl"
  /\ strand' = Tail(strand)
  /\ LET m == Head(strand).msg IN
     /\ packed' = Append(packed, m)
     /\ queue' = Append(queue, m)
     /\ IF m[1] \notin OnSend THEN Tell(m, "ok") ELSE UNCHANGED told
     /\ IF queue = <<>> THEN async_write(0) ELSE UNCHANGED flight
  /\ UNCHANGED <<written, wire, closed, failed>>

\* The stream takes n bytes of the write in flight; the completion is posted
\* to the strand.
StreamTakes(n) ==
  /\ flight.length > 0
  /\ \A i \in DOMAIN strand : strand[i].do # "write_handler"
  /\ n \in 1..flight.length
  /\ wire' = wire \o [i \in 1..n |-> <<Head(queue), flight.total + i>>]
  /\ strand' = Append(strand, [do |-> "write_handler", n |-> n])
  /\ UNCHANGED <<written, packed, queue, flight, closed, failed, told>>

\* The write in flight ends with an error: the peer is gone, or the stream
\* was closed under it.
StreamFails ==
  /\ flight.length > 0
  /\ "error" \in Faults \/ closed
  /\ \A i \in DOMAIN strand : strand[i].do # "write_handler"
  /\ strand' = Append(strand, [do |-> "write_handler", n |-> 0])
  /\ UNCHANGED <<written, packed, queue, flight, wire, closed, failed, told>>

\* Mutant: the next message waits for another write.
NextMessageWaits == queue' = Tail(queue) /\ flight' = Idle

\* The front message was written: the next one.
NextMessage ==
  /\ queue' = Tail(queue)
  /\ IF Len(queue) > 1 THEN async_write(0) ELSE flight' = Idle

\* A part was written: go on behind it. Everything was: run the closure, take
\* the message off and start the next. An error: tell the closure, and the
\* connection closes; the message stays in front.
write_handler ==
  /\ strand # <<>> /\ Head(strand).do = "write_handler"
  /\ strand' = Tail(strand)
  /\ LET n == Head(strand).n
         m == Head(queue)
         TellIfOnSend(how) == IF m[1] \in OnSend THEN Tell(m, how) ELSE UNCHANGED told
     IN \/ /\ n > 0 /\ n < flight.length
           /\ async_write(flight.total + n)
           /\ UNCHANGED <<queue, closed, failed, told>>
        \/ /\ n > 0 /\ n = flight.length
           /\ TellIfOnSend("ok")
           /\ NextMessage
           /\ UNCHANGED <<closed, failed>>
        \/ /\ n = 0
           /\ TellIfOnSend("error")
           /\ failed' = TRUE
           /\ closed' = TRUE
           /\ flight' = Idle
           /\ UNCHANGED queue
  /\ UNCHANGED <<written, packed, wire>>

close ==
  /\ "close" \in Faults /\ ~closed
  /\ closed' = TRUE
  /\ UNCHANGED <<written, strand, packed, queue, flight, wire, failed, told>>

StrandStep == write_impl \/ write_handler

Next ==
  \/ \E t \in Threads : write(t)
  \/ StrandStep
  \/ \E n \in 1..Size : StreamTakes(n)
  \/ StreamFails \/ close

Spec == Init /\ [][Next]_vars

\* The io_service runs the strand and the stream makes progress or fails.
FairSpec ==
  /\ Spec
  /\ WF_vars(StrandStep)
  /\ WF_vars(\E n \in 1..Size : StreamTakes(n))
  /\ WF_vars(StreamFails /\ closed)
------------------------------------------------------------------------------
\* Types of the variables; a write in flight stays inside its message
\* (async_write).
TypeOK ==
  /\ written \in [Threads -> 0..MaxWrites]
  /\ strand \in Seq(Task)
  /\ packed \in Seq(Message)
  /\ queue \in Seq(Message)
  /\ flight \in [total : 0..Size, length : 0..Size]
  /\ wire \in Seq(Message \X (1..Size))
  /\ closed \in BOOLEAN
  /\ failed \in BOOLEAN
  /\ told \in Seq(Closures)

Channel == INSTANCE ByteChannel WITH accepted <- packed, out <- wire

\* The bytes on the wire are those of the packed messages, whole and in the
\* order in which the cipher saw them, which keeps the order of each thread:
\* no byte is lost, repeated or interleaved, whatever the partial writes,
\* whoever writes, and whenever the connection closes or fails.
ImplementsChannel == Channel!Spec

\* A closure runs once at most; with "ok" only after its message was queued
\* (or, if it is to wait for that, wholly on the wire).
ClosureOnce ==
  /\ \A i, j \in DOMAIN told : told[i][1] = told[j][1] => i = j
  /\ \A i \in DOMAIN told :
       LET m == told[i][1] IN
       /\ m \in ToSet(packed)
       /\ m[1] \in OnSend /\ told[i][2] = "ok" => <<m, Size>> \in ToSet(wire)

\* Every message written reaches the wire and its closure is told, unless
\* the connection is closed.
AllSent ==
  \A m \in Message :
    written[m[1]] >= m[2] ~>
      (<<m, Size>> \in ToSet(wire) /\ <<m, "ok">> \in ToSet(told)) \/ closed

\* The write in flight stays inside its message, and closures are run once and say
\* what happened.  (async_write, write_handler, write_impl)
WritesSound == TypeOK /\ ClosureOnce
================================================================================
