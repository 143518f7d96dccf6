---------------------------- MODULE CustomTransport ----------------------------
(***************************************************************************)
(* examples/hello-custom-transport: a client whose connection writes its   *)
(* calls to a file, and a server that feeds the file to a connection of the*)
(* custom listener.  The calls do not wait for answers.                    *)
(*                                                                         *)
(* The server posts every call to its rpc pool and a stop of the pool      *)
(* behind them, and helps the pool until it stops.  It prints the count of *)
(* calls before it joins the threads: a call that still runs is not in it. *)
(***************************************************************************)
EXTENDS Naturals, Sequences, FiniteSets

CONSTANTS Threads,    \* the threads of the rpc pool, "main" not among them
          MaxCalls    \* bound: calls in the file

Runners == Threads \cup {"main"}
NoService == 0

VARIABLES
  file,           \* calls the client has written; 0: there is no file
  main,           \* where main is
  read,           \* calls main has taken from the connection's data
  queue,          \* the queue of the rpc pool: "call" and "stop"
  job,            \* thread -> the call it is in: "none" or a step
  stopped,        \* the pool's io_service is stopped
  services_,      \* the connection's service, NoService before the first call
  made,           \* services made by the factory
  uses,           \* thread -> the service its call is made of
  current_calls_, \* active calls of the connection
  count,          \* calls that were executed
  printed,        \* the count that was printed, and whether it was
  clients         \* the connection is in the application's list

vars == <<file, main, read, queue, job, stopped, services_, made, uses, current_calls_, count,
          printed, clients>>

Init ==
  /\ file \in 0..MaxCalls
  /\ main = "accept" /\ read = 0 /\ queue = <<>> /\ job = [t \in Runners |-> "none"]
  /\ stopped = FALSE /\ services_ = NoService /\ made = 0 /\ uses = [t \in Runners |-> NoService]
  /\ current_calls_ = 0 /\ count = 0 /\ printed = <<>> /\ clients = FALSE

------------------------------------------------------------------------------
(* The main thread.                                                         *)

MainSteps(from, to) == main = from /\ main' = to

\* accept, init_protocol: the connection is stored and its protocol made.
init_protocol ==
  /\ MainSteps("accept", IF file = 0 THEN "post" ELSE "read")
  /\ clients' = TRUE
  /\ UNCHANGED <<file, read, queue, job, stopped, services_, made, uses, current_calls_, count, printed>>

\* process_data: a call is counted and posted; the pool works already.
process_data ==
  /\ MainSteps("read", IF read + 1 = file THEN "post" ELSE "read")
  /\ read' = read + 1 /\ current_calls_' = current_calls_ + 1
  /\ queue' = Append(queue, "call")
  /\ UNCHANGED <<file, job, stopped, services_, made, uses, count, printed, clients>>

\* Mutant: the stop is posted in front of the calls that wait.
post_stop_first ==
  /\ MainSteps("post", "attached")
  /\ queue' = <<"stop">> \o queue
  /\ UNCHANGED <<file, read, job, stopped, services_, made, uses, current_calls_, count, printed, clients>>

\* The stop goes behind the calls; main attaches itself to the pool.
post_stop ==
  /\ MainSteps("post", "attached")
  /\ queue' = Append(queue, "stop")
  /\ UNCHANGED <<file, read, job, stopped, services_, made, uses, current_calls_, count, printed, clients>>

\* attach returns; close: the listener's stop_client drops the connection.
close ==
  /\ stopped /\ job["main"] = "none"
  /\ MainSteps("attached", "print") /\ clients' = FALSE
  /\ UNCHANGED <<file, read, queue, job, stopped, services_, made, uses, current_calls_, count, printed>>

\* stop_all, and the count is printed.
print ==
  /\ MainSteps("print", "join") /\ printed' = <<count>>
  /\ UNCHANGED <<file, read, queue, job, stopped, services_, made, uses, current_calls_, count, clients>>

\* Mutant: the program ends without its threads.
join_all_none ==
  /\ MainSteps("join", "end")
  /\ UNCHANGED <<file, read, queue, job, stopped, services_, made, uses, current_calls_, count, printed, clients>>

join_all ==
  /\ \A t \in Threads : job[t] = "ended"
  /\ MainSteps("join", "end")
  /\ UNCHANGED <<file, read, queue, job, stopped, services_, made, uses, current_calls_, count, printed, clients>>

------------------------------------------------------------------------------
(* The rpc pool: its threads, and main while it is attached.                *)

Attached(t) == t = "main" => main = "attached"

\* A handler is taken; the stop ends the pool at once.
Takes(t) ==
  /\ Attached(t) /\ ~stopped /\ job[t] = "none" /\ queue # <<>>
  /\ queue' = Tail(queue)
  /\ IF Head(queue) = "stop" THEN stopped' = TRUE /\ UNCHANGED job
       ELSE job' = [job EXCEPT ![t] = "call"] /\ UNCHANGED stopped
  /\ UNCHANGED <<file, main, read, services_, made, uses, current_calls_, count, printed, clients>>

\* Mutant: the service is not kept.
get_service_forget(t) ==
  /\ job[t] = "call" /\ job' = [job EXCEPT ![t] = "service"]
  /\ made' = made + 1 /\ services_' = NoService
  /\ uses' = [uses EXCEPT ![t] = made']
  /\ UNCHANGED <<file, main, read, queue, stopped, current_calls_, count, printed, clients>>

\* get_service: under services_lock_, the factory is called at the first time.
get_service(t) ==
  /\ job[t] = "call" /\ job' = [job EXCEPT ![t] = "service"]
  /\ IF services_ = NoService THEN made' = made + 1 /\ services_' = made'
       ELSE UNCHANGED <<made, services_>>
  /\ uses' = [uses EXCEPT ![t] = services_']
  /\ UNCHANGED <<file, main, read, queue, stopped, current_calls_, count, printed, clients>>

\* send_hello: count is atomic.  The closure answers nobody.
send_hello(t) ==
  /\ job[t] = "service" /\ job' = [job EXCEPT ![t] = "done"]
  /\ count' = count + 1
  /\ UNCHANGED <<file, main, read, queue, stopped, services_, made, uses, current_calls_, printed, clients>>

call_done(t) ==
  /\ job[t] = "done" /\ job' = [job EXCEPT ![t] = "none"]
  /\ current_calls_' = current_calls_ - 1
  /\ UNCHANGED <<file, main, read, queue, stopped, services_, made, uses, count, printed, clients>>

\* A thread of the stopped pool ends when it is in no handler.
Ends(t) ==
  /\ t \in Threads /\ stopped /\ job[t] = "none" /\ job' = [job EXCEPT ![t] = "ended"]
  /\ UNCHANGED <<file, main, read, queue, stopped, services_, made, uses, current_calls_, count, printed, clients>>

Main == init_protocol \/ process_data \/ post_stop \/ close \/ print \/ join_all
Runs(t) == Takes(t) \/ get_service(t) \/ send_hello(t) \/ call_done(t) \/ Ends(t)

Next == Main \/ \E t \in Runners : Runs(t)

\* Every thread runs.
Spec == Init /\ [][Next]_vars /\ WF_vars(Main) /\ \A t \in Runners : WF_vars(Runs(t))

------------------------------------------------------------------------------
(* Properties.                                                              *)

\* At the end every call of the file was executed once and none is active; the
\* count that was printed lacks only calls that ran at that moment, one for each
\* thread at most.  All calls of the connection were made of one service.
EveryCallCounted ==
  /\ main = "end" => count = file /\ current_calls_ = 0 /\ queue = <<>>
  /\ \A i \in DOMAIN printed : printed[i] <= file /\ count <= printed[i] + Cardinality(Threads)
  /\ \A t, u \in Runners : uses[t] = NoService \/ uses[u] = NoService \/ uses[t] = uses[u]
  /\ made <= 1

Finished == main = "end"

\* The program ends.
FileServed == <>Finished
================================================================================
