------------------------------- MODULE Acceptor -------------------------------
(***************************************************************************)
(* The accept loop of a listener of lib/vtrc/server/listener: start, stop  *)
(* and on_accept of listener_impl (impl.h: the tcp and unix-local          *)
(* listeners), of listener_ssl and of the Windows pipe_listener.  The three*)
(* differ in where working_ is set, in what stop does to the outstanding   *)
(* accept and in what a failing start_accept does, so one module runs the  *)
(* steps of each kind.                                                     *)
(*                                                                         *)
(* start and stop are called by a user's thread; completed accepts are run *)
(* by the threads of the io_service.  working_ is a plain bool that both   *)
(* use without a lock.  What happens to an accepted socket is module       *)
(* ServerConnections.                                                      *)
(***************************************************************************)
EXTENDS Integers, Sequences

CONSTANTS
  MaxStarts,   \* bound: calls of start
  MaxAccepts   \* bound: accepted sockets

Kinds == {"impl", "ssl", "pipe"}
Threads == {"user", "io1", "io2"}
IoThreads == Threads \ {"user"}

VARIABLES
  kind,      \* which listener this is
  working_,  \* is_active( )
  acceptor_, \* "none", "open" or "closed"; always "none" for a pipe
  ops,       \* accepts: outstanding, and completed but not yet run
  job,       \* thread -> the steps its call has still to do
  wanted,    \* the user's last call was start
  starts,    \* calls of start so far
  accepted,  \* sockets accepted so far
  late,      \* history: of these, since the last stop returned
  told,      \* history: on_stop or on_accept_failed since the last stop
  failed,    \* history: an accept failed for another reason than a close
  deaf,      \* history: a step after which nothing listens, though active
  overlap    \* history: a start found work of an earlier start unfinished

vars == <<kind, working_, acceptor_, ops, job, wanted, starts, accepted,
          late, told, failed, deaf, overlap>>

History == <<wanted, starts, accepted, late, told, failed, deaf, overlap>>

Init ==
  /\ kind \in Kinds
  /\ working_ = FALSE /\ acceptor_ = "none"
  /\ ops = [pending |-> 0, ok |-> 0, err |-> 0]
  /\ job = [t \in Threads |-> <<>>]
  /\ wanted = FALSE /\ starts = 0 /\ accepted = 0 /\ late = 0
  /\ told = FALSE /\ failed = FALSE /\ deaf = FALSE /\ overlap = FALSE

Idle(t) == job[t] = <<>>
Does(t, steps) == job' = [job EXCEPT ![t] = steps]
Rest(t) == Does(t, Tail(job[t]))
At(t, step) == ~Idle(t) /\ Head(job[t]) = step

\* The steps of the calls of start and stop, in the order of the code.
StartSteps ==
  CASE kind = "impl" -> <<"reset", "accept", "flag", "on_start">>
    [] kind = "ssl"  -> <<"flag", "reset", "accept", "on_start">>
    [] kind = "pipe" -> <<"flag", "accept", "on_start">>
StopSteps == <<"unflag", "close">> \o (IF kind = "pipe" THEN <<"on_stop">> ELSE <<>>)

------------------------------------------------------------------------------
(* The user's calls.                                                        *)

Start ==
  /\ Idle("user") /\ ~wanted /\ starts < MaxStarts
  /\ Does("user", StartSteps)
  /\ starts' = starts + 1 /\ wanted' = TRUE
  /\ overlap' = (overlap \/ ops # [pending |-> 0, ok |-> 0, err |-> 0]
                         \/ \E t \in IoThreads : ~Idle(t))
  /\ UNCHANGED <<kind, working_, acceptor_, ops, accepted, late, told, failed, deaf>>

Stop ==
  /\ Idle("user") /\ wanted
  /\ Does("user", StopSteps)
  /\ wanted' = FALSE /\ late' = 0 /\ told' = FALSE
  /\ UNCHANGED <<kind, working_, acceptor_, ops, starts, accepted, failed, deaf, overlap>>

------------------------------------------------------------------------------
(* The steps of the calls.                                                  *)

\* Every outstanding accept of the acceptor completes with operation_aborted.
Aborted == [ops EXCEPT !.pending = 0, !.err = @ + ops.pending]

\* acceptor_.reset and listen: the old acceptor is destroyed.  The new one may
\* fail to bind: start throws, and working_ stays as it is.
Reset(t) ==
  /\ At(t, "reset")
  /\ ops' = Aborted
  /\ \/ acceptor_' = "open" /\ Rest(t) /\ UNCHANGED <<wanted, deaf>>
     \/ /\ acceptor_' = IF acceptor_ = "none" THEN "none" ELSE "closed"
        /\ Does(t, <<>>) /\ wanted' = FALSE /\ deaf' = (deaf \/ working_)
  /\ UNCHANGED <<kind, working_, starts, accepted, late, told, failed, overlap>>

Flag(t) ==
  /\ At(t, "flag")
  /\ working_' = TRUE
  /\ Rest(t)
  /\ UNCHANGED <<kind, acceptor_, ops, History>>

\* start_accept of the sockets: an accept on a closed acceptor completes with
\* an error.
start_accept(t) ==
  /\ At(t, "accept") /\ kind # "pipe"
  /\ ops' = IF acceptor_ = "open" THEN [ops EXCEPT !.pending = @ + 1]
                                  ELSE [ops EXCEPT !.err = @ + 1]
  /\ Rest(t)
  /\ UNCHANGED <<kind, working_, acceptor_, History>>

\* Mutant: the pipe is created whether the listener works or not.
start_accept_pipe_always(t) ==
  /\ At(t, "accept") /\ kind = "pipe"
  /\ Rest(t)
  /\ ops' = [ops EXCEPT !.pending = @ + 1]
  /\ UNCHANGED <<kind, working_, acceptor_, History>>

\* start_accept of the pipe.  The pipe waits for a client, or is connected
\* already, or ConnectNamedPipe fails: start throws, on_accept is told.  If the
\* pipe is not created, start throws; in on_accept the error is given to
\* overlapped_, which holds no operation any more, and nobody is told.
start_accept_pipe(t) ==
  /\ At(t, "accept") /\ kind = "pipe"
  /\ \/ Rest(t) /\ ~working_ /\ UNCHANGED <<ops, wanted, deaf, failed>>
     \/ /\ Rest(t) /\ working_
        /\ \/ ops' = [ops EXCEPT !.pending = @ + 1]
           \/ ops' = [ops EXCEPT !.ok = @ + 1] /\ accepted + ops.ok < MaxAccepts
        /\ UNCHANGED <<wanted, deaf, failed>>
     \/ /\ Rest(t) /\ working_ /\ t # "user" /\ ~failed
        /\ ops' = [ops EXCEPT !.err = @ + 1] /\ failed' = TRUE
        /\ UNCHANGED <<wanted, deaf>>
     \/ /\ Does(t, <<>>) /\ working_
        /\ deaf' = TRUE
        /\ wanted' = IF t = "user" THEN FALSE ELSE wanted
        /\ UNCHANGED <<ops, failed>>
  /\ UNCHANGED <<kind, working_, acceptor_, starts, accepted, late, told, overlap>>

Unflag(t) ==
  /\ At(t, "unflag")
  /\ working_' = FALSE
  /\ Rest(t)
  /\ UNCHANGED <<kind, acceptor_, ops, History>>

\* acceptor_->close aborts the outstanding accepts.  For the pipe:
\* overlapped_.complete, which does nothing once the operation was released.
Close(t) ==
  /\ At(t, "close")
  /\ IF kind = "pipe" \/ acceptor_ = "none"
       THEN UNCHANGED <<acceptor_, ops>>
       ELSE acceptor_' = "closed" /\ ops' = Aborted
  /\ Rest(t)
  /\ UNCHANGED <<kind, working_, History>>

\* The signals of the listener: on_start_, on_stop_, on_accept_failed_.
Emit(t) ==
  /\ At(t, "on_start") \/ At(t, "on_stop") \/ At(t, "on_accept_failed")
  /\ told' = (told \/ ~At(t, "on_start"))
  /\ Rest(t)
  /\ UNCHANGED <<kind, working_, acceptor_, ops, wanted, starts, accepted, late, failed, deaf, overlap>>

------------------------------------------------------------------------------
(* The io_service.                                                          *)

\* A client connects.
Arrive ==
  /\ ops.pending > 0 /\ accepted + ops.ok < MaxAccepts
  /\ ops' = [ops EXCEPT !.pending = @ - 1, !.ok = @ + 1]
  /\ UNCHANGED <<kind, working_, acceptor_, job, History>>

\* The accept fails (no descriptors left, a pipe that broke).
Fail ==
  /\ ops.pending > 0 /\ ~failed
  /\ ops' = [ops EXCEPT !.pending = @ - 1, !.err = @ + 1]
  /\ failed' = TRUE
  /\ UNCHANGED <<kind, working_, acceptor_, job, wanted, starts, accepted, late, told, deaf, overlap>>

\* Mutant: the next accept is not started.
on_accept_ok_once(t) ==
  /\ Idle(t) /\ ops.ok > 0
  /\ ops' = [ops EXCEPT !.ok = @ - 1]
  /\ accepted' = accepted + 1
  /\ late' = IF wanted \/ ~Idle("user") THEN late ELSE late + 1
  /\ UNCHANGED <<kind, working_, acceptor_, job, wanted, starts, told, failed, deaf, overlap>>

\* on_accept with a socket: make the connection, then accept the next one.
\* Everything the connection may throw is caught.
on_accept_ok(t) ==
  /\ Idle(t) /\ ops.ok > 0
  /\ ops' = [ops EXCEPT !.ok = @ - 1]
  /\ accepted' = accepted + 1
  /\ late' = IF wanted \/ ~Idle("user") THEN late ELSE late + 1
  /\ Does(t, <<"accept">>)
  /\ UNCHANGED <<kind, working_, acceptor_, wanted, starts, told, failed, deaf, overlap>>

\* Mutant: a stopped listener does not tell.
on_accept_error_silent(t) ==
  /\ Idle(t) /\ ops.err > 0
  /\ ops' = [ops EXCEPT !.err = @ - 1]
  /\ Does(t, IF working_ THEN StopSteps \o <<"on_accept_failed">> ELSE <<>>)
  /\ UNCHANGED <<kind, working_, acceptor_, History>>

\* on_accept with an error: an active listener stops itself.  Before start of
\* the socket listeners has set working_, the error counts as a stop.
on_accept_error(t) ==
  /\ Idle(t) /\ ops.err > 0
  /\ ops' = [ops EXCEPT !.err = @ - 1]
  /\ Does(t, IF working_ THEN StopSteps \o <<"on_accept_failed">> ELSE <<"on_stop">>)
  /\ deaf' = (deaf \/ \E i \in DOMAIN job["user"] : job["user"][i] = "flag")
  /\ UNCHANGED <<kind, working_, acceptor_, wanted, starts, accepted, late, told, failed, overlap>>

Step(t) ==
  \/ Reset(t) \/ Flag(t) \/ start_accept(t) \/ start_accept_pipe(t)
  \/ Unflag(t) \/ Close(t) \/ Emit(t)

OnAccept(t) == on_accept_ok(t) \/ on_accept_error(t)

Next ==
  \/ Start \/ Stop \/ Arrive \/ Fail
  \/ \E t \in Threads : Step(t)
  \/ \E t \in IoThreads : OnAccept(t)

\* Calls go on, and the io_service runs what has completed; clients need not
\* come, and the user need not stop.
Fairness ==
  /\ \A t \in Threads : WF_vars(Step(t))
  /\ \A t \in IoThreads : WF_vars(OnAccept(t))

Spec == Init /\ [][Next]_vars /\ Fairness

------------------------------------------------------------------------------
Quiet == (\A t \in Threads : Idle(t)) /\ ops.ok = 0 /\ ops.err = 0

\* When nothing is left to run, a listener that says it is active waits for a
\* client, except after the three steps that leave it deaf: a start that threw
\* after working_ was set, an error handled before start set working_, and a
\* pipe that could not be created.  (is_active, on_accept)
ActiveListens == Quiet /\ working_ /\ ~deaf => ops.pending > 0

\* A listener the user started, of which no accept failed, is active - unless
\* it was started again while an accept of the earlier start was still to be
\* run: that handler finds working_ set and stops the new acceptor.  (start)
StartedStaysActive == Quiet /\ wanted /\ ~failed /\ ~overlap /\ ~deaf => working_ /\ ops.pending > 0

\* At most one client is accepted after stop returned: the one that had already come, or
\* for the pipe the next one, since its outstanding accept is not cancelled.
AtMostOneLate == ~wanted /\ ~overlap => late <= 1

StopBegins == At("user", "unflag") /\ working_ /\ ~deaf
StopTold == told \/ wanted

\* Every stop of an active listener is followed by on_stop or
\* on_accept_failed, unless the listener is started again.  (call_on_stop)
StopIsTold == StopBegins ~> StopTold
===============================================================================
