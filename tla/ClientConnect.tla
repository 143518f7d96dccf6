---------------------------- MODULE ClientConnect ----------------------------
(***************************************************************************)
(* A blocking connect of lib/vtrc/client/client.cpp (connect_impl) racing  *)
(* the handlers of the new connection.  The caller subscribes two slots    *)
(* that point into its stack frame, connects, and waits on a condition     *)
(* variable for at most ten seconds; the threads of the pool set the ready *)
(* flag of the protocol and run the slots.  The slots notify without       *)
(* taking the mutex the caller tests its predicate under, so a             *)
(* notification can fall between the test and the wait.                    *)
(*                                                                         *)
(* The read handlers of a connection form a chain (one read at a time);    *)
(* write errors come from another thread.  The handshake itself is module  *)
(* Handshake: here it ends ready, refused, by an error or by an exception. *)
(***************************************************************************)
EXTENDS Integers, Sequences, FiniteSets

Signals == {"on_ready", "on_init_error"}
Workers == {"reader", "writer"}
Nobody == "nobody"

VARIABLES
  pc,        \* where the caller of connect_impl is
  outcome,   \* how connect_impl ends
  failed,    \* the caller's local, written by the slot of on_init_error
  armed,     \* the signals its slots are subscribed to
  missed,    \* history: a notification fell between a test and its wait
  due,       \* history: what had happened when the ten seconds were over
  ready_,    \* protocol_layer: ready( )
  stage_,    \* handshake: "open", "error" or "ready"
  closed_,   \* the transport is closed
  reading,   \* another read will be started
  job,       \* worker -> what is left of the handler it runs
  held,      \* lock -> worker: close_lock_, and each signal's list_lock_
  everReady, \* history: ready_ was true
  raised     \* history: a read handler ended by an exception

caller == <<pc, outcome, failed, armed, missed, due>>
conn == <<ready_, stage_, closed_, reading, everReady, raised>>
connectVars == <<caller, conn, job, held>>

\* What a handler has still to do: change a flag, close, or run a signal.
Steps == ({"hs_ready", "ready_true", "ready_false", "close", "unlock"} \X {"self"})
         \cup ({"emit", "call", "notify"} \X Signals)

\* Types of the variables; an outcome is decided before the frame unwinds, and
\* close_lock_ is held by the one handler that is closing.
ConnectTypeOK ==
  /\ pc \in {"start", "connect", "test", "test2", "sleep", "blocked", "late", "late2",
             "decide", "unwind", "returned"}
  /\ outcome \in {"none", "ok", "raise", "timeout", "internal"}
  /\ failed \in BOOLEAN /\ armed \subseteq Signals /\ missed \in BOOLEAN
  /\ due \subseteq {"failed", "ready"}
  /\ ready_ \in BOOLEAN /\ stage_ \in {"open", "error", "ready"}
  /\ closed_ \in BOOLEAN /\ reading \in BOOLEAN
  /\ everReady \in BOOLEAN /\ raised \in BOOLEAN
  /\ job \in [Workers -> Seq(Steps)] /\ \A u \in Workers : Len(job[u]) <= 4
  /\ held \in [Signals \cup {"close_lock_"} -> Workers \cup {Nobody}]
  /\ outcome = "none" <=> pc \notin {"unwind", "returned"}
  /\ \A u \in Workers :
       held["close_lock_"] = u <=> \E i \in DOMAIN job[u] : job[u][i] = <<"unlock", "self">>

ConnectInit ==
  /\ pc = "start" /\ outcome = "none" /\ failed = FALSE /\ armed = {} /\ missed = FALSE
  /\ due = {}
  /\ ready_ = FALSE /\ stage_ = "open" /\ closed_ = FALSE /\ reading = FALSE
  /\ job = [u \in Workers |-> <<>>]
  /\ held = [l \in Signals \cup {"close_lock_"} |-> Nobody]
  /\ everReady = FALSE /\ raised = FALSE

------------------------------------------------------------------------------
(* The caller of connect_impl.                                              *)

Ends(how) == outcome' = how /\ pc' = "unwind"

\* Subscribe both slots and take cond_lock.
Subscribe ==
  /\ pc = "start"
  /\ armed' = Signals /\ pc' = "connect"
  /\ UNCHANGED <<outcome, failed, missed, due, conn, job, held>>

\* conn_func connects and starts the reading, then on_connect is emitted; or
\* it throws.
Connect ==
  /\ pc = "connect"
  /\ \/ pc' = "test" /\ reading' = TRUE /\ UNCHANGED outcome
     \/ Ends("raise") /\ UNCHANGED reading
  /\ UNCHANGED <<failed, armed, missed, due, ready_, stage_, closed_, everReady, raised, job, held>>

\* The predicate of the wait, two reads: *failed in the first place, and if it
\* is not set ready( ) in the second; `no` is where the caller is if neither is.
on_ready_diconnect(first, second, no) ==
  \/ pc = first /\ pc' = (IF failed THEN "decide" ELSE second) /\ UNCHANGED outcome
  \/ pc = second /\ IF ready_ THEN pc' = "decide" /\ UNCHANGED outcome ELSE no

\* cond.wait_for tests the predicate before it waits and after each wakeup.
Test ==
  /\ on_ready_diconnect("test", "test2", pc' = "sleep" /\ UNCHANGED outcome)
  /\ UNCHANGED <<failed, armed, missed, due, conn, job, held>>

\* From here on a notification wakes the caller.
Block ==
  /\ pc = "sleep"
  /\ pc' = "blocked"
  /\ UNCHANGED <<outcome, failed, armed, missed, due, conn, job, held>>

\* What the caller could have been told by now.
SoFar == {f \in {"failed", "ready"} : (f = "failed" /\ failed) \/ (f = "ready" /\ everReady)}

\* Mutant: the wait ends by its timer without a last test.
TimerFires_blind ==
  /\ pc = "blocked"
  /\ Ends("timeout") /\ due' = SoFar
  /\ UNCHANGED <<failed, armed, missed, conn, job, held>>

\* Mutant: the caller goes back to wait.
TimerFires_again ==
  /\ pc = "blocked"
  /\ pc' = "test"
  /\ UNCHANGED <<outcome, failed, armed, missed, due, conn, job, held>>

\* The ten seconds are over: the caller leaves the wait.
TimerFires ==
  /\ pc = "blocked"
  /\ pc' = "late" /\ due' = SoFar
  /\ UNCHANGED <<outcome, failed, armed, missed, conn, job, held>>

\* Mutant: the last test looks at failed only.
LastTest_failed ==
  /\ pc = "late"
  /\ IF failed THEN pc' = "decide" /\ UNCHANGED outcome ELSE Ends("timeout")
  /\ UNCHANGED <<failed, armed, missed, due, conn, job, held>>

\* and tests the predicate once more.
LastTest ==
  /\ on_ready_diconnect("late", "late2", Ends("timeout"))
  /\ UNCHANGED <<failed, armed, missed, due, conn, job, held>>

\* Mutant: the caller does not look at failed.
Decide_ok ==
  /\ pc = "decide"
  /\ Ends("ok")
  /\ UNCHANGED <<failed, armed, missed, due, conn, job, held>>

\* The wait was successful: look at failed once more.
Decide ==
  /\ pc = "decide"
  /\ Ends(IF failed THEN "internal" ELSE "ok")
  /\ UNCHANGED <<failed, armed, missed, due, conn, job, held>>

\* The scoped connections unsubscribe, then the frame is gone.
Unwind ==
  /\ pc = "unwind"
  /\ armed' = {} /\ pc' = "returned"
  /\ UNCHANGED <<outcome, failed, missed, due, conn, job, held>>

------------------------------------------------------------------------------
(* The handlers of the connection.                                          *)

Idle(u) == job[u] = <<>>
Does(u, steps) == job' = [job EXCEPT ![u] = steps]

\* Mutant: ready without a signal.
HandshakeReady_silent ==
  /\ Idle("reader") /\ reading /\ stage_ = "open"
  /\ Does("reader", <<<<"hs_ready", "self">>, <<"ready_true", "self">>>>)
  /\ UNCHANGED <<caller, conn, held>>

\* The server's ready capsule was read: the handshake is ready, then the
\* protocol, then on_ready is emitted.
HandshakeReady ==
  /\ Idle("reader") /\ reading /\ stage_ = "open"
  /\ Does("reader", <<<<"hs_ready", "self">>, <<"ready_true", "self">>, <<"emit", "on_ready">>>>)
  /\ UNCHANGED <<caller, conn, held>>

\* A capsule that refuses or cannot be read: report and close.  Some branches
\* go to STAGE_ERROR first, the others report again when they close.
HandshakeRefused ==
  /\ Idle("reader") /\ reading /\ stage_ = "open"
  /\ stage_' \in {"open", "error"}
  /\ Does("reader", <<<<"emit", "on_init_error">>, <<"close", "self">>>>)
  /\ UNCHANGED <<caller, ready_, closed_, reading, everReady, raised, held>>

\* A read ends with an error, as every read of a closed transport does.
ReadFails ==
  /\ Idle("reader") /\ reading
  /\ reading' = FALSE
  /\ Does("reader", <<<<"ready_false", "self">>, <<"close", "self">>>>)
  /\ UNCHANGED <<caller, ready_, stage_, closed_, everReady, raised, held>>

\* process_data throws: the client closes and tells nobody.
ReadRaises ==
  /\ Idle("reader") /\ reading /\ ~closed_
  /\ reading' = FALSE /\ raised' = TRUE
  /\ Does("reader", <<<<"close", "self">>>>)
  /\ UNCHANGED <<caller, ready_, stage_, closed_, everReady, held>>

\* A write of the connection fails.
WriteError ==
  /\ Idle("writer") /\ pc \notin {"start", "connect"} /\ outcome # "raise" /\ ~closed_
  /\ Does("writer", <<<<"ready_false", "self">>, <<"close", "self">>>>)
  /\ UNCHANGED <<caller, conn, held>>

------------------------------------------------------------------------------
(* What the handlers do, step by step.                                      *)

At(u, step) == ~Idle(u) /\ Head(job[u]) = step
Rest(u) == Tail(job[u])

\* Mutant: the error leaves the protocol ready.
SetReady_stays(u) ==
  \/ /\ At(u, <<"hs_ready", "self">>) /\ stage_' = "ready" /\ Does(u, Rest(u))
     /\ UNCHANGED <<caller, ready_, closed_, reading, everReady, raised, held>>
  \/ /\ At(u, <<"ready_true", "self">>) /\ ready_' = TRUE /\ everReady' = TRUE /\ Does(u, Rest(u))
     /\ UNCHANGED <<caller, stage_, closed_, reading, raised, held>>
  \/ /\ At(u, <<"ready_false", "self">>) /\ Does(u, Rest(u))
     /\ UNCHANGED <<caller, conn, held>>

\* ready_ of the handshake, and set_ready of the protocol layer.
SetReady(u) ==
  \/ /\ At(u, <<"hs_ready", "self">>) /\ stage_' = "ready" /\ Does(u, Rest(u))
     /\ UNCHANGED <<caller, ready_, closed_, reading, everReady, raised, held>>
  \/ /\ At(u, <<"ready_true", "self">>) /\ ready_' = TRUE /\ everReady' = TRUE /\ Does(u, Rest(u))
     /\ UNCHANGED <<caller, stage_, closed_, reading, raised, held>>
  \/ /\ At(u, <<"ready_false", "self">>) /\ ready_' = FALSE /\ Does(u, Rest(u))
     /\ UNCHANGED <<caller, stage_, closed_, reading, everReady, raised, held>>

\* Mutant: neither the lock nor the flag keeps a second handler out.
Close_again(u) ==
  /\ At(u, <<"close", "self">>)
  /\ closed_' = TRUE
  /\ held' = [held EXCEPT !["close_lock_"] = u]
  /\ Does(u, (IF stage_ = "open" THEN <<<<"emit", "on_init_error">>>> ELSE <<>>)
               \o <<<<"unlock", "self">>>> \o Rest(u))
  /\ UNCHANGED <<caller, ready_, stage_, reading, everReady, raised>>

\* Close once, under close_lock_; a handshake that is not over reports it.
Close(u) ==
  /\ At(u, <<"close", "self">>) /\ held["close_lock_"] = Nobody
  /\ IF closed_ THEN Does(u, Rest(u)) /\ UNCHANGED <<closed_, held>>
     ELSE /\ closed_' = TRUE
          /\ held' = [held EXCEPT !["close_lock_"] = u]
          /\ Does(u, (IF stage_ = "open" THEN <<<<"emit", "on_init_error">>>> ELSE <<>>)
                       \o <<<<"unlock", "self">>>> \o Rest(u))
  /\ UNCHANGED <<caller, ready_, stage_, reading, everReady, raised>>

Unlock(u) ==
  /\ At(u, <<"unlock", "self">>)
  /\ held' = [held EXCEPT !["close_lock_"] = Nobody]
  /\ Does(u, Rest(u))
  /\ UNCHANGED <<caller, conn>>

\* Emit s: under its list_lock_, the slot is called unless it was given up.
Emit(u, s) ==
  /\ At(u, <<"emit", s>>) /\ held[s] = Nobody
  /\ IF s \in armed
     THEN Does(u, <<<<"call", s>>>> \o Rest(u)) /\ held' = [held EXCEPT ![s] = u]
     ELSE Does(u, Rest(u)) /\ UNCHANGED held
  /\ UNCHANGED <<caller, conn>>

\* The slot of on_init_error writes into the caller's frame first.
CallSlot(u, s) ==
  /\ At(u, <<"call", s>>)
  /\ failed' = (failed \/ s = "on_init_error")
  /\ Does(u, <<<<"notify", s>>>> \o Rest(u))
  /\ UNCHANGED <<pc, outcome, armed, missed, due, conn, held>>

\* cond->notify_all( ): it wakes a caller that is blocked and no other.
Notify(u, s) ==
  /\ At(u, <<"notify", s>>)
  /\ pc' = IF pc = "blocked" THEN "test" ELSE pc
  /\ missed' = (missed \/ pc \in {"test2", "sleep"})
  /\ held' = [held EXCEPT ![s] = Nobody]
  /\ Does(u, Rest(u))
  /\ UNCHANGED <<outcome, failed, armed, due, conn>>

WorkerSteps(u) ==
  \/ SetReady(u) \/ Close(u) \/ Unlock(u)
  \/ \E s \in Signals : Emit(u, s) \/ CallSlot(u, s) \/ Notify(u, s)

CallerSteps == Subscribe \/ Connect \/ Test \/ Block \/ LastTest \/ Decide \/ Unwind

ConnectNext ==
  \/ CallerSteps \/ TimerFires
  \/ HandshakeReady \/ HandshakeRefused \/ ReadFails \/ ReadRaises \/ WriteError
  \/ \E u \in Workers : WorkerSteps(u)

\* Threads that can run do run, and the pending read of a closed transport
\* ends with an error.  The timer is left out: ConnectReturns adds it.
ConnectFairness ==
  /\ WF_connectVars(CallerSteps)
  /\ \A u \in Workers : WF_connectVars(WorkerSteps(u))
  /\ WF_connectVars(closed_ /\ ReadFails)

ConnectSpec == ConnectInit /\ [][ConnectNext]_connectVars /\ ConnectFairness

------------------------------------------------------------------------------
(* Properties.                                                              *)

\* connect_impl succeeds only if the connection was ready and no error was
\* reported to it before it looked, and reports an error only if there was one.
HonestOutcome ==
  /\ outcome = "ok" => everReady
  /\ outcome = "internal" => failed

\* The transport is closed, or a handler is about to close it.
GoingDown ==
  closed_ \/ \E u \in Workers : \E i \in DOMAIN job[u] : job[u][i] = <<"close", "self">>

\* A notification that falls between the test and the wait costs time, never the
\* result: ERR_TIMEOUT is raised only if no failure had been reported when the ten
\* seconds were over, and if the connection had been ready by then only because it is
\* going down.  (connect_impl, on_ready_diconnect, which reads two flags one after
\* the other while the handlers write them)
NoFalseTimeout ==
  outcome = "timeout" => "failed" \notin due /\ ("ready" \in due => GoingDown)

\* Every connect returns, thanks to the timer.
ConnectReturns == WF_connectVars(TimerFires) => <>(pc = "returned")

\* Even if the timer never fires, a caller that waits is woken by an error or by ready,
\* unless its notification fell between the test and the wait.
WokenUnlessMissed ==
  (pc = "blocked" /\ (failed \/ ready_)) ~> (pc # "blocked" \/ missed \/ ~(failed \/ ready_))

\* A connection that is closed ends up not ready, whichever of two handlers
\* wrote the flag last, unless a read handler ended by an exception.
DeadIsNotReady == closed_ ~> (raised \/ [](closed_ /\ ~ready_))

\* A connect returns, at once when it is told and by its timer when it is not, and the
\* connection it leaves behind does not stay ready once it is closed.
\* (connect_impl, on_ready_s, on_init_error_s, drop_service)
ConnectLives == ConnectReturns /\ WokenUnlessMissed /\ DeadIsNotReady

\* connect_impl has an outcome exactly when it unwinds, and the outcome is true;
\* close_lock_ is held by the one handler that is closing.
OutcomeSound == ConnectTypeOK /\ HonestOutcome
==============================================================================
