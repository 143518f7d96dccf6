----------------------------- MODULE StressServer -----------------------------
(***************************************************************************)
(* The server of examples/stress: its listeners, the one retry_timer_ that *)
(* restarts a listener whose accept failed, the timer events that clients  *)
(* register, and stop, which a client's shutdown call runs.                *)
(*                                                                         *)
(* All listeners share retry_timer_, and call on a timer that is pending   *)
(* aborts the wait before it: the listener that waited is never restarted. *)
(* stop stops the listeners before it cancels the timer and before it stops*)
(* the io pool, so a retry may start a listener behind it.                 *)
(***************************************************************************)
EXTENDS Naturals, FiniteSets

CONSTANT MaxFails     \* bound: failures of accept and of start

Listeners == {"l1", "l2"}
Clients == {"c1", "c2"}
None == "none"

VARIABLES
  listener,     \* listener -> "new", "on", "failed" or "off"
  retry_timer_, \* the listener the pending wait is for, or None
  handlers,     \* retry handlers that wait for an io thread: [l, aborted]
  stage,        \* what run and stop have done
  client,       \* client -> "away", "open" or "closed"
  timer,        \* client -> its timer event: "none", "wait", "fired" or "ended"
  map_,         \* clients whose timer event has an entry in map_
  fails,        \* failures so far
  superseded,   \* history: listeners whose retry another's aborted
  down          \* history: listeners that were down when stop came to them

vars == <<listener, retry_timer_, handlers, stage, client, timer, map_, fails, superseded, down>>

Init ==
  /\ listener = [l \in Listeners |-> "new"] /\ retry_timer_ = None /\ handlers = {}
  /\ stage = "starting" /\ client = [c \in Clients |-> "away"]
  /\ timer = [c \in Clients |-> "none"] /\ map_ = {}
  /\ fails = 0 /\ superseded = {} /\ down = {}

PoolRuns == stage \notin {"done", "returned"}
TimerPoolRuns == stage \in {"starting", "run"}

------------------------------------------------------------------------------
(* run and the listeners.                                                   *)

\* create_from_string, attach_start_listener: a listener that cannot start
\* throws out of run.
attach_start_listener(l) ==
  /\ stage = "starting" /\ listener[l] = "new"
  /\ listener' = [listener EXCEPT ![l] = "on"]
  /\ UNCHANGED <<retry_timer_, handlers, stage, client, timer, map_, fails, superseded, down>>

\* run: the thread joins the pool; the counter timer only prints.
run ==
  /\ stage = "starting" /\ \A l \in Listeners : listener[l] # "new"
  /\ stage' = "run"
  /\ UNCHANGED <<listener, retry_timer_, handlers, client, timer, map_, fails, superseded, down>>

\* start_retry_accept: expires_from_now aborts the wait that is pending.
start_retry_accept(l, waiting) ==
  /\ retry_timer_' = l
  /\ handlers' = IF retry_timer_ = None THEN waiting
                   ELSE waiting \cup {[l |-> retry_timer_, aborted |-> TRUE]}
  /\ superseded' = IF retry_timer_ = None THEN superseded \ {l}
                     ELSE (superseded \cup {retry_timer_}) \ {l}

\* Mutant: the failure is only reported.
on_accept_failed_quiet(l) ==
  /\ PoolRuns /\ listener[l] = "on" /\ fails < MaxFails
  /\ listener' = [listener EXCEPT ![l] = "failed"] /\ fails' = fails + 1
  /\ UNCHANGED <<retry_timer_, handlers, superseded>>
  /\ UNCHANGED <<stage, client, timer, map_, down>>

\* on_accept_failed: the acceptor gave up the listener.
on_accept_failed(l) ==
  /\ PoolRuns /\ listener[l] = "on" /\ fails < MaxFails
  /\ listener' = [listener EXCEPT ![l] = "failed"] /\ fails' = fails + 1
  /\ start_retry_accept(l, handlers)
  /\ UNCHANGED <<stage, client, timer, map_, down>>

\* The time is over: the handler waits for an io thread.
Expires ==
  /\ retry_timer_ # None /\ PoolRuns
  /\ handlers' = handlers \cup {[l |-> retry_timer_, aborted |-> FALSE]}
  /\ retry_timer_' = None
  /\ UNCHANGED <<listener, stage, client, timer, map_, fails, superseded, down>>

\* retry_timer_handler: nothing if the wait was aborted; if start throws, the
\* next retry.
retry_timer_handler(h) ==
  /\ PoolRuns /\ h \in handlers
  /\ \/ /\ ~h.aborted
        /\ listener' = [listener EXCEPT ![h.l] = "on"]
        /\ handlers' = handlers \ {h}
        /\ UNCHANGED <<retry_timer_, fails, superseded>>
     \/ /\ ~h.aborted /\ fails < MaxFails
        /\ fails' = fails + 1
        /\ start_retry_accept(h.l, handlers \ {h})
        /\ UNCHANGED listener
     \/ /\ h.aborted
        /\ handlers' = handlers \ {h}
        /\ UNCHANGED <<listener, retry_timer_, fails, superseded>>
  /\ UNCHANGED <<stage, client, timer, map_, down>>

------------------------------------------------------------------------------
(* Connections and timer events.                                            *)

on_new_connection(c) ==
  /\ PoolRuns /\ client[c] = "away" /\ \E l \in Listeners : listener[l] = "on"
  /\ client' = [client EXCEPT ![c] = "open"]
  /\ UNCHANGED <<listener, retry_timer_, handlers, stage, timer, map_, fails, superseded, down>>

\* The client goes, or asks for it with close_me.
on_stop_connection(c) ==
  /\ PoolRuns /\ client[c] = "open"
  /\ client' = [client EXCEPT ![c] = "closed"]
  /\ UNCHANGED <<listener, retry_timer_, handlers, stage, timer, map_, fails, superseded, down>>

\* add_timer_event starts the timer first and files it then: a short timer
\* fires before its entry is there.
\* A client registers one timer.
reg(c) == client[c] = "open" /\ timer[c] = "none"

add_timer_event(c) ==
  /\ PoolRuns /\ reg(c)
  /\ timer' = [timer EXCEPT ![c] = "wait"]
  /\ UNCHANGED <<listener, retry_timer_, handlers, stage, client, map_, fails, superseded, down>>

InsertEvent(c) ==
  /\ PoolRuns /\ timer[c] # "none" /\ c \notin map_
  /\ map_' = map_ \cup {c}
  /\ UNCHANGED <<listener, retry_timer_, handlers, stage, client, timer, fails, superseded, down>>

Fires(c) ==
  /\ TimerPoolRuns /\ timer[c] = "wait"
  /\ timer' = [timer EXCEPT ![c] = "fired"]
  /\ UNCHANGED <<listener, retry_timer_, handlers, stage, client, map_, fails, superseded, down>>

\* Mutant: the answer of timer_cb does not depend on the connection.
timer_cb_true(c) == TRUE

\* timer_cb: the event is sent while the connection lives.
timer_cb(c) == client[c] = "open"

\* timer_handler: the timer is started again while the callback says so.
timer_handler(c) ==
  /\ TimerPoolRuns /\ timer[c] = "fired"
  /\ timer' = [timer EXCEPT ![c] = IF timer_cb(c) THEN "wait" ELSE "ended"]
  /\ UNCHANGED <<listener, retry_timer_, handlers, stage, client, map_, fails, superseded, down>>

------------------------------------------------------------------------------
(* stop, on the rpc thread of the shutdown call.                            *)

\* timer_pool_.stop, join_all: nothing of the timers runs from here on.
stop ==
  /\ stage = "run" /\ \E c \in Clients : client[c] = "open"
  /\ stage' = "listeners"
  /\ UNCHANGED <<listener, retry_timer_, handlers, client, timer, map_, fails, superseded, down>>

\* Mutant: the loop ends one listener early.
stop_listener_short(l) ==
  /\ stage = "listeners" /\ l = "l1"
  /\ listener' = [listener EXCEPT ![l] = "off"]
  /\ down' = IF listener[l] = "failed" THEN down \cup {l} ELSE down
  /\ stage' = "cancel"
  /\ UNCHANGED <<retry_timer_, handlers, client, timer, map_, fails, superseded>>

\* The loop over listeners_ stops them in their order, one after the other.
stop_listener(l) ==
  /\ \/ stage = "listeners" /\ l = "l1" /\ stage' = "second"
     \/ stage = "second" /\ l = "l2" /\ stage' = "cancel"
  /\ listener' = [listener EXCEPT ![l] = "off"]
  /\ down' = IF listener[l] = "failed" THEN down \cup {l} ELSE down
  /\ UNCHANGED <<retry_timer_, handlers, client, timer, map_, fails, superseded>>

\* retry_timer_.cancel: a handler that already waits for a thread stays.
cancel_retry ==
  /\ stage = "cancel"
  /\ stage' = "stop_all"
  /\ retry_timer_' = None
  /\ handlers' = IF retry_timer_ = None THEN handlers
                   ELSE handlers \cup {[l |-> retry_timer_, aborted |-> TRUE]}
  /\ UNCHANGED <<listener, client, timer, map_, fails, superseded, down>>

\* pp_.stop_all: no handler starts any more.
stop_all ==
  /\ stage = "stop_all"
  /\ stage' = "done"
  /\ UNCHANGED <<listener, retry_timer_, handlers, client, timer, map_, fails, superseded, down>>

\* attach returns, and so do join_all and run.
run_returns ==
  /\ stage = "done"
  /\ stage' = "returned"
  /\ UNCHANGED <<listener, retry_timer_, handlers, client, timer, map_, fails, superseded, down>>

StopSteps == cancel_retry \/ stop_all \/ run_returns \/ \E l \in Listeners : stop_listener(l)
RetrySteps == Expires \/ \E h \in handlers : retry_timer_handler(h)

Next ==
  \/ run \/ stop \/ StopSteps \/ Expires
  \/ \E l \in Listeners : attach_start_listener(l) \/ on_accept_failed(l)
  \/ \E h \in handlers : retry_timer_handler(h)
  \/ \E c \in Clients :
       \/ on_new_connection(c) \/ on_stop_connection(c)
       \/ add_timer_event(c) \/ InsertEvent(c) \/ Fires(c) \/ timer_handler(c)

\* The pools run their handlers, and stop runs to its end.
Spec ==
  /\ Init /\ [][Next]_vars
  /\ WF_vars(StopSteps) /\ WF_vars(RetrySteps)
  /\ \A c \in Clients : WF_vars(Fires(c)) /\ WF_vars(timer_handler(c))

------------------------------------------------------------------------------
(* Properties.                                                              *)

Failed(l) == listener[l] = "failed" /\ l \notin superseded /\ stage = "run"

\* A listener that failed is started again, unless the failure of another took
\* the timer from it or the server is stopped.
FailedIsRetried == \A l \in Listeners : Failed(l) ~> ~Failed(l)

\* When stop has returned, a listener listens only if it was down when stop came
\* to it, so that a retry of it was under way.
StoppedForGood ==
  \A l \in Listeners :
    stage \in {"done", "returned"} /\ listener[l] = "on" => l \in down

Outlives(c) == client[c] = "closed" /\ timer[c] \notin {"none", "ended"} /\ TimerPoolRuns

\* The timer event of a client that is gone ends, unless the server stops.
TimersEnd == \A c \in Clients : Outlives(c) ~> ~Outlives(c)
==============================================================================
