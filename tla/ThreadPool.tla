------------------------------ MODULE ThreadPool ------------------------------
(***************************************************************************)
(* The pair of thread pools of lib/vtrc/common: pool-pair.cpp and          *)
(* thread-pool.cpp.                                                        *)
(*                                                                         *)
(* Each pool has an io_service with its work object and the set threads_   *)
(* of its threads, under threads_lock_.  A thread runs handlers one by one *)
(* until the io_service is stopped; a handler that throws is reported and  *)
(* the thread goes on.  join_all takes the whole set away first and then   *)
(* joins what it took, so a thread that is created but not yet inserted,   *)
(* taken by another join_all, or attached by its owner, is not waited for. *)
(***************************************************************************)
EXTENDS Naturals, Sequences, FiniteSets

CONSTANT MaxPosts   \* bound: handlers posted

Pools == {"io", "rpc"}
PoolThreads == {"io1", "io2", "rpc1"}
PoolOf(t) == IF t = "rpc1" THEN "rpc" ELSE "io"
Attached == "io2"   \* a thread of the user that runs the pool by attach
Main == "main"      \* the thread that shuts the pair down
Callers == PoolThreads \cup {Main}

\* What a handler does: nothing, throw, or shut the pair down from inside.
Handlers == {"work", "throw", "join"}

VARIABLES
  threads_,  \* pool -> the set of its threads
  created,   \* threads that run, inserted or not
  ended,     \* threads whose run returned
  wrk_,      \* pools that have their work object
  stopped,   \* pools whose io_service is stopped
  queue,     \* pool -> handlers posted
  running,   \* thread -> the handler it runs, or "none"
  adding,    \* the thread the adder has created and not yet inserted, or "none"
  does,      \* caller -> the steps of its call that are left
  joins,     \* caller -> the threads its join_all took and has not joined
  posts,     \* handlers posted so far
  inside,    \* history: threads whose handler called join_all
  missed     \* history: threads that were not in the set when main took it

vars == <<threads_, created, ended, wrk_, stopped, queue, running, adding, does, joins, posts, inside, missed>>

Init ==
  /\ threads_ = [p \in Pools |-> {}] /\ created = {} /\ ended = {}
  /\ wrk_ = Pools /\ stopped = {}
  /\ queue = [p \in Pools |-> <<>>] /\ running = [t \in PoolThreads |-> "none"]
  /\ does = [c \in Callers |-> <<>>] /\ joins = [c \in Callers |-> {}]
  /\ adding = "none" /\ posts = 0 /\ inside = {} /\ missed = {}

Steps(c, steps) == does' = [does EXCEPT ![c] = steps]
At(c, step) == does[c] # <<>> /\ Head(does[c]) = step

stop_all == <<<<"stop", "io">>, <<"stop", "rpc">>>>
join_all == <<<<"take", "io">>, <<"join", "io">>, <<"take", "rpc">>, <<"join", "rpc">>>>

\* ~pool_pair: each pool is stopped if it still has its work, and joined.
destroy == <<<<"stop", "io">>, <<"take", "io">>, <<"join", "io">>,
             <<"stop", "rpc">>, <<"take", "rpc">>, <<"join", "rpc">>>>

------------------------------------------------------------------------------
(* The users' threads.                                                      *)

\* inc: the thread runs before it is inserted into the set.
create_thread(t) ==
  /\ adding = "none" /\ t \notin created
  /\ created' = created \cup {t} /\ adding' = t
  /\ UNCHANGED <<threads_, ended, wrk_, stopped, queue, running, does, joins, posts, inside, missed>>

\* attach: the user's thread runs the pool, and is in no set.
attach(t) ==
  /\ t \notin created
  /\ created' = created \cup {t}
  /\ UNCHANGED <<threads_, ended, wrk_, stopped, queue, running, adding, does, joins, posts, inside, missed>>

inc ==
  /\ adding # "none"
  /\ threads_' = [threads_ EXCEPT ![PoolOf(adding)] = @ \cup {adding}]
  /\ adding' = "none"
  /\ UNCHANGED <<created, ended, wrk_, stopped, queue, running, does, joins, posts, inside, missed>>

post(p, h) ==
  /\ posts < MaxPosts
  /\ posts' = posts + 1
  /\ queue' = [queue EXCEPT ![p] = Append(@, h)]
  /\ UNCHANGED <<threads_, created, ended, wrk_, stopped, running, does, joins, inside, adding, missed>>

\* stop_all and join_all, or the destructor.
ShutDown(steps) ==
  /\ does[Main] = <<>> /\ wrk_ = Pools
  /\ Steps(Main, steps)
  /\ UNCHANGED <<threads_, created, ended, wrk_, stopped, queue, running, joins, posts, inside, adding, missed>>

------------------------------------------------------------------------------
(* Stopping and joining.                                                    *)

stop(c, p) ==
  /\ At(c, <<"stop", p>>)
  /\ wrk_' = wrk_ \ {p} /\ stopped' = stopped \cup {p}
  /\ Steps(c, Tail(does[c]))
  /\ UNCHANGED <<threads_, created, ended, queue, running, joins, posts, inside, adding, missed>>

\* Mutant: the caller joins itself too.
TakeThreads_self(c, p) ==
  /\ At(c, <<"take", p>>)
  /\ joins' = [joins EXCEPT ![c] = threads_[p]]
  /\ threads_' = [threads_ EXCEPT ![p] = {}]
  /\ missed' = IF c = Main THEN missed \cup {t \in created : PoolOf(t) = p /\ t \notin threads_[p]} ELSE missed
  /\ Steps(c, Tail(does[c]))
  /\ UNCHANGED <<created, ended, wrk_, stopped, queue, running, posts, inside, adding>>

\* join_all: the set is swapped out under the lock.
TakeThreads(c, p) ==
  /\ At(c, <<"take", p>>)
  /\ joins' = [joins EXCEPT ![c] = threads_[p] \ {c}]
  /\ threads_' = [threads_ EXCEPT ![p] = {}]
  /\ missed' = IF c = Main THEN missed \cup {t \in created : PoolOf(t) = p /\ t \notin threads_[p]} ELSE missed
  /\ Steps(c, Tail(does[c]))
  /\ UNCHANGED <<created, ended, wrk_, stopped, queue, running, posts, inside, adding>>

\* Mutant: nobody is waited for.
JoinThreads_none(c, p) ==
  /\ At(c, <<"join", p>>)
  /\ joins' = [joins EXCEPT ![c] = {}]
  /\ Steps(c, Tail(does[c]))
  /\ UNCHANGED <<threads_, created, ended, wrk_, stopped, queue, running, posts, inside, adding, missed>>

\* join_all: each thread is waited for, in turn.
JoinThreads(c, p) ==
  /\ At(c, <<"join", p>>)
  /\ joins[c] \subseteq ended
  /\ joins' = [joins EXCEPT ![c] = {}]
  /\ Steps(c, Tail(does[c]))
  /\ UNCHANGED <<threads_, created, ended, wrk_, stopped, queue, running, posts, inside, adding, missed>>

------------------------------------------------------------------------------
(* The threads of the pools: run_impl.                                      *)

Free(t) == t \in created \ ended /\ running[t] = "none"

\* run_one takes a handler, unless the io_service is stopped.
run_one(t) ==
  LET p == PoolOf(t) IN
  /\ Free(t) /\ p \notin stopped /\ queue[p] # <<>>
  /\ queue' = [queue EXCEPT ![p] = Tail(@)]
  /\ running' = [running EXCEPT ![t] = Head(queue[p])]
  /\ IF Head(queue[p]) = "join" THEN Steps(t, join_all) /\ inside' = inside \cup {t}
       ELSE UNCHANGED <<does, inside>>
  /\ UNCHANGED <<threads_, created, ended, wrk_, stopped, joins, posts, adding, missed>>

\* The handler returns or throws: either way the thread goes on.
HandlerEnds(t) ==
  /\ t \in created \ ended /\ running[t] # "none" /\ does[t] = <<>>
  /\ running' = [running EXCEPT ![t] = "none"]
  /\ UNCHANGED <<threads_, created, ended, wrk_, stopped, queue, does, joins, posts, inside, adding, missed>>

\* run_one returns 0 once the io_service is stopped.
RunReturns(t) ==
  /\ Free(t) /\ PoolOf(t) \in stopped
  /\ ended' = ended \cup {t}
  /\ UNCHANGED <<threads_, created, wrk_, stopped, queue, running, does, joins, posts, inside, adding, missed>>

Call(c) == \E p \in Pools : stop(c, p) \/ TakeThreads(c, p) \/ JoinThreads(c, p)
Thread(t) == run_one(t) \/ HandlerEnds(t) \/ RunReturns(t)

Next ==
  \/ \E t \in PoolThreads \ {Attached} : create_thread(t)
  \/ attach(Attached)
  \/ inc
  \/ \E p \in Pools, h \in Handlers : post(p, h)
  \/ ShutDown(stop_all \o join_all) \/ ShutDown(destroy)
  \/ \E c \in Callers : Call(c)
  \/ \E t \in PoolThreads : Thread(t)

\* Threads run; the user need not create, post or shut down.
Fairness ==
  /\ WF_vars(inc)
  /\ \A c \in Callers : WF_vars(Call(c))
  /\ \A t \in PoolThreads : WF_vars(Thread(t))

Spec == Init /\ [][Next]_vars /\ Fairness

------------------------------------------------------------------------------
(* Properties.                                                              *)

\* When the shutdown has returned, no thread runs that was in the set when the
\* shutdown took it; a thread that was just being added, that is attached, or
\* that a handler's own join_all took, may.  (join_all)
NoThreadLeft ==
  does[Main] = <<>> /\ wrk_ = {} /\ inside = {} =>
    \A t \in created \ (ended \cup {Attached}) : t \in missed \/ t = adding \/ t \in threads_[PoolOf(t)]

ShutsDown == stopped = Pools
Returned ==
  \/ \A c \in Callers : does[c] = <<>>
  \/ \E t, u \in inside : PoolOf(t) # PoolOf(u)

\* Once the pools are stopped every join_all returns, the one of the shutdown and
\* those of handlers, unless handlers of both pools call it: each of
\* them may have taken the other one's thread.
ShutDownReturns == ShutsDown ~> Returned
===============================================================================
