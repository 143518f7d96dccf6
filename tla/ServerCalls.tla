------------------------------ MODULE ServerCalls ------------------------------
(***************************************************************************)
(* The called half of a server connection: process_call counts a request   *)
(* in current_calls_ and hands it to the pool, or answers ERR_BUSY; a pool *)
(* thread runs make_local_call; the service method runs its done closure   *)
(* inside the call, hands it to another thread (call_keeper), throws, or   *)
(* throws with the closure run by a closure_holder on the way out.         *)
(*                                                                         *)
(* call_done, which gives the counted place back, hangs on the life of the *)
(* closure_holder_type: a reference count shared by make_local_call's      *)
(* frame, the protobuf closure (a cycle cut by running it) and whoever is  *)
(* inside closure_runner.                                                  *)
(***************************************************************************)
EXTENDS Naturals, Sequences, FiniteSets

CONSTANTS
  MaxCalls,    \* bound: how many requests the client sends
  MaxActive,   \* session_options::max_active_calls
  UintMax,     \* largest value of the unsigned current_calls_
  Outcomes     \* what a closure may answer: the response, or a failure

ASSUME ServerCallsAssumption ==
  /\ MaxCalls \in Nat
  /\ MaxActive \in Nat
  /\ UintMax \in Nat
  /\ MaxCalls < UintMax
  /\ Outcomes \subseteq {"response", "failed"}

Call == 1..MaxCalls

VARIABLES
  current,      \* protocol_layer_s::impl::current_calls_
  arrived,      \* how many requests were popped so far
  wait,         \* opt().wait() of each request
  pc,           \* where each request is
  closure,      \* proto_closure_: absent, live (it holds the holder), run or unwound
  kept,         \* the method gave its closure to another thread
  runner,       \* that thread is inside closure_runner
  internal,     \* internal_closure_ is set
  dispatching,  \* the read handler is in on_rcp_call_ready; it holds the connection
  reading,      \* the connection still reads
  ready,        \* protocol_layer::ready_
  dropped,      \* the connection was closed and left the connection list
  answers,      \* history: what was sent about each request
  doneRuns,     \* history: how often call_done ran for each request
  threw,        \* history: calls whose method or lookup raised
  early         \* history: a request was refused below the limit

callVars   == <<wait, pc, closure, kept, runner, internal>>
readerVars == <<arrived, dispatching, reading>>
connVars   == <<ready, dropped>>
vars == <<current, callVars, readerVars, connVars, answers, doneRuns, threw,
          early>>

\* make_local_call is on a pool thread's stack.
Frame == {"method", "failing", "settle", "leave"}
Pcs   == {"none", "busy", "queued", "over"} \cup Frame
Reply == {"response", "failed", "error", "busy"}

\* The pool's functor and the dispatch loop hold the connection; a closure
\* has only a weak pointer to it.
Alive == \/ ~dropped
         \/ dispatching
         \/ \E c \in Call : pc[c] \in Frame \cup {"queued"}

\* The calls that hold one of the max_active_calls places.
Counted == {c \in Call : pc[c] # "none" /\ doneRuns[c] = 0}

\* The calls that are still being worked on: queued, on a pool thread, or
\* with a closure that some thread runs or is going to run.
Active == {c \in Call : \/ pc[c] \in Frame \cup {"queued"}
                        \/ kept[c] /\ closure[c] = "live"
                        \/ runner[c]}

\* Those of them that have not been given up by an exception.
Executing == {c \in Call : \/ pc[c] \in {"queued", "method"}
                           \/ kept[c] /\ closure[c] = "live" /\ c \notin threw}

Init ==
  /\ current = 0
  /\ arrived = 0
  /\ wait = [c \in Call |-> FALSE]
  /\ pc = [c \in Call |-> "none"]
  /\ closure = [c \in Call |-> "absent"]
  /\ kept = [c \in Call |-> FALSE]
  /\ runner = [c \in Call |-> FALSE]
  /\ internal = [c \in Call |-> FALSE]
  /\ dispatching = FALSE
  /\ reading = TRUE
  /\ ready = TRUE
  /\ dropped = FALSE
  /\ answers = [c \in Call |-> <<>>]
  /\ doneRuns = [c \in Call |-> 0]
  /\ threw = {}
  /\ early = FALSE

Send(c, kind) == answers' = [answers EXCEPT ![c] = Append(@, kind)]

Decrement(n) == IF n = 0 THEN UintMax ELSE n - 1

call_done(c) ==
  /\ current' = Decrement(current)
  /\ doneRuns' = [doneRuns EXCEPT ![c] = @ + 1]
------------------------------------------------------------------------------
(* The read handler.                                                        *)

DataReady ==
  /\ reading /\ ~dispatching /\ ~dropped
  /\ dispatching' = TRUE
  /\ UNCHANGED <<current, callVars, arrived, reading, connVars, answers,
                 doneRuns, threw, early>>

\* Mutant: the limit is tested before the call is counted, with <=.
process_call_off_by_one(w) ==
  /\ dispatching /\ arrived < MaxCalls
  /\ \A c \in Call : pc[c] # "busy"
  /\ arrived' = arrived + 1
  /\ current' = current + 1
  /\ wait' = [wait EXCEPT ![arrived + 1] = w]
  /\ pc' = [pc EXCEPT ![arrived + 1] =
              IF current <= MaxActive THEN "queued" ELSE "busy"]
  /\ UNCHANGED early
  /\ UNCHANGED <<closure, kept, runner, internal, dispatching, reading,
                 connVars, answers, doneRuns, threw>>

\* process_call: count the request, then either give it to the pool ...
process_call(w) ==
  /\ dispatching /\ arrived < MaxCalls
  /\ \A c \in Call : pc[c] # "busy"
  /\ arrived' = arrived + 1
  /\ current' = current + 1
  /\ wait' = [wait EXCEPT ![arrived + 1] = w]
  /\ pc' = [pc EXCEPT ![arrived + 1] =
              IF current + 1 <= MaxActive THEN "queued" ELSE "busy"]
  /\ early' = (early \/ (current + 1 > MaxActive
                         /\ Cardinality(Active) < MaxActive))
  /\ UNCHANGED <<closure, kept, runner, internal, dispatching, reading,
                 connVars, answers, doneRuns, threw>>

\* ... or refuse it. The refusal goes through call_rpc_method, which raises
\* when the layer is not ready: the read handler then ends with the place
\* still counted.
send_busy(c) ==
  /\ pc[c] = "busy"
  /\ pc' = [pc EXCEPT ![c] = "over"]
  /\ IF wait[c] /\ ~ready
       THEN /\ dispatching' = FALSE /\ reading' = FALSE
            /\ UNCHANGED <<current, doneRuns, answers>>
       ELSE /\ IF wait[c] THEN Send(c, "busy") ELSE UNCHANGED answers
            /\ call_done(c)
            /\ UNCHANGED <<dispatching, reading>>
  /\ UNCHANGED <<wait, closure, kept, runner, internal, arrived, connVars,
                 threw, early>>

\* The message queue is empty: the read handler returns.
QueueEmpty ==
  /\ dispatching
  /\ \A c \in Call : pc[c] # "busy"
  /\ dispatching' = FALSE
  /\ UNCHANGED <<current, callVars, arrived, reading, connVars, answers,
                 doneRuns, threw, early>>

\* A write error of the connection clears ready_ before it closes.
on_write_error ==
  /\ ready
  /\ ready' = FALSE
  /\ UNCHANGED <<current, callVars, readerVars, dropped, answers, doneRuns,
                 threw, early>>

\* on_close: the close closure takes the connection off the list.
on_close ==
  /\ ~dropped
  /\ dropped' = TRUE
  /\ reading' = FALSE
  /\ UNCHANGED <<current, callVars, arrived, dispatching, ready, answers,
                 doneRuns, threw, early>>
------------------------------------------------------------------------------
(* A pool thread in make_local_call.                                        *)

\* The stack is too deep, there is no such service, or no such method: the
\* holder has no connection and no closure yet.
LookupFails(c) ==
  /\ pc[c] = "queued"
  /\ pc' = [pc EXCEPT ![c] = "failing"]
  /\ internal' = [internal EXCEPT ![c] = TRUE]
  /\ threw' = threw \cup {c}
  /\ UNCHANGED <<current, wait, closure, kept, runner, readerVars, connVars,
                 answers, doneRuns, early>>

\* The closure is made and the method called.
CallMethod(c) ==
  /\ pc[c] = "queued"
  /\ pc' = [pc EXCEPT ![c] = "method"]
  /\ internal' = [internal EXCEPT ![c] = TRUE]
  /\ closure' = [closure EXCEPT ![c] = "live"]
  /\ UNCHANGED <<current, wait, kept, runner, readerVars, connVars, answers,
                 doneRuns, threw, early>>

\* The method runs its closure: the answer goes out whether or not the
\* client waits for it, as a response or as ERR_CALL_FAILED/ERR_CANCELED.
MethodRunsDone(c, kind) ==
  /\ pc[c] = "method"
  /\ closure[c] = "live" /\ ~kept[c]
  /\ closure' = [closure EXCEPT ![c] = "run"]
  /\ Send(c, kind)
  /\ UNCHANGED <<current, wait, pc, kept, runner, internal, readerVars,
                 connVars, doneRuns, threw, early>>

\* The method gives its closure to another thread.
KeepDone(c) ==
  /\ pc[c] = "method"
  /\ closure[c] = "live" /\ ~kept[c]
  /\ kept' = [kept EXCEPT ![c] = TRUE]
  /\ UNCHANGED <<current, wait, pc, closure, runner, internal, readerVars,
                 connVars, answers, doneRuns, threw, early>>

MethodReturns(c) ==
  /\ pc[c] = "method"
  /\ kept[c] \/ closure[c] = "run"
  /\ pc' = [pc EXCEPT ![c] = "leave"]
  /\ UNCHANGED <<current, wait, closure, kept, runner, internal, readerVars,
                 connVars, answers, doneRuns, threw, early>>

MethodThrows(c) ==
  /\ pc[c] = "method"
  /\ pc' = [pc EXCEPT ![c] = "failing"]
  /\ threw' = threw \cup {c}
  /\ UNCHANGED <<current, wait, closure, kept, runner, internal, readerVars,
                 connVars, answers, doneRuns, early>>

\* Mutant: the closure run by the unwinding sends its answer.
UnwindAnswers(c) ==
  /\ pc[c] = "method"
  /\ closure[c] = "live" /\ ~kept[c]
  /\ pc' = [pc EXCEPT ![c] = "failing"]
  /\ closure' = [closure EXCEPT ![c] = "unwound"]
  /\ threw' = threw \cup {c}
  /\ Send(c, "failed")
  /\ UNCHANGED <<current, wait, kept, runner, internal, readerVars, connVars,
                 doneRuns, early>>

\* The method throws and a closure_holder on its stack runs the closure:
\* inside a call context an exception in flight keeps it from answering.
UnwindRunsDone(c) ==
  /\ pc[c] = "method"
  /\ closure[c] = "live" /\ ~kept[c]
  /\ pc' = [pc EXCEPT ![c] = "failing"]
  /\ closure' = [closure EXCEPT ![c] = "unwound"]
  /\ threw' = threw \cup {c}
  /\ UNCHANGED <<current, wait, kept, runner, internal, readerVars, connVars,
                 answers, doneRuns, early>>

\* Mutant: the exception is caught and nothing is said.
FailSilently(c) ==
  /\ pc[c] = "failing"
  /\ pc' = [pc EXCEPT ![c] = IF wait[c] THEN "settle" ELSE "leave"]
  /\ UNCHANGED <<current, wait, closure, kept, runner, internal, readerVars,
                 connVars, answers, doneRuns, threw, early>>

\* The exception is caught: a client that waits gets the error.
FailReply(c) ==
  /\ pc[c] = "failing"
  /\ IF wait[c]
       THEN pc' = [pc EXCEPT ![c] = "settle"] /\ Send(c, "error")
       ELSE pc' = [pc EXCEPT ![c] = "leave"] /\ UNCHANGED answers
  /\ UNCHANGED <<current, wait, closure, kept, runner, internal, readerVars,
                 connVars, doneRuns, threw, early>>

\* Mutant: internal_closure_ stays set when done is called directly.
SettleWithoutReset(c) ==
  /\ pc[c] = "settle"
  /\ pc' = [pc EXCEPT ![c] = "leave"]
  /\ call_done(c)
  /\ UNCHANGED <<wait, closure, kept, runner, internal, readerVars, connVars,
                 answers, threw, early>>

\* Mutant: internal_closure_ is reset and done is not called.
SettleWithoutDone(c) ==
  /\ pc[c] = "settle"
  /\ pc' = [pc EXCEPT ![c] = "leave"]
  /\ internal' = [internal EXCEPT ![c] = FALSE]
  /\ UNCHANGED <<current, doneRuns, wait, closure, kept, runner, readerVars,
                 connVars, answers, threw, early>>

\* internal_closure_ is reset, then done is called directly.
Settle(c) ==
  /\ pc[c] = "settle"
  /\ pc' = [pc EXCEPT ![c] = "leave"]
  /\ internal' = [internal EXCEPT ![c] = FALSE]
  /\ call_done(c)
  /\ UNCHANGED <<wait, closure, kept, runner, readerVars, connVars, answers,
                 threw, early>>

\* call_internal, from the holder's destructor: only if the connection,
\* which the holder knows from make_closure on, still lives.
call_internal(c, alive) ==
  IF internal[c] /\ closure[c] # "absent" /\ alive
    THEN call_done(c) ELSE UNCHANGED <<current, doneRuns>>

\* make_local_call returns and drops its reference to the holder. The pool's
\* functor still holds the connection.
Leave(c) ==
  /\ pc[c] = "leave"
  /\ pc' = [pc EXCEPT ![c] = "over"]
  /\ IF closure[c] # "live" /\ ~runner[c]
       THEN call_internal(c, TRUE)
       ELSE UNCHANGED <<current, doneRuns>>
  /\ UNCHANGED <<wait, closure, kept, runner, internal, readerVars, connVars,
                 answers, threw, early>>
------------------------------------------------------------------------------
(* The thread the closure was given to.                                     *)

\* closure_runner: the closure is deleted first, so that a second run of it
\* finds nothing, then the answer is sent if the connection can be locked.
closure_runner(c, kind) ==
  /\ kept[c] /\ closure[c] = "live"
  /\ closure' = [closure EXCEPT ![c] = "run"]
  /\ runner' = [runner EXCEPT ![c] = TRUE]
  /\ IF Alive THEN Send(c, kind) ELSE UNCHANGED answers
  /\ UNCHANGED <<current, wait, pc, kept, internal, readerVars, connVars,
                 doneRuns, threw, early>>

\* It returns and drops its reference, perhaps the last one.
RunnerLeaves(c) ==
  /\ runner[c]
  /\ runner' = [runner EXCEPT ![c] = FALSE]
  /\ IF pc[c] \notin Frame
       THEN call_internal(c, Alive)
       ELSE UNCHANGED <<current, doneRuns>>
  /\ UNCHANGED <<wait, pc, closure, kept, internal, readerVars, connVars,
                 answers, threw, early>>

------------------------------------------------------------------------------
PoolStep(c) ==
  \/ LookupFails(c) \/ CallMethod(c)
  \/ \E kind \in Outcomes : MethodRunsDone(c, kind)
  \/ KeepDone(c) \/ MethodReturns(c) \/ MethodThrows(c) \/ UnwindRunsDone(c)
  \/ FailReply(c) \/ Settle(c) \/ Leave(c)

KeeperStep(c) ==
  \/ \E kind \in Outcomes : closure_runner(c, kind)
  \/ RunnerLeaves(c)

ReaderStep ==
  \/ DataReady \/ QueueEmpty
  \/ \E w \in BOOLEAN : process_call(w)
  \/ \E c \in Call : send_busy(c)

Next ==
  \/ ReaderStep \/ on_write_error \/ on_close
  \/ \E c \in Call : PoolStep(c) \/ KeeperStep(c)

Spec == Init /\ [][Next]_vars

\* The pool runs what it is given, methods end, and a closure that was kept
\* is run in the end (call_keeper runs it from its destructor).
FairSpec ==
  /\ Spec
  /\ \A c \in Call : WF_vars(PoolStep(c)) /\ WF_vars(KeeperStep(c))
  /\ \A c \in Call : WF_vars(send_busy(c))
------------------------------------------------------------------------------
\* Types of the variables; current_calls_ never wraps below zero.
TypeOK ==
  /\ current \in 0..MaxCalls
  /\ arrived \in 0..MaxCalls
  /\ wait \in [Call -> BOOLEAN]
  /\ pc \in [Call -> Pcs]
  /\ closure \in [Call -> {"absent", "live", "run", "unwound"}]
  /\ kept \in [Call -> BOOLEAN]
  /\ runner \in [Call -> BOOLEAN]
  /\ internal \in [Call -> BOOLEAN]
  /\ dispatching \in BOOLEAN
  /\ reading \in BOOLEAN
  /\ ready \in BOOLEAN
  /\ dropped \in BOOLEAN
  /\ answers \in [Call -> Seq(Reply)]
  /\ doneRuns \in [Call -> Nat]
  /\ threw \subseteq Call
  /\ early \in BOOLEAN

\* current_calls_ is exactly the number of calls that took a place and have
\* not given it back, and none gives it back twice: the direct call of done
\* after an exception and the destructor of the holder exclude each other
\* whatever order the pool thread and a keeper's thread drop it in.
CounterExact ==
  /\ current = Cardinality(Counted)
  /\ \A c \in Call : doneRuns[c] <= 1

\* No more than max_active_calls calls of one connection execute at once,
\* those whose closure is kept for later included.
WithinLimit == Cardinality(Executing) <= MaxActive

\* Nobody is going to work on c again: its frame is gone, and its closure
\* was run, was never made, or was lost by a method that threw.
Settled(c) == pc[c] = "over" /\ ~runner[c] /\ ~(kept[c] /\ closure[c] = "live")

\* The refusal of c raised in call_rpc_method.
RefusalRaised(c) == c \notin threw /\ closure[c] = "absent" /\ ~reading

\* Every call gives its place back in the end, on every path but three: its
\* kept closure outlived the connection, its refusal raised, or it failed
\* before its closure ran and nobody waits for it.
PlaceReturned ==
  \A c \in Call :
    Settled(c) /\ doneRuns[c] = 0 =>
      \/ kept[c] /\ dropped
      \/ RefusalRaised(c)
      \/ ~wait[c] /\ c \in threw /\ closure[c] \in {"absent", "live"}

\* A client that waits hears exactly once about its call, unless the method
\* both ran (or kept) its closure and threw: then it hears at most twice.
AnsweredOnce ==
  \A c \in Call :
    /\ Len(answers[c]) <= IF c \in threw /\ closure[c] = "run" THEN 2 ELSE 1
    /\ Settled(c) /\ wait[c] /\ answers[c] = <<>> =>
         (kept[c] /\ dropped) \/ RefusalRaised(c)

\* ERR_BUSY means that max_active_calls calls are active.
BusyOnlyAtLimit == ~early

\* Every call the server accepted and the client waits for is answered and
\* gives its place back, unless the connection dies.
Served ==
  \A c \in Call :
    pc[c] = "queued" /\ wait[c] ~>
      (answers[c] # <<>> /\ doneRuns[c] = 1) \/ ~Alive
================================================================================
