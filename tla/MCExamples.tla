----------------------------- MODULE MCExamples ------------------------------
(***************************************************************************)
(* The example programs and the draft, one beside the other: an initial    *)
(* state chooses which of them runs.  The parts share the variables v1,    *)
(* v2, ..., in the order in which each part declares its own; a part that  *)
(* has fewer leaves the others zero.                                       *)
(***************************************************************************)
EXTENDS Naturals, Sequences

CONSTANT MaxChanges   \* bound: changes of the lukki-db database

\* Two units in every order: a call without a body, a message with a body that ends
\* in the byte 175, an error whose text has two lines, an error whose text has an empty
\* line, and a call whose identifier is too wide.
Unit(call, error, text, id, target, opt, body) ==
  [call |-> call, error |-> error, category |-> IF error = 0 THEN 0 ELSE 1, additional |-> text,
   id |-> id, target_id |-> target, message_type |-> 5, opt |-> opt, body |-> body]
Say == <<"howto", "hello", "say">>
Units == {
  Unit(Say, 0, <<>>, 7, 0, {"wait", "accept_response"}, <<>>),
  Unit(<<>>, 0, <<>>, 7, 3, {"accept_callbacks"}, <<0, 175>>),
  Unit(Say, 2, << <<"no">>, <<>>, <<"such">> >>, 7, 3, {"wait"}, <<1>>),
  Unit(Say, 2, << <<"no">>, <<>>, <<>>, <<"such">> >>, 7, 3, {"wait"}, <<1>>),
  Unit(Say, 0, <<>>, 10, 0, {"wait"}, <<>>)}
Plans == Units \X Units

VARIABLES
  part,   \* the model that runs; it never changes
  v1, v2, v3, v4, v5, v6, v7, v8, v9, v10, v11, v12, v13

all == <<part, v1, v2, v3, v4, v5, v6, v7, v8, v9, v10, v11, v12, v13>>

Fs == INSTANCE RemoteFs WITH
  MaxObjects <- 3, MaxHandles <- 5, Entries <- 2, handle_index_ <- v1,
  file_index_ <- v2, fs_inst_ <- v3, iterators_ <- v4, files_ <- v5, shares <- v6,
  position <- v7, object <- v8, call <- v9, cloned <- v10, beyond <- v11

Transfer == INSTANCE FileTransfer WITH
  Size <- 3, block_size <- 3, max_block_length <- 2, how <- v1, walk <- v2,
  file <- v3, block <- v4, at <- v5, sink <- v6, made <- v7, short <- v8, lost <- v9,
  full <- v10, bad <- v11, state <- v12

Stress == INSTANCE StressServer WITH
  MaxFails <- 2, listener <- v1, retry_timer_ <- v2, handlers <- v3, stage <- v4,
  client <- v5, timer <- v6, map_ <- v7, fails <- v8, superseded <- v9, down <- v10

Recursion == INSTANCE StressCalls WITH
  balance <- 2, count <- 2, rpc_threads <- 2, job <- v1, waits <- v2, inbox <- v3,
  server <- v4, channel_ <- v5, left <- v6, handled <- v7, failed <- v8, mixed <- v9

Db == INSTANCE LukkiDb WITH
  MaxChanges <- MaxChanges, open <- v1, call <- v2, event_queue_ <- v3, db_ <- v4,
  subscribers_ <- v5, got <- v6, log <- v7, since <- v8

Draft == INSTANCE DraftServer WITH
  MaxMessages <- 3, Size <- 2, server <- v1, socket <- v2, reading <- v3,
  active_ <- v4, connections <- v5, slots <- v6, strand <- v7, write_queue_ <- v8,
  total <- v9, writing <- v10, wire <- v11, log <- v12

Epoll == INSTANCE EpollDraft WITH
  MaxBytes <- 3, main <- v1, thread <- v2, fd <- v3, add_event <- v4, heap <- v5,
  polled <- v6, edges <- v7, unread <- v8, arrived <- v9, callbacks <- v10

Calc == INSTANCE Calculator WITH
  test <- v1, waits <- v2, request <- v3, variables_ <- v4, callbacks <- v5,
  outcome <- v6, alive <- v7

Ssl == INSTANCE SslHandshake WITH
  Messages <- 4, flights <- v1, in_ <- v2, out_ <- v3, block <- v4, turn <- v5,
  sent <- v6, decoded <- v7, echoed <- v8, failed <- v9

Http == INSTANCE HttpFraming WITH
  Plans <- Plans, MaxUnsigned <- 9, plan <- v1, wire <- v2, chunk <- v3, parser <- v4,
  container_ <- v5, ok <- v6, received <- v7, open <- v8, seen <- v9

Events == INSTANCE HelloEvents WITH
  open <- v1, main <- v2, job <- v3, net <- v4, slot <- v5, rpc_pool <- v6,
  handled <- v7, called <- v8, requests <- v9, handler <- v10

Proxies == INSTANCE Proxy WITH
  open <- v1, main <- v2, requests <- v3, clients_ <- v4, handler <- v5, inbox <- v6,
  served <- v7, missing <- v8

Custom == INSTANCE CustomTransport WITH
  Threads <- {"t1", "t2"}, MaxCalls <- 4, file <- v1, main <- v2, read <- v3,
  queue <- v4, job <- v5, stopped <- v6, services_ <- v7, made <- v8, uses <- v9,
  current_calls_ <- v10, count <- v11, printed <- v12, clients <- v13

------------------------------------------------------------------------------
\* The variables above the first n: zero from the start, and left alone.
Spare12 == v13 = 0
Spare11 == v12 = 0 /\ Spare12
Spare10 == v11 = 0 /\ Spare11
Spare9 == v10 = 0 /\ Spare10
Spare8 == v9 = 0 /\ Spare9
Spare7 == v8 = 0 /\ Spare8

Same13 == UNCHANGED part
Same12 == UNCHANGED <<part, v13>>
Same11 == UNCHANGED <<part, v12, v13>>
Same10 == UNCHANGED <<part, v11, v12, v13>>
Same9 == UNCHANGED <<part, v10, v11, v12, v13>>
Same8 == UNCHANGED <<part, v9, v10, v11, v12, v13>>
Same7 == UNCHANGED <<part, v8, v9, v10, v11, v12, v13>>

Init ==
  \/ part = "remote-fs" /\ Fs!Init /\ Spare11
  \/ part = "transfer" /\ Transfer!Init /\ Spare12
  \/ part = "stress" /\ Stress!Init /\ Spare10
  \/ part = "recursion" /\ Recursion!Init /\ Spare9
  \/ part = "lukki-db" /\ Db!Init /\ Spare8
  \/ part = "draft" /\ Draft!Init /\ Spare12
  \/ part = "epoll" /\ Epoll!Init /\ Spare10
  \/ part = "calculator" /\ Calc!Init /\ Spare7
  \/ part = "ssl" /\ Ssl!Init /\ Spare9
  \/ part = "http" /\ Http!Init /\ Spare9
  \/ part = "events" /\ Events!Init /\ Spare10
  \/ part = "proxy" /\ Proxies!Init /\ Spare8
  \/ part = "custom" /\ Custom!Init

Next ==
  \/ part = "remote-fs" /\ Fs!Next /\ Same11
  \/ part = "transfer" /\ Transfer!Next /\ Same12
  \/ part = "stress" /\ Stress!Next /\ Same10
  \/ part = "recursion" /\ Recursion!Next /\ Same9
  \/ part = "lukki-db" /\ Db!Next /\ Same8
  \/ part = "draft" /\ Draft!Next /\ Same12
  \/ part = "epoll" /\ Epoll!Next /\ Same10
  \/ part = "calculator" /\ Calc!Next /\ Same7
  \/ part = "ssl" /\ Ssl!Next /\ Same9
  \/ part = "http" /\ Http!Next /\ Same9
  \/ part = "events" /\ Events!Next /\ Same10
  \/ part = "proxy" /\ Proxies!Next /\ Same8
  \/ part = "custom" /\ Custom!Next /\ Same13

\* The fairness of the parts.  Only one part runs, so that the i-th condition is
\* that of this part.
Client == <<"c1", "c2", "c3">>
Thread == <<"t1", "t2", "main">>

Fair(i) ==
  \/ part = "transfer" /\ Same12 /\ i = 1 /\ Transfer!Step
  \/ /\ part = "stress" /\ Same10
     /\ \/ i = 1 /\ Stress!StopSteps
        \/ i = 2 /\ Stress!RetrySteps
        \/ i \in 3..4 /\ Stress!Fires(Client[i - 2])
        \/ i \in 5..6 /\ Stress!timer_handler(Client[i - 4])
  \/ /\ part = "recursion" /\ Same9
     /\ \/ i \in 1..2 /\ Recursion!ClientStep(Thread[i])
        \/ i \in 3..4 /\ Recursion!ServerStep(Thread[i - 2])
  \/ part = "lukki-db" /\ Same8 /\ i = 1 /\ Db!Strand
  \/ part = "draft" /\ Same12 /\ i \in 1..2 /\ Draft!Handlers(<<"p1", "p2">>[i])
  \/ part = "epoll" /\ Same10 /\ ((i = 1 /\ Epoll!Main) \/ (i = 2 /\ Epoll!Thread))
  \/ /\ part = "calculator" /\ Same7 /\ i = 1
     /\ Calc!call \/ Calc!extract_num_pair \/ Calc!answer
  \/ part = "ssl" /\ Same9 /\ i = 1 /\ Ssl!Step
  \/ part = "http" /\ Same9 /\ i = 1 /\ Http!Next
  \/ /\ part = "events" /\ Same10
     /\ \/ i \in 1..2 /\ Events!read(Client[i])
        \/ i \in 3..4 /\ Events!hello_event(Client[i - 2])
        \/ i \in 5..6 /\ Events!MainThread(Client[i - 4])
        \/ i = 7 /\ Events!Server
  \/ /\ part = "proxy" /\ Same8
     /\ \/ i \in 1..3 /\ Proxies!send_hello(Client[i])
        \/ i = 4 /\ Proxies!Server
  \/ /\ part = "custom" /\ Same13
     /\ \/ i \in 1..3 /\ Custom!Runs(Thread[i])
        \/ i = 4 /\ Custom!Main

Spec == Init /\ [][Next]_all /\ \A i \in 1..7 : WF_all(Fair(i))

------------------------------------------------------------------------------
(* Properties.                                                              *)

\* Nothing of a file or of a resource of the server is lost or kept, but for the
\* cases the modules name: the handles of remote-fs, the bytes of a transfer, the
\* calls of the file hello-custom-transport serves, and the listeners of a stress
\* server that was stopped.
\* (remote-fs-impl.cpp, rfs-push-file.cpp, stress-application.cpp,
\* hello-custom-transport/server)
FilesRight ==
  /\ part = "remote-fs" => Fs!OwnersServed /\ Fs!NothingLeft
  /\ part = "transfer" => Transfer!CompleteMeansWhole
  /\ part = "custom" => Custom!EveryCallCounted
  /\ part = "stress" => Stress!StoppedForGood

\* What a call answers is what was done for it: recursive calls and events of the
\* stress service, the calculator with its callbacks, the callback of hello-events, the
\* pong behind the proxy, and the events of lukki-db.
\* (stress-service-impl.cpp, calculator, hello-events, proxy-test, lukki-db)
AnswersRight ==
  /\ part = "recursion" => Recursion!FailsOnlyMixed
  /\ part = "calculator" => Calc!OutcomesRight
  /\ part = "events" => Events!OkMeansCalled
  /\ part = "proxy" => Proxies!PongIsServed
  /\ part = "lukki-db" => Db!NoEventMissed

\* A stream gives what was put in, in order and on time, however reads and writes
\* divide it.  (draft/common: async-transport-point.hpp, ssl-wrapper.h,
\* http-header.hpp, draft/client)
StreamsRight ==
  /\ part = "draft" => Draft!StreamKept
  /\ part = "ssl" => Ssl!RepliesInOrder
  /\ part = "http" => Http!UnitsOnTime
  /\ part = "epoll" => Epoll!BytesCovered

\* What the i-th promise of a part waits for, and what fulfils it.
Asked(i) ==
  \/ part = "transfer" /\ i = 1 /\ ~Transfer!Ended
  \/ part = "stress" /\ i \in 1..2 /\ Stress!Failed(<<"l1", "l2">>[i])
  \/ part = "stress" /\ i \in 3..4 /\ Stress!Outlives(Client[i - 2])
  \/ part = "recursion" /\ i \in 1..2 /\ Recursion!Out(Thread[i])
  \/ part = "lukki-db" /\ i \in 1..2 /\ Db!Waits(Client[i])
  \/ part = "draft" /\ i \in 1..2 /\ Draft!Behind(<<"p1", "p2">>[i])
  \/ part = "epoll" /\ i = 1 /\ Epoll!Handed
  \/ part = "calculator" /\ i = 1 /\ ~Calc!Finished
  \/ part = "ssl" /\ i = 1 /\ ~Ssl!Finished
  \/ part = "http" /\ i = 1 /\ ~Http!Finished
  \/ part = "events" /\ i \in 1..2 /\ Events!Waits(Client[i])
  \/ part = "proxy" /\ i \in 1..3 /\ Proxies!Waits(Client[i])
  \/ part = "custom" /\ i = 1 /\ ~Custom!Finished

\* Nobody waits for ever: a transfer, a failed listener, a timer of a client that is
\* gone, a call, a message, a program; but for the cases the modules name.
\* (push_file, on_accept_failed, timer_cb, call_and_wait, write_impl, main)
NobodyWaitsForEver == \A i \in 1..4 : Asked(i) ~> ~Asked(i)
==============================================================================
