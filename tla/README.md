# A TLA+ verification of vtrc

vtrc is a C++ library for remote procedure calls over protobuf: a client and a
server share one connection, either may call the other, and a call may cause
callbacks while its caller waits. This directory holds TLA+ models of the parts
in which threads, handlers and messages meet, the TLC runs that check them, and
TLAPS proofs of the properties that matter most. Paths below are relative to
`src/lib/vtrc` unless they begin with `include`.

`PROJECT.json` is the index: every definition that models code with its source
lines (`map`), every run with its properties, at least one mutant for every
property of a passing run (a plausible bug that the property must catch), the
hazards of the code, the findings and the theorems.

## 1. Inventory

| Part | State | Operations | Meets | What is hard | What makes it correct |
|---|---|---|---|---|---|
| Condition queues (`common/condition-queues.h`) | table of slots: queue, condition variable, cancel flag | add, erase, read with or without timeout, write one or all, cancel | calls, read handler, error handlers | lookup and push are two locks; a cancel is a flag that the next read resets | a slot's queue keeps order; nobody waits for ever on a dead connection |
| Calls (`common/rpc-channel.cpp`, `client/rpc-channel-c.cpp`, `common/protocol-layer.cpp`) | `ready_`, `rpc_index_`, a slot for each call | call_and_wait, process_answer, process_insertion, on_system_error, cancel | condition queues, transport | errors between the ready test and the slot; answers after the timeout; callbacks for a call that is over | a slot lives with its call; answers go to their call; every call returns |
| Server call accounting (`server/protocol-layer-s.cpp`, `common/protocol-layer.cpp`) | `current_calls_`, the closure holder of each call | process_call, push_call, call_internal, closure_runner, failure paths | rpc pool, service methods, transport | closures kept beyond the method, exceptions after the answer, death of the connection | exact count, limit, every place returned, one answer |
| Framing (`common/data-queue.cpp`, `common/sizepack-policy.h`, `common/lowlevel-protocol-default.cpp`) | byte buffer, message queue | append, process, pack, pop | transport, stage handler | any cut of the bytes into reads; length limits | what is delivered is what was sent; bounded buffer |
| Write queue (`common/transport/stream-impl.h`) | strand, `write_queue_`, write in flight, `closed_` | write, write_impl, async_write, write_handler, close | callers, stream, closures | partial writes, closes at any moment, order of packing | whole messages in packing order, each closure once |
| Handshake (`client/connection-default.cpp`, `server/connection/default.cpp`) | stage, ready flag, hash and cipher of each direction, init timer | stages of both ends, closes, timeout | framing, write queue closures | the ends switch at different moments; several messages in one read; the timer | both ends understand each other, agree on ready, and it ends |
| Signals (`include/vtrc/common/observer/base.h`) | `list_`, `added_`, `removed_` | connect, unsubscribe, clear, emit | every component that reports events | slots that use the signal; recursive lock; unsubscribing during an emission | nobody forgotten, skipped, called twice or called after he left |
| Client connect (`client/client.cpp`, `client/stream-impl.h`) | stack frame with condition variable, subscriptions | connect_impl, slots, read and write handlers | signals, handshake | notifications without the lock; two handlers writing the ready flag | it returns, with the truth |
| Life of a client (`client/client.cpp`, `client/*.cpp`) | `connection_`, pending operations | connect, async_connect, open, disconnect, destruction | io_service, handshake | handlers bound to raw pointers; a connect replaces the connection of another | nobody touches what is gone; closures called once |
| Signals: handles and nodes (`include/vtrc/common/observer/*`, `include/vtrc/common/details/list.h`) | the subscription each handle names, linked nodes | assign, move, swap, release, reset; push, erase, splice, clear | signals | two handles of one slot; ends of the list | a guarded slot ends with its guard; links stay right |
| Service registry (`client/base.cpp`) | a strong map, two weak maps, a factory | assign, erase, erase all, get_handler | calls | three sections of a lookup; handlers that expire | what is registered is found, what is erased is not |
| Service cache (`server/protocol-layer-s.cpp`) | `services_` | get_service_by_name | calls | concurrent first calls | one service for all calls |
| Listeners (`server/listener/*`) | `working_`, acceptor, outstanding accepts | start, stop, on_accept | io_service, signals | an error before start has ended; restart over an old accept | an active listener listens; stops are told |
| Connections of a server (`server/listener/impl.h`, `server/connection/*`, `common/connection-list.cpp`, `server/channels.cpp`) | list, `client_count_`, close locks, init timers | store, announce, read, close, drop, stop_all_clients, broadcast | signals, timers, channels | exceptions half way, locks held while signals run, timers that outlive the object | list, count and signals agree; no mutual wait; broadcasts reach the rest |
| Call contexts (`common/call-context.cpp`, `common/protocol-layer.cpp`, `common/rpc-channel.cpp`) | stack of each thread, kept copies | push, pop, clone_stack, configure_message | calls, callbacks | copies that point into the original; depth limit | callbacks go to the call they belong to |
| Thread pools (`common/thread-pool.cpp`, `common/pool-pair.cpp`) | threads, queues, work objects | inc, attach, post, stop, join_all | everything | joining from a handler; a thread that is being added | shutdown returns and leaves no thread |
| Periodical timer (`include/vtrc/common/timers/periodical.h`) | `enabled_`, the wait | call, cancel, handler | io_service | cancel while a handler runs | it ends when cancelled |
| Ciphers (`common/erseefor.h`, `common/transformer/*.cpp`) | permutation and two indices for each direction | transform, create | framing | state moves with every byte | both ends in step |
| remote-fs (`src/examples/remote-fs`) | handles on the server, objects on the client | make, use, clone, next, destroy; push and pull of files | calls | handles shared by clones; partial writes | what is owned is served, what is dropped is freed, complete means whole |
| stress (`src/examples/stress`) | listeners, retry timer, client timers, a channel for each connection | start, retry, stop, timer events, recursive calls | listeners, callbacks | one timer for all listeners, one channel for all recursions | retried, ended, answered |
| lukki-db (`src/examples/lukki-db`) | database, subscribers, a strand | set, upd, del, get, subscribe | calls, events | connections that die between two events | every event once and in order |
| calculator, hello-events, proxy-test, hello-custom-transport | calls in progress | callbacks, events, raw calls, a file as transport | calls | the only server thread waits for a client | an answer says what was done |
| http and ssl wrappers (`src/examples/hello-events-http`, `src/examples/hello-ssl-handshake`) | parser state, SSL buffers | push, parse, write; handshake, encrypt, decrypt | framing | any division of the stream | units on time, replies in order |
| Draft (`src/draft`) | write queues of points, epoll set | write, read, accept; add, poll | asio, epoll | partial writes, edges that stand for several bytes | messages arrive whole |

SHA-2 and ChaCha, protobuf reflection helpers, the environment, exceptions and
the system calls of the platform transports hold no protocol of their own and
stay out: a hash appears as whether it fits, a cipher in the handshake as the
key that a reader must share.

The list of what is hardest to test is `hazards` in `PROJECT.json`, each at its
line with the properties aimed at it.

## 2. Modules

| Module | Models | Role |
|---|---|---|
| `ConditionQueues` | `condition-queues.h` | slot table as state with operators, extended by `RpcCalls` |
| `RpcCalls` | call_and_wait and the read handler of either end | callers, reader and tearing down, composed |
| `ClientProofs` | | proofs about `RpcCalls`, `ClientLife`, `ServiceRegistry`, `StreamCipher` |
| `ServerCalls` | requests from process_call to their closure | one connection of a server with its pool threads |
| `ServerProofs` | | proofs about `ServerCalls`, `Acceptor`, `ThreadPool`, `PeriodicalTimer` |
| `SizePack` | both length encodings | pure operators, extended by `Framing` |
| `Framing` | bytes to messages | one reader |
| `FramingProofs` | | proofs about `SizePack` and `Framing` |
| `ByteChannel` | | abstract: what a transport promises the protocol above it |
| `WriteQueue` | the sending half of a transport | implements `ByteChannel` |
| `WriteQueueProofs` | | proofs about `WriteQueue`, with the refinement |
| `Handshake` | both ends of the start of a session | two ends, two directions, one timer |
| `HandshakeProofs` | | proofs about `Handshake` and `ClientConnect` |
| `Observer` | the signal class | threads that use one signal |
| `ObserverProofs` | | proofs about `Observer`, `NodeList`, `Subscriptions`, `CallContext` |
| `ClientConnect` | the blocking connect | caller against two handlers |
| `ServerConnections` | accepted connections from on_accept to the last drop | listener threads, timers, broadcast and stop_all_clients over one list |
| `ServerConnectionsProofs` | | proofs about `ServerConnections` |
| `Lemmas` | | sequences after the usual operations, counting in them, induction over numbers and functions defined by recursion: what several proofs need |
| `Acceptor` | start, stop and the accept loop of a listener | user and two io threads |
| `ClientLife` | one client over several connects | user and handlers of each connection |
| `ServiceRegistry` | handlers of a client for one name | user and two lookups |
| `CallContext` | the context stack of one thread | nested calls, keepers, callbacks |
| `ThreadPool` | the pair of pools | main, adder, pool threads |
| `PeriodicalTimer` | the periodical timer | user and handlers |
| `NodeList` | the list of nodes under a signal | two lists |
| `Subscriptions` | handles of subscriptions | plain and scoped handles, two signals |
| `StreamCipher` | the cipher of one direction | sender and receiver |
| `RemoteFs`, `FileTransfer` | remote-fs | objects and handles; bytes of a transfer |
| `StressServer`, `StressCalls` | stress | listeners and timers; calls that nest |
| `LukkiDb`, `Calculator`, `HelloEvents`, `Proxy`, `CustomTransport` | the examples of that name | each with its clients and threads |
| `HttpFraming`, `SslHandshake` | the http and ssl wrappers | one stream; two ends |
| `DraftServer`, `EpollDraft` | the draft | points of a server; poll loop of the client |
| `MCLibrary` | | the nine small models of library parts, side by side |
| `MCExamples` | | the thirteen models of examples and draft, side by side |
| other `MC*` | | small instances for TLC |

`MCLibrary` and `MCExamples` gather models that do not interact. An initial
state chooses the part, the parts share the variables `v1`, `v2`, ... through
`INSTANCE ... WITH`, and each property is the conjunction of the parts' own, each
guarded by its part. Nothing is composed by this: it is one run for many models,
and every model can be given a configuration of its own.

### How state and actions correspond to the code

*ConditionQueues, RpcCalls.* `store`, `data`, `canceled` are the map of
`hold_value_type`s; the mutexes are in the atomicity of the steps. A caller's
`pc` follows call_and_wait: identifier, test of `ready_` (`CheckReady`), slot
(`AddSlot`), request (`SendRequest`), read (`ReadAtOnce`, `ReadBlocks`, then
`WakeWithUnit`, `WakeCanceled` or `Timeout`), a callback run in the caller's
thread (`LocalCall`), erase. The lookup and the push of `write_queue_if_exists`
are two steps (`FindSlot`, `PushUnit`), since the slot may be erased in
between. Reader, writer, parser and a local thread tear the connection down in
the code's stages: reset `ready_`, push the error to all, close, cancel all.
`IsServer` selects the handlers that differ between the ends. The peer sends
answers, refusals, callbacks of the three kinds, and garbage, to any call whose
request it has.

*ServerCalls.* `current` is `current_calls_` with its width (`UintMax`). The
life of the `closure_holder` is the combination of `pc`, `closure`, `kept`,
`runner` and `internal`: who still has a reference decides when its destructor
calls `call_done`. Methods answer at once, keep the closure for another thread,
throw, or throw after any of these.

*SizePack, Framing.* The encodings are recursive functions and operators over
digits in base `Base`. `process_data(n)` is one read: append, cut off all
complete frames, call the dispatch loop once. A frame is a prefix, a body and
whether its hash fits. The peer may write a length in more bytes than it needs or than the
parser takes, or send a body over the limit, but what it puts before a body is that
body's length (`Framed`).

*WriteQueue.* `strand` is the queue of handlers of `write_dispatcher_`; a
message is packed when write_impl runs. `StreamTakes(n)` is the stream writing
part of what it was given.

*Handshake.* Every packet carries the hash and cipher it was packed with and is
understood only by a reader with the same. `posted` are messages written and
not yet packed: packing happens on the strand, after the code that wrote them
went on. `ClientReads(n)` and `ServerReads(n)` bring n packets in one read and
run the stage function once, as process_data does.

*Observer.* A node is its number. An emission holds `list_lock_`, so a step is
a section under `tmp_lock_` with the work on `list_` after it. When a slot's
node was freed under it the code's behaviour is undefined and the model stops
(`broken`); `RunningSlotKept` says exactly how that can come about.

*ClientConnect.* `job` is what is left of the handler that a worker runs; the
locks of closing and of the two signals are `held`. The predicate of the wait reads
`*failed` in one step and `ready( )` in the next, both when the caller tests it and
when its ten seconds are over, and the wait begins in a further one, because the
notifier does not take the mutex. `due` is history: which flags were set when the
timer expired.

*ServerConnections.* `con[c]` is what is left of a connection: stored, announced,
closed, its timers, its protocol object. A connection over TLS has two timers, that
of the TLS handshake and, once init_success ran, the init timer of the protocol;
`late` notes those that expired while the handshake they watch was not over, `ousted`
those that had the connection closed. A thread's `job` are the steps of its
handler; `held` the plain mutexes. Exceptions of slots and of the first read leave
on_accept half way, as the catch clauses do. A broadcast may have a sender, which
send_to_client passes over.

*Acceptor.* `ops` counts accepts that wait, that completed and that failed; a
thread's `job` is what its call or handler has still to do, so that start, stop and
on_accept interleave between their statements.

*ClientLife.* Connections are numbered as they are made; `keep` says who holds each
(the client, or the handlers that were bound to it). A handler whose object is gone
puts itself into `dangling`.

*ServiceRegistry, CallContext, ThreadPool, PeriodicalTimer, NodeList, Subscriptions,
StreamCipher* have the variables of their classes, with their names; history
variables are marked. A lookup asks the maps in separate steps; a context has
`next` and `depth`; join_all takes the set in one step and joins in others; the
cipher is run with eight byte values and the real algorithm.

*The examples* are modelled as whole programs: what main, the pools' threads and the
handlers of the service do, with the library under them abstracted to what the
core modules show of it (requests are queued to the rpc pool, a wait ends with an
answer or the loss of the connection, events are not answered). In `Proxy` the wait of
the server also ends with the 30 seconds of `read_slot_for`; in the other examples
that timeout is left out, so what they say of failed calls holds for peers that answer
within it. The identifiers of `HttpFraming` may be wider than the `unsigned` they are
read into (`MaxUnsigned`), and the text of an error is written into the header line by
line, as it is.

## 3. Runs

| Run | Instance | Shows |
|---|---|---|
| `rpc_calls` | client, 2 callers, 2 calls, 2 units of the peer, garbage, read errors and closes | units reach the call they are addressed to, in order (`InOrder`); a callback has one fate (`CallbackFate`); slots live with their calls (`SlotLifetime`); an error reaches every slot there was (`FailureReachesSlots`) |
| `rpc_live` | server, 1 caller, 2 calls, all failures | `CallsEnd`: without a timer, errors and closes free whoever waits (`FailureReleases`, `CloseReleases`), save a call that added its slot after the error; with the timer every call returns (`EveryCallReturns`) |
| `server_calls` | 2 requests, limit 1 | `CounterExact`, `WithinLimit`, `PlaceReturned`, `AnsweredOnce`; a waited request is answered and gives its place back (`Served`) |
| `server_busy` | 2 requests, limit 1 | **violation**, see findings |
| `framing` | 60 plans of three frames, every cut into reads | `RoundTrip`; `FramesSound` (`NothingLost`, `DeliveredOnTime`, `BufferBounded`); in the end `AllDelivered` |
| `write_queue` | 2 threads, 3 messages each of 3 bytes | refinement of `ByteChannel` (`ImplementsChannel`); `WritesSound` (types and `ClosureOnce`); in the end `AllSent` |
| `handshake` | 2 secrets and none, key required or not, 2 calls per end | `Understood`; `HandshakeSound` (`ReadyAgreement`, `ErrorReported`, `LeftoverOnlyAtFirst`); `HandshakeServes` (`HandshakeEnds`, `ClientCallsArrive`) |
| `observer` | 2 threads, 4 subscriptions, emissions nested once | `NeverForgotten`; `EmissionsRight` (`EveryoneCalledOnce`, `RunningSlotKept`); `NotCalledOnceGone` |
| `client_connect` | one connect, a reader and a writer | `OutcomeSound` (`HonestOutcome`), `NoFalseTimeout`; `ConnectLives` (`ConnectReturns`, `DeadIsNotReady` and, without the ten seconds, `WokenUnlessMissed`) |
| `server_connections` | arrivals of every kind, two io threads, a user | `ListAccounted`, `NoCircularWait`, `OnlyLateOusted`, `BroadcastReaches`; in the end `ClosedLeavesList` |
| `library` | the parts of `MCLibrary` | `ListenersListen`, `PointersValid`, `AnswersHonest`, `ThreadsAndTimersEnd`, `CallbackTarget`; in the end `PromisesKept` |
| `examples` | the parts of `MCExamples` | `FilesRight`, `AnswersRight`, `StreamsRight`; in the end `NobodyWaitsForEver` |

A property named for several others is their conjunction; each conjunct is stated
and commented in its module. The type invariants of `WriteQueue`, `Handshake`,
`Observer` and `ClientConnect` are part of such a conjunction; those of `RpcCalls`
and `ServerCalls` are proved (section 5).

**Bounds.** Each is named where it is declared. Two callers suffice for one
call to meet another's slot, identifier or answer; two calls for a caller to
meet the remains of its first; two units of the peer for a callback before an
answer. Two requests against a limit of one give one refused while the other
runs, and reuse of a returned place; the proofs have no such bound. The length encoding runs with digits of one
bit and four of them at most instead of seven bits and ten, so lengths of up to
fifteen reach every boundary of the encoding; the three frames of a plan allow
something before and after the odd one. Writes of three bytes are cut in every
way, and three messages of each thread let one wait behind another's partial
write. Four subscriptions let a list be searched from either end with something
on both sides. Callers are symmetric in `rpc_calls`. Of the other models: two
starts and three accepts let an old accept meet a new start; two connections of a
client let one replace the other; four changes of the registry fall between the
three steps of two lookups; three calls reach a stack limit of two and exceed it;
two posted handlers let both pools join from inside; four nodes give a list a
first, a last and two in between, and a neighbour list; a cipher of eight values
dropped twelve steps is far from its initial permutation; three objects and two
entries let a clone outlive its original at the end of a directory; blocks of three
bytes in messages of two are cut unevenly; two clients suffice for one to be kept
waiting by another, and three for a proxy with a caller, a target and a bystander.

**Deadlock** is checked in `observer` only: elsewhere the bounded work ends, and
a connection that is closed rightly does nothing more.

**Fairness.** Weak fairness throughout, for what the code leaves to schedulers
that do run what they were given: threads inside a call, the io_service's
handlers and strands, a pool's work, methods that return, the stages of tearing
down, and the programs of the examples. A read pending on a socket that was closed completes with an error, as
asio guarantees, and so does a pending write; nothing is assumed of a peer, and
no fairness is put on failures. The specifications put no fairness on the
timer of a call and on the ten seconds of a connect: the properties that need
them say so in a premise (`EveryCallReturns`, `ConnectReturns`), and the others
(`FailureReleases`, `CloseReleases`, `WokenUnlessMissed`) show what happens
without. The init timer of the handshake is fair. In `MCLibrary` and `MCExamples`
the conditions of the parts are numbered and the i-th of all parts make one
condition: since the part never changes, it is the i-th condition of that part.

## 4. What the runs say about the code

*Finding.* `server_busy`: a request that nobody waits for and that fails before
its closure ran keeps its place in `current_calls_`
(`common/protocol-layer.cpp:708`): `done` is called only if the client waits.
After `max_active_calls` of them the connection answers everything with
`ERR_BUSY`, while `vtrc-rpc-options.proto:31` speaks of active calls.
`PlaceReturned` states the three cases in which a place is lost: this one, a
kept closure that outlives the connection, and a refusal that itself throws;
in the last two the connection is gone or going.

*Behaviour that the properties pin down and that a reader might not expect:*

- A call that tested `ready_` before an error and added its slot after it waits
  for its timer (`late` in `FailureReachesSlots`).
- A cancel that comes between two reads of a call is forgotten; the read error
  of the closed socket frees the call instead (`CloseReleases`). On a client
  whose read handler threw no read is pending, so nothing makes up for it and
  the call waits for its timer.
- A client that hears of its call twice: a method that runs its closure and then
  throws (`AnsweredOnce`).
- A server call that arrives in the same read as the ready capsule waits on the
  client for the next read (`LeftoverOnlyAtFirst`).
- A wrong key is answered only by the init timer, with a capsule that the client
  cannot read: it learns "Bad hash." (`Understood`, `HandshakeEnds`). The client
  may signal on_init_error twice for one failure.
- A slot may still start after its unsubscription returned, once, if the
  emission had asked is_removed before (`NotCalledOnceGone`). The slots of
  connect_impl point into its stack, so for them that window matters.
- A slot that gives itself up and emits the signal again frees the node its own
  emission stands at (`RunningSlotKept`).
- A client whose read handler threw stays `ready( )` (`DeadIsNotReady` excepts
  it).
- A connect whose connection becomes ready and is lost before the caller looks
  waits for the full ten seconds: nothing reports the loss to it (`NoFalseTimeout`:
  then, and only then, a connection that had been ready is reported as a timeout).
- The init timer's cancel does not reach a handler that is queued, and the handler is
  bound to a raw pointer: it may run after its client is ready, which it notices, and
  after the connection was freed, of which nothing is claimed (`OnlyLateOusted`).

- A connection whose on_new_connection slot throws is taken out of the list but not
  closed: the count keeps it (`ListAccounted`). A slot of on_stop_connection that uses
  the list while stop_all_clients runs waits for ever (`NoCircularWait` excepts it).
- The read pending on a connection that a second connect replaced runs on a freed
  object, and so does an async_connect that outlives its client; the failure of a
  replaced async_connect is reported to the connect that replaced it
  (`FreedTouched`, `OthersBlamed` name these cases and allow no other).
- A listener started again while the last accept of its earlier life is still to be
  run is stopped by it; one whose accept fails before start has set `working_`, and a
  pipe that cannot be created, stay active and deaf (`deaf`, `overlap` in `Acceptor`).
- A strongly held handler that a weak one of the same name had hidden is not found
  when the weak one is gone (`LookupHonest`).
- Handlers of both pools that call join_all can take each other's thread and wait for
  ever (`ShutDownReturns`); a thread that is being added is not joined.
- After cancel a periodical timer may call its user once more; call while a chain of
  waits lives makes two (`CancelEnds`).
- The contexts that clone_stack copies point to the original ones below the top
  (`KeptIsSafe` says until when that is harmless).
- list.h's clear leaves `size_` as it was (`LinksRight`); only the destructor calls it.
- remote-fs: iter_clone answers with the handle of the original, a full disk makes push_file loop for ever, and a source
  that reads nothing early ends the upload as complete; a local file that cannot be
  opened or written ends in "Download complete" all the same (`OwnersServed`,
  `NothingLeft`, `TransferEnds`, `CompleteMeansWhole`).
- stress: the retry of one listener replaces that of another, a retry can start a
  listener behind stop, and two recursions of a connection share the context of their
  callbacks (`superseded`, `down`, `mixed`).
- proxy-test: a caller whose target is gone or too slow may get an empty answer
  (`PongIsServed`).
- http: an answer that carries an error loses its identifiers and all but the first line
  of its text (`Carried`); an empty line in that text ends the header before
  Content-Length, and an identifier over 32 bits closes the connection (`Uncarried`).
- draft: the server asks a connection that was reset for its endpoint; the exception
  ends the program (`Behind` excepts it).
- hello-custom-transport prints its count before all calls have ended
  (`EveryCallCounted`).

## 5. Proofs

Proved for every value of the constants: any number of callers, calls, units,
requests, threads, messages, bytes, subscriptions, secrets and connections. The
assumptions are the named `ASSUME`s of the modules, which every run evaluates:
bounds are natural numbers; the keys are the identifiers next_index hands out; the
counter of active calls is wider than the number of requests; a message has at
least one byte; a varint group has at least two values and a length at least one
group, and what the peer puts before a body is its length; no secret is the mark of an absent one; the list's lock is not the
name of a connection; the key derived from a secret is a digest, so a sequence of
bytes that is not empty (`CipherAssumption`). Each invariant below was checked with TLC before it was proved.

| Theorem | States | Argument |
|---|---|---|
| `ClientProofs!TypeCorrect` | `Spec => []TypeOK` | inductive by itself |
| `ClientProofs!SlotsLiveWithCalls` | `Spec => []SlotLifetime` | `SlotInv`: add_queue finds its key free only because the key was not in the table since the call began, and that because identifiers grow; both facts are added |
| `ClientProofs!FailureIsSeen` | `Spec => []FailureReachesSlots` | with `SlotInv`: pushing to all puts the error into every slot of the table; afterwards reads take from the front and a fatal unit ends the call |
| `ClientProofs!CallsReadInOrder` | `Spec => []InOrder` | `FlowInv`: the wire is the end of the log and the reader holds the unit before it (`WireInv`); while a call has its slot, every unit settled before that and addressed to it was read or waits, in the order of the log (`SlotUnits`) |
| `ClientProofs!CallbacksRunOnce` | `Spec => []CallbackFate` | `FlowInv` with `CallInv` (a request that was sent has its slot until its call is over) and `GoneInv` (a unit refused or run in the pool is in no queue): positions in the log tell the places apart |
| `ClientProofs!AnswersAreHonest` | `LibrarySpec => []AnswersHonest` | `ClientInv`: the connection of an unfinished connect is kept by its handler alone, that of a call by its frame, and every other one the client made is the present one or was replaced. `ServicesInv`: a lookup has seen whatever is registered since it began, and the maps it has passed hold nothing alive that was registered all the time (`SureInv`). `CipherInv`: there is a sequence of cipher states along the messages on the wire, from the revertor's to the transformer's; `XorTwice` (the exclusive or, defined by recursion over the bits, undoes itself) and `Reverted` give that a message comes back |
| `ServerProofs!ServerTypes` | `Spec => []TypeOK` | `current` stays in range only because it counts; `CountInv` |
| `ServerProofs!CounterIsExact` | `Spec => []CounterExact` | `CountInv`: exactness, `Fresh` (requests not yet popped hold nothing) and `HolderInv` (where the holder can be and whether its destructor still owes call_done); each step changes the counted set by at most one element |
| `ServerProofs!LimitKept` | `Spec => []WithinLimit` | executing requests are counted ones, and one is accepted only if the counter allows it |
| `ServerProofs!PlacesComeBack` | `Spec => []PlaceReturned` | `OwesInv`: what a request on its way out still owes and who is to pay it |
| `ServerProofs!ClientHearsOnce` | `Spec => []AnsweredOnce` | `AnswerInv`: how often a request was answered, by where its closure is and what its method did |
| `ServerProofs!ListenersAreHeard` | `LibrarySpec => []ListenersListen` | `ListenerInv`: what can be left of a start, of a stop and of a handler in each kind of listener (`ListenerTypes`); an active listener accepts or somebody's remaining steps say that it will, or that it stops (`ActiveInv`); without a failure and an overlap no step that could stop it is left (`StartedInv`); and the accepts that are pending, completed or owed by a thread are one at most, none of which a stopped listener arms again (`LateInv`) |
| `ServerProofs!ThreadsAndTimersDoEnd` | `LibrarySpec => []ThreadsAndTimersEnd` | `PoolsInv`: what the shutdown has taken and not joined is what its next step joins, and only a handler's own join_all takes threads otherwise. `TimerInv`: without a hasty call one chain at most is going, and once it has called the user after a cancel it is not armed again |
| `WriteQueueProofs!WritesAreSound` | `Spec => []WritesSound` | `OrderInv` (strand behind packed messages), `FlightInv` (the queue is the end of what was packed, at most one completion waits), `WireInv` (byte i of the wire is byte i of the packed messages), `ToldInv` (who was told had left the queue, or failed at its front) |
| `WriteQueueProofs!QueueImplementsChannel` | `Spec => ImplementsChannel` | each step packs one message in its thread's order, or extends the wire along what was packed, or changes neither |
| `FramingProofs!LengthsComeBack` | `Spec => []RoundTrip` | `PackGroups`, `GroupsUnpack`: packing writes down the quotients of n by `Base` and reading folds them back from the last group on, where no sum passes the width; `PackLength` bounds the bytes by `Digits + 1`. The last part from `IInv` below |
| `FramingProofs!FramesArrive` | `Spec => []FramesSound` | `IInv`: what was delivered are the first bodies of the plan (`DeliveredInv`), the wire is the rest of the stream (`WireInv`), and while open the buffer is the part of the stream from the next frame on and that frame is neither complete nor refused (`OpenInv`). `ParseOne` says what the parser finds at the front of such a part, `ProcessWindow` what the loop makes of all of it, by induction from its last frame |
| `ObserverProofs!GivenUpNotForgotten` | `Spec => []NeverForgotten` | what is removed by index from the list is exactly what was noted (`EraseAllSet`, by induction over the removed numbers; the search from either end is `RemoveByIndexSet`) |
| `ObserverProofs!EmissionsAreRight` | `Spec => []EmissionsRight` | `FramesInv`: every emission on a stack stands at a node of the list or at a freed one a nested emission took, and has called what is before it |
| `ObserverProofs!NoCallOnceGone` | `Spec => NotCalledOnceGone` | a slot starts only from a node whose number was not noted when it was looked at |
| `ObserverProofs!PointersStayValid` | `LibrarySpec => []PointersValid` | `ContextInv`: the stack lists the contexts from the top down with their depths, a call that is sent has an executed one below it, and what a keeper copied lies at or below its call (`StackInv`, `KeptInv`). `ListInv`: each list's links are those of a sequence of distinct nodes and the sequences and the heap have the same nodes; `ChainAppend`, `ChainPrepend`, `ChainRemove` and `ChainConcat` say what relinking does to such a sequence. `SubscriptionInv`: two signals have two insides, and a slot is inside one |
| `ObserverProofs!CallbacksFindTheirCall` | `LibrarySpec => CallbackTarget` | with `ContextInv`: the target of a channel accepts callbacks, and the top of the stack is the call that runs |
| `HandshakeProofs!PackedIsUnderstood` | `Spec => []Understood` | `ClientInv`, `ServerInv` (hash and cipher of each end by its stage) and `ToServerInv`, `PostedInv`, `ToClientInv` (which packets can be under way at each pair of stages, and how they were packed) |
| `HandshakeProofs!ReadyEndsFit` | `Spec => []HandshakeSound` | the same with `ErrorInv`, `HandledInv` (calls under way and handled add up to at most those made) and `LeftInv` |
| `HandshakeProofs!ConnectIsHonest` | `ConnectSpec => []OutcomeSound` | `ConnInv`: what can be left of each handler (`ConnJobs`) and that the caller leaves its wait only for what it saw (`ConnTrue`) |
| `HandshakeProofs!TimeoutIsTrue` | `ConnectSpec => []NoFalseTimeout` | `ConnDue` with `ConnInv`: a failure noted before the ten seconds are over is never taken back, so the first read of the predicate sees it; and the ready flag, which the second read asks for, is reset only by a handler that closes the transport next |
| `ServerConnectionsProofs!NoDeadlockOfLocks` | `Spec => []NoCircularWait` | `Locks`: the list is locked by the walk only, and who holds a connection's lock is about to give it back; so a thread that waits waits for one that does not |
| `ServerConnectionsProofs!TimerOnlyLosesRace` | `Spec => []OnlyLateOusted` | `TimerInv`: a queued handler that will act, the last capsule it writes, the close that follows that write and the expulsion on a thread's list all go back to an expiry before the handshake was over (`Judged`, `Expelling`); the TLS timer is armed only while its handshake lasts |
| `ServerConnectionsProofs!ConnectionsAccounted` | `Spec => []ListAccounted` | `IoJob`, `UserJob` (what can follow the next step of a thread) and `Count` (count = announced less closed) |
| `ServerConnectionsProofs!BroadcastMissesNobody` | `Spec => []BroadcastReaches` | `CastInv`: who was ready at the beginning and is not the sender was reached, is no longer ready, or is still ahead of the walk |

The proofs of an invariant have one lemma per action. Most of an action's work is
in naming what it leaves alone; facts about `Append`, `Tail`, `SubSeq` and counting
come from `Lemmas`. There too is induction over the natural numbers as a statement
about a *set* (`Ind`, `Least`), since the library's induction theorems take an
operator, which none of the provers used here instantiates. `Recursion` and
`RecursionDown` say in the same way, with the step as a function and not as an
operator, that a function defined by recursion towards 0 or towards the end of a
sequence exists; `Powers`, `pack`, `unpack`, `StreamTo` and `process` are shown to be
what their equations say from these, and so are `xor` and the states of the cipher.

`MCLibrary` lets an initial state choose the part that runs and gives the parts the
variables `v1`, `v2`, ... in common. Its theorems are about that specification: for
each part there is an invariant over those variables, a lemma that the part's `Init`
implies it, one that each of its actions keeps it, and one that it contains what the
run checks; `ServerPartInv`, `LinkedPartInv` and `ClientPartInv` join the parts a
theorem is about.

Only model-checked: all liveness (`CallsEnd`, `Served`, `AllDelivered`, `AllSent`,
`HandshakeServes`, `ConnectLives`, `ClosedLeavesList`, `PromisesKept`,
`NobodyWaitsForEver`: fairness and ENABLED are beyond the prover), and `FilesRight`,
`AnswersRight` and `StreamsRight` of the run `examples`, which compare programs around
the library with the files, lists and streams they work on.


## 6. Not modelled, and what is left

- `common/proto-helper/message-helper.cpp` and `message-utilities.cpp`, and the tail
  of `common/lowlevel-protocol-default.cpp`, are compiled out (`#if 0`).
- SHA-2 and ChaCha are third-party code, and hello-win-impersonate a call of Windows.
- OpenSSL, asio's and the kernel's calls are external: modelled where a part depends
  on what they may do, by their outcomes.
- thread_pool's interrupt, which needs the interruption points of boost threads.
- condition_queues' read_queue and read_list variants, which nothing calls; the del
  and stop branches of the draft client; drop_service of the server's cache.
- Statistics, command lines and output of the examples.

Worth proving next: `StreamsRight` of the examples, whose parts cut a stream into
frames as `Framing` does, and `FilesRight`.
