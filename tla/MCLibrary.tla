------------------------------ MODULE MCLibrary ------------------------------
(***************************************************************************)
(* The parts of the library that need no other part, one beside the other: *)
(* an initial state chooses which of them runs.  The parts share the       *)
(* variables v1, v2, ..., in the order in which each part declares its     *)
(* own; a part that has fewer leaves the others zero.                      *)
(***************************************************************************)
EXTENDS Naturals, Sequences

CONSTANTS
  MaxStarts, MaxAccepts,   \* bounds: starts of the listener, sockets accepted
  MaxConns,                \* bound: connections of the client
  MaxChanges,              \* bound: changes of the client's registry
  max_stack_size,          \* of the session options
  MaxContexts,             \* bound: calls executed or made by a thread
  MaxPosts,                \* bound: handlers posted to the pools
  MaxChains,               \* bound: calls of call of the timer
  MaxNodes,                \* bound: nodes of the lists
  MaxSlots, MaxImpls,      \* bounds: slots connected, insides of signals
  Size, drop_key_init,     \* byte values, and bytes a cipher drops at first
  Secrets, KeyBytes,       \* secrets, and the key that is derived from each
  Messages, MaxMessages    \* messages, and the bound of those sent

ASSUME BoundsAssumption ==
  /\ MaxStarts \in Nat /\ MaxAccepts \in Nat /\ MaxConns \in Nat /\ MaxChanges \in Nat
  /\ max_stack_size \in Nat /\ MaxContexts \in Nat /\ MaxPosts \in Nat /\ MaxChains \in Nat
  /\ MaxNodes \in Nat /\ MaxSlots \in Nat /\ MaxImpls \in Nat /\ MaxMessages \in Nat

\* A key is a digest, so it is not empty.
ASSUME CipherAssumption ==
  /\ Size \in Nat \ {0} /\ drop_key_init \in Nat
  /\ \A s \in Secrets : KeyBytes[s] \in Seq(0..(Size - 1)) /\ KeyBytes[s] # <<>>
  /\ Messages \subseteq Seq(0..(Size - 1))

\* Keys and messages for a cipher of eight byte values: keys of different length,
\* and messages that are empty, short and long.
Keys == [s \in {"a", "b"} |-> IF s = "a" THEN <<3, 1, 6>> ELSE <<5>>]
Texts == {<<>>, <<0>>, <<7, 2>>, <<1, 1, 4>>}

VARIABLES
  part,   \* the model that runs; it never changes
  v1, v2, v3, v4, v5, v6, v7, v8, v9, v10, v11, v12, v13, v14, v15

all == <<part, v1, v2, v3, v4, v5, v6, v7, v8, v9, v10, v11, v12, v13, v14, v15>>

Listener == INSTANCE Acceptor WITH
  kind <- v1, working_ <- v2, acceptor_ <- v3,
  ops <- v4, job <- v5, wanted <- v6, starts <- v7, accepted <- v8, late <- v9,
  told <- v10, failed <- v11, deaf <- v12, overlap <- v13

Client == INSTANCE ClientLife WITH
  client <- v1, connection_ <- v2, made <- v3, kind <- v4, keep <- v5,
  socket <- v6, ready <- v7, told <- v8, reads <- v9, ops <- v10, call <- v11,
  closures <- v12, dangling <- v13, replaced <- v14, blamed <- v15

Services == INSTANCE ServiceRegistry WITH
  hold_services_ <- v1, weak_services_ <- v2,
  weak_native_services_ <- v3, factory_ <- v4, owned <- v5, lookup <- v6,
  changes <- v7, expected <- v8, sure <- v9, seen <- v10

Context == INSTANCE CallContext WITH
  MaxCalls <- MaxContexts, made <- v1, kind <- v2, accepts <- v3,
  stack <- v4, ctx <- v5, closure <- v6, kept <- v7, channel <- v8, sent <- v9

Pools == INSTANCE ThreadPool WITH
  threads_ <- v1, created <- v2, ended <- v3, wrk_ <- v4,
  stopped <- v5, queue <- v6, running <- v7, adding <- v8, does <- v9, joins <- v10,
  posts <- v11, inside <- v12, missed <- v13

Timer == INSTANCE PeriodicalTimer WITH
  MaxCalls <- MaxChains, enabled_ <- v1, chain <- v2, calls <- v3, extra <- v4, hasty <- v5

List == INSTANCE NodeList WITH
  front_ <- v1, back_ <- v2, size_ <- v3, prev_ <- v4, next_ <- v5,
  heap <- v6, made <- v7, held <- v8, spec <- v9, stale <- v10

Subscription == INSTANCE Subscriptions WITH
  impl_ <- v1, impls <- v2, slots <- v3, within <- v4,
  connected <- v5, unsubscriber_ <- v6, ended <- v7, guarded <- v8

Cipher == INSTANCE StreamCipher WITH
  id <- v1, transformer_ <- v2, revertor_ <- v3,
  wire <- v4, sent <- v5, received <- v6

------------------------------------------------------------------------------
\* The variables above the first n: zero from the start, and left alone.
Spare13 == v14 = 0 /\ v15 = 0
Spare10 == v11 = 0 /\ v12 = 0 /\ v13 = 0 /\ Spare13
Spare9 == v10 = 0 /\ Spare10
Spare8 == v9 = 0 /\ Spare9
Spare6 == v7 = 0 /\ v8 = 0 /\ Spare8
Spare5 == v6 = 0 /\ Spare6

Same15 == UNCHANGED part
Same13 == UNCHANGED <<part, v14, v15>>
Same10 == UNCHANGED <<part, v11, v12, v13, v14, v15>>
Same9 == UNCHANGED <<part, v10, v11, v12, v13, v14, v15>>
Same8 == UNCHANGED <<part, v9, v10, v11, v12, v13, v14, v15>>
Same6 == UNCHANGED <<part, v7, v8, v9, v10, v11, v12, v13, v14, v15>>
Same5 == UNCHANGED <<part, v6, v7, v8, v9, v10, v11, v12, v13, v14, v15>>

LibraryInit ==
  \/ part = "acceptor" /\ Listener!Init /\ Spare13
  \/ part = "client" /\ Client!Init
  \/ part = "services" /\ Services!Init /\ Spare10
  \/ part = "context" /\ Context!Init /\ Spare9
  \/ part = "pools" /\ Pools!Init /\ Spare13
  \/ part = "timer" /\ Timer!Init /\ Spare5
  \/ part = "list" /\ List!Init /\ Spare10
  \/ part = "subscriptions" /\ Subscription!Init /\ Spare8
  \/ part = "cipher" /\ Cipher!Init /\ Spare6

LibraryNext ==
  \/ part = "acceptor" /\ Listener!Next /\ Same13
  \/ part = "client" /\ Client!Next /\ Same15
  \/ part = "services" /\ Services!Next /\ Same10
  \/ part = "context" /\ Context!Next /\ Same9
  \/ part = "pools" /\ Pools!Next /\ Same13
  \/ part = "timer" /\ Timer!Next /\ Same5
  \/ part = "list" /\ List!Next /\ Same10
  \/ part = "subscriptions" /\ Subscription!Next /\ Same8
  \/ part = "cipher" /\ Cipher!Next /\ Same6

\* The fairness of the parts.  Only one part runs, so that the i-th condition is
\* that of this part.
PoolThread == <<"io1", "io2", "rpc1", "main">>

Fair(i) ==
  \/ /\ part = "acceptor" /\ Same13
     /\ \/ i \in 1..3 /\ Listener!Step(<<"user", "io1", "io2">>[i])
        \/ i \in 4..5 /\ Listener!OnAccept(<<"io1", "io2">>[i - 3])
  \/ /\ part = "client" /\ Same15
     /\ \/ i = 1 /\ Client!UserSteps
        \/ i \in 2..3 /\ Client!Handlers(i - 1)
  \/ /\ part = "pools" /\ Same13
     /\ \/ i \in 1..4 /\ Pools!Call(PoolThread[i])
        \/ i \in 5..7 /\ Pools!Thread(PoolThread[i - 4])
        \/ i = 8 /\ Pools!inc

LibrarySpec == LibraryInit /\ [][LibraryNext]_all /\ \A i \in 1..8 : WF_all(Fair(i))

------------------------------------------------------------------------------
(* Properties.                                                              *)

\* An active listener waits for a client, a started one stays active, and at most
\* one client comes in after a stop, but for the cases the Acceptor module names.
\* (server/listener: start, stop, on_accept)
ListenersListen ==
  part = "acceptor" => Listener!ActiveListens /\ Listener!StartedStaysActive /\ Listener!AtMostOneLate

\* These parts keep no pointer to what was freed, but in the cases the modules name: the
\* linked call contexts and the copies a call_keeper makes of them, the nodes of the list
\* behind a signal, and a scoped subscription, which ends with its owner.
\* (protocol-layer.cpp: clone_stack, observer/list.h, observer/scoped-subscription.h)
PointersValid ==
  /\ part = "context" => Context!StackLinked /\ Context!KeptIsSafe
  /\ part = "list" => List!LinksRight
  /\ part = "subscriptions" => Subscription!GuardedUntilReset

\* A client is told what is so: its handlers follow no pointer to what was freed and a
\* connect is not ended by the failure of another that is no concern of its own, but in
\* the cases the ClientLife module names; a lookup finds what is registered; and a
\* message is reverted to what was sent.
\* (client/stream-impl.h, client.cpp: on_init_error, base.cpp: get_handler,
\* common/transformer)
AnswersHonest ==
  /\ part = "client" => Client!FreedTouched /\ Client!OthersBlamed
  /\ part = "services" => Services!LookupHonest
  /\ part = "cipher" => Cipher!InStep

\* A shutdown leaves no thread of the pools behind but those the ThreadPool module
\* names, and a cancelled timer calls its user once more at most.
\* (thread-pool.cpp: join_all, timers/periodical.h: cancel)
ThreadsAndTimersEnd ==
  /\ part = "pools" => Pools!NoThreadLeft
  /\ part = "timer" => Timer!CancelEnds

\* A callback goes to the call this thread executes, or to that of a static context,
\* and only if that call accepts callbacks.  (rpc-channel.cpp: configure_message)
CallbackTarget ==
  [][part = "context" /\ v9' # v9 => Context!TargetRight]_all

\* What the i-th promise of a part waits for, and what fulfils it.
Asked(i) ==
  \/ part = "acceptor" /\ i = 1 /\ Listener!StopBegins
  \/ part = "client" /\ Client!Connecting(i)
  \/ part = "pools" /\ i = 1 /\ Pools!ShutsDown

Kept(i) ==
  \/ part = "acceptor" /\ Listener!StopTold
  \/ part = "client" /\ Client!Told(i)
  \/ part = "pools" /\ Pools!Returned

\* The stop of a listener is told, the closure of an async_connect is called, and
\* the shutdown of the pools returns, but for the cases the modules name.
\* (call_on_stop, async_connect_success, join_all)
PromisesKept == \A i \in 1..2 : Asked(i) ~> Kept(i)
==============================================================================
