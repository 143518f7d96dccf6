----------------------------- MODULE CallContext -----------------------------
(***************************************************************************)
(* The stack of call contexts of one thread, the channels and the call     *)
(* keepers made from it: lib/vtrc/common, protocol-layer.cpp,              *)
(* call-context.cpp, call-keeper.cpp, closure-holder.h and the message     *)
(* set-up of rpc-channel.cpp, with the send_message of both unicast        *)
(* channels (client/rpc-channel-c.cpp, server/channels.cpp).               *)
(*                                                                         *)
(* A thread that executes a call of the peer, or waits for the answer to   *)
(* one of its own, has a context for it on its stack.  A context points to *)
(* the message of its call and to the context below, and keeps neither.  A *)
(* keeper copies the stack so that a service can answer after it returned; *)
(* the copies point to what the originals pointed to.                      *)
(***************************************************************************)
EXTENDS Naturals, Sequences, FiniteSets, SequencesExt

CONSTANTS
  max_stack_size,  \* of the session options
  MaxCalls         \* bound: calls executed or made by the thread

Calls == 1..MaxCalls
None == 0
Flags == {"DEFAULT", "USE_CONTEXT_CALL", "USE_STATIC_CONTEXT"}

VARIABLES
  made,      \* the calls so far are 1..made
  kind,      \* call -> "local" (executed here) or "send" (made here)
  accepts,   \* the calls that wait and accept callbacks
  stack,     \* s_call_context: the calls with a context, the top first
  ctx,       \* call -> [next, depth] of its context
  closure,   \* call -> "none", "pending" or "ran": its proto_closure_
  kept,      \* call -> the copied stack of its keeper, or <<>>
  channel,   \* a channel of the user: [accept_callbacks_, static_target_]
  sent       \* the last message: [type, target, static], or a refusal

vars == <<made, kind, accepts, stack, ctx, closure, kept, channel, sent>>

NoChannel == [accept_callbacks_ |-> FALSE, static_target_ |-> None]
NothingSent == [type |-> "nothing", target |-> None, static |-> FALSE]

Init ==
  /\ made = 0 /\ kind = [c \in Calls |-> "local"] /\ accepts = {}
  /\ stack = <<>> /\ ctx = [c \in Calls |-> [next |-> None, depth |-> 0]]
  /\ closure = [c \in Calls |-> "none"] /\ kept = [c \in Calls |-> <<>>]
  /\ channel = NoChannel /\ sent = NothingSent

------------------------------------------------------------------------------
(* The context stack.                                                       *)

get_call_context == IF stack = <<>> THEN None ELSE Head(stack)

\* Mutant: the depth is not taken from the context below.
push_call_context_flat(c) ==
  /\ stack' = <<c>> \o stack
  /\ ctx' = [ctx EXCEPT ![c] = [next |-> get_call_context, depth |-> 1]]

\* push_call_context with set_next: the depth is one more than that of the top.
push_call_context(c) ==
  /\ stack' = <<c>> \o stack
  /\ ctx' = [ctx EXCEPT ![c] =
       [next |-> get_call_context,
        depth |-> IF stack = <<>> THEN 1 ELSE ctx[Head(stack)].depth + 1]]

\* Mutant: the context at the bottom is taken off.
pop_call_context_back == stack' = SubSeq(stack, 1, Len(stack) - 1) /\ UNCHANGED ctx

pop_call_context == stack' = Tail(stack) /\ UNCHANGED ctx

\* A new call of kind k; wait says whether it waits and accepts callbacks.
NewCall(k, wait) ==
  /\ made < MaxCalls /\ made' = made + 1
  /\ kind' = [kind EXCEPT ![made + 1] = k]
  /\ accepts' = IF wait THEN accepts \cup {made + 1} ELSE accepts

------------------------------------------------------------------------------
(* Executing a call.                                                        *)

\* make_local_call with a service that is found: its context is pushed, its
\* closure made and the service runs.
make_local_call(wait) ==
  /\ NewCall("local", wait)
  /\ push_call_context(made + 1)
  /\ ctx'[made + 1].depth <= max_stack_size
  /\ closure' = [closure EXCEPT ![made + 1] = "pending"]
  /\ UNCHANGED <<kept, channel, sent>>

\* make_local_call that fails: the stack is too deep, or there is no such
\* service or method.  The context holder pops what it pushed.
make_local_call_fails(wait) ==
  /\ NewCall("local", wait)
  /\ UNCHANGED <<stack, ctx, closure, kept, channel, sent>>

\* The service returns or throws; the closure may be run later.
ServiceReturns ==
  /\ stack # <<>> /\ kind[Head(stack)] = "local"
  /\ pop_call_context
  /\ UNCHANGED <<made, kind, accepts, closure, kept, channel, sent>>

\* The service, or whoever it gave the closure to, runs it: closure_runner
\* deletes it and answers.
closure_runner(c) ==
  /\ closure[c] = "pending"
  /\ closure' = [closure EXCEPT ![c] = "ran"]
  /\ UNCHANGED <<made, kind, accepts, stack, ctx, kept, channel, sent>>

------------------------------------------------------------------------------
(* Keepers.                                                                 *)

\* clone_stack: the copies carry the pointers of the originals.
clone_stack == [i \in DOMAIN stack |-> [call |-> stack[i], next |-> ctx[stack[i]].next]]

\* call_keeper::impl: the stack is copied, the closure is the top's.
MakeKeeper ==
  /\ stack # <<>> /\ kind[Head(stack)] = "local" /\ kept[Head(stack)] = <<>>
  /\ closure[Head(stack)] = "pending"
  /\ kept' = [kept EXCEPT ![Head(stack)] = clone_stack]
  /\ UNCHANGED <<made, kind, accepts, stack, ctx, closure, channel, sent>>

\* ~call_keeper runs the closure, even one that somebody else has run.
DropKeeper(c) ==
  /\ kept[c] # <<>>
  /\ kept' = [kept EXCEPT ![c] = <<>>]
  /\ closure' = [closure EXCEPT ![c] = "ran"]
  /\ UNCHANGED <<made, kind, accepts, stack, ctx, channel, sent>>

------------------------------------------------------------------------------
(* Making a call.                                                           *)

can_accept_callbacks(c) == c # None /\ c \in accepts

\* The constructor of a channel takes the context it is made in.
MakeChannel ==
  /\ channel' = [accept_callbacks_ |-> can_accept_callbacks(get_call_context),
                 static_target_ |-> get_call_context]
  /\ UNCHANGED <<made, kind, accepts, stack, ctx, closure, kept, sent>>

\* Mutant: the call is sent to the context at the bottom of the stack.
configure_message_bottom(flags) ==
  LET context == "USE_CONTEXT_CALL" \in flags
      static == "USE_STATIC_CONTEXT" \in flags
  IN  CASE context /\ static /\ channel.accept_callbacks_ ->
             [type |-> "callback", target |-> channel.static_target_, static |-> TRUE]
        [] context /\ static /\ ~channel.accept_callbacks_ ->
             [type |-> "refused", target |-> None, static |-> TRUE]
        [] context /\ ~static /\ can_accept_callbacks(get_call_context) ->
             [type |-> "callback", target |-> Last(stack), static |-> FALSE]
        [] OTHER -> [type |-> "call", target |-> None, static |-> FALSE]

\* configure_message: a call with a context is a callback if the context takes
\* one, and a plain call otherwise; a static context that takes none is refused.
configure_message(flags) ==
  LET context == "USE_CONTEXT_CALL" \in flags
      static == "USE_STATIC_CONTEXT" \in flags
  IN  CASE context /\ static /\ channel.accept_callbacks_ ->
             [type |-> "callback", target |-> channel.static_target_, static |-> TRUE]
        [] context /\ static /\ ~channel.accept_callbacks_ ->
             [type |-> "refused", target |-> None, static |-> TRUE]
        [] context /\ ~static /\ can_accept_callbacks(get_call_context) ->
             [type |-> "callback", target |-> get_call_context, static |-> FALSE]
        [] OTHER -> [type |-> "call", target |-> None, static |-> FALSE]

\* send_message of a unicast channel.  With a wait its own message goes on the
\* stack until call_and_wait returns; default channel errors throw.
send_message(flags, wait) ==
  /\ stack # <<>> => kind[Head(stack)] = "local"
  /\ sent' = configure_message(flags)
  /\ IF wait /\ sent'.type # "refused"
       THEN NewCall("send", TRUE) /\ push_call_context(made + 1)
       ELSE UNCHANGED <<made, kind, accepts, stack, ctx>>
  /\ UNCHANGED <<closure, kept, channel>>

\* call_and_wait or call_and_wait_raw returns, with an answer or an error.
call_and_wait ==
  /\ stack # <<>> /\ kind[Head(stack)] = "send"
  /\ pop_call_context
  /\ UNCHANGED <<made, kind, accepts, closure, kept, channel, sent>>

Next ==
  \/ \E wait \in BOOLEAN : make_local_call(wait) \/ make_local_call_fails(wait)
  \/ ServiceReturns \/ MakeKeeper \/ MakeChannel \/ call_and_wait
  \/ \E c \in Calls : closure_runner(c) \/ DropKeeper(c)
  \/ \E flags \in SUBSET Flags, wait \in BOOLEAN : send_message(flags, wait)

Spec == Init /\ [][Next]_vars

------------------------------------------------------------------------------
(* Properties.                                                              *)

\* The message of a call exists while its frame does, and while the holder of
\* a closure that was not run keeps it.
UnitAlive(c) == closure[c] = "pending" \/ Contains(stack, c)

\* The contexts of a thread are chained from the top down, and the depth of
\* each is its height, so that the executed calls that nest, with the calls
\* they wait for, never exceed the limit by more than one.  (set_next,
\* make_local_call_impl)
StackLinked ==
  /\ Len(stack) <= max_stack_size + 1
  /\ \A i \in DOMAIN stack :
       /\ ctx[stack[i]].depth = Len(stack) - i + 1
       /\ ctx[stack[i]].next = IF i = Len(stack) THEN None ELSE stack[i + 1]

\* While the service that made a keeper runs, everything the kept contexts
\* point to exists.  Once it has returned, only the message of the top is sure
\* to, until the closure is run: the contexts below and the ones that next
\* names are those of the original stack.  (call_keeper, clone_stack)
KeptIsSafe ==
  \A c \in Calls : kept[c] # <<>> =>
    /\ closure[c] = "pending" => kept[c][1].call = c /\ UnitAlive(c)
    /\ Contains(stack, c) => \A i \in DOMAIN kept[c] :
         UnitAlive(kept[c][i].call) /\ (kept[c][i].next = None \/ Contains(stack, kept[c][i].next))

TargetRight ==
  sent'.type = "callback" =>
    /\ sent'.target \in accepts
    /\ sent'.static \/ (stack # <<>> /\ sent'.target = Head(stack))

\* A callback names a call that accepts one, and unless the channel has a static
\* context it is the call this thread is executing.  (configure_message)
CallbackTarget == [][sent' # sent => TargetRight]_vars
===============================================================================
