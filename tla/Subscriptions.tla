----------------------------- MODULE Subscriptions -----------------------------
(***************************************************************************)
(* Subscriptions of a signal as objects: subscription, a copyable handle,  *)
(* scoped_subscription, which unsubscribes when it dies, and signals that  *)
(* are moved.  A handle shares an unsubscriber, which knows the inside of  *)
(* the signal by a weak pointer and the slot by its number.                *)
(*                                                                         *)
(* Module Observer shows what unsubscribe does to emissions that run; here *)
(* a slot is only connected or not.                                        *)
(***************************************************************************)
EXTENDS Naturals, FiniteSets

CONSTANTS
  MaxSlots,   \* bound: slots that are ever connected
  MaxImpls    \* bound: insides of signals that are ever made

Signals == {"s1", "s2"}
Plain == {"p1", "p2"}         \* objects of class subscription
Scoped == {"g1", "g2"}       \* objects of class scoped_subscription
Handles == Plain \cup Scoped
Slots == 1..MaxSlots
None == 0

VARIABLES
  impl_,          \* signal -> the number of its inside
  impls,          \* insides made so far
  slots,          \* slots connected so far
  within,         \* slot -> the inside it was connected to, None before
  connected,      \* slots that an emission would call
  unsubscriber_,  \* handle -> the slot of its unsubscriber, None when empty
  ended,          \* history: slots somebody unsubscribed
  guarded         \* history: slots put under a scoped_subscription and not released since

vars == <<impl_, impls, slots, within, connected, unsubscriber_, ended, guarded>>

Init ==
  /\ impl_ = [s \in Signals |-> IF s = "s1" THEN 1 ELSE 2] /\ impls = 2 /\ slots = 0
  /\ within = [n \in Slots |-> None] /\ connected = {}
  /\ unsubscriber_ = [h \in Handles |-> None] /\ ended = {} /\ guarded = {}

\* A slot whose inside is gone is gone with it: Living are the insides of signals.
Living == {impl_[s] : s \in Signals}

\* unsubscriber::run: with the inside gone it does nothing.
run(n) == connected \ {n}

Unsubscribed(n) == connected' = run(n) /\ ended' = IF n = None THEN ended ELSE ended \cup {n}
Holds(h, n) == unsubscriber_' = [unsubscriber_ EXCEPT ![h] = n]
Guard(h, n) == guarded' = IF h \in Scoped /\ n # None THEN guarded \cup {n} ELSE guarded

------------------------------------------------------------------------------
(* Signals.                                                                 *)

\* subscribe, into a handle of either class that is new or empty.
subscribe(s, h) ==
  \E n \in Slots :
    /\ n = slots + 1 /\ slots' = n /\ unsubscriber_[h] = None
    /\ within' = [within EXCEPT ![n] = impl_[s]] /\ connected' = connected \cup {n}
    /\ Holds(h, n) /\ Guard(h, n)
    /\ UNCHANGED <<impl_, impls, ended>>

unsubscribe_all(s) ==
  /\ connected' = {n \in connected : within[n] # impl_[s]}
  /\ ended' = ended \cup {n \in Slots : within[n] = impl_[s]}
  /\ UNCHANGED <<impl_, impls, slots, within, unsubscriber_, guarded>>

\* Moving a signal into another: its inside goes with it, what the other had is
\* dropped with its slots, and the signal that is moved from starts anew.
move_signal(to, from) ==
  /\ to # from /\ impls < MaxImpls
  /\ impls' = impls + 1
  /\ impl_' = [impl_ EXCEPT ![to] = impl_[from], ![from] = impls']
  /\ connected' = {n \in connected : within[n] # impl_[to]}
  /\ UNCHANGED <<slots, within, unsubscriber_, ended, guarded>>

------------------------------------------------------------------------------
(* Handles.                                                                 *)

\* unsubscribe and disconnect of either class: the handle keeps its unsubscriber.
unsubscribe(h) ==
  /\ Unsubscribed(unsubscriber_[h])
  /\ UNCHANGED <<impl_, impls, slots, within, unsubscriber_, guarded>>

\* subscription::operator =, by copy and by move: both copy.
copy(to, from) ==
  /\ {to, from} \subseteq Plain
  /\ Holds(to, unsubscriber_[from])
  /\ UNCHANGED <<impl_, impls, slots, within, connected, ended, guarded>>

\* Mutant: what the object guarded before is forgotten.
assign_forgets(g, p) ==
  /\ g \in Scoped /\ p \in Plain
  /\ unsubscriber_' = [unsubscriber_ EXCEPT ![g] = unsubscriber_[p]]
  /\ Guard(g, unsubscriber_[p])
  /\ UNCHANGED <<impl_, impls, slots, within, connected, ended>>

\* scoped = subscription.  When the subscription is the one it holds already, it is
\* unsubscribed and then kept.
assign(g, p) ==
  /\ g \in Scoped /\ p \in Plain
  /\ Unsubscribed(unsubscriber_[g])
  /\ unsubscriber_' = [unsubscriber_ EXCEPT ![g] = unsubscriber_[p]]
  /\ Guard(g, unsubscriber_[p])
  /\ UNCHANGED <<impl_, impls, slots, within>>

\* scoped = std::move( subscription ): the two are swapped.
assign_moved(g, p) ==
  /\ g \in Scoped /\ p \in Plain
  /\ Unsubscribed(unsubscriber_[g])
  /\ unsubscriber_' = [unsubscriber_ EXCEPT ![g] = unsubscriber_[p], ![p] = unsubscriber_[g]]
  /\ Guard(g, unsubscriber_[p])
  /\ UNCHANGED <<impl_, impls, slots, within>>

\* scoped = scoped, by move or from an lvalue: swapped, and the other is reset.
move(g, o) ==
  /\ {g, o} \subseteq Scoped /\ g # o
  /\ Unsubscribed(unsubscriber_[g])
  /\ unsubscriber_' = [unsubscriber_ EXCEPT ![g] = unsubscriber_[o], ![o] = None]
  /\ UNCHANGED <<impl_, impls, slots, within, guarded>>

swap(g, o) ==
  /\ g # o /\ ({g, o} \subseteq Scoped \/ {g, o} \subseteq Plain)
  /\ unsubscriber_' = [unsubscriber_ EXCEPT ![g] = unsubscriber_[o], ![o] = unsubscriber_[g]]
  /\ UNCHANGED <<impl_, impls, slots, within, connected, ended, guarded>>

\* release: the slot stays connected when the object dies.
release(g, p) ==
  /\ g \in Scoped /\ p \in Plain /\ unsubscriber_[g] # None
  /\ unsubscriber_' = [unsubscriber_ EXCEPT ![g] = None, ![p] = unsubscriber_[g]]
  /\ guarded' = IF \E o \in Scoped \ {g} : unsubscriber_[o] = unsubscriber_[g]
                  THEN guarded ELSE guarded \ {unsubscriber_[g]}
  /\ UNCHANGED <<impl_, impls, slots, within, connected, ended>>

\* reset, and the destructor, after which the name stands for a new object.
reset(g) ==
  /\ g \in Scoped
  /\ Unsubscribed(unsubscriber_[g]) /\ Holds(g, None)
  /\ UNCHANGED <<impl_, impls, slots, within, guarded>>

\* A plain handle dies: nothing is unsubscribed.
drop(p) ==
  /\ p \in Plain /\ unsubscriber_[p] # None /\ Holds(p, None)
  /\ UNCHANGED <<impl_, impls, slots, within, connected, ended, guarded>>

Next ==
  \/ \E s \in Signals : unsubscribe_all(s) \/ (\E h \in Handles : subscribe(s, h)) \/ (\E t \in Signals : move_signal(s, t))
  \/ \E h \in Handles : unsubscribe(h) \/ reset(h) \/ drop(h)
  \/ \E h, o \in Handles :
       \/ copy(h, o) \/ assign(h, o) \/ assign_moved(h, o) \/ move(h, o) \/ swap(h, o) \/ release(h, o)

Spec == Init /\ [][Next]_vars

------------------------------------------------------------------------------
(* Properties.                                                              *)

\* A slot that was put under a scoped_subscription is connected only while one
\* holds it, through assignments, moves and swaps of the handles and moves of the
\* signal.  And a slot is never lost otherwise: one that nobody unsubscribed is
\* connected as long as its signal's inside lives.
GuardedUntilReset ==
  /\ \A n \in connected \cap guarded : \E g \in Scoped : unsubscriber_[g] = n
  /\ connected = {n \in 1..slots : n \notin ended /\ within[n] \in Living}
================================================================================
