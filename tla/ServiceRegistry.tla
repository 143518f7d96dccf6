---------------------------- MODULE ServiceRegistry ----------------------------
(***************************************************************************)
(* Where a call finds its service.                                         *)
(*                                                                         *)
(* A client (lib/vtrc/client/base.cpp) registers handlers by name          *)
(* in three maps: hold_services_ keeps a wrapper, weak_services_ points to *)
(* wrappers, weak_native_services_ to bare services; a factory makes what  *)
(* none of them has.  get_handler looks into them in three separate        *)
(* critical sections, while the user's thread registers, erases and lets   *)
(* handlers go.                                                            *)
(*                                                                         *)
(* One name is modelled: maps of other names do not interact.              *)
(***************************************************************************)
EXTENDS Naturals

Wrappers == {"w1", "w2"}
Natives == {"n1"}
Readers == {"r1", "r2"}
None == "none"
Made == "made"      \* a service of the factory

VARIABLES
  hold_services_, weak_services_, weak_native_services_,   \* entry of the name, or None
  factory_,    \* a factory is set, and knows the name
  owned,       \* the handlers the user keeps
  lookup,      \* reader -> [at, result]
  changes,     \* bound: calls of the user's thread so far
  expected,    \* history: handlers registered by a call and not erased by one
  sure,        \* history: readers during whose lookup nothing changed
  seen         \* history: reader -> handlers registered during its lookup

maps == <<hold_services_, weak_services_, weak_native_services_>>
vars == <<maps, factory_, owned, lookup, changes, expected, sure, seen>>

CONSTANT MaxChanges

Init ==
  /\ hold_services_ = None /\ weak_services_ = None /\ weak_native_services_ = None
  /\ factory_ = FALSE /\ owned = Wrappers \cup Natives
  /\ lookup = [r \in Readers |-> [at |-> "idle", result |-> None]]
  /\ changes = 0
  /\ expected = {} /\ sure = {} /\ seen = [r \in Readers |-> {}]

\* The handler exists: the user, the map that holds, or a lookup keeps it.
Alive(o) == o \in owned \/ hold_services_ = o \/ \E r \in Readers : lookup[r].result = o

------------------------------------------------------------------------------
(* The user's thread.                                                       *)

\* Every change is seen by the lookups under way.
Registered(now) ==
  /\ changes < MaxChanges /\ changes' = changes + 1
  /\ expected' = now /\ sure' = {}
  /\ seen' = [r \in Readers |-> IF lookup[r].at = "idle" THEN {} ELSE seen[r] \cup now]

assign_handler_wrap(w) ==
  /\ w \in owned
  /\ hold_services_' = w /\ weak_services_' = w
  /\ Registered((expected \ Wrappers) \cup {w})
  /\ UNCHANGED <<weak_native_services_, factory_, owned, lookup>>

assign_weak_handler_wrap(w) ==
  /\ w \in owned
  /\ weak_services_' = w
  /\ Registered((expected \ Wrappers) \cup {w})
  /\ UNCHANGED <<hold_services_, weak_native_services_, factory_, owned, lookup>>

assign_weak_handler(n) ==
  /\ n \in owned
  /\ weak_native_services_' = n
  /\ Registered(expected \cup {n})
  /\ UNCHANGED <<hold_services_, weak_services_, factory_, owned, lookup>>

assign_service_factory(set) ==
  /\ factory_ # set
  /\ factory_' = set
  /\ Registered(expected)
  /\ UNCHANGED <<maps, owned, lookup>>

\* Mutant: the weak map keeps its entry.
erase_rpc_handler_hold ==
  /\ hold_services_' = None /\ weak_native_services_' = None
  /\ Registered({})
  /\ UNCHANGED <<weak_services_, factory_, owned, lookup>>

erase_rpc_handler ==
  /\ hold_services_' = None /\ weak_services_' = None /\ weak_native_services_' = None
  /\ Registered({})
  /\ UNCHANGED <<factory_, owned, lookup>>

\* The map of the native services is not cleared.
erase_all_rpc_handlers ==
  /\ hold_services_' = None /\ weak_services_' = None
  /\ Registered(expected \cap Natives)
  /\ UNCHANGED <<weak_native_services_, factory_, owned, lookup>>

\* The user lets a handler go.
Release(o) ==
  /\ o \in owned
  /\ owned' = owned \ {o}
  /\ Registered(expected)
  /\ UNCHANGED <<maps, factory_, lookup>>

------------------------------------------------------------------------------
(* get_handler, run by the threads that execute calls.                      *)

At(r, place) == lookup[r].at = place
Goes(r, place, result) == lookup' = [lookup EXCEPT ![r] = [at |-> place, result |-> result]]

BeginLookup(r) ==
  /\ At(r, "idle")
  /\ Goes(r, "weak", None)
  /\ sure' = sure \cup {r} /\ seen' = [seen EXCEPT ![r] = expected]
  /\ UNCHANGED <<maps, factory_, owned, changes, expected>>

\* Mutant: what the weak map lost is not looked for elsewhere.
AskWeak_only(r) ==
  /\ At(r, "weak")
  /\ LET alive == weak_services_ # None /\ Alive(weak_services_) IN
     /\ Goes(r, "end", IF alive THEN weak_services_ ELSE None)
     /\ weak_services_' = IF alive THEN weak_services_ ELSE None
  /\ UNCHANGED <<hold_services_, weak_native_services_, factory_, owned, changes, expected, sure, seen>>

\* A map is asked: a handler that is gone is taken out of it.
AskWeak(r) ==
  /\ At(r, "weak")
  /\ LET alive == weak_services_ # None /\ Alive(weak_services_) IN
     /\ IF alive THEN Goes(r, "end", weak_services_) ELSE Goes(r, "native", None)
     /\ weak_services_' = IF alive THEN weak_services_ ELSE None
  /\ UNCHANGED <<hold_services_, weak_native_services_, factory_, owned, changes, expected, sure, seen>>

AskNative(r) ==
  /\ At(r, "native")
  /\ LET alive == weak_native_services_ # None /\ Alive(weak_native_services_) IN
     /\ IF alive THEN Goes(r, "end", weak_native_services_) ELSE Goes(r, "factory", None)
     /\ weak_native_services_' = IF alive THEN weak_native_services_ ELSE None
  /\ UNCHANGED <<hold_services_, weak_services_, factory_, owned, changes, expected, sure, seen>>

AskFactory(r) ==
  /\ At(r, "factory")
  /\ Goes(r, "end", IF factory_ THEN Made ELSE None)
  /\ UNCHANGED <<maps, factory_, owned, changes, expected, sure, seen>>

\* The call has its service, and gives it up when it is done.
EndLookup(r) ==
  /\ At(r, "end")
  /\ Goes(r, "idle", None)
  /\ seen' = [seen EXCEPT ![r] = {}] /\ sure' = sure \ {r}
  /\ UNCHANGED <<maps, factory_, owned, changes, expected>>

UserCalls ==
  \/ \E w \in Wrappers : assign_handler_wrap(w) \/ assign_weak_handler_wrap(w)
  \/ \E n \in Natives : assign_weak_handler(n)
  \/ \E set \in BOOLEAN : assign_service_factory(set)
  \/ erase_rpc_handler \/ erase_all_rpc_handlers
  \/ \E o \in Wrappers \cup Natives : Release(o)

Next ==
  \/ UserCalls
  \/ \E r \in Readers :
       BeginLookup(r) \/ AskWeak(r) \/ AskNative(r) \/ AskFactory(r) \/ EndLookup(r)

Spec == Init /\ [][Next]_vars

------------------------------------------------------------------------------
\* A lookup during which nothing is registered, erased or let go finds a
\* service if there is one, and no lookup finds one that was erased before it began.
\* (A wrapper that is held but was hidden by a weak one of the same name,
\* which is gone, does not count: it is not found any more.)
LookupHonest ==
  \A r \in Readers : At(r, "end") =>
    /\ lookup[r].result \in Wrappers \cup Natives => lookup[r].result \in seen[r]
    /\ lookup[r].result = None /\ r \in sure => ~factory_ /\ \A o \in expected : ~Alive(o)
===============================================================================
