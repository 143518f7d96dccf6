------------------------------ MODULE Observer ------------------------------
(***************************************************************************)
(* The signal of include/vtrc/common/observer/base.h, with the recursive   *)
(* mutex of VTRC_DECLARE_SIGNAL and the simple slot traits (no slot        *)
(* expires).  Every signal of the library is one of these: on_ready,       *)
(* on_init_error, on_connect, on_disconnect, on_new_connection and so on.  *)
(*                                                                         *)
(* An emission holds list_lock_ while it calls the slots, so list_ has one *)
(* user at a time; what other threads, and the slots, do meanwhile goes to *)
(* added_ and removed_ under tmp_lock_.  The lock is recursive: a slot may *)
(* emit the signal again, and drop all slots, from inside an emission.     *)
(* A step here is a section under tmp_lock_ with the work on list_ that    *)
(* follows it and that nobody else can see.                                *)
(***************************************************************************)
EXTENDS Integers, Sequences, SequencesExt, FiniteSets

CONSTANTS
  Threads,   \* the threads that use the signal
  MaxSubs,   \* bound: how many subscriptions are ever made
  MaxDepth   \* bound: how deep emissions nest

ASSUME ObserverAssumption ==
  /\ MaxSubs \in Nat
  /\ MaxDepth \in Nat

VARIABLES
  id_,       \* the next subscription's number
  list_,     \* numbers of the slots the emissions walk over
  added_,    \* numbers of the slots not yet spliced to list_
  removed_,  \* numbers given up and not yet taken out of list_
  stack,     \* thread -> its emissions, the innermost last
  gone,      \* history: numbers given up by unsubscribe or clear
  broken     \* an emission went on from a node that was freed

vars == <<id_, list_, added_, removed_, stack, gone, broken>>

Ids == 1 .. MaxSubs
NoNode == 0

\* One emission: the node it stands at, whether that node's slot is being
\* called, the slots called so far, the slots it found when it began, and
\* the ones that emitted or cleared the signal while they ran.
Emission == [b : Ids \cup {NoNode}, at : {"check", "exec"},
             called : Seq(Ids), due : SUBSET Ids, nestedIn : SUBSET Ids]

\* Numbers in the order they were handed out.
Ascending(s) == \A i, j \in DOMAIN s : i < j => s[i] < s[j]

\* Types of the variables; every number in a container was handed out by
\* connect, and the slots stand in that order, in the list and beyond it in
\* the added: remove_by_index and clear_removed search by it.
TypeOK ==
  /\ id_ \in 1 .. MaxSubs + 1
  /\ list_ \in Seq(1 .. id_ - 1) /\ added_ \in Seq(1 .. id_ - 1)
  /\ removed_ \subseteq 1 .. id_ - 1 /\ gone \subseteq 1 .. id_ - 1
  /\ Ascending(list_ \o added_)
  /\ stack \in [Threads -> Seq(Emission)]
  /\ broken \in BOOLEAN

Init ==
  /\ id_ = 1 /\ list_ = <<>> /\ added_ = <<>> /\ removed_ = {}
  /\ stack = [t \in Threads |-> <<>>]
  /\ gone = {} /\ broken = FALSE

------------------------------------------------------------------------------
(* The list of details/list.h, a node being its slot's number.              *)

\* Mutant: ++b looks at the node after the next.
next_two(lst, b) ==
  LET p == CHOOSE i \in DOMAIN lst : lst[i] = b
  IN IF p + 2 \in DOMAIN lst THEN lst[p + 2] ELSE NoNode

\* The node after b.
next(lst, b) ==
  LET p == CHOOSE i \in DOMAIN lst : lst[i] = b
  IN IF p + 1 \in DOMAIN lst THEN lst[p + 1] ELSE NoNode

begin(lst) == IF lst = <<>> THEN NoNode ELSE Head(lst)

erase(lst, b) == RemoveAt(lst, CHOOSE i \in DOMAIN lst : lst[i] = b)

\* lst after a walk that erases the nodes whose numbers are in ids.
eraseAll(lst, ids) ==
  LET walk[i \in 0 .. Len(lst)] ==
        IF i = 0 THEN <<>>
        ELSE IF lst[i] \in ids THEN walk[i - 1] ELSE Append(walk[i - 1], lst[i])
  IN walk[Len(lst)]

\* Search from the nearer end for the first node not before, or the last not
\* after, id, and erase it if it is id's.
remove_by_index(lst, id) ==
  IF lst = <<>> \/ id < Head(lst) \/ id > Last(lst) THEN lst
  ELSE LET p == IF id - Head(lst) < Last(lst) - id
                THEN CHOOSE i \in DOMAIN lst :
                       lst[i] >= id /\ \A j \in 1 .. i - 1 : lst[j] < id
                ELSE CHOOSE i \in DOMAIN lst :
                       lst[i] <= id /\ \A j \in i + 1 .. Len(lst) : id < lst[j]
       IN IF lst[p] = id THEN RemoveAt(lst, p) ELSE lst

------------------------------------------------------------------------------
(* The operations.  They are called by a thread that is in no emission or   *)
(* from the slot its innermost emission is calling.                         *)

Innermost(t) == stack[t][Len(stack[t])]
InSlot(t) == stack[t] # <<>> /\ Innermost(t).at = "exec"
Free(t) == ~broken /\ (stack[t] = <<>> \/ InSlot(t))

\* list_lock_ is free or t's own.
MayLock(t) == \A u \in Threads \ {t} : stack[u] = <<>>

SetInnermost(t, e) == [stack EXCEPT ![t] = [@ EXCEPT ![Len(@)] = e]]

\* The slot t is running is marked as having used list_lock_ again.
Nesting(t) ==
  IF InSlot(t)
  THEN SetInnermost(t, [Innermost(t) EXCEPT !.nestedIn = @ \cup {Innermost(t).b}])
  ELSE stack

\* Mutant: the new slot is put before the others.
connect_front(t) ==
  /\ Free(t) /\ id_ <= MaxSubs
  /\ id_' = id_ + 1
  /\ added_' = <<id_>> \o added_
  /\ UNCHANGED <<list_, removed_, stack, gone, broken>>

\* Number the slot and put it last among the added.
connect(t) ==
  /\ Free(t) /\ id_ <= MaxSubs
  /\ id_' = id_ + 1
  /\ added_' = Append(added_, id_)
  /\ UNCHANGED <<list_, removed_, stack, gone, broken>>

\* Mutant: the slot is taken out of list_ at once.
unsubscribe_direct(t, id) ==
  /\ Free(t) /\ id < id_
  /\ list_' = remove_by_index(list_, id)
  /\ added_' = remove_by_index(added_, id)
  /\ gone' = gone \cup {id}
  /\ UNCHANGED <<id_, removed_, stack, broken>>

\* Note the number for the emissions and take it from the added.  A
\* subscription may be given up more than once.
unsubscribe(t, id) ==
  /\ Free(t) /\ id < id_
  /\ removed_' = removed_ \cup {id}
  /\ added_' = remove_by_index(added_, id)
  /\ gone' = gone \cup {id}
  /\ UNCHANGED <<id_, list_, stack, broken>>

\* Under both locks, drop everything.
clear(t) ==
  /\ Free(t) /\ MayLock(t)
  /\ list_' = <<>> /\ added_' = <<>> /\ removed_' = {}
  /\ gone' = gone \cup ToSet(list_) \cup ToSet(added_)
  /\ stack' = Nesting(t)
  /\ UNCHANGED <<id_, broken>>

------------------------------------------------------------------------------
(* operator( ): an emission.                                                *)

\* Take list_lock_, splice the added slots to the list and start at its front.
EmitBegins(t) ==
  /\ Free(t) /\ MayLock(t) /\ Len(stack[t]) < MaxDepth
  /\ LET l == list_ \o added_ IN
     /\ list_' = l /\ added_' = <<>>
     /\ stack' = [Nesting(t) EXCEPT ![t] =
          Append(@, [b |-> begin(l), at |-> "check", called |-> <<>>,
                     due |-> ToSet(l) \ gone, nestedIn |-> {}])]
  /\ UNCHANGED <<id_, removed_, gone, broken>>

AtNode(t) ==
  ~broken /\ stack[t] # <<>> /\ Innermost(t).at = "check" /\ Innermost(t).b # NoNode

\* Mutant: the removed are not looked at.
CheckNode_always(t) ==
  /\ AtNode(t)
  /\ LET e == Innermost(t) IN
     stack' = SetInnermost(t, [e EXCEPT !.at = "exec",
                                        !.called = Append(@, e.b)])
  /\ UNCHANGED <<id_, list_, added_, removed_, gone, broken>>

\* is_removed: a slot that was given up is erased, any other is called.
CheckNode(t) ==
  /\ AtNode(t)
  /\ LET e == Innermost(t) IN
     IF e.b \in removed_
     THEN /\ removed_' = removed_ \ {e.b}
          /\ list_' = erase(list_, e.b)
          /\ stack' = SetInnermost(t, [e EXCEPT !.b = next(list_, e.b)])
     ELSE /\ stack' = SetInnermost(t, [e EXCEPT !.at = "exec",
                                                !.called = Append(@, e.b)])
          /\ UNCHANGED <<list_, removed_>>
  /\ UNCHANGED <<id_, added_, gone, broken>>

\* The slot returns and the emission goes on to the next node.  If the node
\* was freed meanwhile what follows is undefined: the model stops there.
SlotReturns(t) ==
  /\ ~broken /\ InSlot(t)
  /\ LET e == Innermost(t) IN
     IF e.b \in ToSet(list_)
     THEN /\ stack' = SetInnermost(t, [e EXCEPT !.at = "check",
                                                !.b = next(list_, e.b)])
          /\ UNCHANGED broken
     ELSE broken' = TRUE /\ UNCHANGED stack
  /\ UNCHANGED <<id_, list_, added_, removed_, gone>>

\* The slot throws: the emission ends without clear_removed, and the caller's
\* slot, if there is one, may catch it or throw in turn.
SlotThrows(t) ==
  /\ ~broken /\ InSlot(t)
  /\ stack' = [stack EXCEPT ![t] = Front(@)]
  /\ UNCHANGED <<id_, list_, added_, removed_, gone, broken>>

\* Mutant: what was given up during the emission is forgotten.
clear_removed_forgets(t) ==
  /\ ~broken /\ stack[t] # <<>> /\ Innermost(t).b = NoNode
  /\ removed_' = {}
  /\ stack' = [stack EXCEPT ![t] = Front(@)]
  /\ UNCHANGED <<id_, list_, added_, gone, broken>>

\* The end of the list: take the noted numbers and erase their nodes (both
\* are in ascending order, one walk is enough), then leave.
clear_removed(t) ==
  /\ ~broken /\ stack[t] # <<>> /\ Innermost(t).b = NoNode
  /\ removed_' = {}
  /\ list_' = eraseAll(list_, removed_)
  /\ stack' = [stack EXCEPT ![t] = Front(@)]
  /\ UNCHANGED <<id_, added_, gone, broken>>

Crashed == broken /\ UNCHANGED vars

Next ==
  \/ \E t \in Threads :
       \/ connect(t) \/ (\E id \in Ids : unsubscribe(t, id)) \/ clear(t)
       \/ EmitBegins(t) \/ CheckNode(t) \/ SlotReturns(t) \/ SlotThrows(t)
       \/ clear_removed(t)
  \/ Crashed

Spec == Init /\ [][Next]_vars

------------------------------------------------------------------------------
(* Properties.                                                              *)

\* All emissions in progress.
Emissions == UNION {ToSet(stack[t]) : t \in Threads}

\* A subscription that was given up is never forgotten: while its slot is
\* still in the list its number is in removed_, and it has left added_, so no
\* splice brings it back.  The two containers change under different locks.
NeverForgotten ==
  /\ gone \cap ToSet(list_) \subseteq removed_
  /\ gone \cap ToSet(added_) = {}

\* An emission calls the slots in order and each at most once, and has
\* called every slot it found when it began, up to the node it stands at,
\* unless the slot was given up meanwhile.  A slot connected during it, by
\* another thread or by a slot, waits for the next one, unless a slot emitted
\* the signal again: that splices the new slots into the list the outer
\* emission walks over.
EveryoneCalledOnce ==
  \A e \in Emissions :
    /\ Ascending(e.called)
    /\ \A x \in e.due : (e.b = NoNode \/ x < e.b) => x \in ToSet(e.called) \cup gone
    /\ e.nestedIn = {} => ToSet(e.called) \subseteq e.due

\* The node of a running slot stays in the list, whatever other threads do;
\* it is freed under the emission only if this very slot was given up and
\* used the signal again, emitting or clearing it.
RunningSlotKept ==
  \A e \in Emissions :
    (e.at = "exec" /\ e.b \notin ToSet(list_)) => (e.b \in gone /\ e.b \in e.nestedIn)

\* No call of a slot starts from a check made after the slot was given up:
\* once unsubscribe has returned, the only call that can still come is the one
\* whose is_removed had been asked before.
NotCalledOnceGone ==
  [][\A t \in Threads :
       (AtNode(t) /\ stack[t] # stack'[t] /\ stack'[t][Len(stack[t])].at = "exec")
         => Innermost(t).b \notin gone]_vars

\* Emissions that nest, and threads that connect and give up slots meanwhile, make no
\* emission forget, repeat or lose the slot it stands at.  (operator ( ), connect)
EmissionsRight == TypeOK /\ EveryoneCalledOnce /\ RunningSlotKept
==============================================================================
