------------------------------- MODULE NodeList -------------------------------
(***************************************************************************)
(* The doubly linked list of details/list.h, that signals keep their slots *)
(* in, down to its pointers: two lists over one heap of nodes, as list_ and*)
(* added_ of a signal are.  The sequence a list stands for is kept beside  *)
(* it; the properties compare the two.                                     *)
(*                                                                         *)
(* clear frees the nodes and leaves size_ as it was.  The library calls it *)
(* only from the destructor; whoever called it otherwise would meet        *)
(* remove_by_index of the signal, which reads the front of a list whose    *)
(* size is not zero.                                                       *)
(***************************************************************************)
EXTENDS Integers, Sequences, SequencesExt, FiniteSets

CONSTANT MaxNodes    \* bound: nodes that are ever made

Lists == {"list_", "added_"}
Other(l) == IF l = "list_" THEN "added_" ELSE "list_"
NULL == 0
Nodes == 1..MaxNodes

VARIABLES
  front_, back_, size_,  \* list -> its members
  prev_, next_,          \* node -> its links
  heap,                  \* nodes that live
  made,                  \* nodes made so far
  held,                  \* the iterator the last erase returned
  spec,                  \* history: list -> the sequence it stands for
  stale                  \* history: list -> nodes it lost by clear

vars == <<front_, back_, size_, prev_, next_, heap, made, held, spec, stale>>

Init ==
  /\ front_ = [l \in Lists |-> NULL] /\ back_ = [l \in Lists |-> NULL]
  /\ size_ = [l \in Lists |-> 0]
  /\ prev_ = [n \in Nodes |-> NULL] /\ next_ = [n \in Nodes |-> NULL]
  /\ heap = {} /\ made = 0 /\ held = NULL
  /\ spec = [l \in Lists |-> <<>>] /\ stale = [l \in Lists |-> 0]

\* new node(data).
New(n) == n = made + 1 /\ made' = n /\ heap' = heap \cup {n}

push_back(l) ==
  \E n \in Nodes :
    /\ New(n)
    /\ IF front_[l] # NULL
         THEN /\ prev_' = [prev_ EXCEPT ![n] = back_[l]]
              /\ next_' = [next_ EXCEPT ![back_[l]] = n]
              /\ UNCHANGED front_
         ELSE front_' = [front_ EXCEPT ![l] = n] /\ UNCHANGED <<prev_, next_>>
    /\ back_' = [back_ EXCEPT ![l] = n]
    /\ size_' = [size_ EXCEPT ![l] = @ + 1]
    /\ spec' = [spec EXCEPT ![l] = Append(@, n)]
    /\ UNCHANGED <<held, stale>>

push_front(l) ==
  \E n \in Nodes :
    /\ New(n)
    /\ IF front_[l] # NULL
         THEN /\ next_' = [next_ EXCEPT ![n] = front_[l]]
              /\ prev_' = [prev_ EXCEPT ![front_[l]] = n]
              /\ UNCHANGED back_
         ELSE back_' = [back_ EXCEPT ![l] = n] /\ UNCHANGED <<prev_, next_>>
    /\ front_' = [front_ EXCEPT ![l] = n]
    /\ size_' = [size_ EXCEPT ![l] = @ + 1]
    /\ spec' = [spec EXCEPT ![l] = <<n>> \o @]
    /\ UNCHANGED <<held, stale>>

\* Mutant: the node behind keeps its link to the erased one.
cerase_forward(l, n) ==
  /\ next_' = [m \in Nodes |-> IF m = prev_[n] THEN next_[n] ELSE next_[m]]
  /\ UNCHANGED prev_
  /\ back_' = [back_ EXCEPT ![l] = IF @ = n THEN prev_[n] ELSE @]
  /\ front_' = [front_ EXCEPT ![l] = IF @ = n THEN next_[n] ELSE @]
  /\ heap' = heap \ {n} /\ size_' = [size_ EXCEPT ![l] = @ - 1]

\* cerase: the neighbours are linked, the ends moved, the node freed.
cerase(l, n) ==
  /\ next_' = [m \in Nodes |-> IF m = prev_[n] THEN next_[n] ELSE next_[m]]
  /\ prev_' = [m \in Nodes |-> IF m = next_[n] THEN prev_[n] ELSE prev_[m]]
  /\ back_' = [back_ EXCEPT ![l] = IF @ = n THEN prev_[n] ELSE @]
  /\ front_' = [front_ EXCEPT ![l] = IF @ = n THEN next_[n] ELSE @]
  /\ heap' = heap \ {n} /\ size_' = [size_ EXCEPT ![l] = @ - 1]

Erased(l, n) ==
  \E i \in DOMAIN spec[l] :
    /\ spec[l][i] = n /\ spec' = [spec EXCEPT ![l] = RemoveAt(@, i)]
    /\ UNCHANGED <<made, stale>>

\* erase goes on to the next node, rerase to the one before.
erase(l, n) == Erased(l, n) /\ held' = next_[n] /\ cerase(l, n)
rerase(l, n) == Erased(l, n) /\ held' = prev_[n] /\ cerase(l, n)

\* The other list is put behind this one.
splice_back(l) ==
  LET o == Other(l) IN
    /\ front_' = [front_ EXCEPT ![l] = IF @ = NULL THEN front_[o] ELSE @, ![o] = NULL]
    /\ back_' = [back_ EXCEPT ![l] = IF front_[l] = NULL \/ front_[o] # NULL THEN back_[o] ELSE @,
                              ![o] = NULL]
    /\ IF front_[l] # NULL /\ front_[o] # NULL
         THEN /\ next_' = [next_ EXCEPT ![back_[l]] = front_[o]]
              /\ prev_' = [prev_ EXCEPT ![front_[o]] = back_[l]]
         ELSE UNCHANGED <<prev_, next_>>
    /\ size_' = [size_ EXCEPT ![l] = @ + size_[o], ![o] = 0]
    /\ spec' = [spec EXCEPT ![l] = @ \o spec[o], ![o] = <<>>]
    /\ stale' = [stale EXCEPT ![l] = @ + stale[o], ![o] = 0]
    /\ UNCHANGED <<heap, made, held>>

Swapped(f) == [l \in Lists |-> f[Other(l)]]
swap ==
  /\ front_' = Swapped(front_) /\ back_' = Swapped(back_) /\ size_' = Swapped(size_)
  /\ spec' = Swapped(spec) /\ stale' = Swapped(stale)
  /\ UNCHANGED <<prev_, next_, heap, made, held>>

\* clear frees what it finds on the way from the front.
clear(l) ==
  /\ stale[l] = 0
  /\ heap' = heap \ ToSet(spec[l]) /\ held' = NULL
  /\ front_' = [front_ EXCEPT ![l] = NULL] /\ back_' = [back_ EXCEPT ![l] = NULL]
  /\ spec' = [spec EXCEPT ![l] = <<>>] /\ stale' = [stale EXCEPT ![l] = Len(spec[l])]
  /\ UNCHANGED <<size_, prev_, next_, made>>

Next ==
  \/ swap
  \/ \E l \in Lists :
       \/ push_back(l) \/ push_front(l) \/ splice_back(l) \/ clear(l)
       \/ \E n \in Nodes : erase(l, n) \/ rerase(l, n)

Spec == Init /\ [][Next]_vars

------------------------------------------------------------------------------
(* Properties.                                                              *)

\* From either end the links lead through the nodes the list stands for, all of
\* them alive and no node in two lists; no node is lost or freed twice.  size_ is
\* right but for what clear left in it, and the iterator erase returned can be used.
LinksRight ==
  /\ \A l \in Lists :
       LET s == spec[l] IN
         /\ front_[l] = (IF s = <<>> THEN NULL ELSE s[1])
         /\ back_[l] = (IF s = <<>> THEN NULL ELSE s[Len(s)])
         /\ \A i \in DOMAIN s :
              /\ prev_[s[i]] = (IF i = 1 THEN NULL ELSE s[i - 1])
              /\ next_[s[i]] = (IF i = Len(s) THEN NULL ELSE s[i + 1])
         /\ size_[l] = Len(s) + stale[l]
  /\ heap = UNION {ToSet(spec[l]) : l \in Lists}
  /\ ToSet(spec["list_"]) \cap ToSet(spec["added_"]) = {}
  /\ held = NULL \/ held \in heap
===============================================================================
