--------------------------- MODULE ObserverProofs ----------------------------
(***************************************************************************)
(* Proofs about the signal, for every number of threads, of subscriptions  *)
(* and every depth of nested emissions.  The list keeps the numbers of its *)
(* slots in ascending order, so what the walks over it do can be said with *)
(* sets: first the lemmas that say it, then the invariant of the           *)
(* emissions.  Proofs about the list behind a signal, about the handles of *)
(* a subscription, and about the linked call contexts of a thread, for any *)
(* number of nodes, slots and calls.                                       *)
(***************************************************************************)
EXTENDS Observer, MCLibrary, Lemmas

\* The numbers of a list are different, and its order is the numbers' own.
LEMMA AscendingIndex ==
  ASSUME NEW s \in Seq(Nat), Ascending(s), NEW i \in DOMAIN s, NEW j \in DOMAIN s
  PROVE  /\ i \in Nat \ {0} /\ j \in Nat \ {0} /\ s[i] \in Nat /\ s[j] \in Nat
         /\ s[i] = s[j] => i = j
         /\ s[i] < s[j] => i < j
  <1>1. i \in 1..Len(s) /\ j \in 1..Len(s) /\ Len(s) \in Nat /\ s[i] \in Nat /\ s[j] \in Nat
    BY LenProperties, ElementOfSeq
  <1>2. i < j => s[i] < s[j]
    BY DEF Ascending
  <1>3. j < i => s[j] < s[i]
    BY DEF Ascending
  <1> QED
    BY <1>1, <1>2, <1>3

\* Concatenation keeps the order if the numbers of the one are below the
\* numbers of the other.
LEMMA AscendingConcat ==
  ASSUME NEW s \in Seq(Nat), NEW t \in Seq(Nat)
  PROVE  /\ ToSet(s \o t) = ToSet(s) \cup ToSet(t)
         /\ Ascending(s \o t) <=> /\ Ascending(s) /\ Ascending(t)
                                  /\ \A x \in ToSet(s), y \in ToSet(t) : x < y
  <1>1. /\ Len(s \o t) = Len(s) + Len(t)
        /\ DOMAIN (s \o t) = 1..(Len(s) + Len(t))
        /\ \A i \in 1..Len(s) : (s \o t)[i] = s[i]
        /\ \A i \in 1..Len(t) : (s \o t)[Len(s) + i] = t[i]
    BY ConcatAt
  <1>2. DOMAIN s = 1..Len(s) /\ DOMAIN t = 1..Len(t) /\ Len(s) \in Nat /\ Len(t) \in Nat
    BY LenProperties
  <1>3. \A i \in DOMAIN (s \o t) :
          \/ i \in DOMAIN s /\ (s \o t)[i] = s[i]
          \/ /\ i - Len(s) \in DOMAIN t /\ i > Len(s)
             /\ (s \o t)[i] = t[i - Len(s)]
    <2> SUFFICES ASSUME NEW i \in DOMAIN (s \o t)
                 PROVE  \/ i \in DOMAIN s /\ (s \o t)[i] = s[i]
                        \/ /\ i - Len(s) \in DOMAIN t /\ i > Len(s)
                           /\ (s \o t)[i] = t[i - Len(s)]
      OBVIOUS
    <2>1. CASE i <= Len(s)
      BY <2>1, <1>1, <1>2
    <2>2. CASE i > Len(s)
      <3>1. i - Len(s) \in 1..Len(t) /\ i = Len(s) + (i - Len(s))
        BY <2>2, <1>1, <1>2
      <3> QED
        BY <3>1, <2>2, <1>1, <1>2
    <2> QED
      BY <2>1, <2>2, <1>1, <1>2
  <1>4. \A i \in DOMAIN s : i \in DOMAIN (s \o t) /\ (s \o t)[i] = s[i]
    BY <1>1, <1>2
  <1>5. \A i \in DOMAIN t : Len(s) + i \in DOMAIN (s \o t) /\ (s \o t)[Len(s) + i] = t[i]
    BY <1>1, <1>2
  <1>6. ToSet(s \o t) = ToSet(s) \cup ToSet(t)
    <2>1. ToSet(s \o t) \subseteq ToSet(s) \cup ToSet(t)
      BY <1>3 DEF ToSet
    <2>2. ToSet(s) \subseteq ToSet(s \o t)
      BY <1>4 DEF ToSet
    <2>3. ToSet(t) \subseteq ToSet(s \o t)
      BY <1>5 DEF ToSet
    <2> QED
      BY <2>1, <2>2, <2>3
  <1>7. ASSUME Ascending(s \o t)
        PROVE  /\ Ascending(s) /\ Ascending(t)
               /\ \A x \in ToSet(s), y \in ToSet(t) : x < y
    <2>1. Ascending(s)
      BY <1>7, <1>4 DEF Ascending
    <2>2. Ascending(t)
      <3> SUFFICES ASSUME NEW i \in DOMAIN t, NEW j \in DOMAIN t, i < j PROVE t[i] < t[j]
        BY DEF Ascending
      <3>1. Len(s) + i < Len(s) + j
        BY <1>2
      <3> QED
        BY <3>1, <1>5, <1>7 DEF Ascending
    <2>3. ASSUME NEW i \in DOMAIN s, NEW j \in DOMAIN t PROVE s[i] < t[j]
      <3>1. i < Len(s) + j
        BY <1>2
      <3> QED
        BY <3>1, <1>4, <1>5, <1>7 DEF Ascending
    <2> QED
      BY <2>1, <2>2, <2>3 DEF ToSet
  <1>8. ASSUME Ascending(s), Ascending(t), \A x \in ToSet(s), y \in ToSet(t) : x < y
        PROVE  Ascending(s \o t)
    <2>1. \A i \in DOMAIN s, j \in DOMAIN t : s[i] < t[j]
      BY <1>8 DEF ToSet
    <2> SUFFICES ASSUME NEW i \in DOMAIN (s \o t), NEW j \in DOMAIN (s \o t), i < j
                 PROVE  (s \o t)[i] < (s \o t)[j]
      BY DEF Ascending
    <2>2. CASE i <= Len(s) /\ j <= Len(s)
      BY <2>2, <1>1, <1>2, <1>8 DEF Ascending
    <2>3. CASE i <= Len(s) /\ j > Len(s)
      BY <2>1, <2>3, <1>1, <1>2, <1>3
    <2>4. CASE i > Len(s) /\ j > Len(s)
      <3>1. i - Len(s) \in DOMAIN t /\ j - Len(s) \in DOMAIN t /\ i - Len(s) < j - Len(s)
        BY <2>4, <1>1, <1>2
      <3>2. (s \o t)[i] = t[i - Len(s)] /\ (s \o t)[j] = t[j - Len(s)]
        BY <2>4, <1>2, <1>3
      <3> QED
        BY <3>1, <3>2, <1>8 DEF Ascending
    <2> QED
      BY <2>2, <2>3, <2>4, <1>1, <1>2
  <1> QED
    BY <1>6, <1>7, <1>8

\* RemoveAt takes one number out and keeps the order of the others.
LEMMA RemoveAtSet ==
  ASSUME NEW S \in SUBSET Nat, NEW s \in Seq(S), Ascending(s), NEW p \in DOMAIN s
  PROVE  /\ RemoveAt(s, p) \in Seq(S)
         /\ Ascending(RemoveAt(s, p))
         /\ ToSet(RemoveAt(s, p)) = ToSet(s) \ {s[p]}
  <1> DEFINE u == SubSeq(s, 1, p - 1)
             v == SubSeq(s, p + 1, Len(s))
  <1>1. DOMAIN s = 1..Len(s) /\ Len(s) \in Nat /\ p \in 1..Len(s) /\ s \in Seq(Nat)
    BY LenProperties, SeqWiden
  <1>2. u \in Seq(S) /\ Len(u) = p - 1 /\ \A i \in 1..(p - 1) : u[i] = s[i]
    <2>1. p - 1 \in Nat /\ p - 1 <= Len(s) /\ 1 <= p - 1 + 1 /\ 1 \in Nat \ {0}
      BY <1>1
    <2>2. /\ u \in Seq(S) /\ Len(u) = p - 1 + 1 - 1
          /\ \A i \in 1..(p - 1 + 1 - 1) : u[i] = s[1 - 1 + i]
      BY <2>1, SubSeqAt
    <2> HIDE DEF u
    <2> QED
      BY <1>1, <2>2
  <1>3. v \in Seq(S) /\ Len(v) = Len(s) - p /\ \A i \in 1..(Len(s) - p) : v[i] = s[p + i]
    <2>1. Len(s) \in Nat /\ Len(s) <= Len(s) /\ p + 1 <= Len(s) + 1 /\ p + 1 \in Nat \ {0}
      BY <1>1
    <2>2. /\ v \in Seq(S) /\ Len(v) = Len(s) + 1 - (p + 1)
          /\ \A i \in 1..(Len(s) + 1 - (p + 1)) : v[i] = s[p + 1 - 1 + i]
      BY <2>1, SubSeqAt
    <2> HIDE DEF v
    <2> QED
      BY <1>1, <2>2, SMTT(30)
  <1>4. RemoveAt(s, p) = u \o v
    BY DEF RemoveAt
  <1> HIDE DEF u, v
  <1>5. u \in Seq(Nat) /\ v \in Seq(Nat) /\ u \o v \in Seq(S)
    BY <1>2, <1>3, ConcatProperties, SeqWiden
  <1>6. DOMAIN u = 1..(p - 1) /\ DOMAIN v = 1..(Len(s) - p)
    BY <1>2, <1>3, LenProperties
  <1>7. Ascending(u) /\ Ascending(v)
    <2>1. Ascending(u)
      BY <1>1, <1>2, <1>6 DEF Ascending
    <2>2. ASSUME NEW i \in DOMAIN v, NEW j \in DOMAIN v, i < j PROVE v[i] < v[j]
      <3>1. p + i \in DOMAIN s /\ p + j \in DOMAIN s /\ p + i < p + j
        BY <2>2, <1>1, <1>6
      <3> QED
        BY <3>1, <1>3, <1>6 DEF Ascending
    <2> QED
      BY <2>1, <2>2 DEF Ascending
  <1>8. ASSUME NEW i \in DOMAIN u, NEW j \in DOMAIN v PROVE u[i] < v[j]
    <2>1. i \in DOMAIN s /\ p + j \in DOMAIN s /\ i < p + j
      BY <1>1, <1>6
    <2> QED
      BY <2>1, <1>2, <1>3, <1>6 DEF Ascending
  <1>9. \A x \in ToSet(u), y \in ToSet(v) : x < y
    BY <1>8 DEF ToSet
  <1>10. Ascending(u \o v) /\ ToSet(u \o v) = ToSet(u) \cup ToSet(v)
    BY <1>5, <1>7, <1>9, AscendingConcat
  <1>11. ToSet(u) \cup ToSet(v) = ToSet(s) \ {s[p]}
    <2>1. \A i \in DOMAIN u : u[i] \in ToSet(s) \ {s[p]}
      <3> SUFFICES ASSUME NEW i \in DOMAIN u PROVE u[i] \in ToSet(s) \ {s[p]}
        OBVIOUS
      <3>1. i \in DOMAIN s /\ i # p
        BY <1>1, <1>6
      <3>2. s[i] # s[p]
        BY <3>1, <1>1, AscendingIndex
      <3> QED
        BY <3>1, <3>2, <1>2, <1>6 DEF ToSet
    <2>2. \A i \in DOMAIN v : v[i] \in ToSet(s) \ {s[p]}
      <3> SUFFICES ASSUME NEW i \in DOMAIN v PROVE v[i] \in ToSet(s) \ {s[p]}
        OBVIOUS
      <3>1. p + i \in DOMAIN s /\ p + i # p
        BY <1>1, <1>6
      <3>2. s[p + i] # s[p]
        BY <3>1, <1>1, AscendingIndex
      <3> QED
        BY <3>1, <3>2, <1>3, <1>6 DEF ToSet
    <2>3. ASSUME NEW i \in DOMAIN s, s[i] # s[p] PROVE s[i] \in ToSet(u) \cup ToSet(v)
      <3>1. CASE i < p
        BY <3>1, <1>1, <1>2, <1>6, SMTT(30) DEF ToSet
      <3>2. CASE i > p
        <4>1. i - p \in DOMAIN v /\ p + (i - p) = i
          BY <3>2, <1>1, <1>6
        <4> QED
          BY <4>1, <1>3, <1>6 DEF ToSet
      <3> QED
        BY <2>3, <3>1, <3>2, <1>1
    <2> QED
      BY <2>1, <2>2, <2>3 DEF ToSet
  <1> QED
    BY <1>4, <1>5, <1>10, <1>11

\* erase takes the node out.
LEMMA EraseSet ==
  ASSUME NEW S \in SUBSET Nat, NEW s \in Seq(S), Ascending(s), NEW b \in ToSet(s)
  PROVE  erase(s, b) \in Seq(S) /\ Ascending(erase(s, b)) /\ ToSet(erase(s, b)) = ToSet(s) \ {b}
  <1> DEFINE p == CHOOSE i \in DOMAIN s : s[i] = b
  <1>1. p \in DOMAIN s /\ s[p] = b
    BY DEF ToSet
  <1> QED
    BY <1>1, RemoveAtSet DEF erase

\* ++b goes to the least number above b.
LEMMA NextIs ==
  ASSUME NEW s \in Seq(Nat), Ascending(s), NEW b \in ToSet(s), 0 \notin ToSet(s)
  PROVE  \/ next(s, b) = NoNode /\ \A x \in ToSet(s) : x <= b
         \/ /\ next(s, b) \in ToSet(s) /\ next(s, b) # NoNode /\ next(s, b) > b
            /\ \A x \in ToSet(s) : x <= b \/ x >= next(s, b)
  <1> DEFINE p == CHOOSE i \in DOMAIN s : s[i] = b
  <1>1. p \in DOMAIN s /\ s[p] = b
    BY DEF ToSet
  <1> HIDE DEF p
  <1>2. DOMAIN s = 1..Len(s) /\ Len(s) \in Nat /\ \A i \in DOMAIN s : s[i] \in Nat
    BY LenProperties, ElementOfSeq
  <1>3. next(s, b) = IF p + 1 \in DOMAIN s THEN s[p + 1] ELSE NoNode
    BY DEF next, p
  <1>4. CASE p + 1 \in DOMAIN s
    <2>1. s[p + 1] \in ToSet(s) /\ s[p] < s[p + 1]
      BY <1>1, <1>2, <1>4 DEF ToSet, Ascending
    <2>2. ASSUME NEW i \in DOMAIN s PROVE s[i] <= b \/ s[i] >= s[p + 1]
      <3>1. i < p => s[i] < s[p]
        BY <1>1 DEF Ascending
      <3>2. i > p + 1 => s[p + 1] < s[i]
        BY <1>2, <1>4 DEF Ascending
      <3> QED
        BY <3>1, <3>2, <1>1, <1>2, <1>4
    <2> QED
      BY <2>1, <2>2, <1>1, <1>3, <1>4 DEF ToSet, NoNode
  <1>5. CASE p + 1 \notin DOMAIN s
    <2>1. p = Len(s)
      BY <1>1, <1>2, <1>5
    <2>2. ASSUME NEW i \in DOMAIN s PROVE s[i] <= b
      <3>1. i < p => s[i] < s[p]
        BY <1>1 DEF Ascending
      <3> QED
        BY <3>1, <2>1, <1>1, <1>2
    <2> QED
      BY <2>2, <1>3, <1>5 DEF ToSet
  <1> QED
    BY <1>4, <1>5

\* begin is the least number.
LEMMA BeginIs ==
  ASSUME NEW s \in Seq(Nat), Ascending(s), 0 \notin ToSet(s)
  PROVE  \/ begin(s) = NoNode /\ ToSet(s) = {}
         \/ /\ begin(s) \in ToSet(s) /\ begin(s) # NoNode
            /\ \A x \in ToSet(s) : begin(s) <= x
  <1>1. CASE s = <<>>
    BY <1>1 DEF begin, ToSet
  <1>2. CASE s # <<>>
    <2>1. DOMAIN s = 1..Len(s) /\ Len(s) \in Nat \ {0} /\ Head(s) = s[1]
      BY <1>2, TailAt
    <2>2. \A i \in DOMAIN s : s[i] \in Nat
      BY ElementOfSeq, <2>1
    <2>3. ASSUME NEW i \in DOMAIN s PROVE s[1] <= s[i]
      <3>1. 1 < i => s[1] < s[i]
        BY <2>1 DEF Ascending
      <3> QED
        BY <3>1, <2>1, <2>2
    <2> QED
      BY <2>1, <2>3, <1>2 DEF begin, ToSet, NoNode
  <1> QED
    BY <1>1, <1>2

\* remove_by_index finds the node from whichever end it searches.
LEMMA RemoveByIndexSet ==
  ASSUME NEW S \in SUBSET Nat, NEW s \in Seq(S), Ascending(s), NEW id \in Nat
  PROVE  /\ remove_by_index(s, id) \in Seq(S)
         /\ Ascending(remove_by_index(s, id))
         /\ ToSet(remove_by_index(s, id)) = ToSet(s) \ {id}
  <1>1. DOMAIN s = 1..Len(s) /\ Len(s) \in Nat /\ \A i \in DOMAIN s : s[i] \in Nat
    BY LenProperties, ElementOfSeq
  <1>2. CASE s = <<>>
    BY <1>2 DEF remove_by_index, ToSet
  <1>3. ASSUME s # <<>>, id < Head(s) \/ id > Last(s)
        PROVE  remove_by_index(s, id) = s /\ id \notin ToSet(s)
    <2>1. Len(s) \in Nat \ {0} /\ Head(s) = s[1] /\ Last(s) = s[Len(s)]
      BY <1>3, TailAt DEF Last
    <2>2. ASSUME NEW i \in DOMAIN s, s[i] = id PROVE FALSE
      <3>1. (1 < i => s[1] < s[i]) /\ (i < Len(s) => s[i] < s[Len(s)])
        BY <2>1, <1>1 DEF Ascending
      <3> QED
        BY <3>1, <2>1, <2>2, <1>1, <1>3
    <2> QED
      BY <2>2, <1>3 DEF remove_by_index, ToSet
  <1>4. ASSUME s # <<>>, ~(id < Head(s) \/ id > Last(s))
        PROVE  \E p \in DOMAIN s :
                 /\ remove_by_index(s, id) = IF s[p] = id THEN RemoveAt(s, p) ELSE s
                 /\ s[p] # id => id \notin ToSet(s)
    <2>1. Len(s) \in Nat \ {0} /\ Head(s) = s[1] /\ Last(s) = s[Len(s)]
      BY <1>4, TailAt DEF Last
    <2>2. s[1] <= id /\ id <= s[Len(s)] /\ 1 \in DOMAIN s /\ Len(s) \in DOMAIN s
      BY <2>1, <1>1, <1>4
    <2>3. CASE id - Head(s) < Last(s) - id
      <3> DEFINE P(i) == s[i] >= id /\ \A j \in 1 .. i - 1 : s[j] < id
                 T == {i \in DOMAIN s : s[i] >= id}
                 p == CHOOSE i \in DOMAIN s : P(i)
      <3>1. T \in SUBSET Nat /\ T # {}
        BY <2>2, <1>1
      <3>2. PICK i \in T : \A j \in T : i <= j
        BY <3>1, Least
      <3>3. \E k \in DOMAIN s : P(k)
        BY <3>2, <1>1
      <3>4. p \in DOMAIN s /\ P(p)
        BY <3>3
      <3>5. remove_by_index(s, id) = IF s[p] = id THEN RemoveAt(s, p) ELSE s
        BY <1>4, <2>3 DEF remove_by_index
      <3> HIDE DEF p
      <3>6. s[p] # id => id \notin ToSet(s)
        <4> SUFFICES ASSUME s[p] # id, NEW j \in DOMAIN s, s[j] = id PROVE FALSE
          BY DEF ToSet
        <4>1. s[j] < s[p]
          BY <3>4, <1>1
        <4>2. j < p
          BY <4>1, <3>4, AscendingIndex, SeqWiden
        <4> QED
          BY <4>2, <3>4, <1>1
      <3> QED
        BY <3>4, <3>5, <3>6
    <2>4. CASE ~(id - Head(s) < Last(s) - id)
      <3> DEFINE P(i) == s[i] <= id /\ \A j \in i + 1 .. Len(s) : id < s[j]
                 T == {i \in DOMAIN s : s[i] <= id}
                 p == CHOOSE i \in DOMAIN s : P(i)
      <3>1. T \in SUBSET Nat /\ T # {} /\ \A i \in T : i <= Len(s)
        BY <2>2, <1>1
      <3>2. PICK i \in T : \A j \in T : j <= i
        BY <3>1, <1>1, Greatest
      <3>3. \E k \in DOMAIN s : P(k)
        BY <3>2, <1>1
      <3>4. p \in DOMAIN s /\ P(p)
        BY <3>3
      <3>5. remove_by_index(s, id) = IF s[p] = id THEN RemoveAt(s, p) ELSE s
        BY <1>4, <2>4 DEF remove_by_index
      <3> HIDE DEF p
      <3>6. s[p] # id => id \notin ToSet(s)
        <4> SUFFICES ASSUME s[p] # id, NEW j \in DOMAIN s, s[j] = id PROVE FALSE
          BY DEF ToSet
        <4>1. s[p] < s[j]
          BY <3>4, <1>1
        <4>2. p < j
          BY <4>1, <3>4, AscendingIndex, SeqWiden
        <4> QED
          BY <4>2, <3>4, <1>1
      <3> QED
        BY <3>4, <3>5, <3>6
    <2> QED
      BY <2>3, <2>4
  <1>5. CASE s # <<>> /\ (id < Head(s) \/ id > Last(s))
    BY <1>3, <1>5
  <1>6. CASE s # <<>> /\ ~(id < Head(s) \/ id > Last(s))
    <2>1. PICK p \in DOMAIN s :
                 /\ remove_by_index(s, id) = IF s[p] = id THEN RemoveAt(s, p) ELSE s
                 /\ s[p] # id => id \notin ToSet(s)
      BY <1>4, <1>6
    <2>2. CASE s[p] = id
      BY <2>1, <2>2, RemoveAtSet
    <2>3. CASE s[p] # id
      BY <2>1, <2>3
    <2> QED
      BY <2>2, <2>3
  <1> QED
    BY <1>2, <1>5, <1>6

\* The walk of clear_removed takes out exactly the numbers noted. By induction
\* over the nodes walked over, first that the walk is defined, then what it
\* has kept.
LEMMA EraseAllSet ==
  ASSUME NEW S \in SUBSET Nat, NEW s \in Seq(S), Ascending(s), NEW ids
  PROVE  /\ eraseAll(s, ids) \in Seq(S)
         /\ Ascending(eraseAll(s, ids))
         /\ ToSet(eraseAll(s, ids)) = ToSet(s) \ ids
  <1> DEFINE Step(f, i) == IF i = 0 THEN <<>>
                           ELSE IF s[i] \in ids THEN f[i - 1] ELSE Append(f[i - 1], s[i])
             Walk(f, n) == f = [i \in 0 .. n |-> Step(f, i)]
             walk == CHOOSE f : Walk(f, Len(s))
             Defined == {n \in Nat : \E f : Walk(f, n)}
  <1>1. eraseAll(s, ids) = walk[Len(s)]
    BY DEF eraseAll
  <1>2. \A n \in Nat : n \in Defined
    <2>1. 0 \in Defined
      <3> DEFINE g == [i \in 0 .. 0 |-> <<>>]
      <3>1. Walk(g, 0)
        OBVIOUS
      <3> QED
        BY <3>1
    <2>2. ASSUME NEW n \in Nat, n \in Defined PROVE n + 1 \in Defined
      <3>1. PICK f : Walk(f, n)
        BY <2>2
      <3> DEFINE g == [i \in 0 .. n + 1 |-> IF i = n + 1 THEN Step(f, n + 1) ELSE f[i]]
      <3>2. \A i \in 0 .. n : f[i] = Step(f, i) /\ g[i] = f[i]
        <4> DEFINE h == [i \in 0 .. n |-> Step(f, i)]
        <4>1. \A i \in 0 .. n : h[i] = Step(f, i)
          BY Zenon
        <4>2. f = h
          BY <3>1
        <4>3. \A i \in 0 .. n : f[i] = Step(f, i)
          <5> HIDE DEF h, Step
          <5> QED
            BY <4>1, <4>2
        <4>4. \A i \in 0 .. n : g[i] = f[i]
          <5> HIDE DEF Step
          <5> QED
            OBVIOUS
        <4> QED
          BY <4>3, <4>4, Zenon
      <3>3. \A i \in 0 .. n + 1 : i # 0 => g[i - 1] = f[i - 1]
        BY <3>2
      <3>4. \A i \in 0 .. n + 1 : g[i] = Step(g, i)
        <4> SUFFICES ASSUME NEW i \in 0 .. n + 1 PROVE g[i] = Step(g, i)
          OBVIOUS
        <4>1. Step(g, i) = Step(f, i)
          BY <3>3
        <4>2. g[i] = Step(f, i)
          <5>1. CASE i = n + 1
            <6> HIDE DEF Step
            <6> QED
              BY <5>1
          <5>2. CASE i # n + 1
            <6>1. i \in 0 .. n
              BY <5>2
            <6> QED
              BY <6>1, <3>2, Zenon
          <5> QED
            BY <5>1, <5>2
        <4> QED
          BY <4>1, <4>2
      <3>5. Walk(g, n + 1)
        <4>1. g = [i \in 0 .. n + 1 |-> g[i]]
          OBVIOUS
        <4> QED
          BY <3>4, <4>1
      <3>6. \E h : Walk(h, n + 1)
        <4> HIDE DEF g, Walk
        <4> QED
          BY <3>5
      <3> QED
        BY <3>6
    <2> HIDE DEF Defined
    <2> QED
      BY <2>1, <2>2, Ind
  <1>3. DOMAIN s = 1 .. Len(s) /\ Len(s) \in Nat /\ \A i \in DOMAIN s : s[i] \in S /\ s[i] \in Nat
    BY LenProperties, ElementOfSeq
  <1>4. Walk(walk, Len(s))
    BY <1>2, <1>3
  <1>5. \A i \in 0 .. Len(s) : walk[i] = Step(walk, i)
    BY <1>4
  <1> HIDE DEF walk, Walk, Defined
  <1> DEFINE Spared(i) == {s[k] : k \in 1 .. i} \ ids
             Right(i) == /\ walk[i] \in Seq(S) /\ Ascending(walk[i])
                         /\ ToSet(walk[i]) = Spared(i)
             Good == {i \in Nat : i <= Len(s) => Right(i)}
  <1>6. 0 \in Good
    <2>1. walk[0] = <<>>
      BY <1>3, <1>5
    <2>2. Spared(0) = {} /\ ToSet(<<>>) = {} /\ Ascending(<<>>) /\ <<>> \in Seq(S)
      BY EmptySeq DEF ToSet, Ascending
    <2> QED
      BY <2>1, <2>2
  <1>7. ASSUME NEW n \in Nat, n \in Good PROVE n + 1 \in Good
    <2> SUFFICES ASSUME n + 1 <= Len(s) PROVE Right(n + 1)
      OBVIOUS
    <2> HIDE DEF Good
    <2>1. Right(n)
      BY <1>3, <1>7 DEF Good
    <2>2. walk[n + 1] = IF s[n + 1] \in ids THEN walk[n] ELSE Append(walk[n], s[n + 1])
      BY <1>3, <1>5
    <2>3. Spared(n + 1) = IF s[n + 1] \in ids THEN Spared(n) ELSE Spared(n) \cup {s[n + 1]}
      <3>1. 1 .. n + 1 = 1 .. n \cup {n + 1}
        OBVIOUS
      <3>2. {s[k] : k \in 1 .. n + 1} = {s[k] : k \in 1 .. n} \cup {s[n + 1]}
        BY <3>1
      <3> QED
        BY <3>2
    <2>4. CASE s[n + 1] \in ids
      BY <2>1, <2>2, <2>3, <2>4
    <2>5. CASE s[n + 1] \notin ids
      <3> DEFINE w == walk[n]
                 x == s[n + 1]
      <3>1. w \in Seq(S) /\ x \in S /\ Ascending(w) /\ ToSet(w) = Spared(n) /\ n + 1 \in DOMAIN s
        BY <2>1, <1>3
      <3>2. \A y \in ToSet(w) : y < x
        <4> SUFFICES ASSUME NEW k \in 1 .. n PROVE s[k] < x
          BY <3>1
        <4>1. k \in DOMAIN s /\ n + 1 \in DOMAIN s /\ k < n + 1
          BY <1>3
        <4> QED
          BY <4>1 DEF Ascending
      <3> HIDE DEF w, x
      <3>3. /\ Append(w, x) \in Seq(S)
            /\ DOMAIN Append(w, x) = 1..(Len(w) + 1)
            /\ \A i \in 1..Len(w) : Append(w, x)[i] = w[i]
            /\ Append(w, x)[Len(w) + 1] = x
        BY <3>1, AppendAt
      <3>4. DOMAIN w = 1..Len(w) /\ Len(w) \in Nat
        BY <3>1, LenProperties
      <3>5. Ascending(Append(w, x))
        <4> SUFFICES ASSUME NEW i \in 1..(Len(w) + 1), NEW j \in 1..(Len(w) + 1), i < j
                     PROVE  Append(w, x)[i] < Append(w, x)[j]
          BY <3>3 DEF Ascending
        <4>1. i \in DOMAIN w
          BY <3>4
        <4>2. CASE j = Len(w) + 1
          BY <4>1, <4>2, <3>2, <3>3, <3>4 DEF ToSet
        <4>3. CASE j # Len(w) + 1
          BY <4>1, <4>3, <3>1, <3>3, <3>4, SMTT(30) DEF Ascending
        <4> QED
          BY <4>2, <4>3
      <3>6. ToSet(Append(w, x)) = ToSet(w) \cup {x}
        BY <3>3, <3>4 DEF ToSet
      <3>7. walk[n + 1] = Append(w, x) /\ Spared(n + 1) = Spared(n) \cup {x}
        BY <2>2, <2>3, <2>5 DEF w, x
      <3> QED
        BY <3>1, <3>3, <3>5, <3>6, <3>7
    <2> QED
      BY <2>4, <2>5
  <1>8. Right(Len(s))
    <2>1. \A n \in Nat : n \in Good
      <3> HIDE DEF Good
      <3> QED
        BY <1>6, <1>7, Ind
    <2>2. Len(s) \in Nat /\ Len(s) <= Len(s)
      BY <1>3
    <2> HIDE DEF Right
    <2> QED
      BY <2>1, <2>2
  <1>9. Spared(Len(s)) = ToSet(s) \ ids
    BY <1>3 DEF ToSet
  <1> QED
    BY <1>1, <1>8, <1>9

------------------------------------------------------------------------------
(* The invariant. L stands for the numbers in list_, G for the ones gone.   *)

\* One emission; last says that it is its thread's innermost. An outer one is
\* in a slot that used the signal again. The node of one that is about to
\* check is in the list; what it had found when it began is in the list or
\* gone, and what is in the list and was not there to be found was spliced by
\* a nested emission.
FrameOK(e, last, L, G) ==
  /\ ~last => e.at = "exec" /\ e.b \in e.nestedIn
  /\ e.at = "exec" =>
       e.b # NoNode /\ e.b \in ToSet(e.called) /\ \A x \in ToSet(e.called) : x <= e.b
  /\ e.at = "check" /\ e.b # NoNode => e.b \in L /\ \A x \in ToSet(e.called) : x < e.b
  /\ Ascending(e.called)
  /\ e.due \subseteq L \cup G
  /\ \A x \in e.due : (e.b = NoNode \/ x < e.b) => x \in ToSet(e.called) \cup G
  /\ e.nestedIn = {} => ToSet(e.called) \subseteq e.due /\ L \subseteq e.due \cup G
  /\ e.at = "exec" /\ e.b \notin L => e.b \in G /\ e.b \in e.nestedIn

FramesInv ==
  \A t \in Threads : \A k \in DOMAIN stack[t] :
    FrameOK(stack[t][k], k = Len(stack[t]), ToSet(list_), gone)

\* list_lock_ has one owner.
LockInv == \A t, u \in Threads : stack[t] # <<>> /\ stack[u] # <<>> => t = u

\* A number is noted only once it is given up.
NotedInv == removed_ \subseteq gone

IInv == TypeOK /\ NeverForgotten /\ NotedInv /\ LockInv /\ FramesInv

\* An emission that is not walking on stays right when slots are given up and
\* leave the list, provided its own node stays or its slot used the signal.
LEMMA FrameKept ==
  ASSUME NEW e, NEW last, NEW L, NEW G, NEW L2, NEW G2,
         FrameOK(e, last, L, G),
         G \subseteq G2, L \ L2 \subseteq G2,
         e.nestedIn = {} => L2 \subseteq L,
         e.at = "check" /\ e.b # NoNode => e.b \in L2,
         e.at = "exec" /\ e.b \notin L2 => e.b \in e.nestedIn \/ e.b \notin L
  PROVE  FrameOK(e, last, L2, G2)
  <1>1. /\ ~last => e.at = "exec" /\ e.b \in e.nestedIn
        /\ e.at = "exec" =>
             e.b # NoNode /\ e.b \in ToSet(e.called) /\ \A x \in ToSet(e.called) : x <= e.b
        /\ Ascending(e.called)
    BY DEF FrameOK
  <1>2. e.at = "check" /\ e.b # NoNode => e.b \in L2 /\ \A x \in ToSet(e.called) : x < e.b
    BY DEF FrameOK
  <1>3. e.due \subseteq L2 \cup G2
    BY DEF FrameOK
  <1>4. \A x \in e.due : (e.b = NoNode \/ x < e.b) => x \in ToSet(e.called) \cup G2
    BY DEF FrameOK
  <1>5. e.nestedIn = {} => ToSet(e.called) \subseteq e.due /\ L2 \subseteq e.due \cup G2
    BY DEF FrameOK
  <1>6. e.at = "exec" /\ e.b \notin L2 => e.b \in G2 /\ e.b \in e.nestedIn
    BY DEF FrameOK
  <1> QED
    BY <1>1, <1>2, <1>3, <1>4, <1>5, <1>6, Zenon DEF FrameOK

LEMMA FrameInner ==
  ASSUME NEW e, NEW L, NEW G, FrameOK(e, FALSE, L, G), NEW last
  PROVE  FrameOK(e, last, L, G)
  BY DEF FrameOK

\* Frames that are not innermost.
LEMMA OuterFrame ==
  ASSUME IInv, NEW t \in Threads, NEW k \in DOMAIN stack[t], k # Len(stack[t])
  PROVE  FrameOK(stack[t][k], FALSE, ToSet(list_), gone)
  <1>1. FrameOK(stack[t][k], k = Len(stack[t]), ToSet(list_), gone)
    BY DEF IInv, FramesInv
  <1>2. (k = Len(stack[t])) = FALSE
    OBVIOUS
  <1> QED
    BY <1>1, <1>2

LEMMA LastFrame ==
  ASSUME IInv, NEW t \in Threads, stack[t] # <<>>
  PROVE  /\ Len(stack[t]) \in Nat \ {0} /\ DOMAIN stack[t] = 1..Len(stack[t])
         /\ stack[t] \in Seq(Emission)
         /\ Innermost(t) \in Emission
         /\ FrameOK(Innermost(t), TRUE, ToSet(list_), gone)
  <1>1. stack[t] \in Seq(Emission)
    BY DEF IInv, TypeOK
  <1>2. Len(stack[t]) \in Nat \ {0} /\ DOMAIN stack[t] = 1..Len(stack[t])
    BY <1>1, TailAt
  <1>3. Len(stack[t]) \in DOMAIN stack[t] /\ (Len(stack[t]) = Len(stack[t])) = TRUE
    BY <1>2
  <1>4. FrameOK(stack[t][Len(stack[t])], Len(stack[t]) = Len(stack[t]), ToSet(list_), gone)
    BY <1>3 DEF IInv, FramesInv
  <1> QED
    BY <1>1, <1>2, <1>3, <1>4, ElementOfSeq DEF Innermost

\* Replacing the innermost emission.
LEMMA SetInnermostIs ==
  ASSUME stack \in [Threads -> Seq(Emission)], NEW t \in Threads, stack[t] # <<>>,
         NEW e \in Emission
  PROVE  /\ SetInnermost(t, e) \in [Threads -> Seq(Emission)]
         /\ \A u \in Threads \ {t} : SetInnermost(t, e)[u] = stack[u]
         /\ SetInnermost(t, e)[t] # <<>>
         /\ Len(SetInnermost(t, e)[t]) = Len(stack[t])
         /\ DOMAIN SetInnermost(t, e)[t] = 1..Len(stack[t])
         /\ SetInnermost(t, e)[t][Len(stack[t])] = e
         /\ \A k \in 1..Len(stack[t]) : k # Len(stack[t]) => SetInnermost(t, e)[t][k] = stack[t][k]
  <1> DEFINE s == stack[t]
             r == [s EXCEPT ![Len(s)] = e]
  <1>1. s \in Seq(Emission) /\ Len(s) \in Nat \ {0} /\ DOMAIN s = 1..Len(s)
    BY TailAt
  <1>2. SetInnermost(t, e) = [stack EXCEPT ![t] = r]
    BY DEF SetInnermost
  <1> HIDE DEF s
  <1>3. Len(s) \in 1..Len(s)
    BY <1>1
  <1>4. /\ r \in Seq(Emission) /\ Len(r) = Len(s)
        /\ \A j \in 1..Len(s) : r[j] = IF j = Len(s) THEN e ELSE s[j]
    BY <1>1, <1>3, ExceptSeq
  <1> HIDE DEF r
  <1>5. DOMAIN r = 1..Len(s) /\ r # <<>>
    BY <1>1, <1>4, LenProperties
  <1>6. [stack EXCEPT ![t] = r] \in [Threads -> Seq(Emission)]
    BY <1>4
  <1>7. [stack EXCEPT ![t] = r][t] = r /\ \A u \in Threads \ {t} : [stack EXCEPT ![t] = r][u] = stack[u]
    OBVIOUS
  <1> QED
    BY <1>2, <1>3, <1>4, <1>5, <1>6, <1>7 DEF s

\* Leaving the innermost emission.
LEMMA PopIs ==
  ASSUME stack \in [Threads -> Seq(Emission)], NEW t \in Threads, stack[t] # <<>>,
         stack' = [stack EXCEPT ![t] = Front(@)]
  PROVE  /\ stack' \in [Threads -> Seq(Emission)]
         /\ \A u \in Threads \ {t} : stack'[u] = stack[u]
         /\ DOMAIN stack'[t] = 1..(Len(stack[t]) - 1)
         /\ Len(stack[t]) \in Nat \ {0} /\ DOMAIN stack[t] = 1..Len(stack[t])
         /\ \A k \in 1..(Len(stack[t]) - 1) : stack'[t][k] = stack[t][k]
  <1> DEFINE s == stack[t]
             r == SubSeq(s, 1, Len(s) - 1)
  <1>1. s \in Seq(Emission) /\ Len(s) \in Nat \ {0} /\ DOMAIN s = 1..Len(s)
    BY TailAt
  <1>2. stack' = [stack EXCEPT ![t] = r]
    BY DEF Front
  <1> HIDE DEF s
  <1>3. /\ r \in Seq(Emission) /\ Len(r) = Len(s) - 1 + 1 - 1
        /\ DOMAIN r = 1..(Len(s) - 1 + 1 - 1)
        /\ \A i \in 1..(Len(s) - 1 + 1 - 1) : r[i] = s[1 - 1 + i]
    <2>1. Len(s) - 1 \in Nat /\ Len(s) - 1 <= Len(s) /\ 1 <= Len(s) - 1 + 1 /\ 1 \in Nat \ {0}
      BY <1>1
    <2> QED
      BY <1>1, <2>1, SubSeqAt
  <1> HIDE DEF r
  <1>4. DOMAIN r = 1..(Len(s) - 1) /\ \A i \in 1..(Len(s) - 1) : r[i] = s[i]
    BY <1>1, <1>3
  <1>5. stack' \in [Threads -> Seq(Emission)] /\ stack'[t] = r
        /\ \A u \in Threads \ {t} : stack'[u] = stack[u]
    BY <1>2, <1>3
  <1> QED
    BY <1>1, <1>4, <1>5 DEF s

\* The list, from the types.
LEMMA ListFacts ==
  ASSUME TypeOK
  PROVE  /\ list_ \in Seq(Nat) /\ added_ \in Seq(Nat)
         /\ Ascending(list_) /\ Ascending(added_)
         /\ \A x \in ToSet(list_), y \in ToSet(added_) : x < y
         /\ ToSet(list_) \subseteq 1..(id_ - 1) /\ ToSet(added_) \subseteq 1..(id_ - 1)
         /\ 1..(id_ - 1) \in SUBSET Nat /\ 1..(id_ - 1) \subseteq Ids
         /\ 0 \notin ToSet(list_) /\ 0 \notin ToSet(added_)
         /\ id_ \in Nat
  <1>1. id_ \in Nat /\ 1..(id_ - 1) \subseteq Nat /\ 1..(id_ - 1) \subseteq Ids
    BY ObserverAssumption DEF TypeOK, Ids
  <1>2. list_ \in Seq(Nat) /\ added_ \in Seq(Nat)
    BY <1>1, SeqWiden DEF TypeOK
  <1>3. ToSet(list_) \subseteq 1..(id_ - 1) /\ ToSet(added_) \subseteq 1..(id_ - 1)
    BY LenProperties DEF TypeOK, ToSet
  <1>4. Ascending(list_ \o added_)
    BY DEF TypeOK
  <1>5. /\ Ascending(list_) /\ Ascending(added_)
        /\ \A x \in ToSet(list_), y \in ToSet(added_) : x < y
    BY <1>2, <1>4, AscendingConcat
  <1> QED
    BY <1>1, <1>2, <1>3, <1>5

\* The operations of a thread that may have list_lock_ find only its own
\* emissions, and all of those in slots that use the signal again.
LEMMA NestingFrames ==
  ASSUME IInv, NEW t \in Threads, Free(t), MayLock(t)
  PROVE  /\ Nesting(t) \in [Threads -> Seq(Emission)]
         /\ \A u \in Threads \ {t} : Nesting(t)[u] = <<>>
         /\ \A k \in DOMAIN Nesting(t)[t] :
              FrameOK(Nesting(t)[t][k], FALSE, ToSet(list_), gone)
         /\ Len(Nesting(t)[t]) = Len(stack[t])
  <1>1. stack \in [Threads -> Seq(Emission)]
    BY DEF IInv, TypeOK
  <1>2. CASE stack[t] = <<>>
    BY <1>1, <1>2 DEF Nesting, InSlot, MayLock
  <1>3. CASE stack[t] # <<>>
    <2> DEFINE e == Innermost(t)
               m == [e EXCEPT !.nestedIn = @ \cup {e.b}]
    <2>1. e.at = "exec" /\ InSlot(t)
      BY <1>3 DEF Free, InSlot
    <2>2. /\ Len(stack[t]) \in Nat \ {0} /\ DOMAIN stack[t] = 1..Len(stack[t])
          /\ e \in Emission /\ FrameOK(e, TRUE, ToSet(list_), gone)
      BY <1>3, LastFrame
    <2>3. Nesting(t) = SetInnermost(t, m)
      BY <2>1 DEF Nesting
    <2> HIDE DEF e
    <2>4. e.b # NoNode
      BY <2>1, <2>2 DEF FrameOK
    <2>5. /\ m \in Emission
          /\ m.b = e.b /\ m.at = e.at /\ m.called = e.called /\ m.due = e.due
          /\ m.nestedIn = e.nestedIn \cup {e.b}
      BY <2>2, <2>4 DEF Emission
    <2> HIDE DEF m
    <2>6. FrameOK(m, FALSE, ToSet(list_), gone)
      <3>1. m.nestedIn # {} /\ m.b \in m.nestedIn
        BY <2>5
      <3> QED
        BY <2>1, <2>2, <2>5, <3>1 DEF FrameOK
    <2>7. /\ Nesting(t) \in [Threads -> Seq(Emission)]
          /\ \A u \in Threads \ {t} : Nesting(t)[u] = stack[u]
          /\ Len(Nesting(t)[t]) = Len(stack[t])
          /\ DOMAIN Nesting(t)[t] = 1..Len(stack[t])
          /\ Nesting(t)[t][Len(stack[t])] = m
          /\ \A k \in 1..Len(stack[t]) : k # Len(stack[t]) => Nesting(t)[t][k] = stack[t][k]
      BY <1>1, <1>3, <2>3, <2>5, SetInnermostIs
    <2>8. ASSUME NEW k \in DOMAIN Nesting(t)[t]
          PROVE  FrameOK(Nesting(t)[t][k], FALSE, ToSet(list_), gone)
      <3>1. CASE k = Len(stack[t])
        BY <3>1, <2>6, <2>7
      <3>2. CASE k # Len(stack[t])
        <4>1. k \in DOMAIN stack[t] /\ Nesting(t)[t][k] = stack[t][k]
          BY <3>2, <2>2, <2>7
        <4> QED
          BY <4>1, <3>2, OuterFrame
      <3> QED
        BY <3>1, <3>2
    <2>9. \A u \in Threads \ {t} : stack[u] = <<>>
      BY DEF MayLock
    <2> QED
      BY <2>7, <2>8, <2>9
  <1> QED
    BY <1>2, <1>3

\* A frame of a slot that used the signal survives whatever leaves the list by
\* being given up.
LEMMA NestedKept ==
  ASSUME NEW e, NEW L, NEW G, NEW L2, NEW G2, FrameOK(e, FALSE, L, G),
         G \subseteq G2, L \ L2 \subseteq G2
  PROVE  FrameOK(e, FALSE, L2, G2)
  <1>1. e.at = "exec" /\ e.b \in e.nestedIn
    BY DEF FrameOK
  <1>2. e.nestedIn # {} /\ e.at # "check"
    BY <1>1
  <1> QED
    BY <1>1, <1>2, FrameKept

------------------------------------------------------------------------------
(* Every step keeps the invariant.                                          *)

LEMMA ObserverInit == Init => IInv
  <1> SUFFICES ASSUME Init PROVE IInv
    OBVIOUS
  <1>1. list_ = <<>> /\ added_ = <<>> /\ removed_ = {} /\ gone = {} /\ id_ = 1
    BY DEF Init
  <1>2. \A t \in Threads : stack[t] = <<>>
    BY DEF Init
  <1>3. TypeOK
    <2>1. <<>> \o <<>> = <<>> /\ Ascending(<<>>)
      BY DEF Ascending
    <2>2. <<>> \in Seq(1 .. id_ - 1) /\ <<>> \in Seq(Emission)
      BY EmptySeq
    <2>3. stack \in [Threads -> Seq(Emission)]
      BY <2>2 DEF Init
    <2>4. id_ \in 1 .. MaxSubs + 1
      BY <1>1, ObserverAssumption
    <2>5. broken \in BOOLEAN
      BY DEF Init
    <2> QED
      BY <1>1, <2>1, <2>2, <2>3, <2>4, <2>5 DEF TypeOK
  <1>4. NeverForgotten /\ NotedInv
    BY <1>1 DEF NeverForgotten, NotedInv
  <1>5. LockInv /\ FramesInv
    BY <1>2 DEF LockInv, FramesInv
  <1> QED
    BY <1>3, <1>4, <1>5 DEF IInv

LEMMA ConnectStep ==
  ASSUME IInv, NEW t \in Threads, connect(t)
  PROVE  IInv'
  <1>1. TypeOK /\ NeverForgotten
    BY DEF IInv
  <1>2. /\ list_ \in Seq(Nat) /\ added_ \in Seq(Nat)
        /\ Ascending(list_) /\ Ascending(added_)
        /\ \A x \in ToSet(list_), y \in ToSet(added_) : x < y
        /\ ToSet(list_) \subseteq 1..(id_ - 1) /\ ToSet(added_) \subseteq 1..(id_ - 1)
        /\ id_ \in Nat
    BY <1>1, ListFacts
  <1>3. /\ id_' = id_ + 1 /\ id_ <= MaxSubs /\ added_' = Append(added_, id_)
        /\ UNCHANGED <<list_, removed_, stack, gone, broken>>
    BY DEF connect
  <1>4. /\ Append(added_, id_) \in Seq(Nat)
        /\ DOMAIN Append(added_, id_) = 1..(Len(added_) + 1)
        /\ \A i \in 1..Len(added_) : Append(added_, id_)[i] = added_[i]
        /\ Append(added_, id_)[Len(added_) + 1] = id_
    BY <1>2, AppendAt
  <1>5. DOMAIN added_ = 1..Len(added_) /\ Len(added_) \in Nat
    BY <1>2, LenProperties
  <1>6. ToSet(added_') = ToSet(added_) \cup {id_}
    BY <1>3, <1>4, <1>5 DEF ToSet
  <1>7. Ascending(added_')
    <2> SUFFICES ASSUME NEW i \in 1..(Len(added_) + 1), NEW j \in 1..(Len(added_) + 1), i < j
                 PROVE  Append(added_, id_)[i] < Append(added_, id_)[j]
      BY <1>3, <1>4 DEF Ascending
    <2>1. i \in DOMAIN added_ /\ added_[i] \in ToSet(added_)
      BY <1>5 DEF ToSet
    <2>2. CASE j = Len(added_) + 1
      <3>1. added_[i] < id_
        BY <2>1, <1>2
      <3> QED
        BY <2>1, <2>2, <3>1, <1>4, <1>5
    <2>3. CASE j # Len(added_) + 1
      <3>1. j \in DOMAIN added_
        BY <2>3, <1>5
      <3>2. added_[i] < added_[j]
        BY <2>1, <3>1, <1>2 DEF Ascending
      <3> QED
        BY <2>1, <3>1, <3>2, <1>4, <1>5
    <2> QED
      BY <2>2, <2>3
  <1>8. Ascending(list_ \o added_')
    <2>1. \A x \in ToSet(list_), y \in ToSet(added_') : x < y
      BY <1>2, <1>6
    <2> QED
      BY <2>1, <1>2, <1>3, <1>4, <1>7, AscendingConcat
  <1>9. TypeOK'
    <2>1. id_' \in 1 .. MaxSubs + 1 /\ 1 .. id_ - 1 \subseteq 1 .. id_' - 1 /\ id_ \in 1 .. id_' - 1
      BY <1>1, <1>3, ObserverAssumption DEF TypeOK
    <2>2. list_' \in Seq(1 .. id_' - 1) /\ added_ \in Seq(1 .. id_' - 1)
      BY <1>1, <1>3, <2>1, SeqWiden DEF TypeOK
    <2>3. added_' \in Seq(1 .. id_' - 1)
      BY <2>1, <2>2, <1>3, AppendAt
    <2>4. removed_' \subseteq 1 .. id_' - 1 /\ gone' \subseteq 1 .. id_' - 1
      BY <1>1, <1>3, <2>1 DEF TypeOK
    <2> QED
      BY <1>1, <1>3, <1>8, <2>1, <2>2, <2>3, <2>4 DEF TypeOK
  <1>10. NeverForgotten'
    <2>1. id_ \notin gone
      BY <1>1, <1>2 DEF TypeOK
    <2> QED
      BY <2>1, <1>1, <1>3, <1>6 DEF NeverForgotten
  <1>11. NotedInv' /\ LockInv' /\ FramesInv'
    BY <1>3 DEF IInv, NotedInv, LockInv, FramesInv
  <1> QED
    BY <1>9, <1>10, <1>11 DEF IInv

LEMMA UnsubscribeStep ==
  ASSUME IInv, NEW t \in Threads, NEW id \in Ids, unsubscribe(t, id)
  PROVE  IInv'
  <1>1. TypeOK /\ NeverForgotten /\ NotedInv
    BY DEF IInv
  <1>2. /\ list_ \in Seq(Nat) /\ added_ \in Seq(Nat)
        /\ Ascending(list_) /\ Ascending(added_)
        /\ \A x \in ToSet(list_), y \in ToSet(added_) : x < y
        /\ 1..(id_ - 1) \in SUBSET Nat
        /\ id_ \in Nat
    BY <1>1, ListFacts
  <1>3. /\ id < id_ /\ removed_' = removed_ \cup {id} /\ gone' = gone \cup {id}
        /\ added_' = remove_by_index(added_, id)
        /\ UNCHANGED <<id_, list_, stack, broken>>
    BY DEF unsubscribe
  <1>4. id \in Nat /\ id \in 1 .. id_ - 1
    BY <1>2, <1>3, ObserverAssumption DEF Ids
  <1>5. /\ added_' \in Seq(1 .. id_ - 1) /\ Ascending(added_')
        /\ ToSet(added_') = ToSet(added_) \ {id}
    <2>1. added_ \in Seq(1 .. id_ - 1)
      BY <1>1 DEF TypeOK
    <2> QED
      BY <2>1, <1>2, <1>3, <1>4, RemoveByIndexSet
  <1>6. Ascending(list_ \o added_')
    <2>1. added_' \in Seq(Nat)
      BY <1>2, <1>5, SeqWiden
    <2>2. \A x \in ToSet(list_), y \in ToSet(added_') : x < y
      BY <1>2, <1>5
    <2> QED
      BY <2>1, <2>2, <1>2, <1>5, AscendingConcat
  <1>7. TypeOK'
    BY <1>1, <1>3, <1>4, <1>5, <1>6 DEF TypeOK
  <1>8. NeverForgotten' /\ NotedInv' /\ LockInv'
    BY <1>1, <1>3, <1>5 DEF NeverForgotten, NotedInv, LockInv, IInv
  <1>9. FramesInv'
    <2> SUFFICES ASSUME NEW u \in Threads, NEW k \in DOMAIN stack[u]
                 PROVE  FrameOK(stack[u][k], k = Len(stack[u]), ToSet(list_), gone \cup {id})
      BY <1>3 DEF FramesInv
    <2>1. FrameOK(stack[u][k], k = Len(stack[u]), ToSet(list_), gone)
      BY DEF IInv, FramesInv
    <2>2. stack[u][k].at = "check" /\ stack[u][k].b # NoNode => stack[u][k].b \in ToSet(list_)
      BY <2>1 DEF FrameOK
    <2> QED
      BY <2>1, <2>2, FrameKept
  <1> QED
    BY <1>7, <1>8, <1>9 DEF IInv

LEMMA ClearStep ==
  ASSUME IInv, NEW t \in Threads, clear(t)
  PROVE  IInv'
  <1>1. TypeOK
    BY DEF IInv
  <1>2. /\ Free(t) /\ MayLock(t)
        /\ list_' = <<>> /\ added_' = <<>> /\ removed_' = {}
        /\ gone' = gone \cup ToSet(list_) \cup ToSet(added_)
        /\ stack' = Nesting(t) /\ UNCHANGED <<id_, broken>>
    BY DEF clear
  <1>3. /\ stack' \in [Threads -> Seq(Emission)]
        /\ \A u \in Threads \ {t} : stack'[u] = <<>>
        /\ \A k \in DOMAIN stack'[t] : FrameOK(stack'[t][k], FALSE, ToSet(list_), gone)
    BY <1>2, NestingFrames
  <1>4. ToSet(list_') = {} /\ ToSet(added_') = {}
    BY <1>2 DEF ToSet
  <1>5. TypeOK'
    <2>1. <<>> \o <<>> = <<>> /\ Ascending(<<>>)
      BY DEF Ascending
    <2>2. <<>> \in Seq(1 .. id_ - 1)
      BY EmptySeq
    <2>3. gone' \subseteq 1 .. id_ - 1
      BY <1>1, <1>2, ListFacts DEF TypeOK
    <2> QED
      BY <1>1, <1>2, <1>3, <2>1, <2>2, <2>3 DEF TypeOK
  <1>6. NeverForgotten' /\ NotedInv'
    BY <1>2, <1>4 DEF NeverForgotten, NotedInv
  <1>7. LockInv'
    BY <1>3 DEF LockInv
  <1>8. FramesInv'
    <2> SUFFICES ASSUME NEW u \in Threads, NEW k \in DOMAIN stack'[u]
                 PROVE  FrameOK(stack'[u][k], k = Len(stack'[u]), ToSet(list_'), gone')
      BY DEF FramesInv
    <2>1. u = t
      BY <1>3
    <2>2. FrameOK(stack'[u][k], FALSE, ToSet(list_), gone)
      BY <2>1, <1>3
    <2>3. gone \subseteq gone' /\ ToSet(list_) \ ToSet(list_') \subseteq gone'
      BY <1>2
    <2>4. FrameOK(stack'[u][k], FALSE, ToSet(list_'), gone')
      BY <2>2, <2>3, NestedKept
    <2> QED
      BY <2>4, FrameInner
  <1> QED
    BY <1>5, <1>6, <1>7, <1>8 DEF IInv

\* An emission begins: what was spliced is new to the outer emissions only.
LEMMA EmitBeginsStep ==
  ASSUME IInv, NEW t \in Threads, EmitBegins(t)
  PROVE  IInv'
  <1> DEFINE l == list_ \o added_
             new == [b |-> begin(l), at |-> "check", called |-> <<>>,
                     due |-> ToSet(l) \ gone, nestedIn |-> {}]
             N == Nesting(t)
  <1>1. TypeOK /\ NeverForgotten /\ NotedInv
    BY DEF IInv
  <1>2. /\ Free(t) /\ MayLock(t) /\ list_' = l /\ added_' = <<>>
        /\ stack' = [N EXCEPT ![t] = Append(N[t], new)]
        /\ UNCHANGED <<id_, removed_, gone, broken>>
    BY DEF EmitBegins
  <1>3. /\ list_ \in Seq(Nat) /\ added_ \in Seq(Nat) /\ id_ \in Nat
        /\ ToSet(list_) \subseteq 1..(id_ - 1) /\ ToSet(added_) \subseteq 1..(id_ - 1)
        /\ 1..(id_ - 1) \subseteq Ids
        /\ 0 \notin ToSet(list_) /\ 0 \notin ToSet(added_)
    BY <1>1, ListFacts
  <1>4. /\ l \in Seq(Nat) /\ l \in Seq(1 .. id_ - 1) /\ Ascending(l)
        /\ ToSet(l) = ToSet(list_) \cup ToSet(added_)
    BY <1>1, <1>3, AscendingConcat, ConcatProperties DEF TypeOK
  <1>5. /\ N \in [Threads -> Seq(Emission)]
        /\ \A u \in Threads \ {t} : N[u] = <<>>
        /\ \A k \in DOMAIN N[t] : FrameOK(N[t][k], FALSE, ToSet(list_), gone)
    BY <1>2, NestingFrames
  <1> HIDE DEF l, N
  <1>6. \/ begin(l) = NoNode /\ ToSet(l) = {}
        \/ /\ begin(l) \in ToSet(l) /\ begin(l) # NoNode
           /\ \A x \in ToSet(l) : begin(l) <= x
    BY <1>3, <1>4, BeginIs
  <1>7. new \in Emission
    <2>1. begin(l) \in Ids \cup {NoNode} /\ ToSet(l) \subseteq Ids
      BY <1>3, <1>4, <1>6
    <2>2. <<>> \in Seq(Ids)
      BY EmptySeq
    <2> QED
      BY <2>1, <2>2 DEF Emission
  <1>8. FrameOK(new, TRUE, ToSet(l), gone)
    <2>1. /\ new.b = begin(l) /\ new.at = "check" /\ new.called = <<>>
          /\ new.due = ToSet(l) \ gone /\ new.nestedIn = {}
      OBVIOUS
    <2> HIDE DEF new
    <2>2. ToSet(new.called) = {} /\ Ascending(new.called)
      BY <2>1 DEF ToSet, Ascending
    <2>3. ASSUME NEW x \in new.due PROVE ~(new.b = NoNode \/ x < new.b)
      <3>1. x \in ToSet(l) /\ x \in Nat
        BY <2>1, <1>3, <1>4
      <3>2. begin(l) \in Nat
        BY <1>3, <1>4, <1>6 DEF NoNode
      <3> QED
        BY <2>1, <3>1, <3>2, <1>6
    <2> QED
      BY <2>1, <2>2, <2>3, <1>6 DEF FrameOK
  <1> HIDE DEF new
  <1>9. /\ stack' \in [Threads -> Seq(Emission)]
        /\ \A u \in Threads \ {t} : stack'[u] = <<>>
        /\ DOMAIN stack'[t] = 1..(Len(N[t]) + 1) /\ Len(stack'[t]) = Len(N[t]) + 1
        /\ \A k \in 1..Len(N[t]) : stack'[t][k] = N[t][k]
        /\ stack'[t][Len(N[t]) + 1] = new
        /\ DOMAIN N[t] = 1..Len(N[t]) /\ Len(N[t]) \in Nat
    <2>1. /\ N[t] \in Seq(Emission)
          /\ stack'[t] = Append(N[t], new)
          /\ \A u \in Threads \ {t} : stack'[u] = N[u]
      BY <1>2, <1>5
    <2>2. /\ Append(N[t], new) \in Seq(Emission)
          /\ Len(Append(N[t], new)) = Len(N[t]) + 1
          /\ DOMAIN Append(N[t], new) = 1..(Len(N[t]) + 1)
          /\ \A i \in 1..Len(N[t]) : Append(N[t], new)[i] = N[t][i]
          /\ Append(N[t], new)[Len(N[t]) + 1] = new
      BY <2>1, <1>7, AppendAt
    <2>3. DOMAIN N[t] = 1..Len(N[t]) /\ Len(N[t]) \in Nat
      BY <2>1, LenProperties
    <2>4. stack' \in [Threads -> Seq(Emission)]
      BY <1>2, <1>5, <2>2
    <2> QED
      BY <1>5, <2>1, <2>2, <2>3, <2>4
  <1>10. TypeOK'
    <2>1. <<>> \in Seq(1 .. id_ - 1) /\ l \o <<>> = l
      BY <1>4, EmptySeq, ConcatEmptySeq
    <2> QED
      BY <1>1, <1>2, <1>4, <1>9, <2>1 DEF TypeOK
  <1>11. NeverForgotten' /\ NotedInv'
    <2>1. ToSet(added_') = {}
      BY <1>2 DEF ToSet
    <2> QED
      BY <2>1, <1>1, <1>2, <1>4 DEF NeverForgotten, NotedInv
  <1>12. LockInv'
    BY <1>9 DEF LockInv
  <1>13. FramesInv'
    <2> SUFFICES ASSUME NEW u \in Threads, NEW k \in DOMAIN stack'[u]
                 PROVE  FrameOK(stack'[u][k], k = Len(stack'[u]), ToSet(list_'), gone')
      BY DEF FramesInv
    <2>1. u = t
      BY <1>9
    <2>2. CASE k = Len(N[t]) + 1
      <3>1. (k = Len(stack'[u])) = TRUE /\ stack'[u][k] = new
        BY <2>1, <2>2, <1>9
      <3> QED
        BY <3>1, <1>2, <1>8
    <2>3. CASE k # Len(N[t]) + 1
      <3>1. k \in DOMAIN N[t] /\ stack'[u][k] = N[t][k]
        BY <2>1, <2>3, <1>9
      <3>2. FrameOK(N[t][k], FALSE, ToSet(list_), gone)
        BY <3>1, <1>5
      <3>3. gone \subseteq gone /\ ToSet(list_) \ ToSet(l) \subseteq gone
        BY <1>4
      <3>4. FrameOK(N[t][k], FALSE, ToSet(l), gone)
        BY <3>2, <3>3, NestedKept
      <3>5. FrameOK(N[t][k], k = Len(stack'[u]), ToSet(l), gone)
        BY <3>4, FrameInner
      <3> QED
        BY <3>1, <3>5, <1>2
    <2> QED
      BY <2>2, <2>3
  <1> QED
    BY <1>10, <1>11, <1>12, <1>13 DEF IInv

\* Only the innermost emission of t changes, to e, and numbers that are gone
\* may leave the list.
LEMMA InnermostStep ==
  ASSUME IInv, NEW t \in Threads, stack[t] # <<>>,
         NEW e \in Emission, stack' = SetInnermost(t, e),
         gone' = gone, ToSet(list_) \ ToSet(list_') \subseteq gone,
         FrameOK(e, TRUE, ToSet(list_'), gone)
  PROVE  stack' \in [Threads -> Seq(Emission)] /\ LockInv' /\ FramesInv'
  <1>1. stack \in [Threads -> Seq(Emission)]
    BY DEF IInv, TypeOK
  <1>2. /\ stack' \in [Threads -> Seq(Emission)]
        /\ \A u \in Threads \ {t} : stack'[u] = stack[u]
        /\ stack'[t] # <<>>
        /\ Len(stack'[t]) = Len(stack[t])
        /\ DOMAIN stack'[t] = 1..Len(stack[t])
        /\ stack'[t][Len(stack[t])] = e
        /\ \A k \in 1..Len(stack[t]) : k # Len(stack[t]) => stack'[t][k] = stack[t][k]
    BY <1>1, SetInnermostIs
  <1>3. DOMAIN stack[t] = 1..Len(stack[t])
    BY LastFrame
  <1>4. \A u \in Threads \ {t} : stack[u] = <<>>
    BY DEF IInv, LockInv
  <1>5. LockInv'
    BY <1>2, <1>4 DEF LockInv
  <1>6. FramesInv'
    <2> SUFFICES ASSUME NEW u \in Threads, NEW k \in DOMAIN stack'[u]
                 PROVE  FrameOK(stack'[u][k], k = Len(stack'[u]), ToSet(list_'), gone')
      BY DEF FramesInv
    <2>1. u = t
      BY <1>2, <1>4
    <2>2. CASE k = Len(stack[t])
      <3>1. (k = Len(stack'[u])) = TRUE /\ stack'[u][k] = e
        BY <2>1, <2>2, <1>2
      <3> QED
        BY <3>1
    <2>3. CASE k # Len(stack[t])
      <3>1. k \in DOMAIN stack[t] /\ stack'[u][k] = stack[t][k]
        BY <2>1, <2>3, <1>2, <1>3
      <3>2. FrameOK(stack[t][k], FALSE, ToSet(list_), gone)
        BY <3>1, <2>3, OuterFrame
      <3>3. gone \subseteq gone
        OBVIOUS
      <3>4. FrameOK(stack[t][k], FALSE, ToSet(list_'), gone)
        BY <3>2, <3>3, NestedKept
      <3>5. FrameOK(stack[t][k], k = Len(stack'[u]), ToSet(list_'), gone)
        BY <3>4, FrameInner
      <3> QED
        BY <3>1, <3>5
    <2> QED
      BY <2>2, <2>3
  <1> QED
    BY <1>2, <1>5, <1>6

\* The innermost emission of t ends.
LEMMA PopStep ==
  ASSUME IInv, NEW t \in Threads, stack[t] # <<>>, stack' = [stack EXCEPT ![t] = Front(@)],
         gone' = gone, ToSet(list_) \ ToSet(list_') \subseteq gone
  PROVE  stack' \in [Threads -> Seq(Emission)] /\ LockInv' /\ FramesInv'
  <1>1. stack \in [Threads -> Seq(Emission)]
    BY DEF IInv, TypeOK
  <1>2. /\ stack' \in [Threads -> Seq(Emission)]
        /\ \A u \in Threads \ {t} : stack'[u] = stack[u]
        /\ DOMAIN stack'[t] = 1..(Len(stack[t]) - 1)
        /\ Len(stack[t]) \in Nat \ {0} /\ DOMAIN stack[t] = 1..Len(stack[t])
        /\ \A k \in 1..(Len(stack[t]) - 1) : stack'[t][k] = stack[t][k]
    BY <1>1, PopIs
  <1>4. \A u \in Threads \ {t} : stack[u] = <<>>
    BY DEF IInv, LockInv
  <1>5. LockInv'
    BY <1>2, <1>4 DEF LockInv
  <1>6. FramesInv'
    <2> SUFFICES ASSUME NEW u \in Threads, NEW k \in DOMAIN stack'[u]
                 PROVE  FrameOK(stack'[u][k], k = Len(stack'[u]), ToSet(list_'), gone')
      BY DEF FramesInv
    <2>1. u = t
      BY <1>2, <1>4
    <2>2. k \in DOMAIN stack[t] /\ k # Len(stack[t]) /\ stack'[u][k] = stack[t][k]
      BY <2>1, <1>2
    <2>3. FrameOK(stack[t][k], FALSE, ToSet(list_), gone)
      BY <2>2, OuterFrame
    <2>4. gone \subseteq gone
      OBVIOUS
    <2>5. FrameOK(stack[t][k], FALSE, ToSet(list_'), gone)
      BY <2>3, <2>4, NestedKept
    <2>6. FrameOK(stack[t][k], k = Len(stack'[u]), ToSet(list_'), gone)
      BY <2>5, FrameInner
    <2> QED
      BY <2>2, <2>6
  <1> QED
    BY <1>2, <1>5, <1>6

LEMMA ToSetIn ==
  ASSUME NEW S, NEW s \in Seq(S)
  PROVE  ToSet(s) \subseteq S
  BY LenProperties DEF ToSet

LEMMA IdsNat == Ids \subseteq Nat
  BY ObserverAssumption DEF Ids

\* An emission goes on from the node of a slot that was called or is gone to
\* the next one: what lies between them had left the list, so it is gone.
LEMMA WalkOn ==
  ASSUME TypeOK, NEW e \in Emission, FrameOK(e, TRUE, ToSet(list_), gone),
         e.b \in ToSet(list_), e.at = "exec" \/ e.b \in gone,
         NEW L2, L2 \subseteq ToSet(list_), ToSet(list_) \ L2 \subseteq gone \cap {e.b},
         NEW f, f.b = next(list_, e.b), f.at = "check",
         f.called = e.called, f.due = e.due, f.nestedIn = e.nestedIn
  PROVE  FrameOK(f, TRUE, L2, gone)
  <1> DEFINE L == ToSet(list_)
             C == ToSet(e.called)
  <1>1. list_ \in Seq(Nat) /\ Ascending(list_) /\ 0 \notin L /\ L \subseteq Nat
    BY ListFacts
  <1>2. \/ f.b = NoNode /\ \A x \in L : x <= e.b
        \/ f.b \in L /\ f.b # NoNode /\ f.b > e.b /\ \A x \in L : x <= e.b \/ x >= f.b
    BY <1>1, NextIs
  <1>3. e.b # NoNode /\ e.b \in Nat
    BY <1>1 DEF NoNode
  <1>4. \A x \in C : x \in Nat /\ x <= e.b
    <2>1. C \subseteq Ids /\ Ids \subseteq Nat
      <3>1. e.called \in Seq(Ids)
        BY DEF Emission
      <3> QED
        BY <3>1, ToSetIn, IdsNat
    <2>2. e.at \in {"check", "exec"}
      BY DEF Emission
    <2>3. CASE e.at = "check"
      <3>1. \A x \in C : x < e.b
        BY <1>3, <2>3 DEF FrameOK
      <3> HIDE DEF C
      <3> QED
        BY <1>3, <2>1, <3>1
    <2>4. CASE e.at = "exec"
      <3>1. \A x \in C : x <= e.b
        BY <2>4 DEF FrameOK
      <3> HIDE DEF C
      <3> QED
        BY <2>1, <3>1
    <2> QED
      BY <2>2, <2>3, <2>4
  <1>5. e.due \subseteq L \cup gone /\ e.due \subseteq Nat
    <2>1. e.due \subseteq Ids /\ Ids \subseteq Nat
      BY DEF Emission, Ids
    <2> QED
      BY <2>1 DEF FrameOK
  <1>6. e.b \in C \cup gone
    BY DEF FrameOK
  <1>7. \A x \in e.due : x < e.b => x \in C \cup gone
    BY DEF FrameOK
  <1>8. ASSUME NEW x \in e.due, f.b = NoNode \/ x < f.b
        PROVE  x \in C \cup gone
    <2>1. CASE x \in L
      <3>1. x <= e.b
        BY <2>1, <1>1, <1>2, <1>8
      <3>2. x = e.b \/ x < e.b
        BY <3>1, <1>3, <1>5
      <3> QED
        BY <3>2, <1>6, <1>7
    <2>2. CASE x \notin L
      BY <2>2, <1>5
    <2> QED
      BY <2>1, <2>2
  <1>9. f.b # NoNode => f.b \in L2 /\ \A x \in C : x < f.b
    <2>1. f.b # NoNode => f.b \in L /\ f.b # e.b /\ f.b > e.b /\ f.b \in Nat
      BY <1>1, <1>2, <1>3
    <2> QED
      BY <2>1, <1>3, <1>4
  <1>10. Ascending(f.called) /\ f.due \subseteq L2 \cup gone
    BY <1>5 DEF FrameOK
  <1>11. f.nestedIn = {} => C \subseteq f.due /\ L2 \subseteq f.due \cup gone
    BY DEF FrameOK
  <1> QED
    BY <1>8, <1>9, <1>10, <1>11 DEF FrameOK

LEMMA CheckNodeStep ==
  ASSUME IInv, NEW t \in Threads, CheckNode(t)
  PROVE  IInv'
  <1> DEFINE e == Innermost(t)
             L == ToSet(list_)
  <1>1. TypeOK /\ NeverForgotten /\ NotedInv
    BY DEF IInv
  <1>2. /\ stack[t] # <<>> /\ e.at = "check" /\ e.b # NoNode
        /\ UNCHANGED <<id_, added_, gone, broken>>
    BY DEF CheckNode, AtNode
  <1>3. e \in Emission /\ FrameOK(e, TRUE, L, gone)
    BY <1>2, LastFrame
  <1>4. e.b \in L /\ \A x \in ToSet(e.called) : x < e.b
    BY <1>2, <1>3 DEF FrameOK
  <1>5. /\ list_ \in Seq(Nat) /\ added_ \in Seq(Nat) /\ Ascending(list_) /\ Ascending(added_)
        /\ \A x \in L, y \in ToSet(added_) : x < y
        /\ 1..(id_ - 1) \in SUBSET Nat /\ 1..(id_ - 1) \subseteq Ids /\ L \subseteq 1..(id_ - 1)
        /\ 0 \notin L
    BY <1>1, ListFacts
  <1>6. CASE e.b \in removed_
    <2> DEFINE f == [e EXCEPT !.b = next(list_, e.b)]
    <2>1. removed_' = removed_ \ {e.b} /\ list_' = erase(list_, e.b) /\ stack' = SetInnermost(t, f)
      BY <1>6 DEF CheckNode
    <2> HIDE DEF e
    <2>2. list_' \in Seq(1 .. id_ - 1) /\ Ascending(list_') /\ ToSet(list_') = L \ {e.b}
      <3>1. list_ \in Seq(1 .. id_ - 1)
        BY <1>1 DEF TypeOK
      <3> QED
        BY <3>1, <2>1, <1>4, <1>5, EraseSet
    <2>3. e.b \in gone
      BY <1>1, <1>6 DEF NotedInv
    <2>4. next(list_, e.b) \in Ids \cup {NoNode}
      BY <1>4, <1>5, NextIs
    <2>5. /\ f \in Emission /\ f.b = next(list_, e.b) /\ f.at = "check"
          /\ f.called = e.called /\ f.due = e.due /\ f.nestedIn = e.nestedIn
      BY <1>2, <1>3, <2>4 DEF Emission
    <2> HIDE DEF f
    <2>6. ToSet(list_') \subseteq L /\ L \ ToSet(list_') \subseteq gone \cap {e.b}
      BY <2>2, <2>3
    <2>7. FrameOK(f, TRUE, ToSet(list_'), gone)
      BY <1>1, <1>3, <1>4, <2>3, <2>5, <2>6, WalkOn
    <2>8. stack' \in [Threads -> Seq(Emission)] /\ LockInv' /\ FramesInv'
      <3>1. L \ ToSet(list_') \subseteq gone /\ gone' = gone
        BY <2>6, <1>2
      <3> QED
        BY <1>2, <2>1, <2>5, <2>7, <3>1, InnermostStep
    <2>9. TypeOK'
      <3>1. list_' \in Seq(Nat) /\ \A x \in ToSet(list_'), y \in ToSet(added_) : x < y
        BY <2>2, <1>5, SeqWiden
      <3>2. Ascending(list_' \o added_)
        BY <3>1, <2>2, <1>5, AscendingConcat
      <3> QED
        BY <3>2, <2>1, <2>2, <2>8, <1>1, <1>2 DEF TypeOK
    <2>10. NeverForgotten' /\ NotedInv'
      BY <1>1, <1>2, <2>1, <2>2 DEF NeverForgotten, NotedInv
    <2> QED
      BY <2>8, <2>9, <2>10 DEF IInv
  <1>7. CASE e.b \notin removed_
    <2> DEFINE f == [e EXCEPT !.at = "exec", !.called = Append(@, e.b)]
    <2>1. UNCHANGED <<list_, removed_>> /\ stack' = SetInnermost(t, f)
      BY <1>7 DEF CheckNode
    <2> HIDE DEF e
    <2>2. e.called \in Seq(Ids) /\ e.b \in Ids
      BY <1>3, <1>4, <1>5 DEF Emission
    <2>3. /\ Append(e.called, e.b) \in Seq(Ids)
          /\ DOMAIN Append(e.called, e.b) = 1..(Len(e.called) + 1)
          /\ \A i \in 1..Len(e.called) : Append(e.called, e.b)[i] = e.called[i]
          /\ Append(e.called, e.b)[Len(e.called) + 1] = e.b
      BY <2>2, AppendAt
    <2>4. DOMAIN e.called = 1..Len(e.called) /\ Len(e.called) \in Nat
      BY <2>2, LenProperties
    <2>5. /\ f \in Emission /\ f.b = e.b /\ f.at = "exec" /\ f.called = Append(e.called, e.b)
          /\ f.due = e.due /\ f.nestedIn = e.nestedIn
      BY <1>3, <2>3 DEF Emission
    <2> HIDE DEF f
    <2>6. ToSet(f.called) = ToSet(e.called) \cup {e.b}
      BY <2>3, <2>4, <2>5 DEF ToSet
    <2>7. Ascending(f.called)
      <3> SUFFICES ASSUME NEW i \in 1..(Len(e.called) + 1), NEW j \in 1..(Len(e.called) + 1), i < j
                   PROVE  Append(e.called, e.b)[i] < Append(e.called, e.b)[j]
        BY <2>3, <2>5 DEF Ascending
      <3>1. i \in DOMAIN e.called /\ e.called[i] \in ToSet(e.called)
        BY <2>4 DEF ToSet
      <3>2. CASE j = Len(e.called) + 1
        <4>1. e.called[i] < e.b
          BY <3>1, <1>4
        <4> QED
          BY <3>1, <3>2, <4>1, <2>3, <2>4
      <3>3. CASE j # Len(e.called) + 1
        <4>1. j \in DOMAIN e.called
          BY <3>3, <2>4
        <4>2. e.called[i] < e.called[j]
          BY <3>1, <4>1, <1>3 DEF FrameOK, Ascending
        <4> QED
          BY <3>1, <4>1, <4>2, <2>3, <2>4
      <3> QED
        BY <3>2, <3>3
    <2>8. e.b \notin gone
      BY <1>1, <1>4, <1>7 DEF NeverForgotten
    <2>9. FrameOK(f, TRUE, L, gone)
      <3>1. /\ e.due \subseteq L \cup gone
            /\ \A x \in e.due : x < e.b => x \in ToSet(e.called) \cup gone
            /\ e.nestedIn = {} => ToSet(e.called) \subseteq e.due /\ L \subseteq e.due \cup gone
        BY <1>3 DEF FrameOK
      <3>2. \A x \in ToSet(f.called) : x <= f.b
        <4>1. \A x \in ToSet(e.called) : x \in Nat
          BY <2>2, ToSetIn, IdsNat
        <4>2. e.b \in Nat
          BY <2>2 DEF Ids
        <4> QED
          BY <4>1, <4>2, <2>5, <2>6, <1>4
      <3>3. f.nestedIn = {} => ToSet(f.called) \subseteq f.due /\ L \subseteq f.due \cup gone
        BY <3>1, <2>5, <2>6, <2>8, <1>4
      <3>4. \A x \in f.due : (f.b = NoNode \/ x < f.b) => x \in ToSet(f.called) \cup gone
        BY <3>1, <2>5, <2>6, <1>2
      <3>5. f.b # NoNode /\ f.b \in ToSet(f.called) /\ f.b \in L /\ f.due \subseteq L \cup gone
        BY <3>1, <2>5, <2>6, <1>2, <1>4
      <3> QED
        BY <3>2, <3>3, <3>4, <3>5, <2>5, <2>7 DEF FrameOK
    <2>10. stack' \in [Threads -> Seq(Emission)] /\ LockInv' /\ FramesInv'
      <3>1. L \ ToSet(list_') \subseteq gone /\ gone' = gone /\ FrameOK(f, TRUE, ToSet(list_'), gone)
        BY <2>1, <2>9, <1>2
      <3> QED
        BY <1>2, <2>1, <2>5, <3>1, InnermostStep
    <2>11. TypeOK' /\ NeverForgotten' /\ NotedInv'
      BY <1>1, <1>2, <2>1, <2>10 DEF TypeOK, NeverForgotten, NotedInv
    <2> QED
      BY <2>10, <2>11 DEF IInv
  <1> QED
    BY <1>6, <1>7

LEMMA SlotReturnsStep ==
  ASSUME IInv, NEW t \in Threads, SlotReturns(t)
  PROVE  IInv'
  <1> DEFINE e == Innermost(t)
             L == ToSet(list_)
             f == [e EXCEPT !.at = "check", !.b = next(list_, e.b)]
  <1>1. TypeOK /\ NeverForgotten /\ NotedInv
    BY DEF IInv
  <1>2. /\ stack[t] # <<>> /\ e.at = "exec" /\ UNCHANGED <<id_, list_, added_, removed_, gone>>
    BY DEF SlotReturns, InSlot
  <1>3. e \in Emission /\ FrameOK(e, TRUE, L, gone)
    BY <1>2, LastFrame
  <1>4. CASE e.b \in L
    <2>1. stack' = SetInnermost(t, f) /\ broken' = broken
      BY <1>4 DEF SlotReturns
    <2> HIDE DEF e
    <2>2. next(list_, e.b) \in Ids \cup {NoNode}
      BY <1>1, <1>4, ListFacts, NextIs
    <2>3. /\ f \in Emission /\ f.b = next(list_, e.b) /\ f.at = "check"
          /\ f.called = e.called /\ f.due = e.due /\ f.nestedIn = e.nestedIn
      BY <1>2, <1>3, <2>2 DEF Emission
    <2> HIDE DEF f
    <2>4. L \subseteq L /\ L \ L \subseteq gone \cap {e.b}
      OBVIOUS
    <2>5. FrameOK(f, TRUE, L, gone)
      BY <1>1, <1>2, <1>3, <1>4, <2>3, <2>4, WalkOn
    <2>6. stack' \in [Threads -> Seq(Emission)] /\ LockInv' /\ FramesInv'
      <3>1. L \ ToSet(list_') \subseteq gone /\ gone' = gone /\ FrameOK(f, TRUE, ToSet(list_'), gone)
        BY <2>5, <1>2
      <3> QED
        BY <1>2, <2>1, <2>3, <3>1, InnermostStep
    <2>7. TypeOK' /\ NeverForgotten' /\ NotedInv'
      BY <1>1, <1>2, <2>1, <2>6 DEF TypeOK, NeverForgotten, NotedInv
    <2> QED
      BY <2>6, <2>7 DEF IInv
  <1>5. CASE e.b \notin L
    <2>1. broken' = TRUE /\ stack' = stack
      BY <1>5 DEF SlotReturns
    <2>2. broken' \in BOOLEAN
      BY <2>1
    <2> QED
      BY <1>2, <2>1, <2>2 DEF IInv, TypeOK, NeverForgotten, NotedInv, LockInv, FramesInv
  <1> QED
    BY <1>4, <1>5

LEMMA SlotThrowsStep ==
  ASSUME IInv, NEW t \in Threads, SlotThrows(t)
  PROVE  IInv'
  <1>1. TypeOK /\ NeverForgotten /\ NotedInv
    BY DEF IInv
  <1>2. /\ stack[t] # <<>> /\ stack' = [stack EXCEPT ![t] = Front(@)]
        /\ UNCHANGED <<id_, list_, added_, removed_, gone, broken>>
    BY DEF SlotThrows, InSlot
  <1>3. gone' = gone /\ ToSet(list_) \ ToSet(list_') \subseteq gone
    BY <1>2
  <1>4. stack' \in [Threads -> Seq(Emission)] /\ LockInv' /\ FramesInv'
    BY <1>2, <1>3, PopStep
  <1>5. TypeOK' /\ NeverForgotten' /\ NotedInv'
    BY <1>1, <1>2, <1>4 DEF TypeOK, NeverForgotten, NotedInv
  <1> QED
    BY <1>4, <1>5 DEF IInv

LEMMA ClearRemovedStep ==
  ASSUME IInv, NEW t \in Threads, clear_removed(t)
  PROVE  IInv'
  <1>1. TypeOK /\ NeverForgotten /\ NotedInv
    BY DEF IInv
  <1>2. /\ stack[t] # <<>> /\ stack' = [stack EXCEPT ![t] = Front(@)]
        /\ removed_' = {} /\ list_' = eraseAll(list_, removed_)
        /\ UNCHANGED <<id_, added_, gone, broken>>
    BY DEF clear_removed
  <1>3. /\ list_ \in Seq(Nat) /\ added_ \in Seq(Nat) /\ Ascending(list_) /\ Ascending(added_)
        /\ \A x \in ToSet(list_), y \in ToSet(added_) : x < y
        /\ 1..(id_ - 1) \in SUBSET Nat
    BY <1>1, ListFacts
  <1>4. list_' \in Seq(1 .. id_ - 1) /\ Ascending(list_') /\ ToSet(list_') = ToSet(list_) \ removed_
    <2>1. list_ \in Seq(1 .. id_ - 1)
      BY <1>1 DEF TypeOK
    <2> QED
      BY <2>1, <1>2, <1>3, EraseAllSet
  <1>5. gone' = gone /\ ToSet(list_) \ ToSet(list_') \subseteq gone
    BY <1>1, <1>2, <1>4 DEF NotedInv
  <1>6. stack' \in [Threads -> Seq(Emission)] /\ LockInv' /\ FramesInv'
    BY <1>2, <1>5, PopStep
  <1>7. TypeOK'
    <2>1. list_' \in Seq(Nat) /\ \A x \in ToSet(list_'), y \in ToSet(added_) : x < y
      BY <1>3, <1>4, SeqWiden
    <2>2. Ascending(list_' \o added_)
      BY <2>1, <1>3, <1>4, AscendingConcat
    <2> QED
      BY <2>2, <1>1, <1>2, <1>4, <1>6 DEF TypeOK
  <1>8. NeverForgotten' /\ NotedInv'
    BY <1>1, <1>2, <1>4 DEF NeverForgotten, NotedInv
  <1> QED
    BY <1>6, <1>7, <1>8 DEF IInv

LEMMA ObserverNext ==
  ASSUME IInv, [Next]_vars
  PROVE  IInv'
  <1>1. CASE UNCHANGED vars
    BY <1>1 DEF vars, IInv, TypeOK, NeverForgotten, NotedInv, LockInv, FramesInv
  <1>2. CASE Crashed
    BY <1>1, <1>2 DEF Crashed
  <1>3. ASSUME NEW t \in Threads, connect(t) PROVE IInv'
    BY <1>3, ConnectStep
  <1>4. ASSUME NEW t \in Threads, NEW id \in Ids, unsubscribe(t, id) PROVE IInv'
    BY <1>4, UnsubscribeStep
  <1>5. ASSUME NEW t \in Threads, clear(t) PROVE IInv'
    BY <1>5, ClearStep
  <1>6. ASSUME NEW t \in Threads, EmitBegins(t) PROVE IInv'
    BY <1>6, EmitBeginsStep
  <1>7. ASSUME NEW t \in Threads, CheckNode(t) PROVE IInv'
    BY <1>7, CheckNodeStep
  <1>8. ASSUME NEW t \in Threads, SlotReturns(t) PROVE IInv'
    BY <1>8, SlotReturnsStep
  <1>9. ASSUME NEW t \in Threads, SlotThrows(t) PROVE IInv'
    BY <1>9, SlotThrowsStep
  <1>10. ASSUME NEW t \in Threads, clear_removed(t) PROVE IInv'
    BY <1>10, ClearRemovedStep
  <1> QED
    BY <1>1, <1>2, <1>3, <1>4, <1>5, <1>6, <1>7, <1>8, <1>9, <1>10 DEF Next

LEMMA ObserverInvariant == Spec => []IInv
  <1>1. IInv /\ [Next]_vars => IInv'
    BY ObserverNext
  <1> QED
    BY <1>1, ObserverInit, PTL DEF Spec

------------------------------------------------------------------------------
\* NeverForgotten: a slot that was given up by unsubscribe or clear is noted in
\* removed_ for as long as it is in list_, and no splice_added brings it back.
THEOREM GivenUpNotForgotten == Spec => []NeverForgotten
  <1>1. IInv => NeverForgotten
    BY DEF IInv
  <1> QED
    BY <1>1, ObserverInvariant, PTL

\* EmissionsRight: operator() calls the slots in order, each once at most, and
\* misses none of those it found unless they were given up; the node of a
\* running slot is freed only if that slot was given up and used the signal.
THEOREM EmissionsAreRight == Spec => []EmissionsRight
  <1>1. IInv => EmissionsRight
    <2> SUFFICES ASSUME IInv PROVE EmissionsRight
      OBVIOUS
    <2>1. ASSUME NEW e \in Emissions
          PROVE  /\ Ascending(e.called)
                 /\ \A x \in e.due : (e.b = NoNode \/ x < e.b) => x \in ToSet(e.called) \cup gone
                 /\ e.nestedIn = {} => ToSet(e.called) \subseteq e.due
                 /\ (e.at = "exec" /\ e.b \notin ToSet(list_)) => (e.b \in gone /\ e.b \in e.nestedIn)
      <3>1. PICK t \in Threads : e \in ToSet(stack[t])
        BY <2>1 DEF Emissions
      <3>2. PICK k \in DOMAIN stack[t] : e = stack[t][k]
        BY <3>1 DEF ToSet
      <3>3. FrameOK(e, k = Len(stack[t]), ToSet(list_), gone)
        BY <3>2 DEF IInv, FramesInv
      <3> QED
        BY <3>3, Zenon DEF FrameOK
    <2> QED
      BY <2>1 DEF IInv, EmissionsRight, EveryoneCalledOnce, RunningSlotKept
  <1> QED
    BY <1>1, ObserverInvariant, PTL

\* NotCalledOnceGone: is_removed lets no slot be called whose subscription was
\* given up before it was asked.
THEOREM NoCallOnceGone == Spec => NotCalledOnceGone
  <1> DEFINE P(t) == AtNode(t) /\ stack[t] # stack'[t] /\ stack'[t][Len(stack[t])].at = "exec"
                       => Innermost(t).b \notin gone
  <1>1. IInv /\ [Next]_vars => [\A t \in Threads : P(t)]_vars
    <2> SUFFICES ASSUME IInv, [Next]_vars, NEW t \in Threads, AtNode(t), stack[t] # stack'[t],
                        stack'[t][Len(stack[t])].at = "exec"
                 PROVE  Innermost(t).b \notin gone
      OBVIOUS
    <2>1. /\ stack \in [Threads -> Seq(Emission)] /\ stack[t] # <<>> /\ ~broken
          /\ Innermost(t).at = "check" /\ Innermost(t).b # NoNode
      BY DEF IInv, TypeOK, AtNode
    <2>2. \A u \in Threads \ {t} : stack[u] = <<>>
      BY <2>1 DEF IInv, LockInv
    <2>3. ~Free(t) /\ ~InSlot(t)
      BY <2>1 DEF Free, InSlot
    <2>4. \A u \in Threads \ {t} : ~MayLock(u)
      BY <2>1 DEF MayLock
    <2>5. CheckNode(t)
      <3>1. stack' # stack
        OBVIOUS
      <3>2. ASSUME NEW u \in Threads
            PROVE  /\ ~connect(u) /\ ~(\E id \in Ids : unsubscribe(u, id))
                   /\ ~clear(u) /\ ~EmitBegins(u) /\ ~SlotReturns(u)
                   /\ ~SlotThrows(u) /\ ~clear_removed(u) /\ (CheckNode(u) => u = t)
        <4>1. ~connect(u) /\ ~(\E id \in Ids : unsubscribe(u, id))
          BY <3>1 DEF connect, unsubscribe
        <4>2. ~clear(u) /\ ~EmitBegins(u)
          BY <2>3, <2>4 DEF clear, EmitBegins
        <4>3. u # t => ~InSlot(u) /\ stack[u] = <<>>
          BY <2>2 DEF InSlot
        <4>4. ~SlotReturns(u) /\ ~SlotThrows(u)
          BY <2>3, <4>3 DEF SlotReturns, SlotThrows
        <4>5. ~clear_removed(u)
          BY <2>1, <4>3 DEF clear_removed
        <4>6. CheckNode(u) => u = t
          BY <4>3 DEF CheckNode, AtNode
        <4> QED
          BY <4>1, <4>2, <4>4, <4>5, <4>6
      <3>3. ~Crashed
        BY <2>1 DEF Crashed
      <3>4. ~(UNCHANGED vars)
        BY <3>1 DEF vars
      <3> QED
        BY <3>2, <3>3, <3>4 DEF Next
    <2>6. CASE Innermost(t).b \in removed_
      <3> DEFINE e == Innermost(t)
                 f == [e EXCEPT !.b = next(list_, e.b)]
      <3>1. e \in Emission /\ FrameOK(e, TRUE, ToSet(list_), gone)
        BY <2>1, LastFrame
      <3>2. stack' = SetInnermost(t, f)
        BY <2>5, <2>6 DEF CheckNode
      <3>3. e.b \in ToSet(list_)
        BY <2>1, <3>1 DEF FrameOK
      <3>4. next(list_, e.b) \in Ids \cup {NoNode}
        BY <3>3, ListFacts, NextIs DEF IInv
      <3>5. f \in Emission /\ f.at = "check"
        BY <2>1, <3>1, <3>4 DEF Emission
      <3> HIDE DEF f
      <3>6. stack'[t][Len(stack[t])] = f
        BY <2>1, <3>2, <3>5, SetInnermostIs
      <3> QED
        BY <3>5, <3>6
    <2>7. CASE Innermost(t).b \notin removed_
      <3>1. Innermost(t).b \in ToSet(list_)
        BY <2>1, LastFrame DEF FrameOK
      <3> QED
        BY <3>1, <2>7 DEF IInv, NeverForgotten
    <2> QED
      BY <2>6, <2>7
  <1> QED
    BY <1>1, ObserverInvariant, PTL DEF Spec, NotCalledOnceGone

(***************************************************************************)
(* The list behind a signal.  v1 front_, v2 back_, v3 size_, v4 prev_, v5  *)
(* next_, v6 heap, v7 made, v8 held, v9 spec, v10 stale.                   *)
(***************************************************************************)

\* n is a node of s, and s repeats none.
In(s, n) == \E i \in 1..Len(s) : s[i] = n
Distinct(s) == \A i, j \in 1..Len(s) : s[i] = s[j] => i = j

\* From the front f to the back b, the links p and x lead through s.
Chain(s, f, b, p, x) ==
  /\ f = (IF s = <<>> THEN 0 ELSE s[1])
  /\ b = (IF s = <<>> THEN 0 ELSE s[Len(s)])
  /\ \A i \in 1..Len(s) :
       /\ p[s[i]] = (IF i = 1 THEN 0 ELSE s[i - 1])
       /\ x[s[i]] = (IF i = Len(s) THEN 0 ELSE s[i + 1])

\* A sequence of nodes, none of them twice and none of them null.
Nodes(s) == s \in Seq(Nat) /\ Distinct(s) /\ \A i \in 1..Len(s) : s[i] # 0

\* The links of the nodes of s do not change.
SameLinks(s, p, x, q, y) == \A i \in 1..Len(s) : q[s[i]] = p[s[i]] /\ y[s[i]] = x[s[i]]

\* Links that are the same on the nodes of a list make the same list.
LEMMA ChainSame ==
  ASSUME NEW s, NEW f, NEW b, NEW p, NEW x, NEW q, NEW y, Chain(s, f, b, p, x), SameLinks(s, p, x, q, y)
  PROVE  Chain(s, f, b, q, y)
  BY DEF Chain, SameLinks

\* The links q and y are those of p and x, but the node n is behind the last one.
Behind(s, b, p, x, q, y, n) ==
  /\ q[n] = b /\ y[n] = 0 /\ (s # <<>> => y[b] = n)
  /\ \A i \in 1..Len(s) : q[s[i]] = p[s[i]] /\ (s[i] # b => y[s[i]] = x[s[i]])

\* The same with n before the first one.
Before(s, f, p, x, q, y, n) ==
  /\ y[n] = f /\ q[n] = 0 /\ (s # <<>> => q[f] = n)
  /\ \A i \in 1..Len(s) : y[s[i]] = x[s[i]] /\ (s[i] # f => q[s[i]] = p[s[i]])

\* A node is put behind the last one.
LEMMA ChainAppend ==
  ASSUME NEW s, NEW f, NEW b, NEW p, NEW x, NEW q, NEW y, NEW n \in Nat \ {0},
         Nodes(s), Chain(s, f, b, p, x), ~In(s, n), Behind(s, b, p, x, q, y, n)
  PROVE  /\ Nodes(Append(s, n)) /\ Len(Append(s, n)) = Len(s) + 1
         /\ Chain(Append(s, n), IF s = <<>> THEN n ELSE f, n, q, y)
         /\ \A m : In(Append(s, n), m) <=> In(s, m) \/ m = n
  <1> DEFINE t == Append(s, n)
  <1>0. /\ q[n] = b /\ y[n] = 0 /\ (s # <<>> => y[b] = n)
        /\ \A i \in 1..Len(s) : q[s[i]] = p[s[i]] /\ (s[i] # b => y[s[i]] = x[s[i]])
    BY DEF Behind
  <1>1. s \in Seq(Nat) /\ n \in Nat /\ Len(s) \in Nat
    BY LenProperties DEF Nodes
  <1>2. /\ t \in Seq(Nat) /\ Len(t) = Len(s) + 1 /\ t[Len(s) + 1] = n
        /\ \A i \in 1..Len(s) : t[i] = s[i]
    BY <1>1, AppendAt
  <1>3. s = <<>> <=> Len(s) = 0
    BY <1>1, EmptySeq
  <1>4. t # <<>>
    BY <1>1, <1>2
  <1> HIDE DEF t
  <1>5. \A i \in 1..Len(s) : s[i] # n
    BY DEF In
  <1>6. 1..Len(t) = 1..Len(s) \cup {Len(s) + 1}
    BY <1>1, <1>2
  <1>7. Nodes(t)
    <2>1. Distinct(t)
      <3>1. \A i, j \in 1..Len(s) : t[i] = t[j] => i = j
        BY <1>2 DEF Nodes, Distinct
      <3>2. \A i \in 1..Len(s) : t[i] # t[Len(s) + 1]
        BY <1>2, <1>5
      <3> QED
        BY <1>6, <3>1, <3>2 DEF Distinct
    <2>2. \A i \in 1..Len(t) : t[i] # 0
      BY <1>2, <1>6 DEF Nodes
    <2> QED
      BY <1>2, <2>1, <2>2 DEF Nodes
  <1>8. \A m : In(t, m) <=> In(s, m) \/ m = n
    BY <1>2, <1>6 DEF In
  <1>9. ASSUME NEW i \in 1..Len(t)
        PROVE  /\ q[t[i]] = (IF i = 1 THEN 0 ELSE t[i - 1])
               /\ y[t[i]] = (IF i = Len(t) THEN 0 ELSE t[i + 1])
    <2>1. CASE i = Len(s) + 1
      <3>1. t[i] = n /\ y[n] = 0 /\ i = Len(t) /\ q[n] = b
        BY <1>0, <1>2, <2>1
      <3>2. i # 1 => s # <<>> /\ i - 1 \in 1..Len(s) /\ i - 1 = Len(s)
        BY <1>1, <1>3, <2>1
      <3>3. i = 1 => s = <<>>
        BY <1>1, <1>3, <2>1
      <3> QED
        BY <1>2, <3>1, <3>2, <3>3 DEF Chain
    <2>2. CASE i \in 1..Len(s)
      <3>1. t[i] = s[i] /\ i # Len(t) /\ s # <<>>
        BY <1>1, <1>2, <1>3, <2>2
      <3>2. i # 1 => i - 1 \in 1..Len(s)
        BY <1>1, <2>2
      <3>3. q[t[i]] = (IF i = 1 THEN 0 ELSE t[i - 1])
        <4>1. q[s[i]] = (IF i = 1 THEN 0 ELSE s[i - 1])
          BY <1>0, <2>2 DEF Chain
        <4>2. i # 1 => t[i - 1] = s[i - 1]
          BY <1>2, <3>2
        <4> QED
          BY <3>1, <4>1, <4>2
      <3>4. CASE i = Len(s)
        <4>1. s[i] = b /\ t[i + 1] = n
          BY <1>2, <3>1, <3>4 DEF Chain
        <4> QED
          BY <1>0, <3>1, <3>3, <4>1
      <3>5. CASE i # Len(s)
        <4>1. i + 1 \in 1..Len(s) /\ Len(s) \in 1..Len(s)
          BY <1>1, <2>2, <3>5
        <4>2. s[i] # b
          BY <2>2, <3>1, <3>5, <4>1 DEF Chain, Nodes, Distinct
        <4>3. y[s[i]] = s[i + 1] /\ t[i + 1] = s[i + 1]
          BY <1>0, <1>2, <2>2, <3>5, <4>1, <4>2 DEF Chain
        <4> QED
          BY <3>1, <3>3, <4>3
      <3> QED
        BY <3>4, <3>5
    <2> QED
      BY <1>6, <2>1, <2>2
  <1>10. (IF s = <<>> THEN n ELSE f) = t[1]
    <2>1. CASE s = <<>>
      BY <1>2, <1>3, <2>1
    <2>2. CASE s # <<>>
      <3>1. 1 \in 1..Len(s)
        BY <1>1, <1>3, <2>2
      <3> QED
        BY <1>2, <2>2, <3>1 DEF Chain
    <2> QED
      BY <2>1, <2>2
  <1>11. Chain(t, IF s = <<>> THEN n ELSE f, n, q, y)
    BY <1>2, <1>4, <1>9, <1>10 DEF Chain
  <1> QED
    BY <1>2, <1>7, <1>8, <1>11 DEF t

\* A node is put before the first one.
LEMMA ChainPrepend ==
  ASSUME NEW s, NEW f, NEW b, NEW p, NEW x, NEW q, NEW y, NEW n \in Nat \ {0},
         Nodes(s), Chain(s, f, b, p, x), ~In(s, n), Before(s, f, p, x, q, y, n)
  PROVE  /\ Nodes(<<n>> \o s) /\ Len(<<n>> \o s) = Len(s) + 1
         /\ Chain(<<n>> \o s, n, IF s = <<>> THEN n ELSE b, q, y)
         /\ \A m : In(<<n>> \o s, m) <=> In(s, m) \/ m = n
  <1> DEFINE h == <<n>>  t == h \o s
  <1>0. /\ y[n] = f /\ q[n] = 0 /\ (s # <<>> => q[f] = n)
        /\ \A i \in 1..Len(s) : y[s[i]] = x[s[i]] /\ (s[i] # f => q[s[i]] = p[s[i]])
    BY DEF Before
  <1>1. s \in Seq(Nat) /\ n \in Nat /\ Len(s) \in Nat
    BY LenProperties DEF Nodes
  <1>2. h \in Seq(Nat) /\ Len(h) = 1 /\ h[1] = n
    BY <1>1
  <1> HIDE DEF h
  <1>3. /\ t \in Seq(Nat) /\ Len(t) = Len(h) + Len(s)
        /\ \A i \in 1..Len(h) : t[i] = h[i]
        /\ \A i \in 1..Len(s) : t[Len(h) + i] = s[i]
    <2>1. h \in Seq(Nat) /\ s \in Seq(Nat)
      BY <1>1, <1>2
    <2> QED
      BY <2>1, ConcatAt
  <1> HIDE DEF t
  <1>4. Len(t) = Len(s) + 1 /\ t[1] = n
    BY <1>1, <1>2, <1>3
  <1>5. \A i \in 1..Len(s) : t[i + 1] = s[i]
    <2> SUFFICES ASSUME NEW i \in 1..Len(s) PROVE t[i + 1] = s[i]
      OBVIOUS
    <2>1. t[Len(h) + i] = s[i] /\ Len(h) + i = i + 1
      BY <1>1, <1>2, <1>3
    <2> QED
      BY <2>1
  <1>6. s = <<>> <=> Len(s) = 0
    BY <1>1, EmptySeq
  <1>7. t # <<>>
    BY <1>1, <1>4
  <1>8. \A i \in 1..Len(s) : s[i] # n
    BY DEF In
  <1>9. \A i \in 1..Len(t) : i = 1 \/ (i - 1 \in 1..Len(s) /\ t[i] = s[i - 1])
    <2> SUFFICES ASSUME NEW i \in 1..Len(t), i # 1 PROVE i - 1 \in 1..Len(s) /\ t[i] = s[i - 1]
      OBVIOUS
    <2>1. i - 1 \in 1..Len(s) /\ (i - 1) + 1 = i
      BY <1>1, <1>4
    <2> QED
      BY <1>5, <2>1
  <1>10. Nodes(t)
    <2>1. \A i \in 1..Len(t) : t[i] # 0
      BY <1>4, <1>9 DEF Nodes
    <2>2. ASSUME NEW i \in 1..Len(t), NEW j \in 1..Len(t), t[i] = t[j] PROVE i = j
      <3>1. CASE i = 1 \/ j = 1
        BY <1>4, <1>8, <1>9, <2>2, <3>1
      <3>2. CASE i # 1 /\ j # 1
        <4>1. i - 1 \in 1..Len(s) /\ j - 1 \in 1..Len(s) /\ s[i - 1] = s[j - 1]
          BY <1>9, <2>2, <3>2
        <4>2. i - 1 = j - 1
          BY <4>1 DEF Nodes, Distinct
        <4> QED
          BY <4>2
      <3> QED
        BY <3>1, <3>2
    <2> QED
      BY <1>3, <2>1, <2>2 DEF Nodes, Distinct
  <1>11. \A m : In(t, m) <=> In(s, m) \/ m = n
    <2>1. ASSUME NEW m, In(t, m) PROVE In(s, m) \/ m = n
      BY <1>4, <1>9, <2>1 DEF In
    <2>2. ASSUME NEW m, In(s, m) PROVE In(t, m)
      <3>1. PICK i \in 1..Len(s) : s[i] = m
        BY <2>2 DEF In
      <3>2. i + 1 \in 1..Len(t) /\ t[i + 1] = m
        BY <1>1, <1>4, <1>5, <3>1
      <3> QED
        BY <3>2 DEF In
    <2>3. In(t, n)
      <3>1. 1 \in 1..Len(t)
        BY <1>1, <1>4
      <3> QED
        BY <1>4, <3>1 DEF In
    <2> QED
      BY <2>1, <2>2, <2>3
  <1>12. ASSUME NEW i \in 1..Len(t)
         PROVE  /\ q[t[i]] = (IF i = 1 THEN 0 ELSE t[i - 1])
                /\ y[t[i]] = (IF i = Len(t) THEN 0 ELSE t[i + 1])
    <2>1. CASE i = 1
      <3>1. t[i] = n /\ q[n] = 0 /\ y[n] = f
        BY <1>0, <1>4, <2>1
      <3>2. s = <<>> => i = Len(t) /\ f = 0
        BY <1>1, <1>4, <1>6, <2>1 DEF Chain
      <3>3. s # <<>> => i # Len(t) /\ 1 \in 1..Len(s) /\ f = s[1] /\ t[i + 1] = s[1]
        BY <1>1, <1>4, <1>5, <1>6, <2>1 DEF Chain
      <3> QED
        BY <2>1, <3>1, <3>2, <3>3
    <2>2. CASE i # 1
      <3> DEFINE j == i - 1
      <3>1. j \in 1..Len(s) /\ t[i] = s[j] /\ i = j + 1 /\ s # <<>>
        BY <1>1, <1>6, <1>9, <2>2
      <3> HIDE DEF j
      <3>2. y[s[j]] = IF j = Len(s) THEN 0 ELSE s[j + 1]
        BY <1>0, <3>1 DEF Chain
      <3>3. j # Len(s) => j + 1 \in 1..Len(s) /\ t[i + 1] = s[j + 1]
        BY <1>1, <1>5, <3>1
      <3>4. i = Len(t) <=> j = Len(s)
        BY <1>1, <1>4, <3>1
      <3>5. q[s[j]] = t[i - 1]
        <4>1. CASE j = 1
          <5>1. s[j] = f /\ t[i - 1] = n
            BY <1>4, <3>1, <4>1 DEF Chain
          <5> QED
            BY <1>0, <3>1, <5>1
        <4>2. CASE j # 1
          <5>1. 1 \in 1..Len(s) /\ j - 1 \in 1..Len(s) /\ (j - 1) + 1 = i - 1
            BY <1>1, <3>1, <4>2
          <5>2. s[j] # f
            BY <3>1, <4>2, <5>1 DEF Chain, Nodes, Distinct
          <5>3. q[s[j]] = s[j - 1] /\ t[i - 1] = s[j - 1]
            BY <1>0, <1>5, <3>1, <4>2, <5>1, <5>2 DEF Chain
          <5> QED
            BY <5>3
        <4> QED
          BY <4>1, <4>2
      <3> QED
        BY <2>2, <3>1, <3>2, <3>3, <3>4, <3>5
    <2> QED
      BY <2>1, <2>2
  <1>13. (IF s = <<>> THEN n ELSE b) = t[Len(t)]
    <2>1. CASE s = <<>>
      BY <1>1, <1>4, <1>6, <2>1
    <2>2. CASE s # <<>>
      <3>1. Len(s) \in 1..Len(s)
        BY <1>1, <1>6, <2>2
      <3> QED
        BY <1>4, <1>5, <2>2, <3>1 DEF Chain
    <2> QED
      BY <2>1, <2>2
  <1>14. Chain(t, n, IF s = <<>> THEN n ELSE b, q, y)
    BY <1>4, <1>7, <1>12, <1>13 DEF Chain
  <1> QED
    BY <1>4, <1>10, <1>11, <1>14 DEF t, h

\* The nodes that are left when the k-th is removed.
LEMMA RemovedAt ==
  ASSUME NEW s \in Seq(Nat), NEW k \in 1..Len(s)
  PROVE  /\ List!RemoveAt(s, k) \in Seq(Nat) /\ Len(List!RemoveAt(s, k)) = Len(s) - 1
         /\ \A i \in 1..(Len(s) - 1) : List!RemoveAt(s, k)[i] = IF i < k THEN s[i] ELSE s[i + 1]
  <1> DEFINE u == SubSeq(s, 1, k - 1)  w == SubSeq(s, k + 1, Len(s))  t == u \o w
  <1>1. Len(s) \in Nat /\ k \in Nat /\ 1 <= k /\ k <= Len(s)
    BY LenProperties
  <1>2. u \in Seq(Nat) /\ Len(u) = k - 1 /\ \A i \in 1..(k - 1) : u[i] = s[i]
    <2> DEFINE m == k - 1
    <2>1. m \in Nat /\ m <= Len(s) /\ 1 <= m + 1 /\ 1 \in Nat \ {0}
      BY <1>1
    <2> HIDE DEF m
    <2>2. /\ SubSeq(s, 1, m) \in Seq(Nat) /\ Len(SubSeq(s, 1, m)) = m + 1 - 1
          /\ \A i \in 1..(m + 1 - 1) : SubSeq(s, 1, m)[i] = s[1 - 1 + i]
      BY <2>1, SubSeqAt
    <2>3. m + 1 - 1 = m /\ \A i \in 1..m : 1 - 1 + i = i
      BY <2>1
    <2>4. SubSeq(s, 1, m) \in Seq(Nat) /\ Len(SubSeq(s, 1, m)) = m /\ \A i \in 1..m : SubSeq(s, 1, m)[i] = s[i]
      BY <2>2, <2>3
    <2> QED
      BY <2>4 DEF m
  <1>3. w \in Seq(Nat) /\ Len(w) = Len(s) - k /\ \A i \in 1..(Len(s) - k) : w[i] = s[k + i]
    <2> DEFINE m == k + 1
    <2>1. m \in Nat \ {0} /\ Len(s) \in Nat /\ Len(s) <= Len(s) /\ m <= Len(s) + 1
      BY <1>1
    <2> HIDE DEF m
    <2>2. /\ SubSeq(s, m, Len(s)) \in Seq(Nat) /\ Len(SubSeq(s, m, Len(s))) = Len(s) + 1 - m
          /\ \A i \in 1..(Len(s) + 1 - m) : SubSeq(s, m, Len(s))[i] = s[m - 1 + i]
      BY <2>1, SubSeqAt
    <2>3. Len(s) + 1 - m = Len(s) - k /\ \A i \in 1..(Len(s) - k) : m - 1 + i = k + i
      BY <1>1 DEF m
    <2>4. /\ SubSeq(s, m, Len(s)) \in Seq(Nat) /\ Len(SubSeq(s, m, Len(s))) = Len(s) - k
          /\ \A i \in 1..(Len(s) - k) : SubSeq(s, m, Len(s))[i] = s[k + i]
      BY <2>2, <2>3
    <2> QED
      BY <2>4 DEF m
  <1>4. List!RemoveAt(s, k) = t
    BY DEF List!RemoveAt
  <1> HIDE DEF u, w
  <1>5. u \in Seq(Nat) /\ w \in Seq(Nat)
    BY <1>2, <1>3
  <1>6. /\ t \in Seq(Nat) /\ Len(t) = Len(u) + Len(w)
        /\ \A i \in 1..Len(u) : t[i] = u[i]
        /\ \A i \in 1..Len(w) : t[Len(u) + i] = w[i]
    BY <1>5, ConcatAt
  <1> HIDE DEF t
  <1>7. Len(t) = Len(s) - 1
    BY <1>1, <1>2, <1>3, <1>6
  <1>8. ASSUME NEW i \in 1..(Len(s) - 1) PROVE t[i] = IF i < k THEN s[i] ELSE s[i + 1]
    <2>1. CASE i < k
      <3>1. i \in 1..(k - 1)
        BY <1>1, <2>1
      <3> QED
        BY <1>2, <1>6, <2>1, <3>1
    <2>2. CASE ~(i < k)
      <3> DEFINE j == i - (k - 1)
      <3>1. j \in 1..(Len(s) - k) /\ (k - 1) + j = i /\ k + j = i + 1
        BY <1>1, <2>2
      <3> HIDE DEF j
      <3>2. t[Len(u) + j] = w[j] /\ w[j] = s[k + j]
        BY <1>3, <1>6, <3>1
      <3> QED
        BY <1>2, <2>2, <3>1, <3>2
    <2> QED
      BY <2>1, <2>2
  <1> QED
    BY <1>4, <1>6, <1>7, <1>8

\* The links q and y are those of p and x, but the neighbours of n lead past it.
Past(s, p, x, q, y, n) ==
  \A i \in 1..Len(s) :
    /\ q[s[i]] = (IF s[i] = x[n] THEN p[n] ELSE p[s[i]])
    /\ y[s[i]] = (IF s[i] = p[n] THEN x[n] ELSE x[s[i]])

\* The front g and the back c are f and b, moved if they were the node n.
Moved(f, b, p, x, g, c, n) == g = (IF f = n THEN x[n] ELSE f) /\ c = (IF b = n THEN p[n] ELSE b)

\* The same, but the node b is followed by the node g.
Joined(s, u, b, g, p, x, q, y) ==
  /\ y[b] = g /\ q[g] = b
  /\ \A m : In(s, m) \/ In(u, m) => (m # b => y[m] = x[m]) /\ (m # g => q[m] = p[m])

\* A node is taken out, and its neighbours are linked.
LEMMA ChainRemove ==
  ASSUME NEW s, NEW f, NEW b, NEW p, NEW x, NEW q, NEW y, NEW g, NEW c, NEW k \in 1..Len(s),
         Nodes(s), Chain(s, f, b, p, x),
         Moved(f, b, p, x, g, c, s[k]), Past(s, p, x, q, y, s[k])
  PROVE  /\ Nodes(List!RemoveAt(s, k)) /\ Len(List!RemoveAt(s, k)) = Len(s) - 1
         /\ Chain(List!RemoveAt(s, k), g, c, q, y)
         /\ \A m : In(List!RemoveAt(s, k), m) <=> In(s, m) /\ m # s[k]
  <1> DEFINE t == List!RemoveAt(s, k)  N == Len(s)
  <1>15. g = (IF f = s[k] THEN x[s[k]] ELSE f) /\ c = (IF b = s[k] THEN p[s[k]] ELSE b)
    BY DEF Moved
  <1>0. \A i \in 1..Len(s) :
          /\ q[s[i]] = (IF s[i] = x[s[k]] THEN p[s[k]] ELSE p[s[i]])
          /\ y[s[i]] = (IF s[i] = p[s[k]] THEN x[s[k]] ELSE x[s[i]])
    BY DEF Past
  <1>1. s \in Seq(Nat) /\ N \in Nat /\ k \in Nat /\ 1 <= k /\ k <= N
    BY LenProperties DEF Nodes
  <1>2. /\ t \in Seq(Nat) /\ Len(t) = N - 1
        /\ \A i \in 1..(N - 1) : t[i] = IF i < k THEN s[i] ELSE s[i + 1]
    BY <1>1, RemovedAt
  <1>3. t = <<>> <=> Len(t) = 0
    BY <1>2, EmptySeq
  <1>4. s # <<>>
    BY <1>1, EmptySeq
  <1> HIDE DEF t
  <1>5. /\ \A i, j \in 1..N : s[i] = s[j] => i = j
        /\ \A i \in 1..N : s[i] # 0
    BY DEF Nodes, Distinct
  <1>6. /\ \A i \in 1..N : p[s[i]] = (IF i = 1 THEN 0 ELSE s[i - 1]) /\ x[s[i]] = (IF i = N THEN 0 ELSE s[i + 1])
        /\ f = s[1] /\ b = s[N]
    BY <1>4 DEF Chain
  <1>7. \A i \in 1..N : (s[i] = x[s[k]] <=> i = k + 1) /\ (s[i] = p[s[k]] <=> i = k - 1)
    <2> SUFFICES ASSUME NEW i \in 1..N
                 PROVE  (s[i] = x[s[k]] <=> i = k + 1) /\ (s[i] = p[s[k]] <=> i = k - 1)
      OBVIOUS
    <2>1. CASE k = N
      <3>1. x[s[k]] = 0 /\ i # k + 1
        BY <1>1, <1>6, <2>1
      <3>2. k # 1 => p[s[k]] = s[k - 1] /\ k - 1 \in 1..N
        BY <1>1, <1>6
      <3>3. k = 1 => p[s[k]] = 0 /\ i # k - 1
        BY <1>6
      <3> QED
        BY <1>5, <3>1, <3>2, <3>3
    <2>2. CASE k # N
      <3>1. x[s[k]] = s[k + 1] /\ k + 1 \in 1..N
        BY <1>1, <1>6, <2>2
      <3>2. k # 1 => p[s[k]] = s[k - 1] /\ k - 1 \in 1..N
        BY <1>1, <1>6
      <3>3. k = 1 => p[s[k]] = 0 /\ i # k - 1
        BY <1>6
      <3> QED
        BY <1>5, <3>1, <3>2, <3>3
    <2> QED
      BY <2>1, <2>2
  <1>8. /\ \A i \in 1..(N - 1) : i < k => i \in 1..N /\ i # k
        /\ \A i \in 1..(N - 1) : ~(i < k) => i + 1 \in 1..N /\ i + 1 # k
    BY <1>1
  <1>9. Nodes(t)
    <2>1. \A i \in 1..Len(t) : t[i] # 0
      BY <1>2, <1>5, <1>8
    <2>2. ASSUME NEW i \in 1..Len(t), NEW j \in 1..Len(t), t[i] = t[j] PROVE i = j
      <3>1. CASE i < k /\ j < k
        BY <1>2, <1>5, <1>8, <2>2, <3>1
      <3>2. CASE i < k /\ ~(j < k)
        <4>1. i = j + 1
          BY <1>2, <1>5, <1>8, <2>2, <3>2
        <4> QED
          BY <1>1, <3>2, <4>1
      <3>3. CASE ~(i < k) /\ j < k
        <4>1. j = i + 1
          BY <1>2, <1>5, <1>8, <2>2, <3>3
        <4> QED
          BY <1>1, <3>3, <4>1
      <3>4. CASE ~(i < k) /\ ~(j < k)
        <4>1. i + 1 = j + 1
          <5>1. t[i] = s[i + 1] /\ t[j] = s[j + 1] /\ i + 1 \in 1..N /\ j + 1 \in 1..N
            BY <1>2, <1>8, <3>4
          <5> QED
            BY <1>5, <2>2, <5>1
        <4> QED
          BY <4>1
      <3> QED
        BY <3>1, <3>2, <3>3, <3>4
    <2> QED
      BY <1>2, <2>1, <2>2 DEF Nodes, Distinct
  <1>10. \A m : In(t, m) <=> In(s, m) /\ m # s[k]
    <2>1. ASSUME NEW m, In(t, m) PROVE In(s, m) /\ m # s[k]
      <3>1. PICK i \in 1..Len(t) : t[i] = m
        BY <2>1 DEF In
      <3>2. PICK j \in 1..N : s[j] = m /\ j # k
        BY <1>2, <1>8, <3>1
      <3> QED
        BY <1>5, <3>2 DEF In
    <2>2. ASSUME NEW m, In(s, m), m # s[k] PROVE In(t, m)
      <3>1. PICK j \in 1..N : s[j] = m
        BY <2>2 DEF In
      <3>2. CASE j < k
        <4>1. j \in 1..(N - 1)
          BY <1>1, <3>2
        <4> QED
          BY <1>2, <3>1, <3>2, <4>1 DEF In
      <3>3. CASE ~(j < k)
        <4>1. j - 1 \in 1..(N - 1) /\ ~(j - 1 < k) /\ (j - 1) + 1 = j
          <5>1. j # k
            BY <2>2, <3>1
          <5> QED
            BY <1>1, <3>3, <5>1
        <4>2. t[j - 1] = m
          BY <1>2, <3>1, <4>1
        <4> QED
          BY <1>2, <4>1, <4>2 DEF In
      <3> QED
        BY <3>2, <3>3
    <2> QED
      BY <2>1, <2>2
  <1>11. ASSUME NEW i \in 1..Len(t)
         PROVE  /\ q[t[i]] = (IF i = 1 THEN 0 ELSE t[i - 1])
                /\ y[t[i]] = (IF i = Len(t) THEN 0 ELSE t[i + 1])
    <2>1. CASE i < k
      <3>1. i \in 1..N /\ t[i] = s[i] /\ i # k + 1
        <4>1. i \in 1..(N - 1) /\ i # k + 1
          BY <1>1, <1>2, <2>1
        <4> QED
          BY <1>2, <1>8, <2>1, <4>1
      <3>2. q[t[i]] = (IF i = 1 THEN 0 ELSE s[i - 1])
        BY <1>0, <1>6, <1>7, <3>1
      <3>3. i # 1 => t[i - 1] = s[i - 1]
        <4>1. i # 1 => i - 1 \in 1..(N - 1) /\ i - 1 < k
          BY <1>1, <1>2, <2>1
        <4> QED
          BY <1>2, <4>1
      <3>4. CASE i = k - 1
        <4>1. y[t[i]] = x[s[k]]
          BY <1>0, <1>7, <3>1, <3>4
        <4>2. x[s[k]] = (IF k = N THEN 0 ELSE s[k + 1]) /\ (i = Len(t) <=> k = N)
          BY <1>1, <1>2, <1>6, <3>4
        <4>3. k # N => t[i + 1] = s[k + 1]
          <5>1. k # N => k \in 1..(N - 1) /\ ~(k < k) /\ i + 1 = k
            BY <1>1, <3>4
          <5>2. k # N => t[k] = s[k + 1]
            BY <1>2, <5>1
          <5> QED
            BY <5>1, <5>2
        <4> QED
          BY <3>2, <3>3, <4>1, <4>2, <4>3
      <3>5. CASE i # k - 1
        <4>1. y[t[i]] = (IF i = N THEN 0 ELSE s[i + 1])
          BY <1>0, <1>6, <1>7, <3>1, <3>5
        <4>2. i # N /\ i # Len(t) /\ i + 1 \in 1..(N - 1) /\ i + 1 < k
          <5>1. i \in Nat /\ 1 <= i /\ k \in Nat /\ k <= N /\ N \in Nat /\ Len(t) = N - 1 /\ i < k /\ i # k - 1
            BY <1>1, <1>2, <2>1, <3>5
          <5> HIDE DEF N
          <5>2. i + 1 < k
            BY <5>1
          <5> QED
            BY <5>1, <5>2
        <4>3. t[i + 1] = s[i + 1]
          BY <1>2, <4>2
        <4> QED
          BY <3>2, <3>3, <4>1, <4>2, <4>3
      <3> QED
        BY <3>4, <3>5
    <2>2. CASE ~(i < k)
      <3> DEFINE j == i + 1
      <3>1. j \in 1..N /\ t[i] = s[j] /\ j # k - 1 /\ j - 1 = i /\ j # 1
        <4>1. i \in 1..(N - 1) /\ j # k - 1 /\ j - 1 = i /\ j # 1
          BY <1>1, <1>2, <2>2
        <4> QED
          BY <1>2, <1>8, <2>2, <4>1
      <3>2. i = Len(t) <=> j = N
        BY <1>1, <1>2
      <3>3. j # N => t[i + 1] = s[j + 1]
        <4>1. j # N => j \in 1..(N - 1) /\ ~(j < k)
          BY <1>1, <2>2, <3>1
        <4> QED
          BY <1>2, <4>1
      <3>6. i # 1 /\ i # k => t[i - 1] = s[i]
        <4>1. i # 1 /\ i # k => i - 1 \in 1..(N - 1) /\ ~(i - 1 < k) /\ (i - 1) + 1 = i
          BY <1>1, <1>2, <2>2
        <4> QED
          BY <1>2, <4>1
      <3>7. i = k /\ i # 1 => t[i - 1] = s[k - 1]
        <4>1. i = k /\ i # 1 => i - 1 \in 1..(N - 1) /\ i - 1 < k
          BY <1>1, <1>2
        <4> QED
          BY <1>2, <4>1
      <3>8. i = 1 => i = k
        BY <1>1, <2>2
      <3> HIDE DEF j
      <3>4. y[s[j]] = (IF j = N THEN 0 ELSE s[j + 1])
        BY <1>0, <1>6, <1>7, <3>1
      <3>5. q[s[j]] = (IF j = k + 1 THEN (IF k = 1 THEN 0 ELSE s[k - 1]) ELSE s[j - 1])
        BY <1>0, <1>6, <1>7, <3>1
      <3>9. j = k + 1 <=> i = k
        BY <1>1 DEF j
      <3> QED
        BY <3>1, <3>2, <3>3, <3>4, <3>5, <3>6, <3>7, <3>8, <3>9 DEF j
    <2> QED
      BY <2>1, <2>2
  <1>12. g = (IF t = <<>> THEN 0 ELSE t[1])
    <2>0. 1 \in 1..N
      BY <1>1
    <2>1. CASE k = 1
      <3>1. g = (IF N = 1 THEN 0 ELSE s[2])
        <4>1. f = s[k] /\ x[s[k]] = (IF N = 1 THEN 0 ELSE s[2])
          <5>1. x[s[1]] = (IF 1 = N THEN 0 ELSE s[1 + 1])
            BY <1>6, <2>0
          <5> QED
            BY <1>6, <2>1, <5>1
        <4> QED
          BY <1>15, <4>1
      <3>2. N # 1 => 1 \in 1..(N - 1) /\ t[1] = s[2]
        BY <1>1, <1>2, <2>1
      <3> QED
        BY <1>1, <1>2, <1>3, <3>1, <3>2
    <2>2. CASE k # 1
      <3>1. g = s[1]
        BY <1>15, <1>5, <1>6, <2>0, <2>2
      <3>2. 1 \in 1..(N - 1) /\ 1 < k
        BY <1>1, <2>2
      <3>3. t[1] = s[1] /\ Len(t) # 0
        BY <1>2, <3>2
      <3> QED
        BY <1>3, <3>1, <3>3
    <2> QED
      BY <2>1, <2>2
  <1>13. c = (IF t = <<>> THEN 0 ELSE t[Len(t)])
    <2>0. N \in 1..N
      BY <1>1
    <2>1. CASE k = N
      <3>1. c = (IF N = 1 THEN 0 ELSE s[N - 1])
        BY <1>15, <1>6, <2>1
      <3>2. N # 1 => N - 1 \in 1..(N - 1) /\ N - 1 < k
        BY <1>1, <2>1
      <3>3. N # 1 => t[N - 1] = s[N - 1]
        BY <1>2, <3>2
      <3> QED
        <4>1. N = 1 => t = <<>>
          BY <1>2, <1>3
        <4>2. N # 1 => t # <<>> /\ Len(t) = N - 1
          BY <1>1, <1>2, <1>3
        <4> QED
          BY <3>1, <3>3, <4>1, <4>2
    <2>2. CASE k # N
      <3>1. c = s[N]
        BY <1>15, <1>5, <1>6, <2>0, <2>2
      <3>2. N - 1 \in 1..(N - 1) /\ ~(N - 1 < k) /\ (N - 1) + 1 = N /\ N - 1 # 0
        <4>1. N \in Nat /\ k \in Nat /\ 1 <= k /\ k < N
          BY <1>1, <2>2
        <4> HIDE DEF N
        <4>2. N - 1 \in Nat /\ 1 <= N - 1 /\ k <= N - 1
          BY <4>1
        <4> QED
          BY <4>1, <4>2
      <3>3. t[N - 1] = s[N]
        BY <1>2, <3>2
      <3> QED
        BY <1>2, <1>3, <3>1, <3>2, <3>3
    <2> QED
      BY <2>1, <2>2
  <1>14. Chain(t, g, c, q, y)
    BY <1>11, <1>12, <1>13 DEF Chain
  <1> QED
    BY <1>2, <1>9, <1>10, <1>14 DEF t

\* A list is put behind another one.
LEMMA ChainConcat ==
  ASSUME NEW s, NEW f, NEW b, NEW u, NEW g, NEW c, NEW p, NEW x, NEW q, NEW y,
         Nodes(s), Nodes(u), Chain(s, f, b, p, x), Chain(u, g, c, p, x),
         \A m : ~(In(s, m) /\ In(u, m)),
         s # <<>>, u # <<>>, Joined(s, u, b, g, p, x, q, y)
  PROVE  /\ Nodes(s \o u) /\ Len(s \o u) = Len(s) + Len(u) /\ Chain(s \o u, f, c, q, y)
         /\ \A m : In(s \o u, m) <=> In(s, m) \/ In(u, m)
  <1> DEFINE t == s \o u  N == Len(s)  M == Len(u)
  <1>0. /\ y[b] = g /\ q[g] = b
        /\ \A m : In(s, m) \/ In(u, m) => (m # b => y[m] = x[m]) /\ (m # g => q[m] = p[m])
    BY DEF Joined
  <1>1. s \in Seq(Nat) /\ u \in Seq(Nat)
    BY DEF Nodes
  <1>2. N \in Nat /\ M \in Nat /\ N # 0 /\ M # 0
    BY <1>1, LenProperties, EmptySeq
  <1>3. /\ t \in Seq(Nat) /\ Len(t) = N + M
        /\ \A i \in 1..N : t[i] = s[i] /\ In(s, s[i])
        /\ \A i \in 1..M : t[N + i] = u[i] /\ In(u, u[i])
    <2>1. /\ t \in Seq(Nat) /\ Len(t) = N + M
          /\ \A i \in 1..N : t[i] = s[i]
          /\ \A i \in 1..M : t[N + i] = u[i]
      BY <1>1, ConcatAt
    <2> QED
      BY <2>1 DEF In
  <1> HIDE DEF t
  <1>4. \A i \in 1..Len(t) : i \in 1..N \/ (i - N \in 1..M /\ N + (i - N) = i)
    BY <1>2, <1>3
  <1>14. \A i \in 1..Len(t) :
           \/ i \in 1..N /\ t[i] = s[i]
           \/ \E j \in 1..M : i = N + j /\ t[i] = u[j]
    <2> SUFFICES ASSUME NEW i \in 1..Len(t), i \notin 1..N
                 PROVE  \E j \in 1..M : i = N + j /\ t[i] = u[j]
      BY <1>3
    <2> DEFINE j == i - N
    <2>1. j \in 1..M /\ i = N + j
      BY <1>4
    <2> HIDE DEF j
    <2> QED
      BY <1>3, <2>1
  <1>5. t # <<>>
    BY <1>2, <1>3
  <1>6. /\ \A i, j \in 1..N : s[i] = s[j] => i = j
        /\ \A i \in 1..N : s[i] # 0
        /\ \A i, j \in 1..M : u[i] = u[j] => i = j
        /\ \A i \in 1..M : u[i] # 0
        /\ \A i \in 1..N, j \in 1..M : s[i] # u[j]
    BY DEF Nodes, Distinct, In
  <1>7. /\ \A i \in 1..N : p[s[i]] = (IF i = 1 THEN 0 ELSE s[i - 1]) /\ x[s[i]] = (IF i = N THEN 0 ELSE s[i + 1])
        /\ f = s[1] /\ b = s[N]
    BY DEF Chain
  <1>8. /\ \A i \in 1..M : p[u[i]] = (IF i = 1 THEN 0 ELSE u[i - 1]) /\ x[u[i]] = (IF i = M THEN 0 ELSE u[i + 1])
        /\ g = u[1] /\ c = u[M]
    BY DEF Chain
  <1>9. Nodes(t)
    <2> HIDE DEF N, M
    <2>3. /\ \A i \in 1..N : s[i] # 0 /\ \A j \in 1..N : s[i] = s[j] => i = j
          /\ \A i \in 1..M : u[i] # 0 /\ \A j \in 1..M : u[i] = u[j] => i = j
      BY <1>6
    <2>4. \A i \in 1..N : \A j \in 1..M : s[i] # u[j]
      BY <1>6
    <2>1. \A i \in 1..Len(t) : t[i] # 0
      BY <1>14, <2>3
    <2>2. ASSUME NEW i \in 1..Len(t), NEW j \in 1..Len(t), t[i] = t[j] PROVE i = j
      <3>1. CASE i \in 1..N /\ t[i] = s[i]
        <4>1. j \in 1..N /\ t[j] = s[j]
          BY <1>14, <2>2, <2>4, <3>1
        <4> QED
          BY <2>2, <2>3, <3>1, <4>1
      <3>2. CASE \E k \in 1..M : i = N + k /\ t[i] = u[k]
        <4>1. PICK k \in 1..M : i = N + k /\ t[i] = u[k]
          BY <3>2
        <4>2. PICK l \in 1..M : j = N + l /\ t[j] = u[l]
          BY <1>14, <2>2, <2>4, <4>1
        <4> QED
          BY <2>2, <2>3, <4>1, <4>2
      <3> QED
        BY <1>14, <3>1, <3>2
    <2> QED
      BY <1>3, <2>1, <2>2 DEF Nodes, Distinct
  <1>10. \A m : In(t, m) <=> In(s, m) \/ In(u, m)
    <2>1. ASSUME NEW m, In(t, m) PROVE In(s, m) \/ In(u, m)
      <3>1. PICK i \in 1..Len(t) : t[i] = m
        BY <2>1 DEF In
      <3> QED
        BY <1>3, <1>14, <3>1
    <2>2. ASSUME NEW m, In(s, m) PROVE In(t, m)
      <3>1. PICK i \in 1..N : s[i] = m
        BY <2>2 DEF In
      <3>2. i \in 1..Len(t) /\ t[i] = m
        BY <1>2, <1>3, <3>1
      <3> QED
        BY <3>2 DEF In
    <2>3. ASSUME NEW m, In(u, m) PROVE In(t, m)
      <3>1. PICK i \in 1..M : u[i] = m
        BY <2>3 DEF In
      <3>2. N + i \in 1..Len(t) /\ t[N + i] = m
        BY <1>2, <1>3, <3>1
      <3> QED
        BY <3>2 DEF In
    <2> QED
      BY <2>1, <2>2, <2>3
  <1>11. ASSUME NEW i \in 1..Len(t)
         PROVE  /\ q[t[i]] = (IF i = 1 THEN 0 ELSE t[i - 1])
                /\ y[t[i]] = (IF i = Len(t) THEN 0 ELSE t[i + 1])
    <2>1. CASE i \in 1..N
      <3>0. N \in 1..N /\ 1 \in 1..M
        BY <1>2
      <3>1. t[i] = s[i] /\ i # Len(t) /\ s[i] # g
        BY <1>2, <1>3, <1>6, <1>8, <2>1, <3>0
      <3>2. q[s[i]] = (IF i = 1 THEN 0 ELSE s[i - 1])
        <4>1. q[s[i]] = p[s[i]]
          BY <1>0, <1>3, <2>1, <3>1
        <4> QED
          BY <1>7, <2>1, <4>1
      <3>3. i # 1 => i - 1 \in 1..N
        BY <1>2, <2>1
      <3>4. CASE i = N
        <4>1. s[i] = b /\ t[N + 1] = u[1]
          BY <1>3, <1>7, <3>0, <3>4
        <4> QED
          BY <1>0, <1>3, <1>8, <3>1, <3>2, <3>3, <3>4, <4>1
      <3>5. CASE i # N
        <4>1. s[i] # b /\ i + 1 \in 1..N
          BY <1>2, <1>6, <1>7, <2>1, <3>0, <3>5
        <4>2. y[s[i]] = s[i + 1]
          <5>1. y[s[i]] = x[s[i]]
            BY <1>0, <1>3, <2>1, <4>1
          <5> QED
            BY <1>7, <2>1, <3>5, <5>1
        <4> QED
          BY <1>3, <3>1, <3>2, <3>3, <4>1, <4>2
      <3> QED
        BY <3>4, <3>5
    <2>2. CASE i - N \in 1..M /\ N + (i - N) = i
      <3> DEFINE j == i - N
      <3>0. N \in 1..N /\ 1 \in 1..M
        BY <1>2
      <3>1. j \in 1..M /\ N + j = i /\ i # 1 /\ (i = Len(t) <=> j = M) /\ (j # M => j + 1 \in 1..M /\ N + (j + 1) = i + 1)
            /\ (j # 1 => j - 1 \in 1..M /\ N + (j - 1) = i - 1) /\ (j = 1 => i - 1 = N)
        <4>1. j \in 1..M /\ N + j = i /\ j \in Nat /\ 1 <= j /\ Len(t) = N + M
          BY <1>2, <1>3, <2>2
        <4> HIDE DEF j, N, M
        <4>2. i # 1 /\ (i = Len(t) <=> j = M) /\ (j = 1 => i - 1 = N)
          BY <1>2, <4>1
        <4>3. j # M => j + 1 \in 1..M /\ N + (j + 1) = i + 1
          BY <1>2, <4>1
        <4>4. j # 1 => j - 1 \in 1..M /\ N + (j - 1) = i - 1
          BY <1>2, <4>1
        <4> QED
          BY <4>1, <4>2, <4>3, <4>4
      <3> HIDE DEF j
      <3>2. t[i] = u[j] /\ u[j] # b
        BY <1>3, <1>6, <1>7, <3>0, <3>1
      <3>3. y[u[j]] = (IF j = M THEN 0 ELSE u[j + 1])
        <4>1. y[u[j]] = x[u[j]]
          BY <1>0, <1>3, <3>1, <3>2
        <4> QED
          BY <1>8, <3>1, <4>1
      <3>4. j # M => t[i + 1] = u[j + 1]
        BY <1>3, <3>1
      <3>5. q[u[j]] = t[i - 1]
        <4>1. CASE j = 1
          BY <1>0, <1>3, <1>7, <1>8, <3>0, <3>1, <4>1
        <4>2. CASE j # 1
          <5>1. u[j] # g
            BY <1>6, <1>8, <3>0, <3>1, <4>2
          <5>2. q[u[j]] = u[j - 1] /\ t[i - 1] = u[j - 1]
            <6>1. q[u[j]] = p[u[j]] /\ p[u[j]] = u[j - 1]
              BY <1>0, <1>3, <1>8, <3>1, <4>2, <5>1
            <6>2. t[N + (j - 1)] = u[j - 1]
              BY <1>3, <3>1, <4>2
            <6> QED
              BY <3>1, <4>2, <6>1, <6>2
          <5> QED
            BY <5>2
        <4> QED
          BY <4>1, <4>2
      <3> QED
        BY <3>1, <3>2, <3>3, <3>4, <3>5
    <2> QED
      BY <1>4, <2>1, <2>2
  <1>12. f = t[1] /\ c = t[Len(t)]
    <2>1. 1 \in 1..N /\ M \in 1..M
      BY <1>2
    <2> QED
      BY <1>3, <1>7, <1>8, <2>1
  <1>13. Chain(t, f, c, q, y)
    BY <1>5, <1>11, <1>12 DEF Chain
  <1> QED
    BY <1>3, <1>9, <1>10, <1>13 DEF t

TwoLists == {"list_", "added_"}

\* The types.
ListTypes ==
  /\ v1 \in [TwoLists -> Nat] /\ v2 \in [TwoLists -> Nat] /\ v3 \in [TwoLists -> Nat]
  /\ v4 \in [1..MaxNodes -> Nat] /\ v5 \in [1..MaxNodes -> Nat]
  /\ v7 \in 0..MaxNodes /\ DOMAIN v9 = TwoLists /\ v10 \in [TwoLists -> Nat]

\* A node that was not made yet has no links.
ListFresh == \A n \in 1..MaxNodes : n > v7 => v4[n] = 0 /\ v5[n] = 0

\* The links of list l are those of the sequence it stands for.
ListChain(l) ==
  /\ Nodes(v9[l]) /\ \A n : In(v9[l], n) => n \in 1..v7
  /\ Chain(v9[l], v1[l], v2[l], v4, v5)
  /\ v3[l] = Len(v9[l]) + v10[l]

\* No node is in two lists, and those in one are those that live.
ListHeap ==
  /\ \A n : ~(In(v9["list_"], n) /\ In(v9["added_"], n))
  /\ \A n : n \in v6 <=> In(v9["list_"], n) \/ In(v9["added_"], n)
  /\ v8 = 0 \/ v8 \in v6

\* The inductive invariant of the lists.
ListInv == ListTypes /\ ListFresh /\ ListChain("list_") /\ ListChain("added_") /\ ListHeap

\* Two empty lists.
LEMMA ListStart ==
  ASSUME List!Init
  PROVE  ListInv
  <1>1. /\ v1 = [l \in TwoLists |-> 0] /\ v2 = [l \in TwoLists |-> 0] /\ v3 = [l \in TwoLists |-> 0]
        /\ v4 = [n \in 1..MaxNodes |-> 0] /\ v5 = [n \in 1..MaxNodes |-> 0]
        /\ v6 = {} /\ v7 = 0 /\ v8 = 0 /\ v9 = [l \in TwoLists |-> <<>>] /\ v10 = [l \in TwoLists |-> 0]
    BY DEF List!Init, List!Lists, List!NULL, List!Nodes, TwoLists
  <1>2. ListTypes /\ ListFresh
    BY <1>1, BoundsAssumption DEF ListTypes, ListFresh
  <1>3. \A l \in TwoLists : v9[l] = <<>> /\ v1[l] = 0 /\ v2[l] = 0 /\ v3[l] = 0 /\ v10[l] = 0
    BY <1>1
  <1>4. <<>> \in Seq(Nat) /\ Len(<<>>) = 0
    OBVIOUS
  <1>5. \A n : ~In(<<>>, n)
    BY DEF In
  <1>6. Nodes(<<>>) /\ Chain(<<>>, 0, 0, v4, v5)
    BY <1>4 DEF Nodes, Distinct, Chain
  <1>7. \A l \in TwoLists : ListChain(l)
    BY <1>3, <1>4, <1>5, <1>6 DEF ListChain
  <1>8. ListHeap
    BY <1>1, <1>3, <1>5 DEF ListHeap, TwoLists
  <1> QED
    BY <1>2, <1>7, <1>8 DEF ListInv, TwoLists

\* What is known of a list and of the other one.
LEMMA ListParts ==
  ASSUME ListInv, NEW l \in TwoLists
  PROVE  /\ ListChain(l) /\ ListChain(List!Other(l)) /\ List!Other(l) \in TwoLists /\ List!Other(l) # l
         /\ \A n : ~(In(v9[l], n) /\ In(v9[List!Other(l)], n))
         /\ \A n : n \in v6 <=> In(v9[l], n) \/ In(v9[List!Other(l)], n)
         /\ v8 = 0 \/ v8 \in v6
  <1>1. CASE l = "list_"
    <2>1. List!Other(l) = "added_"
      BY <1>1 DEF List!Other
    <2> QED
      BY <1>1, <2>1 DEF ListInv, ListHeap, TwoLists
  <1>2. CASE l = "added_"
    <2>1. List!Other(l) = "list_"
      BY <1>2 DEF List!Other
    <2> QED
      BY <1>2, <2>1 DEF ListInv, ListHeap, TwoLists
  <1> QED
    BY <1>1, <1>2 DEF TwoLists

\* The invariant from its parts.
LEMMA ListWhole ==
  ASSUME NEW l \in TwoLists, ListTypes', ListFresh', ListChain(l)', ListChain(List!Other(l))',
         \A n : ~(In(v9'[l], n) /\ In(v9'[List!Other(l)], n)),
         \A n : n \in v6' <=> In(v9'[l], n) \/ In(v9'[List!Other(l)], n),
         v8' = 0 \/ v8' \in v6'
  PROVE  ListInv'
  <1>1. CASE l = "list_"
    <2>1. List!Other(l) = "added_"
      BY <1>1 DEF List!Other
    <2> QED
      BY <1>1, <2>1 DEF ListInv, ListHeap
  <1>2. CASE l = "added_"
    <2>1. List!Other(l) = "list_"
      BY <1>2 DEF List!Other
    <2> QED
      BY <1>2, <2>1 DEF ListInv, ListHeap
  <1> QED
    BY <1>1, <1>2 DEF TwoLists

\* The front is NULL exactly if the list is empty.
LEMMA ListFront ==
  ASSUME NEW l, ListChain(l)
  PROVE  /\ v1[l] = 0 <=> v9[l] = <<>>
         /\ v9[l] = <<>> => v2[l] = 0 /\ \A n : ~In(v9[l], n)
         /\ v9[l] # <<>> => In(v9[l], v1[l]) /\ In(v9[l], v2[l])
         /\ Len(v9[l]) \in Nat
         /\ \A i \in 1..Len(v9[l]) : v9[l][i] \in 1..v7 /\ In(v9[l], v9[l][i])
  <1> DEFINE s == v9[l]
  <1>1. s \in Seq(Nat) /\ \A i \in 1..Len(s) : s[i] # 0
    BY DEF ListChain, Nodes
  <1>2. Len(s) \in Nat /\ (s = <<>> <=> Len(s) = 0)
    BY <1>1, LenProperties, EmptySeq
  <1>3. s # <<>> => 1 \in 1..Len(s) /\ Len(s) \in 1..Len(s)
    BY <1>2
  <1>4. v1[l] = (IF s = <<>> THEN 0 ELSE s[1]) /\ v2[l] = (IF s = <<>> THEN 0 ELSE s[Len(s)])
    BY DEF ListChain, Chain
  <1> HIDE DEF s
  <1>5. \A i \in 1..Len(s) : In(s, s[i])
    BY DEF In
  <1>6. /\ v1[l] = 0 <=> s = <<>>
        /\ s # <<>> => In(s, v1[l]) /\ In(s, v2[l])
    BY <1>1, <1>3, <1>4, <1>5
  <1>7. s = <<>> => v2[l] = 0 /\ \A n : ~In(s, n)
    BY <1>2, <1>4 DEF In
  <1>8. \A n : In(s, n) => n \in 1..v7
    BY DEF ListChain, s
  <1> QED
    BY <1>2, <1>5, <1>6, <1>7, <1>8 DEF s

\* push_back.
LEMMA ListPushBack ==
  ASSUME ListInv, NEW l \in TwoLists, List!push_back(l)
  PROVE  ListInv'
  <1> DEFINE n == v7 + 1  o == List!Other(l)  s == v9[l]
  <1>1. /\ ListChain(l) /\ ListChain(o) /\ o \in TwoLists /\ o # l
        /\ \A m : ~(In(s, m) /\ In(v9[o], m))
        /\ \A m : m \in v6 <=> In(s, m) \/ In(v9[o], m)
        /\ v8 = 0 \/ v8 \in v6
    BY ListParts
  <1>2. /\ n \in 1..MaxNodes /\ v7' = n /\ v6' = v6 \cup {n} /\ v2' = [v2 EXCEPT ![l] = n]
        /\ v3' = [v3 EXCEPT ![l] = @ + 1] /\ v9' = [v9 EXCEPT ![l] = Append(@, n)]
        /\ v8' = v8 /\ v10' = v10
        /\ \/ v1[l] # 0 /\ v4' = [v4 EXCEPT ![n] = v2[l]] /\ v5' = [v5 EXCEPT ![v2[l]] = n] /\ v1' = v1
           \/ v1[l] = 0 /\ v1' = [v1 EXCEPT ![l] = n] /\ v4' = v4 /\ v5' = v5
    BY DEF List!push_back, List!New, List!NULL, List!Nodes
  <1>3. ListTypes /\ ListFresh
    BY DEF ListInv
  <1>4. /\ v7 \in Nat /\ n \in Nat \ {0} /\ n \notin 1..v7 /\ n > v7 /\ 1..v7 \subseteq 1..n /\ n \in 1..n
        /\ 1..v7 \subseteq 1..MaxNodes /\ \A m \in 1..MaxNodes : m > n => m > v7 /\ m # n /\ m \notin 1..v7
    <2>1. v7 \in 0..MaxNodes /\ MaxNodes \in Nat
      BY <1>3, BoundsAssumption DEF ListTypes
    <2> QED
      BY <2>1
  <1>5. v4[n] = 0 /\ v5[n] = 0
    BY <1>2, <1>3, <1>4 DEF ListFresh
  <1> HIDE DEF n, o, s
  <1>6. /\ v1[l] = 0 <=> s = <<>>
        /\ s = <<>> => v2[l] = 0 /\ \A m : ~In(s, m)
        /\ s # <<>> => In(s, v1[l]) /\ In(s, v2[l])
        /\ Len(s) \in Nat
        /\ \A i \in 1..Len(s) : s[i] \in 1..v7 /\ In(s, s[i])
    BY <1>1, ListFront DEF s
  <1>7. /\ Nodes(s) /\ Chain(s, v1[l], v2[l], v4, v5) /\ \A m : In(s, m) => m \in 1..v7
    BY <1>1 DEF ListChain, s
  <1>8. /\ Nodes(v9[o]) /\ Chain(v9[o], v1[o], v2[o], v4, v5) /\ (\A m : In(v9[o], m) => m \in 1..v7)
        /\ v3[o] = Len(v9[o]) + v10[o]
    BY <1>1 DEF ListChain
  <1>9. /\ v1 \in [TwoLists -> Nat] /\ v2 \in [TwoLists -> Nat] /\ v3 \in [TwoLists -> Nat]
        /\ v4 \in [1..MaxNodes -> Nat] /\ v5 \in [1..MaxNodes -> Nat] /\ DOMAIN v9 = TwoLists
        /\ v10 \in [TwoLists -> Nat]
    BY <1>3 DEF ListTypes
  <1>10. s # <<>> => v2[l] \in 1..v7 /\ v2[l] \in 1..MaxNodes /\ v2[l] # n /\ v2[l] \in Nat
    BY <1>4, <1>6, <1>7
  <1>11. /\ v4' \in [1..MaxNodes -> Nat] /\ v5' \in [1..MaxNodes -> Nat]
         /\ v4'[n] = v2[l] /\ v5'[n] = 0 /\ (s # <<>> => v5'[v2[l]] = n)
         /\ \A m \in 1..MaxNodes : m # n => v4'[m] = v4[m] /\ (s = <<>> \/ m # v2[l] => v5'[m] = v5[m])
    <2>1. CASE s = <<>>
      BY <1>2, <1>5, <1>6, <1>9, <2>1
    <2>2. CASE s # <<>>
      <3>1. v4' = [v4 EXCEPT ![n] = v2[l]] /\ v5' = [v5 EXCEPT ![v2[l]] = n] /\ n \in 1..MaxNodes /\ n \in Nat
        BY <1>2, <1>4, <1>6, <2>2
      <3>2. v4' \in [1..MaxNodes -> Nat] /\ v4'[n] = v2[l] /\ \A m \in 1..MaxNodes : m # n => v4'[m] = v4[m]
        BY <1>9, <1>10, <2>2, <3>1
      <3>3. v5' \in [1..MaxNodes -> Nat] /\ v5'[v2[l]] = n /\ \A m \in 1..MaxNodes : m # v2[l] => v5'[m] = v5[m]
        BY <1>9, <1>10, <2>2, <3>1
      <3> QED
        BY <1>5, <1>10, <2>2, <3>1, <3>2, <3>3
    <2> QED
      BY <2>1, <2>2
  <1>12. /\ v9'[l] = Append(s, n) /\ v9'[o] = v9[o] /\ DOMAIN v9' = TwoLists
         /\ v1'[l] = (IF s = <<>> THEN n ELSE v1[l]) /\ v1'[o] = v1[o] /\ v1' \in [TwoLists -> Nat]
         /\ v2'[l] = n /\ v2'[o] = v2[o] /\ v2' \in [TwoLists -> Nat]
         /\ v3'[l] = v3[l] + 1 /\ v3'[o] = v3[o] /\ v3' \in [TwoLists -> Nat]
    <2>1. v9'[l] = Append(s, n) /\ v9'[o] = v9[o] /\ DOMAIN v9' = TwoLists
      BY <1>1, <1>2, <1>9 DEF s
    <2>2. v1'[l] = (IF s = <<>> THEN n ELSE v1[l]) /\ v1'[o] = v1[o] /\ v1' \in [TwoLists -> Nat]
      <3>1. CASE s = <<>>
        <4>1. v1' = [v1 EXCEPT ![l] = n]
          BY <1>2, <1>6, <3>1
        <4> QED
          BY <1>1, <1>4, <1>9, <3>1, <4>1
      <3>2. CASE s # <<>>
        <4>1. v1' = v1
          BY <1>2, <1>6, <3>2
        <4> QED
          BY <1>9, <3>2, <4>1
      <3> QED
        BY <3>1, <3>2
    <2>3. v2'[l] = n /\ v2'[o] = v2[o] /\ v2' \in [TwoLists -> Nat]
      BY <1>1, <1>2, <1>4, <1>9
    <2>4. v3'[l] = v3[l] + 1 /\ v3'[o] = v3[o] /\ v3' \in [TwoLists -> Nat]
      BY <1>1, <1>2, <1>9
    <2> QED
      BY <2>1, <2>2, <2>3, <2>4
  <1>13. ~In(s, n) /\ ~In(v9[o], n)
    BY <1>4, <1>7, <1>8
  <1>14. /\ Nodes(Append(s, n)) /\ Len(Append(s, n)) = Len(s) + 1
         /\ Chain(Append(s, n), IF s = <<>> THEN n ELSE v1[l], n, v4', v5')
         /\ \A m : In(Append(s, n), m) <=> In(s, m) \/ m = n
    <2>1. \A i \in 1..Len(s) : v4'[s[i]] = v4[s[i]] /\ (s[i] # v2[l] => v5'[s[i]] = v5[s[i]])
      BY <1>4, <1>6, <1>11
    <2>2. /\ n \in Nat \ {0} /\ Nodes(s) /\ Chain(s, v1[l], v2[l], v4, v5) /\ ~In(s, n)
      BY <1>4, <1>7, <1>13
    <2>3. Behind(s, v2[l], v4, v5, v4', v5', n)
      BY <1>11, <2>1 DEF Behind
    <2> QED
      BY <2>2, <2>3, ChainAppend
  <1>15. ListChain(l)'
    <2>1. v3'[l] = Len(Append(s, n)) + v10[l]
      <3>1. v3[l] = Len(s) + v10[l] /\ v10[l] \in Nat
        BY <1>1, <1>9 DEF ListChain, s
      <3>2. Len(s) \in Nat /\ v3'[l] = v3[l] + 1 /\ Len(Append(s, n)) = Len(s) + 1
        BY <1>6, <1>12, <1>14
      <3>3. (Len(s) + v10[l]) + 1 = (Len(s) + 1) + v10[l]
        BY <3>1, <3>2
      <3> QED
        BY <3>1, <3>2, <3>3
    <2>2. \A m : In(Append(s, n), m) => m \in 1..n
      BY <1>4, <1>7, <1>14
    <2> QED
      BY <1>2, <1>12, <1>14, <2>1, <2>2 DEF ListChain
  <1>16. ListChain(o)'
    <2>1. SameLinks(v9[o], v4, v5, v4', v5')
      <3> SUFFICES ASSUME NEW i \in 1..Len(v9[o])
                   PROVE  v4'[v9[o][i]] = v4[v9[o][i]] /\ v5'[v9[o][i]] = v5[v9[o][i]]
        BY DEF SameLinks
      <3>1. In(v9[o], v9[o][i])
        BY DEF In
      <3>2. v9[o][i] \in 1..MaxNodes /\ v9[o][i] # n /\ (s # <<>> => v9[o][i] # v2[l])
        BY <1>1, <1>4, <1>6, <1>8, <1>13, <3>1
      <3> QED
        BY <1>11, <3>2
    <2>2. Chain(v9[o], v1[o], v2[o], v4', v5')
      BY <1>8, <2>1, ChainSame
    <2>3. \A m : In(v9[o], m) => m \in 1..n
      BY <1>4, <1>8
    <2> QED
      BY <1>2, <1>8, <1>12, <2>2, <2>3 DEF ListChain
  <1>17. ListTypes' /\ ListFresh'
    <2>1. n \in 0..MaxNodes
      BY <1>2, BoundsAssumption
    <2>2. ListTypes'
      BY <1>2, <1>9, <1>11, <1>12, <2>1 DEF ListTypes
    <2>3. ListFresh'
      BY <1>2, <1>3, <1>4, <1>10, <1>11 DEF ListFresh
    <2> QED
      BY <2>2, <2>3
  <1>18. /\ \A m : ~(In(v9'[l], m) /\ In(v9'[o], m))
         /\ \A m : m \in v6' <=> In(v9'[l], m) \/ In(v9'[o], m)
         /\ v8' = 0 \/ v8' \in v6'
    BY <1>1, <1>2, <1>12, <1>13, <1>14
  <1> QED
    BY <1>15, <1>16, <1>17, <1>18, ListWhole DEF o

\* push_front.
LEMMA ListPushFront ==
  ASSUME ListInv, NEW l \in TwoLists, List!push_front(l)
  PROVE  ListInv'
  <1> DEFINE n == v7 + 1  o == List!Other(l)  s == v9[l]
  <1>1. /\ ListChain(l) /\ ListChain(o) /\ o \in TwoLists /\ o # l
        /\ \A m : ~(In(s, m) /\ In(v9[o], m))
        /\ \A m : m \in v6 <=> In(s, m) \/ In(v9[o], m)
        /\ v8 = 0 \/ v8 \in v6
    BY ListParts
  <1>2. /\ n \in 1..MaxNodes /\ v7' = n /\ v6' = v6 \cup {n} /\ v1' = [v1 EXCEPT ![l] = n]
        /\ v3' = [v3 EXCEPT ![l] = @ + 1] /\ v9' = [v9 EXCEPT ![l] = <<n>> \o @]
        /\ v8' = v8 /\ v10' = v10
        /\ \/ v1[l] # 0 /\ v5' = [v5 EXCEPT ![n] = v1[l]] /\ v4' = [v4 EXCEPT ![v1[l]] = n] /\ v2' = v2
           \/ v1[l] = 0 /\ v2' = [v2 EXCEPT ![l] = n] /\ v5' = v5 /\ v4' = v4
    BY DEF List!push_front, List!New, List!NULL, List!Nodes
  <1>3. ListTypes /\ ListFresh
    BY DEF ListInv
  <1>4. /\ v7 \in Nat /\ n \in Nat \ {0} /\ n \notin 1..v7 /\ n > v7 /\ 1..v7 \subseteq 1..n /\ n \in 1..n
        /\ 1..v7 \subseteq 1..MaxNodes /\ \A m \in 1..MaxNodes : m > n => m > v7 /\ m # n /\ m \notin 1..v7
    <2>1. v7 \in 0..MaxNodes /\ MaxNodes \in Nat
      BY <1>3, BoundsAssumption DEF ListTypes
    <2> QED
      BY <2>1
  <1>5. v5[n] = 0 /\ v4[n] = 0
    BY <1>2, <1>3, <1>4 DEF ListFresh
  <1> HIDE DEF n, o, s
  <1>6. /\ v1[l] = 0 <=> s = <<>>
        /\ s = <<>> => v1[l] = 0 /\ \A m : ~In(s, m)
        /\ s # <<>> => In(s, v2[l]) /\ In(s, v1[l])
        /\ Len(s) \in Nat
        /\ \A i \in 1..Len(s) : s[i] \in 1..v7 /\ In(s, s[i])
    BY <1>1, ListFront DEF s
  <1>7. /\ Nodes(s) /\ Chain(s, v1[l], v2[l], v4, v5) /\ \A m : In(s, m) => m \in 1..v7
    BY <1>1 DEF ListChain, s
  <1>8. /\ Nodes(v9[o]) /\ Chain(v9[o], v1[o], v2[o], v4, v5) /\ (\A m : In(v9[o], m) => m \in 1..v7)
        /\ v3[o] = Len(v9[o]) + v10[o]
    BY <1>1 DEF ListChain
  <1>9. /\ v2 \in [TwoLists -> Nat] /\ v1 \in [TwoLists -> Nat] /\ v3 \in [TwoLists -> Nat]
        /\ v5 \in [1..MaxNodes -> Nat] /\ v4 \in [1..MaxNodes -> Nat] /\ DOMAIN v9 = TwoLists
        /\ v10 \in [TwoLists -> Nat]
    BY <1>3 DEF ListTypes
  <1>10. s # <<>> => v1[l] \in 1..v7 /\ v1[l] \in 1..MaxNodes /\ v1[l] # n /\ v1[l] \in Nat
    BY <1>4, <1>6, <1>7
  <1>11. /\ v5' \in [1..MaxNodes -> Nat] /\ v4' \in [1..MaxNodes -> Nat]
         /\ v5'[n] = v1[l] /\ v4'[n] = 0 /\ (s # <<>> => v4'[v1[l]] = n)
         /\ \A m \in 1..MaxNodes : m # n => v5'[m] = v5[m] /\ (s = <<>> \/ m # v1[l] => v4'[m] = v4[m])
    <2>1. CASE s = <<>>
      BY <1>2, <1>5, <1>6, <1>9, <2>1
    <2>2. CASE s # <<>>
      <3>1. v5' = [v5 EXCEPT ![n] = v1[l]] /\ v4' = [v4 EXCEPT ![v1[l]] = n] /\ n \in 1..MaxNodes /\ n \in Nat
        BY <1>2, <1>4, <1>6, <2>2
      <3>2. v5' \in [1..MaxNodes -> Nat] /\ v5'[n] = v1[l] /\ \A m \in 1..MaxNodes : m # n => v5'[m] = v5[m]
        BY <1>9, <1>10, <2>2, <3>1
      <3>3. v4' \in [1..MaxNodes -> Nat] /\ v4'[v1[l]] = n /\ \A m \in 1..MaxNodes : m # v1[l] => v4'[m] = v4[m]
        BY <1>9, <1>10, <2>2, <3>1
      <3> QED
        BY <1>5, <1>10, <2>2, <3>1, <3>2, <3>3
    <2> QED
      BY <2>1, <2>2
  <1>12. /\ v9'[l] = <<n>> \o s /\ v9'[o] = v9[o] /\ DOMAIN v9' = TwoLists
         /\ v2'[l] = (IF s = <<>> THEN n ELSE v2[l]) /\ v2'[o] = v2[o] /\ v2' \in [TwoLists -> Nat]
         /\ v1'[l] = n /\ v1'[o] = v1[o] /\ v1' \in [TwoLists -> Nat]
         /\ v3'[l] = v3[l] + 1 /\ v3'[o] = v3[o] /\ v3' \in [TwoLists -> Nat]
    <2>1. v9'[l] = <<n>> \o s /\ v9'[o] = v9[o] /\ DOMAIN v9' = TwoLists
      BY <1>1, <1>2, <1>9 DEF s
    <2>2. v2'[l] = (IF s = <<>> THEN n ELSE v2[l]) /\ v2'[o] = v2[o] /\ v2' \in [TwoLists -> Nat]
      <3>1. CASE s = <<>>
        <4>1. v2' = [v2 EXCEPT ![l] = n]
          BY <1>2, <1>6, <3>1
        <4> QED
          BY <1>1, <1>4, <1>9, <3>1, <4>1
      <3>2. CASE s # <<>>
        <4>1. v2' = v2
          BY <1>2, <1>6, <3>2
        <4> QED
          BY <1>9, <3>2, <4>1
      <3> QED
        BY <3>1, <3>2
    <2>3. v1'[l] = n /\ v1'[o] = v1[o] /\ v1' \in [TwoLists -> Nat]
      BY <1>1, <1>2, <1>4, <1>9
    <2>4. v3'[l] = v3[l] + 1 /\ v3'[o] = v3[o] /\ v3' \in [TwoLists -> Nat]
      BY <1>1, <1>2, <1>9
    <2> QED
      BY <2>1, <2>2, <2>3, <2>4
  <1>13. ~In(s, n) /\ ~In(v9[o], n)
    BY <1>4, <1>7, <1>8
  <1>14. /\ Nodes(<<n>> \o s) /\ Len(<<n>> \o s) = Len(s) + 1
         /\ Chain(<<n>> \o s, n, IF s = <<>> THEN n ELSE v2[l], v4', v5')
         /\ \A m : In(<<n>> \o s, m) <=> In(s, m) \/ m = n
    <2>1. \A i \in 1..Len(s) : v5'[s[i]] = v5[s[i]] /\ (s[i] # v1[l] => v4'[s[i]] = v4[s[i]])
      BY <1>4, <1>6, <1>11
    <2>2. /\ n \in Nat \ {0} /\ Nodes(s) /\ Chain(s, v1[l], v2[l], v4, v5) /\ ~In(s, n)
      BY <1>4, <1>7, <1>13
    <2>3. Before(s, v1[l], v4, v5, v4', v5', n)
      BY <1>11, <2>1 DEF Before
    <2> QED
      BY <2>2, <2>3, ChainPrepend
  <1>15. ListChain(l)'
    <2>1. v3'[l] = Len(<<n>> \o s) + v10[l]
      <3>1. v3[l] = Len(s) + v10[l] /\ v10[l] \in Nat
        BY <1>1, <1>9 DEF ListChain, s
      <3>2. Len(s) \in Nat /\ v3'[l] = v3[l] + 1 /\ Len(<<n>> \o s) = Len(s) + 1
        BY <1>6, <1>12, <1>14
      <3>3. (Len(s) + v10[l]) + 1 = (Len(s) + 1) + v10[l]
        BY <3>1, <3>2
      <3> QED
        BY <3>1, <3>2, <3>3
    <2>2. \A m : In(<<n>> \o s, m) => m \in 1..n
      BY <1>4, <1>7, <1>14
    <2> QED
      BY <1>2, <1>12, <1>14, <2>1, <2>2 DEF ListChain
  <1>16. ListChain(o)'
    <2>1. SameLinks(v9[o], v4, v5, v4', v5')
      <3> SUFFICES ASSUME NEW i \in 1..Len(v9[o])
                   PROVE  v5'[v9[o][i]] = v5[v9[o][i]] /\ v4'[v9[o][i]] = v4[v9[o][i]]
        BY DEF SameLinks
      <3>1. In(v9[o], v9[o][i])
        BY DEF In
      <3>2. v9[o][i] \in 1..MaxNodes /\ v9[o][i] # n /\ (s # <<>> => v9[o][i] # v1[l])
        BY <1>1, <1>4, <1>6, <1>8, <1>13, <3>1
      <3> QED
        BY <1>11, <3>2
    <2>2. Chain(v9[o], v1[o], v2[o], v4', v5')
      BY <1>8, <2>1, ChainSame
    <2>3. \A m : In(v9[o], m) => m \in 1..n
      BY <1>4, <1>8
    <2> QED
      BY <1>2, <1>8, <1>12, <2>2, <2>3 DEF ListChain
  <1>17. ListTypes' /\ ListFresh'
    <2>1. n \in 0..MaxNodes
      BY <1>2, BoundsAssumption
    <2>2. ListTypes'
      BY <1>2, <1>9, <1>11, <1>12, <2>1 DEF ListTypes
    <2>3. ListFresh'
      BY <1>2, <1>3, <1>4, <1>10, <1>11 DEF ListFresh
    <2> QED
      BY <2>2, <2>3
  <1>18. /\ \A m : ~(In(v9'[l], m) /\ In(v9'[o], m))
         /\ \A m : m \in v6' <=> In(v9'[l], m) \/ In(v9'[o], m)
         /\ v8' = 0 \/ v8' \in v6'
    BY <1>1, <1>2, <1>12, <1>13, <1>14
  <1> QED
    BY <1>15, <1>16, <1>17, <1>18, ListWhole DEF o

\* erase and rerase of a node of the list; held is one of its neighbours.
LEMMA ListErase ==
  ASSUME ListInv, NEW l \in TwoLists, NEW n \in 1..MaxNodes, List!Erased(l, n), List!cerase(l, n),
         v8' = v4[n] \/ v8' = v5[n]
  PROVE  ListInv'
  <1> DEFINE o == List!Other(l)  s == v9[l]
  <1>1. /\ ListChain(l) /\ ListChain(o) /\ o \in TwoLists /\ o # l
        /\ \A m : ~(In(s, m) /\ In(v9[o], m))
        /\ \A m : m \in v6 <=> In(s, m) \/ In(v9[o], m)
    BY ListParts
  <1>2. PICK k \in DOMAIN s : s[k] = n /\ v9' = [v9 EXCEPT ![l] = List!RemoveAt(@, k)] /\ v7' = v7 /\ v10' = v10
    BY DEF List!Erased
  <1>3. /\ v5' = [m \in 1..MaxNodes |-> IF m = v4[n] THEN v5[n] ELSE v5[m]]
        /\ v4' = [m \in 1..MaxNodes |-> IF m = v5[n] THEN v4[n] ELSE v4[m]]
        /\ v2' = [v2 EXCEPT ![l] = IF @ = n THEN v4[n] ELSE @]
        /\ v1' = [v1 EXCEPT ![l] = IF @ = n THEN v5[n] ELSE @]
        /\ v6' = v6 \ {n} /\ v3' = [v3 EXCEPT ![l] = @ - 1]
    BY DEF List!cerase, List!Nodes
  <1>4. ListTypes /\ ListFresh
    BY DEF ListInv
  <1>5. /\ v1 \in [TwoLists -> Nat] /\ v2 \in [TwoLists -> Nat] /\ v3 \in [TwoLists -> Nat]
        /\ v4 \in [1..MaxNodes -> Nat] /\ v5 \in [1..MaxNodes -> Nat] /\ DOMAIN v9 = TwoLists
        /\ v10 \in [TwoLists -> Nat] /\ v7 \in 0..MaxNodes /\ MaxNodes \in Nat
    BY <1>4, BoundsAssumption DEF ListTypes
  <1>6. 1..v7 \subseteq 1..MaxNodes /\ \A m \in 1..MaxNodes : m > v7 => m \notin 1..v7 /\ m # 0
    BY <1>5
  <1>7. /\ Nodes(s) /\ Chain(s, v1[l], v2[l], v4, v5) /\ (\A m : In(s, m) => m \in 1..v7)
        /\ v3[l] = Len(s) + v10[l]
    BY <1>1 DEF ListChain
  <1>8. /\ Nodes(v9[o]) /\ Chain(v9[o], v1[o], v2[o], v4, v5) /\ (\A m : In(v9[o], m) => m \in 1..v7)
        /\ v3[o] = Len(v9[o]) + v10[o]
    BY <1>1 DEF ListChain
  <1> HIDE DEF o, s
  <1>9. s \in Seq(Nat) /\ Len(s) \in Nat /\ k \in 1..Len(s) /\ 1 <= Len(s)
    <2>1. s \in Seq(Nat)
      BY <1>7 DEF Nodes
    <2>2. Len(s) \in Nat /\ k \in 1..Len(s)
      BY <1>2, <2>1, LenProperties
    <2> QED
      BY <2>1, <2>2
  <1>10. In(s, n)
    BY <1>2, <1>9 DEF In
  \* The neighbours of the node are in the list too.
  <1>11. /\ v4[n] = 0 \/ (In(s, v4[n]) /\ v4[n] # n)
         /\ v5[n] = 0 \/ (In(s, v5[n]) /\ v5[n] # n)
    <2>1. /\ v4[s[k]] = (IF k = 1 THEN 0 ELSE s[k - 1]) /\ v5[s[k]] = (IF k = Len(s) THEN 0 ELSE s[k + 1])
      BY <1>7, <1>9 DEF Chain
    <2>2. /\ k # 1 => k - 1 \in 1..Len(s) /\ k - 1 # k
          /\ k # Len(s) => k + 1 \in 1..Len(s) /\ k + 1 # k
      BY <1>9
    <2>3. \A i, j \in 1..Len(s) : s[i] = s[j] => i = j
      BY <1>7 DEF Nodes, Distinct
    <2>4. k # 1 => In(s, s[k - 1]) /\ s[k - 1] # s[k]
      BY <1>9, <2>2, <2>3 DEF In
    <2>5. k # Len(s) => In(s, s[k + 1]) /\ s[k + 1] # s[k]
      BY <1>9, <2>2, <2>3 DEF In
    <2> QED
      BY <1>2, <2>1, <2>4, <2>5
  <1>12. v4[n] \in Nat /\ v5[n] \in Nat
    BY <1>5
  <1>13. /\ v4' \in [1..MaxNodes -> Nat] /\ v5' \in [1..MaxNodes -> Nat]
         /\ \A m \in 1..MaxNodes : v4'[m] = (IF m = v5[n] THEN v4[n] ELSE v4[m])
         /\ \A m \in 1..MaxNodes : v5'[m] = (IF m = v4[n] THEN v5[n] ELSE v5[m])
    BY <1>3, <1>5, <1>12
  <1>14. /\ v9'[l] = List!RemoveAt(s, k) /\ v9'[o] = v9[o] /\ DOMAIN v9' = TwoLists
    BY <1>1, <1>2, <1>5 DEF s
  <1>15. /\ v1'[l] = (IF v1[l] = n THEN v5[n] ELSE v1[l]) /\ v1'[o] = v1[o] /\ v1' \in [TwoLists -> Nat]
         /\ v2'[l] = (IF v2[l] = n THEN v4[n] ELSE v2[l]) /\ v2'[o] = v2[o] /\ v2' \in [TwoLists -> Nat]
    BY <1>1, <1>3, <1>5, <1>12
  <1>16. v3[l] - 1 \in Nat /\ v3[l] - 1 = (Len(s) - 1) + v10[l]
    <2>1. v10[l] \in Nat
      BY <1>5
    <2> QED
      BY <1>7, <1>9, <2>1
  <1>17. v3'[l] = v3[l] - 1 /\ v3'[o] = v3[o] /\ v3' \in [TwoLists -> Nat]
    BY <1>1, <1>3, <1>5, <1>16
  <1>18. Past(s, v4, v5, v4', v5', n)
    <2> SUFFICES ASSUME NEW i \in 1..Len(s)
                 PROVE  /\ v4'[s[i]] = (IF s[i] = v5[n] THEN v4[n] ELSE v4[s[i]])
                        /\ v5'[s[i]] = (IF s[i] = v4[n] THEN v5[n] ELSE v5[s[i]])
      BY DEF Past
    <2>1. s[i] \in 1..MaxNodes
      BY <1>6, <1>7 DEF In
    <2> QED
      BY <1>13, <2>1
  <1>19. /\ Nodes(List!RemoveAt(s, k)) /\ Len(List!RemoveAt(s, k)) = Len(s) - 1
         /\ Chain(List!RemoveAt(s, k), v1'[l], v2'[l], v4', v5')
         /\ \A m : In(List!RemoveAt(s, k), m) <=> In(s, m) /\ m # n
    <2>1. /\ k \in 1..Len(s) /\ Nodes(s) /\ Chain(s, v1[l], v2[l], v4, v5)
          /\ Moved(v1[l], v2[l], v4, v5, v1'[l], v2'[l], s[k]) /\ Past(s, v4, v5, v4', v5', s[k])
      BY <1>2, <1>7, <1>9, <1>15, <1>18 DEF Moved
    <2>2. /\ Nodes(List!RemoveAt(s, k)) /\ Len(List!RemoveAt(s, k)) = Len(s) - 1
          /\ Chain(List!RemoveAt(s, k), v1'[l], v2'[l], v4', v5')
          /\ \A m : In(List!RemoveAt(s, k), m) <=> In(s, m) /\ m # s[k]
      BY <2>1, ChainRemove
    <2> QED
      BY <1>2, <2>2
  <1>20. ListChain(l)'
    <2>1. v3'[l] = Len(List!RemoveAt(s, k)) + v10[l]
      BY <1>16, <1>17, <1>19
    <2>2. \A m : In(List!RemoveAt(s, k), m) => m \in 1..v7
      BY <1>7, <1>19
    <2> QED
      BY <1>2, <1>14, <1>19, <2>1, <2>2 DEF ListChain
  <1>21. ListChain(o)'
    <2>1. SameLinks(v9[o], v4, v5, v4', v5')
      <3> SUFFICES ASSUME NEW i \in 1..Len(v9[o])
                   PROVE  v4'[v9[o][i]] = v4[v9[o][i]] /\ v5'[v9[o][i]] = v5[v9[o][i]]
        BY DEF SameLinks
      <3>1. In(v9[o], v9[o][i])
        BY DEF In
      <3>2. v9[o][i] \in 1..MaxNodes /\ v9[o][i] # v4[n] /\ v9[o][i] # v5[n]
        <4>1. v9[o][i] \in 1..v7 /\ v9[o][i] # 0
          BY <1>8, <3>1
        <4> QED
          BY <1>1, <1>6, <1>11, <3>1, <4>1
      <3> QED
        BY <1>13, <3>2
    <2>2. Chain(v9[o], v1[o], v2[o], v4', v5')
      BY <1>8, <2>1, ChainSame
    <2> QED
      BY <1>2, <1>8, <1>14, <1>15, <1>17, <2>2 DEF ListChain
  <1>22. ListTypes' /\ ListFresh'
    <2>1. ListTypes'
      BY <1>2, <1>5, <1>13, <1>14, <1>15, <1>17 DEF ListTypes
    <2>2. ListFresh'
      <3> SUFFICES ASSUME NEW m \in 1..MaxNodes, m > v7 PROVE v4'[m] = 0 /\ v5'[m] = 0
        BY <1>2 DEF ListFresh
      <3>1. v4[m] = 0 /\ v5[m] = 0
        BY <1>4 DEF ListFresh
      <3>2. m # v4[n] /\ m # v5[n]
        BY <1>6, <1>7, <1>11
      <3> QED
        BY <1>13, <3>1, <3>2
    <2> QED
      BY <2>1, <2>2
  <1>23. /\ \A m : ~(In(v9'[l], m) /\ In(v9'[o], m))
         /\ \A m : m \in v6' <=> In(v9'[l], m) \/ In(v9'[o], m)
    BY <1>1, <1>3, <1>10, <1>14, <1>19
  <1>24. v8' = 0 \/ v8' \in v6'
    BY <1>1, <1>3, <1>11
  <1> QED
    BY <1>20, <1>21, <1>22, <1>23, <1>24, ListWhole DEF o

\* swap.
LEMMA ListSwap ==
  ASSUME ListInv, List!swap
  PROVE  ListInv'
  <1> DEFINE a == "list_"  b == "added_"
  <1>1. /\ v1' = [l \in TwoLists |-> v1[List!Other(l)]] /\ v2' = [l \in TwoLists |-> v2[List!Other(l)]]
        /\ v3' = [l \in TwoLists |-> v3[List!Other(l)]] /\ v9' = [l \in TwoLists |-> v9[List!Other(l)]]
        /\ v10' = [l \in TwoLists |-> v10[List!Other(l)]]
        /\ v4' = v4 /\ v5' = v5 /\ v6' = v6 /\ v7' = v7 /\ v8' = v8
    BY DEF List!swap, List!Swapped, List!Lists, TwoLists
  <1>2. a \in TwoLists /\ b \in TwoLists /\ List!Other(a) = b /\ List!Other(b) = a
    BY DEF List!Other, TwoLists
  <1>3. \A l \in TwoLists : List!Other(l) \in TwoLists
    BY DEF List!Other, TwoLists
  <1>4. /\ v1'[a] = v1[b] /\ v2'[a] = v2[b] /\ v3'[a] = v3[b] /\ v9'[a] = v9[b] /\ v10'[a] = v10[b]
        /\ v1'[b] = v1[a] /\ v2'[b] = v2[a] /\ v3'[b] = v3[a] /\ v9'[b] = v9[a] /\ v10'[b] = v10[a]
    BY <1>1, <1>2
  <1>5. ListTypes'
    BY <1>1, <1>3 DEF ListInv, ListTypes
  <1>6. ListFresh'
    BY <1>1 DEF ListInv, ListFresh
  <1>7. ListChain(a)' /\ ListChain(b)'
    BY <1>1, <1>4 DEF ListInv, ListChain
  <1>8. ListHeap'
    BY <1>1, <1>4 DEF ListInv, ListHeap
  <1> QED
    BY <1>5, <1>6, <1>7, <1>8 DEF ListInv

\* Nothing is known of an empty list but that it is empty.
LEMMA EmptyChain ==
  ASSUME NEW p, NEW x
  PROVE  Nodes(<<>>) /\ Chain(<<>>, 0, 0, p, x) /\ Len(<<>>) = 0 /\ \A n : ~In(<<>>, n)
  <1>1. <<>> \in Seq(Nat) /\ Len(<<>>) = 0
    OBVIOUS
  <1> QED
    BY <1>1 DEF Nodes, Distinct, Chain, In

\* clear deletes every node.
LEMMA ListClear ==
  ASSUME ListInv, NEW l \in TwoLists, List!clear(l)
  PROVE  ListInv'
  <1> DEFINE o == List!Other(l)  s == v9[l]
  <1>1. /\ ListChain(l) /\ ListChain(o) /\ o \in TwoLists /\ o # l
        /\ \A m : ~(In(s, m) /\ In(v9[o], m))
        /\ \A m : m \in v6 <=> In(s, m) \/ In(v9[o], m)
    BY ListParts
  <1>2. /\ v10[l] = 0 /\ v6' = v6 \ List!ToSet(s) /\ v8' = 0
        /\ v1' = [v1 EXCEPT ![l] = 0] /\ v2' = [v2 EXCEPT ![l] = 0]
        /\ v9' = [v9 EXCEPT ![l] = <<>>] /\ v10' = [v10 EXCEPT ![l] = Len(s)]
        /\ v3' = v3 /\ v4' = v4 /\ v5' = v5 /\ v7' = v7
    BY DEF List!clear, List!NULL
  <1>3. ListTypes /\ ListFresh
    BY DEF ListInv
  <1>4. s \in Seq(Nat) /\ Len(s) \in Nat /\ DOMAIN s = 1..Len(s) /\ v3[l] = Len(s) + v10[l]
    BY <1>1, LenProperties DEF ListChain, Nodes
  <1>5. \A m : m \in List!ToSet(s) <=> In(s, m)
    BY <1>4 DEF List!ToSet, In
  <1> HIDE DEF o, s
  <1>6. /\ v9'[l] = <<>> /\ v1'[l] = 0 /\ v2'[l] = 0 /\ v3'[l] = v3[l] /\ v10'[l] = Len(s)
        /\ v9'[o] = v9[o] /\ v1'[o] = v1[o] /\ v2'[o] = v2[o] /\ v3'[o] = v3[o] /\ v10'[o] = v10[o]
    BY <1>1, <1>2, <1>3 DEF ListTypes
  <1>7. ListTypes' /\ ListFresh'
    BY <1>2, <1>3, <1>4 DEF ListTypes, ListFresh
  <1>8. ListChain(l)'
    <2>1. v3[l] = 0 + Len(s)
      BY <1>2, <1>4
    <2>2. Nodes(<<>>) /\ Chain(<<>>, 0, 0, v4, v5) /\ Len(<<>>) = 0 /\ \A n : ~In(<<>>, n)
      BY EmptyChain
    <2> QED
      BY <1>2, <1>6, <2>1, <2>2 DEF ListChain
  <1>9. ListChain(o)'
    BY <1>1, <1>2, <1>6 DEF ListChain
  <1>10. \A n : ~In(<<>>, n)
    BY EmptyChain
  <1>11. /\ \A m : ~(In(v9'[l], m) /\ In(v9'[o], m))
         /\ \A m : m \in v6' <=> In(v9'[l], m) \/ In(v9'[o], m)
    BY <1>1, <1>2, <1>5, <1>6, <1>10
  <1> QED
    BY <1>2, <1>7, <1>8, <1>9, <1>11, ListWhole DEF o

\* splice_back: the nodes of the other list go behind those of this one.
LEMMA ListSplice ==
  ASSUME ListInv, NEW l \in TwoLists, List!splice_back(l)
  PROVE  ListInv'
  <1> DEFINE o == List!Other(l)  s == v9[l]  u == v9[o]
  <1>1. /\ ListChain(l) /\ ListChain(o) /\ o \in TwoLists /\ o # l
        /\ \A m : ~(In(s, m) /\ In(u, m))
        /\ \A m : m \in v6 <=> In(s, m) \/ In(u, m)
        /\ v8 = 0 \/ v8 \in v6
    BY ListParts
  <1>2. /\ v1' = [v1 EXCEPT ![l] = IF @ = 0 THEN v1[o] ELSE @, ![o] = 0]
        /\ v2' = [v2 EXCEPT ![l] = IF v1[l] = 0 \/ v1[o] # 0 THEN v2[o] ELSE @, ![o] = 0]
        /\ v3' = [v3 EXCEPT ![l] = @ + v3[o], ![o] = 0]
        /\ v9' = [v9 EXCEPT ![l] = @ \o u, ![o] = <<>>]
        /\ v10' = [v10 EXCEPT ![l] = @ + v10[o], ![o] = 0]
        /\ v6' = v6 /\ v7' = v7 /\ v8' = v8
    BY DEF List!splice_back, List!NULL
  <1>3. IF v1[l] # 0 /\ v1[o] # 0
          THEN v5' = [v5 EXCEPT ![v2[l]] = v1[o]] /\ v4' = [v4 EXCEPT ![v1[o]] = v2[l]]
          ELSE v4' = v4 /\ v5' = v5
    BY DEF List!splice_back, List!NULL
  <1>4. ListTypes /\ ListFresh
    BY DEF ListInv
  <1>5. /\ v1 \in [TwoLists -> Nat] /\ v2 \in [TwoLists -> Nat] /\ v3 \in [TwoLists -> Nat]
        /\ v4 \in [1..MaxNodes -> Nat] /\ v5 \in [1..MaxNodes -> Nat] /\ DOMAIN v9 = TwoLists
        /\ v10 \in [TwoLists -> Nat] /\ v7 \in 0..MaxNodes /\ MaxNodes \in Nat
    BY <1>4, BoundsAssumption DEF ListTypes
  <1>6. /\ v1[l] = 0 <=> s = <<>>
        /\ s = <<>> => v2[l] = 0 /\ \A n : ~In(s, n)
        /\ s # <<>> => In(s, v1[l]) /\ In(s, v2[l])
        /\ Len(s) \in Nat
    BY <1>1, ListFront
  <1>7. /\ v1[o] = 0 <=> u = <<>>
        /\ u = <<>> => v2[o] = 0 /\ \A n : ~In(u, n)
        /\ u # <<>> => In(u, v1[o]) /\ In(u, v2[o])
        /\ Len(u) \in Nat
    BY <1>1, ListFront
  <1>8. /\ Nodes(s) /\ Chain(s, v1[l], v2[l], v4, v5) /\ (\A m : In(s, m) => m \in 1..v7)
        /\ v3[l] = Len(s) + v10[l]
    BY <1>1 DEF ListChain
  <1>9. /\ Nodes(u) /\ Chain(u, v1[o], v2[o], v4, v5) /\ (\A m : In(u, m) => m \in 1..v7)
        /\ v3[o] = Len(u) + v10[o]
    BY <1>1 DEF ListChain
  <1>10. s \in Seq(Nat) /\ u \in Seq(Nat)
    BY <1>8, <1>9 DEF Nodes
  <1>11. 1..v7 \subseteq 1..MaxNodes /\ \A m \in 1..MaxNodes : m > v7 => m \notin 1..v7
    BY <1>5
  <1>12. /\ v9'[l] = s \o u /\ v9'[o] = <<>> /\ DOMAIN v9' = TwoLists
    BY <1>1, <1>2, <1>5
  <1>13. /\ v1'[l] = (IF s = <<>> THEN v1[o] ELSE v1[l]) /\ v1'[o] = 0 /\ v1' \in [TwoLists -> Nat]
    BY <1>1, <1>2, <1>5, <1>6
  <1>14. /\ v2'[l] = (IF s = <<>> \/ u # <<>> THEN v2[o] ELSE v2[l]) /\ v2'[o] = 0 /\ v2' \in [TwoLists -> Nat]
    BY <1>1, <1>2, <1>5, <1>6, <1>7
  <1>15. v3[l] + v3[o] \in Nat /\ v10[l] + v10[o] \in Nat /\ v3[l] + v3[o] = (Len(s) + Len(u)) + (v10[l] + v10[o])
    <2>1. v10[l] \in Nat /\ v10[o] \in Nat /\ v3[l] \in Nat /\ v3[o] \in Nat
      BY <1>1, <1>5
    <2>2. Len(s) \in Nat /\ Len(u) \in Nat /\ v3[l] = Len(s) + v10[l] /\ v3[o] = Len(u) + v10[o]
      BY <1>6, <1>7, <1>8, <1>9
    <2> DEFINE a == Len(s)  b == Len(u)  c == v10[l]  d == v10[o]
    <2>3. a \in Nat /\ b \in Nat /\ c \in Nat /\ d \in Nat /\ v3[l] = a + c /\ v3[o] = b + d
      BY <2>1, <2>2
    <2> HIDE DEF a, b, c, d
    <2>4. (a + c) + (b + d) = (a + b) + (c + d) /\ (a + c) + (b + d) \in Nat /\ c + d \in Nat
      BY <2>3
    <2>5. v3[l] + v3[o] = (a + b) + (c + d) /\ v3[l] + v3[o] \in Nat
      BY <2>3, <2>4
    <2> QED
      BY <2>4, <2>5 DEF a, b, c, d
  <1>16. /\ v3'[l] = v3[l] + v3[o] /\ v3'[o] = 0 /\ v3' \in [TwoLists -> Nat]
         /\ v10'[l] = v10[l] + v10[o] /\ v10'[o] = 0 /\ v10' \in [TwoLists -> Nat]
    BY <1>1, <1>2, <1>5, <1>15
  <1> HIDE DEF o, s, u
  <1>17. /\ Nodes(s \o u) /\ Len(s \o u) = Len(s) + Len(u)
         /\ Chain(s \o u, v1'[l], v2'[l], v4', v5')
         /\ \A m : In(s \o u, m) <=> In(s, m) \/ In(u, m)
    <2>1. CASE s = <<>>
      <3>1. s \o u = u /\ Len(s) = 0
        BY <1>10, <2>1
      <3>2. Len(u) = Len(s) + Len(u)
        BY <1>7, <3>1
      <3>3. v4' = v4 /\ v5' = v5 /\ v1'[l] = v1[o] /\ v2'[l] = v2[o]
        BY <1>3, <1>6, <1>13, <1>14, <2>1
      <3> QED
        BY <1>6, <1>9, <2>1, <3>1, <3>2, <3>3
    <2>2. CASE s # <<>> /\ u = <<>>
      <3>1. s \o u = s /\ Len(u) = 0
        BY <1>10, <2>2
      <3>2. Len(s) = Len(s) + Len(u)
        BY <1>6, <3>1
      <3>3. v4' = v4 /\ v5' = v5 /\ v1'[l] = v1[l] /\ v2'[l] = v2[l]
        BY <1>3, <1>7, <1>13, <1>14, <2>2
      <3> QED
        BY <1>7, <1>8, <2>2, <3>1, <3>2, <3>3
    <2>3. CASE s # <<>> /\ u # <<>>
      <3>1. v5' = [v5 EXCEPT ![v2[l]] = v1[o]] /\ v4' = [v4 EXCEPT ![v1[o]] = v2[l]]
        BY <1>3, <1>6, <1>7, <2>3
      <3>2. v2[l] \in 1..MaxNodes /\ v1[o] \in 1..MaxNodes
        BY <1>6, <1>7, <1>8, <1>9, <1>11, <2>3
      <3>3. \A m : In(s, m) \/ In(u, m) => m \in 1..MaxNodes
        BY <1>8, <1>9, <1>11
      <3>4. v5'[v2[l]] = v1[o] /\ \A m \in 1..MaxNodes : m # v2[l] => v5'[m] = v5[m]
        BY <1>5, <3>1, <3>2
      <3>5. v4'[v1[o]] = v2[l] /\ \A m \in 1..MaxNodes : m # v1[o] => v4'[m] = v4[m]
        BY <1>5, <3>1, <3>2
      <3>6. Joined(s, u, v2[l], v1[o], v4, v5, v4', v5')
        BY <3>3, <3>4, <3>5 DEF Joined
      <3>7. /\ Nodes(s) /\ Nodes(u) /\ Chain(s, v1[l], v2[l], v4, v5) /\ Chain(u, v1[o], v2[o], v4, v5)
            /\ \A m : ~(In(s, m) /\ In(u, m))
        BY <1>1, <1>8, <1>9
      <3>8. /\ Nodes(s \o u) /\ Len(s \o u) = Len(s) + Len(u) /\ Chain(s \o u, v1[l], v2[o], v4', v5')
            /\ \A m : In(s \o u, m) <=> In(s, m) \/ In(u, m)
        BY <2>3, <3>6, <3>7, ChainConcat
      <3> QED
        BY <1>13, <1>14, <2>3, <3>8
    <2> QED
      BY <2>1, <2>2, <2>3
  <1>18. ListChain(l)'
    <2>1. v3'[l] = Len(s \o u) + v10'[l]
      BY <1>15, <1>16, <1>17
    <2>2. \A m : In(s \o u, m) => m \in 1..v7
      BY <1>8, <1>9, <1>17
    <2> QED
      BY <1>2, <1>12, <1>17, <2>1, <2>2 DEF ListChain
  <1>19. ListChain(o)'
    <2>1. Nodes(<<>>) /\ Chain(<<>>, 0, 0, v4', v5') /\ Len(<<>>) = 0 /\ \A n : ~In(<<>>, n)
      BY EmptyChain
    <2>2. 0 = 0 + 0
      OBVIOUS
    <2> QED
      BY <1>12, <1>13, <1>14, <1>16, <2>1, <2>2 DEF ListChain
  <1>20. v4' \in [1..MaxNodes -> Nat] /\ v5' \in [1..MaxNodes -> Nat]
    <2>1. v1[o] \in Nat /\ v2[l] \in Nat
      BY <1>1, <1>5
    <2> QED
      BY <1>3, <1>5, <2>1
  <1>21. ListTypes'
    BY <1>2, <1>5, <1>12, <1>13, <1>14, <1>16, <1>20 DEF ListTypes
  <1>22. ListFresh'
    <2> SUFFICES ASSUME NEW m \in 1..MaxNodes, m > v7 PROVE v4'[m] = 0 /\ v5'[m] = 0
      BY <1>2 DEF ListFresh
    <2>1. v4[m] = 0 /\ v5[m] = 0
      BY <1>4 DEF ListFresh
    <2>2. v1[l] # 0 /\ v1[o] # 0 => m # v2[l] /\ m # v1[o]
      BY <1>6, <1>7, <1>8, <1>9, <1>11
    <2> QED
      BY <1>3, <1>5, <2>1, <2>2
  <1>23. /\ \A m : ~(In(v9'[l], m) /\ In(v9'[o], m))
         /\ \A m : m \in v6' <=> In(v9'[l], m) \/ In(v9'[o], m)
         /\ v8' = 0 \/ v8' \in v6'
    <2>1. \A n : ~In(<<>>, n)
      BY EmptyChain
    <2> QED
      BY <1>1, <1>2, <1>12, <1>17, <2>1
  <1> QED
    BY <1>18, <1>19, <1>21, <1>22, <1>23, ListWhole DEF o

\* Every operation keeps the invariant.
LEMMA ListStep ==
  ASSUME ListInv, List!Next
  PROVE  ListInv'
  <1>1. CASE List!swap
    BY <1>1, ListSwap
  <1>2. ASSUME NEW l \in TwoLists,
               \/ List!push_back(l) \/ List!push_front(l) \/ List!splice_back(l) \/ List!clear(l)
               \/ \E n \in 1..MaxNodes : List!erase(l, n) \/ List!rerase(l, n)
        PROVE  ListInv'
    <2>1. ASSUME NEW n \in 1..MaxNodes, List!erase(l, n) \/ List!rerase(l, n)
          PROVE  ListInv'
      <3>1. List!Erased(l, n) /\ List!cerase(l, n) /\ (v8' = v4[n] \/ v8' = v5[n])
        BY <2>1 DEF List!erase, List!rerase
      <3> QED
        BY <3>1, ListErase
    <2> QED
      BY <1>2, <2>1, ListPushBack, ListPushFront, ListSplice, ListClear
  <1> QED
    BY <1>1, <1>2 DEF List!Next, List!Lists, List!Nodes, TwoLists

\* A step that leaves these variables alone keeps the invariant.
LEMMA ListRests ==
  ASSUME ListInv, UNCHANGED <<v1, v2, v3, v4, v5, v6, v7, v8, v9, v10>>
  PROVE  ListInv'
  BY DEF ListInv, ListTypes, ListFresh, ListChain, ListHeap

\* The invariant contains what the run checks.
LEMMA ListSound ==
  ASSUME ListInv
  PROVE  List!LinksRight
  <1>1. ListChain("list_") /\ ListChain("added_") /\ ListHeap
    BY DEF ListInv
  <1>2. \A l \in TwoLists : ListChain(l)
    BY <1>1 DEF TwoLists
  <1>3. \A l \in TwoLists : v9[l] \in Seq(Nat) /\ DOMAIN v9[l] = 1..Len(v9[l])
    BY <1>2, LenProperties DEF ListChain, Nodes
  <1>4. \A l \in TwoLists : \A m : m \in List!ToSet(v9[l]) <=> In(v9[l], m)
    BY <1>3 DEF List!ToSet, In
  <1>5. v6 = UNION {List!ToSet(v9[l]) : l \in TwoLists}
    <2>1. \A m : m \in UNION {List!ToSet(v9[l]) : l \in TwoLists} <=> \E l \in TwoLists : m \in List!ToSet(v9[l])
      OBVIOUS
    <2>2. \A m : m \in v6 <=> m \in UNION {List!ToSet(v9[l]) : l \in TwoLists}
      BY <1>1, <1>4, <2>1 DEF ListHeap, TwoLists
    <2> QED
      BY <2>2
  <1>6. List!ToSet(v9["list_"]) \cap List!ToSet(v9["added_"]) = {}
    BY <1>1, <1>4 DEF ListHeap, TwoLists
  <1>7. ASSUME NEW l \in TwoLists
        PROVE  /\ v1[l] = (IF v9[l] = <<>> THEN 0 ELSE v9[l][1])
               /\ v2[l] = (IF v9[l] = <<>> THEN 0 ELSE v9[l][Len(v9[l])])
               /\ \A i \in DOMAIN v9[l] :
                    /\ v4[v9[l][i]] = (IF i = 1 THEN 0 ELSE v9[l][i - 1])
                    /\ v5[v9[l][i]] = (IF i = Len(v9[l]) THEN 0 ELSE v9[l][i + 1])
               /\ v3[l] = Len(v9[l]) + v10[l]
    <2>1. Chain(v9[l], v1[l], v2[l], v4, v5) /\ v3[l] = Len(v9[l]) + v10[l]
      BY <1>2 DEF ListChain
    <2>2. DOMAIN v9[l] = 1..Len(v9[l])
      BY <1>3
    <2> QED
      BY <2>1, <2>2 DEF Chain
  <1> QED
    BY <1>1, <1>5, <1>6, <1>7 DEF List!LinksRight, List!Lists, List!NULL, TwoLists, ListHeap

(***************************************************************************)
(* Subscriptions and their handles.  v1 impl_, v2 impls, v3 slots, v4      *)
(* within, v5 connected, v6 unsubscriber_, v7 ended, v8 guarded.           *)
(***************************************************************************)

TwoSignals == {"s1", "s2"}
PlainHandles == {"p1", "p2"}
ScopedHandles == {"g1", "g2"}
AllHandles == PlainHandles \cup ScopedHandles

\* A slot is inside one of the insides made so far, and two signals have two insides.
SubscriptionTypes ==
  /\ v2 \in Nat /\ v1 \in [TwoSignals -> 1..v2] /\ v1["s1"] # v1["s2"]
  /\ v3 \in 0..MaxSlots /\ v4 \in [1..MaxSlots -> 0..v2]
  /\ \A n \in 1..MaxSlots : v4[n] = 0 <=> n > v3
  /\ v6 \in [AllHandles -> 0..v3]
  /\ v7 \subseteq 1..v3 /\ v8 \subseteq 1..v3

\* A scoped slot that is still connected has a scoped handle.
Guarded == \A n \in v5 \cap v8 : \E g \in ScopedHandles : v6[g] = n
\* A slot is connected as long as a signal has its inside and nobody ended it.
Connected == v5 = {n \in 1..v3 : n \notin v7 /\ (v4[n] = v1["s1"] \/ v4[n] = v1["s2"])}

\* The inductive invariant of the subscriptions.
SubscriptionInv == SubscriptionTypes /\ Guarded /\ Connected

\* Two signals, and handles that hold nothing.
LEMMA SubscriptionStart ==
  ASSUME Subscription!Init
  PROVE  SubscriptionInv
  <1>1. /\ v1 = [s \in TwoSignals |-> IF s = "s1" THEN 1 ELSE 2] /\ v2 = 2 /\ v3 = 0
        /\ v4 = [n \in 1..MaxSlots |-> 0] /\ v5 = {} /\ v6 = [h \in AllHandles |-> 0] /\ v7 = {} /\ v8 = {}
    BY DEF Subscription!Init, Subscription!Signals, Subscription!Slots, Subscription!Handles,
           Subscription!Plain, Subscription!Scoped, Subscription!None, TwoSignals, AllHandles,
           PlainHandles, ScopedHandles
  <1>2. v1["s1"] = 1 /\ v1["s2"] = 2 /\ v1 \in [TwoSignals -> 1..v2]
    BY <1>1 DEF TwoSignals
  <1> QED
    BY <1>1, <1>2, BoundsAssumption DEF SubscriptionInv, SubscriptionTypes, Guarded, Connected

\* The handles change, and with them what is connected and guarded; a slot that is
\* no longer connected is one that was unsubscribed.
LEMMA HandlesChange ==
  ASSUME SubscriptionInv, v6' \in [AllHandles -> 0..v3], NEW n \in 0..v3,
         \/ v5' = v5 /\ v7' = v7
         \/ v5' = v5 \ {n} /\ v7' = (IF n = 0 THEN v7 ELSE v7 \cup {n}),
         v8' \subseteq 1..v3, Guarded', UNCHANGED <<v1, v2, v3, v4>>
  PROVE  SubscriptionInv'
  <1>1. v3 \in Nat
    BY BoundsAssumption DEF SubscriptionInv, SubscriptionTypes
  <1>2. v7' \subseteq 1..v3
    <2>1. v7 \subseteq 1..v3 /\ (n # 0 => n \in 1..v3)
      BY <1>1 DEF SubscriptionInv, SubscriptionTypes
    <2> QED
      BY <2>1
  <1>3. SubscriptionTypes'
    BY <1>2 DEF SubscriptionInv, SubscriptionTypes
  <1>4. Connected'
    BY <1>1 DEF SubscriptionInv, Connected
  <1> QED
    BY <1>3, <1>4 DEF SubscriptionInv

\* subscribe.
LEMMA SubscriptionSubscribes ==
  ASSUME SubscriptionInv, NEW s \in TwoSignals, NEW h \in AllHandles, Subscription!subscribe(s, h)
  PROVE  SubscriptionInv'
  <1> DEFINE n == v3 + 1
  <1>1. /\ n \in 1..MaxSlots /\ v3' = n /\ v6[h] = 0
        /\ v4' = [v4 EXCEPT ![n] = v1[s]] /\ v5' = v5 \cup {n} /\ v6' = [v6 EXCEPT ![h] = n]
        /\ v8' = (IF h \in ScopedHandles /\ n # 0 THEN v8 \cup {n} ELSE v8)
        /\ v1' = v1 /\ v2' = v2 /\ v7' = v7
    BY DEF Subscription!subscribe, Subscription!Holds, Subscription!Guard, Subscription!Scoped,
           Subscription!Slots, Subscription!None, ScopedHandles
  <1>2. /\ v3 \in Nat /\ n \in Nat /\ n # 0 /\ 1..n = 1..v3 \cup {n} /\ n \notin 1..v3 /\ v3 \in 0..MaxSlots
        /\ 0..v3 \subseteq 0..n /\ n \in 0..n /\ \A m \in 1..MaxSlots : m > n <=> m > v3 /\ m # n
    BY BoundsAssumption DEF SubscriptionInv, SubscriptionTypes
  <1>3. /\ v4 \in [1..MaxSlots -> 0..v2] /\ v1[s] \in 1..v2 /\ v2 \in Nat /\ v6 \in [AllHandles -> 0..v3]
        /\ v7 \subseteq 1..v3 /\ v8 \subseteq 1..v3
    BY DEF SubscriptionInv, SubscriptionTypes
  <1> HIDE DEF n
  <1>4. /\ v4' \in [1..MaxSlots -> 0..v2] /\ v4'[n] = v1[s] /\ v1[s] # 0
        /\ \A m \in 1..MaxSlots : m # n => v4'[m] = v4[m]
    BY <1>1, <1>3
  <1>5. v6' \in [AllHandles -> 0..n] /\ v6'[h] = n /\ \A g \in AllHandles : g # h => v6'[g] = v6[g]
    BY <1>1, <1>2, <1>3
  <1>6. SubscriptionTypes'
    <2>1. \A m \in 1..MaxSlots : v4'[m] = 0 <=> m > n
      <3>1. ~(n > n)
        BY <1>2
      <3> QED
        BY <1>2, <1>4, <3>1 DEF SubscriptionInv, SubscriptionTypes
    <2>2. v7' \subseteq 1..n /\ v8' \subseteq 1..n /\ n \in 0..MaxSlots
      BY <1>1, <1>2, <1>3
    <2> QED
      BY <1>1, <1>4, <1>5, <2>1, <2>2 DEF SubscriptionInv, SubscriptionTypes
  <1>7. Guarded'
    <2>1. \A m \in v5 : m # 0 /\ m # n /\ m \in 1..v3
      BY <1>2 DEF SubscriptionInv, Connected
    <2>2. \A g \in ScopedHandles : g \in AllHandles
      BY DEF AllHandles
    <2> SUFFICES ASSUME NEW m \in v5' \cap v8' PROVE \E g \in ScopedHandles : v6'[g] = m
      BY DEF Guarded
    <2>3. CASE m = n
      BY <1>1, <1>2, <1>3, <1>5, <2>3
    <2>4. CASE m # n
      <3>1. m \in v5 \cap v8
        BY <1>1, <2>4
      <3>2. PICK g \in ScopedHandles : v6[g] = m
        BY <3>1 DEF SubscriptionInv, Guarded
      <3> QED
        BY <1>1, <1>5, <2>1, <2>2, <3>1, <3>2
    <2> QED
      BY <2>3, <2>4
  <1>8. Connected'
    <2>1. \A m \in 1..v3 : m \in 1..MaxSlots /\ m # n
      BY <1>2, BoundsAssumption
    <2>2. v1[s] = v1["s1"] \/ v1[s] = v1["s2"]
      BY DEF TwoSignals
    <2>3. n \notin v7
      BY <1>2, <1>3
    <2> QED
      BY <1>1, <1>2, <1>4, <2>1, <2>2, <2>3 DEF SubscriptionInv, Connected
  <1> QED
    BY <1>6, <1>7, <1>8 DEF SubscriptionInv

\* unsubscribe_all.
LEMMA SubscriptionAll ==
  ASSUME SubscriptionInv, NEW s \in TwoSignals, Subscription!unsubscribe_all(s)
  PROVE  SubscriptionInv'
  <1>1. /\ v5' = {n \in v5 : v4[n] # v1[s]} /\ v7' = v7 \cup {n \in 1..MaxSlots : v4[n] = v1[s]}
        /\ UNCHANGED <<v1, v2, v3, v4, v6, v8>>
    BY DEF Subscription!unsubscribe_all, Subscription!Slots
  <1>2. v1[s] # 0 /\ v3 \in 0..MaxSlots
    BY DEF SubscriptionInv, SubscriptionTypes
  <1>3. \A n \in 1..MaxSlots : n > v3 \/ n \in 1..v3
    BY <1>2, BoundsAssumption
  <1>4. \A n \in 1..v3 : n \in 1..MaxSlots
    BY <1>2, BoundsAssumption
  <1>5. v7' \subseteq 1..v3
    BY <1>1, <1>2, <1>3 DEF SubscriptionInv, SubscriptionTypes
  <1>6. SubscriptionTypes'
    BY <1>1, <1>5 DEF SubscriptionInv, SubscriptionTypes
  <1>7. Guarded'
    BY <1>1 DEF SubscriptionInv, Guarded
  <1>8. Connected'
    BY <1>1, <1>4 DEF SubscriptionInv, Connected
  <1> QED
    BY <1>6, <1>7, <1>8 DEF SubscriptionInv

\* A signal takes the inside of another over.
LEMMA SubscriptionMoves ==
  ASSUME SubscriptionInv, NEW s \in TwoSignals, NEW t \in TwoSignals, Subscription!move_signal(s, t)
  PROVE  SubscriptionInv'
  <1>1. /\ s # t /\ v2' = v2 + 1 /\ v1' = [v1 EXCEPT ![s] = v1[t], ![t] = v2 + 1]
        /\ v5' = {n \in v5 : v4[n] # v1[s]} /\ UNCHANGED <<v3, v4, v6, v7, v8>>
    BY DEF Subscription!move_signal
  <1>2. /\ v2 \in Nat /\ v1 \in [TwoSignals -> 1..v2] /\ v4 \in [1..MaxSlots -> 0..v2] /\ v3 \in 0..MaxSlots
        /\ v1["s1"] # v1["s2"]
    BY DEF SubscriptionInv, SubscriptionTypes
  <1>3. v1[s] \in 1..v2 /\ v1[t] \in 1..v2 /\ v1[s] # v1[t]
    BY <1>1, <1>2 DEF TwoSignals
  <1>4. v1' \in [TwoSignals -> 1..(v2 + 1)] /\ v1'[s] = v1[t] /\ v1'[t] = v2 + 1
    <2>1. v2 + 1 \in 1..(v2 + 1) /\ 1..v2 \subseteq 1..(v2 + 1)
      BY <1>2
    <2> DEFINE m == v2 + 1
    <2> HIDE DEF m
    <2>2. v1' = [v1 EXCEPT ![s] = v1[t], ![t] = m] /\ m \in 1..m /\ 1..v2 \subseteq 1..m
      BY <1>1, <2>1 DEF m
    <2>3. v1' \in [TwoSignals -> 1..m] /\ v1'[s] = v1[t] /\ v1'[t] = m
      BY <1>1, <1>2, <1>3, <2>2
    <2> QED
      BY <2>3 DEF m
  <1>5. v1'["s1"] # v1'["s2"]
    <2>1. v1[t] # v2 + 1
      BY <1>2, <1>3
    <2> QED
      BY <1>1, <1>4, <2>1 DEF TwoSignals
  <1>6. \A n \in 1..MaxSlots : v4[n] # v2 + 1 /\ v4[n] \in 0..(v2 + 1)
    BY <1>2
  <1>7. \A n \in 1..v3 : n \in 1..MaxSlots
    BY <1>2, BoundsAssumption
  <1>8. SubscriptionTypes'
    <2>1. v2' \in Nat /\ v4' \in [1..MaxSlots -> 0..v2']
      BY <1>1, <1>2, <1>6
    <2>2. v1' \in [TwoSignals -> 1..v2']
      BY <1>1, <1>4
    <2> QED
      BY <1>1, <1>5, <2>1, <2>2 DEF SubscriptionInv, SubscriptionTypes
  <1>9. Guarded'
    BY <1>1 DEF SubscriptionInv, Guarded
  <1>10. Connected'
    <2>1. \A n \in 1..v3 : (v4[n] = v1["s1"] \/ v4[n] = v1["s2"]) /\ v4[n] # v1[s]
                            <=> v4[n] = v1'["s1"] \/ v4[n] = v1'["s2"]
      BY <1>1, <1>3, <1>4, <1>6, <1>7 DEF TwoSignals
    <2> QED
      BY <1>1, <2>1 DEF SubscriptionInv, Connected
  <1> QED
    BY <1>8, <1>9, <1>10 DEF SubscriptionInv

\* The operations of plain and of scoped handles.
LEMMA SubscriptionHandles ==
  ASSUME SubscriptionInv, NEW h \in AllHandles, NEW o \in AllHandles,
         \/ Subscription!unsubscribe(h) \/ Subscription!reset(h) \/ Subscription!drop(h)
         \/ Subscription!copy(h, o) \/ Subscription!assign(h, o) \/ Subscription!assign_moved(h, o)
         \/ Subscription!move(h, o) \/ Subscription!swap(h, o) \/ Subscription!release(h, o)
  PROVE  SubscriptionInv'
  <1> USE DEF Subscription!Unsubscribed, Subscription!run, Subscription!Holds, Subscription!Guard,
              Subscription!Plain, Subscription!Scoped, Subscription!None, AllHandles, PlainHandles, ScopedHandles
  <1>1. /\ v6 \in [AllHandles -> 0..v3] /\ v8 \subseteq 1..v3 /\ v3 \in 0..MaxSlots
        /\ v6[h] \in 0..v3 /\ v6[o] \in 0..v3 /\ 0 \in 0..v3
        /\ \A n \in 0..v3 : n # 0 => n \in 1..v3
    <2>1. /\ v6 \in [AllHandles -> 0..v3] /\ v8 \subseteq 1..v3 /\ v3 \in 0..MaxSlots
      BY DEF SubscriptionInv, SubscriptionTypes
    <2>2. 0 \in 0..v3 /\ \A n \in 0..v3 : n # 0 => n \in 1..v3
      BY <2>1, BoundsAssumption
    <2> QED
      BY <2>1, <2>2
  <1>2. \A n \in v5 : n \in 1..v3 /\ n # 0
    BY DEF SubscriptionInv, Connected
  <1>3. \A n \in v5 \cap v8 : v6["g1"] = n \/ v6["g2"] = n
    BY DEF SubscriptionInv, Guarded
  <1>4. (\A n \in v5' \cap v8' : v6'["g1"] = n \/ v6'["g2"] = n) => Guarded'
    BY DEF Guarded
  <1>5. CASE Subscription!unsubscribe(h)
    BY <1>1, <1>3, <1>4, <1>5, HandlesChange DEF Subscription!unsubscribe
  <1>6. CASE Subscription!reset(h)
    BY <1>1, <1>3, <1>4, <1>6, HandlesChange DEF Subscription!reset
  <1>7. CASE Subscription!drop(h)
    BY <1>1, <1>3, <1>4, <1>7, HandlesChange DEF Subscription!drop
  <1>8. CASE Subscription!copy(h, o)
    BY <1>1, <1>3, <1>4, <1>8, HandlesChange DEF Subscription!copy
  <1>9. CASE Subscription!assign(h, o)
    BY <1>1, <1>2, <1>3, <1>4, <1>9, HandlesChange DEF Subscription!assign
  <1>10. CASE Subscription!assign_moved(h, o)
    BY <1>1, <1>2, <1>3, <1>4, <1>10, HandlesChange DEF Subscription!assign_moved
  <1>11. CASE Subscription!move(h, o)
    BY <1>1, <1>2, <1>3, <1>4, <1>11, HandlesChange DEF Subscription!move
  <1>12. CASE Subscription!swap(h, o)
    BY <1>1, <1>3, <1>4, <1>12, HandlesChange DEF Subscription!swap
  <1>13. CASE Subscription!release(h, o)
    BY <1>1, <1>2, <1>3, <1>4, <1>13, HandlesChange DEF Subscription!release
  <1> QED
    BY <1>5, <1>6, <1>7, <1>8, <1>9, <1>10, <1>11, <1>12, <1>13

\* Every step keeps the invariant.
LEMMA SubscriptionStep ==
  ASSUME SubscriptionInv, Subscription!Next
  PROVE  SubscriptionInv'
  BY SubscriptionSubscribes, SubscriptionAll, SubscriptionMoves, SubscriptionHandles
  DEF Subscription!Next, Subscription!Signals, Subscription!Handles, Subscription!Plain, Subscription!Scoped,
      TwoSignals, AllHandles, PlainHandles, ScopedHandles

\* The invariant contains what the run checks.
LEMMA SubscriptionSound ==
  ASSUME SubscriptionInv
  PROVE  Subscription!GuardedUntilReset
  <1>1. Subscription!Living = {v1["s1"], v1["s2"]}
    BY DEF Subscription!Living, Subscription!Signals
  <1> QED
    BY <1>1 DEF SubscriptionInv, Guarded, Connected, Subscription!GuardedUntilReset, Subscription!Scoped,
                ScopedHandles

(***************************************************************************)
(* The call contexts of a thread.  v1 made, v2 kind, v3 accepts, v4 stack, *)
(* v5 ctx, v6 closure, v7 kept, v8 channel, v9 sent.                       *)
(***************************************************************************)

\* Context c is linked into the stack of the thread.
OnStack(c) == \E i \in 1..Len(v4) : v4[i] = c

\* The types.
ContextTypes ==
  /\ v1 \in 0..MaxContexts /\ v2 \in [1..MaxContexts -> {"local", "send"}] /\ v3 \subseteq 1..v1
  /\ v4 \in Seq(Nat) /\ v5 \in [1..MaxContexts -> [next : Nat, depth : Nat]]
  /\ DOMAIN v7 = 1..MaxContexts
  /\ v8 \in [accept_callbacks_ : BOOLEAN, static_target_ : Nat]

\* Later calls are higher on the stack; only an executed call is below one that waits.
StackInv ==
  /\ \A i \in 1..Len(v4) :
       /\ v4[i] \in 1..v1
       /\ v5[v4[i]].depth = Len(v4) - i + 1
       /\ v5[v4[i]].next = IF i = Len(v4) THEN 0 ELSE v4[i + 1]
       /\ v2[v4[i]] = "local" => Len(v4) - i + 1 <= max_stack_size
       /\ v2[v4[i]] = "send" /\ i < Len(v4) => v2[v4[i + 1]] = "local"
  /\ \A i, j \in 1..Len(v4) : i < j => v4[j] < v4[i]

\* A keeper copies the context of its call and earlier ones, and they are on the stack
\* as long as that one is.
KeptInv ==
  \A c \in 1..MaxContexts : v7[c] # <<>> =>
    /\ c <= v1 /\ v7[c][1].call = c
    /\ \A i \in DOMAIN v7[c] :
         /\ v7[c][i].call \in Nat /\ v7[c][i].next \in Nat
         /\ v7[c][i].call <= c /\ v7[c][i].next <= c
         /\ OnStack(c) => OnStack(v7[c][i].call) /\ (v7[c][i].next = 0 \/ OnStack(v7[c][i].next))

\* A channel that takes callbacks has a target that does.
ChannelInv == v8.accept_callbacks_ => v8.static_target_ \in v3

\* The inductive invariant of the call contexts.
ContextInv == ContextTypes /\ StackInv /\ KeptInv /\ ChannelInv

\* A thread that executes nothing.
LEMMA ContextStart ==
  ASSUME Context!Init
  PROVE  ContextInv
  <1>1. /\ v1 = 0 /\ v2 = [c \in 1..MaxContexts |-> "local"] /\ v3 = {} /\ v4 = <<>>
        /\ v5 = [c \in 1..MaxContexts |-> [next |-> 0, depth |-> 0]]
        /\ v7 = [c \in 1..MaxContexts |-> <<>>]
        /\ v8 = [accept_callbacks_ |-> FALSE, static_target_ |-> 0]
    BY DEF Context!Init, Context!Calls, Context!None, Context!NoChannel
  <1>2. v8 \in [accept_callbacks_ : BOOLEAN, static_target_ : Nat] /\ ~v8.accept_callbacks_
    BY <1>1, Zenon
  <1>3. ContextTypes
    BY <1>1, <1>2, BoundsAssumption DEF ContextTypes
  <1>4. StackInv /\ KeptInv
    BY <1>1 DEF StackInv, KeptInv
  <1> QED
    BY <1>2, <1>3, <1>4 DEF ContextInv, ChannelInv

\* A call k on top of the stack.
Pushes(k) ==
  /\ v1 < MaxContexts /\ v1' = v1 + 1 /\ v2' = [v2 EXCEPT ![v1 + 1] = k]
  /\ v4' = <<v1 + 1>> \o v4
  /\ v5' = [v5 EXCEPT ![v1 + 1] =
              [next |-> IF v4 = <<>> THEN 0 ELSE Head(v4),
               depth |-> IF v4 = <<>> THEN 1 ELSE v5[Head(v4)].depth + 1]]
  /\ v7' = v7

\* The stack and the copies after a push: the new context links the top of the stack and is
\* one deeper.
LEMMA ContextPush ==
  ASSUME ContextInv, NEW k \in {"local", "send"}, Pushes(k),
         k = "local" => Len(v4) + 1 <= max_stack_size,
         k = "send" /\ v4 # <<>> => v2[Head(v4)] = "local"
  PROVE  /\ StackInv' /\ KeptInv' /\ v4' \in Seq(Nat)
         /\ v5' \in [1..MaxContexts -> [next : Nat, depth : Nat]]
  <1> DEFINE c == v1 + 1
  <1>1. /\ v1 \in Nat /\ c \in Nat /\ c \in 1..MaxContexts /\ v4 \in Seq(Nat)
        /\ v2 \in [1..MaxContexts -> {"local", "send"}]
        /\ v5 \in [1..MaxContexts -> [next : Nat, depth : Nat]]
    <2>1. v1 \in 0..MaxContexts /\ v1 < MaxContexts /\ MaxContexts \in Nat
      BY BoundsAssumption DEF ContextInv, ContextTypes, Pushes
    <2>2. v1 \in Nat /\ c \in Nat /\ c \in 1..MaxContexts
      BY <2>1
    <2> QED
      BY <2>2 DEF ContextInv, ContextTypes
  <1>2. Len(v4) \in Nat /\ \A i \in 1..Len(v4) : v4[i] \in 1..v1
    BY <1>1, LenProperties DEF ContextInv, StackInv
  <1>3. v4 # <<>> => Len(v4) > 0 /\ Head(v4) = v4[1]
    BY <1>1, <1>2, TailAt
  <1>4. v4 = <<>> => Len(v4) = 0
    OBVIOUS
  <1>5. v4' \in Seq(Nat) /\ Len(v4') = Len(v4) + 1 /\ v4'[1] = c
        /\ \A i \in 1..Len(v4) : v4'[i + 1] = v4[i]
    <2>1. /\ <<c>> \in Seq(Nat) /\ Len(<<c>>) = 1 /\ <<c>>[1] = c
      BY <1>1
    <2>2. v4' = <<c>> \o v4
      BY DEF Pushes
    <2> DEFINE h == <<c>>
    <2> HIDE DEF h, c
    <2>3. h \in Seq(Nat) /\ Len(h) = 1 /\ h[1] = c /\ v4' = h \o v4
      BY <2>1, <2>2 DEF h
    <2>9. h \in Seq(Nat) /\ v4 \in Seq(Nat)
      BY <1>1, <2>3
    <2>4. /\ h \o v4 \in Seq(Nat) /\ Len(h \o v4) = Len(h) + Len(v4)
          /\ \A i \in 1..Len(h) : (h \o v4)[i] = h[i]
          /\ \A i \in 1..Len(v4) : (h \o v4)[Len(h) + i] = v4[i]
      BY <2>9, ConcatAt
    <2>5. v4' \in Seq(Nat) /\ Len(v4') = Len(v4) + 1 /\ v4'[1] = c
      BY <1>2, <2>3, <2>4
    <2>6. ASSUME NEW i \in 1..Len(v4) PROVE v4'[i + 1] = v4[i]
      <3>1. v4'[Len(h) + i] = v4[i]
        BY <2>3, <2>4
      <3>2. Len(h) + i = i + 1
        BY <1>2, <2>3
      <3> QED
        BY <3>1, <3>2
    <2> QED
      BY <2>5, <2>6
  <1>6. /\ v5'[c].next = (IF v4 = <<>> THEN 0 ELSE v4[1])
        /\ v5'[c].depth = Len(v4) + 1
        /\ v5' \in [1..MaxContexts -> [next : Nat, depth : Nat]]
        /\ \A d \in 1..MaxContexts : d # c => v5'[d] = v5[d]
    <2> DEFINE r == [next |-> IF v4 = <<>> THEN 0 ELSE Head(v4),
                     depth |-> IF v4 = <<>> THEN 1 ELSE v5[Head(v4)].depth + 1]
    <2>1. v4 # <<>> => v5[v4[1]].depth = Len(v4) /\ v4[1] \in Nat
      BY <1>2, <1>3 DEF ContextInv, StackInv
    <2>2. r \in [next : Nat, depth : Nat] /\ r.next = (IF v4 = <<>> THEN 0 ELSE v4[1])
          /\ r.depth = Len(v4) + 1
      BY <1>2, <1>3, <1>4, <2>1
    <2>3. v5' = [v5 EXCEPT ![c] = r]
      BY DEF Pushes
    <2> HIDE DEF r, c
    <2> QED
      BY <1>1, <2>2, <2>3
  <1>7. /\ v2'[c] = k /\ \A d \in 1..MaxContexts : d # c => v2'[d] = v2[d]
        /\ v1' = c /\ v7' = v7
    BY <1>1 DEF Pushes
  <1>8. \A i \in 1..Len(v4) : v4[i] \in 1..MaxContexts /\ v4[i] # c /\ v4[i] < c
    <2>1. v1 \in Nat /\ v1 < MaxContexts /\ MaxContexts \in Nat
      BY <1>1, BoundsAssumption DEF Pushes
    <2> QED
      BY <1>2, <2>1
  <1> HIDE DEF c
  <1>9. ASSUME NEW i \in 1..Len(v4')
        PROVE  /\ v4'[i] \in 1..v1'
               /\ v5'[v4'[i]].depth = Len(v4') - i + 1
               /\ v5'[v4'[i]].next = IF i = Len(v4') THEN 0 ELSE v4'[i + 1]
               /\ v2'[v4'[i]] = "local" => Len(v4') - i + 1 <= max_stack_size
               /\ v2'[v4'[i]] = "send" /\ i < Len(v4') => v2'[v4'[i + 1]] = "local"
    <2>1. CASE i = 1
      <3>1. v4'[i] = c /\ c \in 1..v1'
        BY <1>1, <1>5, <1>7, <2>1
      <3>2. v5'[c].depth = Len(v4') - i + 1
        BY <1>2, <1>5, <1>6, <2>1
      <3>3. v5'[c].next = IF i = Len(v4') THEN 0 ELSE v4'[i + 1]
        BY <1>2, <1>3, <1>4, <1>5, <1>6, <2>1
      <3>4. v2'[c] = "local" => Len(v4') - i + 1 <= max_stack_size
        BY <1>2, <1>5, <1>7, <2>1
      <3>5. v2'[c] = "send" /\ i < Len(v4') => v2'[v4'[i + 1]] = "local"
        BY <1>2, <1>3, <1>4, <1>5, <1>7, <1>8, <2>1
      <3> QED
        BY <3>1, <3>2, <3>3, <3>4, <3>5
    <2>2. CASE i # 1
      <3> DEFINE j == i - 1
      <3>1. j \in 1..Len(v4) /\ i = j + 1
        BY <1>2, <1>5, <2>2
      <3> HIDE DEF j
      <3>2. /\ v5[v4[j]].depth = Len(v4) - j + 1
            /\ v5[v4[j]].next = IF j = Len(v4) THEN 0 ELSE v4[j + 1]
            /\ v2[v4[j]] = "local" => Len(v4) - j + 1 <= max_stack_size
            /\ v2[v4[j]] = "send" /\ j < Len(v4) => v2[v4[j + 1]] = "local"
        BY <3>1 DEF ContextInv, StackInv
      <3>3. v4'[i] = v4[j] /\ v5'[v4[j]] = v5[v4[j]] /\ v2'[v4[j]] = v2[v4[j]] /\ v4[j] \in 1..v1'
        <4>1. v4'[i] = v4[j] /\ v4[j] \in 1..MaxContexts /\ v4[j] # c /\ v4[j] \in 1..v1
          BY <1>2, <1>5, <1>8, <3>1
        <4>2. 1..v1 \subseteq 1..v1'
          BY <1>1 DEF Pushes
        <4> QED
          BY <1>6, <1>7, <4>1, <4>2
      <3>4. ASSUME j < Len(v4)
            PROVE  j + 1 \in 1..Len(v4) /\ v4'[i + 1] = v4[j + 1] /\ v2'[v4[j + 1]] = v2[v4[j + 1]]
        <4>1. j + 1 \in 1..Len(v4) /\ (j + 1) + 1 = i + 1
          BY <1>2, <3>1, <3>4
        <4>2. v4'[(j + 1) + 1] = v4[j + 1]
          BY <1>5, <4>1
        <4>3. v4[j + 1] \in 1..MaxContexts /\ v4[j + 1] # c
          BY <1>8, <4>1
        <4> QED
          BY <1>7, <4>1, <4>2, <4>3
      <3>5. Len(v4') - i = Len(v4) - j /\ (i = Len(v4') <=> j = Len(v4)) /\ (i < Len(v4') <=> j < Len(v4))
        BY <1>2, <1>5, <3>1
      <3> QED
        BY <1>2, <3>1, <3>2, <3>3, <3>4, <3>5
    <2> QED
      BY <2>1, <2>2
  <1>10. ASSUME NEW i \in 1..Len(v4'), NEW j \in 1..Len(v4'), i < j
         PROVE  v4'[j] < v4'[i]
    <2> DEFINE l == j - 1
    <2>1. l \in 1..Len(v4) /\ v4'[j] = v4[l]
      <3>1. l \in 1..Len(v4) /\ l + 1 = j
        BY <1>2, <1>5, <1>10
      <3> HIDE DEF l
      <3> QED
        BY <1>5, <3>1
    <2>2. CASE i = 1
      BY <1>5, <1>8, <2>1, <2>2
    <2>3. CASE i # 1
      <3> DEFINE m == i - 1
      <3>1. m \in 1..Len(v4) /\ m < l /\ m + 1 = i
        BY <1>2, <1>5, <1>10, <2>3
      <3> HIDE DEF l, m
      <3>2. v4'[i] = v4[m]
        BY <1>5, <3>1
      <3> QED
        BY <2>1, <3>1, <3>2 DEF ContextInv, StackInv
    <2> QED
      BY <2>2, <2>3
  <1>11. StackInv'
    BY <1>9, <1>10 DEF StackInv
  <1>12. KeptInv'
    <2>1. \A d : OnStack(d)' <=> OnStack(d) \/ d = c
      <3>1. ASSUME NEW d, OnStack(d)' PROVE OnStack(d) \/ d = c
        <4>1. PICK i \in 1..Len(v4') : v4'[i] = d
          BY <3>1 DEF OnStack
        <4>2. i # 1 => i - 1 \in 1..Len(v4) /\ v4[i - 1] = d
          BY <1>2, <1>5, <4>1
        <4> QED
          BY <1>5, <4>1, <4>2 DEF OnStack
      <3>2. ASSUME NEW d, OnStack(d) \/ d = c PROVE OnStack(d)'
        <4>1. CASE d = c
          BY <1>2, <1>5, <4>1 DEF OnStack
        <4>2. CASE OnStack(d)
          <5>1. PICK i \in 1..Len(v4) : v4[i] = d
            BY <4>2 DEF OnStack
          <5>2. i + 1 \in 1..Len(v4') /\ v4'[i + 1] = d
            BY <1>2, <1>5, <5>1
          <5> QED
            BY <5>2 DEF OnStack
        <4> QED
          BY <3>2, <4>1, <4>2
      <3> QED
        BY <3>1, <3>2
    <2> SUFFICES ASSUME NEW d \in 1..MaxContexts, v7[d] # <<>>
                 PROVE  /\ d <= v1' /\ v7[d][1].call = d
                        /\ \A i \in DOMAIN v7[d] :
                             /\ v7[d][i].call \in Nat /\ v7[d][i].next \in Nat
                             /\ v7[d][i].call <= d /\ v7[d][i].next <= d
                             /\ OnStack(d)' => OnStack(v7[d][i].call)'
                                               /\ (v7[d][i].next = 0 \/ OnStack(v7[d][i].next)')
      BY <1>7 DEF KeptInv
    <2>2. /\ d <= v1 /\ v7[d][1].call = d
          /\ \A i \in DOMAIN v7[d] :
               /\ v7[d][i].call \in Nat /\ v7[d][i].next \in Nat
               /\ v7[d][i].call <= d /\ v7[d][i].next <= d
               /\ OnStack(d) => OnStack(v7[d][i].call) /\ (v7[d][i].next = 0 \/ OnStack(v7[d][i].next))
      BY DEF ContextInv, KeptInv
    <2>3. d # c /\ d <= v1'
      BY <1>1, <1>7, <2>2 DEF c
    <2>4. OnStack(d)' => OnStack(d)
      BY <2>1, <2>3
    <2>5. \A e : OnStack(e) => OnStack(e)'
      BY <2>1
    <2> HIDE DEF OnStack
    <2> QED
      BY <1>7, <2>2, <2>3, <2>4, <2>5
  <1> QED
    BY <1>5, <1>6, <1>11, <1>12

\* The top context is taken off.
LEMMA ContextPop ==
  ASSUME ContextInv, v4 # <<>>, v4' = Tail(v4), UNCHANGED <<v1, v2, v3, v5, v7, v8>>
  PROVE  ContextInv'
  <1>1. v4 \in Seq(Nat)
    BY DEF ContextInv, ContextTypes
  <1>2. /\ v4' \in Seq(Nat) /\ Len(v4) \in Nat \ {0} /\ Len(v4') = Len(v4) - 1
        /\ \A i \in 1..(Len(v4) - 1) : v4'[i] = v4[i + 1]
    BY <1>1, TailAt
  <1>3. ContextTypes'
    BY <1>2 DEF ContextInv, ContextTypes
  <1>4. ASSUME NEW i \in 1..Len(v4')
        PROVE  /\ v4'[i] \in 1..v1'
               /\ v5'[v4'[i]].depth = Len(v4') - i + 1
               /\ v5'[v4'[i]].next = IF i = Len(v4') THEN 0 ELSE v4'[i + 1]
               /\ v2'[v4'[i]] = "local" => Len(v4') - i + 1 <= max_stack_size
               /\ v2'[v4'[i]] = "send" /\ i < Len(v4') => v2'[v4'[i + 1]] = "local"
    <2> DEFINE j == i + 1
    <2>1. j \in 1..Len(v4) /\ v4'[i] = v4[j] /\ Len(v4') - i = Len(v4) - j
          /\ (i = Len(v4') <=> j = Len(v4)) /\ (i < Len(v4') <=> j < Len(v4))
          /\ (i < Len(v4') => v4'[i + 1] = v4[j + 1])
      <3>1. j \in 1..Len(v4) /\ Len(v4') - i = Len(v4) - j
            /\ (i = Len(v4') <=> j = Len(v4)) /\ (i < Len(v4') <=> j < Len(v4))
            /\ i \in 1..(Len(v4) - 1) /\ (i < Len(v4') => i + 1 \in 1..(Len(v4) - 1))
        <4>1. Len(v4) \in Nat \ {0} /\ Len(v4') = Len(v4) - 1
          BY <1>2
        <4> QED
          BY <4>1
      <3> QED
        BY <1>2, <3>1
    <2> HIDE DEF j
    <2>2. /\ v4[j] \in 1..v1 /\ v5[v4[j]].depth = Len(v4) - j + 1
          /\ v5[v4[j]].next = IF j = Len(v4) THEN 0 ELSE v4[j + 1]
          /\ v2[v4[j]] = "local" => Len(v4) - j + 1 <= max_stack_size
          /\ v2[v4[j]] = "send" /\ j < Len(v4) => v2[v4[j + 1]] = "local"
      BY <2>1 DEF ContextInv, StackInv
    <2>3. i # Len(v4') => i < Len(v4')
      <3>1. Len(v4') \in Nat
        BY <1>2
      <3> QED
        BY <3>1
    <2> QED
      BY <1>2, <2>1, <2>2, <2>3
  <1>5. ASSUME NEW i \in 1..Len(v4'), NEW j \in 1..Len(v4'), i < j
        PROVE  v4'[j] < v4'[i]
    <2>1. i + 1 \in 1..Len(v4) /\ j + 1 \in 1..Len(v4) /\ i + 1 < j + 1
          /\ v4'[i] = v4[i + 1] /\ v4'[j] = v4[j + 1]
      BY <1>2, <1>5
    <2> QED
      BY <2>1 DEF ContextInv, StackInv
  <1>6. StackInv'
    BY <1>4, <1>5 DEF StackInv
  <1>7. KeptInv'
    <2>1. \A d : OnStack(d)' => OnStack(d)
      <3> SUFFICES ASSUME NEW d, OnStack(d)' PROVE OnStack(d)
        OBVIOUS
      <3>1. PICK i \in 1..Len(v4') : v4'[i] = d
        BY DEF OnStack
      <3>2. i + 1 \in 1..Len(v4) /\ v4[i + 1] = d
        BY <1>2, <3>1
      <3> QED
        BY <3>2 DEF OnStack
    <2>2. ASSUME NEW d \in Nat, NEW e \in Nat, OnStack(d)', OnStack(e), e <= d PROVE OnStack(e)'
      <3>1. PICK i \in 1..Len(v4') : v4'[i] = d
        BY <2>2 DEF OnStack
      <3>2. PICK j \in 1..Len(v4) : v4[j] = e
        BY <2>2 DEF OnStack
      <3>3. i + 1 \in 1..Len(v4) /\ v4[i + 1] = d /\ 1 \in 1..Len(v4) /\ 1 < i + 1
        BY <1>2, <3>1
      <3>4. v4[i + 1] < v4[1] /\ v4[1] \in Nat
        BY <3>3 DEF ContextInv, StackInv
      <3>5. j # 1
        BY <2>2, <3>2, <3>3, <3>4
      <3>6. j - 1 \in 1..Len(v4') /\ v4'[j - 1] = e
        BY <1>2, <3>2, <3>5
      <3> QED
        BY <3>6 DEF OnStack
    <2> SUFFICES ASSUME NEW d \in 1..MaxContexts, v7[d] # <<>>
                 PROVE  /\ d <= v1 /\ v7[d][1].call = d
                        /\ \A i \in DOMAIN v7[d] :
                             /\ v7[d][i].call \in Nat /\ v7[d][i].next \in Nat
                             /\ v7[d][i].call <= d /\ v7[d][i].next <= d
                             /\ OnStack(d)' => OnStack(v7[d][i].call)'
                                               /\ (v7[d][i].next = 0 \/ OnStack(v7[d][i].next)')
      BY DEF KeptInv
    <2>3. /\ d <= v1 /\ v7[d][1].call = d
          /\ \A i \in DOMAIN v7[d] :
               /\ v7[d][i].call \in Nat /\ v7[d][i].next \in Nat
               /\ v7[d][i].call <= d /\ v7[d][i].next <= d
               /\ OnStack(d) => OnStack(v7[d][i].call) /\ (v7[d][i].next = 0 \/ OnStack(v7[d][i].next))
      BY DEF ContextInv, KeptInv
    <2>4. d \in Nat
      OBVIOUS
    <2> QED
      BY <2>1, <2>2, <2>3, <2>4
  <1> QED
    BY <1>3, <1>6, <1>7 DEF ContextInv, ChannelInv

\* A step that leaves the stack, its contexts and the keepers alone.
LEMMA ContextSame ==
  ASSUME ContextInv, UNCHANGED <<v4, v5, v7>>, v1' \in v1..MaxContexts,
         v2' \in [1..MaxContexts -> {"local", "send"}], \A c \in 1..v1 : v2'[c] = v2[c],
         v3 \subseteq v3', v3' \subseteq 1..v1',
         v8' \in [accept_callbacks_ : BOOLEAN, static_target_ : Nat],
         v8'.accept_callbacks_ => v8'.static_target_ \in v3'
  PROVE  ContextInv'
  <1>1. v1 \in Nat /\ v1' \in Nat /\ v1 <= v1' /\ v1' <= MaxContexts /\ MaxContexts \in Nat
    BY BoundsAssumption DEF ContextInv, ContextTypes
  <1>2. ContextTypes'
    BY <1>1 DEF ContextInv, ContextTypes
  <1>3. StackInv'
    <2>1. 1..v1 \subseteq 1..v1'
      BY <1>1
    <2>2. Len(v4) \in Nat
      BY LenProperties DEF ContextInv, ContextTypes
    <2>3. \A i \in 1..Len(v4) : v4[i] \in 1..v1 /\ (i < Len(v4) => i + 1 \in 1..Len(v4) /\ v4[i + 1] \in 1..v1)
      <3>1. \A i \in 1..Len(v4) : v4[i] \in 1..v1
        BY DEF ContextInv, StackInv
      <3>2. \A i \in 1..Len(v4) : i < Len(v4) => i + 1 \in 1..Len(v4)
        BY <2>2
      <3> QED
        BY <3>1, <3>2
    <2> QED
      BY <2>1, <2>3 DEF ContextInv, StackInv
  <1>4. KeptInv'
    BY <1>1 DEF ContextInv, KeptInv, OnStack
  <1> QED
    BY <1>2, <1>3, <1>4 DEF ContextInv, ChannelInv

\* What a new call leaves of the invariant, whether or not it goes on the stack.
LEMMA ContextNew ==
  ASSUME ContextInv, NEW k \in {"local", "send"}, NEW w \in BOOLEAN, Context!NewCall(k, w)
  PROVE  /\ v1 \in Nat /\ v1' = v1 + 1 /\ v1' \in v1..MaxContexts
         /\ v1 < MaxContexts /\ v2' = [v2 EXCEPT ![v1 + 1] = k]
         /\ v2' \in [1..MaxContexts -> {"local", "send"}] /\ \A c \in 1..v1 : v2'[c] = v2[c]
         /\ v3 \subseteq v3' /\ v3' \subseteq 1..v1'
  <1>1. v1 \in 0..MaxContexts /\ v1 < MaxContexts /\ MaxContexts \in Nat /\ v1' = v1 + 1
    BY BoundsAssumption DEF ContextInv, ContextTypes, Context!NewCall
  <1>2. v1 \in Nat /\ v1' \in v1..MaxContexts /\ v1 + 1 \in 1..MaxContexts
    BY <1>1
  <1>3. v2' = [v2 EXCEPT ![v1 + 1] = k] /\ v2 \in [1..MaxContexts -> {"local", "send"}]
    BY DEF ContextInv, ContextTypes, Context!NewCall
  <1>4. \A c \in 1..v1 : c # v1 + 1 /\ c \in 1..MaxContexts
    BY <1>1
  <1>5. v2' \in [1..MaxContexts -> {"local", "send"}] /\ \A c \in 1..v1 : v2'[c] = v2[c]
    BY <1>2, <1>3, <1>4
  <1>6. v3 \subseteq 1..v1 /\ v3' = (IF w THEN v3 \cup {v1 + 1} ELSE v3)
    BY DEF ContextInv, ContextTypes, Context!NewCall
  <1>7. v3 \subseteq v3' /\ v3' \subseteq 1..v1'
    BY <1>1, <1>6
  <1> QED
    BY <1>1, <1>2, <1>3, <1>5, <1>7

\* push_call_context, of a call this thread executes and of one it makes.
LEMMA ContextPushed ==
  ASSUME ContextInv, NEW k \in {"local", "send"}, NEW w \in BOOLEAN,
         Context!NewCall(k, w), Context!push_call_context(v1 + 1), UNCHANGED <<v7, v8>>,
         k = "local" => v5'[v1 + 1].depth <= max_stack_size,
         k = "send" /\ v4 # <<>> => v2[Head(v4)] = "local"
  PROVE  ContextInv'
  <1>1. Pushes(k)
    BY ContextNew DEF Pushes, Context!push_call_context, Context!get_call_context, Context!None
  <1>2. k = "local" => Len(v4) + 1 <= max_stack_size
    <2> SUFFICES ASSUME k = "local" PROVE Len(v4) + 1 <= max_stack_size
      OBVIOUS
    <2>1. v4 \in Seq(Nat) /\ v1 \in Nat /\ v1 + 1 \in 1..MaxContexts
          /\ v5 \in [1..MaxContexts -> [next : Nat, depth : Nat]]
      BY ContextNew DEF ContextInv, ContextTypes
    <2>2. v5'[v1 + 1].depth = IF v4 = <<>> THEN 1 ELSE v5[Head(v4)].depth + 1
      BY <1>1, <2>1 DEF Pushes
    <2>3. CASE v4 = <<>>
      BY <2>2, <2>3
    <2>4. CASE v4 # <<>>
      <3>1. Len(v4) \in Nat /\ 1 \in 1..Len(v4) /\ Head(v4) = v4[1]
        BY <2>1, <2>4, TailAt
      <3>2. v5[v4[1]].depth = Len(v4) - 1 + 1
        BY <3>1 DEF ContextInv, StackInv
      <3> QED
        BY <2>2, <2>4, <3>1, <3>2
    <2> QED
      BY <2>3, <2>4
  <1>3. /\ StackInv' /\ KeptInv' /\ v4' \in Seq(Nat)
        /\ v5' \in [1..MaxContexts -> [next : Nat, depth : Nat]]
    BY <1>1, <1>2, ContextPush
  <1>4. /\ v1' \in 0..MaxContexts /\ v2' \in [1..MaxContexts -> {"local", "send"}]
        /\ v3 \subseteq v3' /\ v3' \subseteq 1..v1'
    <2>1. /\ v1 \in Nat /\ v1' \in v1..MaxContexts /\ v2' \in [1..MaxContexts -> {"local", "send"}]
          /\ v3 \subseteq v3' /\ v3' \subseteq 1..v1'
      BY ContextNew
    <2> QED
      BY <2>1, BoundsAssumption
  <1>5. ContextTypes'
    BY <1>3, <1>4 DEF ContextInv, ContextTypes
  <1>6. ChannelInv'
    BY <1>4 DEF ContextInv, ChannelInv
  <1> QED
    BY <1>3, <1>5, <1>6 DEF ContextInv

\* A keeper copies the stack.
LEMMA ContextKeeps ==
  ASSUME ContextInv, Context!MakeKeeper
  PROVE  ContextInv'
  <1> DEFINE h == Head(v4)  K == [i \in DOMAIN v4 |-> [call |-> v4[i], next |-> v5[v4[i]].next]]
  <1>1. /\ v4 # <<>> /\ v7' = [v7 EXCEPT ![h] = K] /\ UNCHANGED <<v1, v2, v3, v4, v5, v8>>
    BY DEF Context!MakeKeeper, Context!clone_stack
  <1>2. v4 \in Seq(Nat) /\ DOMAIN v7 = 1..MaxContexts /\ v1 \in 0..MaxContexts
        /\ v5 \in [1..MaxContexts -> [next : Nat, depth : Nat]]
    BY DEF ContextInv, ContextTypes
  <1>3. /\ DOMAIN v4 = 1..Len(v4) /\ Len(v4) \in Nat \ {0} /\ h = v4[1]
    BY <1>1, <1>2, TailAt
  <1>4. h \in 1..v1 /\ h \in 1..MaxContexts
    <2>1. h \in 1..v1
      <3>1. 1 \in 1..Len(v4)
        BY <1>3
      <3> HIDE DEF h
      <3> QED
        BY <1>3, <3>1 DEF ContextInv, StackInv
    <2> QED
      BY <1>2, <2>1, BoundsAssumption
  <1>5. \A i \in 1..Len(v4) : v4[i] \in Nat /\ v4[i] <= h /\ OnStack(v4[i])
    <2> SUFFICES ASSUME NEW i \in 1..Len(v4) PROVE v4[i] \in Nat /\ v4[i] <= h /\ OnStack(v4[i])
      OBVIOUS
    <2>1. v4[i] \in 1..v1
      BY DEF ContextInv, StackInv
    <2>2. v4[i] \in Nat /\ OnStack(v4[i])
      BY <2>1 DEF OnStack
    <2>3. i # 1 => v4[i] < v4[1]
      <3>1. i # 1 => 1 < i /\ 1 \in 1..Len(v4)
        BY <1>3
      <3> QED
        BY <3>1 DEF ContextInv, StackInv
    <2> QED
      BY <1>3, <1>4, <2>2, <2>3
  <1>6. ASSUME NEW i \in DOMAIN K
        PROVE  /\ K[i].call \in Nat /\ K[i].next \in Nat /\ K[i].call <= h /\ K[i].next <= h
               /\ OnStack(K[i].call) /\ (K[i].next = 0 \/ OnStack(K[i].next))
    <2>1. i \in 1..Len(v4) /\ K[i].call = v4[i] /\ K[i].next = v5[v4[i]].next
      BY <1>3
    <2>2. v5[v4[i]].next = IF i = Len(v4) THEN 0 ELSE v4[i + 1]
      BY <2>1 DEF ContextInv, StackInv
    <2>3. i # Len(v4) => i + 1 \in 1..Len(v4)
      BY <1>3, <2>1
    <2>4. h \in Nat
      BY <1>4
    <2> HIDE DEF K, h
    <2> QED
      BY <1>5, <2>1, <2>2, <2>3, <2>4
  <1>7. K[1].call = h
    BY <1>3
  <1>8. v7'[h] = K /\ \A d \in 1..MaxContexts : d # h => v7'[d] = v7[d]
    BY <1>1, <1>2, <1>4
  <1>9. DOMAIN v7' = 1..MaxContexts
    BY <1>1, <1>2
  <1>10. KeptInv'
    <2> HIDE DEF K, h
    <2> SUFFICES ASSUME NEW d \in 1..MaxContexts, v7'[d] # <<>>
                 PROVE  /\ d <= v1 /\ v7'[d][1].call = d
                        /\ \A i \in DOMAIN v7'[d] :
                             /\ v7'[d][i].call \in Nat /\ v7'[d][i].next \in Nat
                             /\ v7'[d][i].call <= d /\ v7'[d][i].next <= d
                             /\ OnStack(d)' => OnStack(v7[d][i].call)'
                                               /\ (v7'[d][i].next = 0 \/ OnStack(v7[d][i].next)')
      BY <1>1 DEF KeptInv
    <2>1. \A e : OnStack(e)' <=> OnStack(e)
      BY <1>1 DEF OnStack
    <2>2. CASE d = h
      <3>1. d <= v1
        BY <1>2, <1>4, <2>2
      <3>2. OnStack(d) \/ TRUE
        OBVIOUS
      <3> QED
        BY <1>6, <1>7, <1>8, <2>1, <2>2, <3>1
    <2>3. CASE d # h
      BY <1>8, <2>1, <2>3 DEF ContextInv, KeptInv
    <2> QED
      BY <2>2, <2>3
  <1>11. ContextTypes'
    BY <1>1, <1>9 DEF ContextInv, ContextTypes
  <1>12. StackInv' /\ ChannelInv'
    BY <1>1 DEF ContextInv, StackInv, ChannelInv
  <1> QED
    BY <1>10, <1>11, <1>12 DEF ContextInv

\* The closure that keeps a copied stack goes.
LEMMA ContextDrops ==
  ASSUME ContextInv, NEW c \in 1..MaxContexts, Context!DropKeeper(c)
  PROVE  ContextInv'
  <1>1. v7' = [v7 EXCEPT ![c] = <<>>] /\ UNCHANGED <<v1, v2, v3, v4, v5, v8>>
    BY DEF Context!DropKeeper
  <1>2. DOMAIN v7 = 1..MaxContexts
    BY DEF ContextInv, ContextTypes
  <1>3. /\ DOMAIN v7' = 1..MaxContexts /\ v7'[c] = <<>>
        /\ \A d \in 1..MaxContexts : d # c => v7'[d] = v7[d]
    BY <1>1, <1>2
  <1>4. \A e : OnStack(e)' <=> OnStack(e)
    BY <1>1 DEF OnStack
  <1>5. KeptInv'
    <2> SUFFICES ASSUME NEW d \in 1..MaxContexts, v7'[d] # <<>>
                 PROVE  /\ d <= v1 /\ v7'[d][1].call = d
                        /\ \A i \in DOMAIN v7'[d] :
                             /\ v7'[d][i].call \in Nat /\ v7'[d][i].next \in Nat
                             /\ v7'[d][i].call <= d /\ v7'[d][i].next <= d
                             /\ OnStack(d)' => OnStack(v7[d][i].call)'
                                               /\ (v7'[d][i].next = 0 \/ OnStack(v7[d][i].next)')
      BY <1>1 DEF KeptInv
    <2> QED
      BY <1>3, <1>4 DEF ContextInv, KeptInv
  <1>6. ContextTypes'
    BY <1>1, <1>3 DEF ContextInv, ContextTypes
  <1>7. StackInv' /\ ChannelInv'
    BY <1>1 DEF ContextInv, StackInv, ChannelInv
  <1> QED
    BY <1>5, <1>6, <1>7 DEF ContextInv

\* A new channel takes the context it is made in.
LEMMA ContextChannel ==
  ASSUME ContextInv, Context!MakeChannel
  PROVE  ContextInv'
  <1> DEFINE g == Context!get_call_context
  <1>1. v8' = [accept_callbacks_ |-> g # 0 /\ g \in v3, static_target_ |-> g]
        /\ UNCHANGED <<v1, v2, v3, v4, v5, v7>>
    BY DEF Context!MakeChannel, Context!can_accept_callbacks, Context!None
  <1>2. g \in Nat
    <2>1. v4 \in Seq(Nat)
      BY DEF ContextInv, ContextTypes
    <2>2. v4 # <<>> => Head(v4) \in Nat
      BY <2>1, TailAt
    <2> QED
      BY <2>2 DEF Context!get_call_context, Context!None
  <1> HIDE DEF g
  <1>3. v8' \in [accept_callbacks_ : BOOLEAN, static_target_ : Nat]
    BY <1>1, <1>2
  <1>4. v8'.accept_callbacks_ => v8'.static_target_ \in v3
    BY <1>1, Zenon
  <1>5. v1' \in v1..MaxContexts /\ v2' \in [1..MaxContexts -> {"local", "send"}]
        /\ v3' \subseteq 1..v1'
    BY <1>1, BoundsAssumption DEF ContextInv, ContextTypes
  <1> QED
    BY <1>1, <1>3, <1>4, <1>5, ContextSame

\* A step that leaves these variables alone keeps the invariant.
LEMMA ContextRests ==
  ASSUME ContextInv, UNCHANGED <<v1, v2, v3, v4, v5, v7, v8>>
  PROVE  ContextInv'
  <1>1. v1' \in v1..MaxContexts /\ v2' \in [1..MaxContexts -> {"local", "send"}]
        /\ v3' \subseteq 1..v1' /\ v8' \in [accept_callbacks_ : BOOLEAN, static_target_ : Nat]
        /\ (v8'.accept_callbacks_ => v8'.static_target_ \in v3')
    BY BoundsAssumption DEF ContextInv, ContextTypes, ChannelInv
  <1> QED
    BY <1>1, ContextSame

\* Every step keeps the invariant.
LEMMA ContextStep ==
  ASSUME ContextInv, Context!Next
  PROVE  ContextInv'
  <1>1. ASSUME NEW w \in BOOLEAN, Context!make_local_call(w) PROVE ContextInv'
    BY <1>1, ContextPushed DEF Context!make_local_call
  <1>2. ASSUME NEW w \in BOOLEAN, Context!make_local_call_fails(w) PROVE ContextInv'
    <2>1. Context!NewCall("local", w) /\ UNCHANGED <<v4, v5, v7, v8>>
      BY <1>2 DEF Context!make_local_call_fails
    <2>2. /\ v1' \in v1..MaxContexts
          /\ v2' \in [1..MaxContexts -> {"local", "send"}] /\ \A c \in 1..v1 : v2'[c] = v2[c]
          /\ v3 \subseteq v3' /\ v3' \subseteq 1..v1'
      BY <2>1, ContextNew
    <2>3. v8' \in [accept_callbacks_ : BOOLEAN, static_target_ : Nat]
          /\ (v8'.accept_callbacks_ => v8'.static_target_ \in v3')
      BY <2>1, <2>2 DEF ContextInv, ContextTypes, ChannelInv
    <2> QED
      BY <2>1, <2>2, <2>3, ContextSame
  <1>3. CASE Context!ServiceReturns \/ Context!call_and_wait
    BY <1>3, ContextPop DEF Context!ServiceReturns, Context!call_and_wait, Context!pop_call_context
  <1>4. ASSUME NEW c \in Context!Calls, Context!closure_runner(c) PROVE ContextInv'
    BY <1>4, ContextRests DEF Context!closure_runner
  <1>5. ASSUME NEW f \in SUBSET Context!Flags, NEW w \in BOOLEAN, Context!send_message(f, w)
        PROVE  ContextInv'
    <2>1. CASE w /\ v9'.type # "refused"
      BY <1>5, <2>1, ContextPushed DEF Context!send_message
    <2>2. CASE ~(w /\ v9'.type # "refused")
      BY <1>5, <2>2, ContextRests DEF Context!send_message
    <2> QED
      BY <2>1, <2>2
  <1> QED
    BY <1>1, <1>2, <1>3, <1>4, <1>5, ContextKeeps, ContextDrops, ContextChannel DEF Context!Next, Context!Calls

\* The invariant contains what the run checks.
LEMMA ContextSound ==
  ASSUME ContextInv
  PROVE  Context!StackLinked /\ Context!KeptIsSafe
  <1>1. v4 \in Seq(Nat) /\ v2 \in [1..MaxContexts -> {"local", "send"}] /\ v1 \in 0..MaxContexts
    BY DEF ContextInv, ContextTypes
  <1>2. Len(v4) \in Nat /\ DOMAIN v4 = 1..Len(v4)
    BY <1>1, LenProperties
  <1>3. Len(v4) <= max_stack_size + 1
    <2>1. CASE Len(v4) = 0
      BY <2>1, BoundsAssumption
    <2>2. CASE Len(v4) > 0 /\ v2[v4[1]] = "local"
      <3>1. 1 \in 1..Len(v4)
        BY <1>2, <2>2
      <3>2. Len(v4) - 1 + 1 <= max_stack_size
        BY <2>2, <3>1 DEF ContextInv, StackInv
      <3> QED
        BY <1>2, <3>2, BoundsAssumption
    <2>3. CASE Len(v4) = 1
      BY <2>3, BoundsAssumption
    <2>4. CASE Len(v4) > 1 /\ v2[v4[1]] = "send"
      <3>1. 1 \in 1..Len(v4) /\ 2 \in 1..Len(v4)
        BY <1>2, <2>4
      <3>2. v2[v4[2]] = "local"
        <4>1. v2[v4[1]] = "send" /\ 1 < Len(v4) => v2[v4[1 + 1]] = "local"
          BY <3>1 DEF ContextInv, StackInv
        <4> QED
          BY <1>2, <2>4, <4>1
      <3>3. Len(v4) - 2 + 1 <= max_stack_size
        BY <3>1, <3>2 DEF ContextInv, StackInv
      <3> QED
        BY <1>2, <3>3, BoundsAssumption
    <2>5. Len(v4) > 0 => v2[v4[1]] \in {"local", "send"}
      <3>1. Len(v4) > 0 => 1 \in 1..Len(v4)
        BY <1>2
      <3>2. Len(v4) > 0 => v4[1] \in 1..v1
        BY <3>1 DEF ContextInv, StackInv
      <3> QED
        BY <1>1, <3>2, BoundsAssumption
    <2> QED
      BY <1>2, <2>1, <2>2, <2>3, <2>4, <2>5
  <1>4. Context!StackLinked
    BY <1>2, <1>3 DEF ContextInv, StackInv, Context!StackLinked, Context!None
  <1>5. Context!KeptIsSafe
    BY DEF ContextInv, KeptInv, OnStack, Context!KeptIsSafe, Context!Calls, Context!UnitAlive,
           Context!Contains, Context!None
  <1> QED
    BY <1>4, <1>5

\* A message that is sent out has the right target.
LEMMA ContextTarget ==
  ASSUME ContextInv, Context!Next, v9' # v9
  PROVE  Context!TargetRight
  <1>1. ASSUME NEW f \in SUBSET Context!Flags, NEW w \in BOOLEAN, Context!send_message(f, w)
        PROVE  Context!TargetRight
    <2>1. v9' = Context!configure_message(f)
      BY <1>1 DEF Context!send_message
    <2>2. CASE "USE_CONTEXT_CALL" \notin f
      <3>1. v9'.type = "call"
        BY <2>1, <2>2 DEF Context!configure_message
      <3> QED
        BY <3>1 DEF Context!TargetRight
    <2>3. CASE "USE_CONTEXT_CALL" \in f /\ "USE_STATIC_CONTEXT" \in f /\ v8.accept_callbacks_
      <3>1. v9' = [type |-> "callback", target |-> v8.static_target_, static |-> TRUE]
        BY <2>1, <2>3 DEF Context!configure_message
      <3>2. v9'.target \in v3 /\ v9'.static
        BY <2>3, <3>1, Zenon DEF ContextInv, ChannelInv
      <3> QED
        BY <3>2 DEF Context!TargetRight
    <2>4. CASE "USE_CONTEXT_CALL" \in f /\ "USE_STATIC_CONTEXT" \in f /\ ~v8.accept_callbacks_
      <3>1. v9'.type = "refused"
        BY <2>1, <2>4 DEF Context!configure_message
      <3> QED
        BY <3>1 DEF Context!TargetRight
    <2>5. CASE /\ "USE_CONTEXT_CALL" \in f /\ "USE_STATIC_CONTEXT" \notin f
               /\ Context!can_accept_callbacks(Context!get_call_context)
      <3>1. v9'.target = Context!get_call_context
        BY <2>1, <2>5 DEF Context!configure_message
      <3> QED
        BY <2>5, <3>1 DEF Context!TargetRight, Context!can_accept_callbacks, Context!get_call_context
    <2>6. CASE /\ "USE_CONTEXT_CALL" \in f /\ "USE_STATIC_CONTEXT" \notin f
               /\ ~Context!can_accept_callbacks(Context!get_call_context)
      <3>1. v9'.type = "call"
        BY <2>1, <2>6 DEF Context!configure_message
      <3> QED
        BY <3>1 DEF Context!TargetRight
    <2> QED
      BY <2>2, <2>3, <2>4, <2>5, <2>6
  <1>2. \E f \in SUBSET Context!Flags, w \in BOOLEAN : Context!send_message(f, w)
    BY DEF Context!Next, Context!make_local_call, Context!make_local_call_fails, Context!ServiceReturns,
           Context!MakeKeeper, Context!MakeChannel, Context!call_and_wait, Context!closure_runner,
           Context!DropKeeper
  <1> QED
    BY <1>1, <1>2

(***************************************************************************)
(* The parts of MCLibrary that link contexts, nodes and handles: one of    *)
(* them runs, and its invariant holds.                                     *)
(***************************************************************************)

\* What is known of the part that runs.
LinkedPartInv ==
  /\ part = "context" => ContextInv
  /\ part = "list" => ListInv
  /\ part = "subscriptions" => SubscriptionInv

\* It holds when the part begins.
LEMMA LinkedPartInvStart ==
  ASSUME LibraryInit
  PROVE  LinkedPartInv
  <1>1. /\ part = "context" => Context!Init
        /\ part = "list" => List!Init
        /\ part = "subscriptions" => Subscription!Init
    BY DEF LibraryInit
  <1> QED
    BY <1>1, ContextStart, ListStart, SubscriptionStart DEF LinkedPartInv

\* A step that leaves the variables alone keeps what is known.
LEMMA SubscriptionRests ==
  ASSUME SubscriptionInv, UNCHANGED all
  PROVE  SubscriptionInv'
  <1>1. v1' = v1 /\ v2' = v2 /\ v3' = v3 /\ v4' = v4 /\ v5' = v5 /\ v6' = v6 /\ v7' = v7 /\ v8' = v8
    BY DEF all
  <1>2. SubscriptionTypes'
    BY <1>1 DEF SubscriptionInv, SubscriptionTypes
  <1>3. Guarded' /\ Connected'
    BY <1>1 DEF SubscriptionInv, Guarded, Connected
  <1> QED
    BY <1>2, <1>3 DEF SubscriptionInv

\* Every step of the part that runs keeps it, whichever part that is.
LEMMA LinkedPartInvStep ==
  ASSUME LinkedPartInv, [LibraryNext]_all
  PROVE  LinkedPartInv'
  <1>1. CASE UNCHANGED all
    <2>1. part' = part
      BY <1>1 DEF all
    <2>2. SubscriptionInv => SubscriptionInv'
      BY <1>1, SubscriptionRests
    <2>3. ContextInv => ContextInv'
      <3>1. UNCHANGED <<v1, v2, v3, v4, v5, v7, v8>>
        BY <1>1 DEF all
      <3> QED
        BY <3>1, ContextRests
    <2>4. ListInv => ListInv'
      <3>1. UNCHANGED <<v1, v2, v3, v4, v5, v6, v7, v8, v9, v10>>
        BY <1>1 DEF all
      <3> QED
        BY <3>1, ListRests
    <2> QED
      BY <2>1, <2>2, <2>3, <2>4 DEF LinkedPartInv
  <1>2. CASE LibraryNext
    <2>1. part' = part
      BY <1>2 DEF LibraryNext, Same15, Same13, Same10, Same9, Same8, Same6, Same5
    <2>2. /\ part = "context" => Context!Next
          /\ part = "list" => List!Next
          /\ part = "subscriptions" => Subscription!Next
      BY <1>2 DEF LibraryNext
    <2> QED
      BY <2>1, <2>2, ContextStep, ListStep, SubscriptionStep DEF LinkedPartInv
  <1> QED
    BY <1>1, <1>2

\* For any number of calls, nodes and slots, the linked call contexts with the copies made
\* of them and the list behind a signal lead to nothing that was freed, but in the cases
\* the modules name, and a scoped subscription ends with its owner.
\* (protocol-layer.cpp: clone_stack, observer/list.h, observer/scoped-subscription.h)
THEOREM PointersStayValid == LibrarySpec => []PointersValid
  <1>1. LinkedPartInv => PointersValid
    BY ContextSound, ListSound, SubscriptionSound DEF LinkedPartInv, PointersValid
  <1> QED
    BY <1>1, LinkedPartInvStart, LinkedPartInvStep, PTL DEF LibrarySpec

\* For any number of nested calls, a callback goes to the call this thread executes, or
\* to that of a static context, and only if that call accepts callbacks.
\* (rpc-channel.cpp: configure_message)
THEOREM CallbacksFindTheirCall == LibrarySpec => CallbackTarget
  <1>1. LinkedPartInv /\ [LibraryNext]_all => [part = "context" /\ v9' # v9 => Context!TargetRight]_all
    <2> SUFFICES ASSUME LinkedPartInv, LibraryNext, part = "context", v9' # v9
                 PROVE  Context!TargetRight
      BY DEF all
    <2>1. ContextInv
      BY DEF LinkedPartInv
    <2>2. Context!Next
      BY DEF LibraryNext
    <2> QED
      BY <2>1, <2>2, ContextTarget
  <1> QED
    BY <1>1, LinkedPartInvStart, LinkedPartInvStep, PTL DEF LibrarySpec, CallbackTarget
==============================================================================
