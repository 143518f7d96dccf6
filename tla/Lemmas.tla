-------------------------------- MODULE Lemmas --------------------------------
(***************************************************************************)
(* Lemmas that the proofs of several components use: elements of sequences *)
(* after the usual operations, how many of them are in a set, and          *)
(* induction and recursion over the natural numbers in a form that needs   *)
(* no operator as a parameter.                                             *)
(***************************************************************************)
EXTENDS Integers, Sequences, SequenceTheorems, WellFoundedInduction,
        FiniteSetTheorems, TLAPS

\* Elements of a sequence after Append and Tail, and of a concatenation.
LEMMA AppendAt ==
  ASSUME NEW S, NEW s \in Seq(S), NEW e \in S
  PROVE  /\ Append(s, e) \in Seq(S)
         /\ Len(Append(s, e)) = Len(s) + 1
         /\ DOMAIN Append(s, e) = 1..(Len(s) + 1)
         /\ \A i \in 1..Len(s) : Append(s, e)[i] = s[i]
         /\ Append(s, e)[Len(s) + 1] = e
  BY AppendProperties, LenProperties

LEMMA TailAt ==
  ASSUME NEW S, NEW s \in Seq(S), s # <<>>
  PROVE  /\ Tail(s) \in Seq(S)
         /\ Len(s) \in Nat \ {0}
         /\ Len(Tail(s)) = Len(s) - 1
         /\ DOMAIN Tail(s) = 1..(Len(s) - 1)
         /\ \A i \in 1..(Len(s) - 1) : Tail(s)[i] = s[i + 1]
         /\ Head(s) = s[1]
         /\ Head(s) \in S
         /\ DOMAIN s = 1..Len(s)
  BY HeadTailProperties, LenProperties, ElementOfSeq

LEMMA ConcatAt ==
  ASSUME NEW S, NEW s \in Seq(S), NEW t \in Seq(S)
  PROVE  /\ s \o t \in Seq(S)
         /\ Len(s \o t) = Len(s) + Len(t)
         /\ DOMAIN (s \o t) = 1..(Len(s) + Len(t))
         /\ \A i \in 1..Len(s) : (s \o t)[i] = s[i]
         /\ \A i \in 1..Len(t) : (s \o t)[Len(s) + i] = t[i]
  <1>1. s \o t \in Seq(S) /\ Len(s \o t) = Len(s) + Len(t)
    BY ConcatProperties
  <1>2. Len(s) \in Nat /\ Len(t) \in Nat
    BY LenProperties
  <1>3. DOMAIN (s \o t) = 1..(Len(s) + Len(t))
    BY <1>1, LenProperties
  <1>4. \A i \in 1..(Len(s) + Len(t)) :
          (s \o t)[i] = IF i <= Len(s) THEN s[i] ELSE t[i - Len(s)]
    BY ConcatProperties
  <1> QED
    BY <1>1, <1>2, <1>3, <1>4

LEMMA SeqWiden ==
  ASSUME NEW S, NEW T, S \subseteq T, NEW s \in Seq(S)
  PROVE  s \in Seq(T)
  <1>1. s \in [1..Len(s) -> S] /\ Len(s) \in Nat
    BY LenProperties
  <1>2. s \in [1..Len(s) -> T]
    BY <1>1
  <1> QED
    BY <1>1, <1>2, SeqDef

\* Two sequences of the same length and elements are the same.
LEMMA SameSeq ==
  ASSUME NEW S, NEW s \in Seq(S), NEW t \in Seq(S), Len(s) = Len(t),
         \A i \in 1..Len(s) : s[i] = t[i]
  PROVE  s = t
  <1>1. DOMAIN s = 1..Len(s) /\ DOMAIN t = 1..Len(t)
    BY LenProperties
  <1>2. s = [i \in 1..Len(s) |-> s[i]] /\ t = [i \in 1..Len(s) |-> t[i]]
    BY LenProperties
  <1> QED
    BY <1>2

\* Part m..n of a sequence that has such a part, or an empty one.
LEMMA SubSeqAt ==
  ASSUME NEW S, NEW s \in Seq(S), NEW m \in Nat \ {0}, NEW n \in Nat, n <= Len(s), m <= n + 1
  PROVE  /\ SubSeq(s, m, n) \in Seq(S)
         /\ Len(SubSeq(s, m, n)) = n + 1 - m
         /\ DOMAIN SubSeq(s, m, n) = 1..(n + 1 - m)
         /\ \A i \in 1..(n + 1 - m) : SubSeq(s, m, n)[i] = s[m - 1 + i]
  <1> DEFINE u == SubSeq(s, m, n)
  <1>1. Len(s) \in Nat /\ \A i \in m..n : s[i] \in S
    BY LenProperties, ElementOfSeq
  <1>2. /\ u \in Seq(S)
        /\ Len(u) = IF m <= n THEN n - m + 1 ELSE 0
        /\ \A i \in 1..(n - m + 1) : u[i] = s[m + i - 1]
    BY <1>1, SubSeqProperties
  <1> HIDE DEF u
  <1>3. Len(u) = n + 1 - m /\ \A i \in 1..(n + 1 - m) : u[i] = s[m - 1 + i]
    <2>1. Len(u) = n + 1 - m
      BY <1>2
    <2>2. ASSUME NEW i \in 1..(n + 1 - m) PROVE u[i] = s[m - 1 + i]
      <3>1. i \in 1..(n - m + 1) /\ m + i - 1 = m - 1 + i
        BY <2>2
      <3> QED
        BY <1>2, <3>1, Zenon
    <2> QED
      BY <2>1, <2>2
  <1>4. DOMAIN u = 1..(n + 1 - m)
    BY <1>2, <1>3, LenProperties
  <1> QED
    BY <1>2, <1>3, <1>4 DEF u

\* A sequence is its first n elements followed by the others.
LEMMA SplitAt ==
  ASSUME NEW S, NEW s \in Seq(S), NEW n \in 0..Len(s)
  PROVE  /\ SubSeq(s, 1, n) \in Seq(S) /\ Len(SubSeq(s, 1, n)) = n
         /\ SubSeq(s, n + 1, Len(s)) \in Seq(S) /\ Len(SubSeq(s, n + 1, Len(s))) = Len(s) - n
         /\ SubSeq(s, 1, n) \o SubSeq(s, n + 1, Len(s)) = s
  <1>1. Len(s) \in Nat
    BY LenProperties
  <1>2. /\ SubSeq(s, 1, n) \in Seq(S) /\ Len(SubSeq(s, 1, n)) = n
        /\ SubSeq(s, n + 1, Len(s)) \in Seq(S) /\ Len(SubSeq(s, n + 1, Len(s))) = Len(s) - n
    BY <1>1, SubSeqAt
  <1>3. SubSeq(s, 1, n) \o SubSeq(s, n + 1, Len(s)) = SubSeq(s, 1, Len(s))
    <2>1. 1 \in 1..Len(s) + 1 /\ n \in 1 - 1..Len(s) /\ Len(s) \in n..Len(s)
      BY <1>1
    <2> QED
      BY <2>1, ConcatAdjacentSubSeq
  <1> QED
    BY <1>2, <1>3, SubSeqFull

\* Concatenation is associative; Parts names the one term to regroup.
Parts(S, q, s, a, b) == q \in Seq(S) /\ a \in Seq(S) /\ b \in Seq(S) /\ s = a \o b

LEMMA Regroup ==
  ASSUME NEW S, NEW q, NEW s, NEW a, NEW b, Parts(S, q, s, a, b)
  PROVE  q \o s = (q \o a) \o b
  <1>1. q \in Seq(S) /\ a \in Seq(S) /\ b \in Seq(S) /\ s = a \o b
    BY DEF Parts
  <1>2. (q \o a) \o b = q \o (a \o b)
    BY <1>1, ConcatAssociative
  <1> QED
    BY <1>1, <1>2

\* Appending to a concatenation.
Appends(S, s, t, e) == s \in Seq(S) /\ t \in Seq(S) /\ e \in S
AppendsLast(s, t, e) == Append(s \o t, e) = s \o Append(t, e)

LEMMA AppendToConcat ==
  ASSUME NEW S, NEW s, NEW t, NEW e, Appends(S, s, t, e)
  PROVE  AppendsLast(s, t, e)
  <1>0. s \in Seq(S) /\ t \in Seq(S) /\ e \in S
    BY DEF Appends
  <1> DEFINE h == <<e>>  u == Append(t, e)
  <1>1. u = t \o h /\ h \in Seq(S)
    BY <1>0, AppendIsConcat
  <1>2. Append(s \o t, e) = (s \o t) \o h
    BY <1>0, ConcatAt, AppendIsConcat
  <1> HIDE DEF h, u
  <1>3. Parts(S, s, u, t, h)
    BY <1>0, <1>1 DEF Parts
  <1>4. s \o u = (s \o t) \o h
    BY <1>3, Regroup
  <1> QED
    BY <1>2, <1>4 DEF u, AppendsLast

\* The head and the tail of a concatenation.
LEMMA TailOfConcat ==
  ASSUME NEW S, NEW s \in Seq(S), NEW t \in Seq(S), s # <<>>
  PROVE  /\ s \o t \in Seq(S) /\ s \o t # <<>>
         /\ Head(s \o t) = Head(s)
         /\ Tail(s \o t) = Tail(s) \o t
  <1> DEFINE u == s \o t
  <1>1. /\ u \in Seq(S) /\ Len(u) = Len(s) + Len(t)
        /\ \A i \in 1..(Len(s) + Len(t)) : u[i] = IF i <= Len(s) THEN s[i] ELSE t[i - Len(s)]
    BY ConcatProperties
  <1>2. Len(s) \in Nat \ {0} /\ Len(t) \in Nat
    BY EmptySeq, LenProperties
  <1> HIDE DEF u
  <1>3. u # <<>>
    BY <1>1, <1>2, EmptySeq
  <1>4. /\ Tail(s) \in Seq(S) /\ Len(Tail(s)) = Len(s) - 1 /\ Head(s) = s[1]
        /\ \A i \in 1..(Len(s) - 1) : Tail(s)[i] = s[i + 1]
    BY TailAt
  <1>5. /\ Tail(u) \in Seq(S) /\ Len(Tail(u)) = Len(u) - 1 /\ Head(u) = u[1]
        /\ \A i \in 1..(Len(u) - 1) : Tail(u)[i] = u[i + 1]
    BY <1>1, <1>3, TailAt
  <1> DEFINE v == Tail(s) \o t
  <1>6. /\ v \in Seq(S) /\ Len(v) = Len(Tail(s)) + Len(t)
        /\ \A i \in 1..(Len(Tail(s)) + Len(t)) :
             v[i] = IF i <= Len(Tail(s)) THEN Tail(s)[i] ELSE t[i - Len(Tail(s))]
    BY <1>4, ConcatProperties
  <1> HIDE DEF v
  <1>7. Len(Tail(u)) = Len(v)
    BY <1>1, <1>2, <1>4, <1>5, <1>6
  <1>8. ASSUME NEW i \in 1..Len(v) PROVE Tail(u)[i] = v[i]
    <2>1. i \in 1..(Len(u) - 1) /\ i + 1 \in 1..(Len(s) + Len(t)) /\ i + 1 - Len(s) = i - Len(Tail(s))
      BY <1>1, <1>2, <1>4, <1>6
    <2>2. Tail(u)[i] = u[i + 1] /\ u[i + 1] = IF i + 1 <= Len(s) THEN s[i + 1] ELSE t[i + 1 - Len(s)]
      BY <1>1, <1>5, <2>1
    <2>3. CASE i <= Len(s) - 1
      <3>1. i \in 1..(Len(s) - 1) /\ i + 1 <= Len(s) /\ i <= Len(Tail(s))
        BY <1>2, <1>4, <2>3
      <3> QED
        BY <1>4, <1>6, <2>2, <3>1
    <2>4. CASE ~(i <= Len(s) - 1)
      <3>1. ~(i + 1 <= Len(s)) /\ ~(i <= Len(Tail(s)))
        BY <1>2, <1>4, <2>4
      <3> QED
        BY <1>6, <2>1, <2>2, <3>1
    <2> QED
      BY <2>3, <2>4
  <1>9. Tail(u) = v
    BY <1>5, <1>6, <1>7, <1>8, SeqEqual
  <1>10. Head(u) = Head(s)
    <2>1. 1 \in 1..(Len(s) + Len(t)) /\ 1 <= Len(s)
      BY <1>2
    <2>2. u[1] = s[1]
      BY <1>1, <2>1
    <2> QED
      BY <2>2, <1>4, <1>5
  <1> QED
    BY <1>1, <1>3, <1>9, <1>10 DEF u, v

------------------------------------------------------------------------------
\* Products, and the quotient and remainder of d * s + r, with r < s.
LEMMA ProdNat ==
  ASSUME NEW a \in Nat, NEW b \in Nat
  PROVE  a * b \in Nat
  OBVIOUS

LEMMA DivMod ==
  ASSUME NEW d \in Nat, NEW s \in Nat \ {0}, NEW r \in 0..(s - 1)
  PROVE  (d * s + r) \div s = d /\ (d * s + r) % s = r
  OBVIOUS

------------------------------------------------------------------------------
\* A set of natural numbers that is not empty has a least element.
LEMMA Least ==
  ASSUME NEW T \in SUBSET Nat, T # {}
  PROVE  \E n \in T : \A m \in T : n <= m
  <1>1. PICK n \in T : \A y \in T : ~(<<y, n>> \in OpToRel(<, Nat))
    BY NatLessThanWellFounded, WFMin
  <1>2. \A y \in T : ~(y < n)
    BY <1>1 DEF OpToRel
  <1> QED
    BY <1>2

\* One that is bounded has a greatest element.
LEMMA Greatest ==
  ASSUME NEW T \in SUBSET Nat, T # {}, NEW b \in Nat, \A m \in T : m <= b
  PROVE  \E n \in T : \A m \in T : m <= n
  <1> DEFINE U == {k \in Nat : \E m \in T : k = b - m}
  <1>1. U \in SUBSET Nat /\ U # {}
    <2>1. PICK m \in T : TRUE
      OBVIOUS
    <2>2. b - m \in Nat
      BY <2>1
    <2> QED
      BY <2>2
  <1>2. PICK k \in U : \A j \in U : k <= j
    BY <1>1, Least
  <1>3. PICK n \in T : k = b - n
    BY <1>2
  <1>4. ASSUME NEW m \in T PROVE m <= n
    <2>1. b - m \in U
      OBVIOUS
    <2> QED
      BY <2>1, <1>2, <1>3
  <1> QED
    BY <1>4

\* Induction: a set that holds 0, and n + 1 with n, holds every number.
LEMMA Ind ==
  ASSUME NEW S, 0 \in S, \A n \in Nat : n \in S => n + 1 \in S
  PROVE  \A n \in Nat : n \in S
  <1> DEFINE T == {n \in Nat : n \notin S}
  <1>1. SUFFICES ASSUME T # {} PROVE FALSE
    OBVIOUS
  <1>2. PICK n \in T : \A m \in T : n <= m
    BY <1>1, Least
  <1>3. n # 0 /\ n - 1 \in Nat
    BY <1>2
  <1>4. n - 1 \in S
    BY <1>2, <1>3
  <1> QED
    BY <1>2, <1>3, <1>4

------------------------------------------------------------------------------
\* A function that is defined at 0, and at every other number by the one value
\* it takes at an earlier number; f is such a function up to n.
RecursiveUpTo(f, n, a, T, G) ==
  f[0] = a /\ \A m \in 1..n : f[m] = G[m][f[T[m]]]

\* Two such functions agree as far as both go.
LEMMA RecursionUnique ==
  ASSUME NEW a, NEW T, \A n \in Nat \ {0} : T[n] \in 0..(n - 1), NEW G, NEW n \in Nat,
         NEW f, NEW g, RecursiveUpTo(f, n, a, T, G), RecursiveUpTo(g, n, a, T, G)
  PROVE  \A m \in 0..n : f[m] = g[m]
  <1> DEFINE D == {m \in 0..n : f[m] # g[m]}
  <1> SUFFICES ASSUME D # {} PROVE FALSE
    OBVIOUS
  <1>1. PICK m \in D : \A k \in D : m <= k
    <2>1. D \in SUBSET Nat
      OBVIOUS
    <2> HIDE DEF D
    <2> QED
      BY <2>1, Least
  <1>2. m \in 1..n
    BY <1>1 DEF RecursiveUpTo
  <1>3. T[m] \in 0..(m - 1)
    BY <1>2
  <1>4. T[m] \in 0..n /\ T[m] < m
    BY <1>2, <1>3
  <1>5. f[T[m]] = g[T[m]]
    BY <1>1, <1>2, <1>4
  <1> QED
    BY <1>1, <1>2, <1>5 DEF RecursiveUpTo

\* There is such a function for all numbers. The operators name what is given
\* and what is found.
RecursionData(S, a, T, G) ==
  /\ a \in S
  /\ \A n \in Nat \ {0} : T[n] \in 0..(n - 1)
  /\ \A n \in Nat \ {0} : \A x \in S : G[n][x] \in S
RecursiveFcn(f, S, a, T, G) ==
  f \in [Nat -> S] /\ f[0] = a /\ \A n \in Nat \ {0} : f[n] = G[n][f[T[n]]]

LEMMA Recursion ==
  ASSUME NEW S, NEW a, NEW T, NEW G, RecursionData(S, a, T, G)
  PROVE  \E f : RecursiveFcn(f, S, a, T, G)
  <1>0. /\ a \in S
        /\ \A n \in Nat \ {0} : T[n] \in 0..(n - 1)
        /\ \A n \in Nat \ {0} : \A x \in S : G[n][x] \in S
    BY DEF RecursionData
  <1> DEFINE H == {n \in Nat : \E f \in [0..n -> S] : RecursiveUpTo(f, n, a, T, G)}
  <1>1. 0 \in H
    <2> DEFINE f == [m \in 0..0 |-> a]
    <2>1. f \in [0..0 -> S] /\ f[0] = a /\ 1..0 = {}
      BY <1>0
    <2> HIDE DEF f
    <2>2. RecursiveUpTo(f, 0, a, T, G)
      BY <2>1 DEF RecursiveUpTo
    <2> QED
      BY <2>1, <2>2
  <1>2. ASSUME NEW n \in Nat, n \in H PROVE n + 1 \in H
    <2>1. PICK f \in [0..n -> S] : RecursiveUpTo(f, n, a, T, G)
      BY <1>2
    <2>2. T[n + 1] \in 0..n
      <3>1. n + 1 \in Nat \ {0} /\ (n + 1) - 1 = n
        OBVIOUS
      <3> QED
        BY <1>0, <3>1
    <2>3. G[n + 1][f[T[n + 1]]] \in S
      BY <1>0, <2>1, <2>2
    <2> DEFINE g == [m \in 0..(n + 1) |-> IF m = n + 1 THEN G[n + 1][f[T[n + 1]]] ELSE f[m]]
    <2>4. g \in [0..(n + 1) -> S]
      BY <2>1, <2>3
    <2>5. /\ \A m \in 0..n : g[m] = f[m]
          /\ g[n + 1] = G[n + 1][f[T[n + 1]]]
      OBVIOUS
    <2> HIDE DEF g
    <2>6. \A m \in 1..n : T[m] \in 0..n
      <3> SUFFICES ASSUME NEW m \in 1..n PROVE T[m] \in 0..n
        OBVIOUS
      <3>1. T[m] \in 0..(m - 1)
        BY <1>0
      <3> QED
        BY <3>1
    <2>7. g[0] = a
      BY <2>1, <2>5 DEF RecursiveUpTo
    <2>8. ASSUME NEW m \in 1..(n + 1) PROVE g[m] = G[m][g[T[m]]]
      <3>1. CASE m = n + 1
        BY <2>2, <2>5, <3>1
      <3>2. CASE m \in 1..n
        <4>1. f[m] = G[m][f[T[m]]] /\ g[m] = f[m] /\ g[T[m]] = f[T[m]]
          BY <2>1, <2>5, <2>6, <3>2 DEF RecursiveUpTo
        <4> QED
          BY <4>1
      <3> QED
        BY <3>1, <3>2
    <2>9. RecursiveUpTo(g, n + 1, a, T, G)
      BY <2>7, <2>8 DEF RecursiveUpTo
    <2> QED
      BY <2>4, <2>9
  <1>3. \A n \in Nat : n \in H
    <2> HIDE DEF H
    <2> QED
      BY <1>1, <1>2, Ind
  <1>4. \A n \in Nat : \E f \in [0..n -> S] : RecursiveUpTo(f, n, a, T, G)
    BY <1>3
  <1> DEFINE A(n) == CHOOSE f \in [0..n -> S] : RecursiveUpTo(f, n, a, T, G)
             F == [n \in Nat |-> A(n)[n]]
  <1>5. \A n \in Nat : A(n) \in [0..n -> S] /\ RecursiveUpTo(A(n), n, a, T, G)
    BY <1>4, Zenon
  <1> HIDE DEF A
  <1>6. F \in [Nat -> S] /\ \A n \in Nat : F[n] = A(n)[n]
    <2>1. \A n \in Nat : n \in 0..n
      OBVIOUS
    <2>2. \A n \in Nat : A(n)[n] \in S
      BY <1>5, <2>1
    <2> QED
      BY <2>2
  <1> HIDE DEF F
  <1>7. ASSUME NEW n \in Nat, NEW m \in 0..n PROVE A(m)[m] = A(n)[m]
    <2>1. \A k \in 1..m : k \in 1..n
      OBVIOUS
    <2>2. RecursiveUpTo(A(n), m, a, T, G) /\ RecursiveUpTo(A(m), m, a, T, G) /\ m \in Nat
      BY <1>5, <2>1 DEF RecursiveUpTo
    <2>3. \A k \in 0..m : A(m)[k] = A(n)[k]
      BY <1>0, <2>2, RecursionUnique
    <2> QED
      BY <2>3
  <1>8. F[0] = a
    BY <1>5, <1>6 DEF RecursiveUpTo
  <1>9. ASSUME NEW n \in Nat \ {0} PROVE F[n] = G[n][F[T[n]]]
    <2>1. T[n] \in 0..n /\ T[n] \in Nat /\ n \in 1..n
      <3>1. T[n] \in 0..(n - 1)
        BY <1>0
      <3> QED
        BY <3>1
    <2>2. A(n)[n] = G[n][A(n)[T[n]]]
      BY <1>5, <2>1 DEF RecursiveUpTo
    <2>3. A(T[n])[T[n]] = A(n)[T[n]]
      BY <1>7, <2>1
    <2> QED
      BY <1>6, <2>1, <2>2, <2>3
  <1> QED
    BY <1>6, <1>8, <1>9 DEF RecursiveFcn

\* The same from the end n + 1 of an interval downwards.
DownData(n, S, a, T, G) ==
  /\ a \in S
  /\ \A i \in 1..n : T[i] \in (i + 1)..(n + 1)
  /\ \A i \in 1..n : \A x \in S : G[i][x] \in S
DownFcn(f, n, S, a, T, G) ==
  f \in [1..(n + 1) -> S] /\ f[n + 1] = a /\ \A i \in 1..n : f[i] = G[i][f[T[i]]]

LEMMA RecursionDown ==
  ASSUME NEW n \in Nat, NEW S, NEW a, NEW T, NEW G, DownData(n, S, a, T, G)
  PROVE  \E f : DownFcn(f, n, S, a, T, G)
  <1>0. /\ a \in S
        /\ \A i \in 1..n : T[i] \in (i + 1)..(n + 1)
        /\ \A i \in 1..n : \A x \in S : G[i][x] \in S
    BY DEF DownData
  <1> DEFINE U == [m \in Nat |-> IF m \in 1..n THEN n + 1 - T[n + 1 - m] ELSE 0]
             H == [m \in Nat |-> [x \in S |-> IF m \in 1..n THEN G[n + 1 - m][x] ELSE a]]
  <1>1. \A m \in 1..n : n + 1 - m \in 1..n /\ n + 1 - (n + 1 - m) = m
    OBVIOUS
  <1>2. \A m \in 1..n : U[m] = n + 1 - T[n + 1 - m] /\ U[m] \in 0..(m - 1)
    <2> SUFFICES ASSUME NEW m \in 1..n
                 PROVE  U[m] = n + 1 - T[n + 1 - m] /\ U[m] \in 0..(m - 1)
      OBVIOUS
    <2>1. T[n + 1 - m] \in ((n + 1 - m) + 1)..(n + 1)
      BY <1>0, <1>1
    <2>2. m \in Nat
      OBVIOUS
    <2> DEFINE t == T[n + 1 - m]
    <2> HIDE DEF t
    <2>3. n + 1 - t \in 0..(m - 1)
      BY <2>1 DEF t
    <2> QED
      BY <2>2, <2>3 DEF t
  <1>3. \A m \in 1..n : \A x \in S : H[m][x] = G[n + 1 - m][x] /\ H[m][x] \in S
    <2>1. \A m \in 1..n : m \in Nat
      OBVIOUS
    <2> QED
      BY <1>0, <1>1, <2>1
  <1>4. RecursionData(S, a, U, H)
    <2>1. ASSUME NEW m \in Nat \ {0}, m \notin 1..n
          PROVE  U[m] \in 0..(m - 1) /\ \A x \in S : H[m][x] \in S
      BY <1>0, <2>1
    <2> HIDE DEF U, H
    <2> QED
      BY <1>0, <1>2, <1>3, <2>1 DEF RecursionData
  <1> HIDE DEF U, H
  <1>5. PICK g : RecursiveFcn(g, S, a, U, H)
    BY <1>4, Recursion
  <1>6. g \in [Nat -> S] /\ g[0] = a /\ \A m \in Nat \ {0} : g[m] = H[m][g[U[m]]]
    BY <1>5 DEF RecursiveFcn
  <1> DEFINE f == [i \in 1..(n + 1) |-> g[n + 1 - i]]
  <1>7. \A i \in 1..(n + 1) : f[i] = g[n + 1 - i] /\ n + 1 - i \in Nat
    OBVIOUS
  <1>8. f \in [1..(n + 1) -> S]
    BY <1>6
  <1> HIDE DEF f
  <1>9. f[n + 1] = a
    <2>1. n + 1 \in 1..(n + 1) /\ n + 1 - (n + 1) = 0
      OBVIOUS
    <2> QED
      BY <1>6, <1>7, <2>1
  <1>10. ASSUME NEW i \in 1..n PROVE f[i] = G[i][f[T[i]]]
    <2> DEFINE m == n + 1 - i
    <2>1. m \in 1..n /\ m \in Nat \ {0} /\ n + 1 - m = i /\ i \in 1..(n + 1)
      OBVIOUS
    <2>2. T[i] \in 1..(n + 1) /\ U[m] = n + 1 - T[i] /\ U[m] \in Nat
      <3>1. T[i] \in (i + 1)..(n + 1)
        BY <1>0
      <3>2. U[m] = n + 1 - T[i] /\ U[m] \in 0..(m - 1)
        BY <1>2, <2>1
      <3> HIDE DEF m
      <3> QED
        BY <2>1, <3>1, <3>2
    <2>3. f[i] = g[m] /\ f[T[i]] = g[U[m]]
      BY <1>7, <2>1, <2>2
    <2> HIDE DEF m
    <2>4. g[m] = H[m][g[U[m]]] /\ g[U[m]] \in S
      BY <1>6, <2>1, <2>2
    <2>5. H[m][g[U[m]]] = G[i][g[U[m]]]
      BY <1>3, <2>1, <2>4
    <2> QED
      BY <2>3, <2>4, <2>5
  <1>11. DownFcn(f, n, S, a, T, G)
    BY <1>8, <1>9, <1>10 DEF DownFcn
  <1> QED
    BY <1>11

------------------------------------------------------------------------------
\* How many elements of s are in K.
CountIn(s, K) == Cardinality({i \in DOMAIN s : s[i] \in K})

LEMMA CountNat ==
  ASSUME NEW S, NEW s \in Seq(S), NEW K
  PROVE  /\ IsFiniteSet({i \in DOMAIN s : s[i] \in K})
         /\ CountIn(s, K) \in Nat
  <1>1. DOMAIN s = 1..Len(s) /\ Len(s) \in Nat
    BY LenProperties
  <1>2. IsFiniteSet(1..Len(s))
    BY <1>1, FS_Interval
  <1>3. IsFiniteSet({i \in DOMAIN s : s[i] \in K})
    BY <1>1, <1>2, FS_Subset
  <1> QED
    BY <1>3, FS_CardinalityType DEF CountIn

\* s is a followed by b.
Cut(s, a, b) ==
  /\ Len(a) \in Nat /\ DOMAIN a = 1..Len(a)
  /\ Len(b) \in Nat /\ DOMAIN b = 1..Len(b)
  /\ Len(s) = Len(a) + Len(b) /\ DOMAIN s = 1..Len(s)
  /\ \A i \in 1..Len(a) : s[i] = a[i]
  /\ \A i \in 1..Len(b) : s[Len(a) + i] = b[i]

\* A sequence that is cut in two is counted part by part.
LEMMA CountCut ==
  ASSUME NEW s, NEW a, NEW b, NEW K, Cut(s, a, b)
  PROVE  CountIn(s, K) = CountIn(a, K) + CountIn(b, K)
  <1> DEFINE H(t) == {i \in DOMAIN t : t[i] \in K}
             X == {i \in H(s) : i > Len(a)}
  <1> USE DEF Cut
  <1>1. /\ DOMAIN s = 1..Len(s) /\ DOMAIN a = 1..Len(a) /\ DOMAIN b = 1..Len(b)
        /\ Len(a) \in Nat /\ Len(b) \in Nat
    OBVIOUS
  <1>2. IsFiniteSet(H(a)) /\ IsFiniteSet(H(b)) /\ IsFiniteSet(H(s))
    <2>1. ASSUME NEW n \in Nat, NEW t, DOMAIN t = 1..n
          PROVE  IsFiniteSet(H(t))
      <3>1. H(t) \in SUBSET (1..n) /\ IsFiniteSet(1..n)
        BY <2>1, FS_Interval
      <3> QED
        BY <3>1, FS_Subset
    <2> QED
      BY <1>1, <2>1
  <1>3. IsFiniteSet(X)
    <2>1. X \in SUBSET H(s)
      OBVIOUS
    <2> QED
      BY <2>1, <1>2, FS_Subset
  <1>4. H(s) = H(a) \cup X /\ H(a) \cap X = {}
    BY <1>1
  <1>5. ExistsBijection(H(b), X)
    <2> DEFINE f == [i \in H(b) |-> Len(a) + i]
    <2>1. \A i \in H(b) : Len(a) + i \in X
      BY <1>1
    <2>2. f \in [H(b) -> X]
      BY <2>1
    <2>3. \A i, j \in H(b) : f[i] = f[j] => i = j
      BY <1>1
    <2>4. ASSUME NEW x \in X PROVE \E i \in H(b) : f[i] = x
      <3>1. x - Len(a) \in H(b)
        BY <1>1
      <3>2. f[x - Len(a)] = Len(a) + (x - Len(a))
        BY <3>1
      <3> QED
        BY <3>1, <3>2, <1>1
    <2>5. f \in Bijection(H(b), X)
      <3> HIDE DEF f, X, H
      <3> QED
        BY <2>2, <2>3, <2>4 DEF Bijection, Injection, Surjection, IsInjective
    <2> QED
      BY <2>5 DEF ExistsBijection
  <1>6. Cardinality(X) = Cardinality(H(b))
    BY <1>2, <1>5, FS_Bijection
  <1>7. Cardinality(H(s)) = Cardinality(H(a)) + Cardinality(X)
    <2> HIDE DEF H, X
    <2>1. Cardinality(H(a) \cap X) = 0
      BY <1>4, FS_EmptySet
    <2>2. Cardinality(H(a) \cup X)
            = Cardinality(H(a)) + Cardinality(X) - Cardinality(H(a) \cap X)
      BY <1>2, <1>3, FS_Union
    <2>3. Cardinality(H(a)) \in Nat /\ Cardinality(X) \in Nat
      BY <1>2, <1>3, FS_CardinalityType
    <2> QED
      BY <1>4, <2>1, <2>2, <2>3
  <1> QED
    BY <1>6, <1>7 DEF CountIn

LEMMA CountOne ==
  ASSUME NEW e, NEW K
  PROVE  CountIn(<<e>>, K) = IF e \in K THEN 1 ELSE 0
  <1> DEFINE H == {i \in DOMAIN <<e>> : <<e>>[i] \in K}
  <1>1. CASE e \in K
    <2>1. H = {1}
      BY <1>1
    <2> QED
      BY <1>1, <2>1, FS_Singleton DEF CountIn
  <1>2. CASE e \notin K
    <2>1. H = {}
      BY <1>2
    <2> QED
      BY <1>2, <2>1, FS_EmptySet DEF CountIn
  <1> QED
    BY <1>1, <1>2

LEMMA CountNone ==
  ASSUME NEW K
  PROVE  CountIn(<<>>, K) = 0
  <1>1. {i \in DOMAIN <<>> : <<>>[i] \in K} = {}
    OBVIOUS
  <1> QED
    BY <1>1, FS_EmptySet DEF CountIn

LEMMA CountAppend ==
  ASSUME NEW S, NEW s \in Seq(S), NEW e \in S, NEW K
  PROVE  CountIn(Append(s, e), K) = CountIn(s, K) + IF e \in K THEN 1 ELSE 0
  <1>1. /\ Append(s, e) \in Seq(S) /\ Len(Append(s, e)) = Len(s) + 1
        /\ \A i \in 1..Len(s) : Append(s, e)[i] = s[i]
        /\ Append(s, e)[Len(s) + 1] = e
    BY AppendAt
  <1> DEFINE h == <<e>>
  <1>2. h \in Seq(S) /\ Len(h) = 1 /\ h[1] = e
    OBVIOUS
  <1>3. CountIn(h, K) = IF e \in K THEN 1 ELSE 0
    BY CountOne
  <1> HIDE DEF h
  <1>4. CountIn(Append(s, e), K) = CountIn(s, K) + CountIn(h, K)
    <2>1. Cut(Append(s, e), s, h)
      BY <1>1, <1>2, LenProperties DEF Cut
    <2> QED
      BY <1>1, <1>2, <2>1, CountCut
  <1> QED
    BY <1>3, <1>4

LEMMA CountTail ==
  ASSUME NEW S, NEW s \in Seq(S), s # <<>>, NEW K
  PROVE  CountIn(s, K) = CountIn(Tail(s), K) + IF Head(s) \in K THEN 1 ELSE 0
  <1>1. /\ Tail(s) \in Seq(S) /\ Len(Tail(s)) = Len(s) - 1
        /\ \A i \in 1..(Len(s) - 1) : Tail(s)[i] = s[i + 1]
        /\ Head(s) = s[1] /\ Head(s) \in S /\ Len(s) \in Nat
    BY TailAt
  <1> DEFINE h == <<Head(s)>>
  <1>2. h \in Seq(S) /\ Len(h) = 1 /\ h[1] = s[1]
    BY <1>1
  <1>3. CountIn(h, K) = IF Head(s) \in K THEN 1 ELSE 0
    BY CountOne
  <1> HIDE DEF h
  <1>4. CountIn(s, K) = CountIn(h, K) + CountIn(Tail(s), K)
    <2>1. Cut(s, h, Tail(s))
      BY <1>1, <1>2, LenProperties DEF Cut
    <2> QED
      BY <1>1, <1>2, <2>1, CountCut
  <1>5. CountIn(Tail(s), K) \in Nat
    BY <1>1, CountNat
  <1> QED
    BY <1>3, <1>4, <1>5

LEMMA CountConcat ==
  ASSUME NEW S, NEW s \in Seq(S), NEW t \in Seq(S), NEW K
  PROVE  CountIn(s \o t, K) = CountIn(s, K) + CountIn(t, K)
  <1>1. s \o t \in Seq(S) /\ Cut(s \o t, s, t)
    BY ConcatAt, LenProperties DEF Cut
  <1> QED
    BY <1>1, CountCut
==============================================================================
