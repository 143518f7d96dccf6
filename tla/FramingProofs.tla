---------------------------- MODULE FramingProofs ----------------------------
(***************************************************************************)
(* Proofs about Framing, for every base and width of the lengths, every    *)
(* limit, every plan of framed messages and every division of their bytes  *)
(* into reads: lengths come back from their encodings (RoundTrip), and the *)
(* parser gives every message once, whole and on time (FramesSound).       *)
(***************************************************************************)
EXTENDS Framing, Lemmas

------------------------------------------------------------------------------
(* The recursive functions are what their equations say.                    *)

\* b^n.
LEMMA PowersAre ==
  ASSUME NEW b \in Nat \ {0}
  PROVE  /\ Powers(b) \in [Nat -> Nat \ {0}]
         /\ Powers(b)[0] = 1
         /\ \A n \in Nat : Powers(b)[n + 1] = b * Powers(b)[n]
  <1> DEFINE T == [n \in Nat |-> n - 1]
             G == [n \in Nat |-> [x \in Nat \ {0} |-> b * x]]
             P(f) == f = [n \in Nat |-> IF n = 0 THEN 1 ELSE b * f[n - 1]]
  <1>1. \A n \in Nat \ {0} : T[n] \in 0..(n - 1) /\ T[n] = n - 1
    OBVIOUS
  <1>2. \A x \in Nat \ {0} : b * x \in Nat \ {0}
    OBVIOUS
  <1>3. \A n \in Nat \ {0} : \A x \in Nat \ {0} : G[n][x] = b * x /\ G[n][x] \in Nat \ {0}
    BY <1>2
  <1> DEFINE S == Nat \ {0}
  <1>4. RecursionData(S, 1, T, G)
    BY <1>1, <1>3 DEF RecursionData
  <1> HIDE DEF T, G, S
  <1>5. PICK f : RecursiveFcn(f, S, 1, T, G)
    BY <1>4, Recursion
  <1>6. /\ f \in [Nat -> Nat \ {0}] /\ f[0] = 1
        /\ \A n \in Nat \ {0} : f[n] = b * f[n - 1]
    <2>1. \A n \in Nat \ {0} : n - 1 \in Nat
      OBVIOUS
    <2>2. f \in [Nat -> Nat \ {0}] /\ f[0] = 1 /\ \A n \in Nat \ {0} : f[n] = G[n][f[T[n]]]
      BY <1>5 DEF RecursiveFcn, S
    <2>3. ASSUME NEW n \in Nat \ {0} PROVE f[n] = b * f[n - 1]
      <3>1. f[n] = G[n][f[n - 1]] /\ f[n - 1] \in Nat \ {0}
        BY <1>1, <2>1, <2>2
      <3> QED
        BY <1>3, <3>1
    <2> QED
      BY <2>2, <2>3
  <1>7. P(f)
    <2> DEFINE g == [n \in Nat |-> IF n = 0 THEN 1 ELSE b * f[n - 1]]
    <2>1. \A n \in Nat : g[n] = f[n]
      BY <1>6
    <2>2. g \in [Nat -> Nat \ {0}]
      BY <1>6, <2>1
    <2> QED
      BY <1>6, <2>1, <2>2
  <1>8. P(Powers(b))
    <2>1. Powers(b) = CHOOSE g : P(g)
      BY DEF Powers
    <2> HIDE DEF P
    <2> QED
      BY <1>7, <2>1
  <1>9. Powers(b)[0] = 1 /\ \A n \in Nat \ {0} : Powers(b)[n] = b * Powers(b)[n - 1]
    BY <1>8
  <1>10. \A n \in Nat : Powers(b)[n] \in Nat \ {0}
    <2> DEFINE H == {n \in Nat : Powers(b)[n] \in Nat \ {0}}
    <2>1. 0 \in H
      BY <1>9
    <2>2. \A n \in Nat : n \in H => n + 1 \in H
      <3> SUFFICES ASSUME NEW n \in Nat, n \in H PROVE n + 1 \in H
        OBVIOUS
      <3>1. n + 1 \in Nat \ {0} /\ (n + 1) - 1 = n
        OBVIOUS
      <3>2. Powers(b)[n + 1] = b * Powers(b)[n] /\ Powers(b)[n] \in Nat \ {0}
        BY <1>9, <3>1
      <3> QED
        BY <1>2, <3>2
    <2> HIDE DEF H
    <2>3. \A n \in Nat : n \in H
      BY <2>1, <2>2, Ind
    <2> QED
      BY <2>3 DEF H
  <1>11. Powers(b) \in [Nat -> Nat \ {0}]
    BY <1>8, <1>10
  <1>12. \A n \in Nat : n + 1 \in Nat \ {0} /\ (n + 1) - 1 = n
    OBVIOUS
  <1> QED
    BY <1>9, <1>11, <1>12

\* Base^n, and what is known of Base.
LEMMA PowerIs ==
  /\ Base \in Nat /\ Base > 1 /\ Digits \in Nat \ {0}
  /\ \A n \in Nat : Power[n] \in Nat \ {0}
  /\ Power[0] = 1
  /\ \A n \in Nat : Power[n + 1] = Base * Power[n]
  <1>1. Base \in Nat /\ Base > 1 /\ Digits \in Nat \ {0}
    BY SizePackAssumption
  <1>2. /\ Power \in [Nat -> Nat \ {0}] /\ Power[0] = 1
        /\ \A n \in Nat : Power[n + 1] = Base * Power[n]
    BY <1>1, PowersAre DEF Power
  <1> QED
    BY <1>1, <1>2

\* A quotient by Base is smaller, and the remainder is a group.
LEMMA Quotient ==
  ASSUME NEW n \in Nat
  PROVE  /\ n \div Base \in Nat /\ n % Base \in 0..(Base - 1)
         /\ n = Base * (n \div Base) + (n % Base)
         /\ n > 0 => n \div Base < n
         /\ n >= Base => n \div Base > 0
  <1> DEFINE q == n \div Base  r == n % Base
  <1>1. Base \in Nat /\ Base > 1
    BY SizePackAssumption
  <1>2. q \in Nat /\ r \in 0..(Base - 1) /\ n = Base * q + r
    BY <1>1
  <1> HIDE DEF q, r
  <1>3. q = 0 \/ Base * q >= 2 * q
    BY <1>1, <1>2
  <1>4. n > 0 => q < n
    BY <1>1, <1>2, <1>3
  <1>5. n >= Base => q > 0
    BY <1>1, <1>2
  <1> QED
    BY <1>2, <1>4, <1>5, Zenon DEF q, r

\* The length n, group by group.
LEMMA PackIs ==
  ASSUME NEW n \in Nat
  PROVE  /\ pack[n] \in Seq(Byte)
         /\ n < Base => pack[n] = <<n>>
         /\ n >= Base => pack[n] = <<(n % Base) + Base>> \o pack[n \div Base]
  <1> DEFINE S == Seq(Byte)
             T == [m \in Nat |-> m \div Base]
             G == [m \in Nat |-> [x \in S |-> IF m < Base THEN <<m>> ELSE <<(m % Base) + Base>> \o x]]
             P(f) == f = [m \in Nat |-> IF m < Base THEN <<m>>
                                        ELSE <<(m % Base) + Base>> \o f[m \div Base]]
  <1>0. Base \in Nat /\ Base > 1
    BY SizePackAssumption
  <1>1. \A m \in Nat \ {0} : T[m] \in 0..(m - 1)
    BY <1>0, Quotient
  <1>2. \A m \in Nat : m < Base => <<m>> \in S
    BY <1>0 DEF Byte
  <1>3. \A m \in Nat : <<(m % Base) + Base>> \in S
    <2>1. \A m \in Nat : (m % Base) + Base \in Byte
      BY <1>0, Quotient DEF Byte
    <2> QED
      BY <2>1
  <1>4. \A m \in Nat : \A x \in S : <<(m % Base) + Base>> \o x \in S
    BY <1>3, ConcatAt
  <1>5. \A m \in Nat \ {0} : \A x \in S : G[m][x] \in S
    BY <1>2, <1>4
  <1> DEFINE z == <<0>>
  <1>6. RecursionData(S, z, T, G)
    <2>1. z \in S
      BY <1>0, <1>2
    <2> HIDE DEF S, T, G, z
    <2> QED
      BY <1>1, <1>5, <2>1 DEF RecursionData
  <1>7. \E f : RecursiveFcn(f, S, z, T, G)
    <2> HIDE DEF S, T, G, z
    <2> QED
      BY <1>6, Recursion
  <1>8. PICK f : RecursiveFcn(f, S, z, T, G)
    BY <1>7
  <1>9. f \in [Nat -> S] /\ f[0] = <<0>> /\ \A m \in Nat \ {0} : f[m] = G[m][f[m \div Base]]
    BY <1>8 DEF RecursiveFcn
  <1>10. \A m \in Nat : f[m] = IF m < Base THEN <<m>> ELSE <<(m % Base) + Base>> \o f[m \div Base]
    <2> SUFFICES ASSUME NEW m \in Nat
                 PROVE  f[m] = IF m < Base THEN <<m>> ELSE <<(m % Base) + Base>> \o f[m \div Base]
      OBVIOUS
    <2>1. f[m \div Base] \in S
      BY <1>9, Quotient
    <2>2. CASE m = 0
      <3>1. m < Base
        BY <1>0, <2>2
      <3>2. f[m] = <<m>>
        BY <1>9, <2>2, Zenon
      <3> QED
        BY <3>1, <3>2, Zenon
    <2>3. CASE m # 0
      <3>1. \A x \in S : G[m][x] = IF m < Base THEN <<m>> ELSE <<(m % Base) + Base>> \o x
        OBVIOUS
      <3> HIDE DEF G
      <3> QED
        BY <1>9, <2>1, <2>3, <3>1
    <2> QED
      BY <2>2, <2>3
  <1>11. P(f)
    <2> DEFINE g == [m \in Nat |-> IF m < Base THEN <<m>> ELSE <<(m % Base) + Base>> \o f[m \div Base]]
    <2>1. \A m \in Nat : g[m] = f[m]
      BY <1>10
    <2>2. f = [m \in Nat |-> f[m]] /\ g = [m \in Nat |-> g[m]]
      BY <1>9
    <2> HIDE DEF g
    <2>3. f = g
      BY <2>1, <2>2
    <2> QED
      BY <2>3 DEF g
  <1>12. P(pack)
    <2>1. pack = CHOOSE g : P(g)
      BY DEF pack
    <2> HIDE DEF P
    <2> QED
      BY <1>11, <2>1
  <1>13. \A m \in Nat : pack[m] = IF m < Base THEN <<m>> ELSE <<(m % Base) + Base>> \o pack[m \div Base]
    BY <1>12
  <1>14. \A m \in Nat : pack[m] \in S
    <2> DEFINE D == {m \in Nat : pack[m] \notin S}
    <2> SUFFICES ASSUME D # {} PROVE FALSE
      OBVIOUS
    <2>1. PICK m \in D : \A k \in D : m <= k
      <3>1. D \in SUBSET Nat
        OBVIOUS
      <3> HIDE DEF D
      <3> QED
        BY <3>1, Least
    <2>2. m \in Nat /\ m >= Base /\ pack[m] = <<(m % Base) + Base>> \o pack[m \div Base]
      <3>1. m \in Nat /\ pack[m] \notin S
        BY <2>1
      <3>2. ~(m < Base)
        <4> SUFFICES ASSUME m < Base PROVE FALSE
          OBVIOUS
        <4>1. pack[m] = <<m>>
          BY <1>13, <3>1, Zenon
        <4> QED
          BY <1>2, <3>1, <4>1, Zenon
      <3>3. m >= Base
        BY <1>0, <3>1, <3>2
      <3> QED
        BY <1>13, <3>1, <3>2, <3>3, Zenon
    <2>3. m \div Base \in Nat /\ m \div Base < m
      BY <1>0, <2>2, Quotient
    <2>4. pack[m \div Base] \in S
      BY <2>1, <2>2, <2>3
    <2> QED
      BY <1>4, <2>1, <2>2, <2>4
  <1>15. n >= Base => ~(n < Base)
    BY <1>0
  <1> QED
    BY <1>13, <1>14, <1>15

\* What unpack adds up from its i-th byte on.
Unpacks(f, s) ==
  /\ f \in [1..(Len(s) + 1) -> Nat] /\ f[Len(s) + 1] = 0
  /\ \A i \in 1..Len(s) :
       f[i] = ((s[i] % Base) * Power[i - 1] + (IF Continues(s[i]) THEN f[i + 1] ELSE 0)) % SizeValues

LEMMA SizeValuesNat == SizeValues \in Nat \ {0}
  <1>1. Power[Digits] \in Nat \ {0}
    BY PowerIs
  <1> QED
    BY <1>1 DEF SizeValues

LEMMA UnpackIs ==
  ASSUME NEW s \in Seq(Byte)
  PROVE  \E f : Unpacks(f, s) /\ unpack(s) = f[1]
  <1> DEFINE n == Len(s)
             E(i, x) == ((s[i] % Base) * Power[i - 1] + (IF Continues(s[i]) THEN x ELSE 0)) % SizeValues
             T == [i \in 1..n |-> i + 1]
             G == [i \in 1..n |-> [x \in Nat |-> E(i, x)]]
             P(f) == f = [i \in 1..(Len(s) + 1) |->
                            IF i > Len(s) THEN 0
                            ELSE ((s[i] % Base) * Power[i - 1]
                                   + (IF Continues(s[i]) THEN f[i + 1] ELSE 0)) % SizeValues]
  <1>0. n \in Nat /\ DOMAIN s = 1..n /\ \A i \in 1..n : s[i] \in Byte
    BY LenProperties, ElementOfSeq
  <1>1. \A i \in 1..n : \A x \in Nat : E(i, x) \in Nat
    <2> SUFFICES ASSUME NEW i \in 1..n, NEW x \in Nat PROVE E(i, x) \in Nat
      OBVIOUS
    <2>1. s[i] \in Nat /\ Base \in Nat \ {0} /\ SizeValues \in Nat \ {0}
      BY <1>0, PowerIs, SizeValuesNat DEF Byte
    <2>2. s[i] % Base \in Nat
      BY <2>1
    <2>3. Power[i - 1] \in Nat
      <3>1. i - 1 \in Nat
        BY <1>0
      <3> QED
        BY <3>1, PowerIs
    <2> DEFINE p == (s[i] % Base) * Power[i - 1]
    <2>4. p \in Nat
      BY <2>2, <2>3, ProdNat
    <2> HIDE DEF p
    <2>5. p + (IF Continues(s[i]) THEN x ELSE 0) \in Nat
      BY <2>4
    <2>6. (p + (IF Continues(s[i]) THEN x ELSE 0)) % SizeValues \in Nat
      BY <2>1, <2>5
    <2> QED
      BY <2>6 DEF p
  <1>2. DownData(n, Nat, 0, T, G)
    <2>1. \A i \in 1..n : T[i] \in (i + 1)..(n + 1)
      BY <1>0
    <2>2. \A i \in 1..n : \A x \in Nat : G[i][x] \in Nat
      BY <1>1
    <2> HIDE DEF T, G, n
    <2> QED
      BY <2>1, <2>2 DEF DownData
  <1>3. \E f : DownFcn(f, n, Nat, 0, T, G)
    <2> HIDE DEF T, G, n
    <2> QED
      BY <1>0, <1>2, RecursionDown
  <1>4. PICK f : DownFcn(f, n, Nat, 0, T, G)
    BY <1>3
  <1>5. f \in [1..(n + 1) -> Nat] /\ f[n + 1] = 0 /\ \A i \in 1..n : f[i] = G[i][f[T[i]]]
    <2> HIDE DEF T, G, n
    <2> QED
      BY <1>4 DEF DownFcn
  <1> HIDE DEF n
  <1>6. \A i \in 1..n : f[i] = E(i, f[i + 1])
    <2> SUFFICES ASSUME NEW i \in 1..n PROVE f[i] = E(i, f[i + 1])
      OBVIOUS
    <2>1. T[i] = i + 1 /\ i + 1 \in 1..(n + 1)
      BY <1>0
    <2>2. f[i + 1] \in Nat
      BY <1>5, <2>1
    <2>3. \A x \in Nat : G[i][x] = E(i, x)
      OBVIOUS
    <2> HIDE DEF T, G, E
    <2> QED
      BY <1>5, <2>1, <2>2, <2>3
  <1> HIDE DEF T, G
  <1>7. P(f)
    <2> DEFINE g == [i \in 1..(n + 1) |-> IF i > n THEN 0 ELSE E(i, f[i + 1])]
    <2>1. ASSUME NEW i \in 1..(n + 1) PROVE g[i] = f[i]
      <3> HIDE DEF E
      <3>1. CASE i = n + 1
        BY <1>0, <1>5, <3>1
      <3>2. CASE i \in 1..n
        <4>1. ~(i > n)
          BY <1>0, <3>2
        <4> QED
          BY <1>6, <3>2, <4>1
      <3> QED
        BY <1>0, <3>1, <3>2
    <2>2. f = [i \in 1..(n + 1) |-> f[i]] /\ g = [i \in 1..(n + 1) |-> g[i]]
      BY <1>5
    <2> HIDE DEF g
    <2>3. f = g
      BY <2>1, <2>2
    <2> QED
      BY <2>3, Zenon DEF g, n
  <1> DEFINE h == CHOOSE g : P(g)
  <1>8. P(h) /\ unpack(s) = h[1]
    <2>1. unpack(s) = h[1]
      BY DEF unpack
    <2> HIDE DEF P
    <2> QED
      BY <1>7, <2>1
  <1> HIDE DEF h
  <1>9. \A i \in 1..(n + 1) : h[i] = IF i > n THEN 0 ELSE E(i, h[i + 1])
    <2>1. h = [i \in 1..(n + 1) |-> IF i > n THEN 0 ELSE E(i, h[i + 1])]
      BY <1>8, Zenon DEF n
    <2> HIDE DEF E
    <2> QED
      BY <2>1
  <1>10. h[n + 1] = 0 /\ \A i \in 1..n : h[i] = E(i, h[i + 1])
    <2> HIDE DEF E
    <2> QED
      BY <1>0, <1>9
  <1>11. \A i \in 1..(n + 1) : h[i] = f[i]
    <2> DEFINE D == {m \in 0..n : h[n + 1 - m] # f[n + 1 - m]}
    <2> SUFFICES ASSUME D # {} PROVE FALSE
      <3>1. \A i \in 1..(n + 1) : n + 1 - i \in 0..n /\ n + 1 - (n + 1 - i) = i
        BY <1>0
      <3> QED
        BY <3>1
    <2>1. PICK m \in D : \A k \in D : m <= k
      <3>1. D \in SUBSET Nat
        BY <1>0
      <3> HIDE DEF D
      <3> QED
        BY <3>1, Least
    <2> DEFINE i == n + 1 - m
    <2>2. m \in 0..n /\ h[i] # f[i]
      BY <2>1
    <2>3. CASE m = 0
      <3>1. i = n + 1
        BY <1>0, <2>3
      <3> QED
        BY <1>5, <1>10, <2>2, <3>1
    <2>4. CASE m # 0
      <3>1. m - 1 \in 0..n /\ ~(m <= m - 1) /\ n + 1 - (m - 1) = i + 1 /\ i \in 1..n
        BY <1>0, <2>2, <2>4
      <3>2. m - 1 \notin D
        BY <2>1, <3>1
      <3>3. h[i + 1] = f[i + 1]
        BY <3>1, <3>2
      <3> HIDE DEF E, i
      <3> QED
        BY <1>6, <1>10, <2>2, <3>1, <3>3
    <2> QED
      BY <2>3, <2>4
  <1>12. h[1] = f[1]
    <2>1. 1 \in 1..(n + 1)
      BY <1>0
    <2> QED
      BY <1>11, <2>1
  <1>13. Unpacks(f, s)
    BY <1>5, <1>6, Zenon DEF Unpacks, n
  <1> QED
    BY <1>8, <1>12, <1>13

------------------------------------------------------------------------------
(* Lengths in groups.                                                       *)

\* s is the number v in groups: q[i] is what is left of v at the i-th.
Groups(q, s, v) ==
  /\ Len(s) \in Nat \ {0} /\ q \in [1..Len(s) -> Nat] /\ q[1] = v
  /\ \A i \in 1..(Len(s) - 1) : q[i + 1] = q[i] \div Base /\ s[i] = (q[i] % Base) + Base
  /\ q[Len(s)] < Base /\ s[Len(s)] = q[Len(s)]

LEMMA PackGroups ==
  ASSUME NEW n \in Nat
  PROVE  \E q : Groups(q, pack[n], n)
  <1> DEFINE D == {m \in Nat : \A q : ~Groups(q, pack[m], m)}
  <1> SUFFICES ASSUME D # {} PROVE FALSE
    OBVIOUS
  <1>1. PICK m \in D : \A k \in D : m <= k
    <2>1. D \in SUBSET Nat
      OBVIOUS
    <2> HIDE DEF D
    <2> QED
      BY <2>1, Least
  <1>2. m \in Nat /\ \A q : ~Groups(q, pack[m], m)
    BY <1>1
  <1>3. CASE m < Base
    <2>1. pack[m] = <<m>>
      BY <1>2, <1>3, PackIs
    <2> DEFINE q == [i \in 1..1 |-> m]
               s == <<m>>
    <2>2. Len(s) = 1 /\ s[1] = m /\ q[1] = m /\ q \in [1..1 -> Nat]
      BY <1>2
    <2> HIDE DEF q, s
    <2>3. Groups(q, s, m)
      BY <1>3, <2>2 DEF Groups
    <2> QED
      BY <1>2, <2>1, <2>3 DEF s
  <1>4. CASE ~(m < Base)
    <2> DEFINE d == m \div Base
               x == (m % Base) + Base
               h == <<x>>
               s == pack[d]
    <2>1. m >= Base /\ d \in Nat /\ d < m /\ x \in Byte
      <3>1. Base \in Nat /\ Base > 1
        BY PowerIs
      <3>2. m >= Base /\ m > 0
        BY <1>2, <1>4, <3>1
      <3>3. d \in Nat /\ d < m /\ m % Base \in 0..(Base - 1)
        BY <1>2, <3>2, Quotient
      <3> HIDE DEF d
      <3>4. x \in Byte
        BY <3>1, <3>3 DEF Byte
      <3> QED
        BY <3>2, <3>3, <3>4
    <2>2. pack[m] = h \o s
      BY <1>2, <2>1, PackIs
    <2>3. h \in Seq(Byte) /\ Len(h) = 1 /\ h[1] = x /\ s \in Seq(Byte)
      <3> HIDE DEF x, d
      <3>1. h \in Seq(Byte) /\ Len(h) = 1 /\ h[1] = x
        BY <2>1
      <3>2. s \in Seq(Byte)
        BY <2>1, PackIs
      <3> QED
        BY <3>1, <3>2
    <2> HIDE DEF h
    <2>4. /\ Len(h \o s) = 1 + Len(s) /\ (h \o s)[1] = x
          /\ \A i \in 1..Len(s) : (h \o s)[1 + i] = s[i]
      <3>1. 1 \in 1..1
        OBVIOUS
      <3>2. /\ Len(h \o s) = Len(h) + Len(s)
            /\ \A i \in 1..Len(h) : (h \o s)[i] = h[i]
            /\ \A i \in 1..Len(s) : (h \o s)[Len(h) + i] = s[i]
        BY <2>3, ConcatAt
      <3> HIDE DEF s, x
      <3> QED
        BY <2>3, <3>1, <3>2
    <2>5. PICK p : Groups(p, s, d)
      <3>1. d \notin D
        BY <1>1, <2>1
      <3> HIDE DEF d
      <3> QED
        BY <2>1, <3>1
    <2> DEFINE t == h \o s
               q == [i \in 1..(Len(s) + 1) |-> IF i = 1 THEN m ELSE p[i - 1]]
    <2>6. /\ Len(s) \in Nat \ {0} /\ p \in [1..Len(s) -> Nat] /\ p[1] = d
          /\ \A i \in 1..(Len(s) - 1) : p[i + 1] = p[i] \div Base /\ s[i] = (p[i] % Base) + Base
          /\ p[Len(s)] < Base /\ s[Len(s)] = p[Len(s)]
      BY <2>5, Zenon DEF Groups
    <2> HIDE DEF s, x, t
    <2>7. Len(t) = Len(s) + 1 /\ Len(t) \in Nat \ {0}
      BY <2>4, <2>6 DEF t
    <2>8. q \in [1..Len(t) -> Nat] /\ q[1] = m /\ \A i \in 1..Len(s) : q[i + 1] = p[i]
      <3>1. \A i \in 1..(Len(s) + 1) : i # 1 => i - 1 \in 1..Len(s)
        BY <2>6
      <3>2. \A i \in 1..Len(s) : i + 1 \in 1..(Len(s) + 1) /\ i + 1 # 1 /\ (i + 1) - 1 = i
        BY <2>6
      <3>3. \A i \in 1..(Len(s) + 1) : (IF i = 1 THEN m ELSE p[i - 1]) \in Nat
        BY <1>2, <2>6, <3>1
      <3>4. q \in [1..(Len(s) + 1) -> Nat]
        BY <3>3
      <3>5. q[1] = m
        BY <2>6
      <3>6. \A i \in 1..Len(s) : q[i + 1] = p[i]
        BY <3>2
      <3> HIDE DEF q
      <3> QED
        BY <2>7, <3>4, <3>5, <3>6
    <2> HIDE DEF q
    <2>9. ASSUME NEW i \in 1..(Len(t) - 1)
          PROVE  q[i + 1] = q[i] \div Base /\ t[i] = (q[i] % Base) + Base
      <3>1. CASE i = 1
        <4>1. q[i + 1] = d /\ q[i] = m /\ t[i] = x
          <5>1. 1 \in 1..Len(s)
            BY <2>6
          <5> HIDE DEF d
          <5> QED
            BY <2>4, <2>6, <2>8, <3>1, <5>1 DEF t
        <4> QED
          BY <4>1, Zenon DEF d, x
      <3>2. CASE i # 1
        <4> DEFINE j == i - 1
        <4>1. j \in 1..(Len(s) - 1) /\ j \in 1..Len(s) /\ j + 1 \in 1..Len(s) /\ j + 1 = i /\ 1 + j = i
          BY <2>6, <2>7, <3>2
        <4> HIDE DEF j, d
        <4>2. q[i] = p[j] /\ q[i + 1] = p[j + 1] /\ t[i] = s[j]
          BY <2>4, <2>8, <4>1 DEF t
        <4>3. p[j + 1] = p[j] \div Base /\ s[j] = (p[j] % Base) + Base
          BY <2>6, <4>1
        <4> QED
          BY <4>2, <4>3, Zenon
      <3> QED
        BY <3>1, <3>2
    <2>10. q[Len(t)] < Base /\ t[Len(t)] = q[Len(t)]
      <3>1. Len(s) \in 1..Len(s) /\ 1 + Len(s) = Len(t) /\ Len(s) + 1 = Len(t)
        BY <2>6, <2>7
      <3> HIDE DEF d
      <3>2. q[Len(t)] = p[Len(s)] /\ t[Len(t)] = s[Len(s)]
        BY <2>4, <2>8, <3>1 DEF t
      <3> QED
        BY <2>6, <3>2
    <2>11. Groups(q, t, m)
      BY <2>7, <2>8, <2>9, <2>10, Zenon DEF Groups
    <2> QED
      BY <1>2, <2>2, <2>11 DEF t
  <1> QED
    BY <1>3, <1>4

\* A number in groups ends at the byte that does not continue.
LEMMA GroupsContinue ==
  ASSUME NEW s, NEW q, NEW v, Groups(q, s, v)
  PROVE  /\ \A i \in 1..(Len(s) - 1) : Continues(s[i])
         /\ ~Continues(s[Len(s)])
         /\ Len(s) \in 1..Len(s)
  <1>0. Base \in Nat /\ Base > 1 /\ Len(s) \in Nat \ {0} /\ Len(s) \in 1..Len(s)
    BY PowerIs DEF Groups
  <1>1. ASSUME NEW i \in 1..(Len(s) - 1) PROVE Continues(s[i])
    <2>1. s[i] = (q[i] % Base) + Base /\ q[i] \in Nat
      <3>1. i \in 1..Len(s)
        BY <1>0
      <3> QED
        BY <3>1 DEF Groups
    <2>2. q[i] % Base \in Nat
      BY <1>0, <2>1
    <2> DEFINE r == q[i] % Base
    <2> HIDE DEF r
    <2>3. r + Base >= Base
      BY <1>0, <2>2 DEF r
    <2> QED
      BY <2>1, <2>3 DEF r, Continues
  <1>2. ~Continues(s[Len(s)])
    <2>1. q[Len(s)] < Base /\ s[Len(s)] = q[Len(s)] /\ q[Len(s)] \in Nat
      BY <1>0 DEF Groups
    <2> QED
      BY <1>0, <2>1 DEF Continues
  <1> QED
    BY <1>0, <1>1, <1>2

\* A sum of groups: one step of unpack undoes one step of pack.
LEMMA GroupStep ==
  ASSUME NEW b \in Nat, NEW p \in Nat, NEW d \in Nat, NEW r \in Nat, NEW a \in Nat, a = b * d + r
  PROVE  /\ a * p = r * p + d * (b * p)
         /\ d * (b * p) \in Nat /\ r * p \in Nat /\ a * p \in Nat
         /\ d * (b * p) <= a * p
  <1>1. d * (b * p) \in Nat /\ r * p \in Nat /\ a * p \in Nat
    BY ProdNat
  <1>2. a * p = r * p + d * (b * p)
    <2>1. (b * d + r) * p = (b * d) * p + r * p
      OBVIOUS
    <2>2. (b * d) * p = d * (b * p)
      OBVIOUS
    <2> QED
      BY <2>1, <2>2, <1>1
  <1> QED
    BY <1>1, <1>2

\* A number in groups that size_type can hold is unpacked.
LEMMA GroupsUnpack ==
  ASSUME NEW s \in Seq(Byte), NEW q, NEW v \in 0..(SizeValues - 1), Groups(q, s, v)
  PROVE  unpack(s) = v
  <1> DEFINE L == Len(s)
  <1>0. /\ L \in Nat \ {0} /\ q \in [1..L -> Nat] /\ q[1] = v
        /\ \A i \in 1..(L - 1) : q[i + 1] = q[i] \div Base /\ s[i] = (q[i] % Base) + Base
        /\ q[L] < Base /\ s[L] = q[L]
    BY DEF Groups
  <1>1. PICK f : Unpacks(f, s) /\ unpack(s) = f[1]
    BY UnpackIs
  <1>2. /\ f \in [1..(L + 1) -> Nat]
        /\ \A i \in 1..L :
             f[i] = ((s[i] % Base) * Power[i - 1] + (IF Continues(s[i]) THEN f[i + 1] ELSE 0)) % SizeValues
    BY <1>1, Zenon DEF Unpacks
  <1>3. /\ \A i \in 1..(L - 1) : Continues(s[i])
        /\ ~Continues(s[L])
    BY GroupsContinue
  <1> HIDE DEF L
  <1>4. /\ Base \in Nat /\ Base > 1 /\ SizeValues \in Nat \ {0}
        /\ \A n \in Nat : Power[n] \in Nat
        /\ Power[0] = 1 /\ \A n \in Nat : Power[n + 1] = Base * Power[n]
    BY PowerIs, SizeValuesNat
  <1>5. ASSUME NEW i \in 1..(L - 1)
        PROVE  /\ i \in 1..L /\ i + 1 \in 1..L /\ i - 1 \in Nat
               /\ q[i] * Power[i - 1] = (s[i] % Base) * Power[i - 1] + q[i + 1] * Power[(i + 1) - 1]
               /\ q[i + 1] * Power[(i + 1) - 1] <= q[i] * Power[i - 1]
               /\ q[i] * Power[i - 1] \in Nat /\ q[i + 1] * Power[(i + 1) - 1] \in Nat
    <2>1. i \in 1..L /\ i + 1 \in 1..L /\ i - 1 \in Nat /\ (i + 1) - 1 = (i - 1) + 1
      BY <1>0
    <2> DEFINE a == q[i]
               d == a \div Base
               r == a % Base
               p == Power[i - 1]
    <2>2. a \in Nat /\ q[i + 1] = d /\ s[i] = r + Base
      BY <1>0, <2>1
    <2> HIDE DEF a
    <2>3. d \in Nat /\ r \in 0..(Base - 1) /\ a = Base * d + r
      BY <2>2, Quotient
    <2>4. p \in Nat /\ Power[(i + 1) - 1] = Base * p
      BY <1>4, <2>1
    <2> HIDE DEF d, r, p
    <2>5. s[i] % Base = r
      <3>1. s[i] = 1 * Base + r /\ Base \in Nat \ {0}
        BY <1>4, <2>2, <2>3
      <3>2. (1 * Base + r) % Base = r
        BY <2>3, <3>1, DivMod
      <3> QED
        BY <3>1, <3>2, Zenon
    <2>6. r \in Nat
      BY <2>3, <1>4
    <2>7. /\ a * p = r * p + d * (Base * p)
          /\ d * (Base * p) \in Nat /\ a * p \in Nat /\ d * (Base * p) <= a * p
      BY <1>4, <2>2, <2>3, <2>4, <2>6, GroupStep
    <2>8. q[i] * Power[i - 1] = a * p /\ q[i + 1] * Power[(i + 1) - 1] = d * (Base * p)
          /\ (s[i] % Base) * Power[i - 1] = r * p
      BY <2>2, <2>4, <2>5, Zenon DEF a, p
    <2> QED
      BY <2>1, <2>7, <2>8, Zenon
  <1>6. \A i \in 1..L : q[i] * Power[i - 1] \in Nat /\ q[i] * Power[i - 1] <= v
    <2> DEFINE H == {m \in Nat : m + 1 \in 1..L => q[m + 1] * Power[(m + 1) - 1] \in Nat
                                                   /\ q[m + 1] * Power[(m + 1) - 1] <= v}
    <2>0. v \in Nat
      BY <1>4
    <2>1. 0 \in H
      <3>1. q[1] * Power[0] = v
        <4>1. v * 1 = v
          BY <2>0
        <4> QED
          BY <1>0, <1>4, <4>1
      <3> QED
        BY <2>0, <3>1
    <2>2. \A m \in Nat : m \in H => m + 1 \in H
      <3> SUFFICES ASSUME NEW m \in Nat, m \in H, (m + 1) + 1 \in 1..L
                   PROVE  /\ q[(m + 1) + 1] * Power[((m + 1) + 1) - 1] \in Nat
                          /\ q[(m + 1) + 1] * Power[((m + 1) + 1) - 1] <= v
        <4>1. \A m \in Nat : m + 1 \in Nat
          OBVIOUS
        <4> QED
          BY <4>1, Zenon
      <3> DEFINE i == m + 1
      <3>1. i \in 1..(L - 1) /\ i \in 1..L
        BY <1>0
      <3>2. q[i] * Power[i - 1] \in Nat /\ q[i] * Power[i - 1] <= v
        BY <3>1
      <3> HIDE DEF i
      <3> DEFINE y == q[i] * Power[i - 1]
                 z == q[i + 1] * Power[(i + 1) - 1]
      <3>3. z <= y /\ y \in Nat /\ z \in Nat
        BY <1>5, <3>1
      <3>4. y <= v
        BY <3>2
      <3> HIDE DEF y, z
      <3>5. z <= v /\ z \in Nat
        BY <2>0, <3>3, <3>4
      <3> QED
        BY <3>5 DEF z, i
    <2> HIDE DEF H
    <2>3. \A m \in Nat : m \in H
      BY <2>1, <2>2, Ind
    <2> SUFFICES ASSUME NEW i \in 1..L
                 PROVE  q[i] * Power[i - 1] \in Nat /\ q[i] * Power[i - 1] <= v
      OBVIOUS
    <2>4. i - 1 \in Nat /\ (i - 1) + 1 = i
      BY <1>0
    <2>5. i - 1 \in H
      BY <2>3, <2>4
    <2> QED
      BY <2>4, <2>5 DEF H
  <1>7. \A i \in 1..L : (q[i] * Power[i - 1]) % SizeValues = q[i] * Power[i - 1]
    <2> SUFFICES ASSUME NEW i \in 1..L
                 PROVE  (q[i] * Power[i - 1]) % SizeValues = q[i] * Power[i - 1]
      OBVIOUS
    <2> DEFINE y == q[i] * Power[i - 1]
    <2>1. y \in Nat /\ y <= v
      BY <1>6
    <2> HIDE DEF y
    <2>2. y \in 0..(SizeValues - 1) /\ y = 0 * SizeValues + y
      BY <1>4, <2>1
    <2>3. y % SizeValues = y
      <3>1. (0 * SizeValues + y) % SizeValues = y
        BY <1>4, <2>2, DivMod
      <3> QED
        BY <2>2, <3>1, Zenon
    <2> QED
      BY <2>3 DEF y
  <1>8. \A i \in 1..L : f[i] = q[i] * Power[i - 1]
    <2> DEFINE H == {m \in Nat : L - m \in 1..L => f[L - m] = q[L - m] * Power[L - m - 1]}
    <2>1. 0 \in H
      <3>1. L - 0 = L /\ L - 0 - 1 = L - 1 /\ L \in 1..L /\ L - 1 \in Nat
        BY <1>0
      <3>2. s[L] % Base = q[L]
        <4> DEFINE y == q[L]
        <4>0. y \in Nat /\ y < Base
          BY <1>0, <3>1
        <4> HIDE DEF y
        <4>1. y \in 0..(Base - 1) /\ y = 0 * Base + y /\ Base \in Nat \ {0}
          BY <1>4, <4>0
        <4>2. (0 * Base + y) % Base = y
          BY <4>1, DivMod
        <4>3. y % Base = y
          BY <4>1, <4>2, Zenon
        <4> QED
          BY <1>0, <4>3, Zenon DEF y
      <3>3. f[L] = ((s[L] % Base) * Power[L - 1] + 0) % SizeValues
        BY <1>2, <1>3, <3>1, Zenon
      <3>4. f[L] = (q[L] * Power[L - 1] + 0) % SizeValues
        BY <3>2, <3>3, Zenon
      <3> DEFINE y == q[L] * Power[L - 1]
      <3>5. y \in Nat /\ y % SizeValues = y
        BY <1>6, <1>7, <3>1
      <3>6. f[L] = (y + 0) % SizeValues
        BY <3>4
      <3> HIDE DEF y
      <3>7. y + 0 = y
        BY <3>5
      <3>8. f[L] = y
        BY <3>5, <3>6, <3>7, Zenon
      <3> QED
        BY <3>1, <3>8 DEF y
    <2>2. \A m \in Nat : m \in H => m + 1 \in H
      <3> SUFFICES ASSUME NEW m \in Nat, m \in H, L - (m + 1) \in 1..L
                   PROVE  f[L - (m + 1)] = q[L - (m + 1)] * Power[L - (m + 1) - 1]
        OBVIOUS
      <3> DEFINE i == L - (m + 1)
      <3>1. i \in 1..(L - 1) /\ L - m = i + 1 /\ L - m - 1 = (i + 1) - 1 /\ L - m \in 1..L
        BY <1>0
      <3>2. f[i + 1] = q[i + 1] * Power[(i + 1) - 1]
        <4>1. f[L - m] = q[L - m] * Power[L - m - 1]
          BY <3>1
        <4> HIDE DEF i
        <4> QED
          BY <3>1, <4>1, Zenon
      <3>3. i \in 1..L
        BY <1>0
      <3> HIDE DEF i
      <3>4. f[i] = ((s[i] % Base) * Power[i - 1] + f[i + 1]) % SizeValues
        BY <1>2, <1>3, <3>1, <3>3, Zenon
      <3>5. f[i] = (q[i] * Power[i - 1]) % SizeValues
        BY <1>5, <3>1, <3>2, <3>4, Zenon
      <3>6. f[i] = q[i] * Power[i - 1]
        BY <1>7, <3>3, <3>5, Zenon
      <3> QED
        BY <3>6, Zenon DEF i
    <2> HIDE DEF H
    <2>3. \A m \in Nat : m \in H
      BY <2>1, <2>2, Ind
    <2> SUFFICES ASSUME NEW i \in 1..L PROVE f[i] = q[i] * Power[i - 1]
      OBVIOUS
    <2>4. L - i \in Nat /\ L - (L - i) = i
      BY <1>0
    <2>5. L - i \in H
      BY <2>3, <2>4
    <2> QED
      BY <2>4, <2>5 DEF H
  <1>9. f[1] = v
    <2>1. 1 \in 1..L /\ 1 - 1 = 0 /\ v * 1 = v
      BY <1>0, <1>4
    <2>2. f[1] = q[1] * Power[1 - 1]
      BY <1>8, <2>1
    <2> QED
      BY <1>0, <1>4, <2>1, <2>2
  <1> QED
    BY <1>1, <1>9

\* The first byte of s that does not continue is its k-th.
EndsAt(s, k) ==
  /\ k \in 1..Len(s) /\ ~Continues(s[k])
  /\ \A j \in 1..(k - 1) : Continues(s[j])

LEMMA EndsOnce ==
  ASSUME NEW s, Len(s) \in Nat, NEW k, NEW m, EndsAt(s, k), EndsAt(s, m)
  PROVE  k = m
  <1>1. k \in Nat /\ m \in Nat /\ k >= 1 /\ m >= 1
    BY DEF EndsAt
  <1>2. ~(k < m)
    <2> SUFFICES ASSUME k < m PROVE FALSE
      OBVIOUS
    <2>1. k \in 1..(m - 1)
      BY <1>1
    <2> QED
      BY <2>1 DEF EndsAt
  <1>3. ~(m < k)
    <2> SUFFICES ASSUME m < k PROVE FALSE
      OBVIOUS
    <2>1. m \in 1..(k - 1)
      BY <1>1
    <2> QED
      BY <2>1 DEF EndsAt
  <1> QED
    BY <1>1, <1>2, <1>3

\* size_length finds that byte, or that there is none.
LEMMA SizeLengthIs ==
  ASSUME NEW s \in Seq(Byte)
  PROVE  /\ \A k : EndsAt(s, k) => size_length(s) = k
         /\ (\A i \in 1..Len(s) : Continues(s[i])) => size_length(s) = 0
         /\ size_length(s) # 0 => EndsAt(s, size_length(s))
         /\ size_length(s) = 0 => \A i \in 1..Len(s) : Continues(s[i])
         /\ size_length(s) \in Nat
  <1>0. Len(s) \in Nat /\ DOMAIN s = 1..Len(s)
    BY LenProperties
  <1> DEFINE Q(i) == ~Continues(s[i]) /\ \A j \in 1..(i - 1) : Continues(s[j])
             c == CHOOSE i \in DOMAIN s : Q(i)
  <1>1. size_length(s) = IF \A i \in DOMAIN s : Continues(s[i]) THEN 0 ELSE c
    BY DEF size_length
  <1>2. ASSUME \E i \in 1..Len(s) : ~Continues(s[i]) PROVE EndsAt(s, c)
    <2> DEFINE D == {i \in 1..Len(s) : ~Continues(s[i])}
    <2>1. PICK i \in D : \A k \in D : i <= k
      <3>1. D \in SUBSET Nat /\ D # {}
        BY <1>0, <1>2
      <3> HIDE DEF D
      <3> QED
        BY <3>1, Least
    <2>2. i \in 1..Len(s) /\ ~Continues(s[i])
      BY <2>1
    <2>3. ASSUME NEW j \in 1..(i - 1) PROVE Continues(s[j])
      <3>1. j \in 1..Len(s) /\ ~(i <= j)
        BY <1>0, <2>2
      <3> QED
        BY <2>1, <3>1
    <2>4. \E k \in 1..Len(s) : Q(k)
      BY <2>2, <2>3
    <2>5. c \in 1..Len(s) /\ Q(c)
      <3> HIDE DEF Q
      <3>1. c \in DOMAIN s /\ Q(c)
        BY <1>0, <2>4
      <3> QED
        BY <1>0, <3>1
    <2> QED
      BY <2>5, Zenon DEF EndsAt
  <1> HIDE DEF c
  <1>3. CASE \A i \in 1..Len(s) : Continues(s[i])
    <2>1. size_length(s) = 0
      BY <1>0, <1>1, <1>3
    <2>2. \A k : ~EndsAt(s, k)
      BY <1>3 DEF EndsAt
    <2> QED
      BY <1>3, <2>1, <2>2
  <1>4. CASE ~(\A i \in 1..Len(s) : Continues(s[i]))
    <2>1. size_length(s) = c
      BY <1>0, <1>1, <1>4
    <2>2. EndsAt(s, c)
      BY <1>2, <1>4
    <2>3. c \in Nat /\ c # 0
      BY <1>0, <2>2 DEF EndsAt
    <2>4. \A k : EndsAt(s, k) => k = c
      BY <1>0, <2>2, EndsOnce
    <2> QED
      BY <1>4, <2>1, <2>2, <2>3, <2>4
  <1> QED
    BY <1>3, <1>4

\* A length below Base^(d + 1) takes at most d + 1 bytes.
LEMMA PackLength ==
  ASSUME NEW d \in Nat
  PROVE  \A n \in Nat : n < Power[d + 1] => Len(pack[n]) <= d + 1
  <1> DEFINE H == {e \in Nat : \A n \in Nat : n < Power[e + 1] => Len(pack[n]) <= e + 1}
  <1>0. /\ Base \in Nat /\ Base > 1
        /\ Power[0] = 1 /\ \A n \in Nat : Power[n + 1] = Base * Power[n] /\ Power[n] \in Nat \ {0}
    BY PowerIs
  <1>1. 0 \in H
    <2>1. Power[0 + 1] = Base
      <3>1. Power[0 + 1] = Base * 1
        BY <1>0
      <3> QED
        BY <1>0, <3>1
    <2>2. ASSUME NEW n \in Nat, n < Base PROVE Len(pack[n]) <= 0 + 1
      <3>1. pack[n] = <<n>>
        BY <2>2, PackIs
      <3>2. Len(<<n>>) <= 0 + 1
        OBVIOUS
      <3> QED
        BY <3>1, <3>2
    <2> QED
      BY <2>1, <2>2
  <1>2. \A e \in Nat : e \in H => e + 1 \in H
    <2> SUFFICES ASSUME NEW e \in Nat, e \in H, NEW n \in Nat, n < Power[(e + 1) + 1]
                 PROVE  Len(pack[n]) <= (e + 1) + 1
      <3>1. \A e \in Nat : e + 1 \in Nat
        OBVIOUS
      <3> QED
        BY <3>1, Zenon
    <2>1. CASE n < Base
      <3>1. pack[n] = <<n>>
        BY <2>1, PackIs
      <3>2. Len(<<n>>) = 1
        OBVIOUS
      <3> QED
        BY <3>1, <3>2
    <2>2. CASE ~(n < Base)
      <3> DEFINE q == n \div Base
                 x == (n % Base) + Base
                 h == <<x>>
      <3>1. q \in Nat /\ n % Base \in 0..(Base - 1) /\ n = Base * q + (n % Base)
        BY Quotient
      <3>2. n >= Base
        BY <1>0, <2>2
      <3>3. pack[n] = h \o pack[q] /\ x \in Byte
        <4>1. pack[n] = h \o pack[q]
          BY <3>2, PackIs
        <4>2. x \in Byte
          <5> HIDE DEF q
          <5> QED
            BY <1>0, <3>1 DEF Byte
        <4> QED
          BY <4>1, <4>2
      <3>4. q < Power[e + 1]
        <4> DEFINE r == n % Base
                   p == Power[e + 1]
        <4>1. r \in Nat /\ n = Base * q + r /\ p \in Nat /\ n < Base * p
          <5>1. e + 1 \in Nat
            OBVIOUS
          <5>2. Power[(e + 1) + 1] = Base * p /\ p \in Nat
            BY <1>0, <5>1
          <5>3. r \in Nat
            BY <3>1, <1>0
          <5> QED
            BY <3>1, <5>2, <5>3, Zenon
        <4> HIDE DEF r, p, q
        <4>2. ASSUME q >= p PROVE FALSE
          <5>1. PICK y \in Nat : q = p + y
            BY <4>2, <4>1, <3>1
          <5>2. Base * (p + y) = Base * p + Base * y /\ Base * y \in Nat /\ Base * p \in Nat
            BY <1>0, <4>1
          <5> QED
            BY <4>1, <5>1, <5>2
        <4>3. q < p
          BY <3>1, <4>1, <4>2
        <4> QED
          BY <4>3 DEF p
      <3> HIDE DEF q, x
      <3>5. Len(pack[q]) <= e + 1 /\ pack[q] \in Seq(Byte) /\ Len(pack[q]) \in Nat
        BY <3>1, <3>4, PackIs, LenProperties
      <3>6. h \in Seq(Byte) /\ Len(h) = 1
        BY <3>3
      <3> HIDE DEF h
      <3>7. Len(h \o pack[q]) = 1 + Len(pack[q])
        <4> DEFINE u == pack[q]
        <4>1. u \in Seq(Byte)
          BY <3>5
        <4> HIDE DEF u
        <4>2. Len(h \o u) = Len(h) + Len(u)
          BY <3>6, <4>1, ConcatAt
        <4> QED
          BY <3>6, <4>2 DEF u
      <3> QED
        BY <3>3, <3>5, <3>7
    <2> QED
      BY <2>1, <2>2
  <1> HIDE DEF H
  <1>3. \A e \in Nat : e \in H
    BY <1>1, <1>2, Ind
  <1> QED
    BY <1>3 DEF H

\* A length that size_type can hold comes back from its varint form, which is
\* not longer than the parser accepts; a proper beginning of it is no length.
LEMMA VarintRoundTrip ==
  ASSUME NEW n \in 0..(SizeValues - 1)
  PROVE  /\ size_length(pack[n]) = Len(pack[n])
         /\ Len(pack[n]) <= max_length
         /\ unpack(pack[n]) = n
         /\ \A i \in 1..(Len(pack[n]) - 1) : size_length(SubSeq(pack[n], 1, i)) = 0
  <1> DEFINE s == pack[n]
  <1>0. n \in Nat /\ s \in Seq(Byte) /\ Len(s) \in Nat
    <2>1. n \in Nat
      BY SizeValuesNat
    <2>2. s \in Seq(Byte)
      BY <2>1, PackIs
    <2> QED
      BY <2>1, <2>2, LenProperties
  <1>1. PICK q : Groups(q, s, n)
    BY <1>0, PackGroups
  <1>2. Len(s) \in Nat
    BY <1>0, LenProperties
  <1> HIDE DEF s
  <1>3. /\ \A i \in 1..(Len(s) - 1) : Continues(s[i])
        /\ ~Continues(s[Len(s)]) /\ Len(s) \in 1..Len(s)
    BY <1>1, GroupsContinue
  <1>4. size_length(s) = Len(s)
    <2>1. EndsAt(s, Len(s))
      BY <1>3 DEF EndsAt
    <2> QED
      BY <1>0, <2>1, SizeLengthIs
  <1>5. unpack(s) = n
    BY <1>0, <1>1, GroupsUnpack
  <1>6. ASSUME NEW i \in 1..(Len(s) - 1) PROVE size_length(SubSeq(s, 1, i)) = 0
    <2> DEFINE u == SubSeq(s, 1, i)
    <2>1. i \in Nat /\ i <= Len(s) /\ i + 1 - 1 = i /\ 1 <= i + 1 /\ 1 \in Nat \ {0}
      BY <1>0
    <2>2. /\ u \in Seq(Byte) /\ Len(u) = i + 1 - 1
          /\ \A j \in 1..(i + 1 - 1) : u[j] = s[1 - 1 + j]
      BY <1>0, <2>1, SubSeqAt
    <2> HIDE DEF u
    <2>3. \A j \in 1..Len(u) : Continues(u[j])
      <3> SUFFICES ASSUME NEW j \in 1..Len(u) PROVE Continues(u[j])
        OBVIOUS
      <3>1. j \in 1..i /\ j \in 1..(Len(s) - 1) /\ 1 - 1 + j = j
        BY <1>0, <2>1, <2>2
      <3>2. u[j] = s[j]
        BY <2>1, <2>2, <3>1
      <3> QED
        BY <1>3, <3>1, <3>2
    <2>4. size_length(u) = 0
      BY <2>2, <2>3, SizeLengthIs
    <2> QED
      BY <2>4 DEF u
  <1>7. Len(s) <= max_length
    <2>1. /\ Base \in Nat /\ Base > 1 /\ Digits \in Nat /\ Power[Digits] \in Nat
          /\ Power[Digits + 1] = Base * Power[Digits]
      BY PowerIs
    <2> DEFINE p == Power[Digits]
    <2>2. n < 2 * p
      <3>1. p \in Nat /\ SizeValues = 2 * p
        BY <2>1 DEF SizeValues
      <3> HIDE DEF p
      <3> QED
        BY <3>1
    <2>3. p \in Nat /\ Power[Digits + 1] = Base * p
      BY <2>1
    <2> HIDE DEF p
    <2>4. 2 * p <= Base * p
      <3> DEFINE e == Base - 2
      <3>1. e \in Nat /\ Base = 2 + e
        BY <2>1
      <3> HIDE DEF e
      <3>2. (2 + e) * p = 2 * p + e * p /\ e * p \in Nat
        BY <2>3, <3>1
      <3> QED
        BY <2>3, <3>1, <3>2
    <2>5. n < Power[Digits + 1]
      <3> DEFINE z == Base * p
      <3>1. z \in Nat /\ 2 * p <= z
        BY <2>1, <2>3, <2>4, ProdNat
      <3> HIDE DEF z
      <3>2. n < z
        BY <1>0, <2>2, <2>3, <3>1
      <3> QED
        BY <2>3, <3>2 DEF z
    <2>6. Len(s) <= Digits + 1
      BY <1>0, <2>1, <2>5, PackLength DEF s
    <2> QED
      BY <2>6 DEF max_length
  <1> QED
    BY <1>4, <1>5, <1>6, <1>7, Zenon DEF s

\* And so does one of two bytes from its fixint form.
LEMMA FixintRoundTrip ==
  ASSUME NEW n \in Nat, n < Octets[2]
  PROVE  fix_size_length(fix_pack(n, 2), 2) = 2 /\ fix_unpack(fix_pack(n, 2), 2) = n
  <1> DEFINE B == 2 * Base
             s == fix_pack(n, 2)
             a == n \div B
             r == n % B
  <1>0. B \in Nat \ {0}
    BY SizePackAssumption
  <1>1. Octets[0] = 1 /\ Octets[1] = B /\ Octets[2] = B * B
    <2> HIDE DEF B
    <2>1. /\ Octets[0] = 1 /\ \A m \in Nat : Octets[m + 1] = B * Octets[m]
      BY <1>0, PowersAre DEF Octets, B
    <2>2. Octets[0 + 1] = B * 1 /\ Octets[1 + 1] = B * Octets[1]
      BY <2>1
    <2>3. Octets[1] = B
      BY <1>0, <2>2
    <2> QED
      BY <2>1, <2>2, <2>3
  <1> HIDE DEF B
  <1>2. a \in Nat /\ r \in 0..(B - 1) /\ n = B * a + r
    BY <1>0
  <1> HIDE DEF a, r
  <1>3. a \in 0..(B - 1)
    <2>1. ASSUME a >= B PROVE FALSE
      <3> DEFINE y == a - B
      <3>1. y \in Nat /\ a = B + y
        BY <1>0, <1>2, <2>1
      <3> HIDE DEF y
      <3>2. B * (B + y) = B * B + B * y /\ B * y \in Nat /\ B * B \in Nat
        BY <1>0, <3>1
      <3> QED
        BY <1>0, <1>1, <1>2, <3>1, <3>2
    <2> QED
      BY <1>0, <1>2, <2>1
  <1>4. s = [i \in 1..2 |-> (n \div Octets[2 - i]) % B]
    BY DEF fix_pack, B
  <1>5. s[1] = a /\ s[2] = r
    <2>1. s[1] = (n \div Octets[2 - 1]) % B /\ s[2] = (n \div Octets[2 - 2]) % B
      BY <1>4
    <2>2. s[1] = a % B
      <3>1. 2 - 1 = 1
        OBVIOUS
      <3> QED
        BY <1>1, <2>1, <3>1, Zenon DEF a
    <2>3. a % B = a
      <3>1. (0 * B + a) % B = a
        BY <1>0, <1>3, DivMod
      <3>2. 0 * B + a = a
        BY <1>0, <1>2
      <3> QED
        BY <3>1, <3>2, Zenon
    <2>4. s[2] = r
      <3>1. 2 - 2 = 0 /\ n \div 1 = n
        OBVIOUS
      <3> QED
        BY <1>1, <2>1, <3>1, Zenon DEF r
    <2> QED
      BY <2>2, <2>3, <2>4
  <1>6. Len(s) = 2
    <2>1. \A i \in 1..2 : s[i] \in Nat
      BY <1>0, <1>2, <1>5
    <2>2. s = [i \in 1..2 |-> s[i]]
      BY <1>4
    <2> HIDE DEF s
    <2>3. s \in [1..2 -> Nat]
      BY <2>1, <2>2
    <2>4. s \in Seq(Nat)
      BY <2>3, SeqDef
    <2>5. DOMAIN s = 1..Len(s) /\ Len(s) \in Nat
      BY <2>4, LenProperties
    <2>6. DOMAIN s = 1..2
      BY <2>3
    <2>7. 2 \in 1..Len(s)
      <3>1. 2 \in 1..2
        OBVIOUS
      <3> QED
        BY <2>5, <2>6, <3>1, Zenon
    <2>8. Len(s) \in 1..2
      <3>1. Len(s) \in 1..Len(s)
        BY <2>5, <2>7
      <3> QED
        BY <2>5, <2>6, <3>1, Zenon
    <2> QED
      BY <2>5, <2>7, <2>8
  <1> DEFINE P(f) == f = [i \in 1..(2 + 1) |->
                            IF i > 2 \/ i > Len(s) THEN 0 ELSE s[i] * Octets[2 - i] + f[i + 1]]
             h == CHOOSE f : P(f)
  <1>7. fix_unpack(s, 2) = h[1]
    BY DEF fix_unpack
  <1> HIDE DEF s
  <1>8. \E f : P(f)
    <2> DEFINE g == [i \in 1..3 |-> CASE i = 1 -> a * B + r [] i = 2 -> r [] OTHER -> 0]
               e == [i \in 1..(2 + 1) |->
                      IF i > 2 \/ i > Len(s) THEN 0 ELSE s[i] * Octets[2 - i] + g[i + 1]]
    <2>1. g[1] = a * B + r /\ g[2] = r /\ g[3] = 0
      OBVIOUS
    <2> HIDE DEF g
    <2>2. e[1] = a * B + r
      <3>1. e[1] = s[1] * Octets[1] + g[2]
        BY <1>6
      <3> QED
        BY <1>1, <1>5, <2>1, <3>1
    <2>3. e[2] = r
      <3>1. e[2] = s[2] * Octets[0] + g[3]
        BY <1>6
      <3>2. r * 1 + 0 = r
        BY <1>0, <1>2
      <3> QED
        BY <1>1, <1>5, <2>1, <3>1, <3>2
    <2>4. e[3] = 0
      BY <1>6
    <2>5. g = [i \in 1..3 |-> g[i]] /\ e = [i \in 1..3 |-> e[i]] /\ 1..3 = {1, 2, 3}
      BY DEF g
    <2>6. g = e
      <3> HIDE DEF e
      <3> QED
        BY <2>1, <2>2, <2>3, <2>4, <2>5
    <2>7. P(g)
      BY <2>6
    <2> QED
      BY <2>7
  <1>9. P(h)
    <2> HIDE DEF P
    <2> QED
      BY <1>8
  <1> HIDE DEF h
  <1>10. h[3] = 0 /\ h[2] = s[2] * Octets[0] + h[3] /\ h[1] = s[1] * Octets[1] + h[2]
    BY <1>6, <1>9
  <1>11. h[1] = n
    <2>1. h[2] = r
      <3>1. r * 1 + 0 = r
        BY <1>0, <1>2
      <3> QED
        BY <1>1, <1>5, <1>10, <3>1
    <2>2. h[1] = a * B + r
      BY <1>1, <1>5, <1>10, <2>1
    <2>3. a * B = B * a
      BY <1>0, <1>2
    <2> QED
      BY <1>2, <2>2, <2>3
  <1>12. fix_size_length(s, 2) = 2
    BY <1>6 DEF fix_size_length
  <1> QED
    BY <1>7, <1>11, <1>12 DEF s

------------------------------------------------------------------------------
(* The bytes of a plan.                                                     *)

\* g[k] is what StreamTo gives for k frames.
Streams(g, p) ==
  /\ g \in [Nat -> Seq(Byte)] /\ g[0] = <<>>
  /\ \A j \in 1..Len(p) : g[j] = g[j - 1] \o Bytes(p[j])
  /\ \A k \in 0..Len(p) : StreamTo(p, k) = g[k]

LEMMA BytesOf ==
  ASSUME NEW f \in Frame
  PROVE  /\ f.prefix \in Seq(Byte) /\ f.body \in Seq(Byte) /\ Bytes(f) \in Seq(Byte)
         /\ Len(f.prefix) \in Nat /\ Len(f.body) \in Nat
         /\ Len(Bytes(f)) = Len(f.prefix) + Len(f.body)
         /\ \A i \in 1..Len(f.prefix) : Bytes(f)[i] = f.prefix[i]
         /\ \A i \in 1..Len(f.body) : Bytes(f)[Len(f.prefix) + i] = f.body[i]
  <1>1. f.prefix \in Seq(Byte) /\ f.body \in Seq(Byte)
    BY DEF Frame
  <1>2. Len(f.prefix) \in Nat /\ Len(f.body) \in Nat
    BY <1>1, LenProperties
  <1> DEFINE a == f.prefix
             b == f.body
  <1> HIDE DEF a, b
  <1>3. /\ a \o b \in Seq(Byte)
        /\ Len(a \o b) = Len(a) + Len(b)
        /\ \A i \in 1..Len(a) : (a \o b)[i] = a[i]
        /\ \A i \in 1..Len(b) : (a \o b)[Len(a) + i] = b[i]
    <2>1. a \in Seq(Byte) /\ b \in Seq(Byte)
      BY <1>1 DEF a, b
    <2> QED
      BY <2>1, ConcatAt
  <1> QED
    BY <1>1, <1>2, <1>3, Zenon DEF Bytes, a, b

LEMMA StreamIs ==
  ASSUME NEW p \in Seq(Frame)
  PROVE  \E g : Streams(g, p)
  <1> DEFINE S == Seq(Byte)
             n == Len(p)
             z == <<>>
             T == [j \in Nat |-> j - 1]
             G == [j \in Nat |-> [x \in S |-> IF j \in 1..n THEN x \o Bytes(p[j]) ELSE z]]
  <1>0. n \in Nat /\ \A j \in 1..n : p[j] \in Frame /\ Bytes(p[j]) \in S
    <2>1. n \in Nat /\ \A j \in 1..n : p[j] \in Frame
      BY LenProperties, ElementOfSeq
    <2> QED
      BY <2>1, BytesOf
  <1> HIDE DEF n
  <1>1. z \in S
    OBVIOUS
  <1>2. \A j \in 1..n : \A x \in S : x \o Bytes(p[j]) \in S
    <2> SUFFICES ASSUME NEW j \in 1..n, NEW x \in S PROVE x \o Bytes(p[j]) \in S
      OBVIOUS
    <2> DEFINE b == Bytes(p[j])
    <2>1. b \in S
      BY <1>0
    <2> HIDE DEF b
    <2>2. x \o b \in S
      BY <2>1, ConcatAt
    <2> QED
      BY <2>2 DEF b
  <1> HIDE DEF z
  <1>3. RecursionData(S, z, T, G)
    <2>1. \A j \in Nat \ {0} : T[j] \in 0..(j - 1)
      OBVIOUS
    <2>2. \A j \in Nat \ {0} : \A x \in S : G[j][x] \in S
      <3> HIDE DEF S
      <3> QED
        BY <1>1, <1>2
    <2> HIDE DEF S, T, G
    <2> QED
      BY <1>1, <2>1, <2>2 DEF RecursionData
  <1>4. \E g : RecursiveFcn(g, S, z, T, G)
    <2> HIDE DEF S, T, G
    <2> QED
      BY <1>3, Recursion
  <1>5. PICK g : RecursiveFcn(g, S, z, T, G)
    BY <1>4
  <1>6. g \in [Nat -> S] /\ g[0] = z /\ \A j \in Nat \ {0} : g[j] = G[j][g[T[j]]]
    <2> HIDE DEF S, T, G
    <2> QED
      BY <1>5 DEF RecursiveFcn
  <1>7. \A j \in 1..n : g[j] = g[j - 1] \o Bytes(p[j])
    <2> SUFFICES ASSUME NEW j \in 1..n PROVE g[j] = g[j - 1] \o Bytes(p[j])
      OBVIOUS
    <2>1. j \in Nat \ {0} /\ j - 1 \in Nat /\ T[j] = j - 1
      BY <1>0
    <2>2. g[j - 1] \in S /\ g[j] = G[j][g[j - 1]]
      <3> HIDE DEF S, G, T
      <3> QED
        BY <1>6, <2>1
    <2>3. \A x \in S : G[j][x] = x \o Bytes(p[j])
      <3> HIDE DEF S
      <3> QED
        BY <2>1
    <2> HIDE DEF S, G, T
    <2> QED
      BY <2>2, <2>3
  <1> HIDE DEF T, G
  <1>8. ASSUME NEW k \in 0..n PROVE StreamTo(p, k) = g[k]
    <2> DEFINE P(f) == f = [j \in 0..k |-> IF j = 0 THEN <<>> ELSE f[j - 1] \o Bytes(p[j])]
               h == CHOOSE f : P(f)
    <2>0. k \in Nat
      BY <1>0
    <2>1. StreamTo(p, k) = h[k]
      BY DEF StreamTo
    <2>2. \E f : P(f)
      <3> DEFINE f == [j \in 0..k |-> g[j]]
                 e == [j \in 0..k |-> IF j = 0 THEN <<>> ELSE f[j - 1] \o Bytes(p[j])]
      <3>1. ASSUME NEW j \in 0..k PROVE f[j] = e[j]
        <4>1. CASE j = 0
          BY <1>6, <4>1 DEF z
        <4>2. CASE j # 0
          <5>1. j \in 1..n /\ j - 1 \in 0..k
            BY <1>0, <2>0, <4>2
          <5>2. f[j - 1] = g[j - 1] /\ f[j] = g[j]
            BY <5>1
          <5>3. e[j] = f[j - 1] \o Bytes(p[j])
            BY <4>2
          <5> HIDE DEF f, e
          <5> QED
            BY <1>7, <5>1, <5>2, <5>3
        <4> QED
          BY <4>1, <4>2
      <3>2. f = [j \in 0..k |-> f[j]] /\ e = [j \in 0..k |-> e[j]]
        OBVIOUS
      <3> HIDE DEF e
      <3>3. f = e
        <4> HIDE DEF f
        <4> QED
          BY <3>1, <3>2
      <3>4. P(f)
        <4> HIDE DEF f
        <4> QED
          BY <3>3, Zenon DEF e
      <3> QED
        BY <3>4
    <2>3. P(h)
      <3> HIDE DEF P
      <3> QED
        BY <2>2
    <2> HIDE DEF h
    <2>4. h[0] = <<>> /\ \A j \in 1..k : h[j] = h[j - 1] \o Bytes(p[j])
      <3>1. 0 \in 0..k /\ \A j \in 1..k : j \in 0..k /\ j # 0
        BY <2>0
      <3> QED
        BY <2>3, <3>1
    <2> DEFINE H == {j \in Nat : j <= k => h[j] = g[j]}
    <2>5. 0 \in H
      BY <1>6, <2>4 DEF z
    <2>6. \A j \in Nat : j \in H => j + 1 \in H
      <3> SUFFICES ASSUME NEW j \in Nat, j \in H, j + 1 <= k PROVE h[j + 1] = g[j + 1]
        <4>1. \A j \in Nat : j + 1 \in Nat
          OBVIOUS
        <4> QED
          BY <4>1, Zenon
      <3>1. j + 1 \in 1..k /\ j + 1 \in 1..n /\ (j + 1) - 1 = j /\ j <= k
        BY <1>0, <2>0
      <3>2. h[j] = g[j]
        BY <3>1
      <3>3. h[j + 1] = h[j] \o Bytes(p[j + 1])
        BY <2>4, <3>1
      <3>4. g[j + 1] = g[j] \o Bytes(p[j + 1])
        BY <1>7, <3>1
      <3> QED
        BY <3>2, <3>3, <3>4
    <2> HIDE DEF H
    <2>7. \A j \in Nat : j \in H
      BY <2>5, <2>6, Ind
    <2>8. h[k] = g[k]
      BY <2>0, <2>7 DEF H
    <2> QED
      BY <2>1, <2>8
  <1>9. Streams(g, p)
    <2> HIDE DEF S
    <2>1. g \in [Nat -> Seq(Byte)] /\ g[0] = <<>>
      BY <1>6 DEF S, z
    <2> QED
      BY <1>7, <1>8, <2>1, Zenon DEF Streams, n
  <1> QED
    BY <1>9

LEMMA StreamSteps ==
  ASSUME NEW p \in Seq(Frame)
  PROVE  /\ Len(p) \in Nat /\ \A k \in 1..Len(p) : p[k] \in Frame
         /\ StreamTo(p, 0) = <<>>
         /\ \A k \in 0..Len(p) : StreamTo(p, k) \in Seq(Byte)
         /\ \A k \in 0..(Len(p) - 1) : StreamTo(p, k + 1) = StreamTo(p, k) \o Bytes(p[k + 1])
  <1>1. Len(p) \in Nat /\ \A k \in 1..Len(p) : p[k] \in Frame
    BY LenProperties, ElementOfSeq
  <1>2. PICK g : Streams(g, p)
    BY StreamIs
  <1>3. /\ g \in [Nat -> Seq(Byte)] /\ g[0] = <<>>
        /\ \A j \in 1..Len(p) : g[j] = g[j - 1] \o Bytes(p[j])
        /\ \A k \in 0..Len(p) : StreamTo(p, k) = g[k]
    BY <1>2, Zenon DEF Streams
  <1>4. \A k \in 0..Len(p) : StreamTo(p, k) \in Seq(Byte)
    BY <1>1, <1>3
  <1>5. StreamTo(p, 0) = <<>>
    BY <1>1, <1>3
  <1>6. ASSUME NEW k \in 0..(Len(p) - 1) PROVE StreamTo(p, k + 1) = StreamTo(p, k) \o Bytes(p[k + 1])
    <2>1. k + 1 \in 1..Len(p) /\ k + 1 \in 0..Len(p) /\ k \in 0..Len(p) /\ (k + 1) - 1 = k
      BY <1>1
    <2>2. g[k + 1] = g[k] \o Bytes(p[k + 1])
      BY <1>3, <2>1
    <2> QED
      BY <1>3, <2>1, <2>2
  <1> QED
    BY <1>1, <1>4, <1>5, <1>6

\* Where the first k frames end, and the part of the stream from there on that
\* has been read when r bytes have.
End(p, k) == Len(StreamTo(p, k))
Window(p, k, r) == SubSeq(Stream(p), End(p, k) + 1, r)

LEMMA EndIs ==
  ASSUME NEW p \in Seq(Frame)
  PROVE  /\ End(p, 0) = 0 /\ \A k \in 0..Len(p) : End(p, k) \in Nat
         /\ \A k \in 0..(Len(p) - 1) :
              End(p, k + 1) = End(p, k) + Len(p[k + 1].prefix) + Len(p[k + 1].body)
         /\ Stream(p) \in Seq(Byte) /\ Len(Stream(p)) = End(p, Len(p))
  <1>1. /\ Len(p) \in Nat /\ \A k \in 1..Len(p) : p[k] \in Frame
        /\ StreamTo(p, 0) = <<>>
        /\ \A k \in 0..Len(p) : StreamTo(p, k) \in Seq(Byte)
        /\ \A k \in 0..(Len(p) - 1) : StreamTo(p, k + 1) = StreamTo(p, k) \o Bytes(p[k + 1])
    BY StreamSteps
  <1>2. \A k \in 0..Len(p) : End(p, k) \in Nat
    BY <1>1, LenProperties DEF End
  <1>3. End(p, 0) = 0
    BY <1>1 DEF End
  <1>4. ASSUME NEW k \in 0..(Len(p) - 1)
        PROVE  End(p, k + 1) = End(p, k) + Len(p[k + 1].prefix) + Len(p[k + 1].body)
    <2> DEFINE f == p[k + 1]
               b == Bytes(f)
               s == StreamTo(p, k)
    <2>1. k + 1 \in 1..Len(p) /\ k \in 0..Len(p)
      BY <1>1
    <2>2. f \in Frame /\ s \in Seq(Byte) /\ StreamTo(p, k + 1) = s \o b
      BY <1>1, <2>1
    <2> HIDE DEF f
    <2>3. b \in Seq(Byte) /\ Len(b) = Len(f.prefix) + Len(f.body) /\ Len(f.prefix) \in Nat /\ Len(f.body) \in Nat
      BY <2>2, BytesOf
    <2> HIDE DEF b, s
    <2>4. Len(s \o b) = Len(s) + Len(b)
      BY <2>2, <2>3, ConcatAt
    <2>5. Len(s) \in Nat
      BY <2>2, LenProperties
    <2>6. Len(StreamTo(p, k + 1)) = Len(s) + Len(f.prefix) + Len(f.body)
      <3>1. Len(StreamTo(p, k + 1)) = Len(s) + (Len(f.prefix) + Len(f.body))
        BY <2>2, <2>3, <2>4, Zenon
      <3> DEFINE x == Len(f.prefix)
                 y == Len(f.body)
      <3>2. x \in Nat /\ y \in Nat
        BY <2>3
      <3> HIDE DEF x, y
      <3>3. Len(s) + (x + y) = Len(s) + x + y
        BY <2>5, <3>2
      <3> QED
        BY <3>1, <3>3, Zenon DEF x, y
    <2> QED
      BY <2>6 DEF End, s, f
  <1>5. Stream(p) \in Seq(Byte) /\ Len(Stream(p)) = End(p, Len(p))
    BY <1>1 DEF Stream, End
  <1> QED
    BY <1>2, <1>3, <1>4, <1>5

\* The stream begins with the bytes of the first k frames, and with those of more.
LEMMA StreamBegins ==
  ASSUME NEW p \in Seq(Frame), NEW k \in 0..Len(p), NEW m \in k..Len(p)
  PROVE  /\ End(p, k) <= End(p, m)
         /\ \A i \in 1..End(p, k) : StreamTo(p, m)[i] = StreamTo(p, k)[i]
  <1>1. /\ Len(p) \in Nat /\ \A j \in 1..Len(p) : p[j] \in Frame
        /\ \A j \in 0..Len(p) : StreamTo(p, j) \in Seq(Byte)
        /\ \A j \in 0..(Len(p) - 1) : StreamTo(p, j + 1) = StreamTo(p, j) \o Bytes(p[j + 1])
    BY StreamSteps
  <1>2. \A j \in 0..Len(p) : End(p, j) \in Nat
    BY EndIs
  <1> DEFINE Q(j) == /\ End(p, k) <= End(p, k + j)
                     /\ \A i \in 1..End(p, k) : StreamTo(p, k + j)[i] = StreamTo(p, k)[i]
             H == {j \in Nat : k + j <= Len(p) => Q(j)}
  <1>3. 0 \in H
    <2>1. k + 0 = k /\ k \in Nat
      BY <1>1
    <2> QED
      BY <1>2, <2>1
  <1>4. \A j \in Nat : j \in H => j + 1 \in H
    <2> SUFFICES ASSUME NEW j \in Nat, j \in H, k + (j + 1) <= Len(p) PROVE Q(j + 1)
      <3>1. \A j \in Nat : j + 1 \in Nat
        OBVIOUS
      <3> HIDE DEF Q
      <3> QED
        BY <3>1, Zenon
    <2> DEFINE a == k + j
               s == StreamTo(p, a)
               b == Bytes(p[a + 1])
    <2>1. a \in 0..(Len(p) - 1) /\ a \in 0..Len(p) /\ k + (j + 1) = a + 1 /\ k + j <= Len(p) /\ a + 1 \in 1..Len(p)
          /\ a + 1 \in 0..Len(p)
      BY <1>1
    <2>2. Q(j)
      <3> HIDE DEF Q
      <3> QED
        BY <2>1
    <2>3. End(p, k) <= Len(s) /\ \A i \in 1..End(p, k) : s[i] = StreamTo(p, k)[i]
      BY <2>2 DEF End
    <2> HIDE DEF a
    <2>4. s \in Seq(Byte) /\ b \in Seq(Byte) /\ StreamTo(p, a + 1) = s \o b
      BY <1>1, <2>1, BytesOf
    <2>5. Len(s) \in Nat /\ Len(b) \in Nat
      BY <2>4, LenProperties
    <2> HIDE DEF s, b
    <2>6. Len(s \o b) = Len(s) + Len(b) /\ \A i \in 1..Len(s) : (s \o b)[i] = s[i]
      BY <2>4, ConcatAt
    <2>7. End(p, k) <= End(p, a + 1)
      <3>1. Len(s) <= Len(s \o b)
        BY <2>5, <2>6
      <3>2. End(p, a + 1) = Len(s \o b)
        BY <2>4 DEF End
      <3>3. End(p, k) \in Nat /\ End(p, k) <= Len(s) /\ Len(s \o b) \in Nat
        BY <1>2, <2>3, <2>5, <2>6
      <3> QED
        BY <2>5, <3>1, <3>2, <3>3
    <2>8. ASSUME NEW i \in 1..End(p, k) PROVE StreamTo(p, a + 1)[i] = StreamTo(p, k)[i]
      <3>1. i \in 1..Len(s)
        <4>1. End(p, k) \in Nat /\ End(p, k) <= Len(s)
          BY <1>2, <2>3
        <4> QED
          BY <2>5, <4>1
      <3> QED
        BY <2>3, <2>4, <2>6, <3>1
    <2> QED
      BY <2>1, <2>7, <2>8
  <1> HIDE DEF H
  <1>5. \A j \in Nat : j \in H
    BY <1>3, <1>4, Ind
  <1>6. m - k \in Nat /\ k + (m - k) = m /\ k + (m - k) <= Len(p)
    BY <1>1
  <1>7. Q(m - k)
    <2>1. m - k \in H
      BY <1>5, <1>6
    <2> HIDE DEF Q
    <2> QED
      BY <1>6, <2>1 DEF H
  <1> QED
    BY <1>6, <1>7

\* Where frame k + 1 is in the stream.
LEMMA FrameAt ==
  ASSUME NEW p \in Seq(Frame), NEW k \in 0..(Len(p) - 1)
  PROVE  /\ p[k + 1] \in Frame /\ End(p, k + 1) <= Len(Stream(p))
         /\ \A i \in 1..Len(p[k + 1].prefix) : Stream(p)[End(p, k) + i] = p[k + 1].prefix[i]
         /\ \A i \in 1..Len(p[k + 1].body) :
              Stream(p)[End(p, k) + Len(p[k + 1].prefix) + i] = p[k + 1].body[i]
  <1>1. /\ Len(p) \in Nat /\ \A j \in 1..Len(p) : p[j] \in Frame
        /\ \A j \in 0..Len(p) : StreamTo(p, j) \in Seq(Byte)
        /\ \A j \in 0..(Len(p) - 1) : StreamTo(p, j + 1) = StreamTo(p, j) \o Bytes(p[j + 1])
    BY StreamSteps
  <1> DEFINE f == p[k + 1]
             s == StreamTo(p, k)
             b == Bytes(f)
             e == End(p, k)
             t == StreamTo(p, k + 1)
             n == Len(f.prefix)
  <1>2. k + 1 \in 1..Len(p) /\ k + 1 \in 0..Len(p) /\ k \in 0..Len(p) /\ Len(p) \in (k + 1)..Len(p)
    BY <1>1
  <1>3. f \in Frame /\ s \in Seq(Byte) /\ t = s \o b /\ e = Len(s)
    BY <1>1, <1>2 DEF End
  <1> HIDE DEF f
  <1>4. /\ b \in Seq(Byte) /\ Len(b) = n + Len(f.body) /\ n \in Nat /\ Len(f.body) \in Nat
        /\ \A i \in 1..n : b[i] = f.prefix[i]
        /\ \A i \in 1..Len(f.body) : b[n + i] = f.body[i]
    BY <1>3, BytesOf
  <1>5. e \in Nat
    BY <1>2, EndIs
  <1> HIDE DEF b, s, e, n
  <1>6. Len(s \o b) = Len(s) + Len(b) /\ \A i \in 1..Len(b) : (s \o b)[Len(s) + i] = b[i]
    <2>1. s \in Seq(Byte) /\ b \in Seq(Byte)
      BY <1>3, <1>4
    <2> QED
      BY <2>1, ConcatAt
  <1>7. End(p, k + 1) <= End(p, Len(p)) /\ \A i \in 1..End(p, k + 1) : StreamTo(p, Len(p))[i] = t[i]
    BY <1>2, StreamBegins
  <1> HIDE DEF t
  <1>8. End(p, k + 1) <= Len(Stream(p)) /\ End(p, k + 1) = e + n + Len(f.body)
        /\ \A i \in 1..End(p, k + 1) : Stream(p)[i] = t[i]
    <2>1. End(p, k + 1) = Len(t)
      BY DEF End, t
    <2>2. Len(t) = e + n + Len(f.body)
      <3> DEFINE x == Len(f.body)
      <3>1. x \in Nat /\ n \in Nat /\ Len(t) = e + (n + x)
        BY <1>3, <1>4, <1>6, Zenon
      <3> HIDE DEF x
      <3>2. e + (n + x) = e + n + x
        BY <1>5, <3>1
      <3> QED
        BY <3>1, <3>2, Zenon DEF x
    <2> QED
      BY <1>7, <2>1, <2>2, EndIs DEF Stream
  <1>9. ASSUME NEW i \in 1..Len(b) PROVE Stream(p)[e + i] = b[i]
    <2>1. e + i \in 1..End(p, k + 1)
      <3> DEFINE x == Len(f.body)
      <3>1. x \in Nat /\ n \in Nat /\ Len(b) = n + x /\ End(p, k + 1) = e + n + x
        BY <1>4, <1>8
      <3> HIDE DEF x
      <3> QED
        BY <1>5, <3>1
    <2>2. Stream(p)[e + i] = t[e + i]
      BY <1>8, <2>1
    <2>3. t[e + i] = b[i]
      BY <1>3, <1>6
    <2> QED
      BY <2>2, <2>3
  <1>10. ASSUME NEW i \in 1..n PROVE Stream(p)[e + i] = f.prefix[i]
    <2>1. i \in 1..Len(b)
      BY <1>4
    <2> QED
      BY <1>4, <1>9, <2>1
  <1>11. ASSUME NEW i \in 1..Len(f.body) PROVE Stream(p)[e + n + i] = f.body[i]
    <2>1. n + i \in 1..Len(b) /\ e + n + i = e + (n + i)
      BY <1>4, <1>5
    <2> QED
      BY <1>4, <1>9, <2>1
  <1> QED
    BY <1>3, <1>8, <1>10, <1>11, Zenon DEF e, n, f

------------------------------------------------------------------------------
(* What the parser finds in a part of a stream that begins with a frame.    *)

LEMMA WindowAt ==
  ASSUME NEW p \in Seq(Frame), NEW k \in 0..Len(p), NEW r \in End(p, k)..Len(Stream(p))
  PROVE  /\ Window(p, k, r) \in Seq(Byte) /\ Len(Window(p, k, r)) = r - End(p, k)
         /\ \A i \in 1..(r - End(p, k)) : Window(p, k, r)[i] = Stream(p)[End(p, k) + i]
         /\ End(p, k) \in Nat /\ r \in Nat /\ Len(Stream(p)) \in Nat
  <1> DEFINE s == Stream(p)
             e == End(p, k)
  <1>1. s \in Seq(Byte) /\ e \in Nat
    BY EndIs
  <1>2. Len(s) \in Nat
    BY <1>1, LenProperties
  <1> HIDE DEF s, e
  <1>3. e + 1 \in Nat \ {0} /\ r \in Nat /\ r <= Len(s) /\ e + 1 <= r + 1
    BY <1>1, <1>2 DEF s, e
  <1>4. /\ SubSeq(s, e + 1, r) \in Seq(Byte)
        /\ Len(SubSeq(s, e + 1, r)) = r + 1 - (e + 1)
        /\ \A i \in 1..(r + 1 - (e + 1)) : SubSeq(s, e + 1, r)[i] = s[e + 1 - 1 + i]
    BY <1>1, <1>3, SubSeqAt
  <1>5. r + 1 - (e + 1) = r - e
    BY <1>1, <1>3
  <1>6. \A i \in 1..(r - e) : e + 1 - 1 + i = e + i
    BY <1>1, <1>3
  <1>7. \A i \in 1..(r - e) : SubSeq(s, e + 1, r)[i] = s[e + i]
    BY <1>4, <1>5, <1>6, Zenon
  <1> QED
    BY <1>1, <1>2, <1>3, <1>4, <1>5, <1>7, Zenon DEF s, e, Window

\* The frames of a plan are framed.
LEMMA PlanFrames ==
  ASSUME NEW p \in Plans
  PROVE  /\ p \in Seq(Frame) /\ Len(p) \in Nat
         /\ \A k \in 1..Len(p) : /\ p[k] \in Frame /\ p[k].prefix \in Seq(Byte) /\ p[k].body \in Seq(Byte)
                                 /\ EndsAt(p[k].prefix, Len(p[k].prefix))
                                 /\ Len(p[k].prefix) \in Nat \ {0} /\ Len(p[k].body) \in Nat
                                 /\ unpack(p[k].prefix) = Len(p[k].body)
  <1>1. p \in Seq(Frame) /\ \A k \in DOMAIN p : Framed(p[k])
    BY PlansAssumption
  <1>2. Len(p) \in Nat /\ DOMAIN p = 1..Len(p) /\ \A k \in 1..Len(p) : p[k] \in Frame
    BY <1>1, LenProperties, ElementOfSeq
  <1>3. ASSUME NEW k \in 1..Len(p)
        PROVE  /\ p[k].prefix \in Seq(Byte) /\ p[k].body \in Seq(Byte)
               /\ EndsAt(p[k].prefix, Len(p[k].prefix))
               /\ Len(p[k].prefix) \in Nat \ {0} /\ Len(p[k].body) \in Nat
               /\ unpack(p[k].prefix) = Len(p[k].body)
    <2> DEFINE f == p[k]
               s == f.prefix
    <2>1. f \in Frame /\ Framed(f)
      BY <1>1, <1>2
    <2> HIDE DEF f
    <2>2. s \in Seq(Byte) /\ Len(s) \in Nat /\ Len(f.body) \in Nat /\ f.body \in Seq(Byte)
      BY <2>1, BytesOf
    <2>3. s # <<>> /\ size_length(s) = Len(s) /\ unpack(s) = Len(f.body)
      BY <2>1 DEF Framed
    <2> HIDE DEF s
    <2>4. Len(s) # 0
      BY <2>2, <2>3, EmptySeq
    <2>5. EndsAt(s, size_length(s))
      BY <2>2, <2>3, <2>4, SizeLengthIs
    <2>6. EndsAt(s, Len(s)) /\ Len(s) \in Nat \ {0}
      BY <2>2, <2>3, <2>4, <2>5
    <2> QED
      BY <2>2, <2>3, <2>6 DEF s, f
  <1> QED
    BY <1>1, <1>2, <1>3

\* The length at the front of a part that begins with frame k + 1.
LEMMA WindowLength ==
  ASSUME NEW p \in Plans, NEW k \in 0..(Len(p) - 1), NEW r \in End(p, k)..Len(Stream(p))
  PROVE  LET w == Window(p, k, r)
             n == Len(p[k + 1].prefix)
         IN /\ r < End(p, k) + n => /\ size_length(w) = 0
                                    /\ \A i \in 1..Len(w) : Continues(w[i])
            /\ r >= End(p, k) + n => size_length(w) = n /\ SubSeq(w, 1, n) = p[k + 1].prefix
  <1> DEFINE w == Window(p, k, r)
             f == p[k + 1]
             s == f.prefix
             n == Len(s)
             e == End(p, k)
             X == Stream(p)
  <1>0. p \in Seq(Frame) /\ Len(p) \in Nat /\ k \in 0..Len(p) /\ k + 1 \in 1..Len(p)
    BY PlanFrames
  <1>1. /\ w \in Seq(Byte) /\ Len(w) = r - e /\ \A i \in 1..(r - e) : w[i] = X[e + i]
        /\ e \in Nat /\ r \in Nat
    BY <1>0, WindowAt
  <1>2. r >= e
    BY <1>1
  <1>3. s \in Seq(Byte) /\ EndsAt(s, n) /\ n \in Nat \ {0}
    BY <1>0, PlanFrames
  <1>4. \A i \in 1..n : X[e + i] = s[i]
    BY <1>0, FrameAt
  <1> HIDE DEF w, f, s, n, e, X
  <1>5. \A i \in 1..(r - e) : i <= n => w[i] = s[i]
    <2> SUFFICES ASSUME NEW i \in 1..(r - e), i <= n PROVE w[i] = s[i]
      OBVIOUS
    <2>1. i \in 1..n
      BY <1>1, <1>3
    <2> QED
      BY <1>1, <1>4, <2>1
  <1>6. ASSUME r < e + n
        PROVE  size_length(w) = 0 /\ \A i \in 1..Len(w) : Continues(w[i])
    <2>1. ASSUME NEW i \in 1..Len(w) PROVE Continues(w[i])
      <3>1. i \in 1..(r - e) /\ i \in 1..(n - 1) /\ i <= n
        BY <1>1, <1>3, <1>6
      <3>2. w[i] = s[i]
        BY <1>5, <3>1
      <3> QED
        BY <1>3, <3>1, <3>2 DEF EndsAt
    <2> QED
      BY <1>1, <2>1, SizeLengthIs
  <1>7. ASSUME r >= e + n
        PROVE  size_length(w) = n /\ SubSeq(w, 1, n) = s
    <2>1. n \in 1..(r - e) /\ n \in 1..Len(w) /\ \A i \in 1..n : i \in 1..(r - e) /\ i <= n
      BY <1>1, <1>3, <1>7
    <2>2. \A i \in 1..n : w[i] = s[i]
      BY <1>5, <2>1
    <2>3. EndsAt(w, n)
      <3>1. \A i \in 1..(n - 1) : i \in 1..n
        BY <1>3
      <3>2. n \in 1..n
        BY <1>3
      <3> QED
        BY <1>3, <2>1, <2>2, <3>1, <3>2 DEF EndsAt
    <2>4. size_length(w) = n
      BY <1>1, <2>3, SizeLengthIs
    <2> DEFINE u == SubSeq(w, 1, n)
    <2>5. n \in Nat /\ n <= Len(w) /\ 1 <= n + 1 /\ 1 \in Nat \ {0}
      BY <1>1, <1>3, <2>1
    <2>6. u \in Seq(Byte) /\ Len(u) = n + 1 - 1 /\ \A i \in 1..(n + 1 - 1) : u[i] = w[1 - 1 + i]
      BY <1>1, <2>5, SubSeqAt
    <2> HIDE DEF u
    <2>7. n + 1 - 1 = n /\ \A i \in 1..n : 1 - 1 + i = i
      BY <2>5
    <2>8. Len(u) = n /\ \A i \in 1..n : u[i] = s[i]
      BY <2>2, <2>6, <2>7, Zenon
    <2>9. u = s
      <3>1. Len(u) = Len(s)
        BY <2>8 DEF n
      <3>2. \A i \in 1..Len(u) : u[i] = s[i]
        BY <2>8, <3>1
      <3> QED
        BY <1>3, <2>6, <3>1, <3>2, SameSeq
    <2> QED
      BY <2>4, <2>9 DEF u
  <1> QED
    BY <1>6, <1>7, Zenon DEF w, f, s, n, e

\* Behind the last frame there is nothing.
LEMMA WindowEmpty ==
  ASSUME NEW p \in Plans, NEW r \in End(p, Len(p))..Len(Stream(p))
  PROVE  Window(p, Len(p), r) = <<>> /\ size_length(Window(p, Len(p), r)) = 0
  <1> DEFINE w == Window(p, Len(p), r)
  <1>0. p \in Seq(Frame) /\ Len(p) \in Nat /\ Len(p) \in 0..Len(p)
    BY PlanFrames
  <1>1. w \in Seq(Byte) /\ Len(w) = r - End(p, Len(p)) /\ End(p, Len(p)) \in Nat
    BY <1>0, WindowAt
  <1>2. Len(Stream(p)) = End(p, Len(p))
    BY <1>0, EndIs
  <1> HIDE DEF w
  <1>3. Len(w) = 0
    BY <1>1, <1>2
  <1>4. w = <<>> /\ \A i \in 1..Len(w) : Continues(w[i])
    BY <1>1, <1>3, EmptySeq
  <1>5. size_length(w) = 0
    BY <1>1, <1>4, SizeLengthIs
  <1> QED
    BY <1>4, <1>5 DEF w

\* process_one without its LET.
Raise == [Nothing EXCEPT !.kind = "raise"]

LEMMA OneIs ==
  ASSUME NEW s, size_length(s) \in Nat
  PROVE  LET next == size_length(s)
             len  == unpack(SubSeq(s, 1, next))
         IN /\ next = 0 => process_one(s) = Nothing
            /\ next > max_length \/ (next # 0 /\ len > MaxValid) => process_one(s) = Raise
            /\ next # 0 /\ ~(next > max_length) /\ ~(len > MaxValid) =>
                 process_one(s) = IF len + next <= Len(s)
                                    THEN [kind |-> "frame", len |-> len, next |-> next] ELSE Nothing
  <1> DEFINE next == size_length(s)
             len == unpack(SubSeq(s, 1, next))
  <1>1. process_one(s) = CASE next = 0            -> Nothing
                           [] next > max_length   -> Raise
                           [] OTHER -> IF len > MaxValid THEN Raise
                                       ELSE IF len + next <= Len(s)
                                         THEN [kind |-> "frame", len |-> len, next |-> next]
                                         ELSE Nothing
    BY Zenon DEF process_one, Raise
  <1>2. max_length \in Nat
    BY PowerIs DEF max_length
  <1>3. next > max_length => next # 0
    BY <1>2
  <1> HIDE DEF next, len, Raise, Nothing
  <1>4. CASE next = 0
    BY <1>1, <1>3, <1>4 DEF next, len
  <1>5. CASE next # 0 /\ next > max_length
    BY <1>1, <1>5 DEF next, len
  <1>6. CASE next # 0 /\ ~(next > max_length)
    <2>1. process_one(s) = IF len > MaxValid THEN Raise
                           ELSE IF len + next <= Len(s)
                             THEN [kind |-> "frame", len |-> len, next |-> next] ELSE Nothing
      BY <1>1, <1>6
    <2> QED
      BY <1>6, <2>1 DEF next, len
  <1> QED
    BY <1>4, <1>5, <1>6

\* What process_one finds in a part that begins with frame k + 1.
Refused(f) == Len(f.prefix) > max_length \/ Len(f.body) > MaxValid
Verdict(p, k, r) ==
  IF k = Len(p) \/ r < End(p, k) + Len(p[k + 1].prefix) THEN Nothing
  ELSE IF Refused(p[k + 1]) THEN Raise
  ELSE IF End(p, k + 1) <= r
    THEN [kind |-> "frame", len |-> Len(p[k + 1].body), next |-> Len(p[k + 1].prefix)]
    ELSE Nothing

LEMMA ParseOne ==
  ASSUME NEW p \in Plans, NEW k \in 0..Len(p), NEW r \in End(p, k)..Len(Stream(p))
  PROVE  process_one(Window(p, k, r)) = Verdict(p, k, r)
  <1> DEFINE w == Window(p, k, r)
  <1>0. p \in Seq(Frame) /\ Len(p) \in Nat
    BY PlanFrames
  <1>1. w \in Seq(Byte) /\ size_length(w) \in Nat /\ Len(w) = r - End(p, k) /\ End(p, k) \in Nat /\ r \in Nat
    BY <1>0, WindowAt, SizeLengthIs
  <1>2. CASE k = Len(p)
    <2>1. size_length(w) = 0
      BY <1>2, WindowEmpty
    <2>2. process_one(w) = Nothing
      BY <1>1, <2>1, OneIs
    <2> QED
      BY <1>2, <2>2 DEF Verdict
  <1>3. CASE k # Len(p)
    <2> DEFINE f == p[k + 1]
               n == Len(f.prefix)
               l == Len(f.body)
               e == End(p, k)
    <2>1. k \in 0..(Len(p) - 1) /\ k + 1 \in 1..Len(p)
      BY <1>0, <1>3
    <2>2. n \in Nat \ {0} /\ l \in Nat /\ unpack(f.prefix) = l
      BY <2>1, PlanFrames
    <2>3. End(p, k + 1) = e + n + l
      BY <1>0, <2>1, EndIs
    <2>4. /\ r < e + n => size_length(w) = 0
          /\ r >= e + n => size_length(w) = n /\ SubSeq(w, 1, n) = f.prefix
      BY <2>1, WindowLength
    <2>e. e \in Nat /\ r \in Nat /\ Len(w) = r - e
      BY <1>1
    <2> HIDE DEF f, w, e
    <2>5. CASE r < e + n
      <3>1. process_one(w) = Nothing
        BY <1>1, <2>4, <2>5, OneIs
      <3> QED
        BY <2>5, <3>1 DEF Verdict, w, f, e
    <2>6. CASE ~(r < e + n)
      <3>1. size_length(w) = n /\ SubSeq(w, 1, n) = f.prefix
        <4>1. r >= e + n
          <5> HIDE DEF n
          <5> QED
            BY <2>e, <2>2, <2>6
        <4> QED
          BY <2>4, <4>1
      <3>2. unpack(SubSeq(w, 1, size_length(w))) = l
        BY <2>2, <3>1
      <3> HIDE DEF n, l
      <3>3. CASE n > max_length \/ l > MaxValid
        <4>1. process_one(w) = Raise
          BY <1>1, <2>2, <3>1, <3>2, <3>3, OneIs
        <4>2. Refused(f)
          BY <3>3 DEF Refused, n, l
        <4> QED
          BY <1>3, <2>6, <4>1, <4>2, Zenon DEF Verdict, w, f, e, n
      <3>4. CASE ~(n > max_length) /\ ~(l > MaxValid)
        <4>1. process_one(w) = IF l + n <= Len(w) THEN [kind |-> "frame", len |-> l, next |-> n] ELSE Nothing
          <5>1. size_length(w) # 0 /\ ~(size_length(w) > max_length)
            BY <2>2, <3>1, <3>4
          <5>2. process_one(w) = IF unpack(SubSeq(w, 1, size_length(w))) + size_length(w) <= Len(w)
                                   THEN [kind |-> "frame", len |-> unpack(SubSeq(w, 1, size_length(w))),
                                         next |-> size_length(w)]
                                   ELSE Nothing
            BY <1>1, <3>2, <3>4, <5>1, OneIs
          <5> QED
            BY <3>1, <3>2, <5>2, Zenon
        <4>2. l + n <= Len(w) <=> End(p, k + 1) <= r
          <5>1. End(p, k + 1) = e + n + l /\ n \in Nat /\ l \in Nat
            BY <2>2, <2>3 DEF n, l
          <5> QED
            BY <2>e, <5>1
        <4>3. ~Refused(f)
          BY <3>4 DEF Refused, n, l
        <4>4. process_one(w) = IF End(p, k + 1) <= r THEN [kind |-> "frame", len |-> l, next |-> n] ELSE Nothing
          BY <4>1, <4>2, Zenon
        <4> QED
          BY <1>3, <2>6, <4>3, <4>4, Zenon DEF Verdict, w, f, e, n, l
      <3> QED
        BY <3>3, <3>4
    <2> QED
      BY <2>5, <2>6
  <1> QED
    BY <1>2, <1>3

\* A frame that process_one finds lies in the buffer.
LEMMA OneFits ==
  ASSUME NEW s \in Seq(Byte)
  PROVE  /\ process_one(s).kind \in {"more", "raise", "frame"}
         /\ process_one(s).kind = "frame" =>
              /\ process_one(s).next \in Nat \ {0} /\ process_one(s).len \in Nat
              /\ process_one(s).next + process_one(s).len <= Len(s)
  <1> DEFINE next == size_length(s)
             len == unpack(SubSeq(s, 1, next))
  <1>1. next \in Nat /\ next <= Len(s) /\ Len(s) \in Nat
    <2>1. next \in Nat /\ (next # 0 => EndsAt(s, next)) /\ Len(s) \in Nat
      BY SizeLengthIs, LenProperties
    <2> HIDE DEF next
    <2> QED
      BY <2>1 DEF EndsAt
  <1>2. len \in Nat
    <2> DEFINE u == SubSeq(s, 1, next)
    <2>1. 1 <= next + 1 /\ 1 \in Nat \ {0}
      BY <1>1
    <2>2. u \in Seq(Byte)
      BY <1>1, <2>1, SubSeqAt
    <2> HIDE DEF u
    <2>3. PICK f : Unpacks(f, u) /\ unpack(u) = f[1]
      BY <2>2, UnpackIs
    <2>4. 1 \in 1..(Len(u) + 1)
      BY <2>2, LenProperties
    <2>5. f[1] \in Nat
      BY <2>3, <2>4 DEF Unpacks
    <2> QED
      BY <2>3, <2>5 DEF u
  <1>3. /\ next = 0 => process_one(s) = Nothing
        /\ next > max_length \/ (next # 0 /\ len > MaxValid) => process_one(s) = Raise
        /\ next # 0 /\ ~(next > max_length) /\ ~(len > MaxValid) =>
             process_one(s) = IF len + next <= Len(s)
                                THEN [kind |-> "frame", len |-> len, next |-> next] ELSE Nothing
    BY <1>1, OneIs
  <1> HIDE DEF next, len
  <1>4. \/ process_one(s) = Nothing \/ process_one(s) = Raise
        \/ /\ process_one(s) = [kind |-> "frame", len |-> len, next |-> next]
           /\ next # 0 /\ len + next <= Len(s)
    <2>1. CASE next # 0 /\ ~(next > max_length) /\ ~(len > MaxValid)
      BY <1>3, <2>1
    <2> QED
      BY <1>3, <2>1
  <1>5. Nothing.kind = "more" /\ Raise.kind = "raise"
    BY DEF Nothing, Raise
  <1>6. CASE process_one(s) = Nothing \/ process_one(s) = Raise
    BY <1>5, <1>6
  <1>7. CASE /\ process_one(s) = [kind |-> "frame", len |-> len, next |-> next]
             /\ next # 0 /\ len + next <= Len(s)
    BY <1>1, <1>2, <1>7
  <1> QED
    BY <1>4, <1>6, <1>7

------------------------------------------------------------------------------
(* The parser's loop.                                                       *)

RestFrom(s, i) == SubSeq(s, i, Len(s))
OneAt(s, i) == process_one(RestFrom(s, i))
SizeAt(s, i) == OneAt(s, i).next + OneAt(s, i).len
Found(s, i) == SubSeq(RestFrom(s, i), OneAt(s, i).next + 1, SizeAt(s, i))

\* One round of the loop of process, when x is what the rest of it gives.
Round(s, i, x) ==
  IF OneAt(s, i).kind = "frame"
    THEN [x EXCEPT !.msgs = <<Found(s, i)>> \o @]
    ELSE [msgs |-> <<>>, rest |-> RestFrom(s, i), raised |-> OneAt(s, i).kind = "raise"]

Result == [msgs : Seq(Seq(Byte)), rest : Seq(Byte), raised : BOOLEAN]

LEMMA RoundAt ==
  ASSUME NEW s \in Seq(Byte), NEW i \in 1..(Len(s) + 1)
  PROVE  /\ RestFrom(s, i) \in Seq(Byte) /\ Len(RestFrom(s, i)) = Len(s) + 1 - i
         /\ OneAt(s, i).kind = "frame" => /\ SizeAt(s, i) \in Nat \ {0} /\ i + SizeAt(s, i) \in 1..(Len(s) + 1)
                                          /\ i <= Len(s)
         /\ \A x \in Result : Round(s, i, x) \in Result
  <1> DEFINE n == Len(s)
             t == RestFrom(s, i)
             one == OneAt(s, i)
  <1>0. n \in Nat
    BY LenProperties
  <1>1. i \in Nat \ {0} /\ n <= Len(s) /\ i <= n + 1
    BY <1>0
  <1>2. t \in Seq(Byte) /\ Len(t) = n + 1 - i
    BY <1>0, <1>1, SubSeqAt DEF RestFrom
  <1> HIDE DEF t
  <1>3. /\ one.kind \in {"more", "raise", "frame"}
        /\ one.kind = "frame" => one.next \in Nat \ {0} /\ one.len \in Nat /\ one.next + one.len <= Len(t)
    BY <1>2, OneFits DEF OneAt, t
  <1> HIDE DEF n, one
  <1>4. ASSUME one.kind = "frame"
        PROVE  SizeAt(s, i) \in Nat \ {0} /\ i + SizeAt(s, i) \in 1..(n + 1) /\ i <= n
    <2>1. SizeAt(s, i) = one.next + one.len
      BY DEF SizeAt, one
    <2> DEFINE a == one.next
               b == one.len
    <2>2. a \in Nat \ {0} /\ b \in Nat /\ a + b <= n + 1 - i /\ SizeAt(s, i) = a + b
      BY <1>2, <1>3, <1>4, <2>1
    <2> HIDE DEF a, b
    <2>3. i \in Nat /\ i >= 1
      BY <1>1
    <2>4. a + b \in Nat \ {0} /\ i + (a + b) \in 1..(n + 1) /\ i <= n
      BY <1>0, <2>2, <2>3
    <2> QED
      BY <2>2, <2>4
  <1>5. ASSUME NEW x \in Result PROVE Round(s, i, x) \in Result
    <2>1. CASE one.kind = "frame"
      <3> DEFINE v == Found(s, i)
                 h == <<v>>
                 m == x.msgs
      <3>1. v \in Seq(Byte)
        <4> DEFINE a == one.next
                   b == one.len
        <4>1. a \in Nat \ {0} /\ b \in Nat /\ a + b <= Len(t) /\ Len(t) \in Nat
          BY <1>2, <1>3, <2>1, LenProperties
        <4>2. v = SubSeq(t, a + 1, a + b)
          BY DEF Found, SizeAt, one, t
        <4> HIDE DEF a, b, v
        <4>3. a + 1 \in Nat \ {0} /\ a + b \in Nat /\ a + 1 <= (a + b) + 1
          BY <4>1
        <4> QED
          BY <1>2, <4>1, <4>2, <4>3, SubSeqAt
      <3> HIDE DEF v
      <3>2. h \in Seq(Seq(Byte)) /\ m \in Seq(Seq(Byte))
        BY <3>1 DEF Result
      <3> HIDE DEF h, m
      <3>3. h \o m \in Seq(Seq(Byte))
        BY <3>2, ConcatAt
      <3>4. Round(s, i, x) = [x EXCEPT !.msgs = h \o m]
        BY <2>1 DEF Round, one, h, m, v
      <3> QED
        BY <3>3, <3>4 DEF Result
    <2>2. CASE one.kind # "frame"
      <3>1. Round(s, i, x) = [msgs |-> <<>>, rest |-> t, raised |-> one.kind = "raise"]
        BY <2>2, Zenon DEF Round, one, t
      <3>2. <<>> \in Seq(Seq(Byte)) /\ (one.kind = "raise") \in BOOLEAN
        OBVIOUS
      <3> DEFINE c == one.kind = "raise"
                 z == <<>>
      <3> HIDE DEF c, z
      <3>3. [msgs |-> z, rest |-> t, raised |-> c] \in Result
        BY <1>2, <3>2 DEF Result, c, z
      <3> QED
        BY <3>1, <3>3 DEF c, z
    <2> QED
      BY <2>1, <2>2
  <1> QED
    BY <1>2, <1>4, <1>5 DEF n, t, one

\* process goes through the buffer round by round.
Processes(h, s) == \A i \in 1..(Len(s) + 1) : h[i] = Round(s, i, h[i + SizeAt(s, i)])

LEMMA ProcessIs ==
  ASSUME NEW s \in Seq(Byte)
  PROVE  \E h : Processes(h, s) /\ process(s) = h[1]
  <1> DEFINE n == Len(s)
             z == <<>>
             a == [msgs |-> z, rest |-> RestFrom(s, n + 1), raised |-> FALSE]
             T == [i \in 1..n |-> IF OneAt(s, i).kind = "frame" THEN i + SizeAt(s, i) ELSE i + 1]
             G == [i \in 1..n |-> [x \in Result |-> Round(s, i, x)]]
             P(f) == f = [i \in 1..(Len(s) + 1) |-> Round(s, i, f[i + SizeAt(s, i)])]
  <1>0. n \in Nat /\ n + 1 \in 1..(n + 1) /\ \A i \in 1..n : i \in 1..(n + 1)
    BY LenProperties
  <1>1. \A i \in 1..(n + 1) :
          /\ RestFrom(s, i) \in Seq(Byte) /\ Len(RestFrom(s, i)) = n + 1 - i
          /\ OneAt(s, i).kind = "frame" => SizeAt(s, i) \in Nat \ {0} /\ i + SizeAt(s, i) \in 1..(n + 1) /\ i <= n
          /\ \A x \in Result : Round(s, i, x) \in Result
    BY RoundAt
  <1>2. a \in Result
    <2>1. RestFrom(s, n + 1) \in Seq(Byte) /\ z \in Seq(Seq(Byte))
      BY <1>0, <1>1
    <2> HIDE DEF z, n
    <2> QED
      BY <2>1 DEF Result
  <1>3. \A i \in 1..n : T[i] = IF OneAt(s, i).kind = "frame" THEN i + SizeAt(s, i) ELSE i + 1
    OBVIOUS
  <1>4. \A i \in 1..n : T[i] \in (i + 1)..(n + 1)
    <2> SUFFICES ASSUME NEW i \in 1..n PROVE T[i] \in (i + 1)..(n + 1)
      OBVIOUS
    <2> HIDE DEF n, T
    <2>1. CASE OneAt(s, i).kind = "frame"
      <3> DEFINE z1 == SizeAt(s, i)
      <3>1. z1 \in Nat \ {0} /\ i + z1 \in 1..(n + 1) /\ T[i] = i + z1
        BY <1>0, <1>1, <1>3, <2>1
      <3> HIDE DEF z1
      <3> QED
        BY <1>0, <3>1
    <2>2. CASE OneAt(s, i).kind # "frame"
      <3>1. T[i] = i + 1
        BY <1>3, <2>2
      <3> QED
        BY <1>0, <3>1
    <2> QED
      BY <2>1, <2>2
  <1>5. \A i \in 1..n : \A x \in Result : G[i][x] = Round(s, i, x) /\ G[i][x] \in Result
    <2>1. \A i \in 1..n : \A x \in Result : G[i][x] = Round(s, i, x)
      OBVIOUS
    <2> HIDE DEF G, n
    <2> QED
      BY <1>0, <1>1, <2>1
  <1> HIDE DEF n, a, T, G, z
  <1>6. DownData(n, Result, a, T, G)
    BY <1>2, <1>4, <1>5 DEF DownData
  <1>7. PICK f : DownFcn(f, n, Result, a, T, G)
    BY <1>0, <1>6, RecursionDown
  <1>8. f \in [1..(n + 1) -> Result] /\ f[n + 1] = a /\ \A i \in 1..n : f[i] = G[i][f[T[i]]]
    BY <1>7 DEF DownFcn
  <1>9. ASSUME NEW i \in 1..(n + 1) PROVE f[i] = Round(s, i, f[i + SizeAt(s, i)])
    <2>1. CASE i \in 1..n
      <3>1. T[i] \in 1..(n + 1)
        <4>1. T[i] \in (i + 1)..(n + 1)
          BY <1>4, <2>1
        <4> QED
          BY <1>0, <2>1, <4>1
      <3>2. f[T[i]] \in Result
        BY <1>8, <3>1
      <3>3. f[i] = Round(s, i, f[T[i]])
        BY <1>5, <1>8, <2>1, <3>2
      <3>4. CASE OneAt(s, i).kind = "frame"
        BY <1>3, <2>1, <3>3, <3>4
      <3>5. CASE OneAt(s, i).kind # "frame"
        BY <3>3, <3>5, Zenon DEF Round
      <3> QED
        BY <3>4, <3>5
    <2>2. CASE i = n + 1
      <3>1. OneAt(s, i).kind # "frame"
        <4>1. ~(n + 1 <= n)
          BY <1>0
        <4> QED
          BY <1>0, <1>1, <2>2, <4>1
      <3>2. OneAt(s, i) = Nothing
        <4> DEFINE t == RestFrom(s, i)
        <4>1. t \in Seq(Byte) /\ Len(t) = 0
          <5>1. t \in Seq(Byte) /\ Len(t) = n + 1 - i
            BY <1>1
          <5> HIDE DEF t
          <5> QED
            BY <1>0, <2>2, <5>1
        <4> HIDE DEF t
        <4>2. size_length(t) = 0
          <5>1. \A j \in 1..Len(t) : Continues(t[j])
            BY <4>1
          <5> QED
            BY <4>1, <5>1, SizeLengthIs
        <4>3. process_one(t) = Nothing
          BY <4>2, OneIs
        <4> QED
          BY <4>3 DEF OneAt, t
      <3>3. (OneAt(s, i).kind = "raise") = FALSE
        BY <3>2 DEF Nothing
      <3>4. Round(s, i, f[i + SizeAt(s, i)])
              = [msgs |-> <<>>, rest |-> RestFrom(s, i), raised |-> OneAt(s, i).kind = "raise"]
        BY <3>1, Zenon DEF Round
      <3> QED
        BY <1>8, <2>2, <3>3, <3>4 DEF a, z
    <2> QED
      BY <1>0, <2>1, <2>2
  <1>10. P(f)
    <2> DEFINE g == [i \in 1..(n + 1) |-> Round(s, i, f[i + SizeAt(s, i)])]
    <2>1. \A i \in 1..(n + 1) : g[i] = f[i]
      BY <1>9
    <2>2. f = [i \in 1..(n + 1) |-> f[i]] /\ g = [i \in 1..(n + 1) |-> g[i]]
      BY <1>8
    <2> HIDE DEF g
    <2>3. f = g
      BY <2>1, <2>2
    <2> QED
      BY <2>3, Zenon DEF g, n
  <1> DEFINE h == CHOOSE g : P(g)
  <1>11. process(s) = h[1]
    BY DEF process, Round, Found, SizeAt, OneAt, RestFrom
  <1>12. P(h)
    <2> HIDE DEF P
    <2> QED
      BY <1>10
  <1> HIDE DEF h
  <1>13. Processes(h, s)
    BY <1>12 DEF Processes
  <1> QED
    BY <1>11, <1>13

\* a is what process gives for a part that begins with frame k + 1: the
\* messages ms of the frames up to m, and what is left behind them.
Cuts(p, k, r, a, m, ms) ==
  /\ m \in k..Len(p) /\ End(p, m) <= r
  /\ ms \in Seq(Seq(Byte)) /\ Len(ms) = m - k
  /\ \A j \in 1..(m - k) : ms[j] = p[k + j].body /\ ~Refused(p[k + j])
  /\ a = [msgs |-> ms, rest |-> Window(p, m, r), raised |-> Verdict(p, m, r).kind = "raise"]
  /\ Verdict(p, m, r).kind # "frame"

\* The rest of a part from where frame k ends is the part that begins there.
LEMMA RestOfWindow ==
  ASSUME NEW p \in Plans, NEW d \in 0..Len(p), NEW k \in d..Len(p),
         NEW r \in End(p, d)..Len(Stream(p)), End(p, k) <= r
  PROVE  /\ End(p, k) - End(p, d) + 1 \in 1..(Len(Window(p, d, r)) + 1)
         /\ RestFrom(Window(p, d, r), End(p, k) - End(p, d) + 1) = Window(p, k, r)
         /\ r \in End(p, k)..Len(Stream(p)) /\ k \in 0..Len(p)
  <1> DEFINE s == Window(p, d, r)
             w == Window(p, k, r)
             e == End(p, d)
             g == End(p, k)
             X == Stream(p)
             i == g - e + 1
             t == RestFrom(s, i)
  <1>0. p \in Seq(Frame) /\ Len(p) \in Nat /\ k \in 0..Len(p)
    BY PlanFrames
  <1>1. /\ s \in Seq(Byte) /\ Len(s) = r - e /\ \A j \in 1..(r - e) : s[j] = X[e + j]
        /\ e \in Nat /\ r \in Nat /\ Len(X) \in Nat
    BY <1>0, WindowAt
  <1>2. e <= g /\ g \in Nat
    BY <1>0, StreamBegins, EndIs
  <1>3. r \in g..Len(X)
    BY <1>1, <1>2
  <1>4. w \in Seq(Byte) /\ Len(w) = r - g /\ \A j \in 1..(r - g) : w[j] = X[g + j]
    BY <1>0, <1>3, WindowAt
  <1>g. g <= r
    OBVIOUS
  <1> HIDE DEF s, w, e, g, X
  <1>5. i \in 1..(Len(s) + 1) /\ i \in Nat \ {0} /\ Len(s) \in Nat /\ i <= Len(s) + 1 /\ Len(s) + 1 - i = r - g
    BY <1>1, <1>2, <1>g
  <1>6. /\ t \in Seq(Byte) /\ Len(t) = Len(s) + 1 - i
        /\ \A j \in 1..(Len(s) + 1 - i) : t[j] = s[i - 1 + j]
    <2>1. Len(s) <= Len(s)
      BY <1>5
    <2> HIDE DEF i
    <2> QED
      BY <1>1, <1>5, <2>1, SubSeqAt DEF RestFrom
  <1> HIDE DEF t
  <1>7. ASSUME NEW j \in 1..Len(t) PROVE t[j] = w[j]
    <2>1. j \in 1..(r - g) /\ j \in 1..(Len(s) + 1 - i)
      BY <1>5, <1>6
    <2>2. t[j] = s[i - 1 + j]
      BY <1>6, <2>1
    <2>3. i - 1 + j \in 1..(r - e) /\ e + (i - 1 + j) = g + j
      BY <1>1, <1>2, <1>g, <2>1
    <2> HIDE DEF i
    <2>4. s[i - 1 + j] = X[g + j]
      BY <1>1, <2>3
    <2>5. w[j] = X[g + j]
      BY <1>4, <2>1
    <2> QED
      BY <2>2, <2>4, <2>5
  <1>8. t = w
    <2>1. Len(t) = Len(w)
      BY <1>4, <1>5, <1>6
    <2> QED
      BY <1>4, <1>6, <1>7, <2>1, SameSeq
  <1> QED
    BY <1>0, <1>3, <1>5, <1>8 DEF t, i, s, w, e, g, X

LEMMA ProcessWindow ==
  ASSUME NEW p \in Plans, NEW d \in 0..Len(p), NEW r \in End(p, d)..Len(Stream(p))
  PROVE  \E m, ms : Cuts(p, d, r, process(Window(p, d, r)), m, ms)
  <1> DEFINE s == Window(p, d, r)
             N == Len(p)
             I(k) == End(p, k) - End(p, d) + 1
  <1>0. p \in Seq(Frame) /\ N \in Nat /\ s \in Seq(Byte)
    BY PlanFrames, WindowAt
  <1>1. PICK h : Processes(h, s) /\ process(s) = h[1]
    BY <1>0, ProcessIs
  <1>2. ASSUME NEW k \in d..N, End(p, k) <= r
        PROVE  /\ I(k) \in 1..(Len(s) + 1) /\ RestFrom(s, I(k)) = Window(p, k, r)
               /\ OneAt(s, I(k)) = Verdict(p, k, r)
               /\ h[I(k)] = Round(s, I(k), h[I(k) + SizeAt(s, I(k))])
               /\ r \in End(p, k)..Len(Stream(p)) /\ k \in 0..N
    <2>1. /\ I(k) \in 1..(Len(s) + 1) /\ RestFrom(s, I(k)) = Window(p, k, r)
          /\ r \in End(p, k)..Len(Stream(p)) /\ k \in 0..N
      BY <1>2, RestOfWindow
    <2> HIDE DEF I
    <2>2. OneAt(s, I(k)) = Verdict(p, k, r)
      BY <2>1, ParseOne DEF OneAt
    <2> QED
      BY <1>1, <2>1, <2>2 DEF Processes
  <1> DEFINE C(k) == \E m, ms : Cuts(p, k, r, h[I(k)], m, ms)
             D == {j \in 0..N : N - j >= d /\ End(p, N - j) <= r /\ ~C(N - j)}
  <1>3. ASSUME NEW k \in d..N, End(p, k) <= r, Verdict(p, k, r).kind # "frame" PROVE C(k)
    <2> HIDE DEF s, I
    <2>1. h[I(k)] = Round(s, I(k), h[I(k) + SizeAt(s, I(k))])
      BY <1>2, <1>3
    <2>2. OneAt(s, I(k)) = Verdict(p, k, r) /\ RestFrom(s, I(k)) = Window(p, k, r)
      BY <1>2, <1>3
    <2> DEFINE z == <<>>
    <2>3. h[I(k)] = [msgs |-> z, rest |-> Window(p, k, r), raised |-> Verdict(p, k, r).kind = "raise"]
      BY <1>3, <2>1, <2>2, Zenon DEF Round
    <2>4. z \in Seq(Seq(Byte)) /\ Len(z) = 0
      OBVIOUS
    <2> HIDE DEF z
    <2>5. k - k = 0 /\ k \in k..N
      BY <1>0
    <2>6. \A j \in 1..(k - k) : z[j] = p[k + j].body /\ ~Refused(p[k + j])
      BY <2>5
    <2>7. Cuts(p, k, r, h[I(k)], k, z)
      BY <1>3, <2>3, <2>4, <2>5, <2>6 DEF Cuts
    <2> QED
      BY <2>7
  <1>4. ASSUME NEW k \in d..N, End(p, k) <= r, Verdict(p, k, r).kind = "frame"
        PROVE  /\ k + 1 \in d..N /\ k \in 0..(N - 1) /\ End(p, k + 1) <= r /\ ~Refused(p[k + 1])
               /\ Verdict(p, k, r) = [kind |-> "frame", len |-> Len(p[k + 1].body), next |-> Len(p[k + 1].prefix)]
    <2>1. Nothing.kind # "frame" /\ Raise.kind # "frame"
      BY DEF Nothing, Raise
    <2>2. /\ k # Len(p) /\ ~Refused(p[k + 1]) /\ End(p, k + 1) <= r
          /\ Verdict(p, k, r) = [kind |-> "frame", len |-> Len(p[k + 1].body), next |-> Len(p[k + 1].prefix)]
      <3> HIDE DEF Nothing, Raise, Refused
      <3> QED
        BY <1>4, <2>1 DEF Verdict
    <2>3. k + 1 \in d..N /\ k \in 0..(N - 1)
      BY <1>0, <2>2
    <2> QED
      BY <2>2, <2>3
  <1>5. ASSUME NEW k \in d..N, End(p, k) <= r, Verdict(p, k, r).kind = "frame", C(k + 1) PROVE C(k)
    <2> DEFINE f == p[k + 1]
               n == Len(f.prefix)
               l == Len(f.body)
               i == I(k)
               w == Window(p, k, r)
    <2>1. /\ k + 1 \in d..N /\ k \in 0..(N - 1) /\ End(p, k + 1) <= r /\ ~Refused(f)
          /\ Verdict(p, k, r) = [kind |-> "frame", len |-> l, next |-> n]
      BY <1>4, <1>5
    <2>2. k + 1 \in 1..N /\ d \in Nat /\ k \in Nat
      BY <1>0, <2>1
    <2>3. n \in Nat \ {0} /\ l \in Nat /\ f.body \in Seq(Byte)
      BY <2>2, PlanFrames
    <2>4. End(p, k + 1) = End(p, k) + n + l /\ End(p, k) \in Nat /\ End(p, d) \in Nat
      <3>1. k \in 0..N
        BY <1>0, <2>1
      <3> QED
        BY <1>0, <2>1, <3>1, EndIs
    <2>5. I(k + 1) = i + (n + l) /\ i \in Int
      <3> DEFINE a == End(p, k)
                 b == End(p, d)
                 c == End(p, k + 1)
      <3>1. n \in Nat /\ l \in Nat /\ a \in Nat /\ b \in Nat /\ c = a + n + l
        BY <2>3, <2>4
      <3> HIDE DEF a, b, c, n, l
      <3>2. c - b + 1 = (a - b + 1) + (n + l) /\ a - b + 1 \in Int
        BY <3>1
      <3> QED
        BY <3>2 DEF a, b, c
    <2>6. /\ OneAt(s, i) = Verdict(p, k, r) /\ RestFrom(s, i) = w
          /\ h[i] = Round(s, i, h[i + SizeAt(s, i)])
          /\ r \in End(p, k)..Len(Stream(p)) /\ k \in 0..N
      BY <1>2, <1>5
    <2> HIDE DEF I, s, w, f
    <2>7. SizeAt(s, i) = n + l
      BY <2>1, <2>6 DEF SizeAt
    <2>8. Found(s, i) = SubSeq(w, n + 1, n + l)
      <3>1. OneAt(s, i).next = n
        BY <2>1, <2>6
      <3> QED
        BY <2>6, <2>7, <3>1, Zenon DEF Found
    <2>9. SubSeq(w, n + 1, n + l) = f.body
      <3> DEFINE u == SubSeq(w, n + 1, n + l)
                 e == End(p, k)
                 X == Stream(p)
                 b == f.body
      <3>1. /\ w \in Seq(Byte) /\ Len(w) = r - e /\ \A j \in 1..(r - e) : w[j] = X[e + j]
            /\ e \in Nat /\ r \in Nat
        BY <1>0, <2>6, WindowAt DEF w
      <3>2. \A j \in 1..l : X[e + n + j] = b[j]
        BY <1>0, <2>1, FrameAt DEF f
      <3>3. e + n + l <= r
        <4> HIDE DEF n, l, e
        <4> QED
          BY <2>1, <2>4 DEF e
      <3> HIDE DEF X, e, n
      <3>4. n \in Nat \ {0} /\ l \in Nat /\ b \in Seq(Byte) /\ Len(b) = l
        BY <2>3 DEF n
      <3> HIDE DEF l, b
      <3>5. n + 1 \in Nat \ {0} /\ n + l \in Nat /\ n + l <= Len(w) /\ n + 1 <= (n + l) + 1
            /\ (n + l) + 1 - (n + 1) = l
        <4>1. Len(w) = r - e /\ e \in Nat /\ r \in Nat
          BY <3>1
        <4>2. n \in Nat \ {0} /\ l \in Nat
          BY <3>4
        <4> QED
          BY <3>3, <4>1, <4>2
      <3>6. /\ u \in Seq(Byte) /\ Len(u) = (n + l) + 1 - (n + 1)
            /\ \A j \in 1..((n + l) + 1 - (n + 1)) : u[j] = w[(n + 1) - 1 + j]
        <4>1. w \in Seq(Byte)
          BY <3>1
        <4> DEFINE x == n + 1
                   y == n + l
        <4>2. x \in Nat \ {0} /\ y \in Nat /\ y <= Len(w) /\ x <= y + 1
          BY <3>5
        <4> HIDE DEF x, y
        <4>3. /\ SubSeq(w, x, y) \in Seq(Byte) /\ Len(SubSeq(w, x, y)) = y + 1 - x
              /\ \A j \in 1..(y + 1 - x) : SubSeq(w, x, y)[j] = w[x - 1 + j]
          BY <4>1, <4>2, SubSeqAt
        <4> QED
          BY <4>3, Zenon DEF x, y
      <3> HIDE DEF u
      <3>7. Len(u) = Len(b)
        BY <3>4, <3>5, <3>6
      <3>8. ASSUME NEW j \in 1..Len(u) PROVE u[j] = b[j]
        <4>1. j \in 1..l /\ j \in 1..((n + l) + 1 - (n + 1))
          BY <3>4, <3>5, <3>7
        <4>2. u[j] = w[(n + 1) - 1 + j]
          BY <3>6, <4>1
        <4>3. (n + 1) - 1 + j \in 1..(r - e) /\ e + ((n + 1) - 1 + j) = e + n + j
          <5>1. e \in Nat /\ r \in Nat
            BY <3>1
          <5>2. n \in Nat \ {0} /\ l \in Nat
            BY <3>4
          <5> QED
            BY <3>3, <4>1, <5>1, <5>2
        <4>4. w[(n + 1) - 1 + j] = X[e + n + j]
          BY <3>1, <4>3
        <4> QED
          BY <3>2, <4>1, <4>2, <4>4
      <3>9. u = b
        BY <3>4, <3>6, <3>7, <3>8, SameSeq
      <3> QED
        BY <3>9 DEF u, b
    <2>10. PICK m, ms : Cuts(p, k + 1, r, h[I(k + 1)], m, ms)
      BY <1>5
    <2>11. /\ m \in (k + 1)..Len(p) /\ End(p, m) <= r
           /\ ms \in Seq(Seq(Byte)) /\ Len(ms) = m - (k + 1)
           /\ \A j \in 1..(m - (k + 1)) : ms[j] = p[k + 1 + j].body /\ ~Refused(p[k + 1 + j])
           /\ h[I(k + 1)] = [msgs |-> ms, rest |-> Window(p, m, r), raised |-> Verdict(p, m, r).kind = "raise"]
           /\ Verdict(p, m, r).kind # "frame"
      BY <2>10 DEF Cuts
    <2> DEFINE b == f.body
               t == <<b>>
               q == t \o ms
               x == h[I(k + 1)]
    <2>12. h[i] = [x EXCEPT !.msgs = t \o @]
      <3>1. h[i] = Round(s, i, x)
        BY <2>5, <2>6, <2>7
      <3>2. OneAt(s, i).kind = "frame"
        BY <1>5, <2>6
      <3>3. Found(s, i) = b
        BY <2>8, <2>9
      <3> HIDE DEF x, b
      <3> QED
        BY <3>1, <3>2, <3>3 DEF Round
    <2> HIDE DEF b, i
    <2>13. t \in Seq(Seq(Byte)) /\ Len(t) = 1 /\ t[1] = b
      BY <2>3 DEF b
    <2> HIDE DEF t
    <2>14. /\ q \in Seq(Seq(Byte)) /\ Len(q) = Len(t) + Len(ms)
           /\ \A j \in 1..Len(t) : q[j] = t[j]
           /\ \A j \in 1..Len(ms) : q[Len(t) + j] = ms[j]
      <3> DEFINE S == Seq(Byte)
      <3>1. ms \in Seq(S) /\ t \in Seq(S)
        BY <2>11, <2>13
      <3> HIDE DEF S
      <3>2. /\ t \o ms \in Seq(S) /\ Len(t \o ms) = Len(t) + Len(ms)
            /\ \A j \in 1..Len(t) : (t \o ms)[j] = t[j]
            /\ \A j \in 1..Len(ms) : (t \o ms)[Len(t) + j] = ms[j]
        BY <3>1, ConcatAt
      <3> QED
        BY <3>2 DEF S
    <2>15. h[i] = [msgs |-> q, rest |-> Window(p, m, r), raised |-> Verdict(p, m, r).kind = "raise"]
      <3> HIDE DEF q
      <3>1. x = [msgs |-> ms, rest |-> Window(p, m, r), raised |-> Verdict(p, m, r).kind = "raise"]
        BY <2>11
      <3> HIDE DEF x
      <3> DEFINE v == Window(p, m, r)
                 c == Verdict(p, m, r).kind = "raise"
      <3> HIDE DEF v, c
      <3>2. x = [msgs |-> ms, rest |-> v, raised |-> c]
        BY <3>1 DEF v, c
      <3>3. h[i] = [msgs |-> q, rest |-> v, raised |-> c]
        BY <2>12, <3>2 DEF q
      <3> QED
        BY <3>3 DEF v, c
    <2> HIDE DEF q, x
    <2>16. m \in k..N /\ Len(q) = m - k
      <3>1. m \in (k + 1)..N /\ Len(ms) = m - (k + 1) /\ Len(t) = 1 /\ Len(q) = Len(t) + Len(ms)
        BY <2>11, <2>13, <2>14
      <3>2. k \in Nat /\ N \in Nat
        BY <1>0, <2>2
      <3> HIDE DEF N
      <3> QED
        BY <3>1, <3>2
    <2>17. ASSUME NEW j \in 1..(m - k) PROVE q[j] = p[k + j].body /\ ~Refused(p[k + j])
      <3>1. CASE j = 1
        <4>1. 1 \in 1..Len(t)
          BY <2>13
        <4> QED
          BY <2>1, <2>13, <2>14, <3>1, <4>1 DEF b, f
      <3>2. CASE j # 1
        <4>1. j - 1 \in 1..(m - (k + 1)) /\ j - 1 \in 1..Len(ms) /\ k + 1 + (j - 1) = k + j /\ Len(t) + (j - 1) = j
          <5>1. m \in (k + 1)..Len(p) /\ Len(ms) = m - (k + 1) /\ Len(t) = 1
            BY <2>11, <2>13
          <5> QED
            BY <1>0, <2>2, <3>2, <5>1
        <4>2. q[j] = ms[j - 1]
          BY <2>14, <4>1
        <4>3. ms[j - 1] = p[k + j].body /\ ~Refused(p[k + j])
          BY <2>11, <4>1
        <4> QED
          BY <4>2, <4>3
      <3> QED
        BY <3>1, <3>2
    <2>18. Cuts(p, k, r, h[I(k)], m, q)
      <3>1. h[I(k)] = h[i]
        BY DEF i
      <3> QED
        BY <2>11, <2>14, <2>15, <2>16, <2>17, <3>1, Zenon DEF Cuts
    <2> QED
      BY <2>18
  <1> HIDE DEF C
  <1>6. D = {}
    <2> SUFFICES ASSUME D # {} PROVE FALSE
      OBVIOUS
    <2>1. PICK j \in D : \A i \in D : j <= i
      <3>1. D \in SUBSET Nat
        BY <1>0
      <3> HIDE DEF D
      <3> QED
        BY <3>1, Least
    <2> DEFINE k == N - j
    <2>2. j \in 0..N /\ k >= d /\ End(p, k) <= r /\ ~C(k)
      BY <2>1
    <2>3. k \in d..N
      BY <1>0, <2>2
    <2>4. Verdict(p, k, r).kind = "frame"
      <3> HIDE DEF k
      <3> QED
        BY <1>3, <2>2, <2>3
    <2>5. k + 1 \in d..N /\ End(p, k + 1) <= r
      <3> HIDE DEF k
      <3> QED
        BY <1>4, <2>2, <2>3, <2>4
    <2>6. j - 1 \in 0..N /\ N - (j - 1) = k + 1 /\ k + 1 >= d /\ ~(j <= j - 1)
      BY <1>0, <2>2, <2>3, <2>5
    <2>7. C(k + 1)
      <3>1. j - 1 \notin D
        BY <2>1, <2>6
      <3> HIDE DEF k
      <3> QED
        BY <2>5, <2>6, <3>1
    <2> HIDE DEF k
    <2> QED
      BY <1>5, <2>2, <2>3, <2>4, <2>7
  <1>7. C(d)
    <2>1. N - d \in 0..N /\ N - (N - d) = d /\ d >= d /\ End(p, d) <= r
      <3>1. End(p, d) \in Nat
        BY <1>0, EndIs
      <3> QED
        BY <1>0, <3>1
    <2>2. N - d \notin D
      BY <1>6
    <2> QED
      BY <2>1, <2>2
  <1>8. I(d) = 1
    <2>1. End(p, d) \in Nat
      BY <1>0, EndIs
    <2> QED
      BY <2>1
  <1> QED
    BY <1>1, <1>7, <1>8 DEF C

\* While the parser waits for more, no frame behind the d-th has been read.
LEMMA NotYet ==
  ASSUME NEW p \in Plans, NEW d \in 0..Len(p), NEW r \in End(p, d)..Len(Stream(p)),
         Verdict(p, d, r).kind = "more", NEW k \in 1..Len(p), End(p, k) <= r
  PROVE  k <= d
  <1>0. p \in Seq(Frame) /\ Len(p) \in Nat
    BY PlanFrames
  <1> SUFFICES ASSUME ~(k <= d) PROVE FALSE
    OBVIOUS
  <1> DEFINE n == Len(p[d + 1].prefix)
             l == Len(p[d + 1].body)
             e == End(p, d)
             g == End(p, d + 1)
  <1>1. d \in 0..(Len(p) - 1) /\ d + 1 \in 1..Len(p) /\ d + 1 \in 0..Len(p) /\ k \in (d + 1)..Len(p) /\ d # Len(p) /\ k \in 0..Len(p)
    BY <1>0
  <1>2. g <= End(p, k) /\ g \in Nat /\ End(p, k) \in Nat /\ e \in Nat
    BY <1>0, <1>1, StreamBegins, EndIs
  <1>3. g = e + n + l
    BY <1>0, <1>1, EndIs
  <1>4. n \in Nat /\ l \in Nat
    BY <1>1, PlanFrames
  <1>5. r \in Nat
    BY <1>0, WindowAt
  <1> HIDE DEF n, l, e, g
  <1>6. g <= r /\ ~(r < e + n)
    BY <1>2, <1>3, <1>4, <1>5
  <1>7. Verdict(p, d, r) = IF Refused(p[d + 1]) THEN Raise
                           ELSE [kind |-> "frame", len |-> l, next |-> n]
    BY <1>1, <1>6, Zenon DEF Verdict, n, l, e, g
  <1>8. Verdict(p, d, r).kind \in {"raise", "frame"}
    <2>1. Raise.kind = "raise"
      BY DEF Raise, Nothing
    <2> HIDE DEF Raise
    <2> QED
      BY <1>7, <2>1
  <1> QED
    BY <1>8

\* And the buffer holds less than one acceptable frame, or a beginning of a length.
LEMMA WaitsBounded ==
  ASSUME NEW p \in Plans, NEW m \in 0..Len(p), NEW r \in End(p, m)..Len(Stream(p)),
         Verdict(p, m, r).kind = "more"
  PROVE  LET w == Window(p, m, r)
         IN Len(w) < max_length + MaxValid \/ \A i \in DOMAIN w : Continues(w[i])
  <1> DEFINE w == Window(p, m, r)
  <1>0. p \in Seq(Frame) /\ Len(p) \in Nat
    BY PlanFrames
  <1>1. w \in Seq(Byte) /\ Len(w) = r - End(p, m) /\ End(p, m) \in Nat /\ r \in Nat
    BY <1>0, WindowAt
  <1>2. DOMAIN w = 1..Len(w)
    BY <1>1, LenProperties
  <1>3. CASE m = Len(p)
    <2>1. w = <<>>
      BY <1>3, WindowEmpty
    <2>2. \A i \in DOMAIN w : Continues(w[i])
      BY <2>1
    <2> QED
      BY <2>2
  <1>4. CASE m # Len(p)
    <2> DEFINE n == Len(p[m + 1].prefix)
               l == Len(p[m + 1].body)
               e == End(p, m)
    <2>1. m \in 0..(Len(p) - 1) /\ m + 1 \in 1..Len(p)
      BY <1>0, <1>4
    <2>2. n \in Nat /\ l \in Nat
      BY <2>1, PlanFrames
    <2>3. End(p, m + 1) = e + n + l
      BY <1>0, <2>1, EndIs
    <2>4. CASE r < e + n
      <3>1. \A i \in 1..Len(w) : Continues(w[i])
        BY <2>1, <2>4, WindowLength
      <3> QED
        BY <1>2, <3>1
    <2>5. CASE ~(r < e + n)
      <3>1. ~Refused(p[m + 1]) /\ ~(End(p, m + 1) <= r)
        <4>1. Raise.kind = "raise"
          BY DEF Raise, Nothing
        <4> HIDE DEF Raise, Nothing, Refused, e, n
        <4>2. Verdict(p, m, r) = IF Refused(p[m + 1]) THEN Raise
                                 ELSE IF End(p, m + 1) <= r
                                   THEN [kind |-> "frame", len |-> Len(p[m + 1].body), next |-> Len(p[m + 1].prefix)]
                                   ELSE Nothing
          BY <1>4, <2>5, Zenon DEF Verdict, e, n
        <4> QED
          BY <4>1, <4>2
      <3>2. ~(n > max_length) /\ ~(l > MaxValid)
        BY <3>1 DEF Refused
      <3>3. max_length \in Nat /\ MaxValid \in Nat
        BY PowerIs, FramingAssumption DEF max_length
      <3>4. e \in Nat /\ r \in Nat /\ Len(w) = r - e
        BY <1>1
      <3> HIDE DEF n, l, e, w
      <3>5. Len(w) < max_length + MaxValid
        BY <2>2, <2>3, <3>1, <3>2, <3>3, <3>4
      <3> QED
        BY <3>5 DEF w
    <2> QED
      BY <2>4, <2>5
  <1> QED
    BY <1>3, <1>4

\* The dispatch loop stops behind the last message or before the first bad one.
LEMMA PoppedIs ==
  ASSUME NEW n \in Nat, Len(delivered) \in Nat
  PROVE  /\ Popped(n) \in 0..n
         /\ \A j \in 1..Popped(n) : check_message(Len(delivered) + j)
         /\ Popped(n) < n => ~check_message(Len(delivered) + Popped(n) + 1)
  <1> DEFINE a == Len(delivered)
             Q(m) == /\ \A j \in 1..m : check_message(a + j)
                     /\ m < n => ~check_message(a + m + 1)
             D == {m \in 0..n : m = n \/ ~check_message(a + m + 1)}
             c == CHOOSE m \in 0..n : Q(m)
  <1>1. Popped(n) = c
    BY DEF Popped
  <1>2. PICK m \in D : \A k \in D : m <= k
    <2>1. D \in SUBSET Nat /\ n \in D
      OBVIOUS
    <2> HIDE DEF D
    <2> QED
      BY <2>1, Least
  <1>3. m \in 0..n /\ (m = n \/ ~check_message(a + m + 1))
    BY <1>2
  <1>4. ASSUME NEW j \in 1..m PROVE check_message(a + j)
    <2>1. j - 1 \in 0..n /\ j - 1 # n /\ ~(m <= j - 1) /\ (j - 1) + 1 = j
      BY <1>3
    <2>2. check_message(a + (j - 1) + 1)
      BY <1>2, <2>1
    <2>3. a + (j - 1) + 1 = a + j
      OBVIOUS
    <2> QED
      BY <2>2, <2>3
  <1>5. Q(m)
    BY <1>3, <1>4
  <1>6. c \in 0..n /\ Q(c)
    <2> HIDE DEF Q
    <2> QED
      BY <1>3, <1>5
  <1> HIDE DEF c
  <1> QED
    BY <1>1, <1>6

------------------------------------------------------------------------------
(* The inductive invariant.                                                 *)

\* How many bytes have been read.
Read == Len(Stream(plan)) - Len(wire)

\* What was delivered are the bodies of the first frames, all of them sound.
DeliveredInv ==
  /\ plan \in Plans /\ delivered \in Seq(Seq(Byte)) /\ Len(delivered) <= Len(plan)
  /\ \A k \in 1..Len(delivered) :
       delivered[k] = plan[k].body /\ plan[k].good /\ Len(plan[k].body) <= MaxValid

\* The transport has the rest of the stream.
WireInv ==
  /\ Read \in 0..Len(Stream(plan))
  /\ wire = SubSeq(Stream(plan), Read + 1, Len(Stream(plan)))

\* While the connection is open, the buffer begins with the next frame, which is
\* not complete.
OpenInv ==
  outcome = "open" =>
    /\ messages = <<>> /\ End(plan, Len(delivered)) <= Read
    /\ data = Window(plan, Len(delivered), Read)
    /\ Verdict(plan, Len(delivered), Read).kind = "more"

\* What was complete before the last read is delivered, if it may be.
OnTimeInv ==
  \A k \in 1..Len(plan) :
    End(plan, k) <= before /\ (\A i \in 1..k : plan[i].good) => k <= Len(delivered)

IInv == DeliveredInv /\ WireInv /\ OpenInv /\ OnTimeInv /\ BufferBounded

LEMMA InitInv == Init => IInv
  <1> SUFFICES ASSUME Init PROVE IInv
    OBVIOUS
  <1> DEFINE X == Stream(plan)
  <1>0. /\ plan \in Plans /\ wire = X /\ data = <<>> /\ messages = <<>> /\ delivered = <<>>
        /\ outcome = "open" /\ before = 0
    BY DEF Init
  <1>1. plan \in Seq(Frame) /\ Len(plan) \in Nat
    BY <1>0, PlanFrames
  <1>2. /\ X \in Seq(Byte) /\ Len(X) = End(plan, Len(plan)) /\ End(plan, 0) = 0
        /\ \A k \in 0..Len(plan) : End(plan, k) \in Nat
    BY <1>1, EndIs
  <1>3. Len(X) \in Nat
    BY <1>2, LenProperties
  <1>4. Read = 0
    BY <1>0, <1>3 DEF Read
  <1>5. delivered \in Seq(Seq(Byte)) /\ Len(delivered) = 0
    BY <1>0
  <1>6. DeliveredInv
    BY <1>0, <1>1, <1>5 DEF DeliveredInv
  <1>7. WireInv
    <2>1. SubSeq(X, 0 + 1, Len(X)) = X
      <3>1. 0 + 1 = 1
        OBVIOUS
      <3> QED
        BY <1>2, <3>1, SubSeqFull
    <2> HIDE DEF X
    <2> QED
      BY <1>0, <1>3, <1>4, <2>1 DEF WireInv, X
  <1>8. 0 \in 0..Len(plan) /\ 0 \in End(plan, 0)..Len(Stream(plan))
    BY <1>1, <1>2, <1>3
  <1> DEFINE w == Window(plan, 0, 0)
  <1>9. w \in Seq(Byte) /\ Len(w) = 0
    <2>1. w \in Seq(Byte) /\ Len(w) = 0 - End(plan, 0)
      BY <1>1, <1>8, WindowAt
    <2> QED
      BY <1>2, <2>1
  <1>10. w = <<>>
    BY <1>9, EmptySeq
  <1>11. Verdict(plan, 0, 0).kind = "more"
    <2>1. Nothing.kind = "more"
      BY DEF Nothing
    <2>2. process_one(w) = Verdict(plan, 0, 0)
      BY <1>0, <1>8, ParseOne
    <2> HIDE DEF w
    <2>3. size_length(w) = 0
      <3>1. \A i \in 1..Len(w) : Continues(w[i])
        BY <1>9
      <3> QED
        BY <1>9, <3>1, SizeLengthIs
    <2>4. process_one(w) = Nothing
      BY <2>3, OneIs
    <2> QED
      BY <2>1, <2>2, <2>4
  <1>12. OpenInv
    BY <1>0, <1>2, <1>4, <1>5, <1>10, <1>11 DEF OpenInv
  <1>13. OnTimeInv
    <2> SUFFICES ASSUME NEW k \in 1..Len(plan), End(plan, k) <= 0 PROVE FALSE
      BY <1>0, <1>5 DEF OnTimeInv
    <2>1. Verdict(plan, 0, 0).kind = "more" /\ End(plan, k) <= 0
      BY <1>11
    <2>2. k <= 0
      BY <1>0, <1>8, <2>1, NotYet
    <2> QED
      BY <2>2
  <1>14. BufferBounded
    <2>1. \A i \in DOMAIN data : Continues(data[i])
      BY <1>0
    <2> QED
      BY <2>1 DEF BufferBounded
  <1> QED
    BY <1>6, <1>7, <1>12, <1>13, <1>14 DEF IInv

\* A chunk goes from the wire behind the buffer.
LEMMA ChunkMoves ==
  ASSUME IInv, outcome = "open", NEW n \in Nat, n <= Len(wire)
  PROVE  /\ plan \in Plans /\ plan \in Seq(Frame) /\ Len(plan) \in Nat
         /\ Len(delivered) \in 0..Len(plan)
         /\ Read + n \in End(plan, Len(delivered))..Len(Stream(plan))
         /\ Read \in End(plan, Len(delivered))..Len(Stream(plan))
         /\ Read \in Nat /\ Len(Stream(plan)) \in Nat
         /\ data \o SubSeq(wire, 1, n) = Window(plan, Len(delivered), Read + n)
         /\ SubSeq(wire, n + 1, Len(wire)) = SubSeq(Stream(plan), Read + n + 1, Len(Stream(plan)))
         /\ Len(SubSeq(wire, n + 1, Len(wire))) = Len(Stream(plan)) - (Read + n)
  <1> DEFINE X == Stream(plan)
             d == Len(delivered)
             e == End(plan, d)
             r == Read
             L == Len(X)
  <1>0. plan \in Plans /\ delivered \in Seq(Seq(Byte)) /\ d <= Len(plan)
    BY DEF IInv, DeliveredInv
  <1>1. plan \in Seq(Frame) /\ Len(plan) \in Nat
    BY <1>0, PlanFrames
  <1>2. d \in Nat /\ d \in 0..Len(plan)
    <2>1. d \in Nat
      BY <1>0, LenProperties
    <2> QED
      BY <1>0, <1>1, <2>1
  <1>3. X \in Seq(Byte) /\ e \in Nat
    BY <1>1, <1>2, EndIs
  <1>4. L \in Nat
    BY <1>3, LenProperties
  <1>5. r \in 0..L /\ wire = SubSeq(X, r + 1, L)
    BY DEF IInv, WireInv
  <1>6. e <= r /\ data = SubSeq(X, e + 1, r)
    BY DEF IInv, OpenInv, Window
  <1>7. r = L - Len(wire)
    BY DEF Read
  <1> HIDE DEF X, d, e, r, L
  <1>8. r + 1 \in Nat \ {0} /\ L <= Len(X) /\ r + 1 <= L + 1 /\ r \in Nat
    BY <1>4, <1>5 DEF L
  <1>9. /\ wire \in Seq(Byte) /\ Len(wire) = L + 1 - (r + 1)
        /\ \A i \in 1..(L + 1 - (r + 1)) : wire[i] = X[(r + 1) - 1 + i]
    <2>1. /\ SubSeq(X, r + 1, L) \in Seq(Byte) /\ Len(SubSeq(X, r + 1, L)) = L + 1 - (r + 1)
          /\ \A i \in 1..(L + 1 - (r + 1)) : SubSeq(X, r + 1, L)[i] = X[(r + 1) - 1 + i]
      BY <1>3, <1>4, <1>8, SubSeqAt
    <2> QED
      BY <1>5, <2>1, Zenon
  <1>10. Len(wire) = L - r /\ n <= L - r
    <2>1. Len(wire) = L - r
      BY <1>4, <1>8, <1>9
    <2> QED
      BY <2>1
  <1> DEFINE c == SubSeq(wire, 1, n)
             v == SubSeq(wire, n + 1, Len(wire))
             x == SubSeq(X, r + 1, r + n)
             y == SubSeq(X, r + n + 1, L)
  <1>11. c = x
    <2>1. 1 \in Nat \ {0} /\ n <= Len(wire) /\ 1 <= n + 1
      BY <1>4, <1>8, <1>10
    <2>2. c \in Seq(Byte) /\ Len(c) = n + 1 - 1 /\ \A i \in 1..(n + 1 - 1) : c[i] = wire[1 - 1 + i]
      BY <1>9, <2>1, SubSeqAt
    <2> DEFINE a == r + 1
               b == r + n
    <2>3. a \in Nat \ {0} /\ b \in Nat /\ b <= Len(X) /\ a <= b + 1 /\ b + 1 - a = n
      BY <1>4, <1>8, <1>10 DEF L
    <2> HIDE DEF a, b
    <2>4. /\ SubSeq(X, a, b) \in Seq(Byte) /\ Len(SubSeq(X, a, b)) = b + 1 - a
          /\ \A i \in 1..(b + 1 - a) : SubSeq(X, a, b)[i] = X[a - 1 + i]
      BY <1>3, <2>3, SubSeqAt
    <2>5. x \in Seq(Byte) /\ Len(x) = n /\ \A i \in 1..n : x[i] = X[(r + 1) - 1 + i]
      <3>1. /\ SubSeq(X, a, b) \in Seq(Byte) /\ Len(SubSeq(X, a, b)) = n
            /\ \A i \in 1..n : SubSeq(X, a, b)[i] = X[a - 1 + i]
        BY <2>3, <2>4
      <3> QED
        BY <3>1, Zenon DEF a, b
    <2> HIDE DEF c, x
    <2>6. Len(c) = n /\ Len(c) = Len(x)
      BY <2>2, <2>5
    <2>7. ASSUME NEW i \in 1..Len(c) PROVE c[i] = x[i]
      <3>1. i \in 1..n /\ i \in 1..(n + 1 - 1) /\ 1 - 1 + i = i /\ i \in 1..(L + 1 - (r + 1))
        BY <1>4, <1>8, <1>10, <2>6
      <3>2. c[i] = wire[i]
        BY <2>2, <3>1
      <3>3. wire[i] = X[(r + 1) - 1 + i]
        BY <1>9, <3>1
      <3> QED
        BY <2>5, <3>1, <3>2, <3>3
    <2> QED
      BY <2>2, <2>5, <2>6, <2>7, SameSeq
  <1>12. v = y /\ Len(v) = L - (r + n)
    <2> DEFINE a == n + 1
               b == Len(wire)
    <2>1. a \in Nat \ {0} /\ b \in Nat /\ b <= Len(wire) /\ a <= b + 1 /\ b + 1 - a = L - (r + n)
      BY <1>4, <1>8, <1>10
    <2> HIDE DEF a, b
    <2>2. /\ SubSeq(wire, a, b) \in Seq(Byte) /\ Len(SubSeq(wire, a, b)) = b + 1 - a
          /\ \A i \in 1..(b + 1 - a) : SubSeq(wire, a, b)[i] = wire[a - 1 + i]
      BY <1>9, <2>1, SubSeqAt
    <2>3. v \in Seq(Byte) /\ Len(v) = L - (r + n) /\ \A i \in 1..(L - (r + n)) : v[i] = wire[(n + 1) - 1 + i]
      <3>1. /\ SubSeq(wire, a, b) \in Seq(Byte) /\ Len(SubSeq(wire, a, b)) = L - (r + n)
            /\ \A i \in 1..(L - (r + n)) : SubSeq(wire, a, b)[i] = wire[a - 1 + i]
        BY <2>1, <2>2
      <3> QED
        BY <3>1, Zenon DEF a, b
    <2> DEFINE f == r + n + 1
    <2>4. f \in Nat \ {0} /\ L <= Len(X) /\ f <= L + 1 /\ L + 1 - f = L - (r + n)
      BY <1>4, <1>8, <1>10
    <2> HIDE DEF f
    <2>5. /\ SubSeq(X, f, L) \in Seq(Byte) /\ Len(SubSeq(X, f, L)) = L + 1 - f
          /\ \A i \in 1..(L + 1 - f) : SubSeq(X, f, L)[i] = X[f - 1 + i]
      BY <1>3, <1>4, <2>4, SubSeqAt
    <2>6. y \in Seq(Byte) /\ Len(y) = L - (r + n) /\ \A i \in 1..(L - (r + n)) : y[i] = X[(r + n + 1) - 1 + i]
      <3>1. /\ SubSeq(X, f, L) \in Seq(Byte) /\ Len(SubSeq(X, f, L)) = L - (r + n)
            /\ \A i \in 1..(L - (r + n)) : SubSeq(X, f, L)[i] = X[f - 1 + i]
        BY <2>4, <2>5
      <3> QED
        BY <3>1, Zenon DEF f
    <2> HIDE DEF v, y
    <2>7. ASSUME NEW i \in 1..Len(v) PROVE v[i] = y[i]
      <3>1. i \in 1..(L - (r + n)) /\ (n + 1) - 1 + i \in 1..(L + 1 - (r + 1))
            /\ (r + 1) - 1 + ((n + 1) - 1 + i) = (r + n + 1) - 1 + i
        <4>1. i \in 1..(L - (r + n))
          BY <2>3
        <4> QED
          BY <1>4, <1>8, <1>10, <4>1
      <3>2. v[i] = wire[(n + 1) - 1 + i]
        BY <2>3, <3>1
      <3>3. wire[(n + 1) - 1 + i] = X[(r + 1) - 1 + ((n + 1) - 1 + i)]
        BY <1>9, <3>1
      <3>4. y[i] = X[(r + n + 1) - 1 + i]
        BY <2>6, <3>1
      <3> QED
        BY <3>1, <3>2, <3>3, <3>4
    <2>8. v \in Seq(Byte) /\ y \in Seq(Byte) /\ Len(v) = Len(y)
      BY <2>3, <2>6
    <2>9. v = y
      BY <2>7, <2>8, SameSeq
    <2> QED
      BY <2>3, <2>9
  <1>13. data \o x = SubSeq(X, e + 1, r + n)
    <2> DEFINE a == e + 1
               b == r + n
    <2>1. a \in 1..(Len(X) + 1) /\ r \in (a - 1)..Len(X) /\ b \in r..Len(X)
      BY <1>3, <1>4, <1>6, <1>8, <1>10 DEF L
    <2> HIDE DEF a, b
    <2>2. SubSeq(X, a, r) \o SubSeq(X, r + 1, b) = SubSeq(X, a, b)
      BY <1>3, <2>1, ConcatAdjacentSubSeq
    <2> QED
      BY <1>6, <2>2 DEF a, b
  <1>14. r + n \in e..L /\ r \in e..L
    BY <1>3, <1>4, <1>6, <1>8, <1>10
  <1> HIDE DEF x, y, c, v
  <1>15. data \o c = Window(plan, d, r + n)
    BY <1>11, <1>13 DEF Window, X, e, x
  <1> QED
    BY <1>0, <1>1, <1>2, <1>4, <1>8, <1>12, <1>14, <1>15 DEF X, d, e, r, L, v, y, c

\* What one read does, in terms of the frames it completes: the first m frames
\* have been read, of the new ones ms the dispatch loop pops M.
Reads(n, m, ms, M) ==
  /\ m \in Len(delivered)..Len(plan) /\ End(plan, m) <= Read + n
  /\ ms \in Seq(Seq(Byte)) /\ Len(ms) = m - Len(delivered)
  /\ \A j \in 1..(m - Len(delivered)) :
       ms[j] = plan[Len(delivered) + j].body /\ ~Refused(plan[Len(delivered) + j])
  /\ M \in 0..(m - Len(delivered))
  /\ \A j \in 1..M : check_message(Len(delivered) + j)
  /\ Verdict(plan, m, Read + n).kind \in {"more", "raise"}
  /\ data' = Window(plan, m, Read + n)
  /\ delivered' = delivered \o SubSeq(ms, 1, M)
  /\ \/ Verdict(plan, m, Read + n).kind = "raise" /\ outcome' = "raised" /\ M = 0
     \/ outcome' = "refused"
        /\ Verdict(plan, m, Read + n).kind = "more"
     \/ outcome' = "open" /\ Verdict(plan, m, Read + n).kind = "more"
        /\ M = m - Len(delivered) /\ messages' = <<>>

LEMMA ReadsFrames ==
  ASSUME IInv, NEW n \in 1..MaxChunk, process_data(n)
  PROVE  \E m, ms, M : Reads(n, m, ms, M)
  <1> DEFINE d == Len(delivered)
             r == Read + n
             a == process(data \o SubSeq(wire, 1, n))
             q == messages \o a.msgs
             P == Popped(Len(q))
  <1>0. n \in Nat
    BY FramingAssumption
  <1>1. outcome = "open" /\ n <= Len(wire) /\ data' = a.rest
    BY DEF process_data
  <1>2. /\ IF a.raised \/ a.msgs = <<>>
             THEN messages' = q /\ delivered' = delivered
             ELSE /\ delivered' = delivered \o SubSeq(q, 1, P)
                  /\ messages' = SubSeq(q, P + 2, Len(q))
        /\ outcome' = CASE a.raised -> "raised"
                        [] ~a.raised /\ a.msgs # <<>> /\ P < Len(q) -> "refused"
                        [] OTHER -> "open"
    BY Zenon DEF process_data
  <1>3. messages = <<>> /\ delivered \in Seq(Seq(Byte))
    BY <1>1 DEF IInv, OpenInv, DeliveredInv
  <1>4. /\ plan \in Plans /\ plan \in Seq(Frame) /\ Len(plan) \in Nat /\ d \in 0..Len(plan)
        /\ r \in End(plan, d)..Len(Stream(plan))
        /\ data \o SubSeq(wire, 1, n) = Window(plan, d, r)
    BY <1>0, <1>1, ChunkMoves
  <1> HIDE DEF r
  <1>5. PICK m, ms : Cuts(plan, d, r, process(Window(plan, d, r)), m, ms)
    BY <1>4, ProcessWindow
  <1>6. Cuts(plan, d, r, a, m, ms)
    BY <1>4, <1>5
  <1> DEFINE v == Verdict(plan, m, r).kind
  <1>7. /\ m \in d..Len(plan) /\ End(plan, m) <= r
        /\ ms \in Seq(Seq(Byte)) /\ Len(ms) = m - d
        /\ \A j \in 1..(m - d) : ms[j] = plan[d + j].body /\ ~Refused(plan[d + j])
        /\ a = [msgs |-> ms, rest |-> Window(plan, m, r), raised |-> v = "raise"]
        /\ v # "frame"
    BY <1>6, Zenon DEF Cuts
  <1> HIDE DEF a
  <1>8. a.msgs = ms /\ a.rest = Window(plan, m, r) /\ a.raised = (v = "raise")
    <2> HIDE DEF v
    <2> QED
      BY <1>7
  <1>9. q = ms
    BY <1>3, <1>7, <1>8, ConcatEmptySeq
  <1> HIDE DEF q
  <1>10. m - d \in Nat /\ d \in Nat /\ Len(q) = m - d
    BY <1>4, <1>7, <1>9
  <1>11. /\ P \in 0..(m - d) /\ \A j \in 1..P : check_message(d + j)
    BY <1>10, PoppedIs
  <1> HIDE DEF P
  <1>12. v \in {"more", "raise"}
    <2>1. End(plan, m) \in Nat /\ m \in 0..Len(plan) /\ r \in End(plan, m)..Len(Stream(plan))
      BY <1>4, <1>7, EndIs, WindowAt
    <2>2. Window(plan, m, r) \in Seq(Byte)
      BY <1>4, <2>1, WindowAt
    <2>3. process_one(Window(plan, m, r)).kind \in {"more", "raise", "frame"}
      BY <2>2, OneFits
    <2>4. v \in {"more", "raise", "frame"}
      BY <1>4, <2>1, <2>3, ParseOne
    <2> QED
      BY <1>7, <2>4
  <1> HIDE DEF v
  <1> DEFINE Rest(M) ==
        /\ delivered' = delivered \o SubSeq(ms, 1, M)
        /\ \/ v = "raise" /\ outcome' = "raised" /\ M = 0
           \/ outcome' = "refused" /\ v = "more"
           \/ outcome' = "open" /\ v = "more" /\ M = m - d /\ messages' = <<>>
  <1>13. delivered \o SubSeq(ms, 1, 0) = delivered
    <2>1. SubSeq(ms, 1, 0) = <<>>
      BY <1>7, SubSeqEmpty
    <2> QED
      BY <1>3, <2>1, ConcatEmptySeq
  <1>14. CASE v = "raise"
    <2>1. a.raised /\ outcome' = "raised" /\ delivered' = delivered
      BY <1>2, <1>8, <1>14
    <2>2. Rest(0)
      BY <1>13, <1>14, <2>1
    <2>3. Reads(n, m, ms, 0)
      BY <1>1, <1>7, <1>8, <1>10, <1>12, <2>2 DEF Reads, r, v
    <2> QED
      BY <2>3
  <1>15. CASE v # "raise"
    <2>0. v = "more" /\ ~a.raised
      BY <1>8, <1>12, <1>15
    <2>1. CASE ms = <<>>
      <3>1. messages' = <<>> /\ delivered' = delivered /\ outcome' = "open"
        BY <1>2, <1>8, <1>9, <2>0, <2>1
      <3>2. m - d = 0
        BY <1>7, <2>1
      <3>3. Rest(0)
        BY <1>13, <2>0, <3>1, <3>2
      <3>4. Reads(n, m, ms, 0)
        BY <1>1, <1>7, <1>8, <1>10, <1>12, <3>3 DEF Reads, r, v
      <3> QED
        BY <3>4
    <2>2. CASE ms # <<>>
      <3>1. /\ delivered' = delivered \o SubSeq(ms, 1, P)
            /\ messages' = SubSeq(ms, P + 2, Len(ms))
            /\ outcome' = IF P < Len(ms) THEN "refused" ELSE "open"
        BY <1>2, <1>8, <1>9, <2>0, <2>2
      <3>2. P = m - d => messages' = <<>>
        <4> SUFFICES ASSUME P = m - d PROVE SubSeq(ms, P + 2, Len(ms)) = <<>>
          BY <3>1
        <4>1. P + 2 > Len(ms) /\ P + 2 \in Int /\ Len(ms) \in Int
          BY <1>7, <1>10, <1>11
        <4> QED
          BY <1>7, <4>1, SubSeqEmpty
      <3>3. Rest(P)
        <4>1. Len(ms) = m - d /\ (P < Len(ms) \/ P = m - d)
          <5>1. Len(ms) = m - d /\ m - d \in Nat /\ P \in 0..(m - d)
            BY <1>7, <1>10, <1>11
          <5> QED
            BY <5>1
        <4>2. CASE P < Len(ms)
          BY <2>0, <3>1, <4>2, Zenon
        <4>3. CASE ~(P < Len(ms)) /\ P = m - d
          BY <2>0, <3>1, <3>2, <4>3, Zenon
        <4> QED
          BY <4>1, <4>2, <4>3, Zenon
      <3>4. Reads(n, m, ms, P)
        BY <1>1, <1>7, <1>8, <1>11, <1>12, <3>3 DEF Reads, r, v
      <3> QED
        BY <3>4
    <2> QED
      BY <2>1, <2>2
  <1> QED
    BY <1>14, <1>15

\* What a read leaves alone, and how far it goes.
LEMMA ReadsOn ==
  ASSUME IInv, NEW n \in 1..MaxChunk, process_data(n)
  PROVE  /\ plan' = plan /\ before' = Read /\ Read' = Read + n
         /\ wire' = SubSeq(Stream(plan), Read + n + 1, Len(Stream(plan)))
         /\ Read \in Nat /\ n \in Nat /\ Len(Stream(plan)) \in Nat
         /\ Read + n \in 0..Len(Stream(plan))
  <1> DEFINE L == Len(Stream(plan))
             r == Read
  <1>0. n \in Nat
    BY FramingAssumption
  <1>1. /\ outcome = "open" /\ n <= Len(wire) /\ plan' = plan
        /\ before' = r /\ wire' = SubSeq(wire, n + 1, Len(wire))
    BY Zenon DEF process_data, Read
  <1>2. /\ plan \in Seq(Frame) /\ Len(delivered) \in 0..Len(plan)
        /\ r + n \in End(plan, Len(delivered))..L /\ r \in Nat /\ L \in Nat
        /\ SubSeq(wire, n + 1, Len(wire)) = SubSeq(Stream(plan), r + n + 1, L)
        /\ Len(SubSeq(wire, n + 1, Len(wire))) = L - (r + n)
    BY <1>0, <1>1, ChunkMoves
  <1>3. End(plan, Len(delivered)) \in Nat
    BY <1>2, EndIs
  <1>4. Read' = L - (L - (r + n))
    BY <1>1, <1>2, Zenon DEF Read
  <1> HIDE DEF L, r
  <1>5. Read' = r + n
    BY <1>0, <1>2, <1>4
  <1>6. r + n \in 0..L
    BY <1>0, <1>2, <1>3
  <1> QED
    BY <1>0, <1>1, <1>2, <1>5, <1>6 DEF L, r

\* A read keeps the invariant.
LEMMA ReadInv ==
  ASSUME IInv, NEW n \in 1..MaxChunk, process_data(n)
  PROVE  IInv'
  <1> DEFINE d == Len(delivered)
             r == Read
             L == Len(Stream(plan))
  <1>0. plan \in Plans /\ delivered \in Seq(Seq(Byte)) /\ d <= Len(plan)
    BY DEF IInv, DeliveredInv
  <1>1. plan \in Seq(Frame) /\ Len(plan) \in Nat /\ d \in Nat
    BY <1>0, PlanFrames, LenProperties
  <1>2. /\ plan' = plan /\ before' = r /\ Read' = r + n
        /\ wire' = SubSeq(Stream(plan), r + n + 1, L)
        /\ r \in Nat /\ n \in Nat /\ L \in Nat /\ r + n \in 0..L
    BY ReadsOn
  <1>3. outcome = "open"
    BY DEF process_data
  <1>4. PICK m, ms, M : Reads(n, m, ms, M)
    BY ReadsFrames
  <1> DEFINE v == Verdict(plan, m, r + n).kind
             t == SubSeq(ms, 1, M)
  <1>5. /\ m \in d..Len(plan) /\ End(plan, m) <= r + n
        /\ ms \in Seq(Seq(Byte)) /\ Len(ms) = m - d /\ M \in 0..(m - d)
        /\ v \in {"more", "raise"}
        /\ data' = Window(plan, m, r + n) /\ delivered' = delivered \o t
    BY <1>4 DEF Reads
  <1>6. /\ \A j \in 1..(m - d) : ms[j] = plan[d + j].body /\ ~Refused(plan[d + j])
        /\ \A j \in 1..M : check_message(d + j)
    BY <1>4, Zenon DEF Reads
  <1>7. \/ v = "raise" /\ outcome' = "raised" /\ M = 0
        \/ outcome' = "refused" /\ v = "more"
        \/ outcome' = "open" /\ v = "more" /\ M = m - d /\ messages' = <<>>
    BY <1>4, Zenon DEF Reads
  <1> HIDE DEF v, r, L
  <1>8. M \in Nat /\ M <= Len(ms) /\ m \in 0..Len(plan) /\ d + M <= m
    BY <1>1, <1>5
  <1>9. t \in Seq(Seq(Byte)) /\ Len(t) = M /\ \A j \in 1..M : t[j] = ms[j]
    <2>1. 1 \in Nat \ {0} /\ 1 <= M + 1
      BY <1>8
    <2>2. /\ t \in Seq(Seq(Byte)) /\ Len(t) = M + 1 - 1
          /\ \A j \in 1..(M + 1 - 1) : t[j] = ms[1 - 1 + j]
      BY <1>5, <1>8, <2>1, SubSeqAt
    <2> HIDE DEF t
    <2>3. M + 1 - 1 = M /\ \A j \in 1..M : 1 - 1 + j = j
      BY <1>8
    <2> QED
      BY <2>2, <2>3
  <1> HIDE DEF t
  <1>10. /\ delivered' \in Seq(Seq(Byte)) /\ Len(delivered') = d + M
         /\ \A i \in 1..d : delivered'[i] = delivered[i]
         /\ \A i \in 1..M : delivered'[d + i] = t[i]
    <2>1. /\ delivered \o t \in Seq(Seq(Byte)) /\ Len(delivered \o t) = d + Len(t)
          /\ \A i \in 1..d : (delivered \o t)[i] = delivered[i]
          /\ \A i \in 1..Len(t) : (delivered \o t)[d + i] = t[i]
      <3> DEFINE S == Seq(Byte)
      <3>1. delivered \in Seq(S) /\ t \in Seq(S)
        BY <1>0, <1>9
      <3> HIDE DEF S
      <3> QED
        BY <3>1, ConcatAt DEF S
    <2> QED
      BY <1>5, <1>9, <2>1, Zenon
  <1>11. DeliveredInv'
    <2>1. ASSUME NEW k \in 1..(d + M)
          PROVE  delivered'[k] = plan[k].body /\ plan[k].good /\ Len(plan[k].body) <= MaxValid
      <3>1. CASE k <= d
        <4>1. k \in 1..d
          BY <1>1, <1>8, <3>1
        <4> QED
          BY <1>10, <4>1 DEF IInv, DeliveredInv
      <3>2. CASE ~(k <= d)
        <4> DEFINE j == k - d
        <4>1. j \in 1..M /\ j \in 1..(m - d) /\ d + j = k /\ k \in 1..Len(plan)
          BY <1>1, <1>5, <1>8, <3>2
        <4> HIDE DEF j
        <4>2. delivered'[k] = plan[k].body /\ ~Refused(plan[k]) /\ check_message(k)
          BY <1>6, <1>9, <1>10, <4>1
        <4>3. Len(plan[k].body) \in Nat /\ MaxValid \in Nat
          BY <1>0, <4>1, PlanFrames, FramingAssumption
        <4> QED
          BY <4>2, <4>3 DEF Refused, check_message
      <3> QED
        BY <3>1, <3>2
    <2>2. d + M <= Len(plan)
      BY <1>1, <1>5, <1>8
    <2> QED
      BY <1>0, <1>2, <1>10, <2>1, <2>2 DEF DeliveredInv
  <1>12. WireInv'
    BY <1>2 DEF WireInv, L
  <1>13. OpenInv'
    <2> SUFFICES ASSUME outcome' = "open"
                 PROVE  /\ messages' = <<>> /\ End(plan', Len(delivered')) <= Read'
                        /\ data' = Window(plan', Len(delivered'), Read')
                        /\ Verdict(plan', Len(delivered'), Read').kind = "more"
      BY DEF OpenInv
    <2>1. v = "more" /\ M = m - d /\ messages' = <<>>
      BY <1>7
    <2>2. Len(delivered') = m
      BY <1>1, <1>5, <1>10, <2>1
    <2> QED
      BY <1>2, <1>5, <2>1, <2>2 DEF v
  <1>14. OnTimeInv'
    <2>1. /\ End(plan, d) \in Nat /\ End(plan, d) <= r /\ Verdict(plan, d, r).kind = "more"
      <3>1. End(plan, d) <= r /\ Verdict(plan, d, r).kind = "more"
        BY <1>3 DEF IInv, OpenInv, r
      <3> QED
        BY <1>0, <1>1, <3>1, EndIs
    <2>2. d \in 0..Len(plan) /\ r \in End(plan, d)..L
      BY <1>0, <1>1, <1>2, <2>1
    <2>3. ASSUME NEW k \in 1..Len(plan), End(plan, k) <= r PROVE k <= d + M
      <3>1. k <= d
        BY <1>0, <2>1, <2>2, <2>3, NotYet DEF L
      <3> QED
        BY <1>1, <1>8, <3>1
    <2> QED
      BY <1>2, <1>10, <2>3 DEF OnTimeInv
  <1>15. BufferBounded'
    <2>1. CASE v = "raise"
      BY <1>7, <2>1 DEF BufferBounded
    <2>2. CASE v = "more"
      <3>1. End(plan, m) \in Nat
        BY <1>1, <1>8, EndIs
      <3>2. r + n \in End(plan, m)..L
        BY <1>2, <1>5, <3>1
      <3>3. Len(data') < max_length + MaxValid \/ \A i \in DOMAIN data' : Continues(data'[i])
        BY <1>0, <1>5, <1>8, <2>2, <3>2, WaitsBounded DEF v, L
      <3> QED
        BY <3>3 DEF BufferBounded
    <2> QED
      BY <1>5, <2>1, <2>2
  <1> QED
    BY <1>11, <1>12, <1>13, <1>14, <1>15 DEF IInv

LEMMA Invariant == Spec => []IInv
  <1>1. ASSUME IInv, [Next]_vars PROVE IInv'
    <2>1. CASE Next
      BY <1>1, <2>1, ReadInv DEF Next
    <2>2. CASE UNCHANGED vars
      BY <1>1, <2>2 DEF vars, IInv, DeliveredInv, WireInv, OpenInv, OnTimeInv, BufferBounded, Read,
                        check_message
    <2> QED
      BY <1>1, <2>1, <2>2
  <1> QED
    BY <1>1, InitInv, PTL DEF Spec

------------------------------------------------------------------------------
(* What the invariant says of the stream.                                   *)

\* A plan that is the first frames of another has the bytes of those.
LEMMA StreamAgree ==
  ASSUME NEW p \in Seq(Frame), NEW q \in Seq(Frame), NEW d \in 0..Len(p), Len(q) = d,
         \A i \in 1..d : q[i] = p[i]
  PROVE  Stream(q) = StreamTo(p, d)
  <1> DEFINE H == {k \in Nat : k <= d => StreamTo(q, k) = StreamTo(p, k)}
  <1>1. /\ Len(p) \in Nat /\ StreamTo(p, 0) = <<>>
        /\ \A k \in 0..(Len(p) - 1) : StreamTo(p, k + 1) = StreamTo(p, k) \o Bytes(p[k + 1])
    BY StreamSteps
  <1>2. /\ StreamTo(q, 0) = <<>>
        /\ \A k \in 0..(d - 1) : StreamTo(q, k + 1) = StreamTo(q, k) \o Bytes(q[k + 1])
    BY StreamSteps
  <1>3. 0 \in H
    BY <1>1, <1>2
  <1>4. ASSUME NEW k \in Nat, k \in H PROVE k + 1 \in H
    <2> SUFFICES ASSUME k + 1 <= d PROVE StreamTo(q, k + 1) = StreamTo(p, k + 1)
      OBVIOUS
    <2>1. k <= d /\ k \in 0..(d - 1) /\ k \in 0..(Len(p) - 1) /\ k + 1 \in 1..d
      BY <1>1
    <2>2. StreamTo(q, k) = StreamTo(p, k)
      BY <1>4, <2>1
    <2> QED
      BY <1>1, <1>2, <2>1, <2>2
  <1> HIDE DEF H
  <1>5. \A k \in Nat : k \in H
    BY <1>3, <1>4, Ind
  <1>6. d \in H /\ d <= d
    BY <1>1, <1>5
  <1>7. StreamTo(q, d) = StreamTo(p, d)
    BY <1>6 DEF H
  <1> QED
    BY <1>7 DEF Stream

LEMMA StreamFront ==
  ASSUME NEW p \in Seq(Frame), NEW d \in 0..Len(p)
  PROVE  StreamTo(p, d) = SubSeq(Stream(p), 1, End(p, d)) /\ End(p, d) \in 0..Len(Stream(p))
  <1> DEFINE X == Stream(p)
             e == End(p, d)
             s == StreamTo(p, d)
             u == SubSeq(X, 1, e)
  <1>1. Len(p) \in Nat /\ s \in Seq(Byte) /\ e = Len(s)
    BY StreamSteps DEF End
  <1>2. X \in Seq(Byte) /\ Len(X) = End(p, Len(p)) /\ e \in Nat /\ End(p, Len(p)) \in Nat
    <2>1. Len(p) \in 0..Len(p)
      BY <1>1
    <2> QED
      BY <2>1, EndIs
  <1>3. e <= Len(X) /\ \A i \in 1..e : X[i] = s[i]
    <2>1. Len(p) \in d..Len(p)
      BY <1>1
    <2>2. e <= End(p, Len(p)) /\ \A i \in 1..e : StreamTo(p, Len(p))[i] = s[i]
      BY <2>1, StreamBegins
    <2> QED
      BY <1>2, <2>2 DEF Stream
  <1> HIDE DEF X, e, s
  <1>4. u \in Seq(Byte) /\ Len(u) = e /\ \A i \in 1..e : u[i] = X[i]
    <2>1. 1 \in Nat \ {0} /\ 1 <= e + 1
      BY <1>2
    <2>2. u \in Seq(Byte) /\ Len(u) = e + 1 - 1 /\ \A i \in 1..(e + 1 - 1) : u[i] = X[1 - 1 + i]
      BY <1>2, <1>3, <2>1, SubSeqAt
    <2> HIDE DEF u
    <2>3. e + 1 - 1 = e /\ \A i \in 1..e : 1 - 1 + i = i
      BY <1>2
    <2> QED
      BY <2>2, <2>3
  <1> HIDE DEF u
  <1>5. s = u
    <2>1. Len(s) = Len(u) /\ \A i \in 1..Len(s) : s[i] = u[i]
      BY <1>1, <1>3, <1>4
    <2> QED
      BY <1>1, <1>4, <2>1, SameSeq
  <1>6. e \in 0..Len(X)
    BY <1>2, <1>3
  <1> QED
    BY <1>5, <1>6 DEF X, e, s, u

\* Three adjacent parts make up the whole.
LEMMA ThreeParts ==
  ASSUME NEW S, NEW X \in Seq(S), NEW r \in 0..Len(X), NEW e \in 0..r
  PROVE  SubSeq(X, 1, e) \o SubSeq(X, e + 1, r) \o SubSeq(X, r + 1, Len(X)) = X
  <1>0. Len(X) \in Nat
    BY LenProperties
  <1>1. 1 \in 1..(Len(X) + 1) /\ e \in (1 - 1)..Len(X) /\ r \in e..Len(X)
    BY <1>0
  <1>2. SubSeq(X, 1, e) \o SubSeq(X, e + 1, r) = SubSeq(X, 1, r)
    BY <1>1, ConcatAdjacentSubSeq
  <1>3. SubSeq(X, 1, r) \o SubSeq(X, r + 1, Len(X)) = X
    BY SplitAt
  <1> QED
    BY <1>2, <1>3

LEMMA NothingIsLost == IInv => NothingLost
  <1> SUFFICES ASSUME IInv, outcome = "open"
               PROVE  /\ messages = <<>>
                      /\ Stream([i \in DOMAIN delivered |-> [plan[i] EXCEPT !.body = delivered[i]]])
                           \o data \o wire = Stream(plan)
    BY DEF NothingLost
  <1> DEFINE d == Len(delivered)
             q == [i \in DOMAIN delivered |-> [plan[i] EXCEPT !.body = delivered[i]]]
             X == Stream(plan)
             e == End(plan, d)
             r == Read
  <1>1. /\ plan \in Plans /\ delivered \in Seq(Seq(Byte)) /\ d <= Len(plan)
        /\ \A k \in 1..d : delivered[k] = plan[k].body
    BY DEF IInv, DeliveredInv
  <1>2. plan \in Seq(Frame) /\ Len(plan) \in Nat /\ \A k \in 1..Len(plan) : plan[k] \in Frame
    BY <1>1, PlanFrames
  <1>3. d \in Nat /\ DOMAIN delivered = 1..d /\ d \in 0..Len(plan)
    <2>1. d \in Nat /\ DOMAIN delivered = 1..d
      BY <1>1, LenProperties
    <2> QED
      BY <1>1, <1>2, <2>1
  <1>4. messages = <<>> /\ e <= r /\ data = SubSeq(X, e + 1, r)
    BY DEF IInv, OpenInv, Window
  <1>5. r \in 0..Len(X) /\ wire = SubSeq(X, r + 1, Len(X))
    BY DEF IInv, WireInv
  <1>6. q \in Seq(Frame) /\ Len(q) = d /\ \A i \in 1..d : q[i] = plan[i]
    <2>1. ASSUME NEW i \in 1..d PROVE q[i] = plan[i] /\ q[i] \in Frame
      <3>1. i \in 1..Len(plan)
        BY <1>1, <1>2, <1>3
      <3>2. plan[i] \in Frame /\ delivered[i] = plan[i].body
        BY <1>1, <1>2, <3>1
      <3>3. [plan[i] EXCEPT !.body = plan[i].body] = plan[i]
        BY <3>2 DEF Frame
      <3>4. q[i] = [plan[i] EXCEPT !.body = delivered[i]]
        BY <1>3
      <3> QED
        BY <3>2, <3>3, <3>4
    <2>2. q = [i \in 1..d |-> q[i]]
      BY <1>3
    <2> HIDE DEF q
    <2>3. q \in [1..d -> Frame]
      BY <2>1, <2>2
    <2>4. q \in Seq(Frame)
      BY <1>3, <2>3, SeqDef
    <2>5. Len(q) = d
      BY <1>3, <2>3, <2>4, LenProperties
    <2> QED
      BY <2>1, <2>4, <2>5
  <1> HIDE DEF q
  <1>7. Stream(q) = SubSeq(X, 1, e) /\ e \in 0..Len(X)
    BY <1>2, <1>3, <1>6, StreamAgree, StreamFront
  <1>8. X \in Seq(Byte)
    BY <1>2, EndIs
  <1> HIDE DEF X, e, r
  <1>9. Len(X) \in Nat
    BY <1>8, LenProperties
  <1>10. e \in 0..r
    BY <1>4, <1>5, <1>7, <1>9
  <1>11. Stream(q) \o data \o wire = X
    BY <1>4, <1>5, <1>7, <1>8, <1>10, ThreeParts
  <1> QED
    BY <1>4, <1>11 DEF q, X

LEMMA DeliveredInTime == IInv => DeliveredOnTime
  <1> SUFFICES ASSUME IInv PROVE DeliveredOnTime
    OBVIOUS
  <1> DEFINE d == Len(delivered)
  <1>1. /\ plan \in Plans /\ delivered \in Seq(Seq(Byte)) /\ d <= Len(plan)
        /\ \A k \in 1..d : delivered[k] = plan[k].body /\ plan[k].good /\ Len(plan[k].body) <= MaxValid
    BY DEF IInv, DeliveredInv
  <1>2. plan \in Seq(Frame) /\ Len(plan) \in Nat /\ DOMAIN plan = 1..Len(plan)
    BY <1>1, PlanFrames, LenProperties
  <1>3. d \in Nat /\ DOMAIN delivered = 1..d
    BY <1>1, LenProperties
  <1>4. ASSUME NEW k \in 1..Len(plan), Len(StreamTo(plan, k)) <= before, \A i \in 1..k : plan[i].good
        PROVE  d >= k /\ delivered[k] = plan[k].body
    <2>1. End(plan, k) <= before
      BY <1>4 DEF End
    <2>2. k <= d
      BY <1>4, <2>1 DEF IInv, OnTimeInv
    <2>3. k \in 1..d
      BY <1>2, <1>3, <2>2
    <2> QED
      BY <1>1, <1>3, <2>2, <2>3
  <1>5. \A k \in 1..d : plan[k].good /\ Len(delivered[k]) <= MaxValid
    BY <1>1
  <1> QED
    BY <1>2, <1>3, <1>4, <1>5 DEF DeliveredOnTime

LEMMA InStep ==
  ASSUME IInv, outcome = "open", size_length(data) # 0
  PROVE  size_length(data) = Len(plan[Len(delivered) + 1].prefix)
  <1> DEFINE d == Len(delivered)
             r == Read
             e == End(plan, d)
  <1>1. plan \in Plans /\ delivered \in Seq(Seq(Byte)) /\ d <= Len(plan)
    BY DEF IInv, DeliveredInv
  <1>2. plan \in Seq(Frame) /\ Len(plan) \in Nat /\ d \in Nat
    BY <1>1, PlanFrames, LenProperties
  <1>3. e <= r /\ data = Window(plan, d, r) /\ r \in 0..Len(Stream(plan))
    BY DEF IInv, OpenInv, WireInv
  <1>4. e \in Nat /\ Len(Stream(plan)) \in Nat
    <2>1. d \in 0..Len(plan) /\ Stream(plan) \in Seq(Byte)
      BY <1>1, <1>2, EndIs
    <2> QED
      BY <1>2, <2>1, EndIs, LenProperties
  <1> HIDE DEF r
  <1>5. r \in e..Len(Stream(plan))
    BY <1>3, <1>4
  <1>6. d # Len(plan)
    BY <1>1, <1>3, <1>5, WindowEmpty
  <1>7. d \in 0..(Len(plan) - 1)
    BY <1>1, <1>2, <1>6
  <1> DEFINE n == Len(plan[d + 1].prefix)
  <1>8. (r < e + n => size_length(data) = 0) /\ (r >= e + n => size_length(data) = n)
    BY <1>1, <1>3, <1>5, <1>7, WindowLength
  <1>9. n \in Nat
    <2>1. d + 1 \in 1..Len(plan)
      BY <1>2, <1>7
    <2> QED
      BY <1>1, <2>1, PlanFrames
  <1> HIDE DEF n, e
  <1>10. size_length(data) = n
    BY <1>3, <1>4, <1>8, <1>9
  <1> QED
    BY <1>10 DEF n

------------------------------------------------------------------------------
\* varint_policy and fixint_policy in sizepack-policy.h: for every width of the
\* groups and of size_type, a length that fits comes back from both encodings and
\* is never taken for complete too early; and the parser of data-queue.cpp, fed in
\* any chunks, finds at the front of its buffer the very length that pack_message
\* put there (RoundTrip).
THEOREM LengthsComeBack == Spec => []RoundTrip
  <1>1. ASSUME NEW n \in 0..(SizeValues - 1)
        PROVE  /\ size_length(pack[n]) = Len(pack[n])
               /\ Len(pack[n]) <= max_length
               /\ unpack(pack[n]) = n
               /\ \A i \in 1..(Len(pack[n]) - 1) : size_length(SubSeq(pack[n], 1, i)) = 0
               /\ n < Octets[2] => /\ fix_size_length(fix_pack(n, 2), 2) = 2
                                   /\ fix_unpack(fix_pack(n, 2), 2) = n
    <2>1. n \in Nat
      BY SizeValuesNat
    <2>2. n < Octets[2] => /\ fix_size_length(fix_pack(n, 2), 2) = 2
                           /\ fix_unpack(fix_pack(n, 2), 2) = n
      BY <2>1, FixintRoundTrip
    <2> QED
      BY <2>2, VarintRoundTrip, Zenon
  <1>2. IInv => RoundTrip
    BY <1>1, InStep, Zenon DEF RoundTrip
  <1> QED
    BY <1>2, Invariant, PTL

\* process_data, queue_base::messages and the dispatch loop of protocol-layer.cpp:
\* for every plan of framed messages and every division of their bytes into reads,
\* no byte is lost, repeated or moved to another message, what has been read is
\* delivered unless a bad hash came first, only what passed the hash and the limit
\* is, and the buffer holds less than one acceptable frame or nothing but the
\* beginning of a length (FramesSound).
THEOREM FramesArrive == Spec => []FramesSound
  <1>1. IInv => FramesSound
    BY NothingIsLost, DeliveredInTime DEF FramesSound, IInv
  <1> QED
    BY <1>1, Invariant, PTL
==============================================================================
