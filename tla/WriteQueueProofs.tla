--------------------------- MODULE WriteQueueProofs ---------------------------
(***************************************************************************)
(* Proofs about the write queue of a stream transport, for every number of *)
(* threads, of messages and of bytes in a message: closures run once and   *)
(* say what happened (WritesSound), and the queue implements ByteChannel.  *)
(* The invariant relates four places a message passes through: the strand, *)
(* the order in which it was packed, the queue and the wire.               *)
(***************************************************************************)
EXTENDS WriteQueue, Lemmas

\* How many messages were taken off the queue.
Done == Len(packed) - Len(queue)

IsImpl(i) == strand[i].do = "write_impl"
IsHandler(i) == strand[i].do = "write_handler"
Posted(m) == \E i \in DOMAIN strand : IsImpl(i) /\ strand[i].msg = m
Packed(m) == \E i \in DOMAIN packed : packed[i] = m

\* A thread's messages are packed in the order it wrote them, each once: the
\* ones in the strand come behind the packed ones and keep their order.
OrderInv ==
  /\ \A i, j \in DOMAIN packed : packed[i] = packed[j] => i = j
  /\ \A i, j \in DOMAIN strand :
       i < j /\ IsImpl(i) /\ IsImpl(j) /\ strand[i].msg[1] = strand[j].msg[1]
         => strand[i].msg[2] < strand[j].msg[2]
  /\ \A i \in DOMAIN packed : \A j \in DOMAIN strand :
       IsImpl(j) /\ packed[i][1] = strand[j].msg[1] => packed[i][2] < strand[j].msg[2]
  /\ \A m \in Message : m[2] <= written[m[1]] <=> Packed(m) \/ Posted(m)

\* The queue is the end of the packed messages; its front is in flight, and
\* at most one completion of that flight waits in the strand.
FlightInv ==
  /\ Done \in Nat
  /\ \A i \in DOMAIN queue : queue[i] = packed[Done + i]
  /\ flight.length = 0 => flight.total = 0
  /\ flight.length > 0 => queue # <<>> /\ flight.total + flight.length = Size
  /\ \A i \in DOMAIN strand : IsHandler(i) =>
       /\ flight.length > 0
       /\ strand[i].n <= flight.length
       /\ \A j \in DOMAIN strand : IsHandler(j) => i = j

\* What the messages packed put on the wire, byte by byte.
Byte(i) == <<packed[((i - 1) \div Size) + 1], ((i - 1) % Size) + 1>>

\* The wire holds the bytes of the packed messages without a gap: those taken
\* off the queue wholly, and of the one in flight as much as was written.
WireInv ==
  /\ \A i \in DOMAIN wire : wire[i] = Byte(i)
  /\ Done * Size <= Len(wire)
  /\ Len(wire) <= Len(packed) * Size
  /\ flight.length > 0 =>
       /\ \A i \in DOMAIN strand :
            IsHandler(i) => Len(wire) = Done * Size + flight.total + strand[i].n
       /\ (\A i \in DOMAIN strand : ~IsHandler(i)) => Len(wire) = Done * Size + flight.total
  /\ queue = <<>> => Len(wire) = Done * Size

\* Who was told: a message that waits for its sending only once it left the
\* queue, or with an error as the front of a queue that stands still.
ToldInv ==
  /\ \A i, j \in DOMAIN told : told[i][1] = told[j][1] => i = j
  /\ \A i \in DOMAIN told :
       /\ Packed(told[i][1])
       /\ told[i][1][1] \in OnSend =>
            \E k \in DOMAIN packed :
              /\ packed[k] = told[i][1]
              /\ \/ k <= Done
                 \/ k = Done + 1 /\ told[i][2] = "error" /\ flight.length = 0

IInv == TypeOK /\ OrderInv /\ FlightInv /\ WireInv /\ ToldInv

USE DEF IsImpl, IsHandler

------------------------------------------------------------------------------
\* A byte of a write of l bytes behind the first t of s is one of the s.
LEMMA InMessage ==
  ASSUME NEW t \in Nat, NEW l \in Nat, NEW s \in Nat, t + l = s,
         NEW n \in Nat, n <= l, NEW i \in 1..n
  PROVE  t + i \in 1..s
  OBVIOUS

LEMMA Distrib ==
  ASSUME NEW a \in Nat, NEW b \in Nat, NEW s \in Nat
  PROVE  (a + 1 + b) * s = a * s + s + b * s
  OBVIOUS

\* The message that byte i + 1 belongs to is one of the d messages.
LEMMA DivBound ==
  ASSUME NEW d \in Nat, NEW s \in Nat \ {0}, NEW i \in Nat, i < d * s
  PROVE  (i \div s) + 1 \in 1..d
  <1> DEFINE q == i \div s
             r == i % s
  <1>1. q \in Nat /\ r \in 0..(s - 1) /\ i = s * q + r
    OBVIOUS
  <1> HIDE DEF q, r
  <1>2. ASSUME q >= d PROVE FALSE
    <2>1. PICK e \in Nat : q = d + e
      BY <1>1, <1>2
    <2>2. s * (d + e) = d * s + s * e
      OBVIOUS
    <2>3. s * e \in Nat /\ d * s \in Nat
      OBVIOUS
    <2> QED
      BY <1>1, <2>1, <2>2, <2>3
  <1> QED
    BY <1>1, <1>2 DEF q

\* A handler of the strand is one of two kinds.
LEMMA TaskKinds ==
  ASSUME NEW k \in Task
  PROVE  \/ k.do = "write_impl" /\ k.msg \in Message
         \/ k.do = "write_handler" /\ k.n \in 0..Size
  BY DEF Task

LEMMA WriteInit == Init => IInv
  <1> SUFFICES ASSUME Init PROVE IInv
    OBVIOUS
  <1> USE WriteQueueAssumption
  <1>1. strand = <<>> /\ packed = <<>> /\ queue = <<>> /\ wire = <<>> /\ told = <<>>
    BY DEF Init
  <1>2. Len(packed) = 0 /\ Len(queue) = 0 /\ Len(wire) = 0
    BY <1>1
  <1>3. DOMAIN strand = {} /\ DOMAIN packed = {} /\ DOMAIN queue = {} /\
        DOMAIN wire = {} /\ DOMAIN told = {}
    BY <1>1
  <1>4. TypeOK
    <2>1. written \in [Threads -> 0..MaxWrites]
      BY DEF Init
    <2>2. flight \in [total : 0..Size, length : 0..Size]
      <3>1. 0 \in 0..Size
        OBVIOUS
      <3> QED
        BY <3>1 DEF Init, Idle
    <2>3. closed \in BOOLEAN /\ failed \in BOOLEAN
      BY DEF Init
    <2> QED
      BY <2>1, <2>2, <2>3, <1>1, EmptySeq DEF TypeOK
  <1>5. OrderInv
    BY <1>3 DEF Init, OrderInv, Packed, Posted, Message
  <1>6. FlightInv
    BY <1>2, <1>3 DEF Init, FlightInv, Done, Idle
  <1>7. WireInv
    BY <1>2, <1>3 DEF Init, WireInv, Done, Idle
  <1>8. ToldInv
    BY <1>3 DEF ToldInv
  <1> QED
    BY <1>4, <1>5, <1>6, <1>7, <1>8 DEF IInv

\* write posts the next message of a thread behind all others.
LEMMA WriteStep ==
  ASSUME IInv, NEW t \in Threads, write(t)
  PROVE  IInv'
  <1> USE WriteQueueAssumption
  <1> DEFINE m == <<t, written[t] + 1>>
             k == [do |-> "write_impl", msg |-> m]
  <1>1. m \in Message /\ m[1] = t /\ m[2] = written[t] + 1
    BY DEF IInv, TypeOK, write, Message
  <1>2. k \in Task
    BY <1>1 DEF Task
  <1>3. /\ strand' = Append(strand, k) /\ strand \in Seq(Task)
        /\ UNCHANGED <<packed, queue, flight, wire, closed, failed, told>>
    BY DEF write, IInv, TypeOK
  <1> HIDE DEF k
  <1>4. /\ strand' \in Seq(Task)
        /\ DOMAIN strand' = 1..(Len(strand) + 1)
        /\ \A i \in 1..Len(strand) : strand'[i] = strand[i]
        /\ strand'[Len(strand) + 1] = k
    BY <1>2, <1>3, AppendAt
  <1>5. DOMAIN strand = 1..Len(strand) /\ Len(strand) \in Nat
    BY <1>3, LenProperties
  <1>6. k.do = "write_impl" /\ k.msg = m
    BY DEF k
  <1> HIDE DEF m
  <1>7. TypeOK'
    <2>1. written' \in [Threads -> 0..MaxWrites]
      BY DEF IInv, TypeOK, write
    <2> QED
      BY <2>1, <1>3, <1>4 DEF IInv, TypeOK
  <1>8. OrderInv'
    <2> USE DEF IInv
    <2>1. \A i, j \in DOMAIN packed' : packed'[i] = packed'[j] => i = j
      BY <1>3 DEF OrderInv
    <2>w. written[t] \in Nat
      BY DEF TypeOK
    <2>p. \A i \in DOMAIN packed : packed[i] \in Message
      BY DEF TypeOK
    <2>s. \A i \in DOMAIN strand : IsImpl(i) => strand[i].msg \in Message
      BY <1>3, <1>5, TaskKinds
    <2>2. \A j \in DOMAIN strand : IsImpl(j) /\ strand[j].msg[1] = t => strand[j].msg[2] <= written[t]
      <3> SUFFICES ASSUME NEW j \in DOMAIN strand, IsImpl(j), strand[j].msg[1] = t
                   PROVE  strand[j].msg[2] <= written[t]
        OBVIOUS
      <3>1. Posted(strand[j].msg)
        BY DEF Posted
      <3> QED
        BY <3>1, <2>s DEF OrderInv
    <2>3. \A i \in DOMAIN packed : packed[i][1] = t => packed[i][2] <= written[t]
      <3> SUFFICES ASSUME NEW i \in DOMAIN packed, packed[i][1] = t
                   PROVE  packed[i][2] <= written[t]
        OBVIOUS
      <3>1. Packed(packed[i])
        BY DEF Packed
      <3> QED
        BY <3>1, <2>p DEF OrderInv
    <2>4. ASSUME NEW i \in DOMAIN strand', NEW j \in DOMAIN strand',
                 i < j, strand'[i].do = "write_impl", strand'[j].do = "write_impl",
                 strand'[i].msg[1] = strand'[j].msg[1]
          PROVE  strand'[i].msg[2] < strand'[j].msg[2]
      <3>1. i \in DOMAIN strand
        BY <1>4, <1>5, <2>4
      <3>2. CASE j \in DOMAIN strand
        BY <3>1, <3>2, <1>4, <1>5, <2>4 DEF OrderInv
      <3>3. CASE j = Len(strand) + 1
        <4>1. strand'[j].msg = m /\ strand[i] = strand'[i]
          BY <3>1, <3>3, <1>4, <1>5, <1>6
        <4>2. strand[i].msg[2] <= written[t] /\ strand[i].msg[2] \in Nat
          BY <4>1, <2>4, <3>1, <2>2, <2>s, <1>1 DEF Message
        <4> QED
          BY <4>1, <4>2, <1>1, <2>w
      <3> QED
        BY <3>2, <3>3, <1>4, <1>5
    <2>5. ASSUME NEW i \in DOMAIN packed', NEW j \in DOMAIN strand',
                 strand'[j].do = "write_impl", packed'[i][1] = strand'[j].msg[1]
          PROVE  packed'[i][2] < strand'[j].msg[2]
      <3>2. CASE j \in DOMAIN strand
        BY <3>2, <1>3, <1>4, <1>5, <2>5 DEF OrderInv
      <3>3. CASE j = Len(strand) + 1
        <4>1. packed[i][2] <= written[t] /\ packed[i][2] \in Nat
          BY <3>3, <2>5, <1>1, <1>3, <1>4, <1>6, <2>3, <2>p DEF Message
        <4> QED
          BY <4>1, <3>3, <1>1, <1>3, <1>4, <1>6, <2>w
      <3> QED
        BY <3>2, <3>3, <1>4, <1>5
    <2>6. ASSUME NEW x \in Message
          PROVE  x[2] <= written'[x[1]] <=> Packed(x)' \/ Posted(x)'
      <3>1. Packed(x)' <=> Packed(x)
        BY <1>3 DEF Packed
      <3>2. Posted(x)' <=> Posted(x) \/ x = m
        BY <1>4, <1>5, <1>6 DEF Posted
      <3>3. x[2] <= written[x[1]] <=> Packed(x) \/ Posted(x)
        BY DEF OrderInv
      <3>4. x[1] \in Threads /\ x[2] \in Nat /\ x = <<x[1], x[2]>>
        BY DEF Message
      <3>5. x[2] <= written'[x[1]] <=> x[2] <= written[x[1]] \/ x = m
        <4>1. CASE x[1] = t
          <5>1. written'[t] = written[t] + 1
            BY DEF write, TypeOK
          <5>2. x = m <=> x[2] = written[t] + 1
            BY <3>4, <4>1 DEF m
          <5> QED
            BY <5>1, <5>2, <4>1, <3>4, <2>w
        <4>2. CASE x[1] # t
          <5>1. written'[x[1]] = written[x[1]]
            BY <4>2, <3>4 DEF write, TypeOK
          <5> QED
            BY <5>1, <4>2, <1>1
        <4> QED
          BY <4>1, <4>2
      <3> QED
        BY <3>1, <3>2, <3>3, <3>5
    <2> QED
      BY <2>1, <2>4, <2>5, <2>6 DEF OrderInv
  <1>9. FlightInv'
    BY <1>3, <1>4, <1>5, <1>6 DEF IInv, FlightInv, Done
  <1>10. WireInv'
    <2>1. \A i \in DOMAIN wire' : wire'[i] = Byte(i)'
      BY <1>3 DEF IInv, WireInv, Byte
    <2>2. Done' = Done
      BY <1>3 DEF Done
    <2>3. \A i \in DOMAIN strand' :
            strand'[i].do = "write_handler" => i \in DOMAIN strand /\ strand'[i] = strand[i]
      BY <1>4, <1>5, <1>6
    <2>4. \A i \in DOMAIN strand : i \in DOMAIN strand' /\ strand'[i] = strand[i]
      BY <1>4, <1>5
    <2> QED
      BY <2>1, <2>2, <2>3, <2>4, <1>3 DEF IInv, WireInv
  <1>11. ToldInv'
    BY <1>3 DEF IInv, ToldInv, Packed, Done
  <1> QED
    BY <1>7, <1>8, <1>9, <1>10, <1>11 DEF IInv

\* write_impl packs the first posted message and puts it last in the queue.
LEMMA ImplStep ==
  ASSUME IInv, write_impl
  PROVE  IInv'
  <1> USE WriteQueueAssumption
  <1> DEFINE m == Head(strand).msg
  <1>0. /\ strand \in Seq(Task) /\ strand # <<>> /\ strand[1].do = "write_impl"
        /\ strand' = Tail(strand) /\ packed' = Append(packed, m) /\ queue' = Append(queue, m)
        /\ IF m[1] \notin OnSend THEN told' = Append(told, <<m, "ok">>) ELSE UNCHANGED told
        /\ IF queue = <<>> THEN async_write(0) ELSE UNCHANGED flight
        /\ UNCHANGED <<written, wire, closed, failed>>
    BY TailAt DEF write_impl, IInv, TypeOK, Tell
  <1>1. /\ DOMAIN strand = 1..Len(strand) /\ Len(strand) \in Nat \ {0}
        /\ DOMAIN strand' = 1..(Len(strand) - 1)
        /\ strand' \in Seq(Task)
        /\ \A i \in 1..(Len(strand) - 1) : strand'[i] = strand[i + 1]
        /\ Head(strand) = strand[1]
        /\ Head(strand) \in Task
    BY <1>0, TailAt
  <1>2. m \in Message
    BY <1>0, <1>1, TaskKinds
  <1>3. m = strand[1].msg
    BY <1>1
  <1>4. packed \in Seq(Message) /\ queue \in Seq(Message) /\ told \in Seq(Closures)
    BY DEF IInv, TypeOK
  <1> HIDE DEF m
  <1>5. /\ packed' \in Seq(Message)
        /\ Len(packed') = Len(packed) + 1
        /\ DOMAIN packed' = 1..(Len(packed) + 1)
        /\ \A i \in 1..Len(packed) : packed'[i] = packed[i]
        /\ packed'[Len(packed) + 1] = m
    BY <1>0, <1>2, <1>4, AppendAt
  <1>6. /\ queue' \in Seq(Message)
        /\ Len(queue') = Len(queue) + 1
        /\ DOMAIN queue' = 1..(Len(queue) + 1)
        /\ \A i \in 1..Len(queue) : queue'[i] = queue[i]
        /\ queue'[Len(queue) + 1] = m
    BY <1>0, <1>2, <1>4, AppendAt
  <1>7. /\ DOMAIN packed = 1..Len(packed) /\ Len(packed) \in Nat
        /\ DOMAIN queue = 1..Len(queue) /\ Len(queue) \in Nat
        /\ DOMAIN told = 1..Len(told) /\ Len(told) \in Nat
    BY <1>4, LenProperties
  <1>8. Posted(m) /\ ~Packed(m)
    <2>1. Posted(m)
      BY <1>0, <1>1, <1>3 DEF Posted
    <2>2. ASSUME Packed(m) PROVE FALSE
      <3>1. PICK i \in DOMAIN packed : packed[i] = m
        BY <2>2 DEF Packed
      <3>2. packed[i][2] < m[2]
        BY <3>1, <1>0, <1>1, <1>3, SMTT(30) DEF IInv, OrderInv
      <3> QED
        BY <3>1, <3>2, <1>2 DEF Message
    <2> QED
      BY <2>1, <2>2
  <1>9. Done' = Done /\ Done \in Nat /\ Done + Len(queue) = Len(packed)
    BY <1>5, <1>6, <1>7 DEF Done, IInv, FlightInv
  <1>10. \/ queue = <<>> /\ ~closed /\ flight' = [total |-> 0, length |-> Size]
         \/ queue = <<>> /\ closed /\ flight' = Idle
         \/ queue # <<>> /\ flight' = flight
    BY <1>0 DEF async_write
  <1>11. queue = <<>> => \A i \in DOMAIN strand : ~IsHandler(i)
    BY DEF IInv, FlightInv
  <1>12. \A i \in DOMAIN strand' : i + 1 \in DOMAIN strand /\ strand'[i] = strand[i + 1] /\ i + 1 # 1
    BY <1>1
  <1>13. \A i \in DOMAIN strand : IsHandler(i) => i - 1 \in DOMAIN strand' /\ strand'[i - 1] = strand[i]
    BY <1>0, <1>1
  <1>t. TypeOK'
    <2>1. flight' \in [total : 0..Size, length : 0..Size]
      BY <1>10 DEF IInv, TypeOK, Idle
    <2>2. told' \in Seq(Closures)
      <3>1. <<m, "ok">> \in Closures
        BY <1>2 DEF Closures
      <3>2. CASE told' = Append(told, <<m, "ok">>)
        BY <3>1, <3>2, <1>4, AppendAt
      <3>3. CASE told' = told
        BY <3>3, <1>4
      <3> QED
        BY <3>2, <3>3, <1>0
    <2> QED
      BY <2>1, <2>2, <1>0, <1>1, <1>5, <1>6 DEF IInv, TypeOK
  <1>o. OrderInv'
    <2> USE DEF IInv
    <2>1. ASSUME NEW i \in DOMAIN packed', NEW j \in DOMAIN packed', packed'[i] = packed'[j]
          PROVE  i = j
      BY <2>1, <1>5, <1>7, <1>8 DEF OrderInv, Packed
    <2>2. ASSUME NEW i \in DOMAIN strand', NEW j \in DOMAIN strand',
                 i < j, strand'[i].do = "write_impl", strand'[j].do = "write_impl",
                 strand'[i].msg[1] = strand'[j].msg[1]
          PROVE  strand'[i].msg[2] < strand'[j].msg[2]
      <3>1. i + 1 < j + 1
        BY <1>1, <2>2
      <3> QED
        BY <1>12, <2>2, <3>1 DEF OrderInv
    <2>3. ASSUME NEW i \in DOMAIN packed', NEW j \in DOMAIN strand',
                 strand'[j].do = "write_impl", packed'[i][1] = strand'[j].msg[1]
          PROVE  packed'[i][2] < strand'[j].msg[2]
      <3>1. CASE i \in DOMAIN packed
        BY <3>1, <2>3, <1>5, <1>7, <1>12 DEF OrderInv
      <3>2. CASE i = Len(packed) + 1
        <4>1. packed'[i] = strand[1].msg /\ 1 \in DOMAIN strand /\ 1 < j + 1
          BY <3>2, <1>1, <1>3, <1>5
        <4> QED
          BY <4>1, <2>3, <1>0, <1>12 DEF OrderInv
      <3> QED
        BY <3>1, <3>2, <1>5, <1>7
    <2>4. ASSUME NEW x \in Message
          PROVE  x[2] <= written'[x[1]] <=> Packed(x)' \/ Posted(x)'
      <3>1. Packed(x)' <=> Packed(x) \/ x = m
        BY <1>5, <1>7 DEF Packed
      <3>2. Posted(x)' => Posted(x)
        BY <1>12 DEF Posted
      <3>3. Posted(x) => Posted(x)' \/ x = m
        <4> SUFFICES ASSUME NEW i \in DOMAIN strand, IsImpl(i), strand[i].msg = x, x # m
                     PROVE  Posted(x)'
          BY DEF Posted
        <4>1. i # 1
          BY <1>3
        <4>2. i - 1 \in DOMAIN strand' /\ strand'[i - 1] = strand[i]
          BY <4>1, <1>1
        <4> QED
          BY <4>2 DEF Posted
      <3> QED
        BY <3>1, <3>2, <3>3, <1>8, <1>0 DEF OrderInv
    <2> QED
      BY <2>1, <2>2, <2>3, <2>4 DEF OrderInv
  <1>f. FlightInv'
    <2>1. \A i \in DOMAIN queue' : queue'[i] = packed'[Done' + i]
      <3> SUFFICES ASSUME NEW i \in DOMAIN queue' PROVE queue'[i] = packed'[Done' + i]
        OBVIOUS
      <3>1. CASE i \in DOMAIN queue
        <4>1. queue[i] = packed[Done + i]
          BY <3>1 DEF IInv, FlightInv
        <4>2. Done + i \in 1..Len(packed)
          BY <3>1, <1>7, <1>9
        <4> QED
          BY <3>1, <4>1, <4>2, <1>5, <1>6, <1>7, <1>9
      <3>2. CASE i = Len(queue) + 1
        BY <3>2, <1>5, <1>6, <1>7, <1>9
      <3> QED
        BY <3>1, <3>2, <1>6, <1>7
    <2>2. queue' # <<>>
      BY <1>6, <1>7
    <2>3. (flight'.length = 0 => flight'.total = 0) /\ (flight'.length > 0 => flight'.total + flight'.length = Size)
      BY <1>10 DEF IInv, FlightInv, Idle, TypeOK
    <2>4. ASSUME NEW i \in DOMAIN strand', strand'[i].do = "write_handler"
          PROVE  /\ flight'.length > 0 /\ strand'[i].n <= flight'.length
                 /\ \A j \in DOMAIN strand' : strand'[j].do = "write_handler" => i = j
      <3>1. IsHandler(i + 1) /\ i + 1 \in DOMAIN strand /\ strand'[i] = strand[i + 1]
        BY <2>4, <1>12
      <3>2. flight' = flight
        BY <3>1, <1>10, <1>11
      <3>3. flight.length > 0 /\ strand[i + 1].n <= flight.length
        BY <3>1 DEF IInv, FlightInv
      <3>4. ASSUME NEW j \in DOMAIN strand', strand'[j].do = "write_handler" PROVE i = j
        <4>1. i + 1 = j + 1
          BY <3>1, <3>4, <1>12 DEF IInv, FlightInv
        <4> QED
          BY <4>1, <1>1
      <3> QED
        BY <3>1, <3>2, <3>3, <3>4
    <2> QED
      BY <2>1, <2>2, <2>3, <2>4, <1>9 DEF FlightInv
  <1>w. WireInv'
    <2>0. wire \in Seq(Message \X (1..Size)) /\ DOMAIN wire = 1..Len(wire) /\ Len(wire) \in Nat /\ wire' = wire
      BY <1>0, LenProperties DEF IInv, TypeOK
    <2>l. Len(wire) <= Len(packed) * Size
      BY DEF IInv, WireInv
    <2>1. ASSUME NEW i \in DOMAIN wire' PROVE wire'[i] = Byte(i)'
      <3>1. wire[i] = Byte(i) /\ i - 1 \in Nat /\ i - 1 < Len(packed) * Size
        BY <2>0, <2>l, <1>7 DEF IInv, WireInv
      <3>2. ((i - 1) \div Size) + 1 \in 1..Len(packed)
        BY <3>1, <1>7, DivBound
      <3> QED
        BY <3>1, <3>2, <1>5, <2>0 DEF Byte
    <2>2. Len(wire') <= Len(packed') * Size
      <3>1. (Len(packed) + 1) * Size = Len(packed) * Size + Size
        BY <1>7
      <3>2. Len(packed) * Size \in Nat
        BY <1>7
      <3> QED
        BY <3>1, <3>2, <2>0, <2>l, <1>5
    <2>3. ASSUME flight'.length > 0
          PROVE  /\ \A i \in DOMAIN strand' :
                      strand'[i].do = "write_handler" =>
                        Len(wire') = Done' * Size + flight'.total + strand'[i].n
                 /\ (\A i \in DOMAIN strand' : strand'[i].do # "write_handler")
                      => Len(wire') = Done' * Size + flight'.total
      <3>1. CASE queue = <<>>
        <4>1. \A i \in DOMAIN strand' : strand'[i].do # "write_handler"
          BY <3>1, <1>11, <1>12
        <4>2. flight'.total = 0
          BY <3>1, <1>10, <2>3 DEF Idle
        <4>3. Len(wire) = Done * Size
          BY <3>1 DEF IInv, WireInv
        <4>4. Done * Size \in Nat
          BY <1>9
        <4> QED
          BY <4>1, <4>2, <4>3, <4>4, <2>0, <1>9
      <3>2. CASE queue # <<>>
        <4>1. flight' = flight
          BY <3>2, <1>10
        <4>2. ASSUME NEW i \in DOMAIN strand', strand'[i].do = "write_handler"
              PROVE  Len(wire') = Done' * Size + flight'.total + strand'[i].n
          BY <4>1, <4>2, <2>0, <2>3, <1>9, <1>12 DEF IInv, WireInv
        <4>3. ASSUME \A i \in DOMAIN strand' : strand'[i].do # "write_handler"
              PROVE  Len(wire') = Done' * Size + flight'.total
          <5>1. \A i \in DOMAIN strand : ~IsHandler(i)
            BY <4>3, <1>13
          <5> QED
            BY <5>1, <4>1, <2>0, <2>3, <1>9 DEF IInv, WireInv
        <4> QED
          BY <4>2, <4>3
      <3> QED
        BY <3>1, <3>2
    <2>4. queue' # <<>>
      BY <1>6, <1>7
    <2>5. Done' * Size <= Len(wire')
      BY <2>0, <1>9 DEF IInv, WireInv
    <2> QED
      BY <2>1, <2>2, <2>3, <2>4, <2>5 DEF WireInv
  <1>d. ToldInv'
    <2>0. \A x : Packed(x) => \E k \in DOMAIN packed' : packed'[k] = x
      BY <1>5, <1>7 DEF Packed
    <2>1. ASSUME NEW i \in DOMAIN told
          PROVE  /\ \E k \in DOMAIN packed' : packed'[k] = told[i][1]
                 /\ told[i][1][1] \in OnSend =>
                      \E k \in DOMAIN packed' :
                        /\ packed'[k] = told[i][1]
                        /\ \/ k <= Done'
                           \/ k = Done' + 1 /\ told[i][2] = "error" /\ flight'.length = 0
      <3>1. \E k \in DOMAIN packed' : packed'[k] = told[i][1]
        <4>1. Packed(told[i][1])
          BY DEF IInv, ToldInv
        <4> QED
          BY <4>1, <2>0
      <3>2. ASSUME told[i][1][1] \in OnSend
            PROVE \E k \in DOMAIN packed' :
                        /\ packed'[k] = told[i][1]
                        /\ \/ k <= Done'
                           \/ k = Done' + 1 /\ told[i][2] = "error" /\ flight'.length = 0
        <4>1. PICK k \in DOMAIN packed :
                /\ packed[k] = told[i][1]
                /\ \/ k <= Done
                   \/ k = Done + 1 /\ told[i][2] = "error" /\ flight.length = 0
          BY <3>2 DEF IInv, ToldInv
        <4>2. k \in DOMAIN packed' /\ packed'[k] = packed[k]
          BY <1>5, <1>7
        <4>3. k = Done + 1 => queue # <<>>
          BY <1>7, <1>9
        <4> QED
          BY <4>1, <4>2, <4>3, <1>9, <1>10
      <3> QED
        BY <3>1, <3>2
    <2>2. CASE m[1] \in OnSend
      <3>1. told' = told
        BY <2>2, <1>0
      <3>2. \A i, j \in DOMAIN told' : told'[i][1] = told'[j][1] => i = j
        BY <3>1 DEF IInv, ToldInv
      <3> QED
        BY <2>1, <3>1, <3>2 DEF ToldInv, Packed
    <2>3. CASE m[1] \notin OnSend
      <3>1. <<m, "ok">> \in Closures /\ told' = Append(told, <<m, "ok">>)
        BY <2>3, <1>0, <1>2 DEF Closures
      <3>2. /\ DOMAIN told' = 1..(Len(told) + 1)
            /\ \A i \in 1..Len(told) : told'[i] = told[i]
            /\ told'[Len(told) + 1] = <<m, "ok">>
        BY <3>1, <1>4, AppendAt
      <3>3. \E k \in DOMAIN packed' : packed'[k] = m
        BY <1>5, <1>7 DEF Packed
      <3>4. \A i \in DOMAIN told : told[i][1] # m
        BY <1>8 DEF IInv, ToldInv
      <3>5. ASSUME NEW i \in DOMAIN told', NEW j \in DOMAIN told', told'[i][1] = told'[j][1]
            PROVE  i = j
        <4>1. CASE i \in DOMAIN told /\ j \in DOMAIN told
          BY <4>1, <3>2, <3>5, <1>7 DEF IInv, ToldInv
        <4>2. CASE i \notin DOMAIN told \/ j \notin DOMAIN told
          BY <4>2, <3>2, <3>4, <3>5, <1>7
        <4> QED
          BY <4>1, <4>2
      <3>6. ASSUME NEW i \in DOMAIN told'
            PROVE  /\ \E k \in DOMAIN packed' : packed'[k] = told'[i][1]
                   /\ told'[i][1][1] \in OnSend =>
                        \E k \in DOMAIN packed' :
                          /\ packed'[k] = told'[i][1]
                          /\ \/ k <= Done'
                             \/ k = Done' + 1 /\ told'[i][2] = "error" /\ flight'.length = 0
        <4>1. CASE i \in DOMAIN told
          BY <4>1, <2>1, <3>2, <1>7
        <4>2. CASE i = Len(told) + 1
          BY <4>2, <3>2, <3>3, <2>3
        <4> QED
          BY <4>1, <4>2, <3>2, <1>7
      <3> QED
        BY <3>5, <3>6 DEF ToldInv, Packed
    <2> QED
      BY <2>2, <2>3
  <1> QED
    BY <1>t, <1>o, <1>f, <1>w, <1>d DEF IInv

\* A write in flight completes: n of its bytes reach the wire (none with an
\* error) and its handler is posted.
Completion(n) ==
  /\ flight.length > 0 /\ n <= flight.length
  /\ \A i \in DOMAIN strand : ~IsHandler(i)
  /\ wire' = wire \o [i \in 1..n |-> <<Head(queue), flight.total + i>>]
  /\ strand' = Append(strand, [do |-> "write_handler", n |-> n])
  /\ UNCHANGED <<written, packed, queue, flight, closed, failed, told>>

LEMMA CompletionStep ==
  ASSUME IInv, NEW n \in 0..Size, Completion(n)
  PROVE  IInv'
  <1>0. /\ flight.length > 0 /\ n <= flight.length /\ n \in Nat
        /\ \A i \in DOMAIN strand : ~IsHandler(i)
        /\ UNCHANGED <<written, packed, queue, flight, closed, failed, told>>
    BY WriteQueueAssumption DEF Completion
  <1> USE WriteQueueAssumption
  <1> DEFINE new == [i \in 1..n |-> <<Head(queue), flight.total + i>>]
             k == [do |-> "write_handler", n |-> n]
  <1>1. /\ queue \in Seq(Message) /\ packed \in Seq(Message) /\ strand \in Seq(Task)
        /\ wire \in Seq(Message \X (1..Size))
        /\ flight.total \in 0..Size /\ flight.length \in 0..Size
    BY DEF IInv, TypeOK
  <1>2. queue # <<>> /\ flight.total + flight.length = Size
    BY <1>0 DEF IInv, FlightInv
  <1>3. k \in Task
    BY DEF Task
  <1>4. k.do = "write_handler" /\ k.n = n
    OBVIOUS
  <1> HIDE DEF k
  <1>5. /\ strand' \in Seq(Task)
        /\ DOMAIN strand' = 1..(Len(strand) + 1)
        /\ \A i \in 1..Len(strand) : strand'[i] = strand[i]
        /\ strand'[Len(strand) + 1] = k
    BY <1>1, <1>3, AppendAt DEF k, Completion
  <1>6. DOMAIN strand = 1..Len(strand) /\ Len(strand) \in Nat
    BY <1>1, LenProperties
  <1>7. Head(queue) = queue[1] /\ Head(queue) \in Message /\ 1 \in DOMAIN queue
    BY <1>1, <1>2, TailAt
  <1>8. new \in Seq(Message \X (1..Size)) /\ Len(new) = n
    <2>1. \A i \in 1..n : flight.total + i \in 1..Size
      BY <1>0, <1>1, <1>2, InMessage
    <2>2. \A i \in 1..n : new[i] \in Message \X (1..Size)
      BY <2>1, <1>7
    <2> HIDE DEF new
    <2>3. DOMAIN new = 1..n
      BY DEF new
    <2>4. new \in [1..n -> Message \X (1..Size)]
      BY <2>2, <2>3 DEF new
    <2> QED
      BY <2>4, <1>0, LenProperties, SeqDef
  <1>9. \A i \in 1..n : new[i] = <<queue[1], flight.total + i>>
    BY <1>7
  <1> HIDE DEF new
  <1>10. /\ wire' \in Seq(Message \X (1..Size))
         /\ Len(wire') = Len(wire) + n
         /\ DOMAIN wire' = 1..(Len(wire) + n)
         /\ \A i \in 1..Len(wire) : wire'[i] = wire[i]
         /\ \A i \in 1..n : wire'[Len(wire) + i] = new[i]
    <2>1. wire' = wire \o new
      BY DEF new, Completion
    <2>2. /\ wire \o new \in Seq(Message \X (1..Size))
          /\ Len(wire \o new) = Len(wire) + Len(new)
          /\ DOMAIN (wire \o new) = 1..(Len(wire) + Len(new))
          /\ \A i \in 1..Len(wire) : (wire \o new)[i] = wire[i]
          /\ \A i \in 1..Len(new) : (wire \o new)[Len(wire) + i] = new[i]
      <3>1. wire \in Seq(Message \X (1..Size)) /\ new \in Seq(Message \X (1..Size))
        BY <1>1, <1>8
      <3> QED
        BY <3>1, ConcatAt
    <2>3. Len(new) = n
      BY <1>8
    <2> QED
      BY <2>1, <2>2, <2>3
  <1>11. DOMAIN wire = 1..Len(wire) /\ Len(wire) \in Nat
    BY <1>1, LenProperties
  <1>12. \A i \in DOMAIN strand' : strand'[i].do = "write_impl" => i \in DOMAIN strand /\ strand'[i] = strand[i]
    BY <1>4, <1>5, <1>6
  <1>13. \A i \in DOMAIN strand : i \in DOMAIN strand' /\ strand'[i] = strand[i]
    BY <1>5, <1>6
  <1>14. \A i \in DOMAIN strand' : strand'[i].do = "write_handler" => i = Len(strand) + 1
    BY <1>0, <1>5, <1>6
  <1>15. Done' = Done /\ Done \in Nat /\ Len(packed) \in Nat /\ Len(queue) \in Nat \ {0}
    BY <1>0, <1>1, <1>2, LenProperties DEF Done, IInv, FlightInv
  <1>16. Len(wire) = Done * Size + flight.total
    BY <1>0 DEF IInv, WireInv
  <1>t. TypeOK'
    BY <1>0, <1>5, <1>10 DEF IInv, TypeOK
  <1>o. OrderInv'
    <2>1. \A x : Posted(x) => \E i \in DOMAIN strand' : strand'[i].do = "write_impl" /\ strand'[i].msg = x
      BY <1>13 DEF Posted
    <2>2. \A x \in Message : Posted(x)' <=> Posted(x)
      BY <2>1, <1>12 DEF Posted
    <2>3. \A x \in Message : Packed(x)' <=> Packed(x)
      BY <1>0 DEF Packed
    <2>4. \A x \in Message : x[2] <= written'[x[1]] <=> Packed(x)' \/ Posted(x)'
      BY <1>0, <2>2, <2>3 DEF IInv, OrderInv
    <2>5. \A i, j \in DOMAIN packed' : packed'[i] = packed'[j] => i = j
      BY <1>0 DEF IInv, OrderInv
    <2>6. \A i, j \in DOMAIN strand' :
            i < j /\ strand'[i].do = "write_impl" /\ strand'[j].do = "write_impl"
              /\ strand'[i].msg[1] = strand'[j].msg[1] => strand'[i].msg[2] < strand'[j].msg[2]
      BY <1>12 DEF IInv, OrderInv
    <2>7. \A i \in DOMAIN packed' : \A j \in DOMAIN strand' :
            strand'[j].do = "write_impl" /\ packed'[i][1] = strand'[j].msg[1]
              => packed'[i][2] < strand'[j].msg[2]
      BY <1>0, <1>12 DEF IInv, OrderInv
    <2> QED
      BY <2>4, <2>5, <2>6, <2>7 DEF OrderInv
  <1>f. FlightInv'
    <2>1. \A i \in DOMAIN strand' : strand'[i].do = "write_handler" =>
             /\ flight'.length > 0 /\ strand'[i].n <= flight'.length
             /\ \A j \in DOMAIN strand' : strand'[j].do = "write_handler" => i = j
      BY <1>0, <1>4, <1>5, <1>14
    <2> QED
      BY <1>0, <2>1, <1>15 DEF IInv, FlightInv
  <1>w. WireInv'
    <2>1. ASSUME NEW i \in DOMAIN wire' PROVE wire'[i] = Byte(i)'
      <3>1. CASE i \in DOMAIN wire
        BY <1>0, <3>1, <1>10, <1>11 DEF IInv, WireInv, Byte
      <3>2. CASE i \notin DOMAIN wire
        <4>1. PICK j \in 1..n : i = Len(wire) + j
          <5>1. i - Len(wire) \in 1..n /\ i = Len(wire) + (i - Len(wire))
            BY <3>2, <1>10, <1>11
          <5> QED
            BY <5>1
        <4>2. i - 1 = Done * Size + (flight.total + j - 1) /\ flight.total + j - 1 \in 0..(Size - 1)
          <5>1. Done * Size \in Nat
            BY <1>15, ProdNat
          <5>2. flight.total + j \in 1..Size
            BY <1>0, <1>1, <1>2, InMessage, SMTT(30)
          <5> DEFINE p == Done * Size
          <5>3. p \in Nat /\ Len(wire) = p + flight.total
            BY <5>1, <1>16
          <5> HIDE DEF p
          <5>4. i - 1 = p + (flight.total + j - 1)
            BY <5>3, <4>1, <1>0, <1>1, SMTT(30)
          <5>5. flight.total + j - 1 \in 0..(Size - 1)
            BY <5>2, <4>1, <1>0, <1>1, SMTT(30)
          <5> QED
            BY <5>4, <5>5 DEF p
        <4>3. (i - 1) \div Size = Done /\ (i - 1) % Size = flight.total + j - 1
          <5> DEFINE r == flight.total + j - 1
          <5>1. r \in 0..(Size - 1) /\ i - 1 = Done * Size + r
            BY <4>2
          <5> HIDE DEF r
          <5>2. (Done * Size + r) \div Size = Done /\ (Done * Size + r) % Size = r
            BY <5>1, <1>15, DivMod
          <5> QED
            BY <5>1, <5>2 DEF r
        <4>4. wire'[i] = <<packed[Done + 1], flight.total + j>>
          <5>1. queue[1] = packed[Done + 1]
            BY <1>7 DEF IInv, FlightInv
          <5> QED
            BY <5>1, <4>1, <1>9, <1>10
        <4> QED
          <5>1. packed' = packed
            BY <1>0
          <5>2. ((i - 1) % Size) + 1 = flight.total + j
            <6> DEFINE m == (i - 1) % Size
            <6>1. m = flight.total + j - 1
              BY <4>3
            <6> HIDE DEF m
            <6>2. m + 1 = flight.total + j
              BY <6>1, <1>0, <1>1
            <6> QED
              BY <6>2 DEF m
          <5> QED
            BY <4>3, <4>4, <5>1, <5>2, Zenon DEF Byte
      <3> QED
        BY <3>1, <3>2
    <2>2. Len(wire') <= Len(packed') * Size
      <3>1. Len(packed) = Done + 1 + (Len(queue) - 1) /\ Len(queue) - 1 \in Nat
        BY <1>15 DEF Done
      <3>2. Len(packed) * Size = Done * Size + Size + (Len(queue) - 1) * Size
        BY <3>1, <1>15, Distrib
      <3>3. (Len(queue) - 1) * Size \in Nat /\ Done * Size \in Nat
        BY <3>1, <1>15, ProdNat
      <3> QED
        <4>1. Len(wire') = Done * Size + flight.total + n /\ flight.total + n <= Size
          BY <3>3, <1>0, <1>1, <1>2, <1>10, <1>16, SMTT(30)
        <4>2. Len(packed') = Len(packed)
          BY <1>0
        <4> QED
          BY <4>1, <4>2, <3>2, <3>3, <1>0, <1>1, SMTT(30)
    <2>3. Done' * Size <= Len(wire')
      <3>1. Done * Size \in Nat
        BY <1>15, ProdNat
      <3> QED
        BY <3>1, <1>0, <1>10, <1>15, <1>16, <1>1, SMTT(30)
    <2>4. \A i \in DOMAIN strand' :
            strand'[i].do = "write_handler" => Len(wire') = Done' * Size + flight'.total + strand'[i].n
      <3>1. Done * Size \in Nat
        BY <1>15, ProdNat
      <3>2. Len(wire') = Done' * Size + flight'.total + n
        BY <3>1, <1>0, <1>10, <1>15, <1>16, <1>1
      <3> QED
        BY <3>2, <1>4, <1>5, <1>14
    <2>5. Len(strand) + 1 \in DOMAIN strand' /\ strand'[Len(strand) + 1].do = "write_handler"
      BY <1>4, <1>5, <1>6
    <2> QED
      BY <2>1, <2>2, <2>3, <2>4, <2>5, <1>0, <1>2 DEF WireInv
  <1>d. ToldInv'
    BY <1>0 DEF IInv, ToldInv, Packed, Done
  <1> QED
    BY <1>t, <1>o, <1>f, <1>w, <1>d DEF IInv

LEMMA TakesStep ==
  ASSUME IInv, NEW n \in 1..Size, StreamTakes(n)
  PROVE  IInv'
  <1>1. n \in 0..Size /\ n <= flight.length
    BY WriteQueueAssumption DEF StreamTakes, IInv, TypeOK
  <1> QED
    BY <1>1, CompletionStep DEF StreamTakes, Completion

LEMMA FailsStep ==
  ASSUME IInv, StreamFails
  PROVE  IInv'
  <1> DEFINE none == [i \in 1..0 |-> <<Head(queue), flight.total + i>>]
  <1>1. 0 \in 0..Size /\ 0 <= flight.length
    BY WriteQueueAssumption DEF StreamFails, IInv, TypeOK
  <1>2. none = << >>
    OBVIOUS
  <1>3. wire' = wire \o none
    BY <1>2, ConcatEmptySeq DEF StreamFails, IInv, TypeOK
  <1> QED
    BY <1>1, <1>3, CompletionStep DEF StreamFails, Completion

LEMMA CloseStep ==
  ASSUME IInv, close
  PROVE  IInv'
  <1>1. TypeOK'
    BY DEF IInv, TypeOK, close
  <1>2. OrderInv'
    BY DEF IInv, close, OrderInv, Packed, Posted
  <1>3. FlightInv'
    BY DEF IInv, close, FlightInv, Done
  <1>4. WireInv'
    BY DEF IInv, close, WireInv, Done, Byte
  <1>5. ToldInv'
    BY DEF IInv, close, ToldInv, Done, Packed
  <1> QED
    BY <1>1, <1>2, <1>3, <1>4, <1>5 DEF IInv

\* The closure of the front message is told, if it waits for that.
ToldFront(m, how) ==
  IF m[1] \in OnSend THEN told' = Append(told, <<m, how>>) ELSE UNCHANGED told

\* write_handler, split by what was written.
HandlerPart(n) ==
  /\ n > 0 /\ n < flight.length
  /\ async_write(flight.total + n)
  /\ UNCHANGED <<queue, closed, failed, told>>

HandlerWhole(n, m) ==
  /\ n > 0 /\ n = flight.length
  /\ ToldFront(m, "ok")
  /\ NextMessage
  /\ UNCHANGED <<closed, failed>>

HandlerError(n, m) ==
  /\ n = 0
  /\ ToldFront(m, "error")
  /\ failed' = TRUE /\ closed' = TRUE
  /\ flight' = Idle
  /\ UNCHANGED queue

LEMMA HandlerStep ==
  ASSUME IInv, write_handler
  PROVE  IInv'
  <1> USE WriteQueueAssumption
  <1> DEFINE n == Head(strand).n
             m == Head(queue)
  <1>0. /\ strand \in Seq(Task) /\ strand # <<>> /\ Head(strand).do = "write_handler"
        /\ strand' = Tail(strand) /\ UNCHANGED <<written, packed, wire>>
        /\ HandlerPart(n) \/ HandlerWhole(n, m) \/ HandlerError(n, m)
    BY DEF write_handler, IInv, TypeOK, Tell, HandlerPart, HandlerWhole, HandlerError, ToldFront
  <1>1. /\ DOMAIN strand = 1..Len(strand) /\ Len(strand) \in Nat \ {0}
        /\ DOMAIN strand' = 1..(Len(strand) - 1)
        /\ strand' \in Seq(Task)
        /\ \A i \in 1..(Len(strand) - 1) : strand'[i] = strand[i + 1]
        /\ Head(strand) = strand[1]
        /\ Head(strand) \in Task
    BY <1>0, TailAt
  <1>2. n \in 0..Size /\ n = strand[1].n /\ 1 \in DOMAIN strand /\ IsHandler(1)
    BY <1>0, <1>1, TaskKinds
  <1>3. flight.length > 0 /\ n <= flight.length /\ \A j \in DOMAIN strand : IsHandler(j) => j = 1
    BY <1>2 DEF IInv, FlightInv
  <1>4. queue # <<>> /\ flight.total + flight.length = Size
        /\ flight.total \in 0..Size /\ flight.length \in 0..Size
    BY <1>3 DEF IInv, FlightInv, TypeOK
  <1>5. Len(wire) = Done * Size + flight.total + n
    BY <1>2, <1>3 DEF IInv, WireInv
  <1> HIDE DEF n, m
  <1>6. /\ queue \in Seq(Message) /\ packed \in Seq(Message) /\ told \in Seq(Closures)
    BY DEF IInv, TypeOK
  <1>7. /\ m = queue[1] /\ m \in Message /\ 1 \in DOMAIN queue
        /\ Len(queue) \in Nat \ {0} /\ DOMAIN queue = 1..Len(queue)
        /\ Tail(queue) \in Seq(Message)
        /\ Len(Tail(queue)) = Len(queue) - 1
        /\ DOMAIN Tail(queue) = 1..(Len(queue) - 1)
        /\ \A i \in 1..(Len(queue) - 1) : Tail(queue)[i] = queue[i + 1]
    BY <1>4, <1>6, TailAt DEF m
  <1>8. Done \in Nat /\ Done + Len(queue) = Len(packed) /\ Len(packed) \in Nat
        /\ DOMAIN packed = 1..Len(packed)
    BY <1>6, <1>7, LenProperties DEF Done, IInv, FlightInv
  <1>9. m = packed[Done + 1] /\ Done + 1 \in DOMAIN packed
    BY <1>7, <1>8 DEF IInv, FlightInv
  <1>10. \A i \in DOMAIN strand' :
            /\ i + 1 \in DOMAIN strand /\ strand'[i] = strand[i + 1]
            /\ strand'[i].do # "write_handler"
    <2>1. \A i \in DOMAIN strand' : i + 1 \in DOMAIN strand /\ strand'[i] = strand[i + 1] /\ i + 1 # 1
      BY <1>1
    <2> QED
      BY <2>1, <1>3
  <1>11. Done * Size \in Nat
    BY <1>8, ProdNat
  <1> DEFINE Finished(c) ==
               \E k \in DOMAIN packed :
                 /\ packed[k] = c[1]
                 /\ \/ k <= Done
                    \/ k = Done + 1 /\ c[2] = "error" /\ flight.length = 0
  <1>k. \A i \in DOMAIN told : told[i][1][1] \in OnSend => Finished(told[i])
    BY Zenon DEF IInv, ToldInv
  <1> HIDE DEF Finished
  <1>12. ASSUME NEW how \in {"ok", "error"}, ToldFront(m, how)
         PROVE  /\ told' \in Seq(Closures)
                /\ \A i, j \in DOMAIN told' : told'[i][1] = told'[j][1] => i = j
                /\ \A i \in DOMAIN told' :
                     (i \in DOMAIN told /\ told'[i] = told[i]) \/ told'[i] = <<m, how>>
    <2>1. CASE m[1] \notin OnSend
      BY <2>1, <1>6, <1>12 DEF ToldFront, IInv, ToldInv
    <2>2. CASE m[1] \in OnSend
      <3>1. <<m, how>> \in Closures /\ told' = Append(told, <<m, how>>)
        BY <2>2, <1>7, <1>12 DEF Closures, ToldFront
      <3>2. /\ told' \in Seq(Closures)
            /\ DOMAIN told' = 1..(Len(told) + 1)
            /\ \A i \in 1..Len(told) : told'[i] = told[i]
            /\ told'[Len(told) + 1] = <<m, how>>
        BY <3>1, <1>6, AppendAt
      <3>3. DOMAIN told = 1..Len(told) /\ Len(told) \in Nat
        BY <1>6, LenProperties
      <3>4. \A i \in DOMAIN told : told[i][1] # m
        <4> SUFFICES ASSUME NEW i \in DOMAIN told, told[i][1] = m PROVE FALSE
          OBVIOUS
        <4>1. PICK k \in DOMAIN packed :
                packed[k] = m /\ (k <= Done \/ (k = Done + 1 /\ flight.length = 0))
          <5>1. Finished(told[i])
            BY <2>2, <1>k
          <5> QED
            BY <5>1 DEF Finished
        <4>2. k = Done + 1
          BY <4>1, <1>9 DEF IInv, OrderInv
        <4> QED
          BY <4>1, <4>2, <1>3, <1>8
      <3>5. ASSUME NEW i \in DOMAIN told', NEW j \in DOMAIN told', told'[i][1] = told'[j][1]
            PROVE  i = j
        <4>1. CASE i \in DOMAIN told /\ j \in DOMAIN told
          BY <4>1, <3>2, <3>3, <3>5 DEF IInv, ToldInv
        <4>2. CASE i \notin DOMAIN told \/ j \notin DOMAIN told
          BY <4>2, <3>2, <3>3, <3>4, <3>5
        <4> QED
          BY <4>1, <4>2
      <3> QED
        BY <3>2, <3>3, <3>5
    <2> QED
      BY <2>1, <2>2
  <1>o. OrderInv'
    <2>1. \A x \in Message : Packed(x)' <=> Packed(x)
      BY <1>0 DEF Packed
    <2>2. \A x \in Message : Posted(x)' <=> Posted(x)
      <3> SUFFICES ASSUME NEW x \in Message PROVE Posted(x)' <=> Posted(x)
        OBVIOUS
      <3>1. Posted(x)' => Posted(x)
        BY <1>10 DEF Posted
      <3>2. ASSUME NEW i \in DOMAIN strand, IsImpl(i), strand[i].msg = x
            PROVE  Posted(x)'
        <4>1. i - 1 \in DOMAIN strand' /\ strand'[i - 1] = strand[i]
          BY <3>2, <1>1, <1>2
        <4> QED
          BY <3>2, <4>1 DEF Posted
      <3> QED
        BY <3>1, <3>2 DEF Posted
    <2>3. ASSUME NEW i \in DOMAIN strand', NEW j \in DOMAIN strand',
                 i < j, strand'[i].do = "write_impl", strand'[j].do = "write_impl",
                 strand'[i].msg[1] = strand'[j].msg[1]
          PROVE  strand'[i].msg[2] < strand'[j].msg[2]
      <3>1. i + 1 < j + 1
        BY <1>1, <2>3
      <3> QED
        BY <1>10, <2>3, <3>1 DEF IInv, OrderInv
    <2>4. \A i \in DOMAIN packed' : \A j \in DOMAIN strand' :
            strand'[j].do = "write_impl" /\ packed'[i][1] = strand'[j].msg[1]
              => packed'[i][2] < strand'[j].msg[2]
      BY <1>0, <1>10 DEF IInv, OrderInv
    <2>5. \A x \in Message : x[2] <= written'[x[1]] <=> Packed(x)' \/ Posted(x)'
      BY <1>0, <2>1, <2>2 DEF IInv, OrderInv
    <2>6. \A i, j \in DOMAIN packed' : packed'[i] = packed'[j] => i = j
      BY <1>0 DEF IInv, OrderInv
    <2> QED
      BY <2>3, <2>4, <2>5, <2>6 DEF OrderInv
  <1>b. \A i \in DOMAIN wire' : wire'[i] = Byte(i)'
    BY <1>0 DEF IInv, WireInv, Byte
  <1>l. Len(wire') <= Len(packed') * Size /\ Done * Size <= Len(wire')
    BY <1>0 DEF IInv, WireInv
  <1>A. CASE HandlerPart(n)
    <2>0. UNCHANGED <<queue, closed, failed, told>> /\ n < flight.length /\ async_write(flight.total + n)
      BY <1>A DEF HandlerPart
    <2>1. flight' = Idle \/ flight' = [total |-> flight.total + n, length |-> Size - (flight.total + n)]
      BY <2>0 DEF async_write
    <2>2. /\ flight'.length \in 0..Size /\ flight'.total \in 0..Size
          /\ flight' \in [total : 0..Size, length : 0..Size]
          /\ flight'.length = 0 => flight'.total = 0
          /\ flight'.length > 0 => flight'.total + flight'.length = Size
          /\ flight'.length > 0 => flight'.total = flight.total + n
      <3>1. CASE flight' = Idle
        <4>1. 0 \in 0..Size
          OBVIOUS
        <4> QED
          BY <3>1, <4>1 DEF Idle
      <3>2. CASE flight' = [total |-> flight.total + n, length |-> Size - (flight.total + n)]
        <4>1. flight.total + n \in 0..Size /\ Size - (flight.total + n) \in 1..Size
          BY <2>0, <1>2, <1>4, SMTT(30)
        <4>2. flight'.total = flight.total + n /\ flight'.length = Size - (flight.total + n)
          BY <3>2
        <4>3. flight'.total + flight'.length = Size /\ flight'.length # 0
          BY <4>1, <4>2
        <4> QED
          BY <3>2, <4>1, <4>2, <4>3
      <3> QED
        BY <2>1, <3>1, <3>2
    <2>3. Done' = Done
      BY <2>0, <1>0 DEF Done
    <2>4. TypeOK'
      BY <1>0, <1>1, <2>0, <2>2 DEF IInv, TypeOK
    <2>5. FlightInv'
      <3>1. \A i \in DOMAIN queue' : queue'[i] = packed'[Done' + i]
        BY <2>0, <2>3, <1>0 DEF IInv, FlightInv
      <3> QED
        BY <3>1, <2>0, <2>2, <2>3, <1>4, <1>8, <1>10 DEF FlightInv
    <2>6. WireInv'
      <3>1. flight'.length > 0 => Len(wire') = Done' * Size + flight'.total
        BY <2>2, <2>3, <1>0, <1>5, <1>11, <1>2, <1>4, SMTT(30)
      <3>2. queue' # <<>>
        BY <2>0, <1>4
      <3> QED
        BY <3>1, <3>2, <2>3, <1>10, <1>b, <1>l DEF WireInv
    <2>7. ToldInv'
      <3>1. ASSUME NEW i \in DOMAIN told', told'[i][1][1] \in OnSend
            PROVE  \E k \in DOMAIN packed' : packed'[k] = told'[i][1] /\ k <= Done'
        <4>1. PICK k \in DOMAIN packed : packed[k] = told[i][1] /\
                (k <= Done \/ (k = Done + 1 /\ told[i][2] = "error" /\ flight.length = 0))
          <5>1. Finished(told[i])
            BY <3>1, <2>0, <1>k
          <5> QED
            BY <5>1 DEF Finished
        <4> QED
          BY <4>1, <1>0, <1>3, <2>0, <2>3
      <3>2. \A i \in DOMAIN told' : \E k \in DOMAIN packed' : packed'[k] = told'[i][1]
        BY <1>0, <2>0 DEF IInv, ToldInv, Packed
      <3>3. \A i, j \in DOMAIN told' : told'[i][1] = told'[j][1] => i = j
        BY <2>0 DEF IInv, ToldInv
      <3> QED
        BY <3>1, <3>2, <3>3 DEF ToldInv, Packed
    <2> QED
      BY <2>4, <2>5, <2>6, <2>7, <1>o DEF IInv
  <1>B. CASE HandlerWhole(n, m)
    <2>0. /\ n = flight.length /\ ToldFront(m, "ok") /\ NextMessage /\ UNCHANGED <<closed, failed>>
      BY <1>B DEF HandlerWhole
    <2>1. /\ queue' = Tail(queue)
          /\ \/ flight' = Idle
             \/ Len(queue) > 1 /\ flight' = [total |-> 0, length |-> Size - 0]
      BY <2>0 DEF NextMessage, async_write
    <2>2. /\ flight'.length \in 0..Size
          /\ flight' \in [total : 0..Size, length : 0..Size]
          /\ flight'.total = 0
          /\ flight'.length > 0 => flight'.total + flight'.length = Size /\ Len(queue) > 1
      <3>1. 0 \in 0..Size /\ Size - 0 \in 0..Size /\ Size - 0 = Size
        OBVIOUS
      <3> QED
        BY <3>1, <2>1 DEF Idle
    <2>3. Done' = Done + 1
      BY <2>1, <1>0, <1>7, <1>8 DEF Done
    <2>4. TypeOK'
      <3>1. told' \in Seq(Closures)
        BY <2>0, <1>12
      <3> QED
        BY <3>1, <1>0, <1>1, <1>7, <2>0, <2>1, <2>2 DEF IInv, TypeOK
    <2>5. FlightInv'
      <3>1. \A i \in DOMAIN queue' : queue'[i] = packed'[Done' + i]
        <4> SUFFICES ASSUME NEW i \in DOMAIN queue' PROVE queue'[i] = packed'[Done' + i]
          OBVIOUS
        <4>1. i \in 1..(Len(queue) - 1) /\ i + 1 \in DOMAIN queue
          BY <2>1, <1>7
        <4>2. queue'[i] = packed[Done + (i + 1)]
          BY <4>1, <2>1, <1>7 DEF IInv, FlightInv
        <4> QED
          BY <4>1, <4>2, <2>3, <1>0, <1>8, SMTT(30)
      <3>2. flight'.length > 0 => queue' # <<>>
        <4>1. flight'.length > 0 => Len(queue') # 0
          BY <2>1, <2>2, <1>7
        <4> QED
          BY <4>1
      <3> QED
        BY <3>1, <3>2, <2>2, <2>3, <1>8, <1>10 DEF FlightInv
    <2>6. WireInv'
      <3>1. Len(wire') = Done' * Size
        <4>1. (Done + 1) * Size = Done * Size + Size
          BY <1>8
        <4> QED
          BY <4>1, <2>0, <2>3, <1>0, <1>5, <1>11, <1>4
      <3>2. flight'.length > 0 => Len(wire') = Done' * Size + flight'.total
        BY <3>1, <2>2, <2>3, <1>8, ProdNat
      <3>3. Done' * Size <= Len(wire')
        BY <3>1, <2>3, <1>8, ProdNat
      <3> QED
        BY <3>1, <3>2, <3>3, <1>10, <1>b, <1>l DEF WireInv
    <2>7. ToldInv'
      <3>1. ASSUME NEW i \in DOMAIN told'
            PROVE  \E k \in DOMAIN packed' : packed'[k] = told'[i][1]
        BY <1>12, <2>0, <1>0, <1>9 DEF IInv, ToldInv, Packed
      <3>2. ASSUME NEW i \in DOMAIN told', told'[i][1][1] \in OnSend
            PROVE  \E k \in DOMAIN packed' : packed'[k] = told'[i][1] /\ k <= Done'
        <4>1. CASE i \in DOMAIN told /\ told'[i] = told[i]
          <5>1. PICK k \in DOMAIN packed : packed[k] = told[i][1] /\ (k <= Done \/ k = Done + 1)
            <6>1. Finished(told[i])
              BY <3>2, <4>1, <1>k
            <6> QED
              BY <6>1 DEF Finished
          <5>2. k <= Done + 1
            BY <5>1, <1>8
          <5> QED
            BY <4>1, <5>1, <5>2, <1>0, <2>3
        <4>2. CASE told'[i] = <<m, "ok">>
          <5>1. Done + 1 <= Done'
            BY <2>3, <1>8
          <5> QED
            BY <4>2, <5>1, <1>0, <1>9
        <4> QED
          BY <4>1, <4>2, <1>12, <2>0
      <3>3. \A i, j \in DOMAIN told' : told'[i][1] = told'[j][1] => i = j
        BY <2>0, <1>12
      <3> QED
        BY <3>1, <3>2, <3>3 DEF ToldInv, Packed
    <2> QED
      BY <2>4, <2>5, <2>6, <2>7, <1>o DEF IInv
  <1>C. CASE HandlerError(n, m)
    <2>0. /\ ToldFront(m, "error") /\ failed' = TRUE /\ closed' = TRUE
          /\ queue' = queue /\ flight' = Idle
      BY <1>C DEF HandlerError
    <2>2. /\ flight' \in [total : 0..Size, length : 0..Size]
          /\ flight'.total = 0 /\ flight'.length = 0
      <3>1. 0 \in 0..Size
        OBVIOUS
      <3> QED
        BY <3>1, <2>0 DEF Idle
    <2>3. Done' = Done
      BY <2>0, <1>0 DEF Done
    <2>4. TypeOK'
      <3>1. told' \in Seq(Closures)
        BY <2>0, <1>12
      <3>2. closed' \in BOOLEAN /\ failed' \in BOOLEAN
        BY <2>0
      <3> QED
        BY <3>1, <3>2, <1>0, <1>1, <2>0, <2>2 DEF IInv, TypeOK
    <2>5. FlightInv'
      <3>1. \A i \in DOMAIN queue' : queue'[i] = packed'[Done' + i]
        BY <2>0, <2>3, <1>0 DEF IInv, FlightInv
      <3> QED
        BY <3>1, <2>2, <2>3, <1>8, <1>10 DEF FlightInv
    <2>6. WireInv'
      <3>1. queue' # <<>>
        BY <2>0, <1>4
      <3> QED
        BY <3>1, <2>2, <2>3, <1>b, <1>l DEF WireInv
    <2>7. ToldInv'
      <3>1. ASSUME NEW i \in DOMAIN told'
            PROVE  \E k \in DOMAIN packed' : packed'[k] = told'[i][1]
        BY <1>12, <2>0, <1>0, <1>9 DEF IInv, ToldInv, Packed
      <3>2. ASSUME NEW i \in DOMAIN told', told'[i][1][1] \in OnSend
            PROVE  \E k \in DOMAIN packed' : packed'[k] = told'[i][1] /\
                     (k <= Done' \/ (k = Done' + 1 /\ told'[i][2] = "error" /\ flight'.length = 0))
        <4>1. CASE i \in DOMAIN told /\ told'[i] = told[i]
          <5>1. PICK k \in DOMAIN packed : packed[k] = told[i][1] /\
                  (k <= Done \/ (k = Done + 1 /\ told[i][2] = "error"))
            <6>1. Finished(told[i])
              BY <3>2, <4>1, <1>k
            <6> QED
              BY <6>1 DEF Finished
          <5> QED
            BY <4>1, <5>1, <1>0, <2>2, <2>3
        <4>2. CASE told'[i] = <<m, "error">>
          BY <4>2, <1>0, <1>9, <2>2, <2>3
        <4> QED
          BY <4>1, <4>2, <1>12, <2>0
      <3>3. \A i, j \in DOMAIN told' : told'[i][1] = told'[j][1] => i = j
        BY <2>0, <1>12
      <3> QED
        BY <3>1, <3>2, <3>3 DEF ToldInv, Packed
    <2> QED
      BY <2>4, <2>5, <2>6, <2>7, <1>o DEF IInv
  <1> QED
    BY <1>0, <1>A, <1>B, <1>C

\* The invariant is inductive.
LEMMA WriteInvariant == Spec => []IInv
  <1>1. IInv /\ [Next]_vars => IInv'
    <2> SUFFICES ASSUME IInv, [Next]_vars PROVE IInv'
      OBVIOUS
    <2>1. CASE UNCHANGED vars
      BY <2>1 DEF vars, IInv, TypeOK, OrderInv, FlightInv, WireInv, ToldInv, Packed, Posted, Done, Byte
    <2>2. ASSUME NEW t \in Threads, write(t) PROVE IInv'
      BY <2>2, WriteStep
    <2>3. CASE write_impl
      BY <2>3, ImplStep
    <2>4. CASE write_handler
      BY <2>4, HandlerStep
    <2>5. ASSUME NEW n \in 1..Size, StreamTakes(n) PROVE IInv'
      BY <2>5, TakesStep
    <2>6. CASE StreamFails
      BY <2>6, FailsStep
    <2>7. CASE close
      BY <2>7, CloseStep
    <2> QED
      BY <2>1, <2>2, <2>3, <2>4, <2>5, <2>6, <2>7 DEF Next, StrandStep
  <1> QED
    BY <1>1, WriteInit, PTL DEF Spec

\* The last byte of a message that left the queue is on the wire.
LEMMA WholeOnWire ==
  ASSUME IInv, NEW k \in DOMAIN packed, k <= Done
  PROVE  <<packed[k], Size>> \in ToSet(wire)
  <1> USE WriteQueueAssumption
  <1>1. k \in Nat \ {0} /\ Done \in Nat /\ Len(wire) \in Nat /\ DOMAIN wire = 1..Len(wire)
    BY LenProperties DEF IInv, TypeOK, FlightInv
  <1>2. PICK e \in Nat : Done = k + e
    <2>1. Done - k \in Nat /\ Done = k + (Done - k)
      BY <1>1
    <2> QED
      BY <2>1
  <1>3. PICK d \in Nat : k = d + 1
    <2>1. k - 1 \in Nat /\ k = (k - 1) + 1
      BY <1>1
    <2> QED
      BY <2>1
  <1>4. Done * Size = d * Size + Size + e * Size
    BY <1>2, <1>3, Distrib
  <1>5. d * Size \in Nat /\ e * Size \in Nat
    BY ProdNat
  <1> DEFINE p == d * Size
             i == p + Size
  <1>6. i \in DOMAIN wire /\ i - 1 = p + (Size - 1) /\ Size - 1 \in 0..(Size - 1)
    <2>1. Done * Size <= Len(wire)
      BY DEF IInv, WireInv
    <2> QED
      BY <2>1, <1>1, <1>4, <1>5
  <1>7. (p + (Size - 1)) \div Size = d /\ (p + (Size - 1)) % Size = Size - 1
    BY <1>6, DivMod
  <1> HIDE DEF p, i
  <1>8. wire[i] = <<packed[k], Size>>
    <2>1. wire[i] = Byte(i)
      BY <1>6 DEF IInv, WireInv
    <2>2. Byte(i) = <<packed[d + 1], (Size - 1) + 1>>
      BY <1>6, <1>7 DEF Byte
    <2> QED
      BY <2>1, <2>2, <1>3
  <1> QED
    BY <1>6, <1>8 DEF ToSet

\* WritesSound: the write in flight stays inside its message, and a closure
\* runs once at most, of a packed message, and with "ok" for one that waits
\* for its sending only when the last byte is on the wire.
THEOREM WritesAreSound == Spec => []WritesSound
  <1>1. IInv => WritesSound
    <2> SUFFICES ASSUME IInv PROVE WritesSound
      OBVIOUS
    <2>1. TypeOK
      BY DEF IInv
    <2>2. \A i, j \in DOMAIN told : told[i][1] = told[j][1] => i = j
      BY DEF IInv, ToldInv
    <2>3. ASSUME NEW i \in DOMAIN told
          PROVE  LET m == told[i][1] IN
                   /\ m \in ToSet(packed)
                   /\ m[1] \in OnSend /\ told[i][2] = "ok" => <<m, Size>> \in ToSet(wire)
      <3>1. told[i][1] \in ToSet(packed)
        BY DEF IInv, ToldInv, Packed, ToSet
      <3>2. ASSUME told[i][1][1] \in OnSend, told[i][2] = "ok"
            PROVE  <<told[i][1], Size>> \in ToSet(wire)
        <4>1. PICK k \in DOMAIN packed :
                /\ packed[k] = told[i][1]
                /\ \/ k <= Done
                   \/ k = Done + 1 /\ told[i][2] = "error" /\ flight.length = 0
          BY <3>2, Zenon DEF IInv, ToldInv
        <4> QED
          BY <3>2, <4>1, WholeOnWire
      <3> QED
        BY <3>1, <3>2
    <2> QED
      BY <2>1, <2>2, <2>3 DEF WritesSound, ClosureOnce
  <1> QED
    BY <1>1, WriteInvariant, PTL

------------------------------------------------------------------------------
\* write_impl is the step that accepts a message: the messages its thread
\* wrote before it were packed.
LEMMA ImplAccepts ==
  ASSUME IInv, write_impl
  PROVE  Channel!Accept
  <1> DEFINE m == Head(strand).msg
  <1>1. /\ strand \in Seq(Task) /\ strand # <<>> /\ Head(strand).do = "write_impl"
        /\ packed' = Append(packed, m) /\ wire' = wire
    BY DEF write_impl, IInv, TypeOK
  <1>2. /\ DOMAIN strand = 1..Len(strand) /\ Len(strand) \in Nat \ {0}
        /\ Head(strand) = strand[1] /\ Head(strand) \in Task
    BY <1>1, TailAt
  <1>3. m \in Message /\ m = strand[1].msg /\ IsImpl(1) /\ 1 \in DOMAIN strand
    BY <1>1, <1>2, TaskKinds
  <1> HIDE DEF m
  <1>4. Posted(m)
    BY <1>3 DEF Posted
  <1>5. m[1] \in Threads /\ m[2] \in 1..MaxWrites
    BY <1>3 DEF Message
  <1>6. ~Packed(m)
    <2>1. ASSUME NEW i \in DOMAIN packed, packed[i] = m PROVE FALSE
      <3>1. packed[i][2] < m[2]
        BY <2>1, <1>3 DEF IInv, OrderInv
      <3> QED
        BY <2>1, <3>1, <1>5
    <2> QED
      BY <2>1 DEF Packed
  <1>7. ASSUME NEW k \in 1..(m[2] - 1)
        PROVE  Packed(<<m[1], k>>)
    <2> DEFINE x == <<m[1], k>>
    <2>1. x \in Message /\ x[1] = m[1] /\ x[2] = k /\ k < m[2]
      BY <1>5, WriteQueueAssumption DEF Message
    <2> HIDE DEF x
    <2>2. m[2] <= written[m[1]] /\ written[m[1]] \in Nat
      BY <1>3, <1>4, <1>5 DEF IInv, OrderInv, TypeOK
    <2>3. x[2] <= written[x[1]]
      BY <2>1, <2>2, <1>5
    <2>4. Packed(x) \/ Posted(x)
      BY <2>1, <2>3 DEF IInv, OrderInv
    <2>5. ASSUME NEW j \in DOMAIN strand, IsImpl(j), strand[j].msg = x PROVE FALSE
      <3>1. j # 1
        BY <2>1, <2>5, <1>3, <1>5
      <3>2. 1 < j
        BY <3>1, <1>2
      <3>3. m[2] < x[2]
        BY <3>2, <2>1, <2>5, <1>3 DEF IInv, OrderInv
      <3> QED
        BY <3>3, <2>1, <1>5
    <2> QED
      BY <2>4, <2>5 DEF Posted, x
  <1> QED
    BY <1>1, <1>3, <1>6, <1>7 DEF Channel!Accept, Channel!Message, Channel!Accepted, Message, Packed

\* A step of the stream emits the next bytes.
LEMMA TakesEmits ==
  ASSUME IInv, IInv', NEW n \in 1..Size, StreamTakes(n)
  PROVE  Channel!Emit
  <1> USE WriteQueueAssumption
  <1>1. packed' = packed
    BY DEF StreamTakes
  <1>2. /\ wire \in Seq(Message \X (1..Size)) /\ wire' \in Seq(Message \X (1..Size))
        /\ packed \in Seq(Message)
    BY DEF IInv, TypeOK
  <1>3. Len(wire) \in Nat /\ Len(wire') \in Nat /\ DOMAIN wire' = 1..Len(wire') /\ Len(packed) \in Nat
    BY <1>2, LenProperties
  <1>4. Len(wire') > Len(wire)
    <2> DEFINE new == [i \in 1..n |-> <<Head(queue), flight.total + i>>]
    <2>1. wire' = wire \o new
      BY DEF StreamTakes
    <2>2. new \in Seq(UNION {{new[i]} : i \in 1..n}) /\ Len(new) = n
      <3>1. n \in Nat /\ DOMAIN new = 1..n
        OBVIOUS
      <3> QED
        BY <3>1, LenProperties, SeqDef
    <2> QED
      BY <2>1, <2>2, <1>2
  <1>5. Len(wire') <= Len(packed) * Size
    BY <1>1 DEF IInv, WireInv
  <1>6. Channel!Bytes = [i \in 1..(Len(packed) * Size) |-> Byte(i)]
    BY DEF Channel!Bytes, Byte
  <1>7. \A i \in 1..Len(wire') : wire'[i] = Byte(i)
    BY <1>1, <1>3 DEF IInv, WireInv, Byte
  <1>8. Len(packed) * Size \in Nat
    BY <1>3, ProdNat
  <1> DEFINE N == Len(packed) * Size
             B == [i \in 1..N |-> Byte(i)]
  <1>9. wire' = SubSeq(B, 1, Len(wire')) /\ Len(B) = N
    <2>1. N \in Nat /\ DOMAIN B = 1..N
      BY <1>8
    <2>2. Len(B) = N
      BY <2>1
    <2>3. \A i \in 1..N : B[i] = Byte(i)
      OBVIOUS
    <2> HIDE DEF B, N
    <2>4. \A i \in 1..Len(wire') : i \in 1..N
      BY <2>1, <1>3, <1>5 DEF N
    <2>5. \A i \in 1..Len(wire') : B[i] = wire'[i] /\ B[i] \in Message \X (1..Size)
      BY <2>3, <2>4, <1>2, <1>3, <1>7, ElementOfSeq
    <2> DEFINE w == SubSeq(B, 1, Len(wire'))
    <2>6. /\ w \in Seq(Message \X (1..Size))
          /\ Len(w) = IF 1 <= Len(wire') THEN Len(wire') - 1 + 1 ELSE 0
          /\ \A i \in 1..(Len(wire') - 1 + 1) : w[i] = B[1 + i - 1]
      BY <2>5, <1>3, SubSeqProperties
    <2> HIDE DEF w
    <2>7. Len(w) = Len(wire') /\ \A i \in 1..Len(w) : w[i] = wire'[i]
      BY <2>5, <2>6, <1>3
    <2>8. w = wire'
      BY <2>6, <2>7, <1>2, SeqEqual
    <2> QED
      BY <2>2, <2>8 DEF w
  <1> HIDE DEF B
  <1>10. Channel!Bytes = B
    BY <1>6 DEF B
  <1>11. Len(wire') \in (Len(wire) + 1)..Len(Channel!Bytes)
    BY <1>3, <1>4, <1>5, <1>8, <1>9, <1>10
  <1>12. wire' = SubSeq(Channel!Bytes, 1, Len(wire'))
    BY <1>9, <1>10
  <1> QED
    BY <1>1, <1>11, <1>12, Zenon DEF Channel!Emit

\* ImplementsChannel: the write queue implements the byte channel. write_impl
\* accepts a message, the stream emits bytes, and nothing else is visible.
THEOREM QueueImplementsChannel == Spec => ImplementsChannel
  <1>1. Init => packed = <<>> /\ wire = <<>>
    BY DEF Init
  <1>2. IInv /\ IInv' /\ [Next]_vars => [Channel!Accept \/ Channel!Emit]_<<packed, wire>>
    <2> SUFFICES ASSUME IInv, IInv', [Next]_vars
                 PROVE  Channel!Accept \/ Channel!Emit \/ UNCHANGED <<packed, wire>>
      OBVIOUS
    <2>1. CASE UNCHANGED vars
      BY <2>1 DEF vars
    <2>2. ASSUME NEW t \in Threads, write(t) PROVE UNCHANGED <<packed, wire>>
      BY <2>2 DEF write
    <2>3. CASE write_impl
      BY <2>3, ImplAccepts
    <2>4. CASE write_handler
      BY <2>4 DEF write_handler
    <2>5. ASSUME NEW n \in 1..Size, StreamTakes(n) PROVE Channel!Emit
      BY <2>5, TakesEmits
    <2>6. CASE StreamFails \/ close
      BY <2>6 DEF StreamFails, close
    <2> QED
      BY <2>1, <2>2, <2>3, <2>4, <2>5, <2>6 DEF Next, StrandStep
  <1> QED
    BY <1>1, <1>2, WriteInvariant, PTL DEF Spec, ImplementsChannel, Channel!Spec

==============================================================================
