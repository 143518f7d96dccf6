---------------------------- MODULE HandshakeProofs ----------------------------
(***************************************************************************)
(* Proofs about the handshake, for every set of session keys and every     *)
(* number of calls.  The invariant says, for each of the two ends, how far *)
(* it has come, and for every message on its way in which of those states  *)
(* of both ends it can be there and with what it was packed.               *)
(* Then the client's connect, which waits until its handshake is over: its *)
(* names do not meet those of Handshake, and the two are not composed.     *)
(***************************************************************************)
EXTENDS Handshake, ClientConnect, Lemmas

Keyed == conf.client # NoKey

\* What each end packs with once the handshake has set it.
ServerKey == IF Keyed THEN <<conf.server, "client">> ELSE Plain
ClientKey == IF Keyed THEN <<conf.client, "server">> ELSE Plain

\* The packets on their way to e.
To(e) == queue[e] \o net[Peer(e)]

\* Types, with no bound on what is counted.
Types ==
  /\ conf \in [client : Secrets \cup {NoKey}, server : Secrets, required : BOOLEAN]
  /\ stage \in [End -> {"hello", "setup", "ready", "error", "selection", "transformer"}]
  /\ stage["client"] \in {"hello", "setup", "ready", "error"}
  /\ stage["server"] \in {"selection", "transformer"}
  /\ ready \in [End -> BOOLEAN]
  /\ mode \in [End -> {"handshake", "ready"}]
  /\ maker \in [End -> {"none", "crc"}] /\ checker \in [End -> {"none", "crc"}]
  /\ trans \in [End -> Cipher] /\ rev \in [End -> Cipher]
  /\ posted \in [End -> Seq(What)]
  /\ net \in [End -> Seq(Packet)] /\ queue \in [End -> Seq(Packet)]
  /\ open \in [End -> BOOLEAN] /\ closing \in BOOLEAN
  /\ timer \in {"armed", "due", "posting", "off"}
  /\ errors \in Nat
  /\ calls \in [End -> 0..MaxCalls] /\ handled \in [End -> Nat]
  /\ garbled \subseteq End \X What

\* How far the client has come.
ClientInv ==
  /\ stage["client"] = "hello" <=> checker["client"] = "none"
  /\ checker["client"] = "none" =>
       /\ maker["client"] = "none" /\ trans["client"] = Plain /\ rev["client"] = Plain
       /\ posted["client"] = <<>> /\ To("server") = <<>> /\ checker["server"] = "none"
  /\ stage["client"] = "setup" =>
       Keyed /\ trans["client"] = Plain /\ rev["client"] = Plain
  /\ stage["client"] = "ready" =>
       /\ trans["client"] = ClientKey
       /\ rev["client"] = IF Keyed THEN <<conf.client, "client">> ELSE Plain
  /\ mode["client"] = "ready" =>
       stage["client"] = "ready" /\ maker["client"] = "crc" /\ mode["server"] = "ready"
  /\ ready["client"] <=> mode["client"] = "ready"
  /\ open["client"] => stage["client"] # "error"

\* How far the server has come. It reads the selection packed with the
\* client's first hash, and is ready only if the keys agree.
ServerInv ==
  /\ checker["server"] = "none" =>
       /\ stage["server"] = "selection" /\ maker["server"] = "none"
       /\ mode["server"] = "handshake"
  /\ checker["server"] = "crc" => maker["server"] = "crc" /\ maker["client"] = "crc"
  /\ stage["server"] = "selection" => rev["server"] = Plain
  /\ stage["server"] = "transformer" =>
       Keyed /\ checker["server"] = "crc" /\ rev["server"] = <<conf.server, "server">>
  /\ mode["server"] = "handshake" => trans["server"] = Plain
  /\ mode["server"] = "ready" =>
       /\ checker["server"] = "crc" /\ trans["server"] = ServerKey /\ KeysAgree
       /\ trans["client"] = ClientKey
       /\ IF Keyed THEN stage["server"] = "transformer"
                   ELSE stage["server"] = "selection" /\ ~conf.required

\* What the client may have posted, and what may be on its way to the
\* server: one message at a time until the server is ready.
ClientMay == {what \in What :
  \/ what = "select_none" /\ ~Keyed /\ checker["server"] = "none" /\ trans["client"] = Plain
  \/ what = "select_cipher" /\ Keyed /\ checker["server"] = "none" /\ trans["client"] = Plain
  \/ /\ what = "setup" /\ Keyed /\ trans["client"] = ClientKey
     /\ stage["server"] = "transformer" /\ mode["server"] = "handshake"
  \/ what = "call" /\ mode["client"] = "ready"}

HashOf(what) == IF what \in {"select_none", "select_cipher"} THEN "none" ELSE "crc"

ToServerInv ==
  /\ queue["server"] = <<>>
  /\ mode["server"] = "handshake" => Len(To("server")) + Len(posted["client"]) <= 1
  /\ \A i \in DOMAIN posted["client"] :
       posted["client"][i] \in ClientMay /\ maker["client"] = HashOf(posted["client"][i])
  /\ \A i \in DOMAIN To("server") :
       /\ To("server")[i].what \in ClientMay
       /\ To("server")[i].hash = HashOf(To("server")[i].what)
       /\ To("server")[i].key = trans["client"]
  /\ posted["client"] = <<>> /\ checker["client"] = "crc" => maker["client"] = "crc"

\* What the server may have posted, and what may be on its way to the client.
ServerMay == {what \in What :
  \/ what = "hello" /\ checker["client"] = "none"
  \/ /\ what = "setup" /\ Keyed /\ stage["server"] = "transformer"
     /\ mode["server"] = "handshake" /\ trans["client"] = Plain
  \/ what = "denied" /\ ~Keyed /\ checker["server"] = "crc" /\ mode["server"] = "handshake"
  \/ what \in {"ready", "call"} /\ mode["server"] = "ready"
  \/ what = "timeout"}

PostedInv ==
  \A i \in DOMAIN posted["server"] :
    /\ posted["server"][i] \in ServerMay
    /\ posted["server"][i] = "hello" =>
         i = 1 /\ To("client") = <<>> /\ ~closing /\ (open["client"] => open["server"])
    /\ posted["server"][i] = "setup" =>
         /\ \A j \in DOMAIN posted["server"] : posted["server"][j] = "setup" => i = j
         /\ \A j \in DOMAIN To("client") : To("client")[j].what # "setup"

\* The order of the packets P on their way to the client, and what they are
\* packed with: the timeout may be anywhere, behind the ready capsule
\* everything is packed alike.
Flow(P, key) ==
  \A i \in DOMAIN P :
    /\ P[i].what = "hello" => i = 1 /\ P[i].hash = "none" /\ P[i].key = Plain
    /\ P[i].what \in {"setup", "denied"} => P[i].hash = "crc" /\ P[i].key = Plain
    /\ P[i].what = "setup" => \A j \in DOMAIN P : P[j].what = "setup" => i = j
    /\ P[i].what \in {"ready", "call"} =>
         \A j \in DOMAIN P : i <= j => P[j].hash = "crc" /\ P[j].key = key

ToClientInv ==
  /\ \A i \in DOMAIN To("client") : To("client")[i].what \in ServerMay
  /\ Flow(To("client"), ServerKey)
  /\ mode["client"] = "ready" =>
       \A i \in DOMAIN To("client") :
         To("client")[i].hash = "crc" /\ To("client")[i].key = ServerKey
  /\ checker["client"] = "none" /\ open["client"] =>
       IF To("client") = <<>> THEN posted["server"] # <<>> /\ posted["server"][1] = "hello"
                              ELSE To("client")[1].what = "hello"

ErrorInv ==
  /\ open["client"] \/ mode["client"] = "ready" => errors = 0
  /\ ~open["client"] /\ mode["client"] = "handshake" => errors \in 1..2

\* Calls are handled once.
CallPackets == {p \in Packet : p.what = "call"}

HandledInv ==
  \A e \in End :
    handled[e] + CountIn(To(e), CallPackets) + CountIn(posted[Peer(e)], {"call"})
      <= calls[Peer(e)]

LeftInv == handled["client"] > 0 => mode["client"] = "ready" /\ queue["client"] = <<>>

IInv ==
  /\ Types /\ ClientInv /\ ServerInv /\ ToServerInv /\ PostedInv /\ ToClientInv
  /\ ErrorInv /\ HandledInv /\ LeftInv /\ Understood

------------------------------------------------------------------------------
\* Q is what is left of P when the first k packets are taken.
Drops(P, Q, k) ==
  /\ P \in Seq(Packet) /\ Q \in Seq(Packet)
  /\ k \in 1..Len(P) /\ Len(Q) = Len(P) - k
  /\ DOMAIN P = 1..Len(P) /\ DOMAIN Q = 1..Len(Q)
  /\ \A i \in 1..Len(Q) : i + k \in DOMAIN P /\ Q[i] = P[i + k]

LEMMA BothEnds ==
  /\ \A e \in End : Peer(e) \in End /\ Peer(Peer(e)) = e /\ Peer(e) # e
  /\ Peer("client") = "server" /\ Peer("server") = "client"
  /\ "client" \in End /\ "server" \in End
  BY DEF End, Peer

LEMMA ToType ==
  ASSUME Types, NEW e \in End
  PROVE  /\ To(e) \in Seq(Packet) /\ Len(To(e)) \in Nat /\ DOMAIN To(e) = 1..Len(To(e))
         /\ \A i \in DOMAIN To(e) : To(e)[i] \in Packet
         /\ To(e) = <<>> <=> Len(To(e)) = 0
         /\ CountIn(To(e), CallPackets) \in Nat
         /\ CountIn(posted[e], {"call"}) \in Nat
  <1>1. queue[e] \in Seq(Packet) /\ net[Peer(e)] \in Seq(Packet) /\ posted[e] \in Seq(What)
    BY BothEnds DEF Types
  <1>2. To(e) \in Seq(Packet)
    BY <1>1, ConcatAt DEF To
  <1>3. CountIn(To(e), CallPackets) \in Nat /\ CountIn(posted[e], {"call"}) \in Nat
    BY <1>1, <1>2, CountNat
  <1> QED
    BY <1>2, <1>3, LenProperties, ElementOfSeq, EmptySeq

LEMMA TailDrops ==
  ASSUME NEW P \in Seq(Packet), P # <<>>
  PROVE  Drops(P, Tail(P), 1)
  <1>1. /\ Tail(P) \in Seq(Packet) /\ Len(P) \in Nat \ {0} /\ Len(Tail(P)) = Len(P) - 1
        /\ DOMAIN Tail(P) = 1..(Len(P) - 1) /\ DOMAIN P = 1..Len(P)
        /\ \A i \in 1..(Len(P) - 1) : Tail(P)[i] = P[i + 1]
    BY TailAt
  <1> QED
    BY <1>1 DEF Drops

LEMMA ConcatDrops ==
  ASSUME NEW P \in Seq(Packet), NEW Q \in Seq(Packet), P # <<>>
  PROVE  Drops(P \o Q, Q, Len(P))
  <1>1. /\ P \o Q \in Seq(Packet) /\ Len(P \o Q) = Len(P) + Len(Q)
        /\ \A i \in 1..Len(Q) : (P \o Q)[Len(P) + i] = Q[i]
    BY ConcatAt
  <1>2. Len(P) \in Nat \ {0} /\ Len(Q) \in Nat /\ DOMAIN Q = 1..Len(Q)
    BY EmptySeq, LenProperties
  <1>3. DOMAIN (P \o Q) = 1..(Len(P) + Len(Q))
    BY ConcatAt
  <1> DEFINE R == P \o Q
  <1> HIDE DEF R
  <1>4. Drops(R, Q, Len(P))
    BY <1>1, <1>2, <1>3 DEF Drops, R
  <1> QED
    BY <1>4 DEF R

\* do_handshake takes one packet.
LEMMA Takes ==
  ASSUME Types, NEW e \in End, NEW n \in Nat, do_handshake(e, n)
  PROVE  /\ Drops(To(e), To(e)', 1) /\ Front(e, n) = To(e)[1]
         /\ To(Peer(e))' = To(Peer(e)) /\ queue'[Peer(e)] = queue[Peer(e)]
         /\ net' \in [End -> Seq(Packet)] /\ queue' \in [End -> Seq(Packet)]
         /\ queue[e] = <<>> /\ Len(To(e)) = 1 => queue'[e] = <<>>
  <1> DEFINE N == net[Peer(e)]  A == SubSeq(N, 1, n)  B == SubSeq(N, n + 1, Len(N))
             Q == queue[e]
  <1>1. /\ Q \in Seq(Packet) /\ N \in Seq(Packet) /\ n \in 1..Len(N)
        /\ net' = [net EXCEPT ![Peer(e)] = B]
        /\ queue' = [queue EXCEPT ![e] = Tail(Q \o A)]
        /\ To(e) = Q \o N /\ Front(e, n) = Head(Q \o A)
    BY BothEnds DEF Types, do_handshake, Receive, Arrived, To, Front
  <1>2. Len(N) \in Nat /\ n \in 0..Len(N) /\ n # 0
    BY <1>1, LenProperties
  <1>3. A \in Seq(Packet) /\ Len(A) = n /\ B \in Seq(Packet) /\ Len(B) = Len(N) - n /\ A \o B = N
    BY <1>1, <1>2, SplitAt
  <1> HIDE DEF N, A, B, Q
  <1> DEFINE C == Q \o A
  <1>4. C \in Seq(Packet) /\ Len(C) = Len(Q) + n /\ Len(Q) \in Nat
    BY <1>1, <1>3, ConcatAt, LenProperties
  <1>5. C \o B = To(e)
    <2>1. Parts(Packet, Q, N, A, B)
      BY <1>1, <1>3 DEF Parts
    <2>2. Q \o N = (Q \o A) \o B
      BY <2>1, Regroup
    <2> QED
      BY <1>1, <2>2
  <1> HIDE DEF C
  <1>6. C # <<>>
    BY <1>2, <1>4, EmptySeq
  <1>7. /\ C \o B \in Seq(Packet) /\ C \o B # <<>> /\ Head(C \o B) = Head(C)
        /\ Tail(C \o B) = Tail(C) \o B /\ Tail(C) \in Seq(Packet)
        /\ Len(Tail(C)) = Len(C) - 1
    BY <1>3, <1>4, <1>6, TailOfConcat, TailAt, SMTT(30)
  <1>8. /\ net' \in [End -> Seq(Packet)] /\ queue' \in [End -> Seq(Packet)]
        /\ net'[Peer(e)] = B /\ queue'[e] = Tail(C)
        /\ net'[e] = net[e] /\ queue'[Peer(e)] = queue[Peer(e)]
    <2>1. net \in [End -> Seq(Packet)] /\ queue \in [End -> Seq(Packet)]
      BY DEF Types
    <2> QED
      BY <1>1, <1>3, <1>7, <2>1, BothEnds DEF C
  <1>9. To(e)' = Tail(C) \o B /\ To(Peer(e))' = To(Peer(e))
    BY <1>8, BothEnds DEF To
  <1>10. Drops(To(e), To(e)', 1)
    BY <1>5, <1>7, <1>9, TailDrops
  <1>11. Front(e, n) = To(e)[1]
    <2>1. To(e) \in Seq(Packet) /\ To(e) # <<>>
      BY <1>5, <1>7
    <2>2. Head(To(e)) = To(e)[1]
      BY <2>1, TailAt
    <2> QED
      BY <1>1, <1>5, <1>7, <2>2 DEF C
  <1>12. ASSUME Q = <<>>, Len(To(e)) = 1 PROVE queue'[e] = <<>>
    <2>1. Len(To(e)) = Len(C) + Len(B) /\ Len(B) \in Nat
      BY <1>3, <1>4, <1>5, ConcatAt, LenProperties
    <2>2. Len(Tail(C)) = 0
      BY <1>12, <1>2, <1>4, <1>7, <2>1
    <2> QED
      BY <2>2, <1>7, <1>8, EmptySeq
  <1> QED
    BY <1>8, <1>9, <1>10, <1>11, <1>12 DEF Q

\* pack_message moves the first message that was posted.
LEMMA Packs ==
  ASSUME Types, NEW e \in End, pack_message(e)
  PROVE  /\ posted[e] # <<>> /\ posted[e] \in Seq(What) /\ posted[e][1] \in What
         /\ posted' \in [End -> Seq(What)]
         /\ posted'[e] = Tail(posted[e]) /\ posted'[Peer(e)] = posted[Peer(e)]
         /\ To(e)' = To(e)
         /\ [what |-> posted[e][1], hash |-> maker[e], key |-> trans[e]] \in Packet
         /\ To(Peer(e))' =
              IF open[e] THEN Append(To(Peer(e)), [what |-> posted[e][1],
                                     hash |-> maker[e], key |-> trans[e]])
                         ELSE To(Peer(e))
         /\ net' \in [End -> Seq(Packet)]
  <1> DEFINE p == [what |-> posted[e][1], hash |-> maker[e], key |-> trans[e]]
  <1>1. posted[e] # <<>> /\ posted[e] \in Seq(What)
    BY DEF pack_message, Types
  <1>2. Head(posted[e]) = posted[e][1] /\ posted[e][1] \in What /\ Tail(posted[e]) \in Seq(What)
    BY <1>1, TailAt
  <1>3. p \in Packet
    BY <1>2 DEF Types, Packet
  <1> DEFINE Q == queue[Peer(e)]  N == net[e]  M == IF open[e] THEN Append(N, p) ELSE N
  <1>4. /\ net' = [net EXCEPT ![e] = M] /\ queue' = queue
        /\ posted' = [posted EXCEPT ![e] = Tail(@)]
    BY <1>2 DEF pack_message
  <1>5. Q \in Seq(Packet) /\ N \in Seq(Packet)
    BY BothEnds DEF Types
  <1>6. M \in Seq(Packet) /\ Q \o M = IF open[e] THEN Append(Q \o N, p) ELSE Q \o N
    <2> HIDE DEF p, Q, N
    <2>1. Append(N, p) \in Seq(Packet)
      BY <1>3, <1>5, AppendAt
    <2>2. Append(Q \o N, p) = Q \o Append(N, p)
      <3>1. Appends(Packet, Q, N, p)
        BY <1>3, <1>5 DEF Appends
      <3>2. AppendsLast(Q, N, p)
        BY <3>1, AppendToConcat
      <3> QED
        BY <3>2 DEF AppendsLast
    <2> QED
      BY <1>5, <2>1, <2>2
  <1>7. /\ net' \in [End -> Seq(Packet)] /\ net'[e] = M /\ net'[Peer(e)] = net[Peer(e)]
    <2>1. net \in [End -> Seq(Packet)]
      BY DEF Types
    <2> HIDE DEF M
    <2> QED
      BY <2>1, <1>4, <1>6, BothEnds
  <1>8. To(Peer(e))' = Q \o M /\ To(e)' = To(e) /\ To(Peer(e)) = Q \o N
    BY <1>4, <1>7, BothEnds DEF To
  <1>9. /\ posted' \in [End -> Seq(What)]
        /\ posted'[e] = Tail(posted[e]) /\ posted'[Peer(e)] = posted[Peer(e)]
    BY <1>2, <1>4, BothEnds DEF Types
  <1> QED
    BY <1>1, <1>2, <1>3, <1>6, <1>7, <1>8, <1>9

LEMMA CountDrops ==
  ASSUME NEW P, NEW Q, NEW k, Drops(P, Q, k), NEW K
  PROVE  CountIn(Q, K) <= CountIn(P, K) /\ CountIn(Q, K) \in Nat /\ CountIn(P, K) \in Nat
  <1> DEFINE A == SubSeq(P, 1, k)
  <1>1. P \in Seq(Packet) /\ Q \in Seq(Packet) /\ k \in 0..Len(P) /\ Len(P) \in Nat
    BY LenProperties DEF Drops
  <1>2. A \in Seq(Packet) /\ Len(A) = k /\ DOMAIN A = 1..k /\ \A i \in 1..k : A[i] = P[i]
    BY <1>1, SubSeqAt
  <1> HIDE DEF A
  <1>3. Cut(P, A, Q)
    BY <1>1, <1>2, LenProperties DEF Cut, Drops
  <1>4. CountIn(P, K) = CountIn(A, K) + CountIn(Q, K)
    BY <1>3, CountCut
  <1>5. CountIn(A, K) \in Nat /\ CountIn(P, K) \in Nat /\ CountIn(Q, K) \in Nat
    BY <1>1, <1>2, CountNat
  <1> QED
    BY <1>4, <1>5

\* ready_call, when everything can be read, takes everything that arrived.
LEMMA TakesAll ==
  ASSUME Types, NEW e \in End, NEW n \in Nat, ready_call(e, n),
         \A i \in DOMAIN To(e) : Decodes(e, To(e)[i])
  PROVE  /\ \E k \in Nat : Drops(To(e), To(e)', k)
         /\ queue'[e] = <<>> /\ queue'[Peer(e)] = queue[Peer(e)]
         /\ To(Peer(e))' = To(Peer(e))
         /\ net' \in [End -> Seq(Packet)] /\ queue' \in [End -> Seq(Packet)]
         /\ open' = open /\ garbled' = garbled
         /\ handled' \in [End -> Nat] /\ handled'[Peer(e)] = handled[Peer(e)]
         /\ handled'[e] + CountIn(To(e)', CallPackets)
              = handled[e] + CountIn(To(e), CallPackets)
  <1> DEFINE N == net[Peer(e)]  A == SubSeq(N, 1, n)  B == SubSeq(N, n + 1, Len(N))
             Q == queue[e]  C == Q \o A
             Bad == {i \in DOMAIN C : ~Decodes(e, C[i])}
             last == IF Bad = {} THEN Len(C) ELSE (CHOOSE i \in Bad : \A j \in Bad : i <= j) - 1
             Calls == {i \in 1..last : C[i].what = "call"}
  <1>1. /\ n \in 1..Len(N)
        /\ net' = [net EXCEPT ![Peer(e)] = B]
        /\ queue' = [queue EXCEPT ![e] = SubSeq(C, last + 2, Len(C))]
        /\ handled' = [handled EXCEPT ![e] = @ + Cardinality(Calls)]
        /\ garbled' = garbled \cup {<<e, C[i].what>> : i \in Bad}
        /\ open' = [open EXCEPT ![e] = Bad = {}] /\ open[e]
        /\ To(e) = Q \o N
    BY DEF ready_call, Receive, Arrived, To
  <1>2. Q \in Seq(Packet) /\ N \in Seq(Packet)
    BY BothEnds DEF Types
  <1>3. Len(N) \in Nat /\ n \in 0..Len(N) /\ n # 0
    BY <1>1, <1>2, LenProperties
  <1>4. A \in Seq(Packet) /\ Len(A) = n /\ B \in Seq(Packet) /\ A \o B = N
    BY <1>2, <1>3, SplitAt
  <1> HIDE DEF N, A, B, Q, Bad, last, Calls
  <1>5. C \in Seq(Packet) /\ Len(C) = Len(Q) + n /\ Len(Q) \in Nat /\ DOMAIN C = 1..Len(C)
    BY <1>2, <1>4, ConcatAt, LenProperties
  <1>6. C \o B = To(e)
    <2>1. Parts(Packet, Q, N, A, B)
      BY <1>2, <1>4 DEF Parts
    <2>2. Q \o N = (Q \o A) \o B
      BY <2>1, Regroup
    <2> QED
      BY <1>1, <2>2
  <1> HIDE DEF C
  <1>7. C # <<>> /\ Len(C) \in Nat
    BY <1>3, <1>5, EmptySeq
  <1>8. Drops(To(e), B, Len(C))
    BY <1>4, <1>5, <1>6, <1>7, ConcatDrops
  <1>9. \A i \in DOMAIN C : C[i] = To(e)[i] /\ i \in DOMAIN To(e)
    <2>1. C \in Seq(Packet) /\ B \in Seq(Packet)
      BY <1>4, <1>5
    <2>2. /\ \A i \in 1..Len(C) : (C \o B)[i] = C[i]
          /\ DOMAIN (C \o B) = 1..(Len(C) + Len(B))
      BY <2>1, ConcatAt
    <2>3. Len(B) \in Nat
      BY <2>1, LenProperties
    <2> QED
      BY <1>5, <1>6, <1>7, <2>2, <2>3
  <1>10. Bad = {}
    BY <1>9 DEF Bad
  <1>11. last = Len(C)
    BY <1>10 DEF last
  <1>12. SubSeq(C, last + 2, Len(C)) = <<>>
    BY <1>7, <1>11, SubSeqEmpty
  <1>13. /\ net' \in [End -> Seq(Packet)] /\ queue' \in [End -> Seq(Packet)]
         /\ net'[Peer(e)] = B /\ queue'[e] = <<>>
         /\ net'[e] = net[e] /\ queue'[Peer(e)] = queue[Peer(e)]
    <2>1. net \in [End -> Seq(Packet)] /\ queue \in [End -> Seq(Packet)] /\ <<>> \in Seq(Packet)
      BY EmptySeq DEF Types
    <2> QED
      BY <1>1, <1>4, <1>12, <2>1, BothEnds
  <1>14. To(e)' = B /\ To(Peer(e))' = To(Peer(e))
    <2>1. <<>> \o B = B
      BY <1>4, ConcatEmptySeq
    <2> QED
      BY <1>13, <2>1, BothEnds DEF To
  <1>15. garbled' = garbled /\ open' = open
    <2>1. garbled' = garbled
      BY <1>1, <1>10
    <2>2. open \in [End -> BOOLEAN]
      BY DEF Types
    <2> QED
      BY <1>1, <1>10, <2>1, <2>2
  <1>16. Cardinality(Calls) = CountIn(C, CallPackets) /\ CountIn(C, CallPackets) \in Nat
    <2>1. \A i \in 1..Len(C) : C[i] \in Packet
      BY <1>5, ElementOfSeq
    <2>2. Calls = {i \in DOMAIN C : C[i] \in CallPackets}
      BY <1>5, <1>11, <2>1 DEF Calls, CallPackets
    <2> QED
      BY <1>5, <2>2, CountNat DEF CountIn
  <1>17. /\ CountIn(To(e), CallPackets) = CountIn(C, CallPackets) + CountIn(B, CallPackets)
         /\ CountIn(B, CallPackets) \in Nat
    <2>1. C \in Seq(Packet) /\ B \in Seq(Packet)
      BY <1>4, <1>5
    <2>2. CountIn(C \o B, CallPackets) = CountIn(C, CallPackets) + CountIn(B, CallPackets)
      BY <2>1, CountConcat
    <2>3. CountIn(B, CallPackets) \in Nat
      BY <2>1, CountNat
    <2> QED
      BY <1>6, <2>2, <2>3
  <1>18. /\ handled' \in [End -> Nat] /\ handled'[Peer(e)] = handled[Peer(e)]
         /\ handled'[e] = handled[e] + CountIn(C, CallPackets) /\ handled[e] \in Nat
    <2>1. handled \in [End -> Nat]
      BY DEF Types
    <2> QED
      BY <1>1, <1>16, <2>1, BothEnds
  <1>19. handled'[e] + CountIn(B, CallPackets) = handled[e] + CountIn(To(e), CallPackets)
    BY <1>16, <1>17, <1>18
  <1> QED
    BY <1>7, <1>8, <1>13, <1>14, <1>15, <1>18, <1>19

\* The order of the packets stands when some are taken or one comes last.
LEMMA FlowDrops ==
  ASSUME NEW P, NEW Q, NEW k, Drops(P, Q, k), NEW key, Flow(P, key)
  PROVE  Flow(Q, key) /\ \A i \in DOMAIN Q : Q[i].what # "hello"
  <1>1. /\ DOMAIN Q = 1..Len(Q) /\ Len(Q) \in Nat /\ k \in Nat \ {0}
        /\ \A i \in DOMAIN Q : i + k \in DOMAIN P /\ Q[i] = P[i + k]
    BY LenProperties DEF Drops
  <1>2. ASSUME NEW i \in DOMAIN Q PROVE Q[i].what # "hello"
    BY <1>1 DEF Flow
  <1>3. ASSUME NEW i \in DOMAIN Q
        PROVE  /\ Q[i].what \in {"setup", "denied"} => Q[i].hash = "crc" /\ Q[i].key = Plain
               /\ Q[i].what = "setup" => \A j \in DOMAIN Q : Q[j].what = "setup" => i = j
               /\ Q[i].what \in {"ready", "call"} =>
                    \A j \in DOMAIN Q : i <= j => Q[j].hash = "crc" /\ Q[j].key = key
    <2>1. i \in Nat /\ \A j \in DOMAIN Q : j \in Nat /\ (i <= j => i + k <= j + k) /\ (i + k = j + k => i = j)
      BY <1>1
    <2> QED
      BY <1>1, <2>1 DEF Flow
  <1> QED
    BY <1>2, <1>3 DEF Flow

Joins(P, p, key) ==
  /\ P \in Seq(Packet) /\ p \in Packet
  /\ p.what = "hello" => P = <<>> /\ p.hash = "none" /\ p.key = Plain
  /\ p.what \in {"setup", "denied"} => p.hash = "crc" /\ p.key = Plain
  /\ p.what = "setup" => \A j \in DOMAIN P : P[j].what # "setup"
  /\ \/ p.what \in {"ready", "call"}
     \/ \E j \in DOMAIN P : P[j].what \in {"ready", "call"}
     => p.hash = "crc" /\ p.key = key

LEMMA FlowJoins ==
  ASSUME NEW P, NEW p, NEW key, Joins(P, p, key), Flow(P, key)
  PROVE  Flow(Append(P, p), key)
  <1> DEFINE Q == Append(P, p)
  <1>1. P \in Seq(Packet) /\ p \in Packet
    BY DEF Joins
  <1>2. /\ DOMAIN P = 1..Len(P) /\ Len(P) \in Nat /\ (P = <<>> => Len(P) = 0)
        /\ DOMAIN Q = 1..(Len(P) + 1)
        /\ \A i \in 1..Len(P) : Q[i] = P[i]
        /\ Q[Len(P) + 1] = p
    BY <1>1, AppendAt, LenProperties, EmptySeq
  <1> HIDE DEF Q
  <1>3. \A i \in DOMAIN Q : (i \in DOMAIN P /\ Q[i] = P[i]) \/ (i = Len(P) + 1 /\ Q[i] = p)
    BY <1>2
  <1>4. ASSUME NEW i \in DOMAIN Q, Q[i].what = "hello"
        PROVE  i = 1 /\ Q[i].hash = "none" /\ Q[i].key = Plain
    BY <1>2, <1>3, <1>4 DEF Flow, Joins
  <1>5. ASSUME NEW i \in DOMAIN Q, Q[i].what \in {"setup", "denied"}
        PROVE  Q[i].hash = "crc" /\ Q[i].key = Plain
    BY <1>3, <1>5 DEF Flow, Joins
  <1>6. ASSUME NEW i \in DOMAIN Q, Q[i].what = "setup", NEW j \in DOMAIN Q, Q[j].what = "setup"
        PROVE  i = j
    BY <1>3, <1>6 DEF Flow, Joins
  <1>7. ASSUME NEW i \in DOMAIN Q, Q[i].what \in {"ready", "call"}, NEW j \in DOMAIN Q, i <= j
        PROVE  Q[j].hash = "crc" /\ Q[j].key = key
    <2>1. CASE j \in DOMAIN P
      <3>1. i \in DOMAIN P /\ Q[i] = P[i] /\ Q[j] = P[j]
        BY <1>2, <1>7, <2>1
      <3> QED
        BY <1>7, <2>1, <3>1 DEF Flow
    <2>2. CASE j = Len(P) + 1
      BY <1>2, <1>3, <1>7, <2>2 DEF Joins
    <2> QED
      BY <1>3, <2>1, <2>2
  <1>8. Flow(Q, key)
    BY <1>4, <1>5, <1>6, <1>7 DEF Flow
  <1> QED
    BY <1>8 DEF Q

LEMMA ConfSame ==
  ASSUME conf' = conf
  PROVE  /\ Keyed' = Keyed /\ ServerKey' = ServerKey /\ ClientKey' = ClientKey
         /\ KeysAgree' = KeysAgree /\ conf'.required = conf.required
  BY DEF Keyed, ServerKey, ClientKey, KeysAgree

\* What the keys are.
LEMMA Keys ==
  ASSUME Types
  PROVE  /\ Keyed \in BOOLEAN
         /\ Keyed => ClientKey = <<conf.client, "server">> /\ ClientKey # Plain
         /\ ~Keyed => ClientKey = Plain /\ ServerKey = Plain
         /\ Keyed /\ KeysAgree => conf.client = conf.server /\ ServerKey = <<conf.client, "client">>
         /\ Plain \in Cipher /\ ServerKey \in Cipher
         /\ <<conf.server, "server">> \in Cipher /\ <<conf.server, "client">> \in Cipher
         /\ Keyed => <<conf.client, "server">> \in Cipher /\ <<conf.client, "client">> \in Cipher
  BY DEF Types, Keyed, ServerKey, ClientKey, KeysAgree, Plain, Cipher, End

\* What comes first and is not the timeout can be read by the client.
LEMMA ClientUnderstands ==
  ASSUME IInv, open["client"], To("client") # <<>>, To("client")[1].what # "timeout"
  PROVE  Decodes("client", To("client")[1])
  <1> DEFINE p == To("client")[1]
  <1>0. Types
    BY DEF IInv
  <1>1. 1 \in DOMAIN To("client") /\ p.what \in ServerMay
    BY <1>0, ToType, BothEnds DEF IInv, ToClientInv
  <1>2. stage["client"] \in {"hello", "setup", "ready"} /\ checker["client"] \in {"none", "crc"}
    BY BothEnds DEF IInv, Types, ClientInv
  <1>3. CASE p.what = "hello"
    BY <1>1, <1>3 DEF IInv, ToClientInv, Flow, ServerMay, ClientInv, Decodes
  <1>4. CASE p.what = "setup"
    <2>1. p.hash = "crc" /\ p.key = Plain
      BY <1>1, <1>4 DEF IInv, ToClientInv, Flow
    <2>2. Keyed /\ checker["server"] = "crc" /\ trans["client"] = Plain
      BY <1>1, <1>4 DEF ServerMay, IInv, ServerInv
    <2>3. checker["client"] = "crc" /\ rev["client"] = Plain
      BY <1>0, <1>2, <2>2, Keys DEF IInv, ClientInv
    <2> QED
      BY <2>1, <2>3 DEF Decodes
  <1>5. CASE p.what = "denied"
    <2>1. p.hash = "crc" /\ p.key = Plain
      BY <1>1, <1>5 DEF IInv, ToClientInv, Flow
    <2>2. ~Keyed /\ checker["server"] = "crc"
      BY <1>1, <1>5 DEF ServerMay
    <2>3. checker["client"] = "crc" /\ rev["client"] = Plain
      BY <1>2, <2>2 DEF IInv, ClientInv
    <2> QED
      BY <2>1, <2>3 DEF Decodes
  <1>6. CASE p.what \in {"ready", "call"}
    <2>1. p.hash = "crc" /\ p.key = ServerKey
      BY <1>1, <1>6 DEF IInv, ToClientInv, Flow
    <2>2. KeysAgree /\ checker["server"] = "crc" /\ trans["client"] = ClientKey
      BY <1>1, <1>6 DEF ServerMay, IInv, ServerInv
    <2>3. checker["client"] = "crc" /\ rev["client"] = ServerKey
      BY <1>0, <1>2, <2>2, Keys DEF IInv, ClientInv
    <2> QED
      BY <2>1, <2>3 DEF Decodes
  <1> QED
    BY <1>1, <1>3, <1>4, <1>5, <1>6 DEF ServerMay

\* What the server reads in the handshake can be read, if the keys agree.
LEMMA ServerUnderstands ==
  ASSUME IInv, mode["server"] = "handshake", To("server") # <<>>
  PROVE  /\ Len(To("server")) = 1 /\ posted["client"] = <<>>
         /\ To("server")[1].what \in {"select_none", "select_cipher", "setup"}
         /\ To("server")[1].what # "setup" \/ KeysAgree => Decodes("server", To("server")[1])
  <1> DEFINE p == To("server")[1]
  <1>0. Types
    BY DEF IInv
  <1>1. /\ 1 \in DOMAIN To("server") /\ Len(To("server")) = 1 /\ posted["client"] = <<>>
    <2>1. posted["client"] \in Seq(What)
      BY <1>0, BothEnds DEF Types
    <2>2. Len(posted["client"]) \in Nat /\ (Len(posted["client"]) = 0 => posted["client"] = <<>>)
      BY <2>1, EmptySeq, LenProperties
    <2>3. /\ Len(To("server")) \in Nat /\ DOMAIN To("server") = 1..Len(To("server"))
          /\ Len(To("server")) # 0
      BY <1>0, ToType, BothEnds
    <2>4. Len(To("server")) + Len(posted["client"]) <= 1
      BY DEF IInv, ToServerInv
    <2>5. Len(To("server")) = 1 /\ Len(posted["client"]) = 0
      <3> DEFINE a == Len(To("server"))  b == Len(posted["client"])
      <3>1. a \in Nat /\ b \in Nat /\ a # 0 /\ a + b <= 1
        BY <2>2, <2>3, <2>4
      <3> HIDE DEF a, b
      <3>2. a = 1 /\ b = 0
        BY <3>1
      <3> QED
        BY <3>2 DEF a, b
    <2> QED
      BY <2>2, <2>3, <2>5
  <1>2. p.what \in ClientMay /\ p.hash = HashOf(p.what) /\ p.key = trans["client"]
    BY <1>1 DEF IInv, ToServerInv
  <1>3. p.what # "call"
    BY <1>2 DEF ClientMay, IInv, ClientInv
  <1>4. CASE p.what \in {"select_none", "select_cipher"}
    BY <1>1, <1>2, <1>4 DEF ClientMay, HashOf, IInv, ServerInv, Decodes
  <1>5. CASE p.what = "setup"
    BY <1>0, <1>1, <1>2, <1>5, Keys DEF ClientMay, HashOf, IInv, ServerInv, Decodes
  <1> QED
    BY <1>1, <1>2, <1>3, <1>4, <1>5 DEF ClientMay

\* Packets that the client takes leave the rest as it should be, if what c
\* stands for was the only message that may not be left.
LEMMA ClientTook ==
  ASSUME Types, PostedInv, ToClientInv, conf' = conf, NEW k,
         Drops(To("client"), To("client")', k),
         posted'["server"] = posted["server"], NEW c,
         ServerMay \ {c} \subseteq ServerMay',
         \A i \in DOMAIN posted["server"] : posted["server"][i] # c,
         \A i \in DOMAIN To("client")' : To("client")'[i].what # c
  PROVE  /\ PostedInv'
         /\ \A i \in DOMAIN To("client")' : To("client")'[i].what \in ServerMay'
         /\ Flow(To("client"), ServerKey)'
  <1> DEFINE P == To("client")  Q == To("client")'  S == posted["server"]
  <1>1. /\ P \in Seq(Packet) /\ Q \in Seq(Packet) /\ S \in Seq(What)
        /\ DOMAIN S = 1..Len(S) /\ P # <<>>
        /\ \A i \in DOMAIN Q : \E j \in DOMAIN P : Q[i] = P[j]
    <2>1. S \in Seq(What)
      BY BothEnds DEF Types
    <2>2. P # <<>>
      BY EmptySeq DEF Drops
    <2> QED
      BY <2>1, <2>2, LenProperties DEF Drops
  <1>2. /\ \A i \in DOMAIN S : S[i] \in What
        /\ \A i \in DOMAIN P : P[i] \in Packet /\ P[i].what \in What
    <2>1. DOMAIN P = 1..Len(P) /\ \A i \in 1..Len(P) : P[i] \in Packet
      BY <1>1, ElementOfSeq, LenProperties
    <2>2. \A p \in Packet : p.what \in What
      BY DEF Packet
    <2>3. \A i \in 1..Len(S) : S[i] \in What
      BY <1>1, ElementOfSeq
    <2> QED
      BY <1>1, <2>1, <2>2, <2>3
  <1>3. \A i \in DOMAIN Q : Q[i].what \in ServerMay'
    BY <1>1, <1>2 DEF ToClientInv
  <1>4. Flow(Q, ServerKey)
    BY FlowDrops DEF ToClientInv
  <1>5. Flow(To("client"), ServerKey)'
    BY <1>4, ConfSame
  <1>6. \A i \in DOMAIN S :
          /\ S[i] \in ServerMay' /\ S[i] # "hello"
          /\ S[i] = "setup" =>
               /\ \A j \in DOMAIN S : S[j] = "setup" => i = j
               /\ \A j \in DOMAIN Q : Q[j].what # "setup"
    BY <1>1, <1>2 DEF PostedInv
  <1>7. PostedInv'
    <2> HIDE DEF S, Q
    <2> QED
      BY <1>6 DEF PostedInv, S, Q
  <1> QED
    BY <1>3, <1>5, <1>7

\* Nobody handles a call that was not made, if none is added.
LEMMA NoneHandled ==
  ASSUME Types, HandledInv, calls' = calls, handled' = handled,
         \A e \in End : /\ CountIn(To(e), CallPackets)' <= CountIn(To(e), CallPackets)
                        /\ CountIn(posted[e], {"call"})' <= CountIn(posted[e], {"call"})
                        /\ CountIn(To(e), CallPackets)' \in Nat
                        /\ CountIn(posted[e], {"call"})' \in Nat
  PROVE  HandledInv'
  <1>1. SUFFICES ASSUME NEW e \in End
        PROVE  handled[e] + CountIn(To(e), CallPackets)' + CountIn(posted[Peer(e)], {"call"})'
                 <= calls[Peer(e)]
    BY Zenon DEF HandledInv
  <1>2. handled[e] + CountIn(To(e), CallPackets) + CountIn(posted[Peer(e)], {"call"})
          <= calls[Peer(e)]
    BY DEF HandledInv
  <1>3. Peer(e) \in End /\ handled[e] \in Nat /\ calls[Peer(e)] \in Nat
    <2>1. handled \in [End -> Nat] /\ calls \in [End -> 0..MaxCalls]
      BY DEF Types
    <2>2. 0..MaxCalls \subseteq Nat
      BY HandshakeAssumption
    <2> QED
      BY <2>1, <2>2, BothEnds
  <1>4. CountIn(To(e), CallPackets) \in Nat /\ CountIn(posted[Peer(e)], {"call"}) \in Nat
    BY <1>3, ToType
  <1> QED
    BY <1>2, <1>3, <1>4

LEMMA PostCount ==
  ASSUME NEW q \in Seq(What), NEW w \in What, w # "call"
  PROVE  CountIn(Append(q, w), {"call"}) = CountIn(q, {"call"}) /\ CountIn(q, {"call"}) \in Nat
  <1>1. CountIn(Append(q, w), {"call"}) = CountIn(q, {"call"}) + IF w \in {"call"} THEN 1 ELSE 0
    BY CountAppend
  <1>2. CountIn(q, {"call"}) \in Nat
    BY CountNat
  <1> QED
    BY <1>1, <1>2

LEMMA ReadCounts ==
  ASSUME Types, HandledInv, calls' = calls, handled' = handled,
         NEW e \in End, NEW k, Drops(To(e), To(e)', k), To(Peer(e))' = To(Peer(e)),
         posted'[Peer(e)] = posted[Peer(e)],
         \/ posted'[e] = posted[e]
         \/ \E w \in What \ {"call"} : posted'[e] = Append(posted[e], w)
  PROVE  HandledInv'
  <1>1. Peer(e) \in End /\ End = {e, Peer(e)} /\ posted[e] \in Seq(What)
    BY BothEnds DEF End, Peer, Types
  <1>2. /\ CountIn(To(e), CallPackets)' <= CountIn(To(e), CallPackets)
        /\ CountIn(To(e), CallPackets)' \in Nat
    BY CountDrops
  <1>3. /\ CountIn(To(Peer(e)), CallPackets)' = CountIn(To(Peer(e)), CallPackets)
        /\ CountIn(posted[Peer(e)], {"call"})' = CountIn(posted[Peer(e)], {"call"})
    OBVIOUS
  <1>4. CountIn(posted[e], {"call"})' = CountIn(posted[e], {"call"})
    <2>1. CASE posted'[e] = posted[e]
      BY <2>1
    <2>2. CASE \E w \in What \ {"call"} : posted'[e] = Append(posted[e], w)
      BY <1>1, <2>2, PostCount
    <2> QED
      BY <2>1, <2>2
  <1>5. /\ CountIn(To(Peer(e)), CallPackets) \in Nat
        /\ CountIn(posted[e], {"call"}) \in Nat
        /\ CountIn(posted[Peer(e)], {"call"}) \in Nat
    BY <1>1, ToType
  <1>6. \A x \in End : /\ CountIn(To(x), CallPackets)' <= CountIn(To(x), CallPackets)
                      /\ CountIn(posted[x], {"call"})' <= CountIn(posted[x], {"call"})
                      /\ CountIn(To(x), CallPackets)' \in Nat
                      /\ CountIn(posted[x], {"call"})' \in Nat
    <2> SUFFICES ASSUME NEW x \in End
                 PROVE  /\ CountIn(To(x), CallPackets)' <= CountIn(To(x), CallPackets)
                        /\ CountIn(posted[x], {"call"})' <= CountIn(posted[x], {"call"})
                        /\ CountIn(To(x), CallPackets)' \in Nat
                        /\ CountIn(posted[x], {"call"})' \in Nat
      OBVIOUS
    <2>1. CASE x = e
      BY <2>1, <1>2, <1>4, <1>5
    <2>2. CASE x = Peer(e)
      BY <2>2, <1>3, <1>5
    <2> QED
      BY <1>1, <2>1, <2>2
  <1> QED
    BY <1>6, NoneHandled

\* Nothing was posted to the client, and nothing came or went.
HelloKept ==
  \/ closing
  \/ /\ closing' => closing
     /\ open'["client"] => open["client"]
     /\ open'["client"] /\ open["server"] => open'["server"]

ClientSideSame ==
  /\ conf' = conf /\ To("client")' = To("client") /\ HelloKept
  /\ checker'["client"] = checker["client"] /\ mode'["client"] = mode["client"]
  /\ ServerMay \subseteq ServerMay' /\ (open'["client"] => open["client"])

LEMMA ToClientSame ==
  ASSUME Types, PostedInv, ToClientInv, ClientSideSame, posted'["server"] = posted["server"]
  PROVE  PostedInv' /\ ToClientInv'
  <1>1. PostedInv'
    BY DEF PostedInv, ClientSideSame, HelloKept
  <1>2. ToClientInv'
    BY ConfSame DEF ToClientInv, ClientSideSame
  <1> QED
    BY <1>1, <1>2

LEMMA ToClientPosted ==
  ASSUME Types, PostedInv, ToClientInv, ClientSideSame,
         NEW w \in ServerMay', w # "hello",
         posted'["server"] = Append(posted["server"], w),
         w = "setup" => /\ \A j \in DOMAIN posted["server"] : posted["server"][j] # "setup"
                        /\ \A j \in DOMAIN To("client") : To("client")[j].what # "setup"
  PROVE  PostedInv' /\ ToClientInv'
  <1> DEFINE S == posted["server"]  R == Append(posted["server"], w)
  <1>1. S \in Seq(What) /\ w \in What
    BY BothEnds DEF Types, ServerMay
  <1>2. /\ DOMAIN S = 1..Len(S) /\ Len(S) \in Nat
        /\ DOMAIN R = 1..(Len(S) + 1) /\ R # <<>>
        /\ \A i \in 1..Len(S) : R[i] = S[i]
        /\ R[Len(S) + 1] = w
    BY <1>1, AppendProperties, LenProperties
  <1> HIDE DEF S, R
  <1>3. \A i \in DOMAIN R : (i \in DOMAIN S /\ R[i] = S[i]) \/ (i = Len(S) + 1 /\ R[i] = w)
    BY <1>2
  <1>4. /\ posted'["server"] = R /\ To("client")' = To("client") /\ posted["server"] = S
        /\ ServerMay \subseteq ServerMay' /\ HelloKept
    BY DEF ClientSideSame, R, S
  <1>5. \A i \in DOMAIN S :
          /\ S[i] \in ServerMay
          /\ S[i] = "hello" =>
               i = 1 /\ To("client") = <<>> /\ ~closing /\ (open["client"] => open["server"])
          /\ S[i] = "setup" =>
               /\ \A j \in DOMAIN S : S[j] = "setup" => i = j
               /\ \A j \in DOMAIN To("client") : To("client")[j].what # "setup"
    BY DEF PostedInv, S
  <1>6. w = "setup" => /\ \A j \in DOMAIN S : S[j] # "setup"
                       /\ \A j \in DOMAIN To("client") : To("client")[j].what # "setup"
    BY DEF S
  <1>7. \A i \in DOMAIN R :
          /\ R[i] \in ServerMay'
          /\ R[i] = "hello" =>
               i = 1 /\ To("client") = <<>> /\ ~closing' /\ (open'["client"] => open'["server"])
          /\ R[i] = "setup" =>
               /\ \A j \in DOMAIN R : R[j] = "setup" => i = j
               /\ \A j \in DOMAIN To("client") : To("client")[j].what # "setup"
    BY <1>3, <1>4, <1>5, <1>6 DEF HelloKept
  <1>8. PostedInv'
    BY <1>4, <1>7 DEF PostedInv
  <1>9. posted["server"] # <<>> /\ posted["server"][1] = "hello" =>
          posted'["server"] # <<>> /\ posted'["server"][1] = "hello"
    <2>1. S # <<>> => 1 \in 1..Len(S)
      BY <1>1, EmptySeq DEF S
    <2> QED
      BY <1>2, <1>4, <2>1
  <1>10. ToClientInv'
    BY <1>9, ConfSame DEF ToClientInv, ClientSideSame
  <1> QED
    BY <1>8, <1>10

\* The same for what is on its way to the server.
LEMMA ToServerSame ==
  ASSUME ToServerInv, To("server")' = To("server"), posted'["client"] = posted["client"],
         queue'["server"] = <<>>, ClientMay \subseteq ClientMay',
         maker'["client"] = maker["client"], trans'["client"] = trans["client"],
         checker'["client"] = checker["client"],
         mode'["server"] = "handshake" => mode["server"] = "handshake"
  PROVE  ToServerInv'
  BY DEF ToServerInv, HashOf

LEMMA ToServerNone ==
  ASSUME To("server")' = <<>>, posted'["client"] = <<>>, queue'["server"] = <<>>,
         checker'["client"] = "crc" => maker'["client"] = "crc"
  PROVE  ToServerInv'
  <1>1. DOMAIN To("server")' = {} /\ Len(To("server"))' = 0
    OBVIOUS
  <1>2. DOMAIN posted'["client"] = {} /\ Len(posted'["client"]) = 0
    OBVIOUS
  <1> QED
    BY <1>1, <1>2 DEF ToServerInv

LEMMA HelloStep ==
  ASSUME IInv, NEW n \in Nat, on_hello_call(n)
  PROVE  IInv'
  <1> DEFINE w == IF Keyed THEN "select_cipher" ELSE "select_none"
             st == IF Keyed THEN "setup" ELSE "ready"
  <1>0. Types /\ do_handshake("client", n) /\ open["client"] /\ mode["client"] = "handshake"
    BY DEF IInv, on_hello_call, Stage, do_handshake
  <1>1. /\ conf' = conf /\ ready' = ready /\ mode' = mode /\ maker' = maker /\ trans' = trans
        /\ rev' = rev /\ open' = open /\ closing' = closing /\ timer' = timer
        /\ errors' = errors /\ calls' = calls /\ handled' = handled /\ garbled' = garbled
    BY DEF on_hello_call, histVars
  <1>2. /\ stage["client"] = "hello"
        /\ checker' = [checker EXCEPT !["client"] = "crc"]
        /\ stage' = [stage EXCEPT !["client"] = st]
        /\ posted' = [posted EXCEPT !["client"] = Append(@, w)]
    BY DEF on_hello_call, Stage, Post, Keyed
  <1>3. /\ Drops(To("client"), To("client")', 1)
        /\ To("server")' = To("server") /\ queue'["server"] = queue["server"]
        /\ net' \in [End -> Seq(Packet)] /\ queue' \in [End -> Seq(Packet)]
    BY <1>0, Takes, BothEnds
  <1>4. /\ checker["client"] = "none" /\ maker["client"] = "none"
        /\ trans["client"] = Plain /\ rev["client"] = Plain
        /\ posted["client"] = <<>> /\ To("server") = <<>> /\ checker["server"] = "none"
        /\ stage["server"] = "selection" /\ mode["server"] = "handshake"
    BY <1>2 DEF IInv, ClientInv, ServerInv
  <1>5. /\ checker'["client"] = "crc" /\ checker'["server"] = "none"
        /\ stage'["client"] = st /\ stage'["server"] = "selection"
        /\ posted'["client"] = <<w>> /\ posted'["server"] = posted["server"]
        /\ posted' \in [End -> Seq(What)]
        /\ checker' \in [End -> {"none", "crc"}]
        /\ stage' \in [End -> {"hello", "setup", "ready", "error", "selection", "transformer"}]
    <2>1. w \in What /\ st \in {"setup", "ready"}
      BY DEF What, Capsule
    <2>2. Append(posted["client"], w) = <<w>> /\ <<w>> \in Seq(What)
      BY <1>4, <2>1
    <2> HIDE DEF w, st
    <2> QED
      BY <1>0, <1>2, <1>4, <2>1, <2>2, BothEnds DEF Types
  <1>6. Types'
    BY <1>0, <1>1, <1>3, <1>5 DEF Types
  <1>7. ClientInv'
    BY <1>0, <1>1, <1>4, <1>5, ConfSame, Keys DEF IInv, ClientInv
  <1>8. ServerInv'
    BY <1>1, <1>4, <1>5, ConfSame DEF IInv, ServerInv
  <1>9. ToServerInv'
    <2>1. w \in ClientMay' /\ maker'["client"] = HashOf(w)
      BY <1>1, <1>4, <1>5, ConfSame DEF ClientMay, HashOf, What, Capsule
    <2>2. queue'["server"] = <<>> /\ To("server")' = <<>>
      BY <1>3, <1>4 DEF IInv, ToServerInv
    <2> HIDE DEF w
    <2>3. DOMAIN posted'["client"] = {1} /\ posted'["client"][1] = w /\ Len(posted'["client"]) = 1
      BY <1>5
    <2>4. DOMAIN To("server")' = {} /\ Len(To("server"))' = 0
      BY <2>2
    <2> QED
      BY <2>1, <2>2, <2>3, <2>4 DEF ToServerInv
  <1>10. ServerMay \ {"hello"} \subseteq ServerMay'
    BY <1>1, <1>4, <1>5, ConfSame DEF ServerMay
  <1>11. /\ PostedInv' /\ Flow(To("client"), ServerKey)'
         /\ \A i \in DOMAIN To("client")' : To("client")'[i].what \in ServerMay'
    <2>1. To("client") # <<>>
      BY <1>3, EmptySeq DEF Drops
    <2>2. \A i \in DOMAIN posted["server"] : posted["server"][i] # "hello"
      BY <2>1 DEF IInv, PostedInv
    <2>3. \A i \in DOMAIN To("client")' : To("client")'[i].what # "hello"
      BY <1>3, FlowDrops DEF IInv, ToClientInv
    <2>4. PostedInv /\ ToClientInv
      BY DEF IInv
    <2> QED
      BY <1>0, <1>1, <1>3, <1>5, <1>10, <2>2, <2>3, <2>4, ClientTook
  <1>12. ToClientInv'
    BY <1>0, <1>1, <1>5, <1>11 DEF ToClientInv
  <1>13. ErrorInv' /\ LeftInv' /\ Understood'
    BY <1>0, <1>1, ConfSame DEF IInv, ErrorInv, LeftInv, Understood
  <1>14. HandledInv'
    <2>1. w \in What \ {"call"}
      BY DEF What, Capsule
    <2>2. posted'["client"] = Append(posted["client"], w)
      BY <1>0, <1>2, BothEnds DEF Types
    <2> HIDE DEF w
    <2>3. \E v \in What \ {"call"} : posted'["client"] = Append(posted["client"], v)
      BY <2>1, <2>2
    <2>4. HandledInv
      BY DEF IInv
    <2> QED
      BY <1>0, <1>1, <1>3, <1>5, <2>3, <2>4, ReadCounts, BothEnds
  <1> QED
    BY <1>6, <1>7, <1>8, <1>9, <1>11, <1>12, <1>13, <1>14 DEF IInv

\* What the client reads first, and what is there besides.
LEMMA ClientFront ==
  ASSUME IInv, NEW n \in Nat, do_handshake("client", n)
  PROVE  /\ Drops(To("client"), To("client")', 1) /\ Front("client", n) = To("client")[1]
         /\ To("server")' = To("server") /\ queue'["server"] = <<>>
         /\ net' \in [End -> Seq(Packet)] /\ queue' \in [End -> Seq(Packet)]
         /\ To("client") # <<>> /\ 1 \in DOMAIN To("client")
         /\ open["client"] /\ mode["client"] = "handshake" /\ ~ready["client"]
         /\ \A i \in DOMAIN posted["server"] : posted["server"][i] # "hello"
         /\ \A i \in DOMAIN To("client")' : To("client")'[i].what # "hello"
  <1>1. Types /\ ToClientInv /\ PostedInv /\ ToServerInv
    BY DEF IInv
  <1>2. /\ Drops(To("client"), To("client")', 1) /\ Front("client", n) = To("client")[1]
        /\ To("server")' = To("server") /\ queue'["server"] = queue["server"]
        /\ net' \in [End -> Seq(Packet)] /\ queue' \in [End -> Seq(Packet)]
    BY <1>1, Takes, BothEnds
  <1>3. To("client") # <<>> /\ 1 \in DOMAIN To("client")
    BY <1>2, EmptySeq DEF Drops
  <1>4. open["client"] /\ mode["client"] = "handshake" /\ ~ready["client"]
    BY DEF do_handshake, IInv, ClientInv
  <1>5. \A i \in DOMAIN posted["server"] : posted["server"][i] # "hello"
    BY <1>1, <1>3 DEF PostedInv
  <1>6. \A i \in DOMAIN To("client")' : To("client")'[i].what # "hello"
    BY <1>1, <1>2, FlowDrops DEF ToClientInv
  <1> QED
    BY <1>1, <1>2, <1>3, <1>4, <1>5, <1>6 DEF ToServerInv

\* The server's setup: the client answers with its own and keys its cipher.
LEMMA SetupStep ==
  ASSUME IInv, NEW n \in Nat, on_trans_setup(n), Front("client", n).what = "setup"
  PROVE  IInv'
  <1>0. Types /\ do_handshake("client", n) /\ PostedInv /\ ToClientInv /\ HandledInv
    BY DEF IInv, on_trans_setup, Stage
  <1>1. /\ conf' = conf /\ ready' = ready /\ mode' = mode /\ maker' = maker
        /\ checker' = checker /\ open' = open /\ closing' = closing /\ timer' = timer
        /\ errors' = errors /\ calls' = calls /\ handled' = handled /\ garbled' = garbled
    BY DEF on_trans_setup
  <1>2. /\ stage["client"] = "setup"
        /\ trans' = [trans EXCEPT !["client"] = <<conf.client, "server">>]
        /\ rev' = [rev EXCEPT !["client"] = <<conf.client, "client">>]
        /\ stage' = [stage EXCEPT !["client"] = "ready"]
        /\ posted' = [posted EXCEPT !["client"] = Append(@, "setup")]
    BY DEF on_trans_setup, Stage, Post
  <1>3. /\ Drops(To("client"), To("client")', 1) /\ To("client")[1].what = "setup"
        /\ To("server")' = To("server") /\ queue'["server"] = <<>>
        /\ net' \in [End -> Seq(Packet)] /\ queue' \in [End -> Seq(Packet)]
        /\ 1 \in DOMAIN To("client") /\ open["client"] /\ mode["client"] = "handshake"
        /\ \A i \in DOMAIN posted["server"] : posted["server"][i] # "hello"
        /\ \A i \in DOMAIN To("client")' : To("client")'[i].what # "hello"
    BY <1>0, ClientFront
  <1>4. /\ Keyed /\ stage["server"] = "transformer" /\ mode["server"] = "handshake"
        /\ trans["client"] = Plain
    BY <1>0, <1>3 DEF ToClientInv, ServerMay
  <1>5. checker["client"] = "crc" /\ checker["server"] = "crc" /\ maker["client"] = "crc"
    BY <1>0, <1>2, <1>4, BothEnds DEF Types, IInv, ClientInv, ServerInv
  <1>6. "setup" \notin ClientMay /\ ClientMay = {}
    BY <1>0, <1>3, <1>4, <1>5, Keys DEF ClientMay
  <1>7. posted["client"] = <<>> /\ To("server") = <<>>
    <2>1. DOMAIN posted["client"] = {} /\ DOMAIN To("server") = {}
      BY <1>6 DEF IInv, ToServerInv
    <2>2. posted["client"] \in Seq(What)
      BY <1>0, BothEnds DEF Types
    <2>3. DOMAIN posted["client"] = 1..Len(posted["client"]) /\ Len(posted["client"]) \in Nat
      BY <2>2, LenProperties
    <2>4. Len(posted["client"]) = 0
      BY <2>1, <2>3
    <2>5. Len(To("server")) = 0
      BY <1>0, <2>1, ToType, BothEnds
    <2> QED
      BY <1>0, <2>2, <2>4, <2>5, ToType, BothEnds, EmptySeq
  <1>8. /\ stage'["client"] = "ready" /\ stage'["server"] = stage["server"]
        /\ stage' \in [End -> {"hello", "setup", "ready", "error", "selection", "transformer"}]
        /\ trans'["client"] = ClientKey /\ trans'["server"] = trans["server"]
        /\ rev'["client"] = <<conf.client, "client">> /\ rev'["server"] = rev["server"]
        /\ trans' \in [End -> Cipher] /\ rev' \in [End -> Cipher]
    BY <1>0, <1>2, <1>4, Keys, BothEnds DEF Types
  <1>9. /\ posted'["client"] = <<"setup">> /\ posted'["server"] = posted["server"]
        /\ posted'["client"] = Append(posted["client"], "setup")
        /\ posted' \in [End -> Seq(What)]
    <2>1. "setup" \in What
      BY DEF What, Capsule
    <2>2. Append(posted["client"], "setup") = <<"setup">> /\ <<"setup">> \in Seq(What)
      BY <1>7, <2>1
    <2> QED
      BY <1>0, <1>2, <2>1, <2>2, BothEnds DEF Types
  <1>10. Types'
    BY <1>0, <1>1, <1>3, <1>8, <1>9 DEF Types
  <1>11. ClientInv'
    BY <1>0, <1>1, <1>2, <1>3, <1>4, <1>5, <1>8, ConfSame, Keys DEF IInv, ClientInv
  <1>12. ServerInv'
    BY <1>1, <1>4, <1>8, ConfSame DEF IInv, ServerInv
  <1>13. ToServerInv'
    <2>1. "setup" \in ClientMay' /\ maker'["client"] = HashOf("setup")
      BY <1>1, <1>4, <1>5, <1>8, ConfSame DEF ClientMay, HashOf, What, Capsule
    <2>2. DOMAIN posted'["client"] = {1} /\ posted'["client"][1] = "setup" /\ Len(posted'["client"]) = 1
      BY <1>9
    <2>3. DOMAIN To("server")' = {} /\ Len(To("server"))' = 0
      BY <1>3, <1>7
    <2> QED
      BY <1>1, <1>3, <1>5, <2>1, <2>2, <2>3 DEF ToServerInv
  <1>14. ServerMay \ {"setup"} \subseteq ServerMay'
    BY <1>1, <1>8, ConfSame DEF ServerMay
  <1>15. /\ PostedInv' /\ Flow(To("client"), ServerKey)'
         /\ \A i \in DOMAIN To("client")' : To("client")'[i].what \in ServerMay'
    <2>1. \A i \in DOMAIN posted["server"] : posted["server"][i] # "setup"
      BY <1>0, <1>3 DEF PostedInv
    <2>2. \A i \in DOMAIN To("client")' : To("client")'[i].what # "setup"
      <3> SUFFICES ASSUME NEW i \in DOMAIN To("client")', To("client")'[i].what = "setup"
                   PROVE  FALSE
        OBVIOUS
      <3>1. /\ i \in 1..Len(To("client")') /\ i + 1 \in DOMAIN To("client")
            /\ To("client")'[i] = To("client")[i + 1] /\ Len(To("client")') \in Nat
        BY <1>3, LenProperties DEF Drops
      <3>2. 1 = i + 1
        BY <1>0, <1>3, <3>1 DEF ToClientInv, Flow
      <3> QED
        BY <3>1, <3>2
    <2> QED
      BY <1>0, <1>1, <1>3, <1>9, <1>14, <2>1, <2>2, ClientTook
  <1>16. ToClientInv'
    BY <1>1, <1>3, <1>5, <1>15 DEF ToClientInv
  <1>17. ErrorInv' /\ LeftInv' /\ Understood'
    BY <1>1, <1>3, ConfSame DEF IInv, ErrorInv, LeftInv, Understood
  <1>18. HandledInv'
    <2>1. \E v \in What \ {"call"} : posted'["client"] = Append(posted["client"], v)
      BY <1>9 DEF What, Capsule
    <2> QED
      BY <1>0, <1>1, <1>3, <1>9, <2>1, ReadCounts, BothEnds
  <1> QED
    BY <1>10, <1>11, <1>12, <1>13, <1>15, <1>16, <1>17, <1>18 DEF IInv

\* The client gives up what it has read and closes.
GivesUp(n) ==
  /\ do_handshake("client", n)
  /\ checker["client"] = "crc"
  /\ stage' \in {stage, [stage EXCEPT !["client"] = "error"]}
  /\ open' = [open EXCEPT !["client"] = FALSE]
  /\ errors' \in {errors + 1, errors + 2}
  /\ conf' = conf /\ ready' = ready /\ mode' = mode /\ maker' = maker
  /\ checker' = checker /\ trans' = trans /\ rev' = rev /\ posted' = posted
  /\ closing' = closing /\ timer' = timer /\ calls' = calls /\ handled' = handled
  /\ garbled' \in {garbled, garbled \cup {<<"client", "timeout">>}}

LEMMA GiveUpStep ==
  ASSUME IInv, NEW n \in Nat, GivesUp(n)
  PROVE  IInv'
  <1>0. Types /\ do_handshake("client", n) /\ PostedInv /\ ToClientInv /\ HandledInv
    BY DEF IInv, GivesUp
  <1>1. /\ conf' = conf /\ ready' = ready /\ mode' = mode /\ maker' = maker
        /\ checker' = checker /\ trans' = trans /\ rev' = rev /\ posted' = posted
        /\ closing' = closing /\ timer' = timer /\ calls' = calls /\ handled' = handled
        /\ checker["client"] = "crc"
    BY DEF GivesUp
  <1>2. /\ open'["client"] = FALSE /\ open'["server"] = open["server"]
        /\ open' \in [End -> BOOLEAN]
        /\ stage'["client"] \in {stage["client"], "error"} /\ stage'["server"] = stage["server"]
        /\ stage' \in [End -> {"hello", "setup", "ready", "error", "selection", "transformer"}]
        /\ stage'["client"] \in {"hello", "setup", "ready", "error"}
    <2>1. open' = [open EXCEPT !["client"] = FALSE] /\ open \in [End -> BOOLEAN]
      BY <1>0 DEF Types, GivesUp
    <2>2. /\ stage' = stage \/ stage' = [stage EXCEPT !["client"] = "error"]
          /\ stage \in [End -> {"hello", "setup", "ready", "error", "selection", "transformer"}]
          /\ stage["client"] \in {"hello", "setup", "ready", "error"}
      BY <1>0 DEF Types, GivesUp
    <2> QED
      BY <2>1, <2>2, BothEnds
  <1>3. /\ Drops(To("client"), To("client")', 1)
        /\ To("server")' = To("server") /\ queue'["server"] = <<>>
        /\ net' \in [End -> Seq(Packet)] /\ queue' \in [End -> Seq(Packet)]
        /\ open["client"] /\ mode["client"] = "handshake"
        /\ \A i \in DOMAIN posted["server"] : posted["server"][i] # "hello"
        /\ \A i \in DOMAIN To("client")' : To("client")'[i].what # "hello"
    BY <1>0, ClientFront
  <1>4. errors' \in 1..2 /\ errors' \in Nat /\ garbled' \subseteq End \X What
    BY <1>0, <1>3 DEF GivesUp, Types, IInv, ErrorInv, End, What, Capsule
  <1>5. Types'
    BY <1>0, <1>1, <1>2, <1>3, <1>4 DEF Types
  <1>6. ClientInv'
    BY <1>1, <1>2, <1>3, ConfSame DEF IInv, ClientInv
  <1>7. ServerInv'
    BY <1>1, <1>2, ConfSame DEF IInv, ServerInv
  <1>8. ToServerInv'
    <2>1. ClientMay \subseteq ClientMay'
      BY <1>1, <1>2, ConfSame DEF ClientMay
    <2> QED
      BY <1>1, <1>3, <2>1, ToServerSame DEF IInv
  <1>9. ServerMay \ {"hello"} \subseteq ServerMay'
    BY <1>1, <1>2, ConfSame DEF ServerMay
  <1>10. /\ PostedInv' /\ Flow(To("client"), ServerKey)'
         /\ \A i \in DOMAIN To("client")' : To("client")'[i].what \in ServerMay'
    <2>1. posted'["server"] = posted["server"]
      BY <1>1
    <2> QED
      BY <1>0, <1>1, <1>3, <1>9, <2>1, ClientTook
  <1>11. ToClientInv'
    BY <1>1, <1>3, <1>10 DEF ToClientInv
  <1>12. ErrorInv' /\ LeftInv'
    BY <1>1, <1>2, <1>3, <1>4 DEF IInv, ErrorInv, LeftInv
  <1>13. Understood'
    BY <1>1, ConfSame DEF GivesUp, IInv, Understood
  <1>14. HandledInv'
    <2>1. posted'["client"] = posted["client"] /\ posted'["server"] = posted["server"]
      BY <1>1
    <2> QED
      BY <1>0, <1>1, <1>3, <2>1, ReadCounts, BothEnds
  <1> QED
    BY <1>5, <1>6, <1>7, <1>8, <1>10, <1>11, <1>12, <1>13, <1>14 DEF IInv

LEMMA RefusedStep ==
  ASSUME IInv, NEW n \in Nat, on_trans_setup(n), Front("client", n).what # "setup"
  PROVE  IInv'
  <1>1. Types /\ do_handshake("client", n) /\ stage["client"] = "setup"
    BY DEF IInv, on_trans_setup, Stage
  <1>2. checker["client"] = "crc"
    BY <1>1, BothEnds DEF Types, IInv, ClientInv
  <1>3. ~ready["client"] /\ errors \in Nat
    BY <1>1, ClientFront DEF Types
  <1>4. stage' = stage
    <2>1. stage' = [stage EXCEPT !["client"] = "setup"]
      BY DEF on_trans_setup, ClientCloses
    <2>2. stage \in [End -> {"hello", "setup", "ready", "error", "selection", "transformer"}]
      BY <1>1 DEF Types
    <2> QED
      BY <1>1, <2>1, <2>2
  <1>5. errors' = errors + 2
    BY <1>3 DEF on_trans_setup, ClientCloses
  <1>6. GivesUp(n)
    BY <1>1, <1>2, <1>4, <1>5 DEF GivesUp, on_trans_setup, ClientCloses
  <1> QED
    BY <1>6, GiveUpStep

LEMMA NotReadyStep ==
  ASSUME IInv, NEW n \in Nat, on_server_ready(n), Front("client", n).what # "ready"
  PROVE  IInv'
  <1>1. Types /\ do_handshake("client", n) /\ stage["client"] = "ready"
    BY DEF IInv, on_server_ready, Stage
  <1>2. checker["client"] = "crc"
    BY <1>1, BothEnds DEF Types, IInv, ClientInv
  <1>3. errors' = errors + 1
    BY <1>1 DEF on_server_ready, ClientCloses, Types
  <1>4. GivesUp(n)
    BY <1>1, <1>2, <1>3 DEF GivesUp, on_server_ready, ClientCloses, codecVars
  <1> QED
    BY <1>4, GiveUpStep

\* Only the timeout can be misread.
LEMMA BadHashStep ==
  ASSUME IInv, NEW n \in Nat, ClientBadHash(n)
  PROVE  IInv'
  <1>1. Types /\ do_handshake("client", n) /\ ~Decodes("client", Front("client", n))
    BY DEF IInv, ClientBadHash
  <1>2. /\ Front("client", n) = To("client")[1] /\ To("client") # <<>> /\ open["client"]
    BY <1>1, ClientFront
  <1>3. Front("client", n).what = "timeout"
    BY <1>1, <1>2, ClientUnderstands
  <1>4. checker["client"] = "crc"
    BY <1>1, <1>2, <1>3, BothEnds DEF Types, IInv, ToClientInv
  <1>5. errors' = errors + 1
    BY <1>1 DEF ClientBadHash, ClientCloses, Types
  <1>6. GivesUp(n)
    BY <1>1, <1>3, <1>4, <1>5 DEF GivesUp, ClientBadHash, ClientCloses, codecVars
  <1> QED
    BY <1>6, GiveUpStep

\* The ready capsule: everything behind it is packed as the client reads.
LEMMA ReadyStep ==
  ASSUME IInv, NEW n \in Nat, on_server_ready(n), Front("client", n).what = "ready"
  PROVE  IInv'
  <1>0. /\ Types /\ do_handshake("client", n) /\ PostedInv /\ ToClientInv /\ HandledInv
        /\ ToServerInv /\ stage["client"] = "ready"
    BY DEF IInv, on_server_ready, Stage
  <1>1. /\ conf' = conf /\ maker' = maker /\ checker' = checker /\ trans' = trans /\ rev' = rev
        /\ posted' = posted /\ open' = open /\ stage' = stage /\ closing' = closing
        /\ timer' = timer /\ errors' = errors /\ calls' = calls /\ handled' = handled
        /\ garbled' = garbled
        /\ ready' = [ready EXCEPT !["client"] = TRUE]
        /\ mode' = [mode EXCEPT !["client"] = "ready"]
    BY DEF on_server_ready, codecVars
  <1>2. /\ mode'["client"] = "ready" /\ mode'["server"] = mode["server"] /\ ready'["client"]
        /\ mode' \in [End -> {"handshake", "ready"}] /\ ready' \in [End -> BOOLEAN]
    BY <1>0, <1>1, BothEnds DEF Types
  <1>3. /\ Drops(To("client"), To("client")', 1) /\ To("client")[1].what = "ready"
        /\ To("server")' = To("server") /\ queue'["server"] = <<>>
        /\ net' \in [End -> Seq(Packet)] /\ queue' \in [End -> Seq(Packet)]
        /\ 1 \in DOMAIN To("client") /\ open["client"] /\ mode["client"] = "handshake"
        /\ \A i \in DOMAIN posted["server"] : posted["server"][i] # "hello"
        /\ \A i \in DOMAIN To("client")' : To("client")'[i].what # "hello"
    BY <1>0, ClientFront
  <1>4. mode["server"] = "ready" /\ checker["server"] = "crc" /\ maker["client"] = "crc"
    BY <1>0, <1>3 DEF ToClientInv, ServerMay, IInv, ServerInv
  <1>5. checker["client"] = "crc"
    BY <1>0, BothEnds DEF Types, IInv, ClientInv
  <1>6. Types'
    BY <1>0, <1>1, <1>2, <1>3 DEF Types
  <1>7. ClientInv'
    BY <1>0, <1>1, <1>2, <1>3, <1>4, <1>5, ConfSame DEF IInv, ClientInv
  <1>8. ServerInv'
    BY <1>1, <1>2, ConfSame DEF IInv, ServerInv
  <1>9. ToServerInv'
    <2>1. ClientMay \subseteq ClientMay'
      BY <1>1, <1>2, ConfSame DEF ClientMay
    <2> QED
      BY <1>0, <1>1, <1>2, <1>3, <2>1, ToServerSame
  <1>10. ServerMay \ {"hello"} \subseteq ServerMay'
    BY <1>1, <1>2, ConfSame DEF ServerMay
  <1>11. /\ PostedInv' /\ Flow(To("client"), ServerKey)'
         /\ \A i \in DOMAIN To("client")' : To("client")'[i].what \in ServerMay'
    <2>1. posted'["server"] = posted["server"]
      BY <1>1
    <2> QED
      BY <1>0, <1>1, <1>3, <1>10, <2>1, ClientTook
  <1>12. \A i \in DOMAIN To("client")' :
           To("client")'[i].hash = "crc" /\ To("client")'[i].key = ServerKey
    <2> SUFFICES ASSUME NEW i \in DOMAIN To("client")'
                 PROVE  To("client")'[i].hash = "crc" /\ To("client")'[i].key = ServerKey
      OBVIOUS
    <2>1. /\ i + 1 \in DOMAIN To("client") /\ i \in Nat
          /\ To("client")'[i] = To("client")[i + 1] /\ 1 <= i + 1
      BY <1>3, LenProperties DEF Drops
    <2> QED
      BY <1>0, <1>3, <2>1 DEF ToClientInv, Flow
  <1>13. ToClientInv'
    BY <1>1, <1>5, <1>11, <1>12, ConfSame DEF ToClientInv
  <1>14. ErrorInv' /\ LeftInv' /\ Understood'
    BY <1>1, <1>3, <1>2, ConfSame DEF IInv, ErrorInv, LeftInv, Understood
  <1>15. HandledInv'
    <2>1. posted'["client"] = posted["client"] /\ posted'["server"] = posted["server"]
      BY <1>1
    <2> QED
      BY <1>0, <1>1, <1>3, <2>1, ReadCounts, BothEnds
  <1> QED
    BY <1>6, <1>7, <1>8, <1>9, <1>11, <1>13, <1>14, <1>15 DEF IInv

LEMMA CallCounts ==
  ASSUME Types, HandledInv, calls' = calls, posted' = posted, NEW e \in End,
         To(e)' \in Seq(Packet), To(Peer(e))' = To(Peer(e)),
         handled'[Peer(e)] = handled[Peer(e)],
         handled'[e] + CountIn(To(e)', CallPackets) = handled[e] + CountIn(To(e), CallPackets)
  PROVE  HandledInv'
  <1>1. Peer(e) \in End /\ End = {e, Peer(e)}
    BY BothEnds DEF End, Peer
  <1>2. handled'[e] + CountIn(To(e)', CallPackets) + CountIn(posted[Peer(e)], {"call"})
          <= calls[Peer(e)]
    BY DEF HandledInv
  <1>3. /\ CountIn(To(Peer(e))', CallPackets) = CountIn(To(Peer(e)), CallPackets)
        /\ handled[Peer(e)] + CountIn(To(Peer(e)), CallPackets)
             + CountIn(posted[Peer(Peer(e))], {"call"}) <= calls[Peer(Peer(e))]
    BY <1>1 DEF HandledInv
  <1>4. \A x \in End : handled'[x] + CountIn(To(x), CallPackets)'
                         + CountIn(posted[Peer(x)], {"call"}) <= calls[Peer(x)]
    BY <1>1, <1>2, <1>3
  <1> QED
    BY <1>4, Zenon DEF HandledInv

\* Calls and what else comes to a client that is ready.
LEMMA ClientCallStep ==
  ASSUME IInv, NEW n \in Nat, ready_call("client", n)
  PROVE  IInv'
  <1>0. /\ Types /\ PostedInv /\ ToClientInv /\ HandledInv /\ ToServerInv
        /\ mode["client"] = "ready"
    BY DEF IInv, ready_call
  <1>1. /\ conf' = conf /\ stage' = stage /\ ready' = ready /\ mode' = mode /\ maker' = maker
        /\ checker' = checker /\ trans' = trans /\ rev' = rev /\ posted' = posted
        /\ closing' = closing /\ timer' = timer /\ errors' = errors /\ calls' = calls
    BY DEF ready_call, codecVars
  <1>2. /\ checker["client"] = "crc" /\ rev["client"] = ServerKey
    BY <1>0, Keys, BothEnds DEF Types, IInv, ClientInv, ServerInv
  <1>3. \A i \in DOMAIN To("client") : Decodes("client", To("client")[i])
    BY <1>0, <1>2 DEF ToClientInv, Decodes
  <1>4. /\ \E k \in Nat : Drops(To("client"), To("client")', k)
        /\ queue'["client"] = <<>> /\ queue'["server"] = queue["server"]
        /\ To("server")' = To("server")
        /\ net' \in [End -> Seq(Packet)] /\ queue' \in [End -> Seq(Packet)]
        /\ open' = open /\ garbled' = garbled
        /\ handled' \in [End -> Nat] /\ handled'["server"] = handled["server"]
        /\ handled'["client"] + CountIn(To("client")', CallPackets)
             = handled["client"] + CountIn(To("client"), CallPackets)
    BY <1>0, <1>3, TakesAll, BothEnds
  <1>5. PICK k \in Nat : Drops(To("client"), To("client")', k)
    BY <1>4
  <1>6. Types'
    BY <1>0, <1>1, <1>4 DEF Types
  <1>7. ClientInv' /\ ServerInv'
    BY <1>1, <1>4, ConfSame DEF IInv, ClientInv, ServerInv
  <1>8. ToServerInv'
    <2>1. ClientMay \subseteq ClientMay'
      BY <1>1, ConfSame DEF ClientMay
    <2>2. queue'["server"] = <<>>
      BY <1>0, <1>4 DEF ToServerInv
    <2> QED
      BY <1>0, <1>1, <1>4, <2>1, <2>2, ToServerSame
  <1>9. ServerMay \ {"hello"} \subseteq ServerMay'
    BY <1>1, ConfSame DEF ServerMay
  <1>10. To("client") # <<>>
    BY <1>5, EmptySeq DEF Drops
  <1>11. /\ PostedInv' /\ Flow(To("client"), ServerKey)'
         /\ \A i \in DOMAIN To("client")' : To("client")'[i].what \in ServerMay'
    <2>1. posted'["server"] = posted["server"]
      BY <1>1
    <2>2. \A i \in DOMAIN posted["server"] : posted["server"][i] # "hello"
      BY <1>0, <1>10 DEF PostedInv
    <2>3. \A i \in DOMAIN To("client")' : To("client")'[i].what # "hello"
      BY <1>0, <1>5, FlowDrops DEF ToClientInv
    <2> QED
      BY <1>0, <1>1, <1>5, <1>9, <2>1, <2>2, <2>3, ClientTook
  <1>12. \A i \in DOMAIN To("client")' :
           To("client")'[i].hash = "crc" /\ To("client")'[i].key = ServerKey
    BY <1>0, <1>5 DEF ToClientInv, Drops
  <1>13. ToClientInv'
    BY <1>1, <1>2, <1>11, <1>12, ConfSame DEF ToClientInv
  <1>14. ErrorInv' /\ LeftInv' /\ Understood'
    BY <1>0, <1>1, <1>4, ConfSame DEF IInv, ErrorInv, LeftInv, Understood
  <1>15. HandledInv'
    <2>1. To("client")' \in Seq(Packet)
      BY <1>5 DEF Drops
    <2> QED
      BY <1>0, <1>1, <1>4, <2>1, CallCounts, BothEnds
  <1> QED
    BY <1>6, <1>7, <1>8, <1>11, <1>13, <1>14, <1>15 DEF IInv

------------------------------------------------------------------------------
\* What the server reads in the handshake is the only message on its way.
LEMMA ServerFront ==
  ASSUME IInv, NEW n \in Nat, do_handshake("server", n)
  PROVE  /\ Drops(To("server"), To("server")', 1) /\ Front("server", n) = To("server")[1]
         /\ To("client")' = To("client") /\ queue'["server"] = <<>>
         /\ queue'["client"] = queue["client"]
         /\ net' \in [End -> Seq(Packet)] /\ queue' \in [End -> Seq(Packet)]
         /\ To("server")' = <<>> /\ posted["client"] = <<>>
         /\ mode["server"] = "handshake"
         /\ checker["client"] = "crc" /\ maker["client"] = "crc"
         /\ 1 \in DOMAIN To("server")
         /\ To("server")[1].what \in ClientMay /\ To("server")[1].key = trans["client"]
         /\ To("server")[1].what \in {"select_none", "select_cipher", "setup"}
         /\ To("server")[1].what # "setup" \/ KeysAgree => Decodes("server", To("server")[1])
  <1>1. Types /\ ToServerInv /\ mode["server"] = "handshake"
    BY DEF IInv, do_handshake
  <1>2. /\ Drops(To("server"), To("server")', 1) /\ Front("server", n) = To("server")[1]
        /\ To("client")' = To("client") /\ queue'["client"] = queue["client"]
        /\ net' \in [End -> Seq(Packet)] /\ queue' \in [End -> Seq(Packet)]
        /\ queue["server"] = <<>> /\ Len(To("server")) = 1 => queue'["server"] = <<>>
    BY <1>1, Takes, BothEnds
  <1>3. To("server") # <<>> /\ 1 \in DOMAIN To("server")
    BY <1>2, EmptySeq DEF Drops
  <1>4. /\ Len(To("server")) = 1 /\ posted["client"] = <<>>
        /\ To("server")[1].what \in {"select_none", "select_cipher", "setup"}
        /\ To("server")[1].what # "setup" \/ KeysAgree => Decodes("server", To("server")[1])
    BY <1>1, <1>3, ServerUnderstands
  <1>5. To("server")' = <<>>
    <2>1. To("server")' \in Seq(Packet) /\ Len(To("server")') = 0
      BY <1>2, <1>4 DEF Drops
    <2> QED
      BY <2>1, EmptySeq
  <1>6. queue'["server"] = <<>>
    BY <1>1, <1>2, <1>4 DEF ToServerInv
  <1>7. checker["client"] = "crc"
    BY <1>1, <1>3, BothEnds DEF Types, IInv, ClientInv
  <1>8. maker["client"] = "crc" /\ To("server")[1].what \in ClientMay
        /\ To("server")[1].key = trans["client"]
    BY <1>1, <1>3, <1>4, <1>7 DEF ToServerInv
  <1> QED
    BY <1>1, <1>2, <1>3, <1>4, <1>5, <1>6, <1>7, <1>8

\* What every step of the server in the handshake has in common.
ServerAnswers(n) ==
  /\ do_handshake("server", n)
  /\ conf' = conf /\ open' = open /\ closing' = closing
  /\ errors' = errors /\ calls' = calls /\ handled' = handled
  /\ stage'["client"] = stage["client"] /\ ready'["client"] = ready["client"]
  /\ mode'["client"] = mode["client"] /\ maker'["client"] = maker["client"]
  /\ checker'["client"] = checker["client"] /\ trans'["client"] = trans["client"]
  /\ rev'["client"] = rev["client"] /\ posted'["client"] = posted["client"]
  /\ ServerMay \subseteq ServerMay'
  /\ \/ posted' = posted
     \/ \E w \in ServerMay' :
          /\ w # "hello" /\ w # "call" /\ (w = "setup" => "setup" \notin ServerMay)
          /\ posted' = [posted EXCEPT !["server"] = Append(@, w)]

NewTypes ==
  /\ stage' \in [End -> {"hello", "setup", "ready", "error", "selection", "transformer"}]
  /\ stage'["server"] \in {"selection", "transformer"}
  /\ ready' \in [End -> BOOLEAN]
  /\ mode' \in [End -> {"handshake", "ready"}]
  /\ maker' \in [End -> {"none", "crc"}] /\ checker' \in [End -> {"none", "crc"}]
  /\ trans' \in [End -> Cipher] /\ rev' \in [End -> Cipher]
  /\ timer' \in {"armed", "due", "posting", "off"}
  /\ garbled' \subseteq End \X What

LEMMA ServerAnswerStep ==
  ASSUME IInv, NEW n \in Nat, ServerAnswers(n), NewTypes, ServerInv', Understood'
  PROVE  IInv'
  <1>0. /\ Types /\ do_handshake("server", n) /\ PostedInv /\ ToClientInv /\ HandledInv
    BY DEF IInv, ServerAnswers
  <1>1. /\ conf' = conf /\ open' = open /\ closing' = closing
        /\ errors' = errors /\ calls' = calls /\ handled' = handled
        /\ stage'["client"] = stage["client"] /\ ready'["client"] = ready["client"]
        /\ mode'["client"] = mode["client"] /\ maker'["client"] = maker["client"]
        /\ checker'["client"] = checker["client"] /\ trans'["client"] = trans["client"]
        /\ rev'["client"] = rev["client"] /\ posted'["client"] = posted["client"]
        /\ ServerMay \subseteq ServerMay'
    BY DEF ServerAnswers
  <1>2. /\ Drops(To("server"), To("server")', 1)
        /\ To("client")' = To("client") /\ queue'["server"] = <<>>
        /\ queue'["client"] = queue["client"]
        /\ net' \in [End -> Seq(Packet)] /\ queue' \in [End -> Seq(Packet)]
        /\ To("server")' = <<>> /\ posted["client"] = <<>>
        /\ mode["server"] = "handshake"
        /\ checker["client"] = "crc" /\ maker["client"] = "crc"
    BY <1>0, ServerFront
  <1>3. mode["client"] = "handshake"
    BY <1>0, <1>2, BothEnds DEF Types, IInv, ClientInv
  <1>4. \/ posted' = posted
        \/ \E w \in ServerMay' :
             /\ w # "hello" /\ w # "call" /\ (w = "setup" => "setup" \notin ServerMay)
             /\ posted' = [posted EXCEPT !["server"] = Append(@, w)]
    BY DEF ServerAnswers
  <1>5. posted \in [End -> Seq(What)]
    BY <1>0 DEF Types
  <1>6. ClientSideSame
    BY <1>1, <1>2 DEF ClientSideSame, HelloKept
  <1>7. /\ posted' \in [End -> Seq(What)] /\ PostedInv' /\ ToClientInv'
        /\ \/ posted'["server"] = posted["server"]
           \/ \E v \in What \ {"call"} : posted'["server"] = Append(posted["server"], v)
    <2>1. CASE posted' = posted
      BY <1>0, <1>5, <1>6, <2>1, ToClientSame
    <2>2. ASSUME NEW w \in ServerMay',
                 w # "hello" /\ w # "call" /\ (w = "setup" => "setup" \notin ServerMay),
                 posted' = [posted EXCEPT !["server"] = Append(@, w)]
          PROVE  <1>7!:
      <3>1. w \in What
        BY DEF ServerMay
      <3>2. Append(posted["server"], w) \in Seq(What)
        BY <1>5, <3>1, AppendAt, BothEnds
      <3>3. posted' \in [End -> Seq(What)] /\ posted'["server"] = Append(posted["server"], w)
        BY <1>5, <2>2, <3>2, BothEnds
      <3>4. w = "setup" => /\ \A j \in DOMAIN posted["server"] : posted["server"][j] # "setup"
                           /\ \A j \in DOMAIN To("client") : To("client")[j].what # "setup"
        BY <1>0, <2>2 DEF PostedInv, ToClientInv
      <3>5. PostedInv' /\ ToClientInv'
        BY <1>0, <1>6, <2>2, <3>3, <3>4, ToClientPosted
      <3> QED
        BY <2>2, <3>1, <3>3, <3>5
    <2> QED
      BY <1>4, <2>1, <2>2
  <1>8. Types'
    BY <1>0, <1>1, <1>2, <1>7 DEF Types, NewTypes
  <1>9. ClientInv'
    BY <1>1, <1>2, <1>3, ConfSame DEF IInv, ClientInv
  <1>10. ToServerInv'
    BY <1>1, <1>2, ToServerNone
  <1>11. ErrorInv' /\ LeftInv'
    BY <1>1, <1>2 DEF IInv, ErrorInv, LeftInv
  <1>12. HandledInv'
    BY <1>0, <1>1, <1>2, <1>7, ReadCounts, BothEnds
  <1> QED
    BY <1>7, <1>8, <1>9, <1>10, <1>11, <1>12 DEF IInv

\* The client's selection: the server is ready, refuses, or sends its salts.
LEMMA SelectionStep ==
  ASSUME IInv, NEW n \in Nat, on_client_selection(n)
  PROVE  IInv'
  <1> DEFINE what == Front("server", n).what
  <1>0. /\ Types /\ do_handshake("server", n) /\ stage["server"] = "selection"
        /\ setup_transformer(what)
    BY DEF IInv, on_client_selection, Stage
  <1>1. /\ conf' = conf /\ trans' = trans /\ open' = open /\ closing' = closing
        /\ errors' = errors /\ calls' = calls /\ handled' = handled /\ garbled' = garbled
        /\ checker' = [checker EXCEPT !["server"] = "crc"]
        /\ maker' = [maker EXCEPT !["server"] = "crc"]
    BY DEF on_client_selection, histVars
  <1>2. /\ checker'["server"] = "crc" /\ checker'["client"] = checker["client"]
        /\ maker'["server"] = "crc" /\ maker'["client"] = maker["client"]
        /\ maker' \in [End -> {"none", "crc"}] /\ checker' \in [End -> {"none", "crc"}]
    BY <1>0, <1>1, BothEnds DEF Types
  <1>3. /\ what \in ClientMay /\ what \in {"select_none", "select_cipher", "setup"}
        /\ mode["server"] = "handshake" /\ maker["client"] = "crc" /\ checker["client"] = "crc"
    BY <1>0, ServerFront
  <1> HIDE DEF what
  <1>4. /\ checker["server"] = "none" /\ trans["client"] = Plain
        /\ \/ what = "select_none" /\ ~Keyed
           \/ what = "select_cipher" /\ Keyed
    BY <1>0, <1>3 DEF ClientMay
  <1>5. rev["server"] = Plain /\ trans["server"] = Plain
    BY <1>0, <1>3 DEF IInv, ServerInv
  <1>6. ServerMay \subseteq {"timeout"}
    BY <1>0, <1>3, <1>4 DEF ServerMay
  <1>7. Understood'
    BY <1>1, ConfSame DEF IInv, Understood
  <1>8. CASE what = "select_none" /\ ~conf.required
    <2>1. /\ timer' = (IF timer = "armed" THEN "off" ELSE timer) /\ rev' = rev /\ stage' = stage
          /\ ready' = [ready EXCEPT !["server"] = TRUE]
          /\ mode' = [mode EXCEPT !["server"] = "ready"]
          /\ posted' = [posted EXCEPT !["server"] = Append(@, "ready")]
      BY <1>0, <1>8 DEF setup_transformer, set_client_ready, Post
    <2>2. /\ mode'["server"] = "ready" /\ mode'["client"] = mode["client"]
          /\ ready'["client"] = ready["client"] /\ posted'["client"] = posted["client"]
          /\ ready' \in [End -> BOOLEAN] /\ mode' \in [End -> {"handshake", "ready"}]
      BY <1>0, <2>1, BothEnds DEF Types
    <2>3. NewTypes
      BY <1>0, <1>1, <1>2, <2>1, <2>2 DEF NewTypes, Types
    <2>4. ServerInv'
      BY <1>0, <1>1, <1>2, <1>3, <1>4, <1>5, <1>8, <2>1, <2>2, ConfSame, Keys
         DEF ServerInv, KeysAgree, Keyed
    <2>5. "ready" \in ServerMay' /\ "timeout" \in ServerMay'
      BY <2>2 DEF ServerMay, What, Capsule
    <2>6. ServerAnswers(n)
      <3>1. \E w \in ServerMay' :
              /\ w # "hello" /\ w # "call" /\ (w = "setup" => "setup" \notin ServerMay)
              /\ posted' = [posted EXCEPT !["server"] = Append(@, w)]
        BY <2>1, <2>5
      <3> QED
        BY <1>0, <1>1, <1>2, <1>6, <2>1, <2>2, <2>5, <3>1 DEF ServerAnswers
    <2> QED
      BY <1>7, <2>3, <2>4, <2>6, ServerAnswerStep
  <1>9. CASE what = "select_none" /\ conf.required
    <2>1. /\ timer' = timer /\ rev' = rev /\ stage' = stage /\ ready' = ready /\ mode' = mode
          /\ posted' = [posted EXCEPT !["server"] = Append(@, "denied")]
      BY <1>0, <1>9 DEF setup_transformer, Post
    <2>2. posted'["client"] = posted["client"]
      BY <1>0, <2>1, BothEnds DEF Types
    <2>3. NewTypes
      BY <1>0, <1>1, <1>2, <2>1 DEF NewTypes, Types
    <2>4. ServerInv'
      BY <1>0, <1>1, <1>2, <1>3, <1>5, <2>1, ConfSame DEF ServerInv
    <2>5. "denied" \in ServerMay' /\ "timeout" \in ServerMay'
      BY <1>1, <1>2, <1>3, <1>4, <1>9, <2>1, ConfSame DEF ServerMay, What, Capsule
    <2>6. ServerAnswers(n)
      <3>1. \E w \in ServerMay' :
              /\ w # "hello" /\ w # "call" /\ (w = "setup" => "setup" \notin ServerMay)
              /\ posted' = [posted EXCEPT !["server"] = Append(@, w)]
        BY <1>6, <2>1, <2>5
      <3> QED
        BY <1>0, <1>1, <1>2, <1>6, <2>1, <2>2, <2>5, <3>1 DEF ServerAnswers
    <2> QED
      BY <1>7, <2>3, <2>4, <2>6, ServerAnswerStep
  <1>10. CASE what = "select_cipher"
    <2>1. /\ timer' = timer /\ ready' = ready /\ mode' = mode
          /\ rev' = [rev EXCEPT !["server"] = <<conf.server, "server">>]
          /\ stage' = [stage EXCEPT !["server"] = "transformer"]
          /\ posted' = [posted EXCEPT !["server"] = Append(@, "setup")]
      BY <1>0, <1>10 DEF setup_transformer, Post
    <2>2. /\ rev'["server"] = <<conf.server, "server">> /\ rev'["client"] = rev["client"]
          /\ stage'["server"] = "transformer" /\ stage'["client"] = stage["client"]
          /\ rev' \in [End -> Cipher] /\ posted'["client"] = posted["client"]
          /\ stage' \in [End -> {"hello", "setup", "ready", "error", "selection", "transformer"}]
      BY <1>0, <2>1, Keys, BothEnds DEF Types
    <2>3. NewTypes
      BY <1>0, <1>1, <1>2, <2>1, <2>2 DEF NewTypes, Types
    <2>4. ServerInv'
      BY <1>0, <1>1, <1>2, <1>3, <1>4, <1>5, <1>10, <2>1, <2>2, ConfSame DEF ServerInv
    <2>5. "setup" \in ServerMay' /\ "timeout" \in ServerMay'
      BY <1>1, <1>2, <1>3, <1>4, <1>10, <2>1, <2>2, ConfSame DEF ServerMay, What, Capsule
    <2>6. ServerAnswers(n)
      <3>1. \E w \in ServerMay' :
              /\ w # "hello" /\ w # "call" /\ (w = "setup" => "setup" \notin ServerMay)
              /\ posted' = [posted EXCEPT !["server"] = Append(@, w)]
        BY <1>6, <2>1, <2>5
      <3> QED
        BY <1>0, <1>1, <1>2, <1>6, <2>1, <2>2, <2>5, <3>1 DEF ServerAnswers
    <2> QED
      BY <1>7, <2>3, <2>4, <2>6, ServerAnswerStep
  <1> QED
    BY <1>0, <1>4, <1>8, <1>9, <1>10 DEF setup_transformer

\* The client's salts: that they can be read shows that the keys agree.
LEMMA TransformerStep ==
  ASSUME IInv, NEW n \in Nat, on_client_transformer(n)
  PROVE  IInv'
  <1> DEFINE p == Front("server", n)
  <1>0. /\ Types /\ do_handshake("server", n) /\ stage["server"] = "transformer"
        /\ Decodes("server", p)
    BY DEF IInv, on_client_transformer, Stage
  <1>1. /\ conf' = conf /\ stage' = stage /\ maker' = maker /\ checker' = checker
        /\ rev' = rev /\ open' = open /\ closing' = closing
        /\ errors' = errors /\ calls' = calls /\ handled' = handled /\ garbled' = garbled
        /\ trans' = [trans EXCEPT !["server"] = <<conf.server, "client">>]
        /\ timer' = (IF timer = "armed" THEN "off" ELSE timer)
        /\ ready' = [ready EXCEPT !["server"] = TRUE]
        /\ mode' = [mode EXCEPT !["server"] = "ready"]
        /\ posted' = [posted EXCEPT !["server"] = Append(@, "ready")]
    BY DEF on_client_transformer, histVars, set_client_ready, Post
  <1>2. /\ p.what \in ClientMay /\ p.what \in {"select_none", "select_cipher", "setup"}
        /\ p.key = trans["client"] /\ checker["client"] = "crc"
    BY <1>0, ServerFront
  <1> HIDE DEF p
  <1>3. Keyed /\ checker["server"] = "crc" /\ rev["server"] = <<conf.server, "server">>
    BY <1>0 DEF IInv, ServerInv
  <1>4. trans["client"] = ClientKey
    BY <1>2, <1>3 DEF ClientMay
  <1>5. conf.client = conf.server /\ KeysAgree
    <2>1. <<conf.client, "server">> = <<conf.server, "server">>
      BY <1>0, <1>2, <1>3, <1>4, Keys DEF Decodes
    <2> QED
      BY <2>1 DEF KeysAgree
  <1>6. /\ mode'["server"] = "ready" /\ mode'["client"] = mode["client"]
        /\ ready'["client"] = ready["client"] /\ posted'["client"] = posted["client"]
        /\ trans'["server"] = ServerKey /\ trans'["client"] = trans["client"]
        /\ ready' \in [End -> BOOLEAN] /\ mode' \in [End -> {"handshake", "ready"}]
        /\ trans' \in [End -> Cipher]
    <2>1. ServerKey = <<conf.server, "client">> /\ <<conf.server, "client">> \in Cipher
      BY <1>0, <1>3, <1>5, Keys
    <2> QED
      BY <1>0, <1>1, <2>1, BothEnds DEF Types
  <1>7. NewTypes
    BY <1>0, <1>1, <1>6 DEF NewTypes, Types
  <1>8. ServerInv'
    BY <1>0, <1>1, <1>3, <1>4, <1>5, <1>6, ConfSame DEF IInv, ServerInv
  <1>9. Understood'
    BY <1>1, ConfSame DEF IInv, Understood
  <1>10. "ready" \in ServerMay'
    BY <1>6 DEF ServerMay, What, Capsule
  <1>11. ServerMay \subseteq ServerMay'
    BY <1>0, <1>1, <1>2, <1>3, <1>4, <1>6, ConfSame, Keys DEF ServerMay
  <1>12. ServerAnswers(n)
    BY <1>0, <1>1, <1>6, <1>10, <1>11 DEF ServerAnswers
  <1> QED
    BY <1>7, <1>8, <1>9, <1>12, ServerAnswerStep

\* Salts that the server cannot read.
LEMMA ServerBadHashStep ==
  ASSUME IInv, NEW n \in Nat, ServerBadHash(n)
  PROVE  IInv'
  <1>0. Types /\ do_handshake("server", n) /\ ~Decodes("server", Front("server", n))
    BY DEF IInv, ServerBadHash
  <1>1. /\ conf' = conf /\ stage' = stage /\ ready' = ready /\ mode' = mode /\ maker' = maker
        /\ checker' = checker /\ trans' = trans /\ rev' = rev /\ posted' = posted
        /\ open' = open /\ closing' = closing /\ timer' = timer /\ errors' = errors
        /\ calls' = calls /\ handled' = handled
        /\ garbled' = garbled \cup {<<"server", Front("server", n).what>>}
    BY DEF ServerBadHash, codecVars
  <1>2. Front("server", n).what = "setup" /\ ~KeysAgree
    BY <1>0, ServerFront
  <1>3. NewTypes
    BY <1>0, <1>1, <1>2 DEF NewTypes, Types, End, What, Capsule
  <1>4. ServerInv'
    BY <1>1, ConfSame DEF IInv, ServerInv
  <1>5. Understood'
    BY <1>1, <1>2, ConfSame DEF IInv, Understood
  <1>6. ServerMay \subseteq ServerMay'
    BY <1>1, ConfSame DEF ServerMay
  <1>7. ServerAnswers(n)
    BY <1>0, <1>1, <1>6 DEF ServerAnswers
  <1> QED
    BY <1>3, <1>4, <1>5, <1>7, ServerAnswerStep

\* Calls of the client.
LEMMA ServerCallStep ==
  ASSUME IInv, NEW n \in Nat, ready_call("server", n)
  PROVE  IInv'
  <1>0. /\ Types /\ PostedInv /\ ToClientInv /\ HandledInv /\ ToServerInv
        /\ mode["server"] = "ready"
    BY DEF IInv, ready_call
  <1>1. /\ conf' = conf /\ stage' = stage /\ ready' = ready /\ mode' = mode /\ maker' = maker
        /\ checker' = checker /\ trans' = trans /\ rev' = rev /\ posted' = posted
        /\ closing' = closing /\ timer' = timer /\ errors' = errors /\ calls' = calls
    BY DEF ready_call, codecVars
  <1>2. /\ checker["server"] = "crc" /\ rev["server"] = ClientKey
        /\ trans["client"] = ClientKey
    BY <1>0, Keys DEF IInv, ServerInv
  <1>3. \A i \in DOMAIN To("server") : Decodes("server", To("server")[i])
    BY <1>0, <1>2 DEF ToServerInv, ClientMay, HashOf, Decodes
  <1>4. /\ \E k \in Nat : Drops(To("server"), To("server")', k)
        /\ queue'["server"] = <<>> /\ queue'["client"] = queue["client"]
        /\ To("client")' = To("client")
        /\ net' \in [End -> Seq(Packet)] /\ queue' \in [End -> Seq(Packet)]
        /\ open' = open /\ garbled' = garbled
        /\ handled' \in [End -> Nat] /\ handled'["client"] = handled["client"]
        /\ handled'["server"] + CountIn(To("server")', CallPackets)
             = handled["server"] + CountIn(To("server"), CallPackets)
    BY <1>0, <1>3, TakesAll, BothEnds
  <1>5. PICK k \in Nat : Drops(To("server"), To("server")', k)
    BY <1>4
  <1>6. Types'
    BY <1>0, <1>1, <1>4 DEF Types
  <1>7. To("server") # <<>>
    BY <1>5, EmptySeq DEF Drops
  <1>8. ClientInv' /\ ServerInv'
    BY <1>1, <1>4, <1>7, ConfSame DEF IInv, ClientInv, ServerInv
  <1>9. ClientMay \subseteq ClientMay'
    BY <1>1, ConfSame DEF ClientMay
  <1>10. ToServerInv'
    <2>1. \A i \in DOMAIN To("server")' : \E j \in DOMAIN To("server") :
            To("server")'[i] = To("server")[j]
      BY <1>5 DEF Drops
    <2>2. \A i \in DOMAIN To("server")' :
            /\ To("server")'[i].what \in ClientMay
            /\ To("server")'[i].hash = HashOf(To("server")'[i].what)
            /\ To("server")'[i].key = trans["client"]
      BY <1>0, <2>1 DEF ToServerInv
    <2>3. \A i \in DOMAIN posted["client"] :
            posted["client"][i] \in ClientMay /\ maker["client"] = HashOf(posted["client"][i])
      BY <1>0 DEF ToServerInv
    <2>4. posted["client"] = <<>> /\ checker["client"] = "crc" => maker["client"] = "crc"
      BY <1>0 DEF ToServerInv
    <2> QED
      BY <1>0, <1>1, <1>4, <1>9, <2>2, <2>3, <2>4 DEF ToServerInv
  <1>11. ServerMay \subseteq ServerMay'
    BY <1>1, ConfSame DEF ServerMay
  <1>12. ClientSideSame
    BY <1>1, <1>4, <1>11 DEF ClientSideSame, HelloKept
  <1>13. PostedInv' /\ ToClientInv'
    BY <1>0, <1>1, <1>12, ToClientSame
  <1>14. ErrorInv' /\ LeftInv' /\ Understood'
    BY <1>0, <1>1, <1>4, ConfSame DEF IInv, ErrorInv, LeftInv, Understood
  <1>15. HandledInv'
    <2>1. To("server")' \in Seq(Packet)
      BY <1>5 DEF Drops
    <2> QED
      BY <1>0, <1>1, <1>4, <2>1, CallCounts, BothEnds
  <1> QED
    BY <1>6, <1>8, <1>10, <1>13, <1>14, <1>15 DEF IInv

------------------------------------------------------------------------------
\* Steps that move no packet.
Quiet ==
  /\ conf' = conf /\ mode' = mode /\ maker' = maker /\ checker' = checker
  /\ trans' = trans /\ rev' = rev /\ net' = net /\ queue' = queue
  /\ handled' = handled /\ garbled' = garbled /\ stage' = stage
  /\ ready'["client"] = ready["client"]

LEMMA QuietSame ==
  ASSUME IInv, Quiet
  PROVE  /\ To("client")' = To("client") /\ To("server")' = To("server")
         /\ queue'["server"] = <<>>
         /\ ServerInv' /\ LeftInv' /\ Understood'
         /\ ClientMay' = ClientMay /\ ServerMay' = ServerMay
         /\ \A e \in End : CountIn(To(e), CallPackets)' = CountIn(To(e), CallPackets)
  <1>1. \A e \in End : To(e)' = To(e)
    BY DEF Quiet, To
  <1>2. ServerInv' /\ LeftInv' /\ Understood'
    BY ConfSame DEF Quiet, IInv, ServerInv, LeftInv, Understood
  <1>3. ClientMay' = ClientMay /\ ServerMay' = ServerMay
    BY ConfSame DEF Quiet, ClientMay, ServerMay
  <1>4. queue'["server"] = <<>>
    BY DEF Quiet, IInv, ToServerInv
  <1>5. \A e \in End : CountIn(To(e), CallPackets)' = CountIn(To(e), CallPackets)
    BY <1>1
  <1> QED
    BY <1>1, <1>2, <1>3, <1>4, <1>5, BothEnds

\* A step that closes a connection or moves the timer.
LEMMA QuietStep ==
  ASSUME IInv, Quiet, posted' = posted, calls' = calls, HelloKept,
         ready' \in [End -> BOOLEAN], open' \in [End -> BOOLEAN], closing' \in BOOLEAN,
         timer' \in {"armed", "due", "posting", "off"}, errors' \in Nat,
         open'["client"] => open["client"], ErrorInv'
  PROVE  IInv'
  <1>0. /\ Types /\ PostedInv /\ ToClientInv /\ HandledInv /\ ToServerInv
    BY DEF IInv
  <1>1. /\ To("client")' = To("client") /\ To("server")' = To("server")
        /\ queue'["server"] = <<>>
        /\ ServerInv' /\ LeftInv' /\ Understood'
        /\ ClientMay' = ClientMay /\ ServerMay' = ServerMay
        /\ \A e \in End : CountIn(To(e), CallPackets)' = CountIn(To(e), CallPackets)
    BY QuietSame
  <1>2. Types'
    BY <1>0 DEF Quiet, Types
  <1>3. ClientInv'
    BY <1>1, ConfSame DEF Quiet, IInv, ClientInv
  <1>4. ToServerInv'
    BY <1>0, <1>1, ToServerSame DEF Quiet
  <1>5. PostedInv' /\ ToClientInv'
    <2>1. ClientSideSame
      BY <1>1 DEF ClientSideSame, Quiet
    <2> QED
      BY <1>0, <2>1, ToClientSame
  <1>6. HandledInv'
    <2>1. handled' = handled
      BY DEF Quiet
    <2> QED
      BY <1>0, <1>1, <2>1 DEF HandledInv
  <1> QED
    BY <1>1, <1>2, <1>3, <1>4, <1>5, <1>6 DEF IInv

LEMMA CloseStep ==
  ASSUME IInv, close_client
  PROVE  IInv'
  <1>0. Types /\ ErrorInv
    BY DEF IInv
  <1>1. /\ posted' = posted /\ calls' = calls /\ timer' = timer /\ errors' = errors
        /\ closing /\ closing' = FALSE
        /\ ready' = [ready EXCEPT !["server"] = FALSE]
        /\ open' = [open EXCEPT !["server"] = FALSE]
    BY DEF close_client, histVars
  <1>2. /\ ready' \in [End -> BOOLEAN] /\ ready'["client"] = ready["client"]
        /\ open' \in [End -> BOOLEAN] /\ open'["client"] = open["client"]
    BY <1>0, <1>1, BothEnds DEF Types
  <1>3. Quiet
    BY <1>2 DEF Quiet, close_client, histVars, codecVars, readVars
  <1>4. HelloKept
    BY <1>1 DEF HelloKept
  <1>5. ErrorInv'
    BY <1>0, <1>1, <1>2, <1>3 DEF ErrorInv, Quiet
  <1>6. /\ timer' \in {"armed", "due", "posting", "off"} /\ errors' \in Nat
        /\ closing' \in BOOLEAN
    BY <1>0, <1>1 DEF Types
  <1> QED
    BY <1>1, <1>2, <1>3, <1>4, <1>5, <1>6, QuietStep

LEMMA ReadErrorStep ==
  ASSUME IInv, NEW e \in End, ReadError(e)
  PROVE  IInv'
  <1>0. Types /\ ErrorInv /\ ClientInv
    BY DEF IInv
  <1>1. /\ posted' = posted /\ calls' = calls /\ timer' = timer /\ closing' = closing
        /\ conf' = conf /\ ready' = ready /\ mode' = mode /\ maker' = maker
        /\ checker' = checker /\ trans' = trans /\ rev' = rev /\ net' = net /\ queue' = queue
        /\ handled' = handled /\ garbled' = garbled
        /\ open[e] /\ ~open[Peer(e)]
        /\ open' = [open EXCEPT ![e] = FALSE]
    BY DEF ReadError, codecVars, readVars, ClientCloses
  <1>2. stage' = stage
    <2>1. stage' = stage \/ stage' = [stage EXCEPT !["client"] = stage["client"]]
      BY DEF ReadError, ClientCloses
    <2>2. stage \in [End -> {"hello", "setup", "ready", "error", "selection", "transformer"}]
      BY <1>0 DEF Types
    <2> QED
      BY <2>1, <2>2
  <1>3. Quiet
    BY <1>1, <1>2 DEF Quiet
  <1>4. ready' \in [End -> BOOLEAN] /\ open' \in [End -> BOOLEAN]
    BY <1>0, <1>1 DEF Types
  <1>5. HelloKept /\ (open'["client"] => open["client"])
    <2>1. open \in [End -> BOOLEAN]
      BY <1>0 DEF Types
    <2>2. CASE e = "client"
      BY <1>1, <2>1, <2>2, BothEnds DEF HelloKept
    <2>3. CASE e = "server"
      <3>1. ~open["client"] /\ open'["client"] = open["client"]
        BY <1>1, <2>1, <2>3, BothEnds
      <3> QED
        BY <1>1, <3>1 DEF HelloKept
    <2> QED
      BY <2>2, <2>3 DEF End
  <1>6. errors' \in Nat /\ ErrorInv'
    <2>1. CASE e = "client"
      <3>1. /\ open["client"] /\ open'["client"] = FALSE
        BY <1>0, <1>1, <2>1, BothEnds DEF Types
      <3>2. errors = 0 /\ stage["client"] # "error"
        BY <1>0, <3>1 DEF ErrorInv, ClientInv
      <3>3. errors' = IF ready["client"] THEN 0 ELSE 1
        BY <2>1, <3>2 DEF ReadError, ClientCloses
      <3>4. ready["client"] \in BOOLEAN /\ mode["client"] \in {"handshake", "ready"}
        BY <1>0, BothEnds DEF Types
      <3> QED
        BY <1>0, <1>1, <3>1, <3>3, <3>4 DEF ErrorInv, ClientInv
    <2>2. CASE e = "server"
      <3>1. errors' = errors
        BY <2>2 DEF ReadError
      <3>2. open'["client"] = open["client"]
        BY <1>0, <1>1, <2>2, BothEnds DEF Types
      <3> QED
        BY <1>0, <1>1, <3>1, <3>2 DEF ErrorInv, Types
    <2> QED
      BY <2>1, <2>2 DEF End
  <1>7. timer' \in {"armed", "due", "posting", "off"} /\ closing' \in BOOLEAN
    BY <1>0, <1>1 DEF Types
  <1> QED
    BY <1>1, <1>3, <1>4, <1>5, <1>6, <1>7, QuietStep

LEMMA TimerRunStep ==
  ASSUME IInv, TimerExpires \/ on_init_timeout
  PROVE  IInv'
  <1>0. Types /\ ErrorInv
    BY DEF IInv
  <1>1. /\ posted' = posted /\ calls' = calls /\ closing' = closing /\ open' = open
        /\ ready' = ready /\ mode' = mode /\ errors' = errors
        /\ timer' \in {"armed", "due", "posting", "off"}
    BY DEF TimerExpires, on_init_timeout, histVars
  <1>2. Quiet
    BY DEF Quiet, TimerExpires, on_init_timeout, histVars, codecVars, readVars
  <1>3. HelloKept /\ ErrorInv'
    BY <1>0, <1>1 DEF HelloKept, ErrorInv
  <1>4. /\ ready' \in [End -> BOOLEAN] /\ open' \in [End -> BOOLEAN] /\ closing' \in BOOLEAN
        /\ errors' \in Nat /\ (open'["client"] => open["client"])
    BY <1>0, <1>1 DEF Types
  <1> QED
    BY <1>1, <1>2, <1>3, <1>4, QuietStep

\* A step of e that posts a message: a call, or the timeout.
PostsOnly(e, w) ==
  /\ Quiet /\ ready' = ready /\ open' = open /\ closing' = closing /\ errors' = errors
  /\ timer' \in {"armed", "due", "posting", "off"}
  /\ posted' = [posted EXCEPT ![e] = Append(@, w)]
  /\ IF w = "call" THEN calls' = [calls EXCEPT ![e] = @ + 1] /\ calls[e] < MaxCalls
                   ELSE calls' = calls

LEMMA PostStep ==
  ASSUME IInv, NEW e \in End, NEW w, PostsOnly(e, w),
         \/ e = "client" /\ w = "call" /\ mode["client"] = "ready"
         \/ e = "server" /\ w \in {"call", "timeout"} /\ w \in ServerMay
  PROVE  IInv'
  <1>0. /\ Types /\ PostedInv /\ ToClientInv /\ HandledInv /\ ToServerInv /\ ErrorInv
        /\ w \in What
    BY DEF IInv, What, Capsule
  <1>1. /\ To("client")' = To("client") /\ To("server")' = To("server")
        /\ queue'["server"] = <<>>
        /\ ServerInv' /\ LeftInv' /\ Understood'
        /\ ClientMay' = ClientMay /\ ServerMay' = ServerMay
        /\ \A x \in End : CountIn(To(x), CallPackets)' = CountIn(To(x), CallPackets)
    BY QuietSame DEF PostsOnly
  <1>2. /\ conf' = conf /\ mode' = mode /\ maker' = maker /\ checker' = checker
        /\ trans' = trans /\ rev' = rev /\ net' = net /\ queue' = queue
        /\ handled' = handled /\ garbled' = garbled /\ stage' = stage
        /\ ready' = ready /\ open' = open /\ closing' = closing /\ errors' = errors
    BY DEF PostsOnly, Quiet
  <1>3. /\ posted \in [End -> Seq(What)] /\ posted[e] \in Seq(What)
        /\ posted' = [posted EXCEPT ![e] = Append(@, w)]
    BY <1>0 DEF Types, PostsOnly
  <1>4. Append(posted[e], w) \in Seq(What)
    BY <1>0, <1>3, AppendAt
  <1>5. /\ posted' \in [End -> Seq(What)] /\ posted'[e] = Append(posted[e], w)
        /\ posted'[Peer(e)] = posted[Peer(e)]
    BY <1>3, <1>4, BothEnds
  <1>6. calls' \in [End -> 0..MaxCalls]
    <2>1. calls \in [End -> 0..MaxCalls] /\ MaxCalls \in Nat
      BY <1>0, HandshakeAssumption DEF Types
    <2>2. CASE w = "call"
      <3>1. calls' = [calls EXCEPT ![e] = calls[e] + 1] /\ calls[e] < MaxCalls
        BY <2>2 DEF PostsOnly
      <3>2. calls[e] + 1 \in 0..MaxCalls
        BY <2>1, <3>1
      <3> QED
        BY <2>1, <3>1, <3>2
    <2>3. CASE w # "call"
      BY <2>1, <2>3 DEF PostsOnly
    <2> QED
      BY <2>2, <2>3
  <1>7. Types'
    BY <1>0, <1>2, <1>5, <1>6 DEF Types, PostsOnly
  <1>8. ClientInv'
    <2>1. CASE e = "client"
      BY <1>1, <1>2, <2>1, ConfSame DEF IInv, ClientInv
    <2>2. CASE e = "server"
      BY <1>1, <1>2, <1>5, <2>2, ConfSame, BothEnds DEF IInv, ClientInv
    <2> QED
      BY <2>1, <2>2 DEF End
  <1>9. ToServerInv'
    <2>1. CASE e = "server"
      BY <1>0, <1>1, <1>2, <1>5, <2>1, ToServerSame, BothEnds
    <2>2. CASE e = "client"
      <3> DEFINE S == posted["client"]  R == Append(posted["client"], w)
      <3>1. /\ w = "call" /\ mode["client"] = "ready" /\ maker["client"] = "crc"
            /\ mode["server"] = "ready" /\ S \in Seq(What)
        BY <1>3, <2>2, BothEnds DEF IInv, ClientInv
      <3>2. "call" \in ClientMay
        BY <3>1 DEF ClientMay, What
      <3>3. /\ DOMAIN S = 1..Len(S) /\ Len(S) \in Nat
            /\ DOMAIN R = 1..(Len(S) + 1) /\ R # <<>>
            /\ \A i \in 1..Len(S) : R[i] = S[i]
            /\ R[Len(S) + 1] = w
        BY <1>0, <3>1, AppendProperties, LenProperties
      <3>4. posted'["client"] = R
        BY <1>5, <2>2
      <3>5. \A i \in DOMAIN S : S[i] \in ClientMay /\ maker["client"] = HashOf(S[i])
        BY <1>0 DEF ToServerInv
      <3>6. HashOf(w) = "crc"
        BY <3>1 DEF HashOf
      <3> HIDE DEF S, R
      <3>7. \A i \in DOMAIN R : R[i] \in ClientMay /\ maker["client"] = HashOf(R[i])
        BY <3>1, <3>2, <3>3, <3>5, <3>6
      <3>8. \A i \in DOMAIN To("server") :
              /\ To("server")[i].what \in ClientMay
              /\ To("server")[i].hash = HashOf(To("server")[i].what)
              /\ To("server")[i].key = trans["client"]
        BY <1>0 DEF ToServerInv
      <3> QED
        BY <1>1, <1>2, <3>1, <3>3, <3>4, <3>7, <3>8 DEF ToServerInv
    <2> QED
      BY <2>1, <2>2 DEF End
  <1>10. PostedInv' /\ ToClientInv'
    <2>1. ClientSideSame
      BY <1>1, <1>2 DEF ClientSideSame, HelloKept
    <2>2. CASE e = "client"
      BY <1>0, <1>5, <2>1, <2>2, ToClientSame, BothEnds
    <2>3. CASE e = "server"
      BY <1>0, <1>1, <1>5, <2>1, <2>3, ToClientPosted, BothEnds
    <2> QED
      BY <2>2, <2>3 DEF End
  <1>11. ErrorInv'
    BY <1>0, <1>2 DEF ErrorInv
  <1>12. HandledInv'
    <2>1. /\ CountIn(posted'[e], {"call"}) = CountIn(posted[e], {"call"}) + IF w = "call" THEN 1 ELSE 0
          /\ CountIn(posted'[Peer(e)], {"call"}) = CountIn(posted[Peer(e)], {"call"})
      <3>1. CountIn(Append(posted[e], w), {"call"})
              = CountIn(posted[e], {"call"}) + IF w \in {"call"} THEN 1 ELSE 0
        BY <1>0, <1>3, CountAppend
      <3> QED
        BY <1>5, <3>1
    <2>2. /\ calls'[e] = calls[e] + IF w = "call" THEN 1 ELSE 0
          /\ calls'[Peer(e)] = calls[Peer(e)] /\ calls[e] \in Nat
      <3>1. calls \in [End -> 0..MaxCalls]
        BY <1>0 DEF Types
      <3>2. calls[e] \in Nat
        BY <3>1, HandshakeAssumption
      <3>3. CASE w = "call"
        BY <3>1, <3>2, <3>3, BothEnds DEF PostsOnly
      <3>4. CASE w # "call"
        BY <3>1, <3>2, <3>4, BothEnds DEF PostsOnly
      <3> QED
        BY <3>3, <3>4
    <2>3. CountIn(posted[e], {"call"}) \in Nat /\ Peer(e) \in End /\ Peer(Peer(e)) = e
      BY <1>0, ToType, BothEnds
    <2>4. /\ CountIn(To(Peer(e)), CallPackets) \in Nat /\ handled[Peer(e)] \in Nat
      BY <1>0, <2>3, ToType DEF Types
    <2>5. handled[Peer(e)] + CountIn(To(Peer(e)), CallPackets) + CountIn(posted'[e], {"call"})
            <= calls'[e]
      <3>1. handled[Peer(e)] + CountIn(To(Peer(e)), CallPackets) + CountIn(posted[e], {"call"})
              <= calls[e]
        BY <1>0, <2>3 DEF HandledInv
      <3> QED
        BY <2>1, <2>2, <2>3, <2>4, <3>1
    <2>6. handled[e] + CountIn(To(e), CallPackets) + CountIn(posted'[Peer(e)], {"call"})
            <= calls'[Peer(e)]
      BY <1>0, <2>1, <2>2 DEF HandledInv
    <2>7. \A x \in End : x = e \/ x = Peer(e)
      BY DEF End, Peer
    <2>8. \A x \in End : handled[x] + CountIn(To(x), CallPackets)
                           + CountIn(posted'[Peer(x)], {"call"}) <= calls'[Peer(x)]
      BY <2>3, <2>5, <2>6, <2>7
    <2> QED
      BY <1>1, <1>2, <2>8 DEF HandledInv
  <1> QED
    BY <1>1, <1>7, <1>8, <1>9, <1>10, <1>11, <1>12 DEF IInv

LEMMA CallStep ==
  ASSUME IInv, NEW e \in End, Call(e)
  PROVE  IInv'
  <1>1. PostsOnly(e, "call")
    <2>1. timer' \in {"armed", "due", "posting", "off"}
      BY DEF Call, IInv, Types
    <2> QED
      BY <2>1 DEF PostsOnly, Call, Post, Quiet, codecVars, readVars
  <1>2. mode[e] = "ready"
    BY DEF Call
  <1>3. e = "server" => "call" \in ServerMay
    BY <1>2 DEF ServerMay, What
  <1> QED
    BY <1>1, <1>2, <1>3, PostStep DEF End

LEMMA TimeoutStep ==
  ASSUME IInv, send_and_close
  PROVE  IInv'
  <1>1. PostsOnly("server", "timeout")
    BY DEF PostsOnly, send_and_close, Post, Quiet, codecVars, readVars, histVars
  <1>2. "timeout" \in ServerMay
    BY DEF ServerMay, What, Capsule
  <1> QED
    BY <1>1, <1>2, PostStep, BothEnds

LEMMA PackCounts ==
  ASSUME Types, HandledInv, NEW e \in End, pack_message(e)
  PROVE  HandledInv'
  <1> DEFINE p == [what |-> posted[e][1], hash |-> maker[e], key |-> trans[e]]
             o == Peer(e)
  <1>1. /\ posted[e] # <<>> /\ posted[e] \in Seq(What) /\ posted[e][1] \in What
        /\ posted'[e] = Tail(posted[e]) /\ posted'[o] = posted[o]
        /\ To(e)' = To(e) /\ p \in Packet
        /\ To(o)' = IF open[e] THEN Append(To(o), p) ELSE To(o)
    BY Packs
  <1>2. o \in End /\ Peer(o) = e /\ (\A x \in End : x = e \/ x = o)
    BY BothEnds DEF End, Peer
  <1>3. p \in CallPackets <=> posted[e][1] \in {"call"}
    BY <1>1 DEF CallPackets
  <1>4. handled' = handled /\ calls' = calls
    BY DEF pack_message, histVars
  <1> HIDE DEF p, o
  <1> DEFINE c == IF posted[e][1] \in {"call"} THEN 1 ELSE 0
             a == CountIn(posted[e], {"call"})  b == CountIn(posted'[e], {"call"})
             t == CountIn(To(o), CallPackets)   u == CountIn(To(o)', CallPackets)
  <1>5. a = b + c
    <2>1. Head(posted[e]) = posted[e][1]
      BY <1>1, TailAt
    <2>2. CountIn(posted[e], {"call"})
            = CountIn(Tail(posted[e]), {"call"}) + IF Head(posted[e]) \in {"call"} THEN 1 ELSE 0
      BY <1>1, CountTail
    <2> QED
      BY <1>1, <2>1, <2>2
  <1>6. t \in Nat /\ a \in Nat /\ To(o) \in Seq(Packet)
    BY <1>2, ToType
  <1>7. b \in Nat
    BY <1>1, TailAt, CountNat
  <1>8. u = t + c \/ u = t
    <2>1. CountIn(Append(To(o), p), CallPackets)
            = CountIn(To(o), CallPackets) + IF p \in CallPackets THEN 1 ELSE 0
      BY <1>1, <1>6, CountAppend
    <2> QED
      BY <1>1, <1>3, <2>1
  <1>9. handled[o] + t + a <= calls[e] /\ handled[o] \in Nat /\ calls[e] \in Nat
    <2>1. handled \in [End -> Nat] /\ calls \in [End -> 0..MaxCalls]
      BY DEF Types
    <2>2. handled[o] + t + a <= calls[e]
      BY <1>2 DEF HandledInv
    <2>3. calls[e] \in 0..MaxCalls /\ MaxCalls \in Nat
      BY <2>1, HandshakeAssumption
    <2> QED
      BY <1>2, <2>1, <2>2, <2>3
  <1>10. c \in {0, 1}
    OBVIOUS
  <1>11. handled[o] + u + b <= calls[e]
    <2> HIDE DEF a, b, c, t, u
    <2> QED
      BY <1>5, <1>6, <1>7, <1>8, <1>9, <1>10
  <1>12. handled[e] + CountIn(To(e), CallPackets)' + CountIn(posted'[o], {"call"}) <= calls[o]
    BY <1>1 DEF HandledInv, o
  <1>13. \A x \in End : handled[x] + CountIn(To(x), CallPackets)'
                          + CountIn(posted'[Peer(x)], {"call"}) <= calls[Peer(x)]
    <2> SUFFICES ASSUME NEW x \in End
                 PROVE  handled[x] + CountIn(To(x), CallPackets)'
                          + CountIn(posted'[Peer(x)], {"call"}) <= calls[Peer(x)]
      OBVIOUS
    <2>1. CASE x = e
      BY <1>12, <2>1 DEF o
    <2>2. CASE x = o
      BY <1>2, <1>11, <2>2
    <2> QED
      BY <1>2, <2>1, <2>2
  <1> QED
    BY <1>4, <1>13 DEF HandledInv

LEMMA PackClientStep ==
  ASSUME IInv, pack_message("client")
  PROVE  IInv'
  <1> DEFINE what == posted["client"][1]
             p == [what |-> what, hash |-> maker["client"], key |-> trans["client"]]
             S == posted["client"]  R == Tail(posted["client"])  P == To("server")
  <1>0. /\ Types /\ PostedInv /\ ToClientInv /\ HandledInv /\ ToServerInv /\ ErrorInv
    BY DEF IInv
  <1>1. /\ S # <<>> /\ S \in Seq(What) /\ what \in What
        /\ posted' \in [End -> Seq(What)]
        /\ posted'["client"] = R /\ posted'["server"] = posted["server"]
        /\ To("client")' = To("client") /\ p \in Packet
        /\ To("server")' = IF open["client"] THEN Append(P, p) ELSE P
        /\ net' \in [End -> Seq(Packet)]
    BY <1>0, Packs, BothEnds
  <1>2. /\ Len(S) \in Nat \ {0} /\ DOMAIN S = 1..Len(S) /\ 1 \in DOMAIN S
        /\ R \in Seq(What) /\ Len(R) = Len(S) - 1 /\ DOMAIN R = 1..(Len(S) - 1)
        /\ \A i \in 1..(Len(S) - 1) : R[i] = S[i + 1]
        /\ Head(S) = what
    BY <1>1, TailAt
  <1>3. what \in ClientMay /\ maker["client"] = HashOf(what)
    BY <1>0, <1>2 DEF ToServerInv
  <1>4. /\ conf' = conf /\ stage' = stage /\ ready' = ready /\ mode' = mode
        /\ checker' = checker /\ trans' = trans /\ rev' = rev /\ queue' = queue
        /\ open' = open /\ timer' = timer /\ errors' = errors /\ calls' = calls
        /\ handled' = handled /\ garbled' = garbled
    BY DEF pack_message, histVars
  <1>5. closing' = closing
    <2>1. what \notin {"denied", "timeout"}
      BY <1>3 DEF ClientMay
    <2>2. closing \in BOOLEAN
      BY <1>0 DEF Types
    <2> QED
      BY <1>2, <2>1, <2>2 DEF pack_message
  <1>6. /\ maker'["client"] = (IF what \in {"select_none", "select_cipher"} THEN "crc" ELSE maker["client"])
        /\ maker'["server"] = maker["server"] /\ maker' \in [End -> {"none", "crc"}]
        /\ maker'["client"] = "crc"
    <2>1. maker' = [maker EXCEPT !["client"] =
                      IF what \in {"select_none", "select_cipher"} THEN "crc" ELSE @]
      BY <1>2 DEF pack_message
    <2>2. maker \in [End -> {"none", "crc"}]
      BY <1>0 DEF Types
    <2> HIDE DEF what
    <2> QED
      BY <1>3, <2>1, <2>2, BothEnds DEF HashOf
  <1>7. checker["client"] = "crc"
    BY <1>0, <1>1, BothEnds DEF Types, IInv, ClientInv
  <1> HIDE DEF what, p, S, R, P
  <1>8. Types'
    BY <1>0, <1>1, <1>4, <1>5, <1>6 DEF Types
  <1>9. ClientInv'
    BY <1>4, <1>6, <1>7, ConfSame DEF IInv, ClientInv
  <1>10. ServerInv'
    BY <1>4, <1>6, ConfSame DEF IInv, ServerInv
  <1>11. ClientMay' = ClientMay
    BY <1>4, ConfSame DEF ClientMay
  <1>12. ToServerInv'
    <2>1. /\ P \in Seq(Packet) /\ Len(P) \in Nat /\ DOMAIN P = 1..Len(P)
      BY <1>0, ToType, BothEnds DEF P
    <2>2. /\ Append(P, p) \in Seq(Packet) /\ Len(Append(P, p)) = Len(P) + 1
          /\ DOMAIN Append(P, p) = 1..(Len(P) + 1)
          /\ \A i \in 1..Len(P) : Append(P, p)[i] = P[i]
          /\ Append(P, p)[Len(P) + 1] = p
      BY <1>1, <2>1, AppendAt
    <2> DEFINE Q == To("server")'
    <2>3. /\ Len(Q) \in {Len(P), Len(P) + 1}
          /\ \A i \in DOMAIN Q : (i \in DOMAIN P /\ Q[i] = P[i]) \/ Q[i] = p
      BY <1>1, <2>1, <2>2
    <2>4. mode["server"] = "handshake" => Len(P) + Len(S) <= 1
      BY <1>0 DEF ToServerInv, P, S
    <2>5. mode["server"] = "handshake" => Len(Q) + Len(R) <= 1
      BY <1>2, <2>1, <2>3, <2>4
    <2>6. \A i \in DOMAIN P :
            /\ P[i].what \in ClientMay /\ P[i].hash = HashOf(P[i].what)
            /\ P[i].key = trans["client"]
      BY <1>0 DEF ToServerInv, P
    <2>7. p.what \in ClientMay /\ p.hash = HashOf(p.what) /\ p.key = trans["client"]
      BY <1>3 DEF p
    <2>8. \A i \in DOMAIN Q :
            /\ Q[i].what \in ClientMay /\ Q[i].hash = HashOf(Q[i].what)
            /\ Q[i].key = trans["client"]
      BY <2>3, <2>6, <2>7
    <2>9. \A i \in DOMAIN R : R[i] \in ClientMay /\ HashOf(R[i]) = "crc"
      <3>1. \A i \in DOMAIN S : S[i] \in ClientMay /\ maker["client"] = HashOf(S[i])
        BY <1>0 DEF ToServerInv, S
      <3>2. CASE what \in {"select_none", "select_cipher"}
        <4>1. mode["server"] = "handshake"
          BY <1>3, <3>2 DEF ClientMay, IInv, ServerInv
        <4>2. Len(S) - 1 = 0
          BY <1>2, <2>1, <2>4, <4>1
        <4>3. DOMAIN R = 1..0
          BY <1>2, <4>2
        <4> QED
          BY <4>3
      <3>3. CASE what \notin {"select_none", "select_cipher"}
        <4>1. maker["client"] = "crc"
          BY <1>3, <3>3 DEF HashOf
        <4>2. \A i \in DOMAIN R : i + 1 \in DOMAIN S /\ R[i] = S[i + 1]
          BY <1>2
        <4> QED
          BY <3>1, <4>1, <4>2
      <3> QED
        BY <3>2, <3>3
    <2>10. queue'["server"] = <<>>
      BY <1>0, <1>4 DEF ToServerInv
    <2> HIDE DEF Q
    <2> QED
      BY <1>1, <1>4, <1>6, <1>11, <2>5, <2>8, <2>9, <2>10 DEF ToServerInv, Q
  <1>13. PostedInv' /\ ToClientInv'
    <2>1. ServerMay' = ServerMay
      BY <1>4, ConfSame DEF ServerMay
    <2>2. ClientSideSame
      BY <1>1, <1>4, <1>5, <2>1 DEF ClientSideSame, HelloKept
    <2> QED
      BY <1>0, <1>1, <2>2, ToClientSame
  <1>14. ErrorInv' /\ LeftInv' /\ Understood'
    BY <1>4, ConfSame DEF IInv, ErrorInv, LeftInv, Understood
  <1>15. HandledInv'
    BY <1>0, PackCounts, BothEnds
  <1> QED
    BY <1>8, <1>9, <1>10, <1>12, <1>13, <1>14, <1>15 DEF IInv

LEMMA PackServerStep ==
  ASSUME IInv, pack_message("server")
  PROVE  IInv'
  <1> DEFINE what == posted["server"][1]
             p == [what |-> what, hash |-> maker["server"], key |-> trans["server"]]
             S == posted["server"]  R == Tail(posted["server"])  P == To("client")
             Q == To("client")'
  <1>0. /\ Types /\ PostedInv /\ ToClientInv /\ HandledInv /\ ToServerInv /\ ErrorInv
    BY DEF IInv
  <1>1. /\ S # <<>> /\ S \in Seq(What) /\ what \in What
        /\ posted' \in [End -> Seq(What)]
        /\ posted'["server"] = R /\ posted'["client"] = posted["client"]
        /\ To("server")' = To("server") /\ p \in Packet
        /\ Q = IF open["server"] THEN Append(P, p) ELSE P
        /\ net' \in [End -> Seq(Packet)]
    BY <1>0, Packs, BothEnds
  <1>2. /\ Len(S) \in Nat \ {0} /\ DOMAIN S = 1..Len(S) /\ 1 \in DOMAIN S
        /\ DOMAIN R = 1..(Len(S) - 1)
        /\ \A i \in 1..(Len(S) - 1) : R[i] = S[i + 1]
        /\ Head(S) = what
    BY <1>1, TailAt
  <1>3. \A i \in DOMAIN R : i + 1 \in DOMAIN S /\ R[i] = S[i + 1] /\ i \in Nat /\ i + 1 # 1
    BY <1>2
  <1>4. /\ conf' = conf /\ stage' = stage /\ ready' = ready /\ mode' = mode
        /\ checker' = checker /\ trans' = trans /\ rev' = rev /\ queue' = queue
        /\ open' = open /\ timer' = timer /\ errors' = errors /\ calls' = calls
        /\ handled' = handled /\ garbled' = garbled
    BY DEF pack_message, histVars
  <1>5. closing' \in BOOLEAN /\ (closing' => closing \/ what \in {"denied", "timeout"})
    BY <1>0, <1>2 DEF pack_message, Types
  <1>6. /\ what \in ServerMay
        /\ what = "hello" => P = <<>> /\ ~closing /\ (open["client"] => open["server"])
        /\ what = "setup" =>
             /\ \A j \in DOMAIN S : S[j] = "setup" => 1 = j
             /\ \A j \in DOMAIN P : P[j].what # "setup"
    BY <1>0, <1>2 DEF PostedInv
  <1>7. maker' = maker
    <2>1. maker' = [maker EXCEPT !["server"] =
                      IF what \in {"select_none", "select_cipher"} THEN "crc" ELSE @]
      BY <1>2 DEF pack_message
    <2>2. maker \in [End -> {"none", "crc"}]
      BY <1>0 DEF Types
    <2>3. what \notin {"select_none", "select_cipher"}
      BY <1>6 DEF ServerMay
    <2> HIDE DEF what
    <2> QED
      BY <2>1, <2>2, <2>3
  <1>8. /\ p.what = what /\ p.hash = maker["server"] /\ p.key = trans["server"]
        /\ P \in Seq(Packet) /\ Len(P) \in Nat /\ DOMAIN P = 1..Len(P)
        /\ (P = <<>> <=> Len(P) = 0)
    BY <1>0, ToType, BothEnds
  <1> HIDE DEF what, p, S, R, P, Q
  <1>9. Types'
    BY <1>0, <1>1, <1>4, <1>5, <1>7 DEF Types
  <1>10. ClientInv' /\ ServerInv'
    BY <1>1, <1>4, <1>7, ConfSame DEF IInv, ClientInv, ServerInv
  <1>11. ServerMay' = ServerMay /\ ClientMay' = ClientMay
    BY <1>4, ConfSame DEF ServerMay, ClientMay
  <1>12. ToServerInv'
    <2>1. queue'["server"] = <<>>
      BY <1>0, <1>4 DEF ToServerInv
    <2> QED
      BY <1>0, <1>1, <1>4, <1>7, <1>11, <2>1, ToServerSame
  <1>13. /\ Append(P, p) \in Seq(Packet) /\ Append(P, p) # <<>>
         /\ DOMAIN Append(P, p) = 1..(Len(P) + 1)
         /\ \A i \in 1..Len(P) : Append(P, p)[i] = P[i]
         /\ Append(P, p)[Len(P) + 1] = p
    BY <1>1, <1>8, AppendProperties, LenProperties
  <1>14. \A i \in DOMAIN Q : (i \in DOMAIN P /\ Q[i] = P[i]) \/ Q[i] = p
    BY <1>1, <1>8, <1>13
  <1>15. PostedInv'
    <2>1. \A i \in DOMAIN S :
            /\ S[i] \in ServerMay
            /\ S[i] = "hello" => i = 1
            /\ S[i] = "setup" =>
                 /\ \A j \in DOMAIN S : S[j] = "setup" => i = j
                 /\ \A j \in DOMAIN P : P[j].what # "setup"
      BY <1>0 DEF PostedInv, S, P
    <2>2. \A i \in DOMAIN R :
            /\ R[i] \in ServerMay /\ R[i] # "hello"
            /\ R[i] = "setup" => /\ \A j \in DOMAIN R : R[j] = "setup" => i = j
                                 /\ what # "setup"
                                 /\ \A j \in DOMAIN P : P[j].what # "setup"
      <3> SUFFICES ASSUME NEW i \in DOMAIN R
                   PROVE  /\ R[i] \in ServerMay /\ R[i] # "hello"
                          /\ R[i] = "setup" => /\ \A j \in DOMAIN R : R[j] = "setup" => i = j
                                               /\ what # "setup"
                                               /\ \A j \in DOMAIN P : P[j].what # "setup"
        OBVIOUS
      <3>1. i + 1 \in DOMAIN S /\ R[i] = S[i + 1] /\ i \in Nat /\ i + 1 # 1
        BY <1>3
      <3>2. ASSUME R[i] = "setup", NEW j \in DOMAIN R, R[j] = "setup"
            PROVE  i = j
        <4>1. j + 1 \in DOMAIN S /\ R[j] = S[j + 1] /\ j \in Nat
          BY <1>3
        <4>2. i + 1 = j + 1
          BY <2>1, <3>1, <3>2, <4>1
        <4> QED
          BY <3>1, <4>1, <4>2
      <3>3. R[i] = "setup" => what # "setup"
        BY <1>6, <3>1
      <3> QED
        BY <2>1, <3>1, <3>2, <3>3
    <2>3. \A i \in DOMAIN R : R[i] = "setup" => \A j \in DOMAIN Q : Q[j].what # "setup"
      BY <1>8, <1>14, <2>2
    <2> QED
      BY <1>1, <1>11, <2>2, <2>3 DEF PostedInv, Q
  <1>16. mode["server"] = "ready" => p.hash = "crc" /\ p.key = ServerKey
    BY <1>8 DEF IInv, ServerInv
  <1>17. Flow(Q, ServerKey)
    <2>1. p.what = "hello" => p.hash = "none" /\ p.key = Plain
      BY <1>6, <1>8 DEF ServerMay, IInv, ClientInv, ServerInv
    <2>2. p.what \in {"setup", "denied"} => p.hash = "crc" /\ p.key = Plain
      BY <1>6, <1>8 DEF ServerMay, IInv, ServerInv
    <2>3. p.what \in {"ready", "call"} => mode["server"] = "ready"
      BY <1>6, <1>8 DEF ServerMay
    <2>4. \A j \in DOMAIN P : P[j].what \in {"ready", "call"} => mode["server"] = "ready"
      BY <1>0 DEF ToClientInv, ServerMay, P
    <2>5. Joins(P, p, ServerKey)
      BY <1>1, <1>6, <1>8, <1>16, <2>1, <2>2, <2>3, <2>4 DEF Joins
    <2>6. Flow(P, ServerKey)
      BY <1>0 DEF ToClientInv, P
    <2>7. Flow(Append(P, p), ServerKey)
      BY <2>5, <2>6, FlowJoins
    <2> QED
      BY <1>1, <2>6, <2>7
  <1>18. \A i \in DOMAIN Q : Q[i].what \in ServerMay
    <2>1. \A i \in DOMAIN P : P[i].what \in ServerMay
      BY <1>0 DEF ToClientInv, P
    <2> QED
      BY <1>6, <1>8, <1>14, <2>1
  <1>19. mode["client"] = "ready" =>
           \A i \in DOMAIN Q : Q[i].hash = "crc" /\ Q[i].key = ServerKey
    <2>1. mode["client"] = "ready" =>
            /\ mode["server"] = "ready"
            /\ \A i \in DOMAIN P : P[i].hash = "crc" /\ P[i].key = ServerKey
      BY DEF IInv, ClientInv, ToClientInv, P
    <2> QED
      BY <1>14, <1>16, <2>1
  <1>20. checker["client"] = "none" /\ open["client"] => Q # <<>> /\ Q[1].what = "hello"
    <2> SUFFICES ASSUME checker["client"] = "none", open["client"]
                 PROVE  Q # <<>> /\ Q[1].what = "hello"
      OBVIOUS
    <2>1. IF P = <<>> THEN what = "hello" ELSE P[1].what = "hello"
      BY <1>0 DEF ToClientInv, P, what
    <2>2. CASE P = <<>>
      <3>1. open["server"] /\ Q = Append(P, p) /\ Len(P) = 0
        BY <1>1, <1>6, <1>8, <2>1, <2>2
      <3> QED
        BY <1>8, <1>13, <2>1, <2>2, <3>1
    <2>3. CASE P # <<>>
      <3>1. 1 \in 1..Len(P)
        BY <1>8, <2>3
      <3>2. Q # <<>> /\ Q[1] = P[1]
        BY <1>1, <1>13, <2>3, <3>1
      <3> QED
        BY <2>1, <2>3, <3>2
    <2> QED
      BY <2>2, <2>3
  <1>21. ToClientInv'
    BY <1>4, <1>11, <1>17, <1>18, <1>19, <1>20, ConfSame DEF ToClientInv, Q
  <1>22. ErrorInv' /\ LeftInv' /\ Understood'
    BY <1>4, ConfSame DEF IInv, ErrorInv, LeftInv, Understood
  <1>23. HandledInv'
    BY <1>0, PackCounts, BothEnds
  <1> QED
    BY <1>9, <1>10, <1>12, <1>15, <1>21, <1>22, <1>23 DEF IInv

------------------------------------------------------------------------------
LEMMA InitInv ==
  ASSUME Init
  PROVE  IInv
  <1>1. To("client") = <<>> /\ To("server") = <<>>
    BY DEF Init, To, Both, End, Peer
  <1>2. posted["client"] = <<>> /\ posted["server"] = <<"hello">>
    BY DEF Init, End
  <1>3. /\ conf \in [client : Secrets \cup {NoKey}, server : Secrets, required : BOOLEAN]
        /\ stage["client"] = "hello" /\ stage["server"] = "selection"
        /\ ready = Both(FALSE) /\ mode = Both("handshake") /\ maker = Both("none")
        /\ checker = Both("none") /\ trans = Both(Plain) /\ rev = Both(Plain)
        /\ queue = Both(<<>>) /\ net = Both(<<>>) /\ open = Both(TRUE) /\ ~closing /\ closing = FALSE
        /\ timer = "armed" /\ errors = 0 /\ calls = Both(0) /\ handled = Both(0) /\ garbled = {}
    BY DEF Init, End
  <1>4. \A x : Both(x)["client"] = x /\ Both(x)["server"] = x
    BY DEF Both, End
  <1>5. Types
    <2>1. stage \in [End -> {"hello", "setup", "ready", "error", "selection", "transformer"}]
      BY DEF Init, End
    <2>2. posted \in [End -> Seq(What)]
      <3>1. <<"hello">> \in Seq(What) /\ <<>> \in Seq(What)
        BY DEF What, Capsule
      <3> QED
        BY <3>1 DEF Init, End
    <2>3. /\ ready \in [End -> BOOLEAN] /\ mode \in [End -> {"handshake", "ready"}]
          /\ maker \in [End -> {"none", "crc"}] /\ checker \in [End -> {"none", "crc"}]
          /\ trans \in [End -> Cipher] /\ rev \in [End -> Cipher] /\ open \in [End -> BOOLEAN]
      BY <1>3 DEF Both, Cipher
    <2>4. net \in [End -> Seq(Packet)] /\ queue \in [End -> Seq(Packet)]
      <3>1. <<>> \in Seq(Packet)
        BY EmptySeq
      <3> QED
        BY <1>3, <3>1 DEF Both
    <2>5. calls \in [End -> 0..MaxCalls] /\ handled \in [End -> Nat]
      <3>1. 0 \in 0..MaxCalls
        BY HandshakeAssumption
      <3> QED
        BY <1>3, <3>1 DEF Both
    <2> QED
      BY <1>3, <2>1, <2>2, <2>3, <2>4, <2>5 DEF Types
  <1>6. ClientInv /\ ServerInv /\ ErrorInv /\ LeftInv /\ Understood
    <2>1. /\ mode["client"] = "handshake" /\ mode["server"] = "handshake"
          /\ maker["client"] = "none" /\ maker["server"] = "none"
          /\ checker["client"] = "none" /\ checker["server"] = "none"
      BY <1>3, <1>4
    <2>2. /\ trans["client"] = Plain /\ trans["server"] = Plain
          /\ rev["client"] = Plain /\ rev["server"] = Plain
      BY <1>3, <1>4
    <2>3. ready["client"] = FALSE /\ open["client"] = TRUE
      BY <1>3, <1>4
    <2>4. handled["client"] = 0 /\ errors = 0 /\ garbled = {}
      BY <1>3, <1>4
    <2>5. stage["client"] = "hello" /\ stage["server"] = "selection"
      BY <1>3
    <2>6. ClientInv
      BY <1>1, <1>2, <2>1, <2>2, <2>3, <2>5 DEF ClientInv
    <2>7. ServerInv
      BY <2>1, <2>2, <2>5 DEF ServerInv
    <2>8. ErrorInv
      BY <2>1, <2>3, <2>4 DEF ErrorInv
    <2>9. LeftInv /\ Understood
      BY <2>4 DEF LeftInv, Understood
    <2> QED
      BY <2>6, <2>7, <2>8, <2>9
  <1>7. ToServerInv
    <2>1. DOMAIN To("server") = {} /\ Len(To("server")) = 0
      BY <1>1
    <2>2. DOMAIN posted["client"] = {} /\ Len(posted["client"]) = 0
      BY <1>2
    <2> QED
      BY <1>3, <1>4, <2>1, <2>2 DEF ToServerInv
  <1>8. PostedInv /\ ToClientInv
    <2>1. DOMAIN To("client") = {}
      BY <1>1
    <2>2. DOMAIN posted["server"] = {1} /\ posted["server"][1] = "hello" /\ posted["server"] # <<>>
      BY <1>2
    <2>3. "hello" \in ServerMay
      BY <1>3, <1>4 DEF ServerMay, What, Capsule
    <2>4. PostedInv
      <3>1. open["server"] = TRUE /\ closing = FALSE
        BY <1>3, <1>4
      <3> SUFFICES ASSUME NEW i \in DOMAIN posted["server"]
                   PROVE  /\ posted["server"][i] \in ServerMay
                          /\ posted["server"][i] = "hello" =>
                               i = 1 /\ To("client") = <<>> /\ ~closing
                               /\ (open["client"] => open["server"])
                          /\ posted["server"][i] # "setup"
        BY DEF PostedInv
      <3> QED
        BY <1>1, <2>2, <2>3, <3>1
    <2>5. ToClientInv
      BY <1>1, <1>3, <1>4, <2>1, <2>2 DEF ToClientInv, Flow
    <2> QED
      BY <2>4, <2>5
  <1>9. HandledInv
    <2>1. CountIn(<<"hello">>, {"call"}) = 0 /\ CountIn(<<>>, {"call"}) = 0
          /\ CountIn(<<>>, CallPackets) = 0
      <3>1. CountIn(<<"hello">>, {"call"}) = IF "hello" \in {"call"} THEN 1 ELSE 0
        BY CountOne
      <3> QED
        BY <3>1, CountNone
    <2>2. 0 + CountIn(To("client"), CallPackets) + CountIn(posted["server"], {"call"}) <= 0
      BY <1>1, <1>2, <2>1
    <2>3. 0 + CountIn(To("server"), CallPackets) + CountIn(posted["client"], {"call"}) <= 0
      BY <1>1, <1>2, <2>1
    <2> QED
      BY <1>3, <1>4, <2>2, <2>3 DEF HandledInv, End, Peer
  <1> QED
    BY <1>5, <1>6, <1>7, <1>8, <1>9 DEF IInv

LEMMA NextInv ==
  ASSUME IInv, [Next]_vars
  PROVE  IInv'
  <1>1. CASE UNCHANGED vars
    <2>1. /\ conf' = conf /\ stage' = stage /\ ready' = ready /\ mode' = mode
          /\ maker' = maker /\ checker' = checker /\ trans' = trans /\ rev' = rev
          /\ posted' = posted /\ net' = net /\ queue' = queue /\ open' = open
          /\ closing' = closing /\ timer' = timer /\ errors' = errors /\ calls' = calls
          /\ handled' = handled /\ garbled' = garbled
      BY <1>1 DEF vars, codecVars, readVars, histVars
    <2>2. Quiet /\ HelloKept
      BY <2>1 DEF Quiet, HelloKept
    <2>3. ErrorInv'
      BY <2>1 DEF IInv, ErrorInv
    <2>4. /\ ready' \in [End -> BOOLEAN] /\ open' \in [End -> BOOLEAN] /\ closing' \in BOOLEAN
          /\ timer' \in {"armed", "due", "posting", "off"} /\ errors' \in Nat
          /\ (open'["client"] => open["client"])
      BY <2>1 DEF IInv, Types
    <2> QED
      BY <2>1, <2>2, <2>3, <2>4, QuietStep
  <1>2. ASSUME NEW e \in End, pack_message(e) PROVE IInv'
    BY <1>2, PackClientStep, PackServerStep DEF End
  <1>3. ASSUME NEW e \in End, Call(e) PROVE IInv'
    BY <1>3, CallStep
  <1>4. CASE close_client
    BY <1>4, CloseStep
  <1>5. ASSUME NEW n \in Burst, ClientReads(n) PROVE IInv'
    <2>1. n \in Nat
      BY HandshakeAssumption DEF Burst
    <2>2. CASE on_hello_call(n)
      BY <2>1, <2>2, HelloStep
    <2>3. CASE on_trans_setup(n)
      BY <2>1, <2>3, SetupStep, RefusedStep
    <2>4. CASE on_server_ready(n)
      BY <2>1, <2>4, ReadyStep, NotReadyStep
    <2>5. CASE ClientBadHash(n)
      BY <2>1, <2>5, BadHashStep
    <2>6. CASE ready_call("client", n)
      BY <2>1, <2>6, ClientCallStep
    <2> QED
      BY <1>5, <2>2, <2>3, <2>4, <2>5, <2>6 DEF ClientReads
  <1>6. ASSUME NEW n \in Burst, ServerReads(n) PROVE IInv'
    <2>1. n \in Nat
      BY HandshakeAssumption DEF Burst
    <2>2. CASE on_client_selection(n)
      BY <2>1, <2>2, SelectionStep
    <2>3. CASE on_client_transformer(n)
      BY <2>1, <2>3, TransformerStep
    <2>4. CASE ServerBadHash(n)
      BY <2>1, <2>4, ServerBadHashStep
    <2>5. CASE ready_call("server", n)
      BY <2>1, <2>5, ServerCallStep
    <2> QED
      BY <1>6, <2>2, <2>3, <2>4, <2>5 DEF ServerReads
  <1>7. ASSUME NEW e \in End, ReadError(e) PROVE IInv'
    BY <1>7, ReadErrorStep
  <1>8. CASE TimerStep
    BY <1>8, TimerRunStep, TimeoutStep DEF TimerStep
  <1> QED
    BY <1>1, <1>2, <1>3, <1>4, <1>5, <1>6, <1>7, <1>8 DEF Next, Reads

LEMMA SpecInv == Spec => []IInv
  BY InitInv, NextInv, PTL DEF Spec

\* Whatever the order of the two ends' switches, the postings and the timer:
\* only the timeout's capsule and, if the keys differ, the client's salts fail
\* their hash check. (pop_raw_message, on_trans_setup, on_client_selection)
THEOREM PackedIsUnderstood == Spec => []Understood
  <1>1. IInv => Understood
    BY DEF IInv
  <1> QED
    BY <1>1, SpecInv, PTL

\* BothEnds that are ready agree on keys, ciphers and hashes, the error signal is
\* given if and only if the connection closes before the client is ready, and
\* only the read that made the client ready leaves messages unpopped.
\* (on_server_ready, set_client_ready, on_close, process_data)
THEOREM ReadyEndsFit == Spec => []HandshakeSound
  <1>1. ASSUME IInv PROVE HandshakeSound
    <2>0. /\ Types /\ ClientInv /\ ServerInv /\ ErrorInv /\ HandledInv /\ LeftInv
      BY <1>1 DEF IInv
    <2>1. handled \in [End -> 0..MaxCalls]
      <3> SUFFICES ASSUME NEW e \in End PROVE handled[e] \in 0..MaxCalls
        BY <2>0 DEF Types
      <3>1. handled[e] + CountIn(To(e), CallPackets) + CountIn(posted[Peer(e)], {"call"})
              <= calls[Peer(e)]
        BY <2>0 DEF HandledInv
      <3>2. /\ handled[e] \in Nat /\ calls[Peer(e)] \in 0..MaxCalls
            /\ CountIn(To(e), CallPackets) \in Nat
            /\ CountIn(posted[Peer(e)], {"call"}) \in Nat
        BY <2>0, ToType, BothEnds DEF Types
      <3> QED
        BY <3>1, <3>2, HandshakeAssumption
    <2>2. errors \in 0..2
      <3>1. open["client"] \in BOOLEAN /\ mode["client"] \in {"handshake", "ready"}
        BY <2>0, BothEnds DEF Types
      <3>2. errors = 0 \/ errors \in 1..2
        BY <2>0, <3>1 DEF ErrorInv
      <3> QED
        BY <3>2
    <2>3. TypeOK
      BY <2>0, <2>1, <2>2 DEF TypeOK, Types
    <2>4. ErrorReported
      <3>1. open["client"] \in BOOLEAN /\ mode["client"] \in {"handshake", "ready"}
        BY <2>0, BothEnds DEF Types
      <3> QED
        BY <2>0, <3>1 DEF ErrorReported, ErrorInv
    <2>5. LeftoverOnlyAtFirst
      <3>1. queue["server"] = <<>>
        BY <1>1 DEF IInv, ToServerInv
      <3>2. handled["client"] \in Nat
        BY <2>0, BothEnds DEF Types
      <3> QED
        BY <2>0, <3>1, <3>2 DEF LeftoverOnlyAtFirst, LeftInv, End
    <2>6. ReadyAgreement
      <3>1. Keyed /\ KeysAgree => conf.client = conf.server
        BY <2>0, Keys
      <3>2. ASSUME mode["server"] = "ready"
            PROVE  /\ KeysAgree /\ trans["server"] = ServerKey /\ trans["client"] = ClientKey
                   /\ rev["server"] = ClientKey /\ checker["server"] = "crc"
                   /\ maker["server"] = "crc" /\ maker["client"] = "crc"
                   /\ (~Keyed => ~conf.required)
        BY <2>0, <3>1, <3>2, Keys DEF ServerInv
      <3>3. ASSUME mode["client"] = "ready"
            PROVE  /\ mode["server"] = "ready" /\ rev["client"] = ServerKey
                   /\ checker["client"] = "crc"
        <4>1. mode["server"] = "ready" /\ stage["client"] = "ready"
          BY <2>0, <3>3 DEF ClientInv
        <4>2. checker["client"] = "crc"
          BY <2>0, <4>1, BothEnds DEF ClientInv, Types
        <4> QED
          BY <2>0, <3>2, <4>1, <4>2, Keys DEF ClientInv
      <3>4. /\ ServerKey = Plain <=> ~Keyed
            /\ ClientKey = Plain <=> ~Keyed
            /\ Keyed <=> conf.client # NoKey
        BY DEF ServerKey, ClientKey, Keyed, Plain
      <3> QED
        BY <3>2, <3>3, <3>4 DEF ReadyAgreement, End, Peer
    <2> QED
      BY <2>3, <2>4, <2>5, <2>6 DEF HandshakeSound
  <1> QED
    BY <1>1, SpecInv, PTL

(***************************************************************************)
(* A blocking connect, module ClientConnect: what is left of the handler   *)
(* that a worker runs is one of a few sequences of steps, and whether      *)
(* close_lock_ is held can be read off it.                                 *)
(***************************************************************************)

\* The steps of a handler.
HsReady == <<"hs_ready", "self">>
ReadyTrue == <<"ready_true", "self">>
ReadyFalse == <<"ready_false", "self">>
ToClose == <<"close", "self">>
ToUnlock == <<"unlock", "self">>
OfReady == {<<"emit", "on_ready">>, <<"call", "on_ready">>, <<"notify", "on_ready">>}
OfError == {<<"emit", "on_init_error">>, <<"call", "on_init_error">>, <<"notify", "on_init_error">>}

\* What is left of a handler.
Pairing == {<<x, y>> : x \in OfError, y \in {ToClose, ToUnlock}}
Jobs ==
  {<<>>, <<HsReady, ReadyTrue, <<"emit", "on_ready">>>>, <<ReadyTrue, <<"emit", "on_ready">>>>,
   <<ReadyFalse, ToClose>>, <<ToClose>>, <<ToUnlock>>}
  \cup {<<x>> : x \in OfReady} \cup Pairing

\* The handler has still to give close_lock_ back.
Unlocks(j) == \E i \in DOMAIN j : j[i] = ToUnlock

\* A handler that has one step left,
LEMMA OneStep ==
  ASSUME NEW x
  PROVE  <<x>> # <<>> /\ Head(<<x>>) = x /\ Tail(<<x>>) = <<>> /\ Len(<<x>>) = 1 /\ (Unlocks(<<x>>) <=> x = ToUnlock)
  <1>1. <<x>> # <<>> /\ Head(<<x>>) = x /\ Tail(<<x>>) = <<>> /\ Len(<<x>>) = 1 /\ DOMAIN <<x>> = {1} /\ <<x>>[1] = x
    OBVIOUS
  <1> QED
    BY <1>1 DEF Unlocks

\* two steps,
LEMMA TwoSteps ==
  ASSUME NEW x, NEW y
  PROVE  /\ <<x, y>> # <<>> /\ Head(<<x, y>>) = x /\ Tail(<<x, y>>) = <<y>> /\ Len(<<x, y>>) = 2
         /\ Unlocks(<<x, y>>) <=> x = ToUnlock \/ y = ToUnlock
         /\ <<x>> \o <<y>> = <<x, y>>
  <1>1. /\ <<x, y>> # <<>> /\ Head(<<x, y>>) = x /\ Len(<<x, y>>) = 2
        /\ DOMAIN <<x, y>> = {1, 2} /\ <<x, y>>[1] = x /\ <<x, y>>[2] = y
    OBVIOUS
  <1>2. Tail(<<x, y>>) = <<y>>
    OBVIOUS
  <1>3. <<x>> \o <<y>> = <<x, y>>
    <2> DEFINE S == {x, y}  a == <<x>>  b == <<y>>  c == <<x, y>>
    <2>1. /\ a \in Seq(S) /\ b \in Seq(S) /\ c \in Seq(S) /\ Len(a) = 1 /\ Len(b) = 1 /\ Len(c) = 2
          /\ a[1] = x /\ b[1] = y /\ c[1] = x /\ c[2] = y
      OBVIOUS
    <2> HIDE DEF S, a, b, c
    <2>2. /\ a \o b \in Seq(S) /\ Len(a \o b) = Len(a) + Len(b)
          /\ \A i \in 1..Len(a) : (a \o b)[i] = a[i]
          /\ \A i \in 1..Len(b) : (a \o b)[Len(a) + i] = b[i]
      <3>1. a \in Seq(S) /\ b \in Seq(S)
        BY <2>1
      <3> QED
        BY <3>1, ConcatAt
    <2>3. Len(a \o b) = Len(c) /\ (a \o b)[1] = c[1] /\ (a \o b)[2] = c[2]
      BY <2>1, <2>2
    <2>4. \A i \in 1..Len(a \o b) : (a \o b)[i] = c[i]
      BY <2>1, <2>3
    <2>5. a \o b = c
      BY <2>1, <2>2, <2>3, <2>4, SameSeq
    <2> QED
      BY <2>5 DEF a, b, c
  <1> QED
    BY <1>1, <1>2, <1>3 DEF Unlocks

\* and three.
LEMMA ThreeSteps ==
  ASSUME NEW x, NEW y, NEW z
  PROVE  /\ <<x, y, z>> # <<>> /\ Head(<<x, y, z>>) = x /\ Tail(<<x, y, z>>) = <<y, z>> /\ Len(<<x, y, z>>) = 3
         /\ Unlocks(<<x, y, z>>) <=> x = ToUnlock \/ y = ToUnlock \/ z = ToUnlock
  <1>1. /\ <<x, y, z>> # <<>> /\ Head(<<x, y, z>>) = x /\ Len(<<x, y, z>>) = 3
        /\ DOMAIN <<x, y, z>> = {1, 2, 3} /\ <<x, y, z>>[1] = x /\ <<x, y, z>>[2] = y /\ <<x, y, z>>[3] = z
    OBVIOUS
  <1>2. Tail(<<x, y, z>>) = <<y, z>>
    OBVIOUS
  <1> QED
    BY <1>1, <1>2 DEF Unlocks

\* A step is done, and the handler goes on with the others.
LEMMA HandlerRest ==
  ASSUME NEW j \in Jobs, j # <<>>
  PROVE  Tail(j) \in Jobs /\ (Unlocks(Tail(j)) <=> Unlocks(j) /\ Head(j) # ToUnlock)
  <1>0. ~Unlocks(<<>>)
    BY DEF Unlocks
  <1>6. HsReady # ToUnlock /\ ReadyTrue # ToUnlock /\ ReadyFalse # ToUnlock /\ ToClose # ToUnlock
        /\ <<"emit", "on_ready">> # ToUnlock
    BY DEF HsReady, ReadyTrue, ReadyFalse, ToClose, ToUnlock
  <1> DEFINE e == <<"emit", "on_ready">>
  <1> HIDE DEF e
  <1>7. e # ToUnlock
    BY <1>6 DEF e
  <1>1. CASE j = <<HsReady, ReadyTrue, <<"emit", "on_ready">>>>
    <2>0. j = <<HsReady, ReadyTrue, e>>
      BY <1>1 DEF e
    <2>1. Tail(j) = <<ReadyTrue, e>> /\ ~Unlocks(j)
      BY <1>6, <1>7, <2>0, ThreeSteps
    <2>2. ~Unlocks(Tail(j))
      BY <1>6, <1>7, <2>1, TwoSteps
    <2> QED
      BY <2>1, <2>2 DEF Jobs, e
  <1>2. CASE j = <<ReadyTrue, <<"emit", "on_ready">>>>
    <2>0. j = <<ReadyTrue, e>>
      BY <1>2 DEF e
    <2>1. Tail(j) = <<e>> /\ ~Unlocks(j)
      BY <1>6, <1>7, <2>0, TwoSteps
    <2>2. ~Unlocks(Tail(j))
      BY <1>7, <2>1, OneStep
    <2> QED
      BY <2>1, <2>2 DEF Jobs, OfReady, e
  <1>3. CASE j = <<ReadyFalse, ToClose>>
    <2>1. Tail(j) = <<ToClose>> /\ ~Unlocks(j)
      BY <1>3, <1>6, TwoSteps
    <2>2. ~Unlocks(Tail(j))
      BY <1>6, <2>1, OneStep
    <2> QED
      BY <2>1, <2>2 DEF Jobs
  <1>4. ASSUME NEW x, j = <<x>> PROVE Tail(j) \in Jobs /\ (Unlocks(Tail(j)) <=> Unlocks(j) /\ Head(j) # ToUnlock)
    BY <1>0, <1>4, OneStep DEF Jobs
  <1>5. ASSUME NEW x \in OfError, NEW y \in {ToClose, ToUnlock}, j = <<x, y>>
        PROVE  Tail(j) \in Jobs /\ (Unlocks(Tail(j)) <=> Unlocks(j) /\ Head(j) # ToUnlock)
    <2>1. Tail(j) = <<y>> /\ Head(j) = x /\ x # ToUnlock
      BY <1>5, TwoSteps DEF OfError, ToUnlock
    <2>2. (Unlocks(j) <=> y = ToUnlock) /\ (Unlocks(Tail(j)) <=> y = ToUnlock)
      BY <1>5, <2>1, OneStep, TwoSteps
    <2>3. <<y>> \in Jobs
      BY DEF Jobs
    <2> QED
      BY <2>1, <2>2, <2>3
  <1>8. CASE \E x : j = <<x>>
    BY <1>4, <1>8
  <1>9. CASE j \in Pairing
    BY <1>5, <1>9 DEF Pairing
  <1>10. \/ j = <<HsReady, ReadyTrue, <<"emit", "on_ready">>>> \/ j = <<ReadyTrue, <<"emit", "on_ready">>>>
         \/ j = <<ReadyFalse, ToClose>> \/ j \in Pairing \/ \E x : j = <<x>>
    BY Zenon DEF Jobs
  <1> QED
    BY <1>1, <1>2, <1>3, <1>8, <1>9, <1>10

\* The two ways a signal is in a job.
LEMMA JobSignal ==
  ASSUME NEW j \in Jobs, NEW s \in {"on_ready", "on_init_error"}, NEW k \in {"emit", "call", "notify"},
         j # <<>>, Head(j) = <<k, s>>
  PROVE  \/ s = "on_ready" /\ Tail(j) = <<>> /\ j = <<<<k, s>>>>
         \/ s = "on_init_error" /\ \E y \in {ToClose, ToUnlock} : Tail(j) = <<y>> /\ j = <<<<k, s>>, y>>
  <1>1. CASE j = <<HsReady, ReadyTrue, <<"emit", "on_ready">>>>
    BY <1>1, ThreeSteps DEF HsReady
  <1>2. CASE j = <<ReadyTrue, <<"emit", "on_ready">>>>
    BY <1>2, TwoSteps DEF ReadyTrue
  <1>3. CASE j = <<ReadyFalse, ToClose>>
    BY <1>3, TwoSteps DEF ReadyFalse
  <1>4. CASE j = <<ToClose>> \/ j = <<ToUnlock>>
    BY <1>4, OneStep DEF ToClose, ToUnlock
  <1>5. ASSUME NEW x \in OfReady, j = <<x>>
        PROVE  s = "on_ready" /\ Tail(j) = <<>> /\ j = <<<<k, s>>>>
    <2>1. x = <<k, s>> /\ Tail(j) = <<>>
      BY <1>5, OneStep
    <2> QED
      BY <1>5, <2>1 DEF OfReady
  <1>6. ASSUME NEW x \in OfError, NEW y \in {ToClose, ToUnlock}, j = <<x, y>>
        PROVE  s = "on_init_error" /\ Tail(j) = <<y>> /\ j = <<<<k, s>>, y>>
    <2>1. x = <<k, s>> /\ Tail(j) = <<y>>
      BY <1>6, TwoSteps
    <2> QED
      BY <1>6, <2>1 DEF OfError
  <1> QED
    BY <1>1, <1>2, <1>3, <1>4, <1>5, <1>6 DEF Jobs, Pairing

\* A signal goes from one of its steps to the next.
LEMMA JobNext ==
  ASSUME NEW j \in Jobs, NEW s \in {"on_ready", "on_init_error"}, NEW k \in {"emit", "call", "notify"},
         j # <<>>, Head(j) = <<k, s>>, NEW m \in {"emit", "call", "notify"}
  PROVE  <<<<m, s>>>> \o Tail(j) \in Jobs /\ (Unlocks(<<<<m, s>>>> \o Tail(j)) <=> Unlocks(j))
  <1> DEFINE a == <<k, s>>  b == <<m, s>>
  <1>0. a # ToUnlock /\ b # ToUnlock
    BY DEF ToUnlock
  <1>1. CASE s = "on_ready" /\ Tail(j) = <<>> /\ j = <<a>>
    <2>1. <<b>> \o Tail(j) = <<b>>
      BY <1>1
    <2>2. b \in OfReady
      BY <1>1 DEF OfReady
    <2> HIDE DEF a, b
    <2>3. <<b>> \in Jobs
      BY <2>2 DEF Jobs
    <2>4. ~Unlocks(<<b>>) /\ ~Unlocks(j)
      BY <1>0, <1>1, OneStep
    <2> QED
      BY <2>1, <2>3, <2>4 DEF b
  <1>2. ASSUME NEW y \in {ToClose, ToUnlock}, s = "on_init_error", Tail(j) = <<y>>, j = <<a, y>>
        PROVE  <<b>> \o Tail(j) \in Jobs /\ (Unlocks(<<b>> \o Tail(j)) <=> Unlocks(j))
    <2>1. b \in OfError
      BY <1>2 DEF OfError
    <2> HIDE DEF a, b
    <2>2. <<b>> \o Tail(j) = <<b, y>>
      <3>1. <<b>> \o <<y>> = <<b, y>>
        BY TwoSteps
      <3> QED
        BY <1>2, <3>1
    <2>3. <<b, y>> \in Jobs
      BY <2>1 DEF Jobs, Pairing
    <2>4. (Unlocks(<<b, y>>) <=> y = ToUnlock) /\ (Unlocks(j) <=> y = ToUnlock)
      BY <1>0, <1>2, TwoSteps
    <2> QED
      BY <2>2, <2>3, <2>4
  <1> QED
    BY <1>1, <1>2, JobSignal

\* A handler that closes the connection has nothing else to do.
LEMMA JobClose ==
  ASSUME NEW j \in Jobs, j # <<>>, Head(j) = ToClose
  PROVE  j = <<ToClose>>
  <1>1. j # <<HsReady, ReadyTrue, <<"emit", "on_ready">>>>
    BY ThreeSteps DEF HsReady, ToClose
  <1>2. j # <<ReadyTrue, <<"emit", "on_ready">>>> /\ j # <<ReadyFalse, ToClose>>
    BY TwoSteps DEF ReadyTrue, ReadyFalse, ToClose
  <1>3. j # <<ToUnlock>> /\ \A x \in OfReady : j # <<x>>
    BY OneStep DEF OfReady, ToUnlock, ToClose
  <1>4. \A x \in OfError, y \in {ToClose, ToUnlock} : j # <<x, y>>
    <2> SUFFICES ASSUME NEW x \in OfError, NEW y \in {ToClose, ToUnlock}, j = <<x, y>> PROVE FALSE
      OBVIOUS
    <2>1. x = ToClose
      BY TwoSteps
    <2> QED
      BY <2>1 DEF OfError, ToClose
  <1> QED
    BY <1>1, <1>2, <1>3, <1>4 DEF Jobs, Pairing

Locks == Signals \cup {"close_lock_"}

\* The types of the caller and of the connection, and those of the flags.
ConnPlaces ==
  /\ pc \in {"start", "connect", "test", "test2", "sleep", "blocked", "late", "late2",
             "decide", "unwind", "returned"}
  /\ outcome \in {"none", "ok", "raise", "timeout", "internal"}
  /\ due \subseteq {"failed", "ready"}
  /\ armed \subseteq Signals /\ stage_ \in {"open", "error", "ready"}

ConnFlags ==
  /\ failed \in BOOLEAN /\ missed \in BOOLEAN /\ ready_ \in BOOLEAN /\ closed_ \in BOOLEAN
  /\ reading \in BOOLEAN /\ everReady \in BOOLEAN /\ raised \in BOOLEAN

ConnTypes == ConnPlaces /\ ConnFlags

\* What a handler has still to do, and that only the one that closes holds the lock.
ConnJobs ==
  /\ job \in [Workers -> Jobs] /\ held \in [Locks -> Workers \cup {"nobody"}]
  /\ \A u \in Workers : held["close_lock_"] = u <=> Unlocks(job[u])

\* The caller leaves its wait because it saw failed or ready_.
ConnTrue ==
  /\ outcome = "none" <=> pc \notin {"unwind", "returned"}
  /\ ready_ => everReady
  /\ pc = "decide" => failed \/ everReady
  /\ outcome = "ok" => everReady
  /\ outcome = "internal" => failed

\* The inductive invariant of a blocking connect.
ConnInv == ConnTypes /\ ConnJobs /\ ConnTrue

\* What is left of a handler is a sequence of steps.
LEMMA JobIsSeq ==
  ASSUME NEW j \in Jobs
  PROVE  j \in Seq(Steps) /\ Len(j) <= 4
  <1> DEFINE S == Steps
  <1>1. /\ HsReady \in S /\ ReadyTrue \in S /\ ReadyFalse \in S /\ ToClose \in S /\ ToUnlock \in S
        /\ OfReady \subseteq S /\ OfError \subseteq S /\ <<"emit", "on_ready">> \in S
    <2>1. HsReady \in S /\ ReadyTrue \in S /\ ReadyFalse \in S /\ ToClose \in S /\ ToUnlock \in S
      BY DEF HsReady, ReadyTrue, ReadyFalse, ToClose, ToUnlock, Steps
    <2>2. OfReady \subseteq S /\ OfError \subseteq S /\ <<"emit", "on_ready">> \in S
      BY DEF OfReady, OfError, Steps, Signals
    <2> QED
      BY <2>1, <2>2
  <1> HIDE DEF S
  <1>2. <<>> \in Seq(S) /\ Len(<<>>) = 0
    OBVIOUS
  <1>3. \A x \in S : <<x>> \in Seq(S) /\ Len(<<x>>) = 1
    OBVIOUS
  <1>4. \A x, y \in S : <<x, y>> \in Seq(S) /\ Len(<<x, y>>) = 2
    OBVIOUS
  <1>5. \A x, y, z \in S : <<x, y, z>> \in Seq(S) /\ Len(<<x, y, z>>) = 3
    OBVIOUS
  <1>6. \/ j = <<>> \/ (\E x \in S : j = <<x>>) \/ (\E x, y \in S : j = <<x, y>>)
        \/ \E x, y, z \in S : j = <<x, y, z>>
    <2>1. j \in Pairing => \E x, y \in S : j = <<x, y>>
      BY <1>1 DEF Pairing
    <2> QED
      BY <1>1, <2>1 DEF Jobs
  <1>7. j \in Seq(S) /\ (Len(j) = 0 \/ Len(j) = 1 \/ Len(j) = 2 \/ Len(j) = 3)
    <2>1. CASE j = <<>>
      BY <1>2, <2>1
    <2>2. CASE \E x \in S : j = <<x>>
      BY <1>3, <2>2
    <2>3. CASE \E x, y \in S : j = <<x, y>>
      BY <1>4, <2>3
    <2>4. CASE \E x, y, z \in S : j = <<x, y, z>>
      BY <1>5, <2>4
    <2> QED
      BY <1>6, <2>1, <2>2, <2>3, <2>4
  <1>8. \A n : n = 0 \/ n = 1 \/ n = 2 \/ n = 3 => n <= 4
    OBVIOUS
  <1> QED
    BY <1>7, <1>8, Zenon DEF S

\* A connect that has not begun.
LEMMA ConnStart ==
  ASSUME ConnectInit
  PROVE  ConnInv
  <1>1. ConnTypes /\ ConnTrue
    BY DEF ConnectInit, ConnTypes, ConnPlaces, ConnFlags, ConnTrue
  <1>2. ConnJobs
    <2>1. ~Unlocks(<<>>)
      BY DEF Unlocks
    <2>2. job = [u \in Workers |-> <<>>] /\ held = [l \in Locks |-> "nobody"]
      BY DEF ConnectInit, Workers, Signals, Nobody, Locks
    <2>3. <<>> \in Jobs
      BY DEF Jobs
    <2> QED
      BY <2>1, <2>2, <2>3 DEF ConnJobs, Workers, Locks
  <1> QED
    BY <1>1, <1>2 DEF ConnInv

\* A handler goes on, and close_lock_ stays where it is.
LEMMA JobsKept ==
  ASSUME ConnJobs, NEW u \in Workers, NEW j \in Jobs, job' = [job EXCEPT ![u] = j],
         Unlocks(j) <=> Unlocks(job[u]),
         held' \in [Locks -> Workers \cup {"nobody"}], held'["close_lock_"] = held["close_lock_"]
  PROVE  ConnJobs'
  <1>1. job \in [Workers -> Jobs] /\ \A w \in Workers : held["close_lock_"] = w <=> Unlocks(job[w])
    BY DEF ConnJobs
  <1>2. job' \in [Workers -> Jobs] /\ job'[u] = j /\ \A w \in Workers : w # u => job'[w] = job[w]
    BY <1>1
  <1>3. ASSUME NEW w \in Workers PROVE held'["close_lock_"] = w <=> Unlocks(job'[w])
    BY <1>1, <1>2
  <1> QED
    BY <1>2, <1>3 DEF ConnJobs

\* A step that leaves the handlers and the locks alone.
LEMMA JobsRest ==
  ASSUME ConnJobs, job' = job, held' = held
  PROVE  ConnJobs'
  BY DEF ConnJobs

\* The caller.
LEMMA ConnCaller ==
  ASSUME ConnInv, CallerSteps \/ TimerFires
  PROVE  ConnInv'
  <1> USE DEF caller, conn, Ends
  <1>0. ConnTypes /\ ConnJobs /\ ConnTrue
    BY DEF ConnInv
  <1>1. job' = job /\ held' = held
    BY DEF CallerSteps, TimerFires, Subscribe, Connect, Test, on_ready_diconnect, Block, LastTest, Decide, Unwind
  <1>2. ConnJobs'
    BY <1>0, <1>1, JobsRest
  <1>3. CASE Subscribe
    <2>1. ConnTypes' /\ ConnTrue'
      BY <1>0, <1>3 DEF Subscribe, ConnTypes, ConnPlaces, ConnFlags, ConnTrue, Signals
    <2> QED
      BY <1>2, <2>1 DEF ConnInv
  <1>4. CASE Connect
    <2>1. ConnTypes' /\ ConnTrue'
      BY <1>0, <1>4 DEF Connect, ConnTypes, ConnPlaces, ConnFlags, ConnTrue
    <2> QED
      BY <1>2, <2>1 DEF ConnInv
  <1>5. CASE Test
    <2>1. ConnTypes' /\ ConnTrue'
      BY <1>0, <1>5 DEF Test, on_ready_diconnect, ConnTypes, ConnPlaces, ConnFlags, ConnTrue
    <2> QED
      BY <1>2, <2>1 DEF ConnInv
  <1>6. CASE Block
    <2>1. ConnTypes' /\ ConnTrue'
      BY <1>0, <1>6 DEF Block, ConnTypes, ConnPlaces, ConnFlags, ConnTrue
    <2> QED
      BY <1>2, <2>1 DEF ConnInv
  <1>7. CASE Decide
    <2>1. ConnTypes' /\ ConnTrue'
      BY <1>0, <1>7 DEF Decide, ConnTypes, ConnPlaces, ConnFlags, ConnTrue
    <2> QED
      BY <1>2, <2>1 DEF ConnInv
  <1>8. CASE Unwind
    <2>1. ConnTypes' /\ ConnTrue'
      BY <1>0, <1>8 DEF Unwind, ConnTypes, ConnPlaces, ConnFlags, ConnTrue
    <2> QED
      BY <1>2, <2>1 DEF ConnInv
  <1>9. CASE TimerFires
    <2>1. ConnTypes' /\ ConnTrue'
      BY <1>0, <1>9 DEF TimerFires, SoFar, ConnTypes, ConnPlaces, ConnFlags, ConnTrue
    <2> QED
      BY <1>2, <2>1 DEF ConnInv
  <1>10. CASE LastTest
    <2>1. ConnTypes' /\ ConnTrue'
      BY <1>0, <1>10 DEF LastTest, on_ready_diconnect, ConnTypes, ConnPlaces, ConnFlags, ConnTrue
    <2> QED
      BY <1>2, <2>1 DEF ConnInv
  <1> QED
    BY <1>3, <1>4, <1>5, <1>6, <1>7, <1>8, <1>9, <1>10 DEF CallerSteps

\* An event of the connection gives an idle thread a handler to run.
LEMMA ConnEvents ==
  ASSUME ConnInv,
         \/ HandshakeReady \/ HandshakeRefused \/ ReadFails
         \/ ReadRaises \/ WriteError
  PROVE  ConnInv'
  <1> USE DEF caller, conn
  <1>0. ConnTypes /\ ConnJobs /\ ConnTrue
    BY DEF ConnInv
  <1>1. ConnTypes' /\ ConnTrue'
    <2>1. /\ pc' = pc /\ outcome' = outcome /\ failed' = failed /\ armed' = armed /\ missed' = missed /\ due' = due /\ ready_' = ready_ /\ closed_' = closed_ /\ everReady' = everReady
          /\ stage_' \in {stage_, "open", "error"} /\ reading' \in {reading, FALSE} /\ raised' \in {raised, TRUE}
      BY DEF HandshakeReady, HandshakeRefused, ReadFails, ReadRaises, WriteError
    <2>2. ConnTrue'
      BY <1>0, <2>1 DEF ConnTrue
    <2>3. ConnTypes'
      <3>1. stage_ \in {"open", "error", "ready"} /\ reading \in BOOLEAN /\ raised \in BOOLEAN
        BY <1>0 DEF ConnTypes, ConnPlaces, ConnFlags
      <3>2. stage_' \in {"open", "error", "ready"} /\ reading' \in BOOLEAN /\ raised' \in BOOLEAN
        BY <2>1, <3>1, Zenon
      <3>3. ConnPlaces'
        BY <1>0, <2>1, <3>2 DEF ConnTypes, ConnPlaces
      <3>4. ConnFlags'
        BY <1>0, <2>1, <3>2, Zenon DEF ConnTypes, ConnFlags
      <3> QED
        BY <3>3, <3>4 DEF ConnTypes
    <2> QED
      BY <2>2, <2>3
  <1>2. ConnJobs'
    <2> DEFINE a == <<HsReady, ReadyTrue, <<"emit", "on_ready">>>>  b == <<<<"emit", "on_init_error">>, ToClose>>
               c == <<ReadyFalse, ToClose>>  d == <<ToClose>>
    <2>1. \E u \in Workers : job[u] = <<>> /\ \E j \in {a, b, c, d} : job' = [job EXCEPT ![u] = j]
      BY DEF HandshakeReady, HandshakeRefused, ReadFails, ReadRaises, WriteError, Idle, Does, Workers, HsReady, ReadyTrue, ReadyFalse, ToClose
    <2>2. held' = held
      BY DEF HandshakeReady, HandshakeRefused, ReadFails, ReadRaises, WriteError
    <2>3. a \in Jobs /\ b \in Jobs /\ c \in Jobs /\ d \in Jobs
      BY DEF Jobs, Pairing, OfError
    <2> DEFINE e == <<"emit", "on_ready">>  i == <<"emit", "on_init_error">>
    <2>11. /\ HsReady # ToUnlock /\ ReadyTrue # ToUnlock /\ ReadyFalse # ToUnlock /\ ToClose # ToUnlock
           /\ e # ToUnlock /\ i # ToUnlock
      BY DEF HsReady, ReadyTrue, ReadyFalse, ToClose, ToUnlock
    <2> HIDE DEF e, i
    <2>12. ~Unlocks(<<HsReady, ReadyTrue, e>>) /\ ~Unlocks(<<i, ToClose>>)
      <3>0. Unlocks(<<HsReady, ReadyTrue, e>>) <=> HsReady = ToUnlock \/ ReadyTrue = ToUnlock \/ e = ToUnlock
        <4> DEFINE a1 == HsReady  b1 == ReadyTrue
        <4> HIDE DEF a1, b1
        <4>1. Unlocks(<<a1, b1, e>>) <=> a1 = ToUnlock \/ b1 = ToUnlock \/ e = ToUnlock
          BY ThreeSteps, Zenon
        <4> QED
          BY <4>1 DEF a1, b1
      <3>1. ~Unlocks(<<HsReady, ReadyTrue, e>>)
        BY <2>11, <3>0
      <3>2. ~Unlocks(<<i, ToClose>>)
        BY <2>11, TwoSteps, Zenon
      <3> QED
        BY <3>1, <3>2
    <2>4. ~Unlocks(a)
      BY <2>12 DEF e
    <2>5. ~Unlocks(b) /\ ~Unlocks(c)
      BY <2>11, <2>12, TwoSteps DEF i
    <2>6. ~Unlocks(d) /\ ~Unlocks(<<>>)
      <3>1. ~Unlocks(<<>>)
        BY DEF Unlocks
      <3> QED
        BY <3>1, OneStep DEF ToClose, ToUnlock
    <2> HIDE DEF a, b, c, d
    <2>7. PICK u \in Workers : job[u] = <<>> /\ \E j \in {a, b, c, d} : job' = [job EXCEPT ![u] = j]
      BY <2>1
    <2>8. PICK j \in {a, b, c, d} : job' = [job EXCEPT ![u] = j]
      BY <2>7
    <2>9. j \in Jobs /\ (Unlocks(j) <=> Unlocks(job[u]))
      BY <2>3, <2>4, <2>5, <2>6, <2>7
    <2>10. held' \in [Locks -> Workers \cup {"nobody"}] /\ held'["close_lock_"] = held["close_lock_"]
      BY <1>0, <2>2 DEF ConnJobs
    <2> QED
      BY <1>0, <2>8, <2>9, <2>10, JobsKept
  <1> QED
    BY <1>1, <1>2 DEF ConnInv

\* The steps of the handlers.
LEMMA ConnHandlers ==
  ASSUME ConnInv, NEW u \in Workers, WorkerSteps(u)
  PROVE  ConnInv'
  <1> USE DEF caller, conn
  <1> DEFINE j == job[u]
  <1>0. ConnTypes /\ ConnJobs /\ ConnTrue
    BY DEF ConnInv
  <1>1. /\ job \in [Workers -> Jobs] /\ held \in [Locks -> Workers \cup {"nobody"}] /\ j \in Jobs
        /\ \A w \in Workers : held["close_lock_"] = w <=> Unlocks(job[w])
    BY <1>0 DEF ConnJobs
  <1>2. ASSUME NEW s \in Signals PROVE s \in Locks /\ s # "close_lock_"
    BY DEF Locks, Signals
  \* A step is done and nothing comes in its place.
  <1>3. ASSUME j # <<>>, Head(j) # ToUnlock, job' = [job EXCEPT ![u] = Tail(j)],
               held' \in [Locks -> Workers \cup {"nobody"}], held'["close_lock_"] = held["close_lock_"]
        PROVE  ConnJobs'
    <2>1. Tail(j) \in Jobs /\ (Unlocks(Tail(j)) <=> Unlocks(j))
      BY <1>1, <1>3, HandlerRest
    <2> QED
      BY <1>0, <1>3, <2>1, JobsKept
  <1>4. CASE SetReady(u)
    <2>1. /\ j # <<>> /\ Head(j) # ToUnlock /\ job' = [job EXCEPT ![u] = Tail(j)] /\ held' = held
      BY <1>4 DEF SetReady, At, Idle, Does, Rest, ToUnlock
    <2>2. ConnJobs'
      BY <1>1, <1>3, <2>1
    <2>3. /\ pc' = pc /\ outcome' = outcome /\ failed' = failed /\ armed' = armed /\ missed' = missed /\ due' = due /\ closed_' = closed_ /\ reading' = reading /\ raised' = raised
          /\ stage_' \in {stage_, "ready"}
          /\ \/ ready_' = ready_ /\ everReady' = everReady
             \/ ready_' = TRUE /\ everReady' = TRUE
             \/ ready_' = FALSE /\ everReady' = everReady
      BY <1>4 DEF SetReady
    <2>4. ConnTypes'
      <3>1. stage_ \in {"open", "error", "ready"} /\ ready_ \in BOOLEAN /\ everReady \in BOOLEAN
        BY <1>0 DEF ConnTypes, ConnPlaces, ConnFlags
      <3>2. stage_' \in {"open", "error", "ready"} /\ ready_' \in BOOLEAN /\ everReady' \in BOOLEAN
        BY <2>3, <3>1, Zenon
      <3>3. ConnPlaces'
        BY <1>0, <2>3, <3>2 DEF ConnTypes, ConnPlaces
      <3>4. ConnFlags'
        BY <1>0, <2>3, <3>2, Zenon DEF ConnTypes, ConnFlags
      <3> QED
        BY <3>3, <3>4 DEF ConnTypes
    <2>5. ConnTrue'
      BY <1>0, <2>3 DEF ConnTrue, ConnTypes, ConnPlaces, ConnFlags
    <2> QED
      BY <2>2, <2>4, <2>5 DEF ConnInv
  <1>5. CASE Close(u)
    <2>1. j # <<>> /\ Head(j) = ToClose /\ held["close_lock_"] = "nobody"
      BY <1>5 DEF Close, At, Idle, ToClose, Nobody
    <2>2. j = <<ToClose>> /\ Tail(j) = <<>>
      BY <1>1, <2>1, JobClose, OneStep
    <2>3. ConnJobs'
      <3>1. CASE closed_
        <4>1. job' = [job EXCEPT ![u] = Tail(j)] /\ held' = held
          BY <1>5, <3>1 DEF Close, Does, Rest
        <4>2. ToClose # ToUnlock
          BY DEF ToClose, ToUnlock
        <4> QED
          BY <1>1, <1>3, <2>1, <4>1, <4>2
      <3>2. CASE ~closed_
        <4> DEFINE k == (IF stage_ = "open" THEN <<<<"emit", "on_init_error">>>> ELSE <<>>) \o <<ToUnlock>> \o Tail(j)
        <4>1. job' = [job EXCEPT ![u] = k] /\ held' = [held EXCEPT !["close_lock_"] = u]
          BY <1>5, <3>2 DEF Close, Does, Rest, ToUnlock
        <4>2. k = <<<<"emit", "on_init_error">>, ToUnlock>> \/ k = <<ToUnlock>>
          <5> DEFINE e == <<"emit", "on_init_error">>
          <5> HIDE DEF e
          <5>1. <<e>> \o <<ToUnlock>> = <<e, ToUnlock>>
            BY TwoSteps
          <5>2. \A x, y : <<x>> \o <<>> = <<x>> /\ <<x, y>> \o <<>> = <<x, y>> /\ <<>> \o <<x>> = <<x>>
            OBVIOUS
          <5>3. k = (IF stage_ = "open" THEN <<e>> ELSE <<>>) \o <<ToUnlock>> \o <<>>
            BY <2>2 DEF e
          <5> HIDE DEF k
          <5> QED
            BY <5>1, <5>2, <5>3 DEF e
        <4>3. k \in Jobs
          <5> HIDE DEF k
          <5> QED
            BY <4>2 DEF Jobs, Pairing, OfError
        <4>4. Unlocks(k)
          <5> HIDE DEF k
          <5> QED
            BY <4>2, OneStep, TwoSteps
        <4> HIDE DEF k
        <4>5. job' \in [Workers -> Jobs] /\ job'[u] = k /\ \A w \in Workers : w # u => job'[w] = job[w]
          BY <1>1, <4>1, <4>3
        <4>6. held' \in [Locks -> Workers \cup {"nobody"}] /\ held'["close_lock_"] = u
          BY <1>1, <4>1 DEF Locks
        <4>7. ASSUME NEW w \in Workers PROVE held'["close_lock_"] = w <=> Unlocks(job'[w])
          <5>1. w # u => ~Unlocks(job[w])
            <6>1. w # "nobody"
              BY DEF Workers
            <6> QED
              BY <1>1, <2>1, <6>1
          <5> QED
            BY <4>4, <4>5, <4>6, <5>1
        <4> QED
          BY <4>5, <4>6, <4>7 DEF ConnJobs
      <3> QED
        BY <3>1, <3>2
    <2>4. /\ pc' = pc /\ outcome' = outcome /\ failed' = failed /\ armed' = armed /\ missed' = missed /\ due' = due /\ ready_' = ready_ /\ stage_' = stage_ /\ reading' = reading
          /\ everReady' = everReady /\ raised' = raised /\ closed_' \in {closed_, TRUE}
      BY <1>5 DEF Close
    <2>5. ConnTypes'
      <3>1. closed_' \in BOOLEAN
        BY <1>0, <2>4, Zenon DEF ConnTypes, ConnFlags
      <3>2. ConnPlaces'
        BY <1>0, <2>4 DEF ConnTypes, ConnPlaces
      <3>3. ConnFlags'
        BY <1>0, <2>4, <3>1, Zenon DEF ConnTypes, ConnFlags
      <3> QED
        BY <3>2, <3>3 DEF ConnTypes
    <2>6. ConnTrue'
      BY <1>0, <2>4 DEF ConnTrue
    <2> QED
      BY <2>3, <2>5, <2>6 DEF ConnInv
  <1>6. CASE Unlock(u)
    <2>1. /\ j # <<>> /\ Head(j) = ToUnlock /\ job' = [job EXCEPT ![u] = Tail(j)]
          /\ held' = [held EXCEPT !["close_lock_"] = "nobody"]
      BY <1>6 DEF Unlock, At, Idle, Does, Rest, ToUnlock, Nobody
    <2>2. Tail(j) \in Jobs /\ ~Unlocks(Tail(j))
      BY <1>1, <2>1, HandlerRest
    <2>3. Unlocks(j)
      <3>1. j \in Seq(Steps)
        BY <1>1, JobIsSeq
      <3> HIDE DEF j
      <3>2. 1 \in DOMAIN j /\ j[1] = Head(j)
        BY <2>1, <3>1
      <3> QED
        BY <2>1, <3>2 DEF Unlocks
    <2>4. job' \in [Workers -> Jobs] /\ job'[u] = Tail(j) /\ \A w \in Workers : w # u => job'[w] = job[w]
      BY <1>1, <2>1, <2>2
    <2>5. held' \in [Locks -> Workers \cup {"nobody"}] /\ held'["close_lock_"] = "nobody"
      BY <1>1, <2>1 DEF Locks
    <2>6. ASSUME NEW w \in Workers PROVE held'["close_lock_"] = w <=> Unlocks(job'[w])
      <3>1. w # "nobody" /\ (w # u => ~Unlocks(job[w]))
        <4>1. held["close_lock_"] = u
          BY <1>1, <2>3
        <4> QED
          BY <1>1, <4>1 DEF Workers
      <3> QED
        BY <2>2, <2>4, <2>5, <3>1
    <2>7. ConnJobs'
      BY <2>4, <2>5, <2>6 DEF ConnJobs
    <2>8. /\ pc' = pc /\ outcome' = outcome /\ failed' = failed /\ armed' = armed /\ missed' = missed /\ due' = due /\ ready_' = ready_ /\ stage_' = stage_ /\ closed_' = closed_
          /\ reading' = reading /\ everReady' = everReady /\ raised' = raised
      BY <1>6 DEF Unlock
    <2>9. ConnTypes' /\ ConnTrue'
      BY <1>0, <2>8 DEF ConnTypes, ConnPlaces, ConnFlags, ConnTrue
    <2> QED
      BY <2>7, <2>9 DEF ConnInv
  <1>7. ASSUME NEW s \in Signals, Emit(u, s) PROVE ConnInv'
    <2>1. j # <<>> /\ Head(j) = <<"emit", s>>
      BY <1>7 DEF Emit, At, Idle
    <2>2. ConnJobs'
      <3>1. CASE s \in armed
        <4>1. job' = [job EXCEPT ![u] = <<<<"call", s>>>> \o Tail(j)] /\ held' = [held EXCEPT ![s] = u]
          BY <1>7, <3>1 DEF Emit, Does, Rest
        <4>2. <<<<"call", s>>>> \o Tail(j) \in Jobs /\ (Unlocks(<<<<"call", s>>>> \o Tail(j)) <=> Unlocks(j))
          BY <1>1, <2>1, JobNext DEF Signals
        <4>3. held' \in [Locks -> Workers \cup {"nobody"}] /\ held'["close_lock_"] = held["close_lock_"]
          BY <1>1, <1>2, <4>1 DEF Locks
        <4> QED
          BY <1>0, <4>1, <4>2, <4>3, JobsKept
      <3>2. CASE s \notin armed
        <4>1. job' = [job EXCEPT ![u] = Tail(j)] /\ held' = held
          BY <1>7, <3>2 DEF Emit, Does, Rest
        <4>2. <<"emit", s>> # ToUnlock
          BY DEF ToUnlock
        <4> QED
          BY <1>1, <1>3, <2>1, <4>1, <4>2
      <3> QED
        BY <3>1, <3>2
    <2>3. /\ pc' = pc /\ outcome' = outcome /\ failed' = failed /\ armed' = armed /\ missed' = missed /\ due' = due /\ ready_' = ready_ /\ stage_' = stage_ /\ closed_' = closed_
          /\ reading' = reading /\ everReady' = everReady /\ raised' = raised
      BY <1>7 DEF Emit
    <2>4. ConnTypes' /\ ConnTrue'
      BY <1>0, <2>3 DEF ConnTypes, ConnPlaces, ConnFlags, ConnTrue
    <2> QED
      BY <2>2, <2>4 DEF ConnInv
  <1>8. ASSUME NEW s \in Signals, CallSlot(u, s) PROVE ConnInv'
    <2>1. j # <<>> /\ Head(j) = <<"call", s>> /\ job' = [job EXCEPT ![u] = <<<<"notify", s>>>> \o Tail(j)] /\ held' = held
      BY <1>8 DEF CallSlot, At, Idle, Does, Rest
    <2>2. <<<<"notify", s>>>> \o Tail(j) \in Jobs /\ (Unlocks(<<<<"notify", s>>>> \o Tail(j)) <=> Unlocks(j))
      BY <1>1, <2>1, JobNext DEF Signals
    <2>3. ConnJobs'
      BY <1>0, <1>1, <2>1, <2>2, JobsKept
    <2>4. /\ pc' = pc /\ outcome' = outcome /\ armed' = armed /\ missed' = missed /\ due' = due /\ ready_' = ready_ /\ stage_' = stage_ /\ closed_' = closed_
          /\ reading' = reading /\ everReady' = everReady /\ raised' = raised /\ failed' = (failed \/ s = "on_init_error")
      BY <1>8 DEF CallSlot
    <2>5. failed' \in BOOLEAN /\ (failed => failed')
      BY <2>4, Zenon
    <2>6. ConnTypes' /\ ConnTrue'
      BY <1>0, <2>4, <2>5 DEF ConnTypes, ConnPlaces, ConnFlags, ConnTrue
    <2> QED
      BY <2>3, <2>6 DEF ConnInv
  <1>9. ASSUME NEW s \in Signals, Notify(u, s) PROVE ConnInv'
    <2>1. /\ j # <<>> /\ Head(j) = <<"notify", s>> /\ job' = [job EXCEPT ![u] = Tail(j)]
          /\ held' = [held EXCEPT ![s] = "nobody"]
      BY <1>9 DEF Notify, At, Idle, Does, Rest, Nobody
    <2>2. held' \in [Locks -> Workers \cup {"nobody"}] /\ held'["close_lock_"] = held["close_lock_"]
      BY <1>1, <1>2, <2>1 DEF Locks
    <2>3. <<"notify", s>> # ToUnlock
      BY DEF ToUnlock
    <2>4. ConnJobs'
      BY <1>3, <2>1, <2>2, <2>3
    <2>5. /\ outcome' = outcome /\ failed' = failed /\ armed' = armed /\ ready_' = ready_ /\ stage_' = stage_ /\ closed_' = closed_
          /\ reading' = reading /\ everReady' = everReady /\ raised' = raised
          /\ pc' = (IF pc = "blocked" THEN "test" ELSE pc) /\ missed' = (missed \/ pc \in {"test2", "sleep"}) /\ due' = due
      BY <1>9 DEF Notify
    <2>6. missed' \in BOOLEAN
      BY <2>5, Zenon
    <2>7. ConnTypes' /\ ConnTrue'
      BY <1>0, <2>5, <2>6 DEF ConnTypes, ConnPlaces, ConnFlags, ConnTrue
    <2> QED
      BY <2>4, <2>7 DEF ConnInv
  <1> QED
    BY <1>4, <1>5, <1>6, <1>7, <1>8, <1>9 DEF WorkerSteps, Signals

\* Every step keeps the invariant.
LEMMA ConnStep ==
  ASSUME ConnInv, [ConnectNext]_connectVars
  PROVE  ConnInv'
  <1>1. CASE UNCHANGED connectVars
    <2>1. /\ pc' = pc /\ outcome' = outcome /\ failed' = failed /\ armed' = armed /\ missed' = missed /\ due' = due /\ ready_' = ready_ /\ stage_' = stage_ /\ closed_' = closed_
          /\ reading' = reading /\ job' = job /\ held' = held /\ everReady' = everReady /\ raised' = raised
      BY <1>1 DEF connectVars, caller, conn
    <2> QED
      BY <2>1 DEF ConnInv, ConnTypes, ConnPlaces, ConnFlags, ConnJobs, ConnTrue
  <1>2. CASE ConnectNext
    BY <1>2, ConnCaller, ConnEvents, ConnHandlers DEF ConnectNext, Workers
  <1> QED
    BY <1>1, <1>2

\* The invariant contains what the run checks.
LEMMA ConnSound ==
  ASSUME ConnInv
  PROVE  OutcomeSound
  <1>0. ConnTypes /\ ConnJobs /\ ConnTrue
    BY DEF ConnInv
  <1>1. HonestOutcome
    BY <1>0 DEF ConnTrue, HonestOutcome
  <1>2. /\ job \in [Workers -> Seq(Steps)] /\ \A u \in Workers : Len(job[u]) <= 4
    <2>1. job \in [Workers -> Jobs]
      BY <1>0 DEF ConnJobs
    <2>2. \A u \in Workers : job[u] \in Seq(Steps) /\ Len(job[u]) <= 4
      BY <2>1, JobIsSeq
    <2> QED
      BY <2>1, <2>2
  <1>3. \A u \in Workers : held["close_lock_"] = u <=> \E i \in DOMAIN job[u] : job[u][i] = <<"unlock", "self">>
    BY <1>0 DEF ConnJobs, Unlocks, ToUnlock
  <1>4. held \in [Signals \cup {"close_lock_"} -> Workers \cup {Nobody}]
    BY <1>0 DEF ConnJobs, Signals, Workers, Nobody, Locks
  <1>5. outcome = "none" <=> pc \notin {"unwind", "returned"}
    BY <1>0 DEF ConnTrue
  <1>6. /\ pc \in {"start", "connect", "test", "test2", "sleep", "blocked", "late", "late2",
                   "decide", "unwind", "returned"}
        /\ due \subseteq {"failed", "ready"}
        /\ outcome \in {"none", "ok", "raise", "timeout", "internal"}
        /\ failed \in BOOLEAN /\ armed \subseteq Signals /\ missed \in BOOLEAN
        /\ ready_ \in BOOLEAN /\ stage_ \in {"open", "error", "ready"}
        /\ closed_ \in BOOLEAN /\ reading \in BOOLEAN /\ everReady \in BOOLEAN /\ raised \in BOOLEAN
    BY <1>0 DEF ConnTypes, ConnPlaces, ConnFlags, Signals
  <1>7. ConnectTypeOK
    BY <1>2, <1>3, <1>4, <1>5, <1>6, Zenon DEF ConnectTypeOK, Workers
  <1> QED
    BY <1>1, <1>7 DEF OutcomeSound

\* However the handlers and the timer interleave with the caller, connect reports success
\* only if the handshake was done and an internal error only if the transport failed, and
\* close_lock_ is held by the handler that is going to give it back and by nobody else.
\* (client.cpp: connect_impl, on_init_error, on_ready)
THEOREM ConnectIsHonest == ConnectSpec => []OutcomeSound
  BY ConnStart, ConnStep, ConnSound, PTL DEF ConnectSpec

\* The handler has still to close the connection.
Closes(j) == \E i \in DOMAIN j : j[i] = ToClose

\* A handler that does another step still closes,
LEMMA CloseRest ==
  ASSUME NEW j \in Seq(Steps), j # <<>>, Closes(j), Head(j) # ToClose
  PROVE  Closes(Tail(j))
  <1>1. PICK i \in DOMAIN j : j[i] = ToClose
    BY DEF Closes
  <1>2. i # 1 /\ i \in 1..Len(j)
    BY <1>1
  <1>3. Len(Tail(j)) = Len(j) - 1 /\ i - 1 \in 1..Len(Tail(j)) /\ Tail(j)[i - 1] = j[i]
    BY <1>2
  <1>4. i - 1 \in DOMAIN Tail(j)
    BY <1>3
  <1> QED
    BY <1>1, <1>3, <1>4 DEF Closes

\* also behind a step put before the others.
LEMMA CloseBehind ==
  ASSUME NEW j \in Seq(Steps), NEW x \in Steps, Closes(j)
  PROVE  Closes(<<x>> \o j)
  <1>1. PICK i \in 1..Len(j) : j[i] = ToClose
    BY DEF Closes
  <1> DEFINE a == <<x>>
  <1>2. a \in Seq(Steps) /\ Len(a) = 1
    OBVIOUS
  <1> HIDE DEF a
  <1>3. /\ a \o j \in Seq(Steps) /\ Len(a \o j) = Len(a) + Len(j)
        /\ \A k \in 1..Len(j) : (a \o j)[Len(a) + k] = j[k]
    <2> DEFINE S == Steps
    <2>1. j \in Seq(S) /\ a \in Seq(S)
      BY <1>2
    <2> HIDE DEF S
    <2>2. /\ a \o j \in Seq(S) /\ Len(a \o j) = Len(a) + Len(j)
          /\ \A k \in 1..Len(j) : (a \o j)[Len(a) + k] = j[k]
      BY <2>1, ConcatAt
    <2> QED
      BY <2>2 DEF S
  <1>4. 1 + i \in DOMAIN (a \o j) /\ (a \o j)[1 + i] = ToClose
    BY <1>1, <1>2, <1>3
  <1> QED
    BY <1>4 DEF Closes, a

\* A handler that takes the ready flag back goes on to close.
LEMMA JobFalse ==
  ASSUME NEW j \in Jobs, j # <<>>, Head(j) = ReadyFalse
  PROVE  Closes(Tail(j))
  <1>1. j # <<HsReady, ReadyTrue, <<"emit", "on_ready">>>>
    BY ThreeSteps DEF HsReady, ReadyFalse
  <1>2. j # <<ReadyTrue, <<"emit", "on_ready">>>> /\ j # <<ToClose>>
    BY OneStep, TwoSteps DEF ReadyTrue, ReadyFalse, ToClose
  <1>3. j # <<ToUnlock>> /\ \A x \in OfReady : j # <<x>>
    BY OneStep DEF OfReady, ToUnlock, ReadyFalse
  <1>4. \A x \in OfError, y \in {ToClose, ToUnlock} : j # <<x, y>>
    <2> SUFFICES ASSUME NEW x \in OfError, NEW y \in {ToClose, ToUnlock}, j = <<x, y>> PROVE FALSE
      OBVIOUS
    <2>1. x = ReadyFalse
      BY TwoSteps
    <2> QED
      BY <2>1 DEF OfError, ReadyFalse
  <1>5. j = <<ReadyFalse, ToClose>>
    BY <1>1, <1>2, <1>3, <1>4 DEF Jobs, Pairing
  <1>6. Tail(j) = <<ToClose>>
    BY <1>5, TwoSteps
  <1>7. 1 \in DOMAIN <<ToClose>> /\ <<ToClose>>[1] = ToClose
    OBVIOUS
  <1> QED
    BY <1>6, <1>7 DEF Closes

\* The connection is going down when it is closed or a handler closes it.
LEMMA DownIs ==
  GoingDown <=> closed_ \/ \E u \in Workers : Closes(job[u])
  BY DEF GoingDown, Closes, ToClose

\* A handler that goes on leaves the other alone.
LEMMA DownKept ==
  ASSUME ConnJobs, NEW u \in Workers, NEW j, job' = [job EXCEPT ![u] = j],
         closed_ => closed_', Closes(job[u]) => Closes(j), GoingDown
  PROVE  GoingDown'
  <1>1. job \in [Workers -> Jobs]
    BY DEF ConnJobs
  <1>2. job'[u] = j /\ \A w \in Workers : w # u => job'[w] = job[w]
    BY <1>1
  <1>3. GoingDown' <=> closed_' \/ \E w \in Workers : Closes(job'[w])
    BY DEF GoingDown, Closes, ToClose
  <1> QED
    BY <1>2, <1>3, DownIs

\* What the history of the timer says.
ConnDue ==
  /\ everReady /\ ~ready_ => GoingDown
  /\ "failed" \in due => failed
  /\ "ready" \in due => everReady
  /\ pc = "late2" => "failed" \notin due
  /\ NoFalseTimeout

\* A step of a handler: what is going down stays so, and only a handler that is
\* about to close takes the ready flag back.
LEMMA DownSteps ==
  ASSUME ConnInv, NEW u \in Workers, WorkerSteps(u)
  PROVE  /\ GoingDown => GoingDown'
         /\ outcome' = outcome /\ due' = due /\ (pc' = "late2" => pc = "late2")
         /\ (failed => failed')
         /\ \/ ready_' = ready_ /\ everReady' = everReady
            \/ ready_' = TRUE /\ everReady' = TRUE
            \/ GoingDown' /\ everReady' = everReady
  <1> USE DEF caller, conn
  <1> DEFINE j == job[u]
  <1>0. ConnJobs /\ j \in Jobs
    BY DEF ConnInv, ConnJobs
  <1>1. j \in Seq(Steps)
    BY <1>0, JobIsSeq
  <1>2. ASSUME j # <<>>, Head(j) # ToClose, job' = [job EXCEPT ![u] = Tail(j)], closed_' = closed_, GoingDown
        PROVE  GoingDown'
    <2>1. Closes(j) => Closes(Tail(j))
      BY <1>1, <1>2, CloseRest
    <2> QED
      BY <1>0, <1>2, <2>1, DownKept
  <1>3. ASSUME NEW s \in Signals, NEW k \in {"call", "notify"}, j # <<>>, Head(j) # ToClose,
               job' = [job EXCEPT ![u] = <<<<k, s>>>> \o Tail(j)], closed_' = closed_, GoingDown
        PROVE  GoingDown'
    <2>1. Closes(j) => Closes(Tail(j))
      BY <1>1, <1>3, CloseRest
    <2>2. Tail(j) \in Seq(Steps) /\ <<k, s>> \in Steps
      <3>1. Tail(j) \in Seq(Steps)
        BY <1>1, <1>3
      <3>2. <<k, s>> \in Steps
        BY <1>3 DEF Steps
      <3> QED
        BY <3>1, <3>2
    <2>3. Closes(j) => Closes(<<<<k, s>>>> \o Tail(j))
      BY <2>1, <2>2, CloseBehind
    <2> QED
      BY <1>0, <1>3, <2>3, DownKept
  <1>4. CASE SetReady(u)
    <2>1. /\ j # <<>> /\ Head(j) # ToClose /\ job' = [job EXCEPT ![u] = Tail(j)] /\ closed_' = closed_
          /\ outcome' = outcome /\ due' = due /\ pc' = pc /\ failed' = failed
          /\ \/ ready_' = ready_ /\ everReady' = everReady
             \/ ready_' = TRUE /\ everReady' = TRUE
             \/ Head(j) = ReadyFalse /\ everReady' = everReady
      BY <1>4 DEF SetReady, At, Idle, Does, Rest, ToClose, ReadyFalse
    <2>2. ASSUME Head(j) = ReadyFalse PROVE GoingDown'
      <3>1. Closes(Tail(j))
        BY <1>0, <2>1, <2>2, JobFalse
      <3>2. job'[u] = Tail(j)
        BY <1>0, <2>1 DEF ConnJobs
      <3> QED
        BY <3>1, <3>2 DEF GoingDown, Closes, ToClose
    <2>3. GoingDown => GoingDown'
      BY <1>2, <2>1
    <2> HIDE DEF j
    <2> QED
      BY <2>1, <2>2, <2>3
  <1>5. CASE Close(u)
    <2>1. /\ closed_' = TRUE /\ outcome' = outcome /\ due' = due /\ pc' = pc /\ failed' = failed
          /\ ready_' = ready_ /\ everReady' = everReady
      <3>1. /\ outcome' = outcome /\ due' = due /\ pc' = pc /\ failed' = failed
            /\ ready_' = ready_ /\ everReady' = everReady
        BY <1>5 DEF Close
      <3>2. closed_' = TRUE
        <4>1. closed_ \in BOOLEAN
          BY DEF ConnInv, ConnTypes, ConnFlags
        <4>2. IF closed_ THEN closed_' = closed_ ELSE closed_' = TRUE
          BY <1>5 DEF Close
        <4> QED
          BY <4>1, <4>2
      <3> QED
        BY <3>1, <3>2
    <2> QED
      BY <2>1 DEF GoingDown
  <1>6. CASE Unlock(u)
    <2>1. /\ j # <<>> /\ Head(j) # ToClose /\ job' = [job EXCEPT ![u] = Tail(j)] /\ closed_' = closed_
          /\ outcome' = outcome /\ due' = due /\ pc' = pc /\ failed' = failed
          /\ ready_' = ready_ /\ everReady' = everReady
      BY <1>6 DEF Unlock, At, Idle, Does, Rest, ToClose
    <2> QED
      BY <1>2, <2>1
  <1>7. ASSUME NEW s \in Signals, Emit(u, s)
        PROVE  /\ GoingDown => GoingDown'
               /\ outcome' = outcome /\ due' = due /\ pc' = pc /\ failed' = failed
               /\ ready_' = ready_ /\ everReady' = everReady
    <2>1. /\ j # <<>> /\ Head(j) # ToClose /\ closed_' = closed_
          /\ outcome' = outcome /\ due' = due /\ pc' = pc /\ failed' = failed
          /\ ready_' = ready_ /\ everReady' = everReady
          /\ job' = [job EXCEPT ![u] = Tail(j)] \/ job' = [job EXCEPT ![u] = <<<<"call", s>>>> \o Tail(j)]
      BY <1>7 DEF Emit, At, Idle, Does, Rest, ToClose
    <2> QED
      BY <1>2, <1>3, <2>1
  <1>8. ASSUME NEW s \in Signals, CallSlot(u, s)
        PROVE  /\ GoingDown => GoingDown'
               /\ outcome' = outcome /\ due' = due /\ pc' = pc /\ (failed => failed')
               /\ ready_' = ready_ /\ everReady' = everReady
    <2>1. /\ j # <<>> /\ Head(j) # ToClose /\ closed_' = closed_
          /\ outcome' = outcome /\ due' = due /\ pc' = pc /\ failed' = (failed \/ s = "on_init_error")
          /\ ready_' = ready_ /\ everReady' = everReady
          /\ job' = [job EXCEPT ![u] = <<<<"notify", s>>>> \o Tail(j)]
      BY <1>8 DEF CallSlot, At, Idle, Does, Rest, ToClose
    <2>2. failed => failed'
      BY <2>1, Zenon
    <2> QED
      BY <1>3, <2>1, <2>2
  <1>9. ASSUME NEW s \in Signals, Notify(u, s)
        PROVE  /\ GoingDown => GoingDown'
               /\ outcome' = outcome /\ due' = due /\ (pc' = "late2" => pc = "late2") /\ failed' = failed
               /\ ready_' = ready_ /\ everReady' = everReady
    <2>1. /\ j # <<>> /\ Head(j) # ToClose /\ closed_' = closed_
          /\ outcome' = outcome /\ due' = due /\ (pc' = "late2" => pc = "late2") /\ failed' = failed
          /\ ready_' = ready_ /\ everReady' = everReady
          /\ job' = [job EXCEPT ![u] = Tail(j)]
      BY <1>9 DEF Notify, At, Idle, Does, Rest, ToClose
    <2> QED
      BY <1>2, <2>1
  <1> HIDE DEF j
  <1> QED
    BY <1>4, <1>5, <1>6, <1>7, <1>8, <1>9 DEF WorkerSteps, Signals

\* An event of the connection starts a handler in an idle thread.
LEMMA DownEvents ==
  ASSUME ConnInv, HandshakeReady \/ HandshakeRefused \/ ReadFails \/ ReadRaises \/ WriteError
  PROVE  /\ GoingDown => GoingDown'
         /\ outcome' = outcome /\ due' = due /\ pc' = pc /\ failed' = failed
         /\ ready_' = ready_ /\ everReady' = everReady
  <1> USE DEF caller, conn
  <1>1. /\ outcome' = outcome /\ due' = due /\ pc' = pc /\ failed' = failed /\ closed_' = closed_
        /\ ready_' = ready_ /\ everReady' = everReady
    BY DEF HandshakeReady, HandshakeRefused, ReadFails, ReadRaises, WriteError
  <1>2. PICK u \in Workers : job[u] = <<>> /\ \E j : job' = [job EXCEPT ![u] = j]
    BY DEF HandshakeReady, HandshakeRefused, ReadFails, ReadRaises, WriteError, Idle, Does, Workers
  <1>3. ~Closes(<<>>)
    BY DEF Closes
  <1>4. GoingDown => GoingDown'
    BY <1>1, <1>2, <1>3, DownKept DEF ConnInv
  <1> QED
    BY <1>1, <1>4

\* A step of the caller or of the timer leaves the connection alone, except that it
\* starts to read.
LEMMA DueCaller ==
  ASSUME ConnInv, ConnDue, CallerSteps \/ TimerFires
  PROVE  ConnDue'
  <1> USE DEF caller, conn, Ends
  <1>0. /\ everReady /\ ~ready_ => GoingDown
        /\ "failed" \in due => failed
        /\ "ready" \in due => everReady
        /\ pc = "late2" => "failed" \notin due
        /\ outcome = "timeout" => "failed" \notin due /\ ("ready" \in due => GoingDown)
    BY DEF ConnDue, NoFalseTimeout
  <1>1. /\ job' = job /\ closed_' = closed_ /\ ready_' = ready_ /\ everReady' = everReady /\ failed' = failed
    BY DEF CallerSteps, TimerFires, Subscribe, Connect, Test, on_ready_diconnect, Block, LastTest, Decide, Unwind
  <1>2. GoingDown' = GoingDown
    BY <1>1 DEF GoingDown
  <1>3. ASSUME TimerFires PROVE ConnDue'
    <2>1. outcome' = outcome /\ pc' = "late" /\ pc = "blocked" /\ due' = SoFar
      BY <1>3 DEF TimerFires
    <2>2. outcome # "timeout"
      BY <2>1 DEF ConnInv, ConnTrue
    <2>3. ("failed" \in due' => failed) /\ ("ready" \in due' => everReady)
      BY <2>1 DEF SoFar
    <2> QED
      BY <1>0, <1>1, <1>2, <2>1, <2>2, <2>3 DEF ConnDue, NoFalseTimeout
  <1>4. ASSUME LastTest PROVE ConnDue'
    <2>1. due' = due
      BY <1>4 DEF LastTest
    <2>2. pc' = "late2" => ~failed
      BY <1>4 DEF LastTest, on_ready_diconnect
    <2>3. outcome' = "timeout" => outcome = "timeout" \/ (pc = "late2" /\ ~ready_)
      BY <1>4 DEF LastTest, on_ready_diconnect
    <2> QED
      BY <1>0, <1>1, <1>2, <2>1, <2>2, <2>3 DEF ConnDue, NoFalseTimeout
  <1>5. ASSUME Subscribe \/ Connect \/ Test \/ Block \/ Decide \/ Unwind PROVE ConnDue'
    <2>1. due' = due /\ pc' # "late2" /\ (outcome' = "timeout" => outcome = "timeout")
      BY <1>5 DEF Subscribe, Connect, Test, on_ready_diconnect, Block, Decide, Unwind
    <2> QED
      BY <1>0, <1>1, <1>2, <2>1 DEF ConnDue, NoFalseTimeout
  <1> QED
    BY <1>3, <1>4, <1>5 DEF CallerSteps

\* Every step keeps the history right.
LEMMA DueStep ==
  ASSUME ConnInv, ConnDue, [ConnectNext]_connectVars
  PROVE  ConnDue'
  <1>0. /\ everReady /\ ~ready_ => GoingDown
        /\ "failed" \in due => failed
        /\ "ready" \in due => everReady
        /\ pc = "late2" => "failed" \notin due
        /\ outcome = "timeout" => "failed" \notin due /\ ("ready" \in due => GoingDown)
    BY DEF ConnDue, NoFalseTimeout
  <1>1. CASE UNCHANGED connectVars
    <2>1. /\ pc' = pc /\ outcome' = outcome /\ failed' = failed /\ due' = due /\ ready_' = ready_
          /\ everReady' = everReady /\ GoingDown' = GoingDown
      BY <1>1 DEF connectVars, caller, conn, GoingDown
    <2> QED
      BY <1>0, <2>1 DEF ConnDue, NoFalseTimeout
  <1>2. CASE CallerSteps \/ TimerFires
    BY <1>2, DueCaller
  <1>3. CASE HandshakeReady \/ HandshakeRefused \/ ReadFails \/ ReadRaises \/ WriteError
    <2>1. /\ GoingDown => GoingDown'
          /\ outcome' = outcome /\ due' = due /\ pc' = pc /\ failed' = failed
          /\ ready_' = ready_ /\ everReady' = everReady
      BY <1>3, DownEvents
    <2> QED
      BY <1>0, <2>1 DEF ConnDue, NoFalseTimeout
  <1>4. ASSUME NEW u \in Workers, WorkerSteps(u) PROVE ConnDue'
    <2>1. /\ GoingDown => GoingDown'
          /\ outcome' = outcome /\ due' = due /\ (pc' = "late2" => pc = "late2")
          /\ (failed => failed')
          /\ \/ ready_' = ready_ /\ everReady' = everReady
             \/ ready_' = TRUE /\ everReady' = TRUE
             \/ GoingDown' /\ everReady' = everReady
      BY <1>4, DownSteps
    <2> QED
      BY <1>0, <2>1 DEF ConnDue, NoFalseTimeout
  <1> QED
    BY <1>1, <1>2, <1>3, <1>4 DEF ConnectNext

\* Although the predicate of the wait reads two flags one after the other while the
\* handlers write them and notify without its mutex, connect reports ERR_TIMEOUT only if
\* no failure had been reported when the ten seconds were over, and a connection that had
\* been ready by then is closed or about to be.
\* (client.cpp: connect_impl, on_ready_diconnect, on_ready_s, on_init_error_s)
THEOREM TimeoutIsTrue == ConnectSpec => []NoFalseTimeout
  <1>1. ConnectInit => ConnDue
    BY DEF ConnectInit, ConnDue, NoFalseTimeout
  <1>2. ConnInv /\ ConnDue /\ [ConnectNext]_connectVars => (ConnInv /\ ConnDue)'
    BY ConnStep, DueStep
  <1>3. ConnDue => NoFalseTimeout
    BY DEF ConnDue
  <1> QED
    BY <1>1, <1>2, <1>3, ConnStart, PTL DEF ConnectSpec
================================================================================
