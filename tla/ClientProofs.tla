---------------------------- MODULE ClientProofs -----------------------------
(***************************************************************************)
(* Proofs about the client: the calls of RpcCalls for any number of        *)
(* callers, calls and units; the connections a client makes one after the  *)
(* other, its registry of services, and the ciphers of both ends, for any  *)
(* number of connections and changes, any keys and any messages.           *)
(***************************************************************************)
EXTENDS RpcCalls, MCLibrary, Lemmas

\* The identifier next_index hands out is a key and is above the last one.
LEMMA NextIndex ==
  ASSUME rpcIndex \in {FirstIndex + 2 * i : i \in 0..MaxCalls},
         rpcIndex < FirstIndex + 2 * MaxCalls
  PROVE  /\ next_index \in Key
         /\ next_index \in {FirstIndex + 2 * i : i \in 0..MaxCalls}
         /\ next_index > rpcIndex
         /\ next_index \in Nat
<1>1. PICK i \in 0..MaxCalls : rpcIndex = FirstIndex + 2 * i
  OBVIOUS
<1>2. /\ i + 1 \in 0..MaxCalls
      /\ i + 1 \in 1..MaxCalls
      /\ next_index = FirstIndex + 2 * (i + 1)
  BY <1>1, RpcCallsAssumption DEF next_index
<1>3. QED
  BY <1>1, <1>2, RpcCallsAssumption

\* Appending a unit to one of a family of queues, and popping one, keep the
\* queues' type.
LEMMA QueueTypes ==
  ASSUME NEW S, NEW f \in [Key -> Seq(S)], NEW k, NEW u \in S
  PROVE  /\ [f EXCEPT ![k] = Append(@, u)] \in [Key -> Seq(S)]
         /\ k \in Key /\ f[k] # <<>>
              => /\ [f EXCEPT ![k] = Tail(@)] \in [Key -> Seq(S)]
                 /\ Head(f[k]) \in S
<1>1. \A s \in Seq(S) : Append(s, u) \in Seq(S)
  OBVIOUS
<1>2. \A s \in Seq(S) : s # <<>> => Tail(s) \in Seq(S) /\ Head(s) \in S
  OBVIOUS
<1>3. QED
  BY <1>1, <1>2

\* The units that are pushed to every slot.
LEMMA BroadcastUnits ==
  /\ NoUnit \in Unit
  /\ \A kind \in Broadcast : ToAll(kind) \in Unit
BY DEF NoUnit, ToAll, Unit, Broadcast, Garbage

\* What Handle does to the typed variables it sets.
LEMMA HandleType ==
  ASSUME TypeOK, NEW c \in Callers, NEW u \in Unit, Handle(c, u)
  PROVE  /\ consumed' \in [Key -> Seq(Unit)]
         /\ pc' \in [Callers -> Pcs]
         /\ result' \in [Key -> Results]
         /\ \A d \in Callers : pc'[d] # "idle" => d = c \/ pc[d] # "idle"
<1>1. consumed' \in [Key -> Seq(Unit)]
  BY QueueTypes DEF Handle, TypeOK
<1>2. /\ pc' \in [Callers -> Pcs] /\ result' \in [Key -> Results]
      /\ \A d \in Callers : pc'[d] # "idle" => d = c \/ pc[d] # "idle"
  BY ZenonT(30) DEF TypeOK, Handle, Finish, Pcs, Inside, Results
<1>3. QED
  BY <1>1, <1>2

\* Every step of a call keeps the types.
LEMMA CallTypeStep ==
  ASSUME TypeOK, NEW c \in Callers,
         BeginCall(c) \/ Notify(c) \/ CallStep(c) \/ Timeout(c)
  PROVE  TypeOK'
<1> USE DEF TypeOK, queueVars, callVars, readerVars, connVars, historyVars
<1>1. CASE BeginCall(c)
  BY <1>1, NextIndex DEF BeginCall, Pcs, Results
<1>2. CASE Notify(c)
  BY <1>2, NextIndex DEF Notify, Results
<1>3. CASE CheckReady(c)
  BY <1>3 DEF CheckReady, Finish, Pcs, Results
<1>4. CASE AddSlot(c)
  <2>1. callId[c] \in Key
    BY <1>4 DEF AddSlot
  <2>2. data' \in [Key -> Seq(Unit)]
    BY <1>4, <2>1 DEF AddSlot, add_queue
  <2>3. QED
    BY <1>4, <2>1, <2>2 DEF AddSlot, add_queue, Pcs, Inside
<1>5. CASE SendRequest(c)
  BY <1>5 DEF SendRequest, Pcs, Inside
<1>6. CASE ReadAtOnce(c)
  <2>1. /\ callId[c] \in Key
        /\ data' \in [Key -> Seq(Unit)]
        /\ Head(data[callId[c]]) \in Unit
    BY <1>6, QueueTypes, BroadcastUnits DEF ReadAtOnce, read_at_once
  <2>2. /\ consumed' \in [Key -> Seq(Unit)]
        /\ pc' \in [Callers -> Pcs]
        /\ result' \in [Key -> Results]
        /\ \A d \in Callers : pc'[d] # "idle" => d = c \/ pc[d] # "idle"
    BY <1>6, <2>1, HandleType DEF ReadAtOnce
  <2>3. QED
    BY <1>6, <2>1, <2>2 DEF ReadAtOnce, read_at_once
<1>7. CASE ReadBlocks(c)
  BY <1>7 DEF ReadBlocks, read_blocks, Pcs, Inside
<1>8. CASE WakeWithUnit(c)
  <2>1. /\ callId[c] \in Key
        /\ data' \in [Key -> Seq(Unit)]
        /\ Head(data[callId[c]]) \in Unit
    BY <1>8, QueueTypes, BroadcastUnits DEF WakeWithUnit, read_wakes
  <2>2. /\ consumed' \in [Key -> Seq(Unit)]
        /\ pc' \in [Callers -> Pcs]
        /\ result' \in [Key -> Results]
        /\ \A d \in Callers : pc'[d] # "idle" => d = c \/ pc[d] # "idle"
    BY <1>8, <2>1, HandleType DEF WakeWithUnit
  <2>3. QED
    BY <1>8, <2>1, <2>2 DEF WakeWithUnit, read_wakes
<1>9. CASE WakeCanceled(c) \/ Timeout(c)
  BY <1>9 DEF WakeCanceled, Timeout, EndRead, Finish, Pcs, Results
<1>10. CASE LocalCall(c)
  BY <1>10 DEF LocalCall, Pcs, Inside
<1>11. CASE EraseSlot(c)
  BY <1>11 DEF EraseSlot, erase_queue, Pcs
<1>12. QED
  BY <1>1, <1>2, <1>3, <1>4, <1>5, <1>6, <1>7, <1>8, <1>9, <1>10, <1>11
  DEF CallStep

\* Every step of the peer and the read handler keeps the types.
LEMMA ReadTypeStep ==
  ASSUME TypeOK,
         Dispatch \/ \E k \in Key, kind \in PeerKinds : PeerSends(k, kind)
  PROVE  TypeOK'
<1> USE DEF TypeOK, queueVars, callVars, readerVars, connVars, historyVars
<1>1. ASSUME NEW k \in Key, NEW kind \in PeerKinds, PeerSends(k, kind)
      PROVE  TypeOK'
  <2> DEFINE u == [kind |-> kind, key |-> k, n |-> Len(log) + 1]
  <2>1. u \in Unit
    BY PeerKindsAssumption, RpcCallsAssumption DEF Unit
  <2>2. log' \in Seq(Unit) /\ inbound' \in Seq(Unit)
    BY <1>1, <2>1 DEF PeerSends
  <2>3. QED
    BY <1>1, <2>2 DEF PeerSends
<1>2. ASSUME Reading
      PROVE  Head(inbound) \in Unit /\ Tail(inbound) \in Seq(Unit)
  BY <1>2 DEF Reading
<1>3. CASE FindSlot
  BY <1>2, <1>3 DEF FindSlot
<1>4. CASE PushUnit
  <2>1. data' \in [Key -> Seq(Unit)]
    BY <1>4, QueueTypes DEF PushUnit, push_value_data
  <2>2. QED
    BY <1>4, <2>1, BroadcastUnits DEF PushUnit, push_value_data
<1>5. CASE MissSlot
  BY <1>2, <1>5 DEF MissSlot, ReadRaises, Stages, Broadcast
<1>6. CASE BadMessage
  BY <1>2, <1>6 DEF BadMessage, Stages
<1>7. CASE BrokenFrame
  BY <1>2, <1>7 DEF BrokenFrame, ReadRaises, Stages, Broadcast
<1>8. QED
  BY <1>1, <1>3, <1>4, <1>5, <1>6, <1>7 DEF Dispatch

\* Every step that tears the connection down keeps the types.
LEMMA FailTypeStep ==
  ASSUME TypeOK,
         ReadError \/ WriteError \/ Disconnect \/ \E a \in Actors : TearDown(a)
  PROVE  TypeOK'
<1> USE DEF TypeOK, queueVars, callVars, readerVars, connVars, historyVars
<1>1. CASE ReadError \/ WriteError \/ Disconnect
  BY <1>1 DEF ReadError, WriteError, Disconnect, Stages
<1>2. ASSUME NEW a \in Actors, SetNotReady(a) \/ Close(a) PROVE TypeOK'
  BY <1>2 DEF SetNotReady, Close, Stages
<1>3. ASSUME NEW a \in Actors, PushAll(a) PROVE TypeOK'
  <2>1. ToAll(errUnit[a]) \in Unit
    BY BroadcastUnits
  <2>2. data' \in [Key -> Seq(Unit)]
    BY <1>3, <2>1 DEF PushAll, write_all
  <2>3. QED
    BY <1>3, <2>2 DEF PushAll, write_all, Stages
<1>4. ASSUME NEW a \in Actors, CancelSlots(a) PROVE TypeOK'
  BY <1>4 DEF CancelSlots, cancel_all, Stages
<1>5. QED
  BY <1>1, <1>2, <1>3, <1>4 DEF TearDown

\* Every step keeps the types.
LEMMA TypeStep == TypeOK /\ [Next]_vars => TypeOK'
<1>1. TypeOK /\ UNCHANGED vars => TypeOK'
  BY DEF vars, TypeOK, queueVars, callVars, readerVars, connVars, historyVars
<1>2. QED
  BY <1>1, CallTypeStep, ReadTypeStep, FailTypeStep DEF Next

\* The types hold in every reachable state, for any number of callers, calls
\* and units.
THEOREM TypeCorrect == Spec => []TypeOK
<1>1. Init => TypeOK
  <2> SUFFICES ASSUME Init PROVE TypeOK
    OBVIOUS
  <2>1. rpcIndex \in {FirstIndex + 2 * i : i \in 0..MaxCalls}
    <3>1. 0 \in 0..MaxCalls /\ FirstIndex = FirstIndex + 2 * 0
      BY RpcCallsAssumption
    <3>2. QED
      BY <3>1 DEF Init
  <2>2. /\ store \subseteq Key
        /\ data \in [Key -> Seq(Unit)]
        /\ canceled \in [Key -> BOOLEAN]
    BY DEF Init, QueuesInit
  <2>3. /\ pc \in [Callers -> Pcs]
        /\ callId \in [Callers -> Key \cup {FirstIndex}]
        /\ \A c \in Callers : pc[c] # "idle" => callId[c] \in Key
    BY DEF Init, Pcs
  <2>4. /\ fail \in [Actors -> Stages]
        /\ errUnit \in [Actors -> Broadcast]
        /\ result \in [Key -> Results]
    BY DEF Init, Stages, Broadcast, Results
  <2>5. /\ inbound \in Seq(Unit)
        /\ log \in Seq(Unit)
        /\ consumed \in [Key -> Seq(Unit)]
        /\ hand \in Unit
    BY BroadcastUnits DEF Init
  <2>6. /\ ready \in BOOLEAN /\ closed \in BOOLEAN /\ failed \in BOOLEAN
        /\ sent \subseteq Key /\ late \subseteq Key
        /\ refused \subseteq Unit /\ pooled \subseteq Unit
    BY DEF Init
  <2>7. QED
    BY <2>1, <2>2, <2>3, <2>4, <2>5, <2>6 DEF TypeOK
<1>2. QED
  BY <1>1, TypeStep, PTL DEF Spec

------------------------------------------------------------------------------
(* Slots.                                                                   *)

\* SlotLifetime is not inductive: that add_queue finds its key free rests on
\* the key not having been used before the call's first test of ready_, and
\* that on identifiers growing.
SlotInv ==
  /\ SlotLifetime
  /\ \A c \in Callers : pc[c] = "check" => callId[c] \notin store
  /\ \A c \in Callers : callId[c] <= rpcIndex

\* A step that leaves the table and the identifiers alone and only moves one
\* caller between stages of the same ownership keeps SlotInv.
LEMMA SlotStutter ==
  ASSUME TypeOK, SlotInv, NEW c \in Callers,
         store' = store, callId' = callId, rpcIndex' = rpcIndex,
         pc[c] # "idle",
         \E q \in Pcs \ {"idle"} :
           /\ pc' = [pc EXCEPT ![c] = q]
           /\ q \in Inside => pc[c] \in Inside
           /\ q \in {"check", "add"} => pc[c] = "check"
           /\ pc[c] \in Inside => q \in Inside \cup {"erase"}
  PROVE  SlotInv'
BY DEF TypeOK, SlotInv, SlotLifetime, Inside, Pcs

\* Every step of a call keeps SlotInv.
LEMMA CallSlotStep ==
  ASSUME TypeOK, SlotInv, NEW c \in Callers,
         BeginCall(c) \/ Notify(c) \/ CallStep(c) \/ Timeout(c)
  PROVE  SlotInv'
<1> USE DEF queueVars, callVars
<1>1. CASE BeginCall(c)
  <2>1. /\ next_index \in Nat
        /\ next_index > rpcIndex
        /\ rpcIndex \in Nat
        /\ \A d \in Callers : callId[d] \in Nat
    <3>1. rpcIndex \in Nat /\ \A k \in Key : k \in Nat
      BY RpcCallsAssumption DEF TypeOK
    <3>2. QED
      BY <1>1, <3>1, NextIndex, RpcCallsAssumption DEF BeginCall, TypeOK
  <2>2. \A d \in Callers : callId[d] <= rpcIndex /\ callId[d] # next_index
    BY <2>1 DEF SlotInv
  <2>3. next_index \notin store
    BY <2>2 DEF SlotInv, SlotLifetime
  <2>4. /\ callId' = [callId EXCEPT ![c] = next_index]
        /\ rpcIndex' = next_index
        /\ store' = store
        /\ pc' = pc \/ pc' = [pc EXCEPT ![c] = "check"]
        /\ pc[c] = "idle"
    BY <1>1 DEF BeginCall
  <2>5. \A d \in Callers : callId'[d] <= rpcIndex'
    BY <2>1, <2>2, <2>4 DEF TypeOK
  <2>6. \A d \in Callers \ {c} : pc'[d] = pc[d] /\ callId'[d] = callId[d]
    BY <2>4 DEF TypeOK
  <2>7. /\ pc'[c] \in {"idle", "check"}
        /\ callId'[c] = next_index
    BY <2>4 DEF TypeOK
  <2>8. \A d \in Callers : pc'[d] \in Inside => callId'[d] \in store'
    BY <2>4, <2>6, <2>7 DEF SlotInv, SlotLifetime, Inside
  <2>9. \A d \in Callers : pc'[d] \in {"check", "add"} => callId'[d] \notin store'
    BY <2>3, <2>4, <2>6, <2>7 DEF SlotInv, SlotLifetime
  <2>10. \A k \in store' : \E d \in Callers :
            callId'[d] = k /\ pc'[d] \in Inside \cup {"erase"}
    BY <2>4, <2>6 DEF SlotInv, SlotLifetime, Inside
  <2>11. \A d, e \in Callers : d # e /\ pc'[d] # "idle" /\ pc'[e] # "idle"
                                => callId'[d] # callId'[e]
    BY <2>2, <2>6, <2>7 DEF SlotInv, SlotLifetime
  <2>12. QED
    BY <2>5, <2>8, <2>9, <2>10, <2>11 DEF SlotInv, SlotLifetime
<1>2. CASE Notify(c)
  <2>1. /\ rpcIndex' >= rpcIndex /\ rpcIndex' \in Nat /\ rpcIndex \in Nat
        /\ \A d \in Callers : callId[d] \in Nat
    <3>1. rpcIndex \in Nat /\ \A k \in Key : k \in Nat
      BY RpcCallsAssumption DEF TypeOK
    <3>2. QED
      BY <1>2, <3>1, NextIndex, RpcCallsAssumption DEF Notify, TypeOK
  <2>2. \A d \in Callers : callId[d] <= rpcIndex'
    BY <2>1 DEF SlotInv
  <2>3. QED
    BY <1>2, <2>2 DEF Notify, SlotInv, SlotLifetime
<1>3. CASE CheckReady(c)
  <2>1. \E q \in {"add", "erase"} : pc' = [pc EXCEPT ![c] = q]
    BY <1>3 DEF CheckReady, Finish
  <2>2. QED
    BY <1>3, <2>1, SlotStutter DEF CheckReady, Inside, Pcs
<1>4. CASE AddSlot(c)
  <2>1. /\ store' = store \cup {callId[c]}
        /\ callId' = callId /\ rpcIndex' = rpcIndex
        /\ pc[c] = "add" /\ pc'[c] = "send"
        /\ \A d \in Callers \ {c} : pc'[d] = pc[d]
    BY <1>4 DEF AddSlot, add_queue, TypeOK
  <2>2. \A d \in Callers : pc'[d] \in Inside => callId'[d] \in store'
    BY <2>1 DEF SlotInv, SlotLifetime
  <2>3. \A d \in Callers : pc'[d] \in {"check", "add"} => callId'[d] \notin store'
    BY <2>1 DEF SlotInv, SlotLifetime
  <2>4. \A k \in store' : \E d \in Callers :
            callId'[d] = k /\ pc'[d] \in Inside \cup {"erase"}
    BY <2>1 DEF SlotInv, SlotLifetime, Inside
  <2>5. \A d, e \in Callers : d # e /\ pc'[d] # "idle" /\ pc'[e] # "idle"
                                => callId'[d] # callId'[e]
    BY <2>1 DEF SlotInv, SlotLifetime
  <2>6. QED
    BY <2>1, <2>2, <2>3, <2>4, <2>5 DEF SlotInv, SlotLifetime
<1>5. CASE SendRequest(c)
  BY <1>5, SlotStutter DEF SendRequest, Inside, Pcs
<1>6. CASE ReadAtOnce(c) \/ WakeWithUnit(c)
  <2>1. \E q \in {"local", "erase"} : pc' = [pc EXCEPT ![c] = q]
    BY <1>6 DEF ReadAtOnce, WakeWithUnit, Handle, Finish
  <2>2. QED
    BY <1>6, <2>1, SlotStutter
    DEF ReadAtOnce, WakeWithUnit, read_at_once, read_wakes, Inside, Pcs
<1>7. CASE ReadBlocks(c)
  BY <1>7, SlotStutter DEF ReadBlocks, read_blocks, Inside, Pcs
<1>8. CASE WakeCanceled(c) \/ Timeout(c)
  BY <1>8, SlotStutter DEF WakeCanceled, Timeout, EndRead, Finish, Inside, Pcs
<1>9. CASE LocalCall(c)
  BY <1>9, SlotStutter DEF LocalCall, Inside, Pcs
<1>10. CASE EraseSlot(c)
  <2>1. /\ store' = store \ {callId[c]}
        /\ callId' = callId /\ rpcIndex' = rpcIndex
        /\ pc[c] = "erase" /\ pc'[c] = "idle"
        /\ \A d \in Callers \ {c} : pc'[d] = pc[d]
    BY <1>10 DEF EraseSlot, erase_queue, TypeOK
  <2>2. \A d \in Callers : pc'[d] \in Inside => callId'[d] \in store'
    BY <2>1 DEF SlotInv, SlotLifetime, Inside
  <2>3. \A d \in Callers : pc'[d] \in {"check", "add"} => callId'[d] \notin store'
    BY <2>1 DEF SlotInv, SlotLifetime
  <2>4. \A k \in store' : \E d \in Callers :
            callId'[d] = k /\ pc'[d] \in Inside \cup {"erase"}
    BY <2>1 DEF SlotInv, SlotLifetime
  <2>5. \A d, e \in Callers : d # e /\ pc'[d] # "idle" /\ pc'[e] # "idle"
                                => callId'[d] # callId'[e]
    BY <2>1 DEF SlotInv, SlotLifetime
  <2>6. QED
    BY <2>1, <2>2, <2>3, <2>4, <2>5 DEF SlotInv, SlotLifetime
<1>11. QED
  BY <1>1, <1>2, <1>3, <1>4, <1>5, <1>6, <1>7, <1>8, <1>9, <1>10 DEF CallStep

\* No other step touches the table's entries or the callers.
LEMMA OtherSlotStep ==
  ASSUME \/ Dispatch \/ \E k \in Key, kind \in PeerKinds : PeerSends(k, kind)
         \/ ReadError \/ WriteError \/ Disconnect
         \/ \E a \in Actors : TearDown(a)
         \/ UNCHANGED vars
  PROVE  UNCHANGED <<store, callVars>>
<1> USE DEF queueVars
<1>1. Dispatch => UNCHANGED <<store, callVars>>
  BY DEF Dispatch, FindSlot, PushUnit, push_value_data, MissSlot, BadMessage,
         BrokenFrame
<1>2. ASSUME NEW a \in Actors, TearDown(a) PROVE UNCHANGED <<store, callVars>>
  BY <1>2 DEF TearDown, SetNotReady, PushAll, write_all, Close, CancelSlots,
              cancel_all
<1>3. QED
  BY <1>1, <1>2 DEF PeerSends, ReadError, WriteError, Disconnect, vars

\* The slot invariant is inductive.
LEMMA SlotStep == TypeOK /\ SlotInv /\ [Next]_vars => SlotInv'
<1>1. SlotInv /\ UNCHANGED <<store, callVars>> => SlotInv'
  BY DEF SlotInv, SlotLifetime, callVars
<1>2. QED
  BY <1>1, CallSlotStep, OtherSlotStep DEF Next

\* Initially no call has a slot.
LEMMA SlotInit == Init => SlotInv
<1>1. FirstIndex <= FirstIndex
  BY RpcCallsAssumption
<1>2. QED
  BY <1>1 DEF Init, QueuesInit, SlotInv, SlotLifetime, Inside

\* A slot is in the table exactly while its call is inside call_and_wait, and
\* no two calls share one, for any number of callers and calls and whatever
\* the connection and the peer do.
THEOREM SlotsLiveWithCalls == Spec => []SlotLifetime
<1>1. SlotInv => SlotLifetime
  BY DEF SlotInv
<1>2. QED
  BY <1>1, SlotInit, SlotStep, TypeCorrect, PTL DEF Spec

------------------------------------------------------------------------------
(* Failures.                                                                *)

\* A transport error stays in a queue when units are appended behind it and
\* when another unit is popped from the front.
LEMMA FatalStays ==
  ASSUME NEW s \in Seq(Unit), NEW u \in Unit
  PROVE  /\ HasFatal(s) \/ u.kind = "fatal" => HasFatal(Append(s, u))
         /\ s # <<>> /\ HasFatal(s) /\ Head(s).kind # "fatal"
              => HasFatal(Tail(s))
<1>1. ASSUME HasFatal(s) PROVE HasFatal(Append(s, u))
  <2>1. PICK i \in DOMAIN s : s[i].kind = "fatal"
    BY <1>1 DEF HasFatal
  <2>2. i \in DOMAIN Append(s, u) /\ Append(s, u)[i] = s[i]
    OBVIOUS
  <2>3. QED
    BY <2>1, <2>2 DEF HasFatal
<1>2. ASSUME u.kind = "fatal" PROVE HasFatal(Append(s, u))
  <2>1. Len(s) + 1 \in DOMAIN Append(s, u) /\ Append(s, u)[Len(s) + 1] = u
    OBVIOUS
  <2>2. QED
    BY <1>2, <2>1 DEF HasFatal
<1>3. ASSUME s # <<>>, HasFatal(s), Head(s).kind # "fatal"
      PROVE  HasFatal(Tail(s))
  <2>1. PICK i \in DOMAIN s : s[i].kind = "fatal"
    BY <1>3 DEF HasFatal
  <2>2. i # 1
    BY <1>3, <2>1
  <2>3. i - 1 \in DOMAIN Tail(s) /\ Tail(s)[i - 1] = s[i]
    BY <1>3, <2>2
  <2>4. QED
    BY <2>1, <2>3 DEF HasFatal
<1>4. QED
  BY <1>1, <1>2, <1>3

\* A call that pops a unit either ends or still has the error in its slot;
\* the other calls' slots are other slots.
LEMMA PopKeepsFailure ==
  ASSUME TypeOK, SlotInv, FailureReachesSlots, NEW c \in Callers,
         pc[c] \in Inside,
         data[callId[c]] # <<>>,
         data' = [data EXCEPT ![callId[c]] = Tail(@)],
         Handle(c, Head(data[callId[c]])),
         UNCHANGED <<callId, failed, late>>
  PROVE  FailureReachesSlots'
<1> SUFFICES ASSUME failed, NEW d \in Callers,
                    pc'[d] \in Inside, callId[d] \notin late
             PROVE  HasFatal(data'[callId[d]])
  BY DEF FailureReachesSlots
<1> DEFINE k == callId[c]
<1>1. k \in Key /\ data[k] \in Seq(Unit) /\ Head(data[k]) \in Unit
  BY DEF TypeOK, Inside
<1>2. CASE d = c
  <2>1. Head(data[k]).kind # "fatal"
    BY <1>2 DEF Handle, Finish, Inside, TypeOK, Inserts
  <2>2. HasFatal(data[k])
    BY <1>2 DEF FailureReachesSlots
  <2>3. QED
    BY <1>1, <1>2, <2>1, <2>2, FatalStays DEF TypeOK
<1>3. CASE d # c
  <2>1. pc'[d] = pc[d]
    BY <1>3 DEF Handle, Finish, TypeOK
  <2>2. callId[d] # k
    BY <1>3, <2>1 DEF SlotInv, SlotLifetime, Inside
  <2>3. data'[callId[d]] = data[callId[d]]
    BY <2>1, <2>2 DEF TypeOK, Inside
  <2>4. QED
    BY <2>1, <2>3 DEF FailureReachesSlots
<1>4. QED
  BY <1>2, <1>3

\* Every step of a call keeps FailureReachesSlots.
LEMMA CallFailureStep ==
  ASSUME TypeOK, SlotInv, FailureReachesSlots, NEW c \in Callers,
         BeginCall(c) \/ Notify(c) \/ CallStep(c) \/ Timeout(c)
  PROVE  FailureReachesSlots'
<1> USE DEF queueVars, historyVars
<1>1. CASE BeginCall(c) \/ Notify(c)
  <2>1. /\ UNCHANGED <<data, failed, late>>
        /\ \A d \in Callers : pc'[d] \in Inside
              => pc[d] \in Inside /\ callId'[d] = callId[d]
    BY <1>1 DEF BeginCall, Notify, TypeOK, Inside
  <2>2. QED
    BY <2>1 DEF FailureReachesSlots
<1>2. CASE CheckReady(c) \/ SendRequest(c) \/ ReadBlocks(c) \/ WakeCanceled(c)
           \/ Timeout(c) \/ LocalCall(c) \/ EraseSlot(c)
  <2>1. /\ UNCHANGED <<data, failed, late, callId>>
        /\ \A d \in Callers : pc'[d] \in Inside => pc[d] \in Inside
    BY <1>2 DEF CheckReady, SendRequest, ReadBlocks, read_blocks, WakeCanceled,
       Timeout, EndRead, LocalCall, EraseSlot, erase_queue, Finish, TypeOK, Inside
  <2>2. QED
    BY <2>1 DEF FailureReachesSlots
<1>3. CASE AddSlot(c)
  <2>1. /\ UNCHANGED <<failed, callId>>
        /\ late \subseteq late'
        /\ failed => callId[c] \in late'
        /\ \A d \in Callers \ {c} : pc'[d] = pc[d]
        /\ pc[c] = "add"
    BY <1>3 DEF AddSlot, TypeOK
  <2>2. \A d \in Callers \ {c} : pc[d] \in Inside => callId[d] # callId[c]
    BY <2>1 DEF SlotInv, SlotLifetime, Inside
  <2>3. \A d \in Callers \ {c} : pc[d] \in Inside
            => data'[callId[d]] = data[callId[d]]
    BY <1>3, <2>2 DEF AddSlot, add_queue, TypeOK, Inside
  <2>4. QED
    BY <2>1, <2>3 DEF FailureReachesSlots
<1>4. CASE ReadAtOnce(c)
  BY <1>4, PopKeepsFailure DEF ReadAtOnce, read_at_once, Inside
<1>5. CASE WakeWithUnit(c)
  BY <1>5, PopKeepsFailure DEF WakeWithUnit, read_wakes, Inside
<1>6. QED
  BY <1>1, <1>2, <1>3, <1>4, <1>5 DEF CallStep

\* Every step of the read handler and of a failing connection keeps it.
LEMMA OtherFailureStep ==
  ASSUME TypeOK, SlotInv, FailureReachesSlots,
         \/ Dispatch \/ \E k \in Key, kind \in PeerKinds : PeerSends(k, kind)
         \/ ReadError \/ WriteError \/ Disconnect
         \/ \E a \in Actors : TearDown(a)
         \/ UNCHANGED vars
  PROVE  FailureReachesSlots'
<1> USE DEF queueVars, historyVars
<1>1. UNCHANGED <<pc, callId>>
  BY OtherSlotStep DEF callVars
<1>2. ASSUME UNCHANGED <<data, failed, late>> PROVE FailureReachesSlots'
  BY <1>1, <1>2 DEF FailureReachesSlots
<1>3. CASE PushUnit
  <2>1. /\ hand \in Unit /\ UNCHANGED <<failed, late>>
        /\ data' = [data EXCEPT ![hand.key] = Append(@, hand)]
    BY <1>3 DEF PushUnit, push_value_data, TypeOK
  <2>2. \A k \in Key : HasFatal(data[k]) => HasFatal(data'[k])
    BY <2>1, FatalStays DEF TypeOK
  <2>3. \A d \in Callers : pc[d] \in Inside => callId[d] \in Key
    BY DEF TypeOK, Inside
  <2>4. QED
    BY <1>1, <2>1, <2>2, <2>3 DEF FailureReachesSlots
<1>4. ASSUME NEW a \in Actors, PushAll(a) PROVE FailureReachesSlots'
  <2> DEFINE u == ToAll(errUnit[a])
  <2>1. /\ u \in Unit /\ u.kind = errUnit[a]
        /\ data' = [k \in Key |-> IF k \in store THEN Append(data[k], u)
                                                 ELSE data[k]]
        /\ late' = late
        /\ failed' = (failed \/ u.kind = "fatal")
    BY <1>4, BroadcastUnits DEF PushAll, write_all, TypeOK, ToAll
  <2>2. \A d \in Callers : pc[d] \in Inside
            => callId[d] \in Key /\ callId[d] \in store
    BY DEF TypeOK, SlotInv, SlotLifetime, Inside
  <2>3. \A k \in Key \cap store :
           HasFatal(data[k]) \/ u.kind = "fatal" => HasFatal(data'[k])
    BY <2>1, FatalStays DEF TypeOK
  <2>4. QED
    BY <1>1, <2>1, <2>2, <2>3 DEF FailureReachesSlots
<1>5. ASSUME NEW a \in Actors, SetNotReady(a) \/ Close(a) \/ CancelSlots(a)
      PROVE  FailureReachesSlots'
  BY <1>2, <1>5 DEF SetNotReady, Close, CancelSlots, cancel_all
<1>6. CASE \/ FindSlot \/ MissSlot \/ BadMessage \/ BrokenFrame
           \/ ReadError \/ WriteError \/ Disconnect \/ UNCHANGED vars
           \/ \E k \in Key, kind \in PeerKinds : PeerSends(k, kind)
  BY <1>2, <1>6 DEF FindSlot, MissSlot, BadMessage, BrokenFrame, ReadError,
                    WriteError, Disconnect, vars, PeerSends
<1>7. QED
  BY <1>3, <1>4, <1>5, <1>6 DEF Dispatch, TearDown

\* Once a transport error was pushed, every call that had its slot finds it,
\* for any number of callers and calls and whatever else fails.
THEOREM FailureIsSeen == Spec => []FailureReachesSlots
<1>1. Init => FailureReachesSlots
  BY DEF Init, FailureReachesSlots
<1>2. TypeOK /\ SlotInv /\ FailureReachesSlots /\ [Next]_vars
        => FailureReachesSlots'
  BY CallFailureStep, OtherFailureStep DEF Next
<1>3. QED
  BY <1>1, <1>2, SlotInit, SlotStep, TypeCorrect, PTL DEF Spec

------------------------------------------------------------------------------
(* What becomes of the units of the peer.                                   *)

\* The units taken off the wire, and those that are where they will be read.
taken == Len(log) - Len(inbound)
settled == IF hand = NoUnit THEN taken ELSE taken - 1

\* The wire holds the end of the log, and the read handler the unit before it.
WireInv ==
  /\ Len(inbound) <= Len(log)
  /\ \A i \in DOMAIN log : log[i].n = i /\ log[i].key \in sent
  /\ \A i \in DOMAIN inbound : inbound[i] = log[taken + i]
  /\ hand # NoUnit => taken >= 1 /\ hand = log[taken] /\ FromPeer(hand)

\* The units in s that the peer sent are settled, are for k, and are in order.
SoundFor(s, k) ==
  /\ \A i \in DOMAIN s : FromPeer(s[i]) =>
       s[i].n \in 1..settled /\ s[i] = log[s[i].n] /\ s[i].key = k
  /\ \A i, j \in DOMAIN s : i < j /\ FromPeer(s[i]) /\ FromPeer(s[j]) => s[i].n < s[j].n

\* While k has its slot, every settled unit for it was read or waits in the
\* slot; what was read came before what waits, and nothing was left out.
SlotUnits(k) ==
  /\ SoundFor(consumed[k], k) /\ SoundFor(data[k], k)
  /\ \A i \in DOMAIN consumed[k], j \in DOMAIN data[k] :
       FromPeer(consumed[k][i]) /\ FromPeer(data[k][j]) => consumed[k][i].n < data[k][j].n
  /\ k \in store => \A m \in 1..settled : FromPeer(log[m]) /\ log[m].key = k =>
       Among(log[m], consumed[k]) \/ Among(log[m], data[k])
  /\ \A i \in DOMAIN consumed[k] : FromPeer(consumed[k][i]) =>
       \A m \in 1..(consumed[k][i].n - 1) : FromPeer(log[m]) /\ log[m].key = k
         => \E j \in 1..(i - 1) : consumed[k][j] = log[m]

\* A call whose request was sent has its slot until it is over.
CallInv ==
  /\ \A k \in sent : k <= rpcIndex /\ (k \notin store => result[k] # "none")
  /\ \A c \in Callers : pc[c] = "erase" => result[callId[c]] # "none"
  /\ \A c \in Callers : pc[c] \in {"check", "add"} => callId[c] \notin sent

\* A unit that was refused or run in the pool came too late and went nowhere else.
TooLate(u) ==
  /\ u.n \in 1..settled /\ u = log[u.n] /\ result[u.key] # "none"
  /\ ~Among(u, data[u.key]) /\ ~Among(u, consumed[u.key])
GoneInv ==
  /\ \A u \in refused : u.kind = "insert" /\ TooLate(u)
  /\ \A u \in pooled : u.kind = "alone" /\ TooLate(u)

FlowInv == WireInv /\ CallInv /\ (\A k \in Key : SlotUnits(k)) /\ GoneInv

\* Types of what the flow of units is told by.
LEMMA FlowTypes ==
  ASSUME TypeOK, WireInv
  PROVE  /\ log \in Seq(Unit) /\ Len(log) \in Nat /\ DOMAIN log = 1..Len(log)
         /\ inbound \in Seq(Unit) /\ Len(inbound) \in Nat /\ DOMAIN inbound = 1..Len(inbound)
         /\ taken \in 0..Len(log) /\ settled \in 0..taken
         /\ hand # NoUnit => settled = taken - 1 /\ taken \in 1..Len(log)
         /\ hand = NoUnit => settled = taken
         /\ Key \subseteq Nat /\ sent \subseteq Key
         /\ \A i \in 1..Len(log) : log[i] \in Unit /\ log[i].key \in Key
  <1>1. /\ log \in Seq(Unit) /\ Len(log) \in Nat /\ DOMAIN log = 1..Len(log)
        /\ inbound \in Seq(Unit) /\ Len(inbound) \in Nat /\ DOMAIN inbound = 1..Len(inbound)
    BY LenProperties DEF TypeOK
  <1>2. Len(inbound) <= Len(log) /\ (hand # NoUnit => taken >= 1)
    BY DEF WireInv
  <1>3. /\ taken \in 0..Len(log) /\ settled \in 0..taken
        /\ hand # NoUnit => settled = taken - 1 /\ taken \in 1..Len(log)
        /\ hand = NoUnit => settled = taken
    <2>1. taken \in 0..Len(log)
      BY <1>1, <1>2 DEF taken
    <2>2. CASE hand = NoUnit
      <3>1. settled = taken
        BY <2>2 DEF settled
      <3> QED
        BY <2>1, <2>2, <3>1
    <2>3. CASE hand # NoUnit
      <3>1. settled = taken - 1 /\ taken >= 1
        BY <1>2, <2>3 DEF settled
      <3> QED
        BY <1>1, <2>1, <2>3, <3>1
    <2> QED
      BY <2>2, <2>3
  <1>4. Key \subseteq Nat /\ sent \subseteq Key
    BY RpcCallsAssumption DEF TypeOK
  <1>5. \A i \in 1..Len(log) : log[i] \in Unit /\ log[i].key \in Key
    BY <1>1, <1>4, ElementOfSeq DEF WireInv
  <1> QED
    BY <1>1, <1>3, <1>4, <1>5

\* A step that leaves the queue of k and what k has read alone, and settles no
\* unit for k while k has its slot.
LEMMA SlotKept ==
  ASSUME NEW k \in Key, SlotUnits(k), consumed'[k] = consumed[k], data'[k] = data[k],
         k \in store' => k \in store,
         settled \in Nat, settled' \in Nat, settled <= settled',
         \A i \in 1..settled : log'[i] = log[i],
         k \in store => \A m \in (settled + 1)..settled' :
                          ~(FromPeer(log'[m]) /\ log'[m].key = k)
  PROVE  SlotUnits(k)'
  <1>1. \A n \in 1..settled : n \in 1..settled'
    OBVIOUS
  <1>2. SoundFor(consumed[k], k)'
    BY <1>1 DEF SlotUnits, SoundFor, FromPeer
  <1>3. SoundFor(data[k], k)'
    BY <1>1 DEF SlotUnits, SoundFor, FromPeer
  <1>4. \A i \in DOMAIN consumed'[k], j \in DOMAIN data'[k] :
          FromPeer(consumed'[k][i]) /\ FromPeer(data'[k][j]) => consumed'[k][i].n < data'[k][j].n
    BY DEF SlotUnits
  <1>5. ASSUME k \in store', NEW m \in 1..settled', FromPeer(log'[m]), log'[m].key = k
        PROVE  Among(log'[m], consumed'[k]) \/ Among(log'[m], data'[k])
    <2>1. m \in 1..settled \/ m \in (settled + 1)..settled'
      OBVIOUS
    <2>2. m \in 1..settled /\ log'[m] = log[m] /\ k \in store
      BY <1>5, <2>1
    <2>3. Among(log[m], consumed[k]) \/ Among(log[m], data[k])
      BY <1>5, <2>2 DEF SlotUnits
    <2> QED
      BY <2>2, <2>3 DEF Among
  <1>6. ASSUME NEW i \in DOMAIN consumed'[k], FromPeer(consumed'[k][i]),
               NEW m \in 1..(consumed'[k][i].n - 1), FromPeer(log'[m]), log'[m].key = k
        PROVE  \E j \in 1..(i - 1) : consumed'[k][j] = log'[m]
    <2>1. consumed[k][i].n \in 1..settled
      BY <1>6 DEF SlotUnits, SoundFor
    <2>2. m \in 1..settled /\ log'[m] = log[m]
      BY <2>1
    <2> QED
      BY <1>6, <2>2 DEF SlotUnits
  <1> QED
    BY <1>2, <1>3, <1>4, <1>5, <1>6 DEF SlotUnits, FromPeer, Among

\* A unit is appended to the queue of k: the next of the peer's units, if it is
\* for k, or one that is pushed to every slot.
LEMMA SlotAppended ==
  ASSUME NEW k \in Key, SlotUnits(k), consumed'[k] = consumed[k],
         data[k] \in Seq(Unit), NEW u \in Unit, data'[k] = Append(data[k], u),
         k \in store' => k \in store, log' = log,
         settled \in Nat, settled' \in Nat,
         \/ ~FromPeer(u) /\ settled' = settled
         \/ FromPeer(u) /\ settled' = settled + 1 /\ u.n = settled + 1
              /\ log[settled + 1] = u /\ u.key = k
  PROVE  SlotUnits(k)'
  <1> DEFINE s == data[k]  t == data'[k]
  <1>1. /\ Len(s) \in Nat /\ DOMAIN s = 1..Len(s) /\ DOMAIN t = 1..(Len(s) + 1)
        /\ \A i \in 1..Len(s) : t[i] = s[i]
        /\ t[Len(s) + 1] = u
    BY AppendAt, LenProperties
  <1>2. /\ \A n \in 1..settled : n \in 1..settled'
        /\ \A i \in DOMAIN t : i \in DOMAIN s \/ i = Len(s) + 1
        /\ \A i \in DOMAIN s : i \in DOMAIN t /\ i < Len(s) + 1
    BY <1>1
  <1>3. /\ \A i \in DOMAIN s : FromPeer(s[i]) =>
             s[i].n \in 1..settled /\ s[i] = log[s[i].n] /\ s[i].key = k
        /\ \A i, j \in DOMAIN s : i < j /\ FromPeer(s[i]) /\ FromPeer(s[j]) => s[i].n < s[j].n
    BY DEF SlotUnits, SoundFor
  <1> HIDE DEF s, t
  <1>4. SoundFor(consumed[k], k)'
    BY <1>2 DEF SlotUnits, SoundFor, FromPeer
  <1>5. \A i \in DOMAIN t : FromPeer(t[i]) =>
          t[i].n \in 1..settled' /\ t[i] = log[t[i].n] /\ t[i].key = k
    <2> SUFFICES ASSUME NEW i \in DOMAIN t, FromPeer(t[i])
                 PROVE  t[i].n \in 1..settled' /\ t[i] = log[t[i].n] /\ t[i].key = k
      OBVIOUS
    <2>1. CASE i \in DOMAIN s
      BY <1>1, <1>2, <1>3, <2>1
    <2>2. CASE i = Len(s) + 1
      <3>1. t[i] = u /\ FromPeer(u)
        BY <1>1, <2>2
      <3> QED
        BY <3>1
    <2> QED
      BY <1>2, <2>1, <2>2
  <1>6. ASSUME NEW i \in DOMAIN t, NEW j \in DOMAIN t, i < j, FromPeer(t[i]), FromPeer(t[j])
        PROVE  t[i].n < t[j].n
    <2>1. i \in DOMAIN s /\ t[i] = s[i]
      BY <1>1, <1>6
    <2>2. CASE j \in DOMAIN s
      BY <1>1, <1>3, <1>6, <2>1, <2>2
    <2>3. CASE j = Len(s) + 1
      <3>1. t[j] = u /\ FromPeer(u) /\ s[i].n \in 1..settled
        BY <1>1, <1>3, <1>6, <2>1, <2>3
      <3> QED
        BY <2>1, <3>1
    <2> QED
      BY <1>2, <2>2, <2>3
  <1>7. SoundFor(data[k], k)'
    BY <1>5, <1>6 DEF SoundFor, FromPeer, t
  <1>8. ASSUME NEW i \in DOMAIN consumed[k], NEW j \in DOMAIN t,
               FromPeer(consumed[k][i]), FromPeer(t[j])
        PROVE  consumed[k][i].n < t[j].n
    <2>1. CASE j \in DOMAIN s
      BY <1>1, <1>8, <2>1 DEF SlotUnits, s
    <2>2. CASE j = Len(s) + 1
      <3>1. t[j] = u /\ FromPeer(u) /\ consumed[k][i].n \in 1..settled
        BY <1>1, <1>8, <2>2 DEF SlotUnits, SoundFor
      <3> QED
        BY <3>1
    <2> QED
      BY <1>2, <2>1, <2>2
  <1>9. ASSUME k \in store', NEW m \in 1..settled', FromPeer(log[m]), log[m].key = k
        PROVE  Among(log[m], consumed[k]) \/ Among(log[m], t)
    <2>1. CASE m \in 1..settled
      <3>1. Among(log[m], consumed[k]) \/ Among(log[m], s)
        BY <1>9, <2>1 DEF SlotUnits, s
      <3>2. Among(log[m], s) => Among(log[m], t)
        BY <1>1, <1>2 DEF Among
      <3> QED
        BY <3>1, <3>2
    <2>2. CASE m \notin 1..settled
      <3>1. log[m] = u
        BY <2>2
      <3>2. Len(s) + 1 \in DOMAIN t
        BY <1>1
      <3> QED
        BY <1>1, <3>1, <3>2 DEF Among
    <2> QED
      BY <2>1, <2>2
  <1> QED
    BY <1>4, <1>7, <1>8, <1>9 DEF SlotUnits, FromPeer, Among, t

\* The call of k reads the first unit of its slot.
LEMMA SlotPopped ==
  ASSUME NEW k \in Key, SlotUnits(k), k \in store,
         data[k] \in Seq(Unit), data[k] # <<>>, data'[k] = Tail(data[k]),
         consumed[k] \in Seq(Unit), consumed'[k] = Append(consumed[k], Head(data[k])),
         log' = log, settled \in Nat, settled' = settled, \A m \in 1..settled : log[m].n = m
  PROVE  SlotUnits(k)'
  <1> DEFINE s == data[k]  t == data'[k]  a == consumed[k]  b == consumed'[k]  u == Head(data[k])
  <1>1. /\ Len(s) \in Nat \ {0} /\ DOMAIN s = 1..Len(s) /\ DOMAIN t = 1..(Len(s) - 1)
        /\ \A i \in 1..(Len(s) - 1) : t[i] = s[i + 1]
        /\ u = s[1] /\ u \in Unit
    BY TailAt
  <1>2. /\ Len(a) \in Nat /\ DOMAIN a = 1..Len(a) /\ DOMAIN b = 1..(Len(a) + 1)
        /\ \A i \in 1..Len(a) : b[i] = a[i]
        /\ b[Len(a) + 1] = u
    BY <1>1, AppendAt, LenProperties
  <1>3. /\ 1 \in DOMAIN s
        /\ \A i \in DOMAIN t : i + 1 \in DOMAIN s /\ i + 1 > 1 /\ t[i] = s[i + 1]
        /\ \A i \in DOMAIN s : i = 1 \/ (i - 1 \in DOMAIN t /\ t[i - 1] = s[i])
        /\ \A i \in DOMAIN b : i \in DOMAIN a \/ i = Len(a) + 1
        /\ \A i \in DOMAIN a : i \in DOMAIN b /\ i < Len(a) + 1 /\ b[i] = a[i]
    <2>1. \A i \in DOMAIN s : i = 1 \/ (i - 1 \in DOMAIN t /\ t[i - 1] = s[i])
      <3> SUFFICES ASSUME NEW i \in DOMAIN s, i # 1 PROVE i - 1 \in DOMAIN t /\ t[i - 1] = s[i]
        OBVIOUS
      <3>1. i - 1 \in 1..(Len(s) - 1) /\ (i - 1) + 1 = i
        BY <1>1
      <3> QED
        BY <1>1, <3>1
    <2> QED
      BY <1>1, <1>2, <2>1
  <1>4. /\ \A i \in DOMAIN s : FromPeer(s[i]) =>
             s[i].n \in 1..settled /\ s[i] = log[s[i].n] /\ s[i].key = k
        /\ \A i, j \in DOMAIN s : i < j /\ FromPeer(s[i]) /\ FromPeer(s[j]) => s[i].n < s[j].n
        /\ \A i \in DOMAIN a : FromPeer(a[i]) =>
             a[i].n \in 1..settled /\ a[i] = log[a[i].n] /\ a[i].key = k
        /\ \A i, j \in DOMAIN a : i < j /\ FromPeer(a[i]) /\ FromPeer(a[j]) => a[i].n < a[j].n
        /\ \A i \in DOMAIN a, j \in DOMAIN s : FromPeer(a[i]) /\ FromPeer(s[j]) => a[i].n < s[j].n
        /\ \A m \in 1..settled : FromPeer(log[m]) /\ log[m].key = k => Among(log[m], a) \/ Among(log[m], s)
        /\ \A i \in DOMAIN a : FromPeer(a[i]) =>
             \A m \in 1..(a[i].n - 1) : FromPeer(log[m]) /\ log[m].key = k
               => \E j \in 1..(i - 1) : a[j] = log[m]
    BY DEF SlotUnits, SoundFor
  <1> HIDE DEF s, t, a, b, u
  <1>5. SoundFor(data[k], k)'
    <2>1. \A i \in DOMAIN t : FromPeer(t[i]) =>
            t[i].n \in 1..settled /\ t[i] = log[t[i].n] /\ t[i].key = k
      BY <1>3, <1>4
    <2>2. ASSUME NEW i \in DOMAIN t, NEW j \in DOMAIN t, i < j, FromPeer(t[i]), FromPeer(t[j])
          PROVE  t[i].n < t[j].n
      <3>1. i + 1 < j + 1
        BY <1>1, <2>2
      <3> QED
        BY <1>3, <1>4, <2>2, <3>1
    <2> QED
      BY <2>1, <2>2 DEF SoundFor, FromPeer, t
  <1>6. SoundFor(consumed[k], k)'
    <2>1. \A i \in DOMAIN b : FromPeer(b[i]) =>
            b[i].n \in 1..settled /\ b[i] = log[b[i].n] /\ b[i].key = k
      BY <1>1, <1>2, <1>3, <1>4
    <2>2. ASSUME NEW i \in DOMAIN b, NEW j \in DOMAIN b, i < j, FromPeer(b[i]), FromPeer(b[j])
          PROVE  b[i].n < b[j].n
      <3>1. i \in DOMAIN a
        BY <1>2, <2>2
      <3>2. CASE j \in DOMAIN a
        BY <1>3, <1>4, <2>2, <3>1, <3>2
      <3>3. CASE j = Len(a) + 1
        <4>1. b[j] = s[1] /\ b[i] = a[i] /\ 1 \in DOMAIN s
          BY <1>1, <1>2, <1>3, <3>1, <3>3
        <4> QED
          BY <1>4, <2>2, <3>1, <4>1
      <3> QED
        BY <1>3, <3>2, <3>3
    <2> QED
      BY <2>1, <2>2 DEF SoundFor, FromPeer, b
  <1>7. ASSUME NEW i \in DOMAIN b, NEW j \in DOMAIN t, FromPeer(b[i]), FromPeer(t[j])
        PROVE  b[i].n < t[j].n
    <2>1. j + 1 \in DOMAIN s /\ 1 < j + 1 /\ t[j] = s[j + 1]
      BY <1>1, <1>3
    <2>2. CASE i \in DOMAIN a
      BY <1>3, <1>4, <1>7, <2>1, <2>2
    <2>3. CASE i = Len(a) + 1
      <3>1. b[i] = s[1] /\ 1 \in DOMAIN s
        BY <1>1, <1>2, <1>3, <2>3
      <3> QED
        BY <1>4, <1>7, <2>1, <3>1
    <2> QED
      BY <1>3, <2>2, <2>3
  <1>8. ASSUME NEW m \in 1..settled, FromPeer(log[m]), log[m].key = k
        PROVE  Among(log[m], b) \/ Among(log[m], t)
    <2>1. CASE Among(log[m], a)
      BY <1>3, <2>1 DEF Among
    <2>2. CASE Among(log[m], s)
      <3>1. PICK i \in DOMAIN s : s[i] = log[m]
        BY <2>2 DEF Among
      <3>2. CASE i = 1
        <4>1. Len(a) + 1 \in DOMAIN b /\ b[Len(a) + 1] = log[m]
          BY <1>1, <1>2, <3>1, <3>2
        <4> QED
          BY <4>1 DEF Among
      <3>3. CASE i # 1
        BY <1>3, <3>1, <3>3 DEF Among
      <3> QED
        BY <3>2, <3>3
    <2> QED
      BY <1>4, <1>8, <2>1, <2>2
  <1>9. ASSUME NEW i \in DOMAIN b, FromPeer(b[i]),
               NEW m \in 1..(b[i].n - 1), FromPeer(log[m]), log[m].key = k
        PROVE  \E j \in 1..(i - 1) : b[j] = log[m]
    <2>1. CASE i \in DOMAIN a
      <3>1. b[i] = a[i]
        BY <1>3, <2>1
      <3>2. PICK j \in 1..(i - 1) : a[j] = log[m]
        BY <1>4, <1>9, <2>1, <3>1
      <3>3. j \in DOMAIN a
        BY <1>2, <2>1
      <3> QED
        BY <1>3, <3>2, <3>3
    <2>2. CASE i = Len(a) + 1
      <3>1. b[i] = s[1] /\ s[1].n \in 1..settled /\ 1 \in DOMAIN s /\ FromPeer(s[1])
        BY <1>1, <1>2, <1>3, <1>4, <1>9, <2>2
      <3>2. m \in 1..settled /\ m < s[1].n
        BY <3>1
      <3>3. Among(log[m], a) \/ Among(log[m], s)
        BY <1>4, <1>9, <3>2
      <3>4. ~Among(log[m], s)
        <4> SUFFICES ASSUME NEW j \in DOMAIN s, s[j] = log[m] PROVE FALSE
          BY DEF Among
        <4>1. s[j].n = m /\ FromPeer(s[j])
          BY <1>9, <3>2
        <4>2. j = 1 \/ 1 < j
          BY <1>1
        <4>3. s[j].n >= s[1].n
          BY <1>4, <3>1, <4>1, <4>2
        <4> QED
          BY <3>1, <3>2, <4>1, <4>3
      <3>5. PICK j \in DOMAIN a : a[j] = log[m]
        BY <3>3, <3>4 DEF Among
      <3>6. j \in 1..(i - 1)
        BY <1>2, <2>2
      <3> QED
        BY <1>3, <3>5, <3>6
    <2> QED
      BY <1>3, <2>1, <2>2
  <1> QED
    BY <1>5, <1>6, <1>7, <1>8, <1>9 DEF SlotUnits, FromPeer, Among, a, b, s, t

\* What came too late stays so.
LEMMA GoneKept ==
  ASSUME GoneInv, refused' = refused, pooled' = pooled,
         settled \in Nat, settled' \in Nat, settled <= settled',
         \A i \in 1..settled : log'[i] = log[i],
         \A u \in refused \cup pooled :
           TooLate(u) => /\ result'[u.key] # "none"
                         /\ ~Among(u, data'[u.key]) /\ ~Among(u, consumed'[u.key])
  PROVE  GoneInv'
  <1>1. \A n \in 1..settled : n \in 1..settled'
    OBVIOUS
  <1>2. \A u \in refused \cup pooled : TooLate(u) => TooLate(u)'
    BY <1>1 DEF TooLate, Among
  <1> QED
    BY <1>2 DEF GoneInv

\* A step that leaves the units alone.
LEMMA UnitsStay ==
  ASSUME TypeOK, FlowInv,
         log' = log, inbound' = inbound, hand' = hand, data' = data, consumed' = consumed,
         refused' = refused, pooled' = pooled, store' \subseteq store, sent \subseteq sent',
         \A k \in Key : result[k] # "none" => result'[k] # "none",
         CallInv'
  PROVE  FlowInv'
  <1>0. WireInv /\ GoneInv
    BY DEF FlowInv
  <1>1. WireInv'
    BY <1>0 DEF WireInv, taken
  <1>2. /\ settled' = settled /\ taken' = taken /\ settled \in Nat /\ settled <= settled
        /\ \A i \in 1..Len(log) : log[i].key \in Key
        /\ taken \in 0..Len(log) /\ settled \in 0..taken /\ Len(log) \in Nat
    <2>1. settled' = settled /\ taken' = taken
      BY DEF settled, taken
    <2> QED
      BY <1>0, <2>1, FlowTypes
  <1>3. ASSUME NEW k \in Key PROVE SlotUnits(k)'
    <2>1. \A m \in (settled + 1)..settled' : FALSE
      BY <1>2
    <2> QED
      BY <1>2, <2>1, SlotKept DEF FlowInv
  <1>4. GoneInv'
    <2>1. ASSUME NEW u \in refused \cup pooled, TooLate(u) PROVE u.key \in Key
      <3>1. u.n \in 1..Len(log) /\ u = log[u.n]
        <4>1. u.n \in 1..settled /\ u = log[u.n]
          BY <2>1 DEF TooLate
        <4>2. \A n \in 1..settled : n \in 1..Len(log)
          BY <1>2
        <4> QED
          BY <4>1, <4>2
      <3> QED
        BY <1>2, <3>1
    <2>2. \A u \in refused \cup pooled :
           TooLate(u) => /\ result'[u.key] # "none"
                         /\ ~Among(u, data'[u.key]) /\ ~Among(u, consumed'[u.key])
      BY <2>1 DEF TooLate
    <2> QED
      BY <1>0, <1>2, <2>2, GoneKept
  <1> QED
    BY <1>1, <1>3, <1>4 DEF FlowInv

\* The calls, as far as the flow of units knows them, when a caller c goes on.
LEMMA CallKept ==
  ASSUME TypeOK, SlotInv, CallInv, NEW c \in Callers, NEW q \in Pcs,
         pc' = [pc EXCEPT ![c] = q], callId' = callId, rpcIndex' = rpcIndex,
         sent' = sent \/ (sent' = sent \cup {callId[c]} /\ callId[c] \in store'
                            /\ callId[c] \in Key /\ pc[c] # "idle"),
         store \ {callId[c]} \subseteq store',
         callId[c] \in store /\ callId[c] \notin store' => result'[callId[c]] # "none",
         q \in {"check", "add"} => pc[c] = "check" /\ sent' = sent,
         q = "erase" => result'[callId[c]] # "none",
         \A k \in Key : result[k] # "none" => result'[k] # "none"
  PROVE  CallInv'
  <1>1. ASSUME NEW k \in sent' PROVE k <= rpcIndex /\ (k \notin store' => result'[k] # "none")
    <2>1. callId[c] <= rpcIndex
      BY DEF SlotInv
    <2>2. CASE k \in sent
      BY <2>2 DEF CallInv, TypeOK
    <2>3. CASE k \notin sent
      BY <2>1, <2>3
    <2> QED
      BY <2>2, <2>3
  <1>2. ASSUME NEW d \in Callers, pc'[d] = "erase" PROVE result'[callId[d]] # "none"
    <2>1. CASE d = c
      BY <1>2, <2>1 DEF TypeOK
    <2>2. CASE d # c
      <3>1. pc[d] = "erase" /\ callId[d] \in Key
        BY <1>2, <2>2 DEF TypeOK
      <3> QED
        BY <3>1 DEF CallInv
    <2> QED
      BY <2>1, <2>2
  <1>3. ASSUME NEW d \in Callers, pc'[d] \in {"check", "add"} PROVE callId[d] \notin sent'
    <2>1. CASE d = c
      <3>1. pc'[c] = q
        BY DEF TypeOK
      <3> QED
        BY <1>3, <2>1, <3>1 DEF CallInv
    <2>2. CASE d # c
      <3>1. pc[d] \in {"check", "add"}
        BY <1>3, <2>2 DEF TypeOK
      <3>2. callId[d] \notin sent
        BY <3>1 DEF CallInv
      <3>3. pc[c] # "idle" => callId[d] # callId[c]
        BY <2>2, <3>1 DEF SlotInv, SlotLifetime
      <3> QED
        BY <3>2, <3>3
    <2> QED
      BY <2>1, <2>2
  <1> QED
    BY <1>1, <1>2, <1>3 DEF CallInv

\* A call begins, with an identifier that was never used.
LEMMA BeginFlow ==
  ASSUME TypeOK, SlotInv, FlowInv, NEW c \in Callers, BeginCall(c) \/ Notify(c)
  PROVE  FlowInv'
  <1> USE DEF queueVars, callVars, readerVars, connVars, historyVars
  <1>1. /\ next_index \in Key /\ next_index \in Nat /\ rpcIndex \in Nat
        /\ rpcIndex < next_index /\ Key \subseteq Nat /\ sent \subseteq Key
        /\ FirstIndex \in Nat
    <2>1. Key \subseteq Nat /\ sent \subseteq Key /\ FirstIndex \in Nat
      BY RpcCallsAssumption DEF TypeOK
    <2>2. rpcIndex \in {FirstIndex + 2 * i : i \in 0..MaxCalls} /\ rpcIndex \in Nat
      BY RpcCallsAssumption DEF TypeOK
    <2>3. rpcIndex < FirstIndex + 2 * MaxCalls
      BY DEF BeginCall, Notify
    <2> QED
      BY <2>1, <2>2, <2>3, NextIndex
  <1>2. CallInv /\ next_index \notin sent
    <2>1. CallInv
      BY DEF FlowInv
    <2> QED
      BY <1>1, <2>1 DEF CallInv
  <1>3. /\ rpcIndex' = next_index /\ pc[c] = "idle"
        /\ log' = log /\ inbound' = inbound /\ hand' = hand /\ data' = data
        /\ consumed' = consumed /\ refused' = refused /\ pooled' = pooled /\ store' = store
    BY DEF BeginCall, Notify
  <1>4. result' = result \/ \E r \in {"inactive", "notified", "comm"} :
          result' = [result EXCEPT ![next_index] = r]
    BY DEF BeginCall, Notify
  <1>5. \A k \in Key : result[k] # "none" => result'[k] # "none"
    BY <1>4 DEF TypeOK
  <1>6. sent \subseteq sent' /\ \A k \in sent' : k \in sent \/ (k = next_index /\ result'[k] # "none")
    BY <1>1 DEF BeginCall, Notify, TypeOK
  <1>7. \A k \in sent' : k <= rpcIndex' /\ (k \notin store' => result'[k] # "none")
    <2> SUFFICES ASSUME NEW k \in sent' PROVE k <= rpcIndex' /\ (k \notin store' => result'[k] # "none")
      OBVIOUS
    <2>1. CASE k \in sent
      <3>1. k <= rpcIndex /\ k \in Nat /\ (k \notin store => result[k] # "none")
        BY <1>1, <1>2, <2>1 DEF CallInv
      <3> QED
        BY <1>1, <1>3, <1>5, <2>1, <3>1
    <2>2. CASE k = next_index /\ result'[k] # "none"
      BY <1>1, <1>3, <2>2
    <2> QED
      BY <1>6, <2>1, <2>2
  <1>8. ASSUME NEW d \in Callers
        PROVE  /\ pc'[d] = pc[d] \/ (d = c /\ pc'[d] = "check")
               /\ callId'[d] = callId[d] \/ (d = c /\ callId'[d] = next_index)
               /\ pc'[c] # "idle" => callId'[c] = next_index /\ sent' = sent
    BY DEF BeginCall, Notify, TypeOK
  <1>9. ASSUME NEW d \in Callers, pc'[d] = "erase" PROVE result'[callId'[d]] # "none"
    <2>1. d # c /\ pc[d] = "erase" /\ callId'[d] = callId[d] /\ callId[d] \in Key
      BY <1>3, <1>8, <1>9 DEF TypeOK
    <2> QED
      BY <1>2, <1>5, <2>1 DEF CallInv
  <1>10. ASSUME NEW d \in Callers, pc'[d] \in {"check", "add"} PROVE callId'[d] \notin sent'
    <2>1. CASE d = c
      BY <1>2, <1>8, <1>10, <2>1
    <2>2. CASE d # c
      <3>1. pc[d] \in {"check", "add"} /\ callId'[d] = callId[d]
        BY <1>8, <1>10, <2>2
      <3>2. callId[d] \notin sent /\ callId[d] <= rpcIndex /\ callId[d] \in Nat
        BY <1>1, <1>2, <3>1 DEF CallInv, SlotInv, TypeOK
      <3>3. callId[d] # next_index
        BY <1>1, <3>2
      <3> QED
        BY <1>6, <3>1, <3>2, <3>3
    <2> QED
      BY <2>1, <2>2
  <1>11. CallInv'
    BY <1>7, <1>9, <1>10 DEF CallInv
  <1> QED
    BY <1>3, <1>5, <1>6, <1>11, UnitsStay

\* The steps of a call that touch no queue.
LEMMA MoveFlow ==
  ASSUME TypeOK, SlotInv, FlowInv, NEW c \in Callers,
         \/ CheckReady(c) \/ SendRequest(c) \/ ReadBlocks(c) \/ WakeCanceled(c)
         \/ Timeout(c) \/ LocalCall(c) \/ EraseSlot(c)
  PROVE  FlowInv'
  <1> USE DEF queueVars, callVars, readerVars, connVars, historyVars
  <1>0. CallInv /\ callId[c] \in Key /\ pc[c] # "idle"
    BY DEF FlowInv, TypeOK, CheckReady, SendRequest, ReadBlocks, WakeCanceled, Timeout,
           LocalCall, EraseSlot
  <1>1. /\ log' = log /\ inbound' = inbound /\ hand' = hand /\ data' = data
        /\ consumed' = consumed /\ refused' = refused /\ pooled' = pooled
        /\ callId' = callId /\ rpcIndex' = rpcIndex
    BY DEF CheckReady, SendRequest, ReadBlocks, read_blocks, WakeCanceled, Timeout, EndRead,
           LocalCall, EraseSlot, erase_queue
  <1>2. \/ result' = result
        \/ \E r \in {"comm", "canceled", "timeout"} : result' = [result EXCEPT ![callId[c]] = r]
    BY DEF CheckReady, SendRequest, ReadBlocks, WakeCanceled, Timeout, EndRead, Finish,
           LocalCall, EraseSlot
  <1>3. \A k \in Key : result[k] # "none" => result'[k] # "none"
    BY <1>0, <1>2 DEF TypeOK
  <1>4. /\ store \ {callId[c]} \subseteq store' /\ store' \subseteq store
        /\ callId[c] \in store /\ callId[c] \notin store' => result'[callId[c]] # "none"
    <2>1. CASE EraseSlot(c)
      BY <1>0, <2>1 DEF EraseSlot, erase_queue, CallInv
    <2>2. CASE ~EraseSlot(c)
      <3>1. store' = store
        BY <2>2 DEF CheckReady, SendRequest, ReadBlocks, read_blocks, WakeCanceled, Timeout,
                    EndRead, LocalCall
      <3> QED
        BY <3>1
    <2> QED
      BY <2>1, <2>2
  <1>5. sent' = sent \/ (SendRequest(c) /\ sent' = sent \cup {callId[c]} /\ callId[c] \in store')
    <2>1. CASE SendRequest(c)
      BY <2>1 DEF SendRequest, SlotInv, SlotLifetime, Inside
    <2>2. CASE ~SendRequest(c)
      BY <2>2 DEF CheckReady, ReadBlocks, WakeCanceled, Timeout, EndRead, LocalCall, EraseSlot
    <2> QED
      BY <2>1, <2>2
  <1>6. PICK q \in Pcs :
          /\ pc' = [pc EXCEPT ![c] = q]
          /\ q \in {"check", "add"} => pc[c] = "check" /\ sent' = sent
          /\ q = "erase" => result'[callId[c]] # "none"
    <2>1. CASE CheckReady(c)
      BY <1>0, <2>1 DEF CheckReady, Finish, Pcs, TypeOK
    <2>2. CASE SendRequest(c)
      BY <2>2 DEF SendRequest, Pcs, Inside
    <2>3. CASE ReadBlocks(c)
      BY <2>3 DEF ReadBlocks, Pcs, Inside
    <2>4. CASE WakeCanceled(c)
      BY <1>0, <2>4 DEF WakeCanceled, EndRead, Finish, Pcs, TypeOK
    <2>5. CASE Timeout(c)
      BY <1>0, <2>5 DEF Timeout, EndRead, Finish, Pcs, TypeOK
    <2>6. CASE LocalCall(c)
      BY <2>6 DEF LocalCall, Pcs, Inside
    <2>7. CASE EraseSlot(c)
      <3>1. "idle" \in Pcs /\ "idle" \notin {"check", "add"} /\ "idle" # "erase"
        BY DEF Pcs
      <3>2. pc' = [pc EXCEPT ![c] = "idle"]
        BY <2>7 DEF EraseSlot
      <3> QED
        BY <3>1, <3>2
    <2> QED
      BY <2>1, <2>2, <2>3, <2>4, <2>5, <2>6, <2>7
  <1>7. CallInv'
    BY <1>0, <1>1, <1>3, <1>4, <1>5, <1>6, CallKept
  <1> QED
    BY <1>1, <1>3, <1>4, <1>5, <1>7, UnitsStay

\* A call adds its slot: nothing was sent to it yet.
LEMMA AddFlow ==
  ASSUME TypeOK, SlotInv, FlowInv, NEW c \in Callers, AddSlot(c)
  PROVE  FlowInv'
  <1> USE DEF queueVars, callVars, readerVars, connVars, historyVars
  <1> DEFINE id == callId[c]
  <1>1. /\ pc[c] = "add" /\ pc' = [pc EXCEPT ![c] = "send"] /\ store' = store \cup {id}
        /\ log' = log /\ inbound' = inbound /\ hand' = hand
        /\ consumed' = consumed /\ refused' = refused /\ pooled' = pooled
        /\ callId' = callId /\ rpcIndex' = rpcIndex /\ sent' = sent /\ result' = result
    BY DEF AddSlot, add_queue
  <1>2. id \in Key /\ id \notin store /\ id \notin sent /\ CallInv /\ WireInv /\ GoneInv
    BY <1>1 DEF TypeOK, SlotInv, SlotLifetime, FlowInv, CallInv
  <1>3. data' = [data EXCEPT ![id] = <<>>]
    BY <1>2 DEF AddSlot, add_queue
  <1>4. CallInv'
    <2>1. "send" \in Pcs /\ "send" # "erase" /\ "send" \notin {"check", "add"}
      BY DEF Pcs, Inside
    <2>2. /\ \A k \in Key : result[k] # "none" => result'[k] # "none"
          /\ store \ {callId[c]} \subseteq store' /\ callId[c] \in store'
      BY <1>1
    <2> QED
      BY <1>1, <1>2, <2>1, <2>2, CallKept
  <1> HIDE DEF id
  <1>5. settled' = settled /\ WireInv'
    BY <1>1, <1>2 DEF settled, taken, WireInv
  <1>6. /\ settled \in 0..Len(log) /\ Len(log) \in Nat /\ DOMAIN log = 1..Len(log)
        /\ \A i \in 1..Len(log) : log[i].key \in Key
    <2>1. taken \in 0..Len(log) /\ settled \in 0..taken /\ Len(log) \in Nat
      BY <1>2, FlowTypes
    <2> QED
      BY <1>2, <2>1, FlowTypes
  <1>7. \A m \in 1..settled : log[m].key # id
    BY <1>2, <1>6 DEF WireInv
  <1>8. ASSUME NEW k \in Key PROVE SlotUnits(k)'
    <2>0. SlotUnits(k)
      BY DEF FlowInv
    <2>1. CASE k # id
      <3>1. data'[k] = data[k] /\ (k \in store' => k \in store)
        BY <1>1, <1>3, <2>1 DEF TypeOK
      <3>2. \A m \in (settled + 1)..settled' : FALSE
        BY <1>5, <1>6
      <3>3. settled \in Nat /\ settled' \in Nat /\ settled <= settled'
        BY <1>5, <1>6
      <3> QED
        BY <1>1, <2>0, <3>1, <3>2, <3>3, SlotKept
    <2>2. CASE k = id
      <3>1. data'[k] = <<>> /\ DOMAIN data'[k] = {}
        BY <1>2, <1>3, <2>2 DEF TypeOK
      <3>2. SoundFor(consumed[k], k)'
        BY <1>1, <1>5, <2>0 DEF SlotUnits, SoundFor
      <3>3. SoundFor(data[k], k)'
        BY <3>1 DEF SoundFor
      <3> QED
        BY <1>1, <1>5, <1>7, <2>0, <2>2, <3>1, <3>2, <3>3 DEF SlotUnits
    <2> QED
      BY <2>1, <2>2
  <1>9. GoneInv'
    <2>1. ASSUME NEW u \in refused \cup pooled, TooLate(u)
          PROVE  /\ result'[u.key] # "none"
                 /\ ~Among(u, data'[u.key]) /\ ~Among(u, consumed'[u.key])
      <3>1. u.n \in 1..settled /\ u = log[u.n]
        BY <2>1 DEF TooLate
      <3>2. u.n \in 1..Len(log)
        BY <1>6, <3>1
      <3>3. u.key \in Key /\ u.key # id
        BY <1>6, <1>7, <3>1, <3>2
      <3>4. data'[u.key] = data[u.key]
        BY <1>3, <3>3 DEF TypeOK
      <3> QED
        BY <1>1, <2>1, <3>4 DEF TooLate
    <2>2. settled \in Nat /\ settled' \in Nat /\ settled <= settled'
      BY <1>5, <1>6
    <2> QED
      BY <1>1, <1>2, <2>1, <2>2, GoneKept
  <1> QED
    BY <1>4, <1>5, <1>8, <1>9 DEF FlowInv

\* A call takes the first unit from its slot.
LEMMA PopFlow ==
  ASSUME TypeOK, SlotInv, FlowInv, NEW c \in Callers, ReadAtOnce(c) \/ WakeWithUnit(c)
  PROVE  FlowInv'
  <1> USE DEF queueVars, callVars, readerVars, connVars, historyVars
  <1> DEFINE id == callId[c]  u == Head(data[id])
  <1>1. /\ pc[c] \in {"read", "wait"} /\ store' = store /\ data[id] # <<>>
        /\ data' = [data EXCEPT ![id] = Tail(data[id])]
        /\ consumed' = [consumed EXCEPT ![id] = Append(consumed[id], u)]
        /\ log' = log /\ inbound' = inbound /\ hand' = hand
        /\ refused' = refused /\ pooled' = pooled
        /\ callId' = callId /\ rpcIndex' = rpcIndex /\ sent' = sent
    BY DEF ReadAtOnce, WakeWithUnit, read_at_once, read_wakes, Handle
  <1>2. /\ id \in Key /\ id \in store /\ CallInv /\ WireInv /\ GoneInv
        /\ data[id] \in Seq(Unit) /\ consumed[id] \in Seq(Unit)
    BY <1>1 DEF TypeOK, SlotInv, SlotLifetime, FlowInv, Inside
  <1>3. PICK q \in {"erase", "local"} :
          /\ pc' = [pc EXCEPT ![c] = q]
          /\ q = "erase" => result'[id] # "none"
          /\ \A k \in Key : result[k] # "none" => result'[k] # "none"
    <2>1. Handle(c, u)
      BY DEF ReadAtOnce, WakeWithUnit
    <2> HIDE DEF u
    <2>2. CASE u.kind = "answer" /\ Finish(c, "answer")
      BY <1>2, <2>2 DEF Finish, TypeOK
    <2>3. CASE u.kind \in {"refusal", "fatal"} /\ Finish(c, "error")
      BY <1>2, <2>3 DEF Finish, TypeOK
    <2>4. CASE pc' = [pc EXCEPT ![c] = "local"] /\ result' = result
      BY <2>4
    <2> QED
      BY <2>1, <2>2, <2>3, <2>4 DEF Handle
  <1>4. CallInv'
    <2>1. q \in Pcs /\ q \notin {"check", "add"} /\ store \ {callId[c]} \subseteq store'
      BY <1>1 DEF Pcs, Inside
    <2> QED
      BY <1>1, <1>2, <1>3, <2>1, CallKept
  <1>5. settled' = settled /\ WireInv'
    BY <1>1, <1>2 DEF settled, taken, WireInv
  <1>6. /\ settled \in 0..Len(log) /\ Len(log) \in Nat /\ DOMAIN log = 1..Len(log)
        /\ \A i \in 1..Len(log) : log[i].key \in Key
    <2>1. taken \in 0..Len(log) /\ settled \in 0..taken /\ Len(log) \in Nat
      BY <1>2, FlowTypes
    <2> QED
      BY <1>2, <2>1, FlowTypes, SMTT(30)
  <1>7. \A m \in 1..settled : log[m].n = m
    BY <1>2, <1>6 DEF WireInv
  <1>8. data'[id] = Tail(data[id]) /\ consumed'[id] = Append(consumed[id], u)
    BY <1>1, <1>2 DEF TypeOK
  <1>9. settled \in Nat /\ settled' \in Nat /\ settled <= settled'
    BY <1>5, <1>6
  <1>10. ASSUME NEW k \in Key PROVE SlotUnits(k)'
    <2>0. SlotUnits(k)
      BY DEF FlowInv
    <2>1. CASE k # id
      <3>1. data'[k] = data[k] /\ consumed'[k] = consumed[k]
        BY <1>1, <2>1 DEF TypeOK
      <3>2. \A m \in (settled + 1)..settled' : FALSE
        BY <1>5, <1>6
      <3> QED
        BY <1>1, <1>9, <2>0, <3>1, <3>2, SlotKept
    <2>2. CASE k = id
      BY <1>1, <1>2, <1>5, <1>7, <1>8, <1>9, <2>0, <2>2, SlotPopped
    <2> QED
      BY <2>1, <2>2
  <1>11. GoneInv'
    <2>1. ASSUME NEW v \in refused \cup pooled, TooLate(v)
          PROVE  /\ result'[v.key] # "none"
                 /\ ~Among(v, data'[v.key]) /\ ~Among(v, consumed'[v.key])
      <3>1. v.n \in 1..settled /\ v = log[v.n]
        BY <2>1 DEF TooLate
      <3>2. v.n \in 1..Len(log)
        BY <1>6, <3>1
      <3>3. v.key \in Key
        BY <1>6, <3>1, <3>2
      <3>4. CASE v.key # id
        <4>1. data'[v.key] = data[v.key] /\ consumed'[v.key] = consumed[v.key]
          BY <1>1, <3>3, <3>4 DEF TypeOK
        <4> QED
          BY <1>3, <2>1, <3>3, <4>1 DEF TooLate
      <3>5. CASE v.key = id
        <4>1. ~Among(v, data[id]) /\ ~Among(v, consumed[id]) /\ result'[v.key] # "none"
          BY <1>3, <2>1, <3>3, <3>5 DEF TooLate
        <4>2. ~Among(v, data'[id])
          <5>1. /\ Len(data[id]) \in Nat /\ DOMAIN data[id] = 1..Len(data[id])
                /\ DOMAIN data'[id] = 1..(Len(data[id]) - 1)
                /\ \A i \in 1..(Len(data[id]) - 1) : data'[id][i] = data[id][i + 1]
            <6>1. \A s \in Seq(Unit) : s # <<>> =>
                    /\ Len(s) \in Nat /\ DOMAIN s = 1..Len(s) /\ DOMAIN Tail(s) = 1..(Len(s) - 1)
                    /\ \A i \in 1..(Len(s) - 1) : Tail(s)[i] = s[i + 1]
              BY TailAt
            <6> HIDE DEF id
            <6> QED
              BY <1>1, <1>2, <1>8, <6>1
          <5>2. \A i \in DOMAIN data'[id] : i + 1 \in DOMAIN data[id] /\ data'[id][i] = data[id][i + 1]
            BY <5>1
          <5> QED
            BY <4>1, <5>2 DEF Among
        <4>3. ~Among(v, consumed'[id])
          <5>1. 1 \in DOMAIN data[id] /\ u = data[id][1] /\ u \in Unit
            BY <1>1, <1>2, TailAt
          <5>2. u # v
            BY <4>1, <5>1 DEF Among
          <5>3. /\ Len(consumed[id]) \in Nat /\ DOMAIN consumed[id] = 1..Len(consumed[id])
                /\ DOMAIN consumed'[id] = 1..(Len(consumed[id]) + 1)
                /\ \A i \in 1..Len(consumed[id]) : consumed'[id][i] = consumed[id][i]
                /\ consumed'[id][Len(consumed[id]) + 1] = u
            BY <1>2, <1>8, <5>1, AppendAt, LenProperties
          <5>4. \A i \in DOMAIN consumed'[id] : i \in DOMAIN consumed[id] \/ i = Len(consumed[id]) + 1
            BY <5>3
          <5> HIDE DEF u
          <5> QED
            BY <4>1, <5>2, <5>3, <5>4 DEF Among
        <4> QED
          BY <3>5, <4>1, <4>2, <4>3
      <3> QED
        BY <3>4, <3>5
    <2> QED
      BY <1>1, <1>2, <1>9, <2>1, GoneKept
  <1> QED
    BY <1>4, <1>5, <1>10, <1>11 DEF FlowInv

\* What the flow of units knows of the calls holds while they do nothing.
LEMMA CallStill ==
  ASSUME CallInv, store' = store, pc' = pc, callId' = callId, rpcIndex' = rpcIndex,
         sent' = sent, result' = result
  PROVE  CallInv'
  BY DEF CallInv

\* The read handler takes a unit off the wire.
LEMMA WireTaken ==
  ASSUME TypeOK, WireInv, Reading, inbound' = Tail(inbound), log' = log, sent' = sent,
         hand' = hand \/ (hand' = Head(inbound) /\ FromPeer(Head(inbound)))
  PROVE  /\ WireInv' /\ taken' = taken + 1
         /\ Head(inbound) = log[taken + 1] /\ taken + 1 \in 1..Len(log)
         /\ log[taken + 1].n = taken + 1 /\ settled = taken
  <1>1. /\ hand = NoUnit /\ inbound # <<>>
        /\ log \in Seq(Unit) /\ Len(log) \in Nat /\ DOMAIN log = 1..Len(log)
        /\ Len(inbound) \in Nat /\ DOMAIN inbound = 1..Len(inbound)
        /\ taken \in 0..Len(log) /\ settled = taken
    BY FlowTypes DEF Reading
  <1>2. /\ Len(inbound) \in Nat \ {0} /\ Len(inbound') = Len(inbound) - 1
        /\ DOMAIN inbound' = 1..(Len(inbound) - 1)
        /\ \A i \in 1..(Len(inbound) - 1) : inbound'[i] = inbound[i + 1]
        /\ Head(inbound) = inbound[1]
    <2>1. inbound \in Seq(Unit)
      BY DEF TypeOK
    <2> QED
      BY <1>1, <2>1, TailAt
  <1>3. taken' = taken + 1 /\ taken + 1 \in 1..Len(log) /\ Len(inbound') <= Len(log')
    BY <1>1, <1>2 DEF taken, WireInv
  <1>4. Head(inbound) = log[taken + 1] /\ log[taken + 1].n = taken + 1
    <2>1. 1 \in DOMAIN inbound
      BY <1>1, <1>2
    <2> QED
      BY <1>1, <1>2, <1>3, <2>1 DEF WireInv
  <1>5. \A i \in DOMAIN inbound' : inbound'[i] = log[(taken + 1) + i]
    <2> SUFFICES ASSUME NEW i \in DOMAIN inbound' PROVE inbound'[i] = log[(taken + 1) + i]
      OBVIOUS
    <2>1. i + 1 \in DOMAIN inbound /\ taken + (i + 1) = (taken + 1) + i /\ inbound'[i] = inbound[i + 1]
      BY <1>1, <1>2
    <2>2. inbound[i + 1] = log[taken + (i + 1)]
      BY <2>1 DEF WireInv
    <2> QED
      BY <2>1, <2>2
  <1>6. hand' # NoUnit => taken' >= 1 /\ hand' = log[taken'] /\ FromPeer(hand')
    BY <1>1, <1>3, <1>4
  <1>7. \A i \in DOMAIN log : log[i].n = i /\ log[i].key \in sent
    BY DEF WireInv
  <1> QED
    BY <1>1, <1>3, <1>4, <1>5, <1>6, <1>7 DEF WireInv, FromPeer

\* The peer sends.
LEMMA SendsFlow ==
  ASSUME TypeOK, FlowInv, NEW k \in Key, NEW kind \in PeerKinds, PeerSends(k, kind)
  PROVE  FlowInv'
  <1> USE DEF queueVars, callVars, readerVars, connVars, historyVars
  <1> DEFINE u == [kind |-> kind, key |-> k, n |-> Len(log) + 1]
  <1>0. WireInv /\ CallInv /\ GoneInv
    BY DEF FlowInv
  <1>1. /\ k \in sent /\ inbound' = Append(inbound, u) /\ log' = Append(log, u)
        /\ store' = store /\ data' = data /\ pc' = pc /\ callId' = callId
        /\ rpcIndex' = rpcIndex /\ sent' = sent /\ hand' = hand
        /\ consumed' = consumed /\ result' = result /\ refused' = refused /\ pooled' = pooled
    BY DEF PeerSends
  <1>2. /\ log \in Seq(Unit) /\ Len(log) \in Nat /\ DOMAIN log = 1..Len(log)
        /\ inbound \in Seq(Unit) /\ Len(inbound) \in Nat /\ DOMAIN inbound = 1..Len(inbound)
        /\ taken \in 0..Len(log) /\ settled \in 0..taken
    BY <1>0, FlowTypes
  <1>3. u \in Unit /\ u.key = k /\ u.n = Len(log) + 1
    BY <1>2, PeerKindsAssumption, RpcCallsAssumption DEF Unit
  <1> HIDE DEF u
  <1>4. /\ Len(log') = Len(log) + 1 /\ DOMAIN log' = 1..(Len(log) + 1)
        /\ \A i \in 1..Len(log) : log'[i] = log[i]
        /\ log'[Len(log) + 1] = u
    BY <1>1, <1>2, <1>3, AppendAt
  <1>5. /\ Len(inbound') = Len(inbound) + 1 /\ DOMAIN inbound' = 1..(Len(inbound) + 1)
        /\ \A i \in 1..Len(inbound) : inbound'[i] = inbound[i]
        /\ inbound'[Len(inbound) + 1] = u
    BY <1>1, <1>2, <1>3, AppendAt
  <1>6. taken' = taken /\ settled' = settled
    <2>1. taken' = taken
      BY <1>2, <1>4, <1>5 DEF taken
    <2> QED
      BY <1>1, <2>1 DEF settled
  <1>7. WireInv'
    <2>1. Len(inbound') <= Len(log')
      BY <1>0, <1>2, <1>4, <1>5 DEF WireInv
    <2>2. \A i \in DOMAIN log' : log'[i].n = i /\ log'[i].key \in sent
      <3>1. \A i \in DOMAIN log' : i \in DOMAIN log \/ i = Len(log) + 1
        BY <1>2, <1>4
      <3> QED
        BY <1>0, <1>1, <1>2, <1>3, <1>4, <3>1 DEF WireInv
    <2>3. ASSUME NEW i \in DOMAIN inbound' PROVE inbound'[i] = log'[taken + i]
      <3>1. CASE i \in DOMAIN inbound
        <4>1. taken + i \in 1..Len(log)
          BY <1>2, <3>1 DEF taken
        <4> QED
          BY <1>0, <1>2, <1>4, <1>5, <3>1, <4>1 DEF WireInv
      <3>2. CASE i = Len(inbound) + 1
        <4>1. taken + i = Len(log) + 1
          BY <1>2, <3>2 DEF taken
        <4> QED
          BY <1>4, <1>5, <3>2, <4>1
      <3> QED
        BY <1>2, <1>5, <3>1, <3>2
    <2>4. hand # NoUnit => taken >= 1 /\ hand = log'[taken] /\ FromPeer(hand)
      <3>1. hand # NoUnit => taken \in 1..Len(log)
        BY <1>0, FlowTypes
      <3> QED
        BY <1>0, <1>4, <3>1 DEF WireInv
    <2> QED
      BY <1>1, <1>6, <2>1, <2>2, <2>3, <2>4 DEF WireInv, FromPeer
  <1>8. /\ settled \in Nat /\ settled' \in Nat /\ settled <= settled'
        /\ \A i \in 1..settled : log'[i] = log[i]
        /\ \A m \in (settled + 1)..settled' : FALSE
    <2>1. \A i \in 1..settled : i \in 1..Len(log)
      BY <1>2
    <2> QED
      BY <1>2, <1>4, <1>6, <2>1
  <1>9. \A j \in Key : SlotUnits(j)'
    <2> SUFFICES ASSUME NEW j \in Key PROVE SlotUnits(j)'
      OBVIOUS
    <2>1. SlotUnits(j)
      BY DEF FlowInv
    <2> QED
      BY <1>1, <1>8, <2>1, SlotKept
  <1>10. GoneInv'
    <2>1. \A v \in refused \cup pooled :
            TooLate(v) => /\ result'[v.key] # "none"
                          /\ ~Among(v, data'[v.key]) /\ ~Among(v, consumed'[v.key])
      BY <1>1 DEF TooLate
    <2> QED
      BY <1>0, <1>1, <1>8, <2>1, GoneKept
  <1>11. CallInv'
    BY <1>0, <1>1, CallStill
  <1> QED
    BY <1>7, <1>9, <1>10, <1>11 DEF FlowInv

\* The read handler holds the unit and its slot.
LEMMA FindFlow ==
  ASSUME TypeOK, FlowInv, FindSlot
  PROVE  FlowInv'
  <1> USE DEF queueVars, callVars, readerVars, connVars, historyVars
  <1>0. WireInv /\ CallInv /\ GoneInv
    BY DEF FlowInv
  <1>1. /\ Reading /\ FromPeer(Head(inbound)) /\ hand' = Head(inbound) /\ inbound' = Tail(inbound)
        /\ store' = store /\ data' = data /\ pc' = pc /\ callId' = callId /\ log' = log
        /\ rpcIndex' = rpcIndex /\ sent' = sent
        /\ consumed' = consumed /\ result' = result /\ refused' = refused /\ pooled' = pooled
    BY DEF FindSlot, FromPeer
  <1>2. WireInv' /\ taken' = taken + 1 /\ settled = taken
    BY <1>0, <1>1, WireTaken
  <1>3. settled' = settled
    <2>1. hand' # NoUnit
      BY <1>1 DEF FromPeer, NoUnit, Answers, Inserts
    <2>2. taken \in 0..Len(log) /\ Len(log) \in Nat
      BY <1>0, FlowTypes
    <2> QED
      BY <1>2, <2>1, <2>2 DEF settled
  <1>4. /\ settled \in Nat /\ settled' \in Nat /\ settled <= settled'
        /\ \A m \in (settled + 1)..settled' : FALSE
    <2>1. taken \in 0..Len(log) /\ Len(log) \in Nat
      BY <1>0, FlowTypes
    <2> QED
      BY <1>2, <1>3, <2>1
  <1>5. \A j \in Key : SlotUnits(j)'
    <2> SUFFICES ASSUME NEW j \in Key PROVE SlotUnits(j)'
      OBVIOUS
    <2>1. SlotUnits(j)
      BY DEF FlowInv
    <2> QED
      BY <1>1, <1>4, <2>1, SlotKept
  <1>6. GoneInv'
    <2>1. \A v \in refused \cup pooled :
            TooLate(v) => /\ result'[v.key] # "none"
                          /\ ~Among(v, data'[v.key]) /\ ~Among(v, consumed'[v.key])
      BY <1>1 DEF TooLate
    <2> QED
      BY <1>0, <1>1, <1>4, <2>1, GoneKept
  <1>7. CallInv'
    BY <1>0, <1>1, CallStill
  <1> QED
    BY <1>2, <1>5, <1>6, <1>7 DEF FlowInv

\* The read handler drops a unit, or answers it: it is for no slot.
Passes(u) ==
  /\ Reading /\ u = Head(inbound) /\ (u.key \notin store \/ ~FromPeer(u))
  /\ inbound' = Tail(inbound) /\ hand' = hand
  /\ store' = store /\ data' = data /\ pc' = pc /\ callId' = callId /\ log' = log
  /\ rpcIndex' = rpcIndex /\ sent' = sent /\ consumed' = consumed /\ result' = result
  /\ \/ refused' = refused
     \/ refused' = refused \cup {u} /\ u.kind = "insert" /\ u.key \notin store
  /\ \/ pooled' = pooled
     \/ pooled' = pooled \cup {u} /\ u.kind = "alone" /\ u.key \notin store

LEMMA PassFlow ==
  ASSUME TypeOK, FlowInv, NEW u, Passes(u)
  PROVE  FlowInv'
  <1>0. WireInv /\ CallInv /\ GoneInv
    BY DEF FlowInv
  <1>1. /\ Reading /\ u = Head(inbound) /\ (u.key \notin store \/ ~FromPeer(u))
        /\ inbound' = Tail(inbound) /\ hand' = hand /\ hand = NoUnit
        /\ store' = store /\ data' = data /\ pc' = pc /\ callId' = callId /\ log' = log
        /\ rpcIndex' = rpcIndex /\ sent' = sent /\ consumed' = consumed /\ result' = result
    BY DEF Passes, Reading
  <1>2. /\ WireInv' /\ taken' = taken + 1 /\ settled = taken
        /\ u = log[taken + 1] /\ taken + 1 \in 1..Len(log) /\ u.n = taken + 1
    BY <1>0, <1>1, WireTaken
  <1>3. /\ settled' = settled + 1 /\ settled \in Nat /\ settled' \in Nat /\ settled <= settled'
        /\ \A m \in (settled + 1)..settled' : m = settled + 1
        /\ \A m \in 1..settled : m \in 1..settled'
    <2>1. taken \in 0..Len(log) /\ Len(log) \in Nat
      BY <1>0, FlowTypes
    <2>2. settled' = taken'
      BY <1>1 DEF settled
    <2> QED
      BY <1>2, <2>1, <2>2
  <1>4. \A j \in Key : SlotUnits(j)'
    <2> SUFFICES ASSUME NEW j \in Key PROVE SlotUnits(j)'
      OBVIOUS
    <2>1. SlotUnits(j)
      BY DEF FlowInv
    <2>2. j \in store => \A m \in (settled + 1)..settled' :
                           ~(FromPeer(log'[m]) /\ log'[m].key = j)
      BY <1>1, <1>2, <1>3
    <2> QED
      BY <1>1, <1>3, <2>1, <2>2, SlotKept
  <1>5. \A v : TooLate(v) => TooLate(v)'
    BY <1>1, <1>3 DEF TooLate
  <1>6. ASSUME u.kind \in {"insert", "alone"}, u.key \notin store PROVE TooLate(u)'
    <2>1. u.key \in sent /\ u.key \in Key
      BY <1>0, <1>2, FlowTypes DEF WireInv
    <2>2. result[u.key] # "none"
      BY <1>0, <1>6, <2>1 DEF CallInv
    <2>3. u.n \in 1..settled' /\ u = log[u.n] /\ u.n \notin 1..settled
      BY <1>2, <1>3
    <2>4. FromPeer(u)
      BY <1>6 DEF FromPeer, Inserts
    <2>5. ~Among(u, data[u.key]) /\ ~Among(u, consumed[u.key])
      <3>1. SlotUnits(u.key)
        BY <2>1 DEF FlowInv
      <3> QED
        BY <2>3, <2>4, <3>1 DEF SlotUnits, SoundFor, Among
    <2> QED
      BY <1>1, <2>2, <2>3, <2>5 DEF TooLate
  <1>7. GoneInv'
    <2>1. \A v \in refused' : v.kind = "insert" /\ TooLate(v)'
      <3>1. \A v \in refused : v.kind = "insert" /\ TooLate(v)'
        BY <1>0, <1>5 DEF GoneInv
      <3>2. refused' = refused \/ (refused' = refused \cup {u} /\ u.kind = "insert" /\ u.key \notin store)
        BY DEF Passes
      <3> QED
        BY <1>6, <3>1, <3>2
    <2>2. \A v \in pooled' : v.kind = "alone" /\ TooLate(v)'
      <3>1. \A v \in pooled : v.kind = "alone" /\ TooLate(v)'
        BY <1>0, <1>5 DEF GoneInv
      <3>2. pooled' = pooled \/ (pooled' = pooled \cup {u} /\ u.kind = "alone" /\ u.key \notin store)
        BY DEF Passes
      <3> QED
        BY <1>6, <3>1, <3>2
    <2> QED
      BY <2>1, <2>2 DEF GoneInv
  <1>8. CallInv'
    BY <1>0, <1>1, CallStill
  <1> QED
    BY <1>2, <1>4, <1>7, <1>8 DEF FlowInv

\* The read handler pushes the unit it holds.
LEMMA PushFlow ==
  ASSUME TypeOK, FlowInv, PushUnit
  PROVE  FlowInv'
  <1> USE DEF queueVars, callVars, readerVars, connVars, historyVars
  <1>0. WireInv /\ CallInv /\ GoneInv
    BY DEF FlowInv
  <1>1. /\ hand # NoUnit /\ hand' = NoUnit /\ inbound' = inbound
        /\ data' = [data EXCEPT ![hand.key] = Append(data[hand.key], hand)]
        /\ store' = store /\ pc' = pc /\ callId' = callId /\ log' = log
        /\ rpcIndex' = rpcIndex /\ sent' = sent
        /\ consumed' = consumed /\ result' = result /\ refused' = refused /\ pooled' = pooled
    BY DEF PushUnit, push_value_data
  <1>2. /\ taken \in 1..Len(log) /\ settled = taken - 1 /\ hand = log[taken] /\ FromPeer(hand)
        /\ hand.n = taken /\ hand.key \in Key /\ hand \in Unit /\ Len(log) \in Nat
    <2>1. taken \in 1..Len(log) /\ DOMAIN log = 1..Len(log) /\ settled = taken - 1
          /\ Len(log) \in Nat
      BY <1>0, <1>1, FlowTypes
    <2>2. hand = log[taken] /\ FromPeer(hand) /\ log[taken].n = taken
      BY <1>0, <1>1, <2>1 DEF WireInv
    <2>3. log[taken].key \in Key
      BY <1>0, <2>1, FlowTypes
    <2> QED
      BY <2>1, <2>2, <2>3 DEF TypeOK
  <1>3. PICK k \in Key : k = hand.key
    BY <1>2
  <1>4. taken' = taken /\ WireInv'
    BY <1>0, <1>1 DEF taken, WireInv
  <1>5. /\ settled' = settled + 1 /\ settled \in Nat /\ settled' \in Nat /\ settled <= settled'
        /\ settled + 1 = taken
        /\ \A m \in (settled + 1)..settled' : m = taken
        /\ \A m \in 1..settled : m # taken
    <2>1. settled' = taken
      BY <1>1, <1>4 DEF settled
    <2> QED
      BY <1>2, <2>1
  <1>6. data'[k] = Append(data[k], hand) /\ \A j \in Key \ {k} : data'[j] = data[j]
    BY <1>1, <1>3 DEF TypeOK
  <1>7. \A j \in Key : SlotUnits(j)'
    <2> SUFFICES ASSUME NEW j \in Key PROVE SlotUnits(j)'
      OBVIOUS
    <2>1. SlotUnits(j) /\ data[j] \in Seq(Unit)
      BY DEF FlowInv, TypeOK
    <2>2. CASE j # k
      <3>1. \A m \in (settled + 1)..settled' : ~(FromPeer(log'[m]) /\ log'[m].key = j)
        BY <1>1, <1>2, <1>3, <1>5, <2>2
      <3>2. data'[j] = data[j]
        BY <1>6, <2>2
      <3> QED
        BY <1>1, <1>5, <2>1, <3>1, <3>2, SlotKept
    <2>3. CASE j = k
      <3>1. /\ FromPeer(hand) /\ settled' = settled + 1 /\ hand.n = settled + 1
            /\ log[settled + 1] = hand /\ hand.key = j /\ data'[j] = Append(data[j], hand)
        BY <1>2, <1>3, <1>5, <1>6, <2>3
      <3> QED
        BY <1>1, <1>2, <1>5, <2>1, <3>1, SlotAppended
    <2> QED
      BY <2>2, <2>3
  <1>8. GoneInv'
    <2>1. ASSUME NEW v \in refused \cup pooled, TooLate(v)
          PROVE  /\ result'[v.key] # "none"
                 /\ ~Among(v, data'[v.key]) /\ ~Among(v, consumed'[v.key])
      <3>1. v.n \in 1..settled /\ v = log[v.n] /\ ~Among(v, data[v.key])
        BY <2>1 DEF TooLate
      <3>2. v # hand
        BY <1>2, <1>5, <3>1
      <3>3. v.key \in Key
        <4>1. \A m \in 1..settled : m \in 1..Len(log)
          BY <1>2
        <4>2. \A m \in 1..Len(log) : log[m].key \in Key
          BY <1>0, FlowTypes
        <4> QED
          BY <3>1, <4>1, <4>2
      <3>4. ~Among(v, data'[v.key])
        <4>1. CASE v.key # k
          BY <1>6, <3>1, <3>3, <4>1
        <4>2. CASE v.key = k
          <5>1. data[k] \in Seq(Unit)
            BY DEF TypeOK
          <5>2. /\ Len(data[k]) \in Nat /\ DOMAIN data[k] = 1..Len(data[k])
                /\ DOMAIN data'[k] = 1..(Len(data[k]) + 1)
                /\ \A i \in 1..Len(data[k]) : data'[k][i] = data[k][i]
                /\ data'[k][Len(data[k]) + 1] = hand
            BY <1>2, <1>6, <5>1, AppendAt, LenProperties
          <5>3. \A i \in DOMAIN data'[k] : i \in DOMAIN data[k] \/ i = Len(data[k]) + 1
            BY <5>2
          <5> QED
            BY <3>1, <3>2, <4>2, <5>2, <5>3 DEF Among
        <4> QED
          BY <4>1, <4>2
      <3> QED
        BY <1>1, <2>1, <3>4 DEF TooLate
    <2> QED
      BY <1>0, <1>1, <1>5, <2>1, GoneKept
  <1>9. CallInv'
    BY <1>0, <1>1, CallStill
  <1> QED
    BY <1>4, <1>7, <1>8, <1>9 DEF FlowInv

\* An error is pushed to every slot.
LEMMA PushAllFlow ==
  ASSUME TypeOK, FlowInv, NEW a \in Actors, PushAll(a)
  PROVE  FlowInv'
  <1> USE DEF queueVars, callVars, readerVars, connVars, historyVars
  <1> DEFINE u == ToAll(errUnit[a])
  <1>0. WireInv /\ CallInv /\ GoneInv
    BY DEF FlowInv
  <1>1. /\ data' = [k \in Key |-> IF k \in store THEN Append(data[k], u) ELSE data[k]]
        /\ hand' = hand /\ inbound' = inbound
        /\ store' = store /\ pc' = pc /\ callId' = callId /\ log' = log
        /\ rpcIndex' = rpcIndex /\ sent' = sent
        /\ consumed' = consumed /\ result' = result /\ refused' = refused /\ pooled' = pooled
    BY DEF PushAll, write_all
  <1>2. u \in Unit /\ u.kind \in Broadcast
    BY BroadcastUnits DEF TypeOK, ToAll
  <1>3. ~FromPeer(u) /\ u.kind \notin {"insert", "alone"}
    BY <1>2 DEF FromPeer, Broadcast, Answers, Inserts
  <1> HIDE DEF u
  <1>4. WireInv' /\ settled' = settled
    BY <1>0, <1>1 DEF WireInv, taken, settled
  <1>5. /\ settled \in Nat /\ settled' \in Nat /\ settled <= settled' /\ settled \in 0..Len(log)
        /\ Len(log) \in Nat /\ \A m \in (settled + 1)..settled' : FALSE
    <2>1. taken \in 0..Len(log) /\ settled \in 0..taken /\ Len(log) \in Nat
      BY <1>0, FlowTypes
    <2> QED
      BY <1>4, <2>1
  <1>6. \A j \in Key : SlotUnits(j)'
    <2> SUFFICES ASSUME NEW j \in Key PROVE SlotUnits(j)'
      OBVIOUS
    <2>1. SlotUnits(j) /\ data[j] \in Seq(Unit) /\ data \in [Key -> Seq(Unit)]
      BY DEF FlowInv, TypeOK
    <2>2. CASE j \notin store
      <3>1. data'[j] = data[j]
        BY <1>1, <2>1, <2>2
      <3> QED
        BY <1>1, <1>5, <2>1, <3>1, SlotKept
    <2>3. CASE j \in store
      <3>1. data'[j] = Append(data[j], u)
        BY <1>1, <2>3
      <3> QED
        BY <1>1, <1>2, <1>3, <1>4, <1>5, <2>1, <3>1, SlotAppended
    <2> QED
      BY <2>2, <2>3
  <1>7. GoneInv'
    <2>1. ASSUME NEW v \in refused \cup pooled, TooLate(v)
          PROVE  /\ result'[v.key] # "none"
                 /\ ~Among(v, data'[v.key]) /\ ~Among(v, consumed'[v.key])
      <3>1. v.n \in 1..settled /\ v = log[v.n] /\ ~Among(v, data[v.key])
        BY <2>1 DEF TooLate
      <3>2. v # u
        BY <1>0, <1>3 DEF GoneInv
      <3>3. v.key \in Key
        <4>1. \A m \in 1..settled : m \in 1..Len(log)
          BY <1>5
        <4>2. \A m \in 1..Len(log) : log[m].key \in Key
          BY <1>0, FlowTypes
        <4> QED
          BY <3>1, <4>1, <4>2
      <3>4. PICK k \in Key : k = v.key
        BY <3>3
      <3>5. ~Among(v, data'[k])
        <4>1. CASE k \notin store
          BY <1>1, <3>1, <3>4, <4>1
        <4>2. CASE k \in store
          <5>1. data[k] \in Seq(Unit) /\ data'[k] = Append(data[k], u)
            BY <1>1, <4>2 DEF TypeOK
          <5>2. /\ Len(data[k]) \in Nat /\ DOMAIN data[k] = 1..Len(data[k])
                /\ DOMAIN data'[k] = 1..(Len(data[k]) + 1)
                /\ \A i \in 1..Len(data[k]) : data'[k][i] = data[k][i]
                /\ data'[k][Len(data[k]) + 1] = u
            BY <1>2, <5>1, AppendAt, LenProperties
          <5>3. \A i \in DOMAIN data'[k] : i \in DOMAIN data[k] \/ i = Len(data[k]) + 1
            BY <5>2
          <5> QED
            BY <3>1, <3>2, <3>4, <5>2, <5>3 DEF Among
        <4> QED
          BY <4>1, <4>2
      <3> QED
        BY <1>1, <2>1, <3>4, <3>5 DEF TooLate
    <2> QED
      BY <1>0, <1>1, <1>5, <2>1, GoneKept
  <1>8. CallInv'
    BY <1>0, <1>1, CallStill
  <1> QED
    BY <1>4, <1>6, <1>7, <1>8 DEF FlowInv

\* The other steps of the connection leave every unit where it is.
LEMMA ConnFlow ==
  ASSUME TypeOK, FlowInv,
         \/ MissSlot \/ BadMessage \/ BrokenFrame
         \/ ReadError \/ WriteError \/ Disconnect \/ UNCHANGED vars
         \/ \E a \in Actors : SetNotReady(a) \/ Close(a) \/ CancelSlots(a)
  PROVE  FlowInv'
  <1> USE DEF queueVars, callVars, readerVars, connVars, historyVars
  <1>1. CASE MissSlot
    <2>1. Passes(Head(inbound))
      BY <1>1 DEF MissSlot, Passes
    <2> QED
      BY <2>1, PassFlow
  <1>2. CASE BadMessage \/ BrokenFrame
    <2>1. Passes(Head(inbound))
      BY <1>2 DEF BadMessage, BrokenFrame, Passes, FromPeer, Answers, Inserts
    <2> QED
      BY <2>1, PassFlow
  <1>3. ASSUME store' = store, data' = data, pc' = pc, callId' = callId, log' = log,
               inbound' = inbound, hand' = hand, rpcIndex' = rpcIndex, sent' = sent,
               consumed' = consumed, result' = result, refused' = refused, pooled' = pooled
        PROVE  FlowInv'
    <2>1. WireInv /\ CallInv /\ GoneInv
      BY DEF FlowInv
    <2>2. CallInv'
      BY <1>3, <2>1, CallStill
    <2> QED
      BY <1>3, <2>2, UnitsStay
  <1>4. CASE ReadError \/ WriteError \/ Disconnect
    BY <1>3, <1>4 DEF ReadError, WriteError, Disconnect
  <1>5. ASSUME NEW a \in Actors, SetNotReady(a) \/ Close(a) \/ CancelSlots(a)
        PROVE  FlowInv'
    BY <1>3, <1>5 DEF SetNotReady, Close, CancelSlots, cancel_all
  <1>6. CASE UNCHANGED vars
    BY <1>3, <1>6 DEF vars
  <1> QED
    BY <1>1, <1>2, <1>4, <1>5, <1>6

\* The flow of units is an inductive invariant, with the types and the slots.
LEMMA FlowStep == TypeOK /\ SlotInv /\ FlowInv /\ [Next]_vars => FlowInv'
  <1> SUFFICES ASSUME TypeOK, SlotInv, FlowInv, [Next]_vars PROVE FlowInv'
    OBVIOUS
  <1>1. ASSUME NEW c \in Callers, BeginCall(c) \/ Notify(c) \/ CallStep(c) \/ Timeout(c)
        PROVE  FlowInv'
    BY <1>1, BeginFlow, MoveFlow, AddFlow, PopFlow DEF CallStep
  <1>2. ASSUME NEW a \in Actors, TearDown(a) PROVE FlowInv'
    BY <1>2, PushAllFlow, ConnFlow DEF TearDown
  <1>3. CASE Dispatch
    BY <1>3, FindFlow, PushFlow, ConnFlow DEF Dispatch
  <1>4. ASSUME NEW k \in Key, NEW kind \in PeerKinds, PeerSends(k, kind) PROVE FlowInv'
    BY <1>4, SendsFlow
  <1>5. CASE ReadError \/ WriteError \/ Disconnect \/ UNCHANGED vars
    BY <1>5, ConnFlow
  <1> QED
    BY <1>1, <1>2, <1>3, <1>4, <1>5 DEF Next

\* At first the peer has sent nothing.
LEMMA FlowInit == Init => FlowInv
  <1> SUFFICES ASSUME Init PROVE FlowInv
    OBVIOUS
  <1>1. /\ log = <<>> /\ inbound = <<>> /\ hand = NoUnit /\ sent = {} /\ refused = {} /\ pooled = {}
        /\ pc = [c \in Callers |-> "idle"]
        /\ consumed = [k \in Key |-> <<>>] /\ data = [k \in Key |-> <<>>]
    BY DEF Init, QueuesInit
  <1>2. taken = 0 /\ settled = 0 /\ DOMAIN <<>> = {} /\ Len(<<>>) = 0
    BY <1>1 DEF taken, settled
  <1>3. WireInv
    BY <1>1, <1>2 DEF WireInv
  <1>4. CallInv /\ GoneInv
    BY <1>1 DEF CallInv, GoneInv
  <1>5. ASSUME NEW k \in Key PROVE SlotUnits(k)
    <2>1. consumed[k] = <<>> /\ data[k] = <<>> /\ 1..settled = {}
      BY <1>1, <1>2
    <2> QED
      BY <1>2, <2>1 DEF SlotUnits, SoundFor
  <1> QED
    BY <1>3, <1>4, <1>5 DEF FlowInv

\* What each call reads is what the peer sent to it, in order and without a
\* gap, for any number of callers, calls and units, through every way the
\* connection can fail.
THEOREM CallsReadInOrder == Spec => []InOrder
  <1>1. TypeOK /\ FlowInv => InOrder
    <2> SUFFICES ASSUME TypeOK, FlowInv, NEW k \in Key,
                        NEW i \in DOMAIN consumed[k], FromPeer(consumed[k][i])
                 PROVE  LET n == consumed[k][i].n IN
                        /\ n \in DOMAIN log /\ log[n] = consumed[k][i] /\ log[n].key = k
                        /\ \A j \in 1..(i - 1) : FromPeer(consumed[k][j]) => consumed[k][j].n < n
                        /\ \A m \in 1..(n - 1) : FromPeer(log[m]) /\ log[m].key = k
                             => \E j \in 1..(i - 1) : consumed[k][j] = log[m]
      BY DEF InOrder
    <2> DEFINE s == consumed[k]
    <2>1. SlotUnits(k) /\ WireInv
      BY DEF FlowInv
    <2>2. s[i].n \in 1..settled /\ s[i] = log[s[i].n] /\ s[i].key = k
      BY <2>1 DEF SlotUnits, SoundFor
    <2>3. DOMAIN log = 1..Len(log) /\ Len(log) \in Nat /\ taken \in 0..Len(log) /\ settled \in 0..taken
      BY <2>1, FlowTypes
    <2>4. s[i].n \in DOMAIN log
      BY <2>2, <2>3
    <2>5. \A j \in 1..(i - 1) : j \in DOMAIN s /\ j < i
      <3>1. DOMAIN s = 1..Len(s) /\ Len(s) \in Nat
        BY LenProperties DEF TypeOK
      <3> QED
        BY <3>1
    <2>6. \A j \in 1..(i - 1) : FromPeer(s[j]) => s[j].n < s[i].n
      BY <2>1, <2>5 DEF SlotUnits, SoundFor
    <2>7. \A m \in 1..(s[i].n - 1) : FromPeer(log[m]) /\ log[m].key = k
            => \E j \in 1..(i - 1) : s[j] = log[m]
      BY <2>1 DEF SlotUnits
    <2> QED
      BY <2>2, <2>4, <2>6, <2>7
  <1> QED
    BY <1>1, FlowInit, FlowStep, SlotInit, SlotStep, TypeCorrect, PTL DEF Spec

\* A unit of the peer is on the wire exactly when it was not taken from it yet,
\* and in the read handler only when it was the last to be taken.
LEMMA WirePlace ==
  ASSUME TypeOK, WireInv, NEW i \in DOMAIN log
  PROVE  /\ Among(log[i], inbound) => i > taken
         /\ log[i] = hand /\ FromPeer(log[i]) => i = taken /\ settled = taken - 1
  <1>1. /\ DOMAIN log = 1..Len(log) /\ Len(log) \in Nat /\ DOMAIN inbound = 1..Len(inbound)
        /\ taken \in 0..Len(log) /\ Len(inbound) \in Nat
        /\ hand # NoUnit => settled = taken - 1 /\ taken \in 1..Len(log)
    BY FlowTypes
  <1>2. \A j \in DOMAIN log : log[j].n = j
    BY DEF WireInv
  <1>3. ASSUME Among(log[i], inbound) PROVE i > taken
    <2>1. PICK j \in DOMAIN inbound : inbound[j] = log[i]
      BY <1>3 DEF Among
    <2>2. taken + j \in DOMAIN log /\ taken + j > taken
      BY <1>1 DEF taken
    <2>3. inbound[j] = log[taken + j]
      BY DEF WireInv
    <2>4. log[i].n = i /\ log[taken + j].n = taken + j
      BY <1>2, <2>2
    <2> QED
      BY <2>1, <2>2, <2>3, <2>4
  <1>4. ASSUME log[i] = hand, FromPeer(log[i]) PROVE i = taken /\ settled = taken - 1
    <2>1. hand # NoUnit
      BY <1>4 DEF FromPeer, NoUnit, Answers, Inserts
    <2>2. taken \in DOMAIN log /\ hand = log[taken] /\ settled = taken - 1
      BY <1>1, <2>1 DEF WireInv
    <2> QED
      BY <1>2, <1>4, <2>2
  <1> QED
    BY <1>3, <1>4

\* A unit that reached its call, or will, is settled, and is read or to be read.
LEMMA SlotPlace ==
  ASSUME TypeOK, FlowInv, NEW i \in DOMAIN log, FromPeer(log[i])
  PROVE  /\ Among(log[i], data[log[i].key]) => i <= settled
         /\ Among(log[i], consumed[log[i].key]) => i <= settled
         /\ ~(Among(log[i], data[log[i].key]) /\ Among(log[i], consumed[log[i].key]))
  <1>0. WireInv
    BY DEF FlowInv
  <1>1. /\ log[i].key \in Key /\ log[i].n = i /\ settled \in Nat /\ i \in Nat
    <2>1. DOMAIN log = 1..Len(log) /\ Len(log) \in Nat /\ taken \in 0..Len(log) /\ settled \in 0..taken
      BY <1>0, FlowTypes
    <2>2. log[i].key \in Key
      BY <1>0, <2>1, FlowTypes
    <2> QED
      BY <1>0, <2>1, <2>2 DEF WireInv
  <1>2. PICK k \in Key : k = log[i].key
    BY <1>1
  <1>3. SlotUnits(k)
    BY DEF FlowInv
  <1>4. Among(log[i], data[k]) => i \in 1..settled
    BY <1>1, <1>3 DEF SlotUnits, SoundFor, Among
  <1>5. Among(log[i], consumed[k]) => i \in 1..settled
    BY <1>1, <1>3 DEF SlotUnits, SoundFor, Among
  <1>6. ASSUME Among(log[i], data[k]), Among(log[i], consumed[k]) PROVE FALSE
    <2>1. PICK a \in DOMAIN consumed[k] : consumed[k][a] = log[i]
      BY <1>6 DEF Among
    <2>2. PICK b \in DOMAIN data[k] : data[k][b] = log[i]
      BY <1>6 DEF Among
    <2>3. log[i].n < log[i].n
      BY <1>3, <2>1, <2>2 DEF SlotUnits
    <2> QED
      BY <1>1, <2>3
  <1> QED
    BY <1>1, <1>2, <1>4, <1>5, <1>6

\* Two places of a unit are the same place.
LEMMA OnePlace ==
  ASSUME TypeOK, FlowInv, NEW i \in DOMAIN log, FromPeer(log[i])
  PROVE  \A p, q \in Places(log[i]) : p = q
  <1> DEFINE u == log[i]
  <1>0. WireInv /\ GoneInv
    BY DEF FlowInv
  <1>1. /\ u.n = i /\ i \in Nat /\ taken \in Nat /\ settled \in Nat /\ settled <= taken
    <2>1. DOMAIN log = 1..Len(log) /\ Len(log) \in Nat /\ taken \in 0..Len(log) /\ settled \in 0..taken
      BY <1>0, FlowTypes
    <2> QED
      BY <1>0, <2>1 DEF WireInv
  <1>2. /\ Among(u, inbound) => i > taken
        /\ u = hand => i = taken /\ settled = taken - 1
    BY <1>0, WirePlace
  <1>3. /\ Among(u, data[u.key]) => i <= settled
        /\ Among(u, consumed[u.key]) => i <= settled
        /\ ~(Among(u, data[u.key]) /\ Among(u, consumed[u.key]))
    BY SlotPlace
  <1>4. /\ u \in refused => u.kind = "insert" /\ i \in 1..settled
                              /\ ~Among(u, data[u.key]) /\ ~Among(u, consumed[u.key])
        /\ u \in pooled => u.kind = "alone" /\ i \in 1..settled
                              /\ ~Among(u, data[u.key]) /\ ~Among(u, consumed[u.key])
    BY <1>0, <1>1 DEF GoneInv, TooLate
  <1> DEFINE wire == Among(u, inbound)  slot == Among(u, data[u.key])
             read == Among(u, consumed[u.key])  held == u = hand
  <1>5. /\ ~(wire /\ held) /\ ~(wire /\ slot) /\ ~(wire /\ read)
        /\ ~(wire /\ u \in refused) /\ ~(wire /\ u \in pooled)
        /\ ~(held /\ slot) /\ ~(held /\ read) /\ ~(held /\ u \in refused) /\ ~(held /\ u \in pooled)
        /\ ~(slot /\ read) /\ ~(slot /\ u \in refused) /\ ~(slot /\ u \in pooled)
        /\ ~(read /\ u \in refused) /\ ~(read /\ u \in pooled)
        /\ ~(u \in refused /\ u \in pooled)
    <2> HIDE DEF u, wire, slot, read, held
    <2>1. /\ wire => i > taken
          /\ held => i = taken /\ settled = taken - 1
          /\ slot => i <= settled
          /\ read => i <= settled
          /\ ~(slot /\ read)
      BY <1>2, <1>3 DEF wire, slot, read, held
    <2>2. /\ u \in refused => u.kind = "insert" /\ i \in 1..settled /\ ~slot /\ ~read
          /\ u \in pooled => u.kind = "alone" /\ i \in 1..settled /\ ~slot /\ ~read
      BY <1>4 DEF slot, read
    <2> QED
      BY <1>1, <2>1, <2>2
  <1>6. \A p \in Places(u) :
          \/ p = "wire" /\ wire
          \/ p = "hand" /\ held
          \/ p = "slot" /\ slot
          \/ p = "taken" /\ read
          \/ p = "refused" /\ u \in refused
          \/ p = "pooled" /\ u \in pooled
    BY DEF Places
  <1> HIDE DEF u, wire, slot, read, held
  <1> SUFFICES ASSUME NEW p \in Places(u), NEW q \in Places(u) PROVE p = q
    BY DEF u
  <1>7. CASE p = "wire" /\ wire
    BY <1>5, <1>6, <1>7
  <1>8. CASE p = "hand" /\ held
    BY <1>5, <1>6, <1>8
  <1>9. CASE p = "slot" /\ slot
    BY <1>5, <1>6, <1>9
  <1>10. CASE p = "taken" /\ read
    BY <1>5, <1>6, <1>10
  <1>11. CASE p = "refused" /\ u \in refused
    BY <1>5, <1>6, <1>11
  <1>12. CASE p = "pooled" /\ u \in pooled
    BY <1>5, <1>6, <1>12
  <1> QED
    BY <1>6, <1>7, <1>8, <1>9, <1>10, <1>11, <1>12

\* An insertion ends in one place, for any number of callers, calls and units:
\* the call's thread ran it, or it was refused, or run in the pool, and the
\* last two only when the call was over.
THEOREM CallbacksRunOnce == Spec => []CallbackFate
  <1>1. TypeOK /\ FlowInv => CallbackFate
    <2> SUFFICES ASSUME TypeOK, FlowInv, NEW i \in DOMAIN log, log[i].kind \in Inserts
                 PROVE  /\ Cardinality(Places(log[i])) <= 1
                        /\ Places(log[i]) \cap {"refused", "pooled"} # {}
                             => result[log[i].key] # "none"
      BY DEF CallbackFate
    <2> DEFINE P == Places(log[i])
    <2>1. \A p, q \in P : p = q
      BY OnePlace DEF FromPeer
    <2>2. P \cap {"refused", "pooled"} # {} => log[i] \in refused \cup pooled
      BY DEF Places
    <2>3. log[i] \in refused \cup pooled => result[log[i].key] # "none"
      BY DEF FlowInv, GoneInv, TooLate
    <2> HIDE DEF P
    <2>4. Cardinality(P) <= 1
      <3>1. CASE P = {}
        BY <3>1, FS_EmptySet
      <3>2. CASE P # {}
        <4>1. PICK p \in P : TRUE
          BY <3>2
        <4>2. P = {p}
          BY <2>1, <4>1
        <4>3. Cardinality({p}) = 1
          BY FS_Singleton
        <4> QED
          BY <4>2, <4>3
      <3> QED
        BY <3>1, <3>2
    <2> QED
      BY <2>2, <2>3, <2>4 DEF P
  <1> QED
    BY <1>1, FlowInit, FlowStep, SlotInit, SlotStep, TypeCorrect, PTL DEF Spec

(***************************************************************************)
(* The connections of a client.  v1 client, v2 connection_, v3 made, v4    *)
(* kind, v5 keep, v6 socket, v7 ready, v8 told, v9 reads, v10 ops, v11     *)
(* call, v12 closures, v13 dangling, v14 replaced, v15 blamed.             *)
(***************************************************************************)

\* The types; nothing is known of a connection that was not made.
ClientTypes ==
  /\ v1 \in BOOLEAN /\ v3 \in 0..MaxConns /\ v2 \in 0..v3
  /\ v4 \in [1..MaxConns -> Client!Kinds]
  /\ v5 \in [1..MaxConns -> SUBSET {"frame", "user", "handler"}]
  /\ v9 \subseteq 1..v3
  /\ v10 \subseteq (1..v3) \X {"connect", "handshake"}
  /\ v11 \in [does : {"nothing", "connect", "async", "wait", "failed"}, on : 0..v3]
  /\ v12 \in [1..MaxConns -> 0..1] /\ \A n \in 1..MaxConns : n > v3 => v12[n] = 0
  /\ v14 \subseteq 1..v3

\* A connection of the client is the present one, or was replaced.
Placed == \A n \in 1..v3 : v4[n] # "posix" => n = v2 \/ n \in v14

\* The handler of an unfinished connect keeps its connection, which has one such
\* handler; its closure was not called.
Unfinished ==
  \A n \in 1..v3 :
    /\ \A s \in {"connect", "handshake"} :
         <<n, s>> \in v10 => v5[n] = {"handler"} /\ v12[n] = 0 /\ v4[n] # "posix" /\ n \notin v9
    /\ ~(<<n, "connect">> \in v10 /\ <<n, "handshake">> \in v10)

\* A call of the user keeps its connection, which is that of the client.
CallHolds ==
  v11.does # "nothing" =>
    /\ v1 /\ v11.on \in 1..v3 /\ v5[v11.on] = {"frame"}
    /\ v4[v11.on] # "posix" => v2 = v11.on
    /\ v11.does # "connect" => v4[v11.on] # "posix"
    /\ v11.does \in {"connect", "async"} => v11.on \notin v9
    /\ v11.does = "async" => v12[v11.on] = 0

\* Nobody but the call of the user keeps a connection that reads.
ReadKeepsNothing == \A n \in v9 : v5[n] = {} \/ (v11.does # "nothing" /\ n = v11.on)

\* A connect was ended only by an async_connect that was replaced, and that one was told.
BlamedInv == \A n \in v15 : n \in 1..v3 /\ n \in v14 /\ v12[n] = 1

\* What was followed after it was freed: a read of a connection that was replaced, or that
\* no client owns, and the client of a connect that came too late.
DanglingInv ==
  \A d \in v13 :
    \/ d[2] = "read" /\ d[1] \in 1..v3 /\ (d[1] \in v14 \/ v4[d[1]] = "posix")
    \/ d[2] = "client" /\ ~v1

\* The inductive invariant of the client.
ClientInv ==
  /\ ClientTypes /\ Placed /\ Unfinished /\ CallHolds /\ ReadKeepsNothing /\ BlamedInv /\ DanglingInv

\* A client without a connection.
LEMMA ClientStart ==
  ASSUME Client!Init
  PROVE  ClientInv
  <1>1. /\ v1 = TRUE /\ v2 = 0 /\ v3 = 0 /\ v4 = [n \in 1..MaxConns |-> "tcp"]
        /\ v5 = [n \in 1..MaxConns |-> {}] /\ v9 = {} /\ v10 = {}
        /\ v11 = [does |-> "nothing", on |-> 0] /\ v12 = [n \in 1..MaxConns |-> 0]
        /\ v13 = {} /\ v14 = {} /\ v15 = {}
    BY DEF Client!Init, Client!Conns, Client!None, Client!NoCall
  <1>2. v1 \in BOOLEAN
    BY <1>1, Zenon
  <1>3. v11 \in [does : {"nothing", "connect", "async", "wait", "failed"}, on : 0..v3] /\ v11.does = "nothing"
    BY <1>1
  <1>4. ClientTypes
    BY <1>1, <1>2, <1>3, BoundsAssumption DEF ClientTypes, Client!Kinds
  <1> QED
    BY <1>1, <1>3, <1>4 DEF ClientInv, Placed, Unfinished, CallHolds, ReadKeepsNothing, BlamedInv, DanglingInv

\* What a failure of connection n may do to the call of the user.
Fails(n) ==
  /\ \/ v11' = v11
     \/ v11.does = "wait" /\ v11' = [does |-> "failed", on |-> v11.on]
  /\ \/ v15' = v15
     \/ v11.does = "wait" /\ v11.on # n /\ v15' = v15 \cup {n}

\* on_init_error.
LEMMA ClientFails ==
  ASSUME ClientInv, NEW n, Client!InitError(n) \/ UNCHANGED <<v11, v15>>
  PROVE  Fails(n)
  <1>1. v11 \in [does : {"nothing", "connect", "async", "wait", "failed"}, on : 0..v3]
    BY DEF ClientInv, ClientTypes
  <1>2. [v11 EXCEPT !.does = "failed"] = [does |-> "failed", on |-> v11.on]
    BY <1>1
  <1> QED
    BY <1>2 DEF Client!InitError, Fails

\* close reports as on_init_error does.
LEMMA ClientCloses ==
  ASSUME ClientInv, NEW n, Client!close(n)
  PROVE  Fails(n)
  BY ClientFails DEF Client!close

\* A call that may have failed still holds its connection.
LEMMA CallStays ==
  ASSUME ClientInv, NEW n, Fails(n)
  PROVE  /\ v11' \in [does : {"nothing", "connect", "async", "wait", "failed"}, on : 0..v3]
         /\ v11'.on = v11.on
         /\ v11'.does = "nothing" <=> v11.does = "nothing"
         /\ v11'.does \in {"connect", "async"} => v11'.does = v11.does
         /\ v11'.does = "wait" => v11.does = "wait"
         /\ v11'.does = "failed" => v11.does \in {"wait", "failed"}
  <1>1. v11 \in [does : {"nothing", "connect", "async", "wait", "failed"}, on : 0..v3]
    BY DEF ClientInv, ClientTypes
  <1>2. CASE v11' = v11
    BY <1>1, <1>2
  <1>3. CASE v11.does = "wait" /\ v11' = [does |-> "failed", on |-> v11.on]
    BY <1>1, <1>3
  <1> QED
    BY <1>2, <1>3 DEF Fails

\* A read ends, with or without a close.
LEMMA ClientReads ==
  ASSUME ClientInv, NEW n \in v9, v9' \subseteq v9, Fails(n), v11.does = "wait" => v15' = v15,
         UNCHANGED <<v1, v2, v3, v4, v5, v10, v12, v14>>,
         \/ v13' = v13
         \/ v1 /\ ~Client!Alive(n) /\ v13' = v13 \cup {<<n, "read">>}
  PROVE  ClientInv'
  <1>1. v15' = v15
    BY DEF Fails
  <1>2. ClientTypes'
    BY CallStays DEF ClientInv, ClientTypes
  <1>3. Placed' /\ Unfinished'
    BY DEF ClientInv, Placed, Unfinished
  <1>4. CallHolds' /\ ReadKeepsNothing'
    BY CallStays DEF ClientInv, CallHolds, ReadKeepsNothing
  <1>5. BlamedInv'
    BY <1>1 DEF ClientInv, BlamedInv
  <1>6. DanglingInv'
    <2>1. CASE v13' = v13
      BY <2>1 DEF ClientInv, DanglingInv
    <2>2. CASE v1 /\ ~Client!Alive(n) /\ v13' = v13 \cup {<<n, "read">>}
      <3>1. n \in 1..v3
        BY DEF ClientInv, ClientTypes
      <3>2. v2 # n
        BY <2>2 DEF Client!Alive
      <3>3. n \in v14 \/ v4[n] = "posix"
        BY <3>1, <3>2 DEF ClientInv, Placed
      <3> QED
        BY <2>2, <3>1, <3>3 DEF ClientInv, DanglingInv
    <2> QED
      BY <2>1, <2>2
  <1> QED
    BY <1>2, <1>3, <1>4, <1>5, <1>6 DEF ClientInv

\* While a connect waits, its connection is the only one that reads and is alive.
LEMMA ReadsAlone ==
  ASSUME ClientInv, v11.does = "wait", NEW n \in v9, Client!Alive(n)
  PROVE  v11.on = n
  BY DEF ClientInv, CallHolds, ReadKeepsNothing, Client!Alive

\* create_client: a connection is made and the frame of the call keeps it.
LEMMA ClientCreates ==
  ASSUME ClientInv, NEW k \in Client!Kinds, NEW does \in {"connect", "async"}, Client!create_client(k, does)
  PROVE  ClientInv'
  <1> DEFINE n == v3 + 1
  <1>1. /\ v11 = [does |-> "nothing", on |-> 0] /\ v1 /\ v3 < MaxConns /\ (k = "posix" => does = "connect")
        /\ v3' = n /\ v4' = [v4 EXCEPT ![n] = k] /\ v5' = [v5 EXCEPT ![n] = {"frame"}]
        /\ v11' = [does |-> does, on |-> n]
        /\ UNCHANGED <<v1, v9, v10, v12, v13, v15>>
    BY DEF Client!create_client, Client!Idle, Client!NoCall, Client!None
  <1>2. \/ k = "posix" /\ v2' = v2 /\ v14' = v14
        \/ k # "posix" /\ v2' = n /\ v14' = v14 \cup ({v2} \ {0})
    BY DEF Client!create_client, Client!None
  <1>3. /\ v3 \in Nat /\ v3 \in 0..MaxConns /\ n \in 1..MaxConns /\ v2 \in 0..v3 /\ n \notin 1..v3
        /\ 1..n = 1..v3 \cup {n} /\ n \in Nat
    BY <1>1, BoundsAssumption DEF ClientInv, ClientTypes
  <1>4. /\ v4 \in [1..MaxConns -> Client!Kinds]
        /\ v5 \in [1..MaxConns -> SUBSET {"frame", "user", "handler"}]
    BY DEF ClientInv, ClientTypes
  <1>5. /\ v4' \in [1..MaxConns -> Client!Kinds] /\ v4'[n] = k
        /\ v5' \in [1..MaxConns -> SUBSET {"frame", "user", "handler"}] /\ v5'[n] = {"frame"}
        /\ \A m \in 1..v3 : m \in 1..MaxConns /\ m # n /\ v4'[m] = v4[m] /\ v5'[m] = v5[m]
    <2> HIDE DEF n
    <2>1. \A m \in 1..v3 : m \in 1..MaxConns /\ m # n
      BY <1>3, BoundsAssumption
    <2> QED
      BY <1>1, <1>3, <1>4, <2>1
  <1>6. v11'.does = does /\ v11'.on = n /\ v11.does = "nothing"
    BY <1>1
  <1>7. v11' \in [does : {"nothing", "connect", "async", "wait", "failed"}, on : 0..n]
    BY <1>1, <1>3
  <1>14. n > v3 /\ \A m \in 1..MaxConns : m > n => m > v3
    BY <1>3
  <1> HIDE DEF n
  <1>8. ClientTypes'
    <2>1. v2' \in 0..n /\ v14' \subseteq 1..n
      BY <1>2, <1>3 DEF ClientInv, ClientTypes
    <2>2. v9' \subseteq 1..n /\ v10' \subseteq (1..n) \X {"connect", "handshake"}
      BY <1>1, <1>3 DEF ClientInv, ClientTypes
    <2>3. v3' \in 0..MaxConns
      BY <1>1, <1>3
    <2> QED
      BY <1>1, <1>5, <1>7, <1>14, <2>1, <2>2, <2>3 DEF ClientInv, ClientTypes
  <1>9. Placed'
    <2>1. \A m \in 1..v3 : v4[m] # "posix" => m = v2' \/ m \in v14'
      BY <1>2, <1>3 DEF ClientInv, Placed
    <2> QED
      BY <1>1, <1>2, <1>3, <1>5, <2>1 DEF Placed
  <1>10. Unfinished'
    <2>1. \A s : <<n, s>> \notin v10
      BY <1>3 DEF ClientInv, ClientTypes
    <2> QED
      BY <1>1, <1>3, <1>5, <2>1 DEF ClientInv, Unfinished
  <1>11. CallHolds'
    <2>1. n \notin v9
      BY <1>3 DEF ClientInv, ClientTypes
    <2>2. v12[n] = 0
      BY <1>3, <1>14 DEF ClientInv, ClientTypes
    <2> QED
      BY <1>1, <1>2, <1>3, <1>5, <1>6, <2>1, <2>2 DEF CallHolds
  <1>12. ReadKeepsNothing'
    BY <1>1, <1>5, <1>6 DEF ClientInv, ClientTypes, ReadKeepsNothing
  <1>13. BlamedInv' /\ DanglingInv'
    BY <1>1, <1>2, <1>3, <1>5 DEF ClientInv, BlamedInv, DanglingInv
  <1> QED
    BY <1>8, <1>9, <1>10, <1>11, <1>12, <1>13 DEF ClientInv

\* init_protocol: the client gives up its connection for the new one.
LEMMA ClientInstalls ==
  ASSUME ClientInv, Client!init_protocol
  PROVE  ClientInv'
  <1> DEFINE n == v3 + 1
  <1>1. /\ v11 = [does |-> "nothing", on |-> 0] /\ v1 /\ v3 < MaxConns
        /\ v3' = n /\ v4' = [v4 EXCEPT ![n] = "custom"] /\ v5' = [v5 EXCEPT ![n] = {"user"}]
        /\ v2' = n /\ v14' = v14 \cup ({v2} \ {0})
        /\ UNCHANGED <<v1, v9, v10, v11, v12, v13, v15>>
    BY DEF Client!init_protocol, Client!Idle, Client!NoCall, Client!None
  <1>3. /\ v3 \in Nat /\ v3 \in 0..MaxConns /\ n \in 1..MaxConns /\ v2 \in 0..v3 /\ n \notin 1..v3
        /\ 1..n = 1..v3 \cup {n} /\ n \in Nat
    BY <1>1, BoundsAssumption DEF ClientInv, ClientTypes
  <1>4. /\ v4 \in [1..MaxConns -> Client!Kinds]
        /\ v5 \in [1..MaxConns -> SUBSET {"frame", "user", "handler"}] /\ "custom" \in Client!Kinds
    BY DEF ClientInv, ClientTypes, Client!Kinds
  <1>5. /\ v4' \in [1..MaxConns -> Client!Kinds] /\ v4'[n] = "custom"
        /\ v5' \in [1..MaxConns -> SUBSET {"frame", "user", "handler"}] /\ v5'[n] = {"user"}
        /\ \A m \in 1..v3 : m \in 1..MaxConns /\ m # n /\ v4'[m] = v4[m] /\ v5'[m] = v5[m]
    <2> HIDE DEF n
    <2>1. \A m \in 1..v3 : m \in 1..MaxConns /\ m # n
      BY <1>3, BoundsAssumption
    <2> QED
      BY <1>1, <1>3, <1>4, <2>1
  <1>6. v11.does = "nothing" /\ v11' \in [does : {"nothing", "connect", "async", "wait", "failed"}, on : 0..n]
    BY <1>1, <1>3
  <1>7. n > v3 /\ \A m \in 1..MaxConns : m > n => m > v3
    BY <1>3
  <1> HIDE DEF n
  <1>8. ClientTypes'
    <2>1. v2' \in 0..n /\ v14' \subseteq 1..n
      BY <1>1, <1>3 DEF ClientInv, ClientTypes
    <2>2. v9' \subseteq 1..n /\ v10' \subseteq (1..n) \X {"connect", "handshake"}
      BY <1>1, <1>3 DEF ClientInv, ClientTypes
    <2>3. v3' \in 0..MaxConns
      BY <1>1, <1>3
    <2> QED
      BY <1>1, <1>5, <1>6, <1>7, <2>1, <2>2, <2>3 DEF ClientInv, ClientTypes
  <1>9. Placed'
    <2>1. \A m \in 1..v3 : v4[m] # "posix" => m = v2' \/ m \in v14'
      BY <1>1, <1>3 DEF ClientInv, Placed
    <2> QED
      BY <1>1, <1>3, <1>5, <2>1 DEF Placed
  <1>10. Unfinished'
    <2>1. \A s : <<n, s>> \notin v10
      BY <1>3 DEF ClientInv, ClientTypes
    <2> QED
      BY <1>1, <1>3, <1>5, <2>1 DEF ClientInv, Unfinished
  <1>11. CallHolds'
    BY <1>1, <1>6 DEF CallHolds
  <1>12. ReadKeepsNothing'
    BY <1>1, <1>5, <1>6 DEF ClientInv, ClientTypes, ReadKeepsNothing
  <1>13. BlamedInv' /\ DanglingInv'
    BY <1>1, <1>3, <1>5 DEF ClientInv, BlamedInv, DanglingInv
  <1> QED
    BY <1>8, <1>9, <1>10, <1>11, <1>12, <1>13 DEF ClientInv

\* What holds of the connection of the user's call.
LEMMA CallOn ==
  ASSUME ClientInv, v11.does # "nothing"
  PROVE  /\ v1 /\ v11.on \in 1..v3 /\ v11.on \in 1..MaxConns /\ v5[v11.on] = {"frame"}
         /\ v3 \in 0..MaxConns
         /\ v11 \in [does : {"nothing", "connect", "async", "wait", "failed"}, on : 0..v3]
         /\ \A s : <<v11.on, s>> \notin v10
  <1>1. /\ v1 /\ v11.on \in 1..v3 /\ v5[v11.on] = {"frame"} /\ v3 \in 0..MaxConns
        /\ v11 \in [does : {"nothing", "connect", "async", "wait", "failed"}, on : 0..v3]
        /\ v10 \subseteq (1..v3) \X {"connect", "handshake"}
    BY DEF ClientInv, ClientTypes, CallHolds
  <1>2. v11.on \in 1..MaxConns
    BY <1>1, BoundsAssumption
  <1>3. ASSUME NEW s, <<v11.on, s>> \in v10 PROVE FALSE
    <2>1. s \in {"connect", "handshake"}
      BY <1>1, <1>3
    <2>2. v5[v11.on] = {"handler"}
      BY <1>1, <1>3, <2>1 DEF ClientInv, Unfinished
    <2> QED
      BY <1>1, <2>2
  <1> QED
    BY <1>1, <1>2, <1>3

\* A call of the user returns and lets its connection go, which may read, and whose
\* closure may have been called.
LEMMA CallReturns ==
  ASSUME ClientInv, v11.does # "nothing", Client!Returns, Client!Lets(v11.on, "frame"),
         v9' \in {v9, v9 \cup {v11.on}},
         v12' = v12 \/ (v11.does = "async" /\ v12' = [v12 EXCEPT ![v11.on] = @ + 1]),
         UNCHANGED <<v1, v2, v3, v4, v10, v13, v14, v15>>
  PROVE  ClientInv'
  <1> DEFINE n == v11.on
  <1>1. n \in 1..v3 /\ n \in 1..MaxConns /\ v5[n] = {"frame"} /\ \A s : <<n, s>> \notin v10
    BY CallOn
  <1>2. v11' = [does |-> "nothing", on |-> 0] /\ v5' = [v5 EXCEPT ![n] = @ \ {"frame"}]
    BY DEF Client!Returns, Client!NoCall, Client!None, Client!Lets
  <1>3. v11'.does = "nothing" /\ v11'.on = 0
    BY <1>2
  <1>4. /\ v5 \in [1..MaxConns -> SUBSET {"frame", "user", "handler"}] /\ v3 \in 0..MaxConns
        /\ v12 \in [1..MaxConns -> 0..1]
    BY DEF ClientInv, ClientTypes
  <1> HIDE DEF n
  <1>5. /\ v5' \in [1..MaxConns -> SUBSET {"frame", "user", "handler"}] /\ v5'[n] = {}
        /\ \A m \in 1..MaxConns : m # n => v5'[m] = v5[m]
    BY <1>1, <1>2, <1>4
  <1>6. \/ v12' = v12
        \/ /\ v12[n] = 0 /\ v12'[n] = 1 /\ v12' \in [1..MaxConns -> 0..1]
           /\ \A m \in 1..MaxConns : m # n => v12'[m] = v12[m]
    <2>1. v11.does = "async" => v12[n] = 0
      BY DEF ClientInv, CallHolds, n
    <2>2. v12' = v12 \/ (v11.does = "async" /\ v12' = [v12 EXCEPT ![n] = v12[n] + 1])
      BY DEF n
    <2> QED
      <3>1. CASE v12' = v12
        BY <3>1
      <3>2. CASE v12[n] = 0 /\ v12' = [v12 EXCEPT ![n] = v12[n] + 1]
        <4>1. v12' = [v12 EXCEPT ![n] = 1]
          BY <3>2
        <4> QED
          BY <1>1, <1>4, <3>2, <4>1
      <3> QED
        BY <2>1, <2>2, <3>1, <3>2
  <1>7. \A m \in 1..v3 : m \in 1..MaxConns
    BY <1>4, BoundsAssumption
  <1>8. v9' \in {v9, v9 \cup {n}}
    BY DEF n
  <1>9. ClientTypes'
    <2>1. v11' \in [does : {"nothing", "connect", "async", "wait", "failed"}, on : 0..v3]
      BY <1>2, <1>4, BoundsAssumption
    <2>2. v12' \in [1..MaxConns -> 0..1] /\ \A m \in 1..MaxConns : m > v3 => v12'[m] = 0
      <3>1. ~(n > v3)
        BY <1>1, <1>4
      <3> QED
        BY <1>4, <1>6, <3>1 DEF ClientInv, ClientTypes
    <2>3. v9' \subseteq 1..v3
      BY <1>1, <1>8 DEF ClientInv, ClientTypes
    <2> QED
      BY <1>5, <2>1, <2>2, <2>3 DEF ClientInv, ClientTypes
  <1>10. Placed'
    BY DEF ClientInv, Placed
  <1>11. Unfinished'
    BY <1>1, <1>5, <1>6, <1>7, <1>8 DEF ClientInv, Unfinished
  <1>12. CallHolds'
    BY <1>3 DEF CallHolds
  <1>13. ReadKeepsNothing'
    <2>1. \A m \in v9 : m \in 1..MaxConns
      BY <1>7 DEF ClientInv, ClientTypes
    <2>2. \A m \in v9 : m # n => v5[m] = {}
      BY DEF ClientInv, ReadKeepsNothing, n
    <2> QED
      BY <1>5, <1>8, <2>1, <2>2 DEF ReadKeepsNothing
  <1>14. BlamedInv'
    BY <1>6, <1>7 DEF ClientInv, BlamedInv
  <1>15. DanglingInv'
    BY DEF ClientInv, DanglingInv
  <1> QED
    BY <1>9, <1>10, <1>11, <1>12, <1>13, <1>14, <1>15 DEF ClientInv

\* connect of the transport.
LEMMA ClientConnects ==
  ASSUME ClientInv, Client!connect
  PROVE  ClientInv'
  <1>1. v11.does = "connect" /\ UNCHANGED <<v1, v2, v3, v4, v10, v12, v13, v14, v15>>
    BY DEF Client!connect, Client!History
  <1>2. CASE Client!Returns /\ Client!Lets(v11.on, "frame") /\ v9' \in {v9, v9 \cup {v11.on}}
    BY <1>1, <1>2, CallReturns
  <1>3. CASE /\ v9' = v9 \cup {v11.on} /\ v4[v11.on] # "posix"
             /\ v11' = [v11 EXCEPT !.does = "wait"] /\ v5' = v5
    <2>1. /\ v11.on \in 1..v3 /\ \A s : <<v11.on, s>> \notin v10
          /\ v11 \in [does : {"nothing", "connect", "async", "wait", "failed"}, on : 0..v3]
      BY <1>1, CallOn
    <2>2. /\ v11' \in [does : {"nothing", "connect", "async", "wait", "failed"}, on : 0..v3]
          /\ v11'.does = "wait" /\ v11'.on = v11.on
      BY <1>3, <2>1
    <2>3. ClientTypes'
      BY <1>1, <1>3, <2>1, <2>2 DEF ClientInv, ClientTypes
    <2>4. Placed' /\ BlamedInv' /\ DanglingInv'
      BY <1>1 DEF ClientInv, Placed, BlamedInv, DanglingInv
    <2>5. Unfinished'
      BY <1>1, <1>3, <2>1 DEF ClientInv, Unfinished
    <2>6. CallHolds' /\ ReadKeepsNothing'
      BY <1>1, <1>3, <2>1, <2>2 DEF ClientInv, CallHolds, ReadKeepsNothing
    <2> QED
      BY <2>3, <2>4, <2>5, <2>6 DEF ClientInv
  <1> QED
    BY <1>2, <1>3 DEF Client!connect, Client!Opens

\* async_connect binds its handler to the connection.
LEMMA ClientBegins ==
  ASSUME ClientInv, Client!async_connect
  PROVE  ClientInv'
  <1> DEFINE n == v11.on
  <1>1. /\ v11.does = "async" /\ v10' = v10 \cup {<<n, "connect">>} /\ v5' = [v5 EXCEPT ![n] = {"handler"}]
        /\ v11' = [does |-> "nothing", on |-> 0]
        /\ UNCHANGED <<v1, v2, v3, v4, v9, v12, v13, v14, v15>>
    BY DEF Client!async_connect, Client!Returns, Client!NoCall, Client!None, Client!History
  <1>2. n \in 1..v3 /\ n \in 1..MaxConns /\ \A s : <<n, s>> \notin v10
    BY <1>1, CallOn
  <1>3. v12[n] = 0 /\ v4[n] # "posix" /\ n \notin v9
    BY <1>1 DEF ClientInv, CallHolds
  <1>4. v5 \in [1..MaxConns -> SUBSET {"frame", "user", "handler"}] /\ v3 \in 0..MaxConns
    BY DEF ClientInv, ClientTypes
  <1>5. v11'.does = "nothing"
    BY <1>1
  <1>6. \A m \in 1..v3 : m \in 1..MaxConns
    BY <1>4, BoundsAssumption
  <1> HIDE DEF n
  <1>7. /\ v5' \in [1..MaxConns -> SUBSET {"frame", "user", "handler"}] /\ v5'[n] = {"handler"}
        /\ \A m \in 1..MaxConns : m # n => v5'[m] = v5[m]
    BY <1>1, <1>2, <1>4
  <1>8. ClientTypes'
    <2>1. v11' \in [does : {"nothing", "connect", "async", "wait", "failed"}, on : 0..v3]
      BY <1>1, <1>4, BoundsAssumption
    <2>2. v10' \subseteq (1..v3) \X {"connect", "handshake"}
      BY <1>1, <1>2 DEF ClientInv, ClientTypes
    <2> QED
      BY <1>1, <1>7, <2>1, <2>2 DEF ClientInv, ClientTypes
  <1>9. Placed' /\ BlamedInv' /\ DanglingInv'
    BY <1>1 DEF ClientInv, Placed, BlamedInv, DanglingInv
  <1>10. Unfinished'
    BY <1>1, <1>2, <1>3, <1>6, <1>7 DEF ClientInv, Unfinished
  <1>11. CallHolds'
    BY <1>5 DEF CallHolds
  <1>12. ReadKeepsNothing'
    <2>1. \A m \in v9 : m \in 1..MaxConns
      BY <1>6 DEF ClientInv, ClientTypes
    <2>2. \A m \in v9 : m # n => v5[m] = {}
      BY DEF ClientInv, ReadKeepsNothing, n
    <2> QED
      BY <1>1, <1>3, <1>7, <2>1, <2>2 DEF ReadKeepsNothing
  <1> QED
    BY <1>8, <1>9, <1>10, <1>11, <1>12 DEF ClientInv

\* An asynchronous connect ends: its handler lets the connection go and calls the
\* closure.
LEMMA ClientEnds ==
  ASSUME ClientInv, NEW n \in 1..MaxConns, NEW s \in {"connect", "handshake"}, <<n, s>> \in v10,
         v10' = v10 \ {<<n, s>>}, Client!Lets(n, "handler"), v9' \in {v9, v9 \cup {n}},
         v12' = [v12 EXCEPT ![n] = @ + 1], Client!Touches(n, "connect"), Fails(n),
         UNCHANGED <<v1, v2, v3, v4, v14>>
  PROVE  ClientInv'
  <1>1. n \in 1..v3 /\ v3 \in 0..MaxConns
    BY DEF ClientInv, ClientTypes
  <1>2. /\ v5[n] = {"handler"} /\ v12[n] = 0 /\ v4[n] # "posix" /\ n \notin v9
        /\ ~(<<n, "connect">> \in v10 /\ <<n, "handshake">> \in v10)
    BY <1>1 DEF ClientInv, Unfinished
  <1>3. v5 \in [1..MaxConns -> SUBSET {"frame", "user", "handler"}] /\ v12 \in [1..MaxConns -> 0..1]
    BY DEF ClientInv, ClientTypes
  <1>4. /\ v5' \in [1..MaxConns -> SUBSET {"frame", "user", "handler"}] /\ v5'[n] = {}
        /\ \A m \in 1..MaxConns : m # n => v5'[m] = v5[m]
    BY <1>2, <1>3 DEF Client!Lets
  <1>5. /\ v12' \in [1..MaxConns -> 0..1] /\ v12'[n] = 1
        /\ \A m \in 1..MaxConns : m # n => v12'[m] = v12[m]
    BY <1>2, <1>3
  <1>6. \A m \in 1..v3 : m \in 1..MaxConns
    BY <1>1, BoundsAssumption
  <1>7. v11.does # "nothing" => v11.on # n /\ v11.on \in 1..MaxConns
    BY <1>2, CallOn
  <1>8. ClientTypes'
    <2>1. \A m \in 1..MaxConns : m > v3 => m # n
      BY <1>1
    <2>2. \A m \in 1..MaxConns : m > v3 => v12'[m] = 0
      BY <1>5, <2>1 DEF ClientInv, ClientTypes
    <2>3. v9' \subseteq 1..v3 /\ v10' \subseteq (1..v3) \X {"connect", "handshake"}
      BY <1>1 DEF ClientInv, ClientTypes
    <2> QED
      BY <1>4, <1>5, <2>2, <2>3, CallStays DEF ClientInv, ClientTypes
  <1>9. Placed'
    BY DEF ClientInv, Placed
  <1>10. Unfinished'
    <2>1. \A r \in {"connect", "handshake"} : <<n, r>> \notin v10'
      BY <1>2
    <2>2. \A m \in 1..v3, r \in {"connect", "handshake"} : m # n =>
            (<<m, r>> \in v10' <=> <<m, r>> \in v10) /\ (m \in v9' <=> m \in v9)
      OBVIOUS
    <2> QED
      BY <1>4, <1>5, <1>6, <2>1, <2>2 DEF ClientInv, Unfinished
  <1>11. CallHolds'
    BY <1>4, <1>5, <1>7, CallStays DEF ClientInv, CallHolds
  <1>12. ReadKeepsNothing'
    <2>1. \A m \in v9 : m \in 1..MaxConns
      BY <1>6 DEF ClientInv, ClientTypes
    <2> QED
      BY <1>2, <1>4, <2>1, CallStays DEF ClientInv, ReadKeepsNothing
  <1>13. BlamedInv'
    <2>1. \A m \in v15 : m \in 1..v3 /\ m \in v14 /\ v12'[m] = 1
      BY <1>5, <1>6 DEF ClientInv, BlamedInv
    <2>2. v11.does = "wait" /\ v11.on # n => n \in v14
      BY <1>1, <1>2, <1>7 DEF ClientInv, CallHolds, Placed
    <2> QED
      BY <1>1, <1>5, <2>1, <2>2 DEF BlamedInv, Fails
  <1>14. DanglingInv'
    <2>1. Client!Alive(n)
      BY <1>2 DEF Client!Alive
    <2>2. v13' = v13 \cup (IF v1 THEN {} ELSE {<<n, "client">>})
      BY <2>1 DEF Client!Touches
    <2> QED
      BY <2>2 DEF ClientInv, DanglingInv
  <1> QED
    BY <1>8, <1>9, <1>10, <1>11, <1>12, <1>13, <1>14 DEF ClientInv

\* The TCP connect of ssl is done, and the TLS handshake begins.
LEMMA ClientShakes ==
  ASSUME ClientInv, NEW n \in 1..MaxConns, <<n, "connect">> \in v10,
         v10' = (v10 \ {<<n, "connect">>}) \cup {<<n, "handshake">>}, Client!Touches(n, "connect"),
         UNCHANGED <<v1, v2, v3, v4, v5, v9, v11, v12, v14, v15>>
  PROVE  ClientInv'
  <1>1. n \in 1..v3 /\ v10 \subseteq (1..v3) \X {"connect", "handshake"}
    BY DEF ClientInv, ClientTypes
  <1>2. /\ v5[n] = {"handler"} /\ v12[n] = 0 /\ v4[n] # "posix" /\ n \notin v9
    BY <1>1 DEF ClientInv, Unfinished
  <1>3. ClientTypes'
    <2>1. v10' \subseteq (1..v3) \X {"connect", "handshake"}
      BY <1>1
    <2> QED
      BY <2>1 DEF ClientInv, ClientTypes
  <1>4. Placed' /\ CallHolds' /\ ReadKeepsNothing' /\ BlamedInv'
    BY DEF ClientInv, Placed, CallHolds, ReadKeepsNothing, BlamedInv
  <1>5. Unfinished'
    BY <1>2 DEF ClientInv, Unfinished
  <1>6. DanglingInv'
    <2>1. Client!Alive(n)
      BY <1>2 DEF Client!Alive
    <2>2. v13' = v13 \cup (IF v1 THEN {} ELSE {<<n, "client">>})
      BY <2>1 DEF Client!Touches
    <2> QED
      BY <2>2 DEF ClientInv, DanglingInv
  <1> QED
    BY <1>3, <1>4, <1>5, <1>6 DEF ClientInv

\* The client is destroyed under whatever is under way.
LEMMA ClientGoes ==
  ASSUME ClientInv, Client!Destroy
  PROVE  ClientInv'
  <1>1. /\ v11 = [does |-> "nothing", on |-> 0] /\ v1' = FALSE
        /\ UNCHANGED <<v2, v3, v4, v5, v9, v10, v11, v12, v13, v14, v15>>
    BY DEF Client!Destroy, Client!Idle, Client!NoCall, Client!None, Client!History
  <1>2. v11.does = "nothing" /\ v1' \in BOOLEAN /\ ~v1'
    BY <1>1, Zenon
  <1>3. ClientTypes'
    BY <1>1, <1>2 DEF ClientInv, ClientTypes
  <1> QED
    BY <1>1, <1>2, <1>3 DEF ClientInv, Placed, Unfinished, CallHolds, ReadKeepsNothing, BlamedInv, DanglingInv

\* A close by the user: no call waits.
LEMMA ClientDisconnects ==
  ASSUME ClientInv, Client!disconnect
  PROVE  ClientInv'
  <1>1. /\ v11 = [does |-> "nothing", on |-> 0]
        /\ UNCHANGED <<v1, v2, v3, v4, v5, v9, v10, v12, v13, v14>> /\ Client!close(v2)
    BY DEF Client!disconnect, Client!Idle, Client!NoCall, Client!None
  <1>2. v11.does = "nothing"
    BY <1>1
  <1>3. v11' = v11 /\ v15' = v15
    BY <1>1, <1>2, ClientCloses DEF Fails
  <1> QED
    BY <1>1, <1>3 DEF ClientInv, ClientTypes, Placed, Unfinished, CallHolds, ReadKeepsNothing, BlamedInv,
                      DanglingInv

\* The handlers of a connection.
LEMMA ClientHandles ==
  ASSUME ClientInv, NEW n \in 1..MaxConns
  PROVE  /\ \A ok \in BOOLEAN, s \in {"connect", "handshake"} : Client!on_connect(n, s, ok) => ClientInv'
         /\ \A ok \in BOOLEAN : Client!handle_connect(n, ok) => ClientInv'
         /\ Client!read_handler(n) => ClientInv'
         /\ Client!read_handler_error(n) => ClientInv'
  <1>1. ASSUME NEW ok \in BOOLEAN, NEW s \in {"connect", "handshake"}, Client!on_connect(n, s, ok)
        PROVE  ClientInv'
    <2>1. Fails(n)
      BY <1>1, ClientFails DEF Client!on_connect, Client!async_connect_success
    <2> QED
      BY <1>1, <2>1, ClientEnds DEF Client!on_connect, Client!async_connect_success, Client!Opens
  <1>2. ASSUME NEW ok \in BOOLEAN, Client!handle_connect(n, ok)
        PROVE  ClientInv'
    <2>1. CASE ok
      BY <1>2, <2>1, ClientShakes DEF Client!handle_connect
    <2>2. CASE ~ok
      <3>1. Fails(n)
        BY <1>2, <2>2, ClientFails DEF Client!handle_connect, Client!async_connect_success
      <3> QED
        BY <1>2, <2>2, <3>1, ClientEnds DEF Client!handle_connect, Client!async_connect_success
    <2> QED
      BY <2>1, <2>2
  <1>3. ASSUME Client!read_handler(n)
        PROVE  ClientInv'
    <2>1. /\ n \in v9 /\ Client!Alive(n) /\ v9' \subseteq v9
          /\ UNCHANGED <<v1, v2, v3, v4, v5, v10, v12, v13, v14>>
      BY <1>3 DEF Client!read_handler
    <2>2. Fails(n)
      BY <1>3, ClientFails, ClientCloses DEF Client!read_handler
    <2>3. v11.does = "wait" => v15' = v15
      BY <2>1, <2>2, ReadsAlone DEF Fails
    <2> QED
      BY <2>1, <2>2, <2>3, ClientReads
  <1>4. ASSUME Client!read_handler_error(n)
        PROVE  ClientInv'
    <2>1. /\ n \in v9 /\ v9' \subseteq v9
          /\ UNCHANGED <<v1, v2, v3, v4, v5, v10, v12, v14>>
      BY <1>4 DEF Client!read_handler_error
    <2>2. Fails(n)
      BY <1>4, ClientFails, ClientCloses DEF Client!read_handler_error
    <2>3. v11.does = "wait" => v15' = v15
      BY <1>4, <2>1, <2>2, ReadsAlone DEF Fails, Client!read_handler_error
    <2>4. v13' = v13 \/ (v1 /\ ~Client!Alive(n) /\ v13' = v13 \cup {<<n, "read">>})
      BY <1>4 DEF Client!read_handler_error
    <2> QED
      BY <2>1, <2>2, <2>3, <2>4, ClientReads
  <1> QED
    BY <1>1, <1>2, <1>3, <1>4

\* Every step of the client keeps the invariant.
LEMMA ClientStep ==
  ASSUME ClientInv, Client!Next
  PROVE  ClientInv'
  <1>1. CASE Client!connect_impl
    BY <1>1, CallReturns DEF Client!connect_impl, Client!History
  <1>2. CASE Client!async_connect_pipe
    BY <1>2, CallReturns DEF Client!async_connect_pipe, Client!History, Client!Opens
  <1>3. ASSUME NEW n \in Client!Conns, Client!Handlers(n) \/ Client!read_handler_error(n) PROVE ClientInv'
    BY <1>3, ClientHandles DEF Client!Conns, Client!Handlers
  <1> QED
    BY <1>1, <1>2, <1>3, ClientCreates, ClientInstalls, ClientConnects, ClientBegins, ClientGoes,
       ClientDisconnects DEF Client!Next, Client!UserSteps

\* The invariant contains what the run checks.
LEMMA ClientSound ==
  ASSUME ClientInv
  PROVE  Client!FreedTouched /\ Client!OthersBlamed
  BY DEF ClientInv, ClientTypes, BlamedInv, DanglingInv, Client!FreedTouched, Client!OthersBlamed, Client!Conns

(***************************************************************************)
(* The registry of the client's services.  v1 hold_services_, v2           *)
(* weak_services_, v3 weak_native_services_, v4 factory_, v5 owned, v6     *)
(* lookup, v7 changes, v8 expected, v9 sure, v10 seen.                     *)
(***************************************************************************)

WeakOnes == {"w1", "w2"}
NativeOnes == {"n1"}
Lookups == {"r1", "r2"}
LookupPlaces == {"idle", "weak", "native", "factory", "end"}

\* A service that is registered is the one its map has, or is gone; the lookups have
\* seen every service registered since they began.
RegistryTypes ==
  /\ v2 \in WeakOnes \cup {"none"} /\ v3 \in NativeOnes \cup {"none"} /\ v4 \in BOOLEAN
  /\ v6 \in [Lookups -> [at : LookupPlaces, result : WeakOnes \cup NativeOnes \cup {"none", "made"}]]
  /\ v8 \subseteq WeakOnes \cup NativeOnes
  /\ v9 \subseteq Lookups
  /\ v10 \in [Lookups -> SUBSET (WeakOnes \cup NativeOnes)]

\* The maps refer to what is registered, and to all of it that is alive.
RegisteredInv ==
  /\ v2 # "none" => v2 \in v8
  /\ v3 # "none" => v3 \in v8
  /\ \A o \in v8 : Services!Alive(o) => o = v2 \/ o = v3

\* A lookup has seen whatever is registered since it began, and finds nothing else.
SeenInv ==
  \A r \in Lookups : v6[r].at # "idle" =>
    /\ v8 \subseteq v10[r]
    /\ v6[r].result \in WeakOnes \cup NativeOnes => v6[r].result \in v10[r]

\* What a lookup that was not disturbed has not found is not there.
SureInv ==
  \A r \in v9 :
    /\ v6[r].at \in {"native", "factory"} \/ (v6[r].at = "end" /\ v6[r].result = "none") =>
         \A o \in v8 \cap WeakOnes : ~Services!Alive(o)
    /\ v6[r].at = "factory" \/ (v6[r].at = "end" /\ v6[r].result = "none") =>
         \A o \in v8 \cap NativeOnes : ~Services!Alive(o)
    /\ v6[r].at = "end" /\ v6[r].result = "none" => ~v4

\* The inductive invariant of the registry.
ServicesInv == RegistryTypes /\ RegisteredInv /\ SeenInv /\ SureInv

\* An empty registry.
LEMMA ServicesStart ==
  ASSUME Services!Init
  PROVE  ServicesInv
  <1>1. /\ v2 = "none" /\ v3 = "none" /\ v4 = FALSE /\ v8 = {} /\ v9 = {}
        /\ v6 = [r \in Lookups |-> [at |-> "idle", result |-> "none"]] /\ v10 = [r \in Lookups |-> {}]
    BY DEF Services!Init, Services!None, Services!Readers, Lookups
  <1>2. v4 \in BOOLEAN
    BY <1>1, Zenon
  <1> QED
    BY <1>1, <1>2 DEF ServicesInv, RegistryTypes, RegisteredInv, SeenInv, SureInv, LookupPlaces

\* The user's thread registers what is in now, or lets a handler go: a service that
\* was gone stays gone.
LEMMA ServicesChange ==
  ASSUME ServicesInv, NEW now, Services!Registered(now), now \subseteq WeakOnes \cup NativeOnes, v6' = v6,
         v2' \in WeakOnes \cup {"none"}, v3' \in NativeOnes \cup {"none"}, v4' \in BOOLEAN,
         v2' # "none" => v2' \in now, v3' # "none" => v3' \in now,
         \A o \in now : Services!Alive(o)' => o = v2' \/ o = v3'
  PROVE  ServicesInv'
  <1>1. /\ v8' = now /\ v9' = {}
        /\ v10' = [r \in Lookups |-> IF v6[r].at = "idle" THEN {} ELSE v10[r] \cup now]
    BY DEF Services!Registered, Services!Readers, Lookups
  <1>2. v6 \in [Lookups -> [at : LookupPlaces, result : WeakOnes \cup NativeOnes \cup {"none", "made"}]]
        /\ v10 \in [Lookups -> SUBSET (WeakOnes \cup NativeOnes)]
    BY DEF ServicesInv, RegistryTypes
  <1>3. v10' \in [Lookups -> SUBSET (WeakOnes \cup NativeOnes)]
    BY <1>1, <1>2
  <1>4. RegistryTypes'
    BY <1>1, <1>2, <1>3 DEF RegistryTypes
  <1>5. RegisteredInv'
    BY <1>1 DEF RegisteredInv
  <1>6. SeenInv'
    BY <1>1, <1>2 DEF ServicesInv, SeenInv
  <1>7. SureInv'
    BY <1>1 DEF SureInv
  <1> QED
    BY <1>4, <1>5, <1>6, <1>7 DEF ServicesInv

\* The calls of the user.
LEMMA ServicesUser ==
  ASSUME ServicesInv, Services!UserCalls
  PROVE  ServicesInv'
  <1> USE DEF Services!Wrappers, Services!Natives, Services!None, Services!Alive, Services!Readers,
              WeakOnes, NativeOnes, Lookups
  <1>0. /\ v2 \in WeakOnes \cup {"none"} /\ v3 \in NativeOnes \cup {"none"} /\ v4 \in BOOLEAN
        /\ v8 \subseteq WeakOnes \cup NativeOnes
        /\ v2 # "none" => v2 \in v8
        /\ v3 # "none" => v3 \in v8
        /\ \A o \in v8 : Services!Alive(o) => o = v2 \/ o = v3
    BY DEF ServicesInv, RegistryTypes, RegisteredInv
  <1>1. ASSUME NEW w \in WeakOnes, Services!assign_handler_wrap(w) PROVE ServicesInv'
    BY <1>0, <1>1, ServicesChange DEF Services!assign_handler_wrap
  <1>2. ASSUME NEW w \in WeakOnes, Services!assign_weak_handler_wrap(w) PROVE ServicesInv'
    BY <1>0, <1>2, ServicesChange DEF Services!assign_weak_handler_wrap
  <1>3. ASSUME NEW n \in NativeOnes, Services!assign_weak_handler(n) PROVE ServicesInv'
    BY <1>0, <1>3, ServicesChange DEF Services!assign_weak_handler
  <1>4. ASSUME NEW set \in BOOLEAN, Services!assign_service_factory(set) PROVE ServicesInv'
    BY <1>0, <1>4, ServicesChange DEF Services!assign_service_factory, Services!maps
  <1>5. CASE Services!erase_rpc_handler
    BY <1>0, <1>5, ServicesChange DEF Services!erase_rpc_handler
  <1>6. CASE Services!erase_all_rpc_handlers
    BY <1>0, <1>6, ServicesChange DEF Services!erase_all_rpc_handlers
  <1>7. ASSUME NEW o \in WeakOnes \cup NativeOnes, Services!Release(o) PROVE ServicesInv'
    BY <1>0, <1>7, ServicesChange DEF Services!Release, Services!maps
  <1> QED
    BY <1>1, <1>2, <1>3, <1>4, <1>5, <1>6, <1>7 DEF Services!UserCalls

\* What moves in a step of a lookup.
LEMMA LookupGoes ==
  ASSUME ServicesInv, NEW r \in Lookups, NEW p \in LookupPlaces,
         NEW x \in WeakOnes \cup NativeOnes \cup {"none", "made"}, Services!Goes(r, p, x)
  PROVE  /\ v6' \in [Lookups -> [at : LookupPlaces, result : WeakOnes \cup NativeOnes \cup {"none", "made"}]]
         /\ v6'[r].at = p /\ v6'[r].result = x
         /\ \A q \in Lookups : q # r => v6'[q] = v6[q]
  BY DEF ServicesInv, RegistryTypes, Services!Goes

\* A lookup brings no service to life, if what it found was alive.
LEMMA LookupLives ==
  ASSUME ServicesInv, NEW r \in Lookups, NEW p \in LookupPlaces,
         NEW x \in WeakOnes \cup NativeOnes \cup {"none", "made"}, Services!Goes(r, p, x),
         v1' = v1, v5' = v5, x \in {"none", "made"} \/ Services!Alive(x)
  PROVE  \A o \in WeakOnes \cup NativeOnes : Services!Alive(o)' => Services!Alive(o)
  <1>1. /\ v6'[r].result = x
        /\ \A q \in Lookups : q # r => v6'[q] = v6[q]
    BY LookupGoes
  <1>2. \A o \in WeakOnes \cup NativeOnes : o # "none" /\ o # "made"
    BY DEF WeakOnes, NativeOnes
  <1> QED
    BY <1>1, <1>2 DEF Services!Alive, Services!Readers, Lookups

\* A step of get_handler.
LEMMA ServicesLookup ==
  ASSUME ServicesInv, NEW r \in Lookups,
         \/ Services!BeginLookup(r) \/ Services!AskWeak(r) \/ Services!AskNative(r)
         \/ Services!AskFactory(r) \/ Services!EndLookup(r)
  PROVE  ServicesInv'
  <1> USE DEF Services!None, Services!Made
  <1>0. RegistryTypes /\ RegisteredInv /\ SeenInv /\ SureInv
    BY DEF ServicesInv
  <1>1. CASE Services!BeginLookup(r)
    <2>1. Services!Goes(r, "weak", "none") /\ v9' = v9 \cup {r} /\ v10' = [v10 EXCEPT ![r] = v8]
          /\ UNCHANGED <<v1, v2, v3, v4, v5, v8>>
      BY <1>1 DEF Services!BeginLookup, Services!maps
    <2>2. /\ v6' \in [Lookups -> [at : LookupPlaces, result : WeakOnes \cup NativeOnes \cup {"none", "made"}]]
          /\ v6'[r].at = "weak" /\ v6'[r].result = "none"
          /\ \A q \in Lookups : q # r => v6'[q] = v6[q]
          /\ \A o \in WeakOnes \cup NativeOnes : Services!Alive(o)' => Services!Alive(o)
      BY <2>1, LookupGoes, LookupLives DEF LookupPlaces
    <2>3. RegistryTypes' /\ RegisteredInv'
      BY <1>0, <2>1, <2>2 DEF RegistryTypes, RegisteredInv
    <2>4. SeenInv' /\ SureInv'
      BY <1>0, <2>1, <2>2 DEF RegistryTypes, SeenInv, SureInv, WeakOnes, NativeOnes
    <2> QED
      BY <2>3, <2>4 DEF ServicesInv
  <1>2. CASE Services!AskWeak(r)
    <2>1. /\ v6[r].at = "weak" /\ UNCHANGED <<v1, v3, v4, v5, v8, v9, v10>>
          /\ \/ v2 # "none" /\ Services!Alive(v2) /\ Services!Goes(r, "end", v2) /\ v2' = v2
             \/ ~(v2 # "none" /\ Services!Alive(v2)) /\ Services!Goes(r, "native", "none") /\ v2' = "none"
      BY <1>2 DEF Services!AskWeak, Services!At
    <2>2. CASE v2 # "none" /\ Services!Alive(v2) /\ Services!Goes(r, "end", v2) /\ v2' = v2
      <3>0. v2 \in WeakOnes \cup NativeOnes \cup {"none", "made"} /\ v2 \in WeakOnes
        BY <1>0, <2>2 DEF RegistryTypes
      <3>1. /\ v6' \in [Lookups -> [at : LookupPlaces, result : WeakOnes \cup NativeOnes \cup {"none", "made"}]]
            /\ v6'[r].at = "end" /\ v6'[r].result = v2
            /\ \A q \in Lookups : q # r => v6'[q] = v6[q]
            /\ \A o \in WeakOnes \cup NativeOnes : Services!Alive(o)' => Services!Alive(o)
        BY <2>1, <2>2, <3>0, LookupGoes, LookupLives DEF LookupPlaces
      <3>2. RegistryTypes' /\ RegisteredInv'
        BY <1>0, <2>1, <2>2, <3>1 DEF RegistryTypes, RegisteredInv
      <3>3. SeenInv'
        BY <1>0, <2>1, <2>2, <3>1 DEF RegisteredInv, SeenInv
      <3>4. SureInv'
        BY <1>0, <2>1, <2>2, <3>0, <3>1 DEF RegistryTypes, SureInv
      <3> QED
        BY <3>2, <3>3, <3>4 DEF ServicesInv
    <2>3. CASE ~(v2 # "none" /\ Services!Alive(v2)) /\ Services!Goes(r, "native", "none") /\ v2' = "none"
      <3>1. /\ v6' \in [Lookups -> [at : LookupPlaces, result : WeakOnes \cup NativeOnes \cup {"none", "made"}]]
            /\ v6'[r].at = "native" /\ v6'[r].result = "none"
            /\ \A q \in Lookups : q # r => v6'[q] = v6[q]
            /\ \A o \in WeakOnes \cup NativeOnes : Services!Alive(o)' => Services!Alive(o)
        BY <2>1, <2>3, LookupGoes, LookupLives DEF LookupPlaces
      <3>2. \A o \in v8 : Services!Alive(o) => o = v3 /\ o \notin WeakOnes
        BY <1>0, <2>3 DEF RegistryTypes, RegisteredInv, WeakOnes, NativeOnes
      <3>3. RegistryTypes' /\ RegisteredInv'
        BY <1>0, <2>1, <2>3, <3>1, <3>2 DEF RegistryTypes, RegisteredInv
      <3>4. SeenInv'
        BY <1>0, <2>1, <3>1 DEF SeenInv, WeakOnes, NativeOnes
      <3>5. SureInv'
        BY <1>0, <2>1, <3>1, <3>2 DEF RegistryTypes, SureInv
      <3> QED
        BY <3>3, <3>4, <3>5 DEF ServicesInv
    <2> QED
      BY <2>1, <2>2, <2>3
  <1>3. CASE Services!AskNative(r)
    <2>1. /\ v6[r].at = "native" /\ UNCHANGED <<v1, v2, v4, v5, v8, v9, v10>>
          /\ \/ v3 # "none" /\ Services!Alive(v3) /\ Services!Goes(r, "end", v3) /\ v3' = v3
             \/ ~(v3 # "none" /\ Services!Alive(v3)) /\ Services!Goes(r, "factory", "none") /\ v3' = "none"
      BY <1>3 DEF Services!AskNative, Services!At
    <2>2. CASE v3 # "none" /\ Services!Alive(v3) /\ Services!Goes(r, "end", v3) /\ v3' = v3
      <3>0. v3 \in WeakOnes \cup NativeOnes \cup {"none", "made"} /\ v3 \in NativeOnes
        BY <1>0, <2>2 DEF RegistryTypes
      <3>1. /\ v6' \in [Lookups -> [at : LookupPlaces, result : WeakOnes \cup NativeOnes \cup {"none", "made"}]]
            /\ v6'[r].at = "end" /\ v6'[r].result = v3
            /\ \A q \in Lookups : q # r => v6'[q] = v6[q]
            /\ \A o \in WeakOnes \cup NativeOnes : Services!Alive(o)' => Services!Alive(o)
        BY <2>1, <2>2, <3>0, LookupGoes, LookupLives DEF LookupPlaces
      <3>2. RegistryTypes' /\ RegisteredInv'
        BY <1>0, <2>1, <2>2, <3>1 DEF RegistryTypes, RegisteredInv
      <3>3. SeenInv'
        BY <1>0, <2>1, <2>2, <3>1 DEF RegisteredInv, SeenInv
      <3>4. SureInv'
        BY <1>0, <2>1, <2>2, <3>0, <3>1 DEF RegistryTypes, SureInv
      <3> QED
        BY <3>2, <3>3, <3>4 DEF ServicesInv
    <2>3. CASE ~(v3 # "none" /\ Services!Alive(v3)) /\ Services!Goes(r, "factory", "none") /\ v3' = "none"
      <3>1. /\ v6' \in [Lookups -> [at : LookupPlaces, result : WeakOnes \cup NativeOnes \cup {"none", "made"}]]
            /\ v6'[r].at = "factory" /\ v6'[r].result = "none"
            /\ \A q \in Lookups : q # r => v6'[q] = v6[q]
            /\ \A o \in WeakOnes \cup NativeOnes : Services!Alive(o)' => Services!Alive(o)
        BY <2>1, <2>3, LookupGoes, LookupLives DEF LookupPlaces
      <3>2. \A o \in v8 : Services!Alive(o) => o = v2 /\ o \notin NativeOnes
        BY <1>0, <2>3 DEF RegistryTypes, RegisteredInv, WeakOnes, NativeOnes
      <3>3. RegistryTypes' /\ RegisteredInv'
        BY <1>0, <2>1, <2>3, <3>1, <3>2 DEF RegistryTypes, RegisteredInv
      <3>4. SeenInv'
        BY <1>0, <2>1, <3>1 DEF SeenInv, WeakOnes, NativeOnes
      <3>5. SureInv'
        BY <1>0, <2>1, <3>1, <3>2 DEF RegistryTypes, SureInv
      <3> QED
        BY <3>3, <3>4, <3>5 DEF ServicesInv
    <2> QED
      BY <2>1, <2>2, <2>3
  <1>4. CASE Services!AskFactory(r)
    <2> DEFINE x == IF v4 THEN "made" ELSE "none"
    <2>1. /\ v6[r].at = "factory" /\ UNCHANGED <<v1, v2, v3, v4, v5, v8, v9, v10>>
          /\ Services!Goes(r, "end", x)
      BY <1>4 DEF Services!AskFactory, Services!At, Services!maps
    <2>2. x \in {"none", "made"} /\ (x = "none" <=> ~v4)
      BY <1>0 DEF RegistryTypes
    <2> HIDE DEF x
    <2>3. /\ v6' \in [Lookups -> [at : LookupPlaces, result : WeakOnes \cup NativeOnes \cup {"none", "made"}]]
          /\ v6'[r].at = "end" /\ v6'[r].result = x
          /\ \A q \in Lookups : q # r => v6'[q] = v6[q]
          /\ \A o \in WeakOnes \cup NativeOnes : Services!Alive(o)' => Services!Alive(o)
      BY <2>1, <2>2, LookupGoes, LookupLives DEF LookupPlaces
    <2>4. RegistryTypes' /\ RegisteredInv'
      BY <1>0, <2>1, <2>3 DEF RegistryTypes, RegisteredInv
    <2>5. SeenInv'
      BY <1>0, <2>1, <2>2, <2>3 DEF SeenInv, WeakOnes, NativeOnes
    <2>6. SureInv'
      BY <1>0, <2>1, <2>2, <2>3 DEF RegistryTypes, SureInv
    <2> QED
      BY <2>4, <2>5, <2>6 DEF ServicesInv
  <1>5. CASE Services!EndLookup(r)
    <2>1. /\ Services!Goes(r, "idle", "none") /\ v9' = v9 \ {r} /\ v10' = [v10 EXCEPT ![r] = {}]
          /\ UNCHANGED <<v1, v2, v3, v4, v5, v8>>
      BY <1>5 DEF Services!EndLookup, Services!maps
    <2>2. /\ v6' \in [Lookups -> [at : LookupPlaces, result : WeakOnes \cup NativeOnes \cup {"none", "made"}]]
          /\ v6'[r].at = "idle" /\ v6'[r].result = "none"
          /\ \A q \in Lookups : q # r => v6'[q] = v6[q]
          /\ \A o \in WeakOnes \cup NativeOnes : Services!Alive(o)' => Services!Alive(o)
      BY <2>1, LookupGoes, LookupLives DEF LookupPlaces
    <2>3. RegistryTypes' /\ RegisteredInv'
      BY <1>0, <2>1, <2>2 DEF RegistryTypes, RegisteredInv
    <2>4. SeenInv' /\ SureInv'
      BY <1>0, <2>1, <2>2 DEF RegistryTypes, SeenInv, SureInv
    <2> QED
      BY <2>3, <2>4 DEF ServicesInv
  <1> QED
    BY <1>1, <1>2, <1>3, <1>4, <1>5

\* Every step keeps the invariant.
LEMMA ServicesStep ==
  ASSUME ServicesInv, Services!Next
  PROVE  ServicesInv'
  BY ServicesUser, ServicesLookup DEF Services!Next, Services!Readers, Lookups

\* The invariant contains what the run checks.
LEMMA ServicesSound ==
  ASSUME ServicesInv
  PROVE  Services!LookupHonest
  BY DEF ServicesInv, RegistryTypes, SeenInv, SureInv, WeakOnes, NativeOnes, Lookups, Services!LookupHonest,
         Services!Readers, Services!Wrappers, Services!Natives, Services!None, Services!At

(***************************************************************************)
(* The stream cipher.  v1 id, v2 transformer_, v3 revertor_, v4 wire, v5   *)
(* sent, v6 received.                                                      *)
(***************************************************************************)

Pairs == Nat \X Nat

\* Half of a number, and what is left.
LEMMA Halves ==
  ASSUME NEW n \in Nat
  PROVE  /\ n \div 2 \in Nat /\ n % 2 \in 0..1 /\ n = 2 * (n \div 2) + (n % 2)
         /\ n # 0 => n \div 2 \in 0..(n - 1)
  OBVIOUS

\* The exclusive or of two numbers, from the last bit on.
LEMMA XorIs ==
  /\ \A n \in Nat : Cipher!XorTo[n] \in [Pairs -> Nat]
  /\ \A p \in Pairs : Cipher!XorTo[0][p] = 0
  /\ \A n \in Nat \ {0} : \A p \in Pairs :
       Cipher!XorTo[n][p] = ((p[1] + p[2]) % 2) + 2 * Cipher!XorTo[n \div 2][<<p[1] \div 2, p[2] \div 2>>]
  <1> DEFINE S == [Pairs -> Nat]
             V(x, p) == ((p[1] + p[2]) % 2) + 2 * x[<<p[1] \div 2, p[2] \div 2>>]
             Q == [p \in Pairs |-> 0]
             T == [n \in Nat |-> n \div 2]
             G == [n \in Nat |-> [x \in S |-> [p \in Pairs |-> V(x, p)]]]
             P(f) == f = [n \in Nat |-> [p \in Pairs |-> IF n = 0 THEN 0 ELSE V(f[n \div 2], p)]]
  <1>1. \A n \in Nat \ {0} : T[n] = n \div 2 /\ T[n] \in 0..(n - 1)
    BY Halves
  <1>2. ASSUME NEW x \in S, NEW p \in Pairs PROVE V(x, p) \in Nat
    <2>1. p[1] \in Nat /\ p[2] \in Nat
      BY DEF Pairs
    <2>2. p[1] \div 2 \in Nat /\ p[2] \div 2 \in Nat /\ p[1] + p[2] \in Nat
      BY <2>1, Halves
    <2>3. <<p[1] \div 2, p[2] \div 2>> \in Pairs
      BY <2>2 DEF Pairs
    <2>4. x[<<p[1] \div 2, p[2] \div 2>>] \in Nat /\ (p[1] + p[2]) % 2 \in Nat
      BY <2>2, <2>3, Halves
    <2> QED
      BY <2>4
  <1> HIDE DEF V
  <1>3. \A n \in Nat : \A x \in S : G[n][x] = [p \in Pairs |-> V(x, p)] /\ G[n][x] \in S
    BY <1>2
  <1>4. Q \in S
    OBVIOUS
  <1>5. RecursionData(S, Q, T, G)
    BY <1>1, <1>3, <1>4 DEF RecursionData
  <1> HIDE DEF S, T, G
  <1>6. PICK f : RecursiveFcn(f, S, Q, T, G)
    BY <1>5, Recursion
  <1>7. f \in [Nat -> S] /\ f[0] = Q /\ \A n \in Nat \ {0} : f[n] = [p \in Pairs |-> V(f[n \div 2], p)]
    <2>1. f \in [Nat -> S] /\ f[0] = Q /\ \A n \in Nat \ {0} : f[n] = G[n][f[T[n]]]
      BY <1>6 DEF RecursiveFcn
    <2>2. ASSUME NEW n \in Nat \ {0} PROVE f[n] = [p \in Pairs |-> V(f[n \div 2], p)]
      <3>1. n \div 2 \in Nat /\ f[n] = G[n][f[n \div 2]]
        BY <1>1, <2>1, Halves
      <3>2. f[n \div 2] \in S
        BY <2>1, <3>1
      <3>3. G[n][f[n \div 2]] = [p \in Pairs |-> V(f[n \div 2], p)]
        BY <1>3, <3>2
      <3> QED
        BY <3>1, <3>3, Zenon
    <2> QED
      BY <2>1, <2>2
  <1>8. P(f)
    <2> DEFINE g == [n \in Nat |-> [p \in Pairs |-> IF n = 0 THEN 0 ELSE V(f[n \div 2], p)]]
    <2>1. \A n \in Nat : g[n] = f[n]
      <3>1. g[0] = f[0]
        BY <1>7
      <3>2. \A n \in Nat \ {0} : g[n] = f[n]
        BY <1>7
      <3> QED
        BY <3>1, <3>2
    <2>2. f = [n \in Nat |-> f[n]]
      BY <1>7
    <2> QED
      BY <2>1, <2>2
  <1>9. P(Cipher!XorTo)
    <2>1. Cipher!XorTo = CHOOSE g : P(g)
      BY DEF Cipher!XorTo, V, Pairs
    <2> HIDE DEF P
    <2> QED
      BY <1>8, <2>1
  <1> DEFINE X == Cipher!XorTo
  <1> HIDE DEF X
  <1>10. /\ \A p \in Pairs : X[0][p] = 0
         /\ \A n \in Nat \ {0} : X[n] = [p \in Pairs |-> V(X[n \div 2], p)]
         /\ X[0] = [p \in Pairs |-> 0]
    BY <1>9 DEF X
  <1>11. \A n \in Nat : X[n] \in S
    <2> DEFINE B == {n \in Nat : X[n] \notin S}
    <2> SUFFICES ASSUME B # {} PROVE FALSE
      OBVIOUS
    <2>1. PICK n \in B : \A m \in B : n <= m
      <3>1. B \in SUBSET Nat
        OBVIOUS
      <3> HIDE DEF B
      <3> QED
        BY <3>1, Least
    <2>2. n # 0
      BY <1>4, <1>10, <2>1
    <2>3. n \div 2 \in Nat /\ n \div 2 < n
      BY <2>1, <2>2, Halves
    <2>4. X[n \div 2] \in S
      BY <2>1, <2>3
    <2>5. [p \in Pairs |-> V(X[n \div 2], p)] \in S
      BY <1>2, <2>4 DEF S
    <2> QED
      BY <1>10, <2>1, <2>2, <2>5
  <1>12. \A n \in Nat \ {0} : \A p \in Pairs : X[n][p] = V(X[n \div 2], p)
    BY <1>10
  <1> QED
    BY <1>10, <1>11, <1>12 DEF S, V, X

\* Exclusive or with the same number, twice, gives the first one back.
LEMMA XorTwice ==
  \A n \in Nat : \A a \in 0..n : \A b \in Nat :
    Cipher!XorTo[n][<<Cipher!XorTo[n][<<a, b>>], b>>] = a
  <1> DEFINE X == Cipher!XorTo
             W(n) == \A a \in 0..n : \A b \in Nat : X[n][<<X[n][<<a, b>>], b>>] = a
             B == {n \in Nat : ~W(n)}
  <1> SUFFICES ASSUME B # {} PROVE FALSE
    OBVIOUS
  <1>1. PICK n \in B : \A m \in B : n <= m
    <2>1. B \in SUBSET Nat
      OBVIOUS
    <2> HIDE DEF B
    <2> QED
      BY <2>1, Least
  <1> HIDE DEF X
  <1>2. /\ \A k \in Nat : X[k] \in [Pairs -> Nat]
        /\ \A p \in Pairs : X[0][p] = 0
        /\ \A k \in Nat \ {0} : \A p \in Pairs :
             X[k][p] = ((p[1] + p[2]) % 2) + 2 * X[k \div 2][<<p[1] \div 2, p[2] \div 2>>]
    BY XorIs DEF X
  <1>3. \A k \in Nat : \A a, b \in Nat : <<a, b>> \in Pairs /\ X[k][<<a, b>>] \in Nat
    BY <1>2 DEF Pairs
  <1>4. \A k \in Nat \ {0} : \A a, b \in Nat :
          X[k][<<a, b>>] = ((a + b) % 2) + 2 * X[k \div 2][<<a \div 2, b \div 2>>]
    <2> SUFFICES ASSUME NEW k \in Nat \ {0}, NEW a \in Nat, NEW b \in Nat
                 PROVE  X[k][<<a, b>>] = ((a + b) % 2) + 2 * X[k \div 2][<<a \div 2, b \div 2>>]
      OBVIOUS
    <2>1. <<a, b>> \in Pairs /\ <<a, b>>[1] = a /\ <<a, b>>[2] = b
      BY <1>3
    <2> QED
      BY <1>2, <2>1
  <1>5. n # 0
    <2> SUFFICES ASSUME n = 0 PROVE FALSE
      OBVIOUS
    <2>1. \A a \in 0..0 : a = 0 /\ a \in Nat
      OBVIOUS
    <2>2. W(0)
      BY <1>2, <1>3, <2>1
    <2> QED
      BY <1>1, <2>2
  <1> DEFINE h == n \div 2
  <1>6. h \in Nat /\ h < n /\ h \in 0..(n - 1)
    BY <1>1, <1>5, Halves
  <1>7. W(h)
    BY <1>1, <1>6
  <1>8. W(n)
    <2> SUFFICES ASSUME NEW a \in 0..n, NEW b \in Nat
                 PROVE  X[n][<<X[n][<<a, b>>], b>>] = a
      OBVIOUS
    <2> DEFINE c == a \div 2  d == b \div 2  r == X[h][<<c, d>>]  e == (a + b) % 2
    <2>1. a \in Nat /\ c \in Nat /\ d \in Nat /\ a + b \in Nat /\ n \in Nat \ {0}
      BY <1>1, <1>5, Halves
    <2>2. c \in 0..h
      BY <1>1, <2>1
    <2>3. r \in Nat /\ e \in 0..1
      BY <1>3, <1>6, <2>1, Halves
    <2>4. X[h][<<r, d>>] = c
      BY <1>7, <2>1, <2>2
    <2>5. X[n][<<a, b>>] = e + 2 * r
      BY <1>4, <2>1
    <2> DEFINE x == e + 2 * r
    <2>6. x \in Nat /\ x \div 2 = r /\ (x + b) % 2 = a % 2
      <3> HIDE DEF r, c, d
      <3>1. x \in Nat /\ x \div 2 = r
        BY <2>3
      <3>2. (x + b) % 2 = a % 2
        BY <2>1, <2>3
      <3> QED
        BY <3>1, <3>2
    <2> HIDE DEF r, e
    <2>7. X[n][<<x, b>>] = ((x + b) % 2) + 2 * X[h][<<x \div 2, d>>]
      BY <1>4, <2>1, <2>6
    <2>8. X[n][<<x, b>>] = (a % 2) + 2 * c
      BY <2>4, <2>6, <2>7
    <2>9. (a % 2) + 2 * c = a
      BY <2>1
    <2> QED
      BY <2>5, <2>8, <2>9
  <1> QED
    BY <1>1, <1>8

Bytes == 0..(Size - 1)
\* The permutations of the bytes: what state_ of the cipher is.
Perms == {f \in [Bytes -> Bytes] : \A b \in Bytes : \E a \in Bytes : f[a] = b}
States == [kind : {"erseefor"}, state_ : Perms, si1_ : Bytes, si2_ : Bytes]
NoCipher == [kind |-> "none"]

\* A sum of bytes, modulo their number.
LEMMA ByteSum ==
  ASSUME NEW n \in Nat
  PROVE  n % Size \in Bytes
  <1>1. Size \in Nat /\ Size > 0
    BY CipherAssumption
  <1> QED
    BY <1>1 DEF Bytes

\* The bytes are numbers below Size.
LEMMA BytesAre ==
  /\ 0 \in Bytes /\ \A b \in Bytes : b \in Nat /\ b < Size
  /\ \A i \in 1..Size : i - 1 \in Bytes
  <1>1. Size \in Nat /\ Size > 0
    BY CipherAssumption
  <1> QED
    BY <1>1 DEF Bytes

\* A permutation stays one if two of its values are swapped.
LEMMA SwapPerm ==
  ASSUME NEW f \in Perms, NEW i \in Bytes, NEW j \in Bytes
  PROVE  Cipher!swap_bytes(f, i, j) \in Perms
  <1> DEFINE g == [f EXCEPT ![i] = f[j], ![j] = f[i]]
  <1>1. f \in [Bytes -> Bytes] /\ \A b \in Bytes : \E a \in Bytes : f[a] = b
    BY DEF Perms
  <1>2. /\ g \in [Bytes -> Bytes] /\ g[j] = f[i] /\ (i # j => g[i] = f[j])
        /\ \A a \in Bytes : a # i /\ a # j => g[a] = f[a]
    BY <1>1
  <1> HIDE DEF g
  <1>3. ASSUME NEW b \in Bytes PROVE \E a \in Bytes : g[a] = b
    <2>1. PICK a \in Bytes : f[a] = b
      BY <1>1
    <2>2. CASE a = i
      BY <1>2, <2>1, <2>2
    <2>3. CASE a = j
      BY <1>2, <2>1, <2>3
    <2>4. CASE a # i /\ a # j
      BY <1>2, <2>1, <2>4
    <2> QED
      BY <2>2, <2>3, <2>4
  <1>4. g \in Perms
    BY <1>2, <1>3 DEF Perms
  <1> QED
    BY <1>4 DEF Cipher!swap_bytes, g

\* The fields of a state.
LEMMA StateFields ==
  ASSUME NEW c \in States
  PROVE  /\ c.kind = "erseefor" /\ c.state_ \in Perms /\ c.si1_ \in Bytes /\ c.si2_ \in Bytes
         /\ \A b \in Bytes : c.state_[b] \in Bytes
  <1>1. c.kind = "erseefor" /\ c.state_ \in Perms /\ c.si1_ \in Bytes /\ c.si2_ \in Bytes
    BY DEF States
  <1> QED
    BY <1>1 DEF Perms

\* A step of the cipher makes a state of a state.
LEMMA StepState ==
  ASSUME NEW c \in States
  PROVE  Cipher!Step(c) \in States
  <1> DEFINE i == (c.si1_ + 1) % Size  j == (c.si2_ + c.state_[i]) % Size
  <1>1. /\ c.state_ \in Perms /\ c.si1_ \in Nat /\ c.si2_ \in Nat
        /\ \A b \in Bytes : c.state_[b] \in Nat
    BY StateFields, BytesAre
  <1>2. i \in Bytes
    <2>1. c.si1_ + 1 \in Nat
      BY <1>1
    <2> QED
      BY <2>1, ByteSum
  <1> HIDE DEF i
  <1>3. j \in Bytes
    <2>1. c.si2_ + c.state_[i] \in Nat
      BY <1>1, <1>2
    <2> QED
      BY <2>1, ByteSum
  <1> HIDE DEF j
  <1> DEFINE g == Cipher!swap_bytes(c.state_, i, j)
  <1>4. g \in Perms
    BY <1>1, <1>2, <1>3, SwapPerm
  <1>5. Cipher!Step(c) = [c EXCEPT !.si1_ = i, !.si2_ = j, !.state_ = g]
    BY DEF Cipher!Step, i, j
  <1> HIDE DEF g
  <1> QED
    BY <1>2, <1>3, <1>4, <1>5 DEF States

\* The cipher after n steps.
LEMMA AfterIs ==
  ASSUME NEW c \in States
  PROVE  \A n \in Nat : Cipher!After(c)[n] \in States
  <1> DEFINE T == [n \in Nat |-> n - 1]
             G == [n \in Nat |-> [x \in States |-> Cipher!Step(x)]]
             P(f) == f = [n \in Nat |-> IF n = 0 THEN c ELSE Cipher!Step(f[n - 1])]
  <1>1. \A n \in Nat \ {0} : T[n] \in 0..(n - 1) /\ T[n] = n - 1
    OBVIOUS
  <1>2. \A n \in Nat : \A x \in States : G[n][x] = Cipher!Step(x) /\ G[n][x] \in States
    BY StepState
  <1>3. RecursionData(States, c, T, G)
    BY <1>1, <1>2 DEF RecursionData
  <1> HIDE DEF T, G
  <1>4. PICK f : RecursiveFcn(f, States, c, T, G)
    BY <1>3, Recursion
  <1>5. f \in [Nat -> States] /\ f[0] = c /\ \A n \in Nat \ {0} : f[n] = Cipher!Step(f[n - 1])
    <2>1. f \in [Nat -> States] /\ f[0] = c /\ \A n \in Nat \ {0} : f[n] = G[n][f[T[n]]]
      BY <1>4 DEF RecursiveFcn
    <2>2. ASSUME NEW n \in Nat \ {0} PROVE f[n] = Cipher!Step(f[n - 1])
      <3>1. n - 1 \in Nat
        OBVIOUS
      <3>2. f[n] = G[n][f[n - 1]] /\ f[n - 1] \in States
        BY <1>1, <2>1, <3>1
      <3> QED
        BY <1>2, <3>2
    <2> QED
      BY <2>1, <2>2
  <1>6. P(f)
    <2> DEFINE g == [n \in Nat |-> IF n = 0 THEN c ELSE Cipher!Step(f[n - 1])]
    <2>1. \A n \in Nat : g[n] = f[n]
      BY <1>5
    <2>2. f = [n \in Nat |-> f[n]]
      BY <1>5
    <2> QED
      BY <2>1, <2>2
  <1>7. P(Cipher!After(c))
    <2>1. Cipher!After(c) = CHOOSE g : P(g)
      BY DEF Cipher!After
    <2> HIDE DEF P
    <2> QED
      BY <1>6, <2>1
  <1> DEFINE A == Cipher!After(c)
  <1> HIDE DEF A
  <1>8. A[0] = c /\ \A n \in Nat \ {0} : A[n] = Cipher!Step(A[n - 1])
    BY <1>7 DEF A
  <1> DEFINE S == {n \in Nat : A[n] \in States}
  <1>9. 0 \in S
    BY <1>8
  <1>10. ASSUME NEW n \in Nat, n \in S PROVE n + 1 \in S
    <2>1. n + 1 \in Nat \ {0} /\ (n + 1) - 1 = n
      OBVIOUS
    <2>2. A[n + 1] = Cipher!Step(A[n]) /\ A[n] \in States
      BY <1>8, <1>10, <2>1
    <2> QED
      BY <2>1, <2>2, StepState
  <1> HIDE DEF S
  <1>11. \A n \in Nat : n \in S
    BY <1>9, <1>10, Ind
  <1> QED
    BY <1>11 DEF S, A

\* What is mixed into the n-th byte of a message.
Pad(c, n) ==
  LET s == Cipher!After(c)[n] IN s.state_[(s.state_[s.si1_] + s.state_[s.si2_]) % Size]

\* What a byte of the message is combined with is a number.
LEMMA PadIs ==
  ASSUME NEW c \in States, NEW n \in Nat
  PROVE  Pad(c, n) \in Nat
  <1> DEFINE s == Cipher!After(c)[n]
  <1>1. s \in States
    BY AfterIs
  <1> HIDE DEF s
  <1>2. s.si1_ \in Bytes /\ s.si2_ \in Bytes /\ \A b \in Bytes : s.state_[b] \in Nat
    BY <1>1, StateFields, BytesAre
  <1>3. s.state_[s.si1_] + s.state_[s.si2_] \in Nat
    BY <1>2
  <1>4. (s.state_[s.si1_] + s.state_[s.si2_]) % Size \in Bytes
    BY <1>3, ByteSum
  <1>5. Pad(c, n) = s.state_[(s.state_[s.si1_] + s.state_[s.si2_]) % Size]
    BY DEF Pad, s
  <1> QED
    BY <1>2, <1>4, <1>5

Text == Seq(Bytes)
Ciphers == States \cup {NoCipher}

\* What the cipher c makes of a message, a cipher of the same state undoes.
LEMMA Reverted ==
  ASSUME NEW c \in Ciphers, NEW m \in Text
  PROVE  \E e \in Ciphers, d \in Seq(Nat) :
           /\ Cipher!transform(c, m) = <<e, d>>
           /\ Cipher!transform(c, d) = <<e, m>>
  <1>0. m \in Seq(Nat) /\ Len(m) \in Nat /\ DOMAIN m = 1..Len(m) /\ \A i \in 1..Len(m) : m[i] \in Bytes
    <2>1. Len(m) \in Nat /\ DOMAIN m = 1..Len(m) /\ \A i \in 1..Len(m) : m[i] \in Bytes
      BY LenProperties, ElementOfSeq DEF Text
    <2>2. Bytes \subseteq Nat
      BY BytesAre
    <2>3. m \in Seq(Nat)
      BY <2>2, SeqWiden DEF Text
    <2> QED
      BY <2>1, <2>3
  <1>1. CASE c = NoCipher
    <2>1. c.kind = "none"
      BY <1>1 DEF NoCipher
    <2>2. Cipher!transform(c, m) = <<c, m>>
      BY <2>1 DEF Cipher!transform
    <2> QED
      BY <1>0, <2>2
  <1>2. CASE c \in States
    <2>1. c.kind = "erseefor"
      BY <1>2, StateFields
    <2> DEFINE N == Len(m)  e == Cipher!After(c)[N]  d == [n \in 1..N |-> Cipher!xor(m[n], Pad(c, n))]
    <2>2. \A x : Cipher!transform(c, x) =
                 <<Cipher!After(c)[Len(x)], [n \in DOMAIN x |-> Cipher!xor(x[n], Pad(c, n))]>>
      BY <2>1 DEF Cipher!transform, Cipher!transform_bytes, Pad
    <2>3. e \in Ciphers
      BY <1>0, <1>2, AfterIs DEF Ciphers
    <2>4. \A n \in 1..N : Pad(c, n) \in Nat
      BY <1>0, <1>2, PadIs
    <2>5. \A n \in 1..N : /\ Cipher!xor(m[n], Pad(c, n)) \in Nat
                          /\ Cipher!xor(Cipher!xor(m[n], Pad(c, n)), Pad(c, n)) = m[n]
      <3> SUFFICES ASSUME NEW n \in 1..N
                   PROVE  /\ Cipher!xor(m[n], Pad(c, n)) \in Nat
                          /\ Cipher!xor(Cipher!xor(m[n], Pad(c, n)), Pad(c, n)) = m[n]
        OBVIOUS
      <3> DEFINE a == m[n]  b == Pad(c, n)  k == Size - 1
      <3>1. a \in 0..k /\ a \in Nat /\ b \in Nat /\ k \in Nat
        BY <1>0, <2>4, BytesAre, CipherAssumption DEF Bytes
      <3> HIDE DEF a, b
      <3>2. /\ Cipher!xor(a, b) = Cipher!XorTo[k][<<a, b>>]
            /\ Cipher!xor(Cipher!xor(a, b), b) = Cipher!XorTo[k][<<Cipher!XorTo[k][<<a, b>>], b>>]
        BY DEF Cipher!xor
      <3> HIDE DEF k
      <3>3. Cipher!XorTo[k][<<a, b>>] \in Nat
        BY <3>1, XorIs DEF Pairs
      <3>4. Cipher!XorTo[k][<<Cipher!XorTo[k][<<a, b>>], b>>] = a
        BY <3>1, XorTwice
      <3> QED
        BY <3>2, <3>3, <3>4 DEF a, b
    <2>6. d \in Seq(Nat) /\ Len(d) = N /\ DOMAIN d = 1..N
      <3>1. d \in [1..N -> Nat]
        BY <2>5
      <3> HIDE DEF d
      <3>2. d \in Seq(Nat)
        BY <1>0, <3>1, SeqDef
      <3>3. DOMAIN d = 1..N /\ Len(d) \in Nat /\ DOMAIN d = 1..Len(d)
        BY <3>1, <3>2, LenProperties
      <3> QED
        BY <1>0, <3>2, <3>3
    <2>7. \A n \in 1..N : d[n] = Cipher!xor(m[n], Pad(c, n))
      OBVIOUS
    <2>8. Cipher!transform(c, m) = <<e, d>>
      BY <1>0, <2>2
    <2> HIDE DEF d
    <2>9. [n \in DOMAIN d |-> Cipher!xor(d[n], Pad(c, n))] = m
      <3>1. \A n \in 1..N : Cipher!xor(d[n], Pad(c, n)) = m[n]
        BY <2>5, <2>7
      <3>2. [n \in DOMAIN d |-> Cipher!xor(d[n], Pad(c, n))] = [n \in 1..N |-> m[n]]
        BY <2>6, <3>1
      <3>3. m = [n \in 1..N |-> m[n]]
        BY <1>0
      <3> QED
        BY <3>2, <3>3
    <2>10. Cipher!transform(c, d) = <<e, m>>
      BY <2>2, <2>6, <2>9
    <2> QED
      BY <2>3, <2>6, <2>8, <2>10
  <1> QED
    BY <1>1, <1>2 DEF Ciphers

\* A key leaves a permutation of the bytes behind.
LEMMA InitKey ==
  ASSUME NEW key \in Seq(Bytes), key # <<>>
  PROVE  Cipher!init_key(key) \in States
  <1> DEFINE K(i) == key[(i % Len(key)) + 1]
             k(s, i) == (s.k + s.state_[i] + K(i)) % Size
             nx(s, i) == [state_ |-> Cipher!swap_bytes(s.state_, i, k(s, i)), k |-> k(s, i)]
             a == [state_ |-> [b \in Bytes |-> b], k |-> 0]
             S == [state_ : Perms, k : Bytes]
             T == [n \in Nat |-> n - 1]
             G == [n \in Nat |-> [x \in S |-> IF n \in 1..Size THEN nx(x, n - 1) ELSE x]]
             P(f) == f = [i \in 0..Size |-> IF i = 0 THEN a ELSE nx(f[i - 1], i - 1)]
  <1>0. Size \in Nat /\ Size > 0
    BY CipherAssumption
  <1>1. \A i \in Nat : K(i) \in Nat
    <2> SUFFICES ASSUME NEW i \in Nat PROVE K(i) \in Nat
      OBVIOUS
    <2>1. Len(key) \in Nat /\ Len(key) # 0
      BY LenProperties, EmptySeq
    <2>2. (i % Len(key)) + 1 \in 1..Len(key)
      BY <2>1
    <2>3. K(i) \in Bytes
      BY <2>2, ElementOfSeq
    <2> QED
      BY <2>3, BytesAre
  <1> HIDE DEF K
  <1>2. a \in S
    <2>1. [b \in Bytes |-> b] \in Perms
      BY DEF Perms
    <2> QED
      BY <2>1, BytesAre
  <1>3. ASSUME NEW s \in S, NEW i \in Bytes PROVE nx(s, i) \in S
    <2>1. s.state_ \in Perms /\ s.k \in Nat /\ s.state_[i] \in Nat /\ i \in Nat
      <3>1. s.state_ \in Perms /\ s.k \in Bytes /\ s.state_[i] \in Bytes
        BY DEF Perms
      <3> QED
        BY <3>1, BytesAre
    <2>2. K(i) \in Nat
      BY <1>1, <2>1
    <2>3. s.k + s.state_[i] + K(i) \in Nat
      BY <2>1, <2>2
    <2>4. k(s, i) \in Bytes
      BY <2>3, ByteSum
    <2> HIDE DEF k
    <2>5. Cipher!swap_bytes(s.state_, i, k(s, i)) \in Perms
      BY <2>1, <2>4, SwapPerm
    <2> QED
      BY <2>4, <2>5
  <1> HIDE DEF nx, a
  <1>4. \A n \in Nat \ {0} : T[n] \in 0..(n - 1) /\ T[n] = n - 1
    OBVIOUS
  <1>5. \A n \in Nat : \A x \in S :
          G[n][x] = (IF n \in 1..Size THEN nx(x, n - 1) ELSE x) /\ G[n][x] \in S
    <2>1. \A n \in 1..Size : n - 1 \in Bytes
      BY BytesAre
    <2>2. \A n \in Nat : \A x \in S : (IF n \in 1..Size THEN nx(x, n - 1) ELSE x) \in S
      BY <1>3, <2>1
    <2> HIDE DEF S
    <2> QED
      BY <2>2
  <1> HIDE DEF S, G, T
  <1>6. RecursionData(S, a, T, G)
    BY <1>2, <1>4, <1>5 DEF RecursionData
  <1>7. PICK f : RecursiveFcn(f, S, a, T, G)
    BY <1>6, Recursion
  <1>8. f[0] = a /\ \A i \in 1..Size : f[i] = nx(f[i - 1], i - 1)
    <2>1. f \in [Nat -> S] /\ f[0] = a /\ \A n \in Nat \ {0} : f[n] = G[n][f[T[n]]]
      BY <1>7 DEF RecursiveFcn
    <2>2. ASSUME NEW i \in 1..Size PROVE f[i] = nx(f[i - 1], i - 1)
      <3>1. i \in Nat \ {0} /\ i - 1 \in Nat
        BY <1>0
      <3>2. f[i] = G[i][f[i - 1]] /\ f[i - 1] \in S
        BY <1>4, <2>1, <3>1
      <3> QED
        BY <1>5, <3>1, <3>2
    <2> QED
      BY <2>1, <2>2
  <1>9. \E g : P(g)
    <2> DEFINE g == [i \in 0..Size |-> f[i]]
    <2>1. \A i \in 0..Size : i = 0 \/ (i \in 1..Size /\ i - 1 \in 0..Size)
      BY <1>0
    <2>2. 0 \in 0..Size
      BY <1>0
    <2>3. \A i \in 0..Size : g[i] = IF i = 0 THEN a ELSE nx(g[i - 1], i - 1)
      <3> SUFFICES ASSUME NEW i \in 0..Size PROVE g[i] = IF i = 0 THEN a ELSE nx(g[i - 1], i - 1)
        OBVIOUS
      <3>1. CASE i = 0
        BY <1>8, <3>1
      <3>2. CASE i # 0
        <4>1. i \in 1..Size /\ g[i] = f[i] /\ g[i - 1] = f[i - 1]
          BY <2>1, <3>2
        <4> QED
          BY <1>8, <3>2, <4>1
      <3> QED
        BY <3>1, <3>2
    <2>4. g = [i \in 0..Size |-> g[i]]
      OBVIOUS
    <2> HIDE DEF g
    <2>5. P(g)
      BY <2>3, <2>4
    <2> QED
      BY <2>5
  <1> DEFINE l == CHOOSE g : P(g)
  <1>10. P(l)
    <2> HIDE DEF P
    <2> QED
      BY <1>9
  <1>11. Cipher!init_key(key) = [kind |-> "erseefor", state_ |-> l[Size].state_, si1_ |-> 0, si2_ |-> 0]
    BY DEF Cipher!init_key, nx, a, K, Cipher!Byte, Bytes
  <1> HIDE DEF l
  <1>12. \A i \in 0..Size : l[i] = IF i = 0 THEN a ELSE nx(l[i - 1], i - 1)
    BY <1>10
  <1> DEFINE H == {n \in Nat : n \in 0..Size => l[n] \in S}
  <1>13. 0 \in H
    BY <1>0, <1>2, <1>12
  <1>14. ASSUME NEW n \in Nat, n \in H PROVE n + 1 \in H
    <2> SUFFICES ASSUME n + 1 \in 0..Size PROVE l[n + 1] \in S
      OBVIOUS
    <2>1. n \in 0..Size /\ n + 1 # 0 /\ (n + 1) - 1 = n /\ n \in Bytes
      BY <1>0 DEF Bytes
    <2>2. l[n + 1] = nx(l[n], n) /\ l[n] \in S
      BY <1>12, <1>14, <2>1
    <2> QED
      BY <1>3, <2>1, <2>2
  <1> HIDE DEF H
  <1>15. \A n \in Nat : n \in H
    BY <1>13, <1>14, Ind
  <1>16. l[Size] \in S
    BY <1>0, <1>15 DEF H
  <1>17. l[Size].state_ \in Perms
    BY <1>16 DEF S
  <1> QED
    BY <1>11, <1>17, BytesAre DEF States

\* A cipher is made for every known identifier.
LEMMA CreateKnown ==
  ASSUME NEW i \in {"TRANSFORM_ERSEEFOR", "TRANSFORM_NONE", "unknown"}, NEW s \in Secrets
  PROVE  \/ i = "unknown" /\ Cipher!create(i, Cipher!create_key(s)) = Cipher!Null
         \/ i # "unknown" /\ Cipher!create(i, Cipher!create_key(s)) \in Ciphers
  <1>1. KeyBytes[s] \in Seq(Bytes) /\ KeyBytes[s] # <<>> /\ drop_key_init \in Nat
    BY CipherAssumption DEF Bytes
  <1>2. CASE i = "TRANSFORM_ERSEEFOR"
    <2>1. Cipher!create(i, Cipher!create_key(s)) = Cipher!After(Cipher!init_key(KeyBytes[s]))[drop_key_init]
      BY <1>2 DEF Cipher!create, Cipher!create_key, Cipher!drop
    <2>2. Cipher!init_key(KeyBytes[s]) \in States
      BY <1>1, InitKey
    <2>3. Cipher!After(Cipher!init_key(KeyBytes[s]))[drop_key_init] \in States
      BY <1>1, <2>2, AfterIs
    <2> QED
      BY <1>2, <2>1, <2>3 DEF Ciphers
  <1>3. CASE i = "TRANSFORM_NONE"
    <2>1. Cipher!create(i, Cipher!create_key(s)) = NoCipher
      BY <1>3 DEF Cipher!create, NoCipher
    <2> QED
      BY <1>3, <2>1 DEF Ciphers
  <1>4. CASE i = "unknown"
    BY <1>4 DEF Cipher!create
  <1> QED
    BY <1>2, <1>3, <1>4

\* The state of the cipher before and after each message on its way.
Along(st) ==
  /\ st \in [0..Len(v4) -> Ciphers] /\ st[0] = v3 /\ st[Len(v4)] = v2
  /\ \A i \in 1..Len(v4) : Cipher!transform(st[i - 1], v5[Len(v6) + i]) = <<st[i], v4[i]>>

\* The inductive invariant: what was received is what was sent first, and each message on
\* the wire leads from the state in which it was transformed to that of the next, the first
\* of them the state of the revertor and the last that of the transformer.
CipherInv ==
  /\ v4 \in Seq(Seq(Nat)) /\ v5 \in Seq(Text) /\ v6 \in Seq(Text)
  /\ Len(v5) = Len(v6) + Len(v4) /\ \A i \in 1..Len(v6) : v6[i] = v5[i]
  /\ \/ v2 = Cipher!Null /\ v3 = Cipher!Null /\ v4 = <<>>
     \/ v2 # Cipher!Null /\ v3 # Cipher!Null /\ \E st : Along(st)

\* No cipher is not one of the states.
LEMMA NullIsNone ==
  ASSUME NEW c \in Ciphers
  PROVE  c # Cipher!Null
  <1>1. c.kind = "erseefor" \/ c.kind = "none"
    BY StateFields DEF Ciphers, NoCipher
  <1> QED
    BY <1>1 DEF Cipher!Null

\* Both ends after the transform was agreed on.
LEMMA CipherStart ==
  ASSUME Cipher!Init
  PROVE  CipherInv
  <1>1. /\ v1 \in {"TRANSFORM_ERSEEFOR", "TRANSFORM_NONE", "unknown"} /\ v4 = <<>> /\ v5 = <<>> /\ v6 = <<>>
    BY DEF Cipher!Init
  <1>2. PICK s \in Secrets : /\ v2 = Cipher!create(v1, Cipher!create_key(s))
                             /\ v3 = Cipher!create(v1, Cipher!create_key(s))
    BY DEF Cipher!Init
  <1>3. v3 = v2 /\ (v2 = Cipher!Null \/ v2 \in Ciphers)
    BY <1>1, <1>2, CreateKnown
  <1>4. /\ v4 \in Seq(Seq(Nat)) /\ v5 \in Seq(Text) /\ v6 \in Seq(Text)
        /\ Len(v4) = 0 /\ Len(v5) = 0 /\ Len(v6) = 0
    BY <1>1
  <1>5. CASE v2 \in Ciphers
    <2> DEFINE st == [i \in 0..0 |-> v2]
    <2>1. st \in [0..0 -> Ciphers] /\ st[0] = v2
      BY <1>5
    <2> HIDE DEF st
    <2>2. 1..0 = {}
      OBVIOUS
    <2>3. Along(st)
      BY <1>3, <1>4, <2>1, <2>2 DEF Along
    <2> QED
      BY <1>3, <1>4, <1>5, <2>2, <2>3, NullIsNone DEF CipherInv
  <1>6. CASE v2 = Cipher!Null
    <2>1. 1..0 = {} /\ 0 = 0 + 0
      OBVIOUS
    <2> QED
      BY <1>1, <1>3, <1>4, <1>6, <2>1 DEF CipherInv
  <1> QED
    BY <1>3, <1>5, <1>6

\* A message is transformed and put on the wire.
LEMMA CipherSend ==
  ASSUME CipherInv, NEW m \in Messages, Cipher!send(m)
  PROVE  CipherInv'
  <1> DEFINE N == Len(v4)  R == Len(v6)
  <1>1. /\ v4 \in Seq(Seq(Nat)) /\ v5 \in Seq(Text) /\ v6 \in Seq(Text)
        /\ Len(v5) = R + N /\ \A i \in 1..R : v6[i] = v5[i]
    BY DEF CipherInv
  <1>2. v2 # Cipher!Null /\ v3 # Cipher!Null /\ \E st : Along(st)
    BY DEF CipherInv, Cipher!send, Cipher!Works
  <1>3. PICK st : Along(st)
    BY <1>2
  <1>4. N \in Nat /\ R \in Nat /\ Len(v5) \in Nat
    BY <1>1, LenProperties
  <1>5. m \in Text
    BY CipherAssumption DEF Text, Bytes
  <1>6. /\ st \in [0..N -> Ciphers] /\ st[0] = v3 /\ st[N] = v2
        /\ \A i \in 1..N : Cipher!transform(st[i - 1], v5[R + i]) = <<st[i], v4[i]>>
    BY <1>3 DEF Along
  <1>7. v2 \in Ciphers
    BY <1>4, <1>6
  <1>8. PICK e \in Ciphers, d \in Seq(Nat) : Cipher!transform(v2, m) = <<e, d>>
    BY <1>5, <1>7, Reverted
  <1>9. v2' = e /\ v4' = Append(v4, d) /\ v5' = Append(v5, m) /\ v3' = v3 /\ v6' = v6
    BY <1>8 DEF Cipher!send
  <1>10. /\ v4' \in Seq(Seq(Nat)) /\ Len(v4') = N + 1 /\ v4'[N + 1] = d /\ \A i \in 1..N : v4'[i] = v4[i]
    BY <1>1, <1>8, <1>9, AppendAt
  <1>11. /\ v5' \in Seq(Text) /\ Len(v5') = (R + N) + 1 /\ v5'[(R + N) + 1] = m
         /\ \A i \in 1..(R + N) : v5'[i] = v5[i]
    <2>1. /\ v5' \in Seq(Text) /\ Len(v5') = Len(v5) + 1 /\ v5'[Len(v5) + 1] = m
          /\ \A i \in 1..Len(v5) : v5'[i] = v5[i]
      BY <1>1, <1>5, <1>9, AppendAt
    <2> QED
      BY <1>1, <2>1
  <1> HIDE DEF N, R
  <1>12. PICK su : /\ su \in [0..(N + 1) -> Ciphers] /\ su[N + 1] = e /\ \A i \in 0..N : su[i] = st[i]
    <2> DEFINE w == [i \in 0..(N + 1) |-> IF i = N + 1 THEN e ELSE st[i]]
    <2>1. /\ w \in [0..(N + 1) -> Ciphers] /\ w[N + 1] = e /\ \A i \in 0..N : w[i] = st[i]
      BY <1>4, <1>6
    <2> HIDE DEF w
    <2> QED
      BY <2>1
  <1>13. ASSUME NEW i \in 1..(N + 1) PROVE Cipher!transform(su[i - 1], v5'[R + i]) = <<su[i], v4'[i]>>
    <2>1. CASE i = N + 1
      <3>1. i - 1 = N /\ N \in 0..N /\ R + i = (R + N) + 1
        BY <1>4, <2>1
      <3>2. su[i - 1] = v2 /\ v5'[R + i] = m /\ su[i] = e /\ v4'[i] = d
        BY <1>6, <1>10, <1>11, <1>12, <2>1, <3>1
      <3> QED
        BY <1>8, <3>2
    <2>2. CASE i \in 1..N
      <3>1. i - 1 \in 0..N /\ i \in 0..N /\ R + i \in 1..(R + N)
        BY <1>4, <2>2
      <3>2. su[i - 1] = st[i - 1] /\ v5'[R + i] = v5[R + i] /\ su[i] = st[i] /\ v4'[i] = v4[i]
        BY <1>10, <1>11, <1>12, <2>2, <3>1
      <3> QED
        BY <1>6, <2>2, <3>2
    <2> QED
      BY <1>4, <2>1, <2>2
  <1>14. Along(su)'
    <2>1. 0 \in 0..N /\ N + 1 = Len(v4')
      BY <1>4, <1>10
    <2>2. su[0] = v3' /\ su[Len(v4')] = v2' /\ Len(v6') = R
      BY <1>6, <1>9, <1>12, <2>1 DEF R
    <2>3. su \in [0..Len(v4') -> Ciphers]
      BY <1>12, <2>1
    <2>4. \A i \in 1..Len(v4') : Cipher!transform(su[i - 1], v5'[Len(v6') + i]) = <<su[i], v4'[i]>>
      BY <1>13, <2>1, <2>2
    <2> QED
      BY <2>2, <2>3, <2>4 DEF Along
  <1>15. Len(v5') = Len(v6') + Len(v4')
    <2>1. Len(v6') = R /\ Len(v4') = N + 1 /\ Len(v5') = (R + N) + 1
      BY <1>9, <1>10, <1>11 DEF R
    <2>2. (R + N) + 1 = R + (N + 1)
      BY <1>4
    <2> QED
      BY <2>1, <2>2
  <1>16. \A i \in 1..Len(v6') : v6'[i] = v5'[i]
    <2> SUFFICES ASSUME NEW i \in 1..R PROVE v6[i] = v5'[i]
      BY <1>9 DEF R
    <2>1. i \in 1..(R + N)
      BY <1>4
    <2> QED
      BY <1>1, <1>11, <2>1
  <1>17. v2' # Cipher!Null /\ v3' # Cipher!Null
    BY <1>2, <1>8, <1>9, NullIsNone
  <1> QED
    BY <1>1, <1>9, <1>10, <1>11, <1>14, <1>15, <1>16, <1>17 DEF CipherInv

\* A message is taken from the wire and reverted.
LEMMA CipherReceive ==
  ASSUME CipherInv, Cipher!receive
  PROVE  CipherInv'
  <1> DEFINE N == Len(v4)  R == Len(v6)
  <1>1. /\ v4 \in Seq(Seq(Nat)) /\ v5 \in Seq(Text) /\ v6 \in Seq(Text)
        /\ Len(v5) = R + N /\ \A i \in 1..R : v6[i] = v5[i]
    BY DEF CipherInv
  <1>2. v4 # <<>>
    BY DEF Cipher!receive
  <1>3. v2 # Cipher!Null /\ v3 # Cipher!Null /\ \E st : Along(st)
    BY <1>2 DEF CipherInv
  <1>4. PICK st : Along(st)
    BY <1>3
  <1>5. N \in Nat /\ R \in Nat /\ N > 0
    BY <1>1, <1>2, LenProperties, EmptySeq
  <1>6. /\ st \in [0..N -> Ciphers] /\ st[0] = v3 /\ st[N] = v2
        /\ \A i \in 1..N : Cipher!transform(st[i - 1], v5[R + i]) = <<st[i], v4[i]>>
    BY <1>4 DEF Along
  <1> DEFINE m == v5[R + 1]
  <1>7. m \in Text
    <2>1. R + 1 \in 1..Len(v5)
      BY <1>1, <1>5
    <2> QED
      BY <1>1, <2>1, ElementOfSeq
  <1>8. v3 \in Ciphers /\ st[1] \in Ciphers
    <2>1. 0 \in 0..N /\ 1 \in 0..N
      BY <1>5
    <2> QED
      BY <1>6, <2>1
  <1>9. Cipher!transform(v3, m) = <<st[1], v4[1]>>
    <2>1. 1 \in 1..N /\ 1 - 1 = 0
      BY <1>5
    <2>2. Cipher!transform(st[1 - 1], v5[R + 1]) = <<st[1], v4[1]>>
      BY <1>6, <2>1
    <2> QED
      BY <1>6, <2>1, <2>2
  <1>10. Cipher!transform(v3, v4[1]) = <<st[1], m>>
    <2> HIDE DEF m
    <2>1. PICK e \in Ciphers, d \in Seq(Nat) :
            Cipher!transform(v3, m) = <<e, d>> /\ Cipher!transform(v3, d) = <<e, m>>
      BY <1>7, <1>8, Reverted
    <2>2. e = st[1] /\ d = v4[1]
      BY <1>9, <2>1
    <2> QED
      BY <2>1, <2>2
  <1>11. Head(v4) = v4[1]
    BY <1>1, <1>2
  <1>12. v3' = st[1] /\ v6' = Append(v6, m) /\ v4' = Tail(v4) /\ v2' = v2 /\ v5' = v5
    BY <1>10, <1>11 DEF Cipher!receive
  <1>13. /\ v4' \in Seq(Seq(Nat)) /\ Len(v4') = N - 1 /\ \A i \in 1..(N - 1) : v4'[i] = v4[i + 1]
    BY <1>1, <1>2, <1>12, TailAt
  <1>14. /\ v6' \in Seq(Text) /\ Len(v6') = R + 1 /\ v6'[R + 1] = m /\ \A i \in 1..R : v6'[i] = v6[i]
    BY <1>1, <1>7, <1>12, AppendAt
  <1> HIDE DEF N, R
  <1>15. \A i \in 0..(N - 1) : i + 1 \in 0..N
    BY <1>5
  <1>16. PICK su : su \in [0..(N - 1) -> Ciphers] /\ \A i \in 0..(N - 1) : su[i] = st[i + 1]
    <2> DEFINE w == [i \in 0..(N - 1) |-> st[i + 1]]
    <2>1. w \in [0..(N - 1) -> Ciphers] /\ \A i \in 0..(N - 1) : w[i] = st[i + 1]
      BY <1>6, <1>15
    <2> HIDE DEF w
    <2> QED
      BY <2>1
  <1> HIDE DEF m
  <1>17. ASSUME NEW i \in 1..(N - 1)
         PROVE  Cipher!transform(su[i - 1], v5'[(R + 1) + i]) = <<su[i], v4'[i]>>
    <2>1. /\ i - 1 \in 0..(N - 1) /\ i \in 0..(N - 1) /\ (i - 1) + 1 = i
          /\ i + 1 \in 1..N /\ (i + 1) - 1 = i /\ (R + 1) + i = R + (i + 1)
      BY <1>5
    <2>2. Cipher!transform(st[(i + 1) - 1], v5[R + (i + 1)]) = <<st[i + 1], v4[i + 1]>>
      BY <1>6, <2>1
    <2>3. su[i - 1] = st[i] /\ su[i] = st[i + 1] /\ v4'[i] = v4[i + 1]
      BY <1>13, <1>16, <2>1
    <2> QED
      BY <1>12, <2>1, <2>2, <2>3
  <1>18. Along(su)'
    <2>1. 0 \in 0..(N - 1) /\ 0 + 1 = 1 /\ N - 1 \in 0..(N - 1) /\ (N - 1) + 1 = N
      BY <1>5
    <2>2. su[0] = v3' /\ su[N - 1] = v2'
      BY <1>6, <1>12, <1>16, <2>1
    <2> QED
      BY <1>13, <1>14, <1>16, <1>17, <2>2 DEF Along
  <1>19. Len(v5') = Len(v6') + Len(v4')
    <2>1. Len(v5') = R + N
      BY <1>1, <1>12 DEF R, N
    <2>2. R + N = (R + 1) + (N - 1)
      BY <1>5
    <2> QED
      BY <1>13, <1>14, <2>1, <2>2
  <1>20. \A i \in 1..Len(v6') : v6'[i] = v5'[i]
    <2> SUFFICES ASSUME NEW i \in 1..(R + 1) PROVE v6'[i] = v5[i]
      BY <1>12, <1>14
    <2>1. i = R + 1 \/ i \in 1..R
      BY <1>5
    <2>2. \A j \in 1..R : v6[j] = v5[j]
      BY <1>1 DEF R
    <2> QED
      BY <1>14, <2>1, <2>2 DEF m
  <1>21. v2' # Cipher!Null /\ v3' # Cipher!Null
    BY <1>3, <1>8, <1>12, NullIsNone
  <1> QED
    BY <1>1, <1>12, <1>13, <1>14, <1>18, <1>19, <1>20, <1>21 DEF CipherInv

\* Every step keeps the invariant.
LEMMA CipherStep ==
  ASSUME CipherInv, Cipher!Next
  PROVE  CipherInv'
  BY CipherSend, CipherReceive DEF Cipher!Next

\* A step that leaves these variables alone keeps the invariant.
LEMMA CipherRests ==
  ASSUME CipherInv, UNCHANGED <<v1, v2, v3, v4, v5, v6>>
  PROVE  CipherInv'
  BY DEF CipherInv, Along

\* The invariant contains what the run checks.
LEMMA CipherSound ==
  ASSUME CipherInv
  PROVE  Cipher!InStep
  <1>1. /\ v4 \in Seq(Seq(Nat)) /\ v5 \in Seq(Text) /\ v6 \in Seq(Text)
        /\ Len(v5) = Len(v6) + Len(v4) /\ \A i \in 1..Len(v6) : v6[i] = v5[i]
        /\ \/ v2 = Cipher!Null /\ v3 = Cipher!Null /\ v4 = <<>>
           \/ v2 # Cipher!Null /\ v3 # Cipher!Null /\ \E st : Along(st)
    BY DEF CipherInv
  <1>2. Len(v4) \in Nat /\ Len(v5) \in Nat /\ Len(v6) \in Nat /\ Len(v6) <= Len(v5)
    BY <1>1, LenProperties
  <1> DEFINE R == Len(v6)
  <1>3. v6 = SubSeq(v5, 1, R)
    <2>1. R \in Nat /\ R <= Len(v5) /\ 1 <= R + 1 /\ 1 \in Nat \ {0} /\ R + 1 - 1 = R /\ \A i \in 1..R : 1 - 1 + i = i
      BY <1>2
    <2> HIDE DEF R
    <2>2. /\ SubSeq(v5, 1, R) \in Seq(Text) /\ Len(SubSeq(v5, 1, R)) = R + 1 - 1
          /\ \A i \in 1..(R + 1 - 1) : SubSeq(v5, 1, R)[i] = v5[1 - 1 + i]
      BY <1>1, <2>1, SubSeqAt
    <2>3. Len(SubSeq(v5, 1, R)) = Len(v6) /\ \A i \in 1..Len(v6) : v6[i] = SubSeq(v5, 1, R)[i]
      BY <1>1, <2>1, <2>2 DEF R
    <2> QED
      BY <1>1, <2>2, <2>3, SameSeq
  <1>4. v4 = <<>> => v2 = v3 /\ v6 = v5
    <2> SUFFICES ASSUME v4 = <<>> PROVE v2 = v3 /\ v6 = v5
      OBVIOUS
    <2>1. Len(v4) = 0
      OBVIOUS
    <2>2. Len(v6) = Len(v5)
      BY <1>1, <1>2, <2>1
    <2>3. v6 = v5
      BY <1>1, <2>2, SameSeq
    <2>4. v2 = v3
      BY <1>1, <2>1 DEF Along
    <2> QED
      BY <2>3, <2>4
  <1>5. \A c \in {v2, v3} : c = Cipher!Null \/ c \in Ciphers
    <2>1. CASE \E st : Along(st)
      <3>1. PICK st : Along(st)
        BY <2>1
      <3>2. 0 \in 0..Len(v4) /\ Len(v4) \in 0..Len(v4)
        BY <1>2
      <3> QED
        BY <3>1, <3>2 DEF Along
    <2> QED
      BY <1>1, <2>1
  <1>6. ASSUME NEW c \in {v2, v3}, c.kind = "erseefor"
        PROVE  {c.state_[b] : b \in Bytes} = Bytes
    <2>1. c # Cipher!Null /\ c # NoCipher
      BY <1>6 DEF Cipher!Null, NoCipher
    <2>2. c \in States
      BY <1>5, <2>1 DEF Ciphers
    <2>3. c.state_ \in [Bytes -> Bytes] /\ \A b \in Bytes : \E a \in Bytes : c.state_[a] = b
      BY <2>2, StateFields DEF Perms
    <2> QED
      BY <2>3
  <1> QED
    BY <1>3, <1>4, <1>6 DEF Cipher!InStep, Cipher!IsCipher, Cipher!Byte, Bytes

(***************************************************************************)
(* The parts of MCLibrary that belong to the client: one of them runs, and *)
(* its invariant holds.                                                    *)
(***************************************************************************)

\* What is known of the part that runs.
ClientPartInv ==
  /\ part = "client" => ClientInv
  /\ part = "services" => ServicesInv
  /\ part = "cipher" => CipherInv

\* It holds when the part begins.
LEMMA ClientPartInvStart ==
  ASSUME LibraryInit
  PROVE  ClientPartInv
  <1>1. /\ part = "client" => Client!Init
        /\ part = "services" => Services!Init
        /\ part = "cipher" => Cipher!Init
    BY DEF LibraryInit
  <1> QED
    BY <1>1, ClientStart, ServicesStart, CipherStart DEF ClientPartInv

\* A step that leaves the variables alone keeps what is known.
LEMMA ClientRests ==
  ASSUME ClientInv, UNCHANGED all
  PROVE  ClientInv'
  <1>1. /\ v1' = v1 /\ v2' = v2 /\ v3' = v3 /\ v4' = v4 /\ v5' = v5 /\ v9' = v9 /\ v10' = v10 /\ v11' = v11
        /\ v12' = v12 /\ v13' = v13 /\ v14' = v14 /\ v15' = v15
    BY DEF all
  <1>2. ClientTypes'
    BY <1>1 DEF ClientInv, ClientTypes
  <1>3. Placed' /\ Unfinished' /\ CallHolds'
    BY <1>1 DEF ClientInv, Placed, Unfinished, CallHolds
  <1>4. ReadKeepsNothing' /\ BlamedInv' /\ DanglingInv'
    BY <1>1 DEF ClientInv, ReadKeepsNothing, BlamedInv, DanglingInv
  <1> QED
    BY <1>2, <1>3, <1>4 DEF ClientInv

\* A step that leaves the variables alone keeps what is known.
LEMMA ServicesRest ==
  ASSUME ServicesInv, UNCHANGED all
  PROVE  ServicesInv'
  <1>1. v1' = v1 /\ v2' = v2 /\ v3' = v3 /\ v4' = v4 /\ v5' = v5 /\ v6' = v6 /\ v8' = v8 /\ v9' = v9 /\ v10' = v10
    BY DEF all
  <1>2. \A o : Services!Alive(o)' <=> Services!Alive(o)
    BY <1>1 DEF Services!Alive
  <1>3. RegistryTypes'
    BY <1>1 DEF ServicesInv, RegistryTypes
  <1>4. RegisteredInv' /\ SeenInv'
    BY <1>1, <1>2 DEF ServicesInv, RegisteredInv, SeenInv
  <1>5. SureInv'
    BY <1>1, <1>2 DEF ServicesInv, SureInv
  <1> QED
    BY <1>3, <1>4, <1>5 DEF ServicesInv

\* Every step of the part that runs keeps it, whichever part that is.
LEMMA ClientPartInvStep ==
  ASSUME ClientPartInv, [LibraryNext]_all
  PROVE  ClientPartInv'
  <1>1. CASE UNCHANGED all
    <2>1. part' = part
      BY <1>1 DEF all
    <2>2. /\ ClientInv => ClientInv'
          /\ ServicesInv => ServicesInv'
      BY <1>1, ClientRests, ServicesRest
    <2>3. CipherInv => CipherInv'
      <3>1. UNCHANGED <<v1, v2, v3, v4, v5, v6>>
        BY <1>1 DEF all
      <3> QED
        BY <3>1, CipherRests
    <2> QED
      BY <2>1, <2>2, <2>3 DEF ClientPartInv
  <1>2. CASE LibraryNext
    <2>1. part' = part
      BY <1>2 DEF LibraryNext, Same15, Same13, Same10, Same9, Same8, Same6, Same5
    <2>2. /\ part = "client" => Client!Next
          /\ part = "services" => Services!Next
          /\ part = "cipher" => Cipher!Next
      BY <1>2 DEF LibraryNext
    <2> QED
      BY <2>1, <2>2, ClientStep, ServicesStep, CipherStep DEF ClientPartInv
  <1> QED
    BY <1>1, <1>2

\* For any number of connections, any changes of the registry, any keys and any messages,
\* the handlers of a client follow no pointer to what was freed and a connect is ended only
\* by a failure that concerns it, but in the cases the ClientLife module names; a lookup
\* finds what is registered; and a message is reverted to what was sent, the ciphers of
\* both ends in step.  (client/stream-impl.h, client.cpp: on_init_error, base.cpp:
\* get_handler, erseefor.h: transform)
THEOREM AnswersAreHonest == LibrarySpec => []AnswersHonest
  <1>1. ClientPartInv => AnswersHonest
    BY ClientSound, ServicesSound, CipherSound DEF ClientPartInv, AnswersHonest
  <1> QED
    BY <1>1, ClientPartInvStart, ClientPartInvStep, PTL DEF LibrarySpec
==============================================================================
