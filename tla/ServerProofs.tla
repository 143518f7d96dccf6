---------------------------- MODULE ServerProofs -----------------------------
(***************************************************************************)
(* Proofs about the server: for any number of requests and any limit, the  *)
(* counter of active calls is exact, a place is given back at most once,   *)
(* and the limit is kept; for any number of starts and clients, a listener *)
(* that is active listens; and a shutdown leaves no thread and no timer    *)
(* behind.                                                                 *)
(***************************************************************************)
EXTENDS ServerCalls, MCLibrary, Lemmas

(* What the state of a call says about its holder. internal_closure_ is     *)
(* still set exactly while the place may have to be given back by the       *)
(* holder's destructor.                                                     *)

HolderOf(c) ==
  /\ pc[c] \in {"none", "busy", "queued"} =>
       /\ closure[c] = "absent" /\ ~kept[c] /\ ~runner[c]
       /\ ~internal[c] /\ doneRuns[c] = 0
  /\ pc[c] \in {"method", "failing", "settle"} =>
       internal[c] /\ doneRuns[c] = 0
  /\ pc[c] \in {"failing", "settle"} => c \in threw
  /\ pc[c] = "leave" => doneRuns[c] = (IF internal[c] THEN 0 ELSE 1)
  /\ pc[c] = "over" /\ internal[c] /\ (closure[c] = "live" \/ runner[c]) =>
       doneRuns[c] = 0
  /\ runner[c] => closure[c] = "run"
  /\ closure[c] # "absent" /\ c \notin threw => internal[c]
  /\ doneRuns[c] \in {0, 1}

HolderInv == \A c \in Call : HolderOf(c)

Fresh == \A c \in Call : c > arrived => pc[c] = "none"

CountInv ==
  /\ TypeOK
  /\ Fresh
  /\ HolderInv
  /\ current = Cardinality(Counted)

(* What a call that is on its way out, or is over, still owes: the place    *)
(* of one that holds it is going to be given back by the thread that still  *)
(* has the holder, or it is one of the exceptions of PlaceReturned.         *)

OwesOf(c) ==
  /\ pc[c] \in {"none", "busy", "queued", "method"} => c \notin threw
  /\ pc[c] \in {"method", "leave"} /\ c \notin threw =>
       closure[c] \in {"live", "run"}
  /\ pc[c] = "leave" /\ c \notin threw => kept[c] \/ closure[c] = "run"
  /\ pc[c] = "leave" /\ internal[c] /\ c \in threw => ~wait[c]
  /\ pc[c] = "over" /\ ~internal[c] /\ closure[c] # "absent" => doneRuns[c] = 1
  /\ runner[c] => kept[c]

OwesInv == (\A c \in Call : OwesOf(c)) /\ PlaceReturned

(* What was said about a call: its closure answers once when it is run, and *)
(* the refusal or the caught exception once; a closure that was run without *)
(* an answer outlived the connection.                                       *)

Answered(c) ==
  (IF closure[c] = "run" THEN 1 ELSE 0)
    + (IF \/ c \in threw /\ pc[c] \in {"settle", "leave", "over"}
          \/ closure[c] = "absent" /\ pc[c] = "over"
       THEN 1 ELSE 0)

AnswerOf(c) ==
  /\ Len(answers[c]) <= Answered(c)
  /\ closure[c] = "unwound" => c \in threw
  /\ pc[c] \in {"leave", "over"} /\ c \notin threw /\ closure[c] # "absent" =>
       closure[c] = "run" \/ (closure[c] = "live" /\ kept[c])
  /\ closure[c] = "run" /\ answers[c] = <<>> => kept[c] /\ dropped
  /\ pc[c] \in {"settle", "leave", "over"} /\ c \in threw /\ wait[c] =>
       answers[c] # <<>>
  /\ pc[c] = "over" /\ c \notin threw /\ closure[c] = "absent" /\ wait[c]
       /\ answers[c] = <<>> => ~reading

AnswerInv == \A c \in Call : AnswerOf(c)

------------------------------------------------------------------------------
(* Counting.                                                                *)

\* Call is finite, so are its subsets, and none is larger.
LEMMA CallFinite ==
  /\ IsFiniteSet(Call)
  /\ \A S \in SUBSET Call : /\ IsFiniteSet(S)
                            /\ Cardinality(S) \in 0..MaxCalls
<1>1. IsFiniteSet(Call) /\ Cardinality(Call) = MaxCalls
  BY FS_Interval, ServerCallsAssumption DEF Call
<1>2. ASSUME NEW S \in SUBSET Call
      PROVE  IsFiniteSet(S) /\ Cardinality(S) \in 0..MaxCalls
  <2>1. IsFiniteSet(S) /\ Cardinality(S) <= Cardinality(Call)
    BY <1>1, FS_Subset
  <2>2. Cardinality(S) \in Nat
    BY <2>1, FS_CardinalityType
  <2> QED  BY <1>1, <2>1, <2>2, ServerCallsAssumption
<1> QED  BY <1>1, <1>2

\* A step that neither adds a call nor gives a place back keeps Counted.
LEMMA CountedSame ==
  ASSUME TypeOK, UNCHANGED <<current, doneRuns>>,
         \A c \in Call : pc[c] = "none" <=> pc'[c] = "none",
         current = Cardinality(Counted)
  PROVE  current' = Cardinality(Counted')
<1>1. Counted' = Counted
  BY DEF Counted, TypeOK
<1> QED  BY <1>1

\* call_done of a call that holds a place takes it out of Counted and
\* current_calls_ down by one, without wrapping.
LEMMA CountedLess ==
  ASSUME TypeOK, NEW c \in Call, pc[c] # "none", doneRuns[c] = 0, call_done(c),
         \A d \in Call : pc[d] = "none" <=> pc'[d] = "none",
         current = Cardinality(Counted)
  PROVE  current' = Cardinality(Counted') /\ current' \in 0..MaxCalls
<1>1. Counted' = Counted \ {c} /\ c \in Counted
  BY DEF Counted, TypeOK, call_done
<1>2. IsFiniteSet(Counted) /\ Cardinality(Counted) \in 0..MaxCalls
  BY CallFinite DEF Counted
<1>3. Cardinality(Counted \ {c}) = Cardinality(Counted) - 1
  BY <1>1, <1>2, FS_RemoveElement
<1>4. IsFiniteSet(Counted \ {c})
  BY <1>2, FS_RemoveElement
<1>5. Cardinality(Counted \ {c}) \in Nat
  BY <1>4, FS_CardinalityType
<1>6. current # 0
  BY <1>2, <1>3, <1>5
<1>7. current' = current - 1
  BY <1>6 DEF call_done, Decrement
<1> QED  BY <1>1, <1>2, <1>3, <1>5, <1>7, ServerCallsAssumption

\* A new call is one more.
LEMMA CountedMore ==
  ASSUME TypeOK, NEW c \in Call, pc[c] = "none", doneRuns[c] = 0,
         pc'[c] # "none", UNCHANGED doneRuns, current' = current + 1,
         \A d \in Call \ {c} : pc[d] = "none" <=> pc'[d] = "none",
         current = Cardinality(Counted)
  PROVE  current' = Cardinality(Counted') /\ current' \in 0..MaxCalls
<1>1. Counted' = Counted \cup {c} /\ c \notin Counted
  BY DEF Counted, TypeOK
<1>2. IsFiniteSet(Counted)
  BY CallFinite DEF Counted
<1>3. Cardinality(Counted \cup {c}) = Cardinality(Counted) + 1
  BY <1>1, <1>2, FS_AddElement
<1>4. Cardinality(Counted') \in 0..MaxCalls
  <2>1. Counted' \in SUBSET Call  BY <1>1 DEF Counted
  <2> QED  BY <2>1, CallFinite
<1> QED  BY <1>1, <1>3, <1>4

------------------------------------------------------------------------------
(* The inductive invariant, one lemma for each kind of step.                *)

\* What is sent keeps the type of answers.
LEMMA SendTyped ==
  ASSUME answers \in [Call -> Seq(Reply)], NEW c \in Call, NEW kind \in Reply,
         Send(c, kind)
  PROVE  answers' \in [Call -> Seq(Reply)]
<1>1. answers[c] \in Seq(Reply)
  OBVIOUS
<1>2. Append(answers[c], kind) \in Seq(Reply)
  BY <1>1, AppendProperties
<1> QED  BY <1>2 DEF Send

\* A reader step that touches no call.
LEMMA ReaderKeeps ==
  ASSUME CountInv, DataReady \/ QueueEmpty \/ on_write_error \/ on_close
  PROVE  CountInv'
<1> USE DEF CountInv
<1>1. UNCHANGED <<current, callVars, arrived, answers, doneRuns, threw, early>>
  BY DEF DataReady, QueueEmpty, on_write_error, on_close, readerVars, connVars
<1>2. TypeOK'
  BY <1>1 DEF TypeOK, callVars, DataReady, QueueEmpty, on_write_error, on_close,
              readerVars, connVars
<1>3. HolderInv' /\ Fresh'
  BY <1>1 DEF HolderInv, HolderOf, Fresh, callVars
<1>4. current' = Cardinality(Counted')
  BY <1>1, CountedSame DEF callVars
<1> QED  BY <1>2, <1>3, <1>4

\* A new request takes a place.
LEMMA ProcessCallKeeps ==
  ASSUME CountInv, NEW w \in BOOLEAN, process_call(w)
  PROVE  CountInv'
<1> USE DEF CountInv
<1> DEFINE c == arrived + 1
<1>1. c \in Call /\ arrived' = c /\ arrived' \in 0..MaxCalls
  BY ServerCallsAssumption DEF process_call, TypeOK, Call
<1>2. pc[c] = "none" /\ doneRuns[c] = 0
  BY <1>1, ServerCallsAssumption DEF Fresh, HolderInv, HolderOf, TypeOK
<1>3. current' = current + 1 /\ UNCHANGED doneRuns
  BY DEF process_call
<1>4. pc'[c] \in {"queued", "busy"} /\ \A d \in Call \ {c} : pc'[d] = pc[d]
  BY <1>1 DEF process_call, TypeOK
<1>5. current' = Cardinality(Counted') /\ current' \in 0..MaxCalls
  <2>1. pc'[c] # "none"  BY <1>4
  <2>2. \A d \in Call \ {c} : pc[d] = "none" <=> pc'[d] = "none"  BY <1>4
  <2> HIDE DEF c
  <2> QED  BY <1>1, <1>2, <1>3, <2>1, <2>2, CountedMore
<1>6. TypeOK'
  BY <1>1, <1>5 DEF process_call, TypeOK, Pcs, connVars
<1>7. HolderInv'
  BY <1>1, <1>2, <1>4 DEF process_call, HolderInv, HolderOf, TypeOK
<1>8. Fresh'
  BY <1>1, <1>4, ServerCallsAssumption DEF Fresh, TypeOK, Call
<1> QED  BY <1>5, <1>6, <1>7, <1>8

\* A refusal gives the place back at once, unless it raises.
LEMMA SendBusyKeeps ==
  ASSUME CountInv, NEW c \in Call, send_busy(c)
  PROVE  CountInv'
<1> USE DEF CountInv
<1>1. pc[c] = "busy" /\ pc' = [pc EXCEPT ![c] = "over"] /\ doneRuns[c] = 0
  BY DEF send_busy, HolderInv, HolderOf
<1>2. \A d \in Call : pc[d] = "none" <=> pc'[d] = "none"
  BY <1>1 DEF TypeOK
<1>3. \/ UNCHANGED <<current, doneRuns>>
      \/ call_done(c)
  BY DEF send_busy
<1>4. current' = Cardinality(Counted') /\ current' \in 0..MaxCalls
  <2>1. CASE UNCHANGED <<current, doneRuns>>
    BY <1>2, <2>1, CountedSame DEF TypeOK
  <2>2. CASE call_done(c)
    BY <1>1, <1>2, <2>2, CountedLess
  <2> QED  BY <1>3, <2>1, <2>2
<1>5. doneRuns' \in [Call -> Nat] /\ doneRuns'[c] \in {0, 1}
      /\ \A d \in Call \ {c} : doneRuns'[d] = doneRuns[d]
  BY <1>1, <1>3 DEF call_done, TypeOK
<1>6. answers' \in [Call -> Seq(Reply)]
  <2>1. Send(c, "busy") \/ UNCHANGED answers  BY DEF send_busy
  <2>2. "busy" \in Reply  BY DEF Reply
  <2> QED  BY <2>1, <2>2, SendTyped DEF TypeOK
<1>7. TypeOK'
  BY <1>1, <1>4, <1>5, <1>6 DEF send_busy, TypeOK, Pcs, connVars
<1>8. HolderInv'
  BY <1>1, <1>5 DEF send_busy, HolderInv, HolderOf, TypeOK
<1>9. Fresh'
  BY <1>1 DEF send_busy, Fresh, TypeOK
<1> QED  BY <1>4, <1>7, <1>8, <1>9

\* Steps of a call that give no place back.
CallKeepsPlace(c) ==
  \/ LookupFails(c) \/ CallMethod(c)
  \/ \E kind \in Outcomes : MethodRunsDone(c, kind)
  \/ KeepDone(c) \/ MethodReturns(c) \/ MethodThrows(c) \/ UnwindRunsDone(c)
  \/ FailReply(c)
  \/ \E kind \in Outcomes : closure_runner(c, kind)

LEMMA CallStepKeeps ==
  ASSUME CountInv, NEW c \in Call, CallKeepsPlace(c)
  PROVE  CountInv'
<1> USE DEF CountInv
<1>1. UNCHANGED <<current, doneRuns, arrived>>
  BY DEF CallKeepsPlace, LookupFails, CallMethod, MethodRunsDone, KeepDone,
         MethodReturns, MethodThrows, UnwindRunsDone, FailReply, closure_runner,
         readerVars
<1>2. \A d \in Call : pc[d] = "none" <=> pc'[d] = "none"
  BY DEF CallKeepsPlace, LookupFails, CallMethod, MethodRunsDone, KeepDone,
         MethodReturns, MethodThrows, UnwindRunsDone, FailReply, closure_runner,
         TypeOK
<1>3. current' = Cardinality(Counted')
  BY <1>1, <1>2, CountedSame
<1>4. Fresh'
  BY <1>1, <1>2 DEF Fresh
<1>5. CASE LookupFails(c)
  <2>1. TypeOK'
    BY <1>5, ServerCallsAssumption
    DEF LookupFails, TypeOK, Pcs, Frame, Send, Reply, readerVars, connVars
  <2>2. HolderInv'
    BY <1>5 DEF LookupFails, TypeOK, HolderInv, HolderOf, Frame
  <2> QED  BY <1>3, <1>4, <2>1, <2>2
<1>6. CASE CallMethod(c)
  <2>1. TypeOK'
    BY <1>6, ServerCallsAssumption
    DEF CallMethod, TypeOK, Pcs, Frame, Send, Reply, readerVars, connVars
  <2>2. HolderInv'
    BY <1>6 DEF CallMethod, TypeOK, HolderInv, HolderOf, Frame
  <2> QED  BY <1>3, <1>4, <2>1, <2>2
<1>7. CASE \E kind \in Outcomes : MethodRunsDone(c, kind)
  <2>1. TypeOK'
    BY <1>7, ServerCallsAssumption
    DEF MethodRunsDone, TypeOK, Pcs, Frame, Send, Reply, readerVars, connVars
  <2>2. HolderInv'
    BY <1>7 DEF MethodRunsDone, TypeOK, HolderInv, HolderOf, Frame
  <2> QED  BY <1>3, <1>4, <2>1, <2>2
<1>8. CASE KeepDone(c)
  <2>1. TypeOK'
    BY <1>8, ServerCallsAssumption
    DEF KeepDone, TypeOK, Pcs, Frame, Send, Reply, readerVars, connVars
  <2>2. HolderInv'
    BY <1>8 DEF KeepDone, TypeOK, HolderInv, HolderOf, Frame
  <2> QED  BY <1>3, <1>4, <2>1, <2>2
<1>9. CASE MethodReturns(c)
  <2>1. TypeOK'
    BY <1>9, ServerCallsAssumption
    DEF MethodReturns, TypeOK, Pcs, Frame, Send, Reply, readerVars, connVars
  <2>2. HolderInv'
    BY <1>9 DEF MethodReturns, TypeOK, HolderInv, HolderOf, Frame
  <2> QED  BY <1>3, <1>4, <2>1, <2>2
<1>10. CASE MethodThrows(c)
  <2>1. TypeOK'
    BY <1>10, ServerCallsAssumption
    DEF MethodThrows, TypeOK, Pcs, Frame, Send, Reply, readerVars, connVars
  <2>2. HolderInv'
    BY <1>10 DEF MethodThrows, TypeOK, HolderInv, HolderOf, Frame
  <2> QED  BY <1>3, <1>4, <2>1, <2>2
<1>11. CASE UnwindRunsDone(c)
  <2>1. TypeOK'
    BY <1>11, ServerCallsAssumption
    DEF UnwindRunsDone, TypeOK, Pcs, Frame, Send, Reply, readerVars, connVars
  <2>2. HolderInv'
    BY <1>11 DEF UnwindRunsDone, TypeOK, HolderInv, HolderOf, Frame
  <2> QED  BY <1>3, <1>4, <2>1, <2>2
<1>12. CASE FailReply(c)
  <2>1. TypeOK'
    <3>1. Send(c, "error") \/ UNCHANGED answers  BY <1>12 DEF FailReply
    <3>2. "error" \in Reply  BY DEF Reply
    <3>3. answers' \in [Call -> Seq(Reply)]
      BY <3>1, <3>2, SendTyped DEF TypeOK
    <3> QED  BY <1>12, <3>3 DEF FailReply, TypeOK, Pcs, Frame, readerVars, connVars
  <2>2. HolderInv'
    BY <1>12 DEF FailReply, TypeOK, HolderInv, HolderOf, Frame
  <2> QED  BY <1>3, <1>4, <2>1, <2>2
<1>13. CASE \E kind \in Outcomes : closure_runner(c, kind)
  <2>1. TypeOK'
    <3>1. PICK kind \in Outcomes : closure_runner(c, kind)  BY <1>13
    <3>2. Send(c, kind) \/ UNCHANGED answers  BY <3>1 DEF closure_runner
    <3>3. kind \in Reply  BY ServerCallsAssumption DEF Reply
    <3>4. answers' \in [Call -> Seq(Reply)]
      BY <3>2, <3>3, SendTyped DEF TypeOK
    <3> QED  BY <3>1, <3>4 DEF closure_runner, TypeOK, readerVars, connVars
  <2>2. HolderInv'
    BY <1>13 DEF closure_runner, TypeOK, HolderInv, HolderOf, Frame
  <2> QED  BY <1>3, <1>4, <2>1, <2>2
<1> QED
  BY <1>5, <1>6, <1>7, <1>8, <1>9, <1>10, <1>11, <1>12, <1>13 DEF CallKeepsPlace

\* Steps that drop a reference to the holder and may give the place back.
LEMMA ReleaseKeeps ==
  ASSUME CountInv, NEW c \in Call, Settle(c) \/ Leave(c) \/ RunnerLeaves(c)
  PROVE  CountInv'
<1> USE DEF CountInv
<1>1. pc[c] # "none" /\ UNCHANGED arrived
  BY DEF Settle, Leave, RunnerLeaves, HolderInv, HolderOf, readerVars
<1>2. \A d \in Call : pc[d] = "none" <=> pc'[d] = "none"
  BY DEF Settle, Leave, RunnerLeaves, TypeOK
<1>3. \/ UNCHANGED <<current, doneRuns>>
      \/ call_done(c) /\ doneRuns[c] = 0
  BY DEF Settle, Leave, RunnerLeaves, call_internal, HolderInv, HolderOf, TypeOK,
         Pcs, Frame
<1>4. current' = Cardinality(Counted') /\ current' \in 0..MaxCalls
  <2>1. CASE UNCHANGED <<current, doneRuns>>
    BY <1>2, <2>1, CountedSame DEF TypeOK
  <2>2. CASE call_done(c) /\ doneRuns[c] = 0
    BY <1>1, <1>2, <2>2, CountedLess
  <2> QED  BY <1>3, <2>1, <2>2
<1>5. doneRuns' \in [Call -> Nat]
  <2>1. doneRuns \in [Call -> Nat]  BY DEF TypeOK
  <2>2. CASE UNCHANGED doneRuns  BY <2>1, <2>2
  <2>3. CASE call_done(c)  BY <2>1, <2>3 DEF call_done
  <2> QED  BY <1>3, <2>2, <2>3
<1>6. TypeOK'
  <2>1. CASE Settle(c)
    BY <1>4, <1>5, <2>1 DEF Settle, TypeOK, Pcs, Frame, readerVars, connVars
  <2>2. CASE Leave(c)
    BY <1>4, <1>5, <2>2 DEF Leave, TypeOK, Pcs, readerVars, connVars
  <2>3. CASE RunnerLeaves(c)
    BY <1>4, <1>5, <2>3 DEF RunnerLeaves, TypeOK, readerVars, connVars
  <2> QED  BY <2>1, <2>2, <2>3
<1>7. Fresh'
  BY <1>1, <1>2 DEF Fresh
<1>8. HolderInv'
  <2>1. CASE Settle(c)
    BY <2>1 DEF Settle, call_done, TypeOK, HolderInv, HolderOf
  <2>2. CASE Leave(c)
    BY <2>2 DEF Leave, call_internal, call_done, TypeOK, HolderInv, HolderOf
  <2>3. CASE RunnerLeaves(c)
    BY <2>3 DEF RunnerLeaves, call_internal, call_done, TypeOK, HolderInv,
                HolderOf, Pcs, Frame
  <2> QED  BY <2>1, <2>2, <2>3
<1> QED  BY <1>4, <1>6, <1>7, <1>8

LEMMA CountInvInit == Init => CountInv
<1> SUFFICES ASSUME Init PROVE CountInv
  OBVIOUS
<1>1. Counted = {}
  BY DEF Init, Counted
<1>2. current = Cardinality(Counted)
  BY <1>1, FS_EmptySet DEF Init
<1>3. TypeOK
  <2>1. answers \in [Call -> Seq(Reply)]
    <3>1. answers = [c \in Call |-> <<>>]  BY DEF Init
    <3>2. <<>> \in Seq(Reply)  BY EmptySeq
    <3>3. \A S : \A e \in S : [c \in Call |-> e] \in [Call -> S]  OBVIOUS
    <3> QED  BY <3>1, <3>2, <3>3
  <2>2. /\ wait \in [Call -> BOOLEAN] /\ kept \in [Call -> BOOLEAN]
        /\ runner \in [Call -> BOOLEAN] /\ internal \in [Call -> BOOLEAN]
    BY DEF Init
  <2>3. /\ current \in 0..MaxCalls /\ arrived \in 0..MaxCalls
        /\ doneRuns \in [Call -> Nat]
    BY ServerCallsAssumption DEF Init
  <2>4. /\ pc \in [Call -> Pcs]
        /\ closure \in [Call -> {"absent", "live", "run", "unwound"}]
    BY DEF Init, Pcs
  <2>5. /\ dispatching \in BOOLEAN /\ reading \in BOOLEAN /\ ready \in BOOLEAN
        /\ dropped \in BOOLEAN /\ early \in BOOLEAN /\ threw \subseteq Call
    BY DEF Init
  <2> QED  BY <2>1, <2>2, <2>3, <2>4, <2>5 DEF TypeOK
<1>4. HolderInv /\ Fresh
  BY DEF Init, HolderInv, HolderOf, Fresh
<1> QED  BY <1>2, <1>3, <1>4 DEF CountInv

LEMMA CountInvStep == CountInv /\ [Next]_vars => CountInv'
<1> SUFFICES ASSUME CountInv, [Next]_vars PROVE CountInv'
  OBVIOUS
<1>1. CASE UNCHANGED vars
  <2>1. TypeOK' /\ Fresh' /\ HolderInv'
    BY <1>1 DEF CountInv, TypeOK, Fresh, HolderInv, HolderOf, vars, callVars,
                readerVars, connVars
  <2>2. current' = Cardinality(Counted')
    BY <1>1, CountedSame DEF CountInv, vars, callVars
  <2> QED  BY <2>1, <2>2 DEF CountInv
<1>2. CASE Next
  <2>1. CASE DataReady \/ QueueEmpty \/ on_write_error \/ on_close
    BY <2>1, ReaderKeeps
  <2>2. CASE \E w \in BOOLEAN : process_call(w)
    BY <2>2, ProcessCallKeeps
  <2>3. CASE \E c \in Call : send_busy(c)
    BY <2>3, SendBusyKeeps
  <2>4. ASSUME NEW c \in Call, PoolStep(c) \/ KeeperStep(c)
        PROVE  CountInv'
    <3>1. \/ CallKeepsPlace(c)
          \/ Settle(c) \/ Leave(c) \/ RunnerLeaves(c)
      BY <2>4 DEF PoolStep, KeeperStep, CallKeepsPlace
    <3> QED  BY <3>1, CallStepKeeps, ReleaseKeeps
  <2> QED  BY <1>2, <2>1, <2>2, <2>3, <2>4 DEF Next, ReaderStep
<1> QED  BY <1>1, <1>2

LEMMA CountInvariant == Spec => []CountInv
BY CountInvInit, CountInvStep, PTL DEF Spec

------------------------------------------------------------------------------
(* The limit.                                                               *)

\* A call that executes holds a place.
LEMMA ExecutingCounted ==
  ASSUME CountInv
  PROVE  Executing \subseteq Counted
BY DEF CountInv, HolderInv, HolderOf, Executing, Counted, TypeOK, Pcs, Frame

\* Only process_call lets a call start executing.
LEMMA ExecutingShrinks ==
  ASSUME CountInv, [Next]_vars, ~\E w \in BOOLEAN : process_call(w)
  PROVE  Executing' \subseteq Executing
<1> USE DEF CountInv, TypeOK, Executing
<1>1. CASE UNCHANGED vars
  BY <1>1 DEF vars, callVars
<1>2. CASE DataReady \/ QueueEmpty \/ on_write_error \/ on_close
  BY <1>2 DEF DataReady, QueueEmpty, on_write_error, on_close, callVars
<1>3. CASE \E c \in Call : send_busy(c)
  BY <1>3 DEF send_busy
<1>4. ASSUME NEW c \in Call, PoolStep(c)
      PROVE  Executing' \subseteq Executing
  <2>1. CASE LookupFails(c) \/ CallMethod(c)
    BY <2>1 DEF LookupFails, CallMethod, HolderInv, HolderOf
  <2>2. CASE \E kind \in Outcomes : MethodRunsDone(c, kind)
    BY <2>2 DEF MethodRunsDone
  <2>3. CASE KeepDone(c) \/ MethodReturns(c) \/ MethodThrows(c)
    BY <2>3 DEF KeepDone, MethodReturns, MethodThrows
  <2>4. CASE UnwindRunsDone(c) \/ FailReply(c)
    BY <2>4 DEF UnwindRunsDone, FailReply
  <2>5. CASE Settle(c) \/ Leave(c)
    BY <2>5 DEF Settle, Leave
  <2> QED  BY <1>4, <2>1, <2>2, <2>3, <2>4, <2>5 DEF PoolStep
<1>5. ASSUME NEW c \in Call, KeeperStep(c)
      PROVE  Executing' \subseteq Executing
  BY <1>5 DEF KeeperStep, closure_runner, RunnerLeaves
<1> QED  BY <1>1, <1>2, <1>3, <1>4, <1>5 DEF Next, ReaderStep

LEMMA LimitStep == CountInv /\ WithinLimit /\ [Next]_vars => WithinLimit'
<1> SUFFICES ASSUME CountInv, WithinLimit, [Next]_vars PROVE WithinLimit'
  OBVIOUS
<1>0. Executing \in SUBSET Call /\ Executing' \in SUBSET Call
  BY DEF Executing
<1>1. CASE \E w \in BOOLEAN : process_call(w)
  <2>1. PICK w \in BOOLEAN : process_call(w)
    BY <1>1
  <2> DEFINE c == arrived + 1
  <2>2. c \in Call
    BY <2>1, ServerCallsAssumption DEF process_call, CountInv, TypeOK, Call
  <2>3. CASE current + 1 <= MaxActive
    <3>1. Executing' \subseteq Executing \cup {c}
      BY <2>1, <2>2 DEF process_call, Executing, CountInv, TypeOK
    <3>2. IsFiniteSet(Executing) /\ IsFiniteSet(Counted)
      BY CallFinite, <1>0 DEF Counted
    <3>3. Cardinality(Executing) <= Cardinality(Counted)
      BY <3>2, ExecutingCounted, FS_Subset
    <3>4. /\ IsFiniteSet(Executing \cup {c})
          /\ Cardinality(Executing \cup {c}) <= Cardinality(Executing) + 1
      <4> HIDE DEF c
      <4>1. /\ IsFiniteSet(Executing \cup {c})
            /\ \/ Cardinality(Executing \cup {c}) = Cardinality(Executing)
               \/ Cardinality(Executing \cup {c}) = Cardinality(Executing) + 1
        BY <3>2, FS_AddElement
      <4>2. Cardinality(Executing) \in Nat
        BY <3>2, FS_CardinalityType
      <4> QED  BY <4>1, <4>2
    <3>5. Cardinality(Executing') <= Cardinality(Executing \cup {c})
      BY <3>1, <3>4, FS_Subset
    <3>6. /\ Cardinality(Executing) \in Nat /\ Cardinality(Counted) \in Nat
          /\ Cardinality(Executing \cup {c}) \in Nat
          /\ Cardinality(Executing') \in Nat
      <4>1. IsFiniteSet(Executing')  BY <1>0, CallFinite
      <4> QED  BY <3>2, <3>4, <4>1, FS_CardinalityType
    <3>7. current = Cardinality(Counted)
      BY DEF CountInv
    <3> QED  BY <2>3, <3>3, <3>4, <3>5, <3>6, <3>7, ServerCallsAssumption
             DEF WithinLimit
  <2>4. CASE ~(current + 1 <= MaxActive)
    <3>1. Executing' = Executing
      BY <2>1, <2>2, <2>4
      DEF process_call, Executing, CountInv, TypeOK, Fresh, Call
    <3> QED  BY <3>1 DEF WithinLimit
  <2> QED  BY <2>3, <2>4
<1>2. CASE ~\E w \in BOOLEAN : process_call(w)
  <2>1. Executing' \subseteq Executing
    BY <1>2, ExecutingShrinks
  <2>2. IsFiniteSet(Executing) /\ IsFiniteSet(Executing')
    BY <1>0, CallFinite
  <2>3. Cardinality(Executing') <= Cardinality(Executing)
    BY <2>1, <2>2, FS_Subset
  <2>4. Cardinality(Executing) \in Nat /\ Cardinality(Executing') \in Nat
    BY <2>2, FS_CardinalityType
  <2> QED  BY <2>3, <2>4, ServerCallsAssumption DEF WithinLimit
<1> QED  BY <1>1, <1>2

LEMMA LimitInit == Init => WithinLimit
<1> SUFFICES ASSUME Init PROVE WithinLimit
  OBVIOUS
<1>1. Executing = {}
  BY DEF Init, Executing
<1> QED  BY <1>1, FS_EmptySet, ServerCallsAssumption DEF WithinLimit

------------------------------------------------------------------------------
(* Where places may be lost.                                                *)

LEMMA OwesStep == CountInv /\ OwesInv /\ [Next]_vars => OwesInv'
<1> SUFFICES ASSUME CountInv, OwesInv, [Next]_vars PROVE OwesInv'
  OBVIOUS
<1> USE DEF CountInv, OwesInv, OwesOf, PlaceReturned, Settled, RefusalRaised,
            TypeOK
<1>1. CASE UNCHANGED vars
  BY <1>1 DEF vars, callVars, readerVars, connVars
<1>2. CASE DataReady \/ QueueEmpty \/ on_write_error \/ on_close
  <2>1. CASE DataReady \/ QueueEmpty
    BY <2>1 DEF DataReady, QueueEmpty, callVars, connVars
  <2>2. CASE on_write_error
    BY <2>2 DEF on_write_error, callVars, readerVars
  <2>3. CASE on_close
    BY <2>3 DEF on_close, callVars
  <2> QED  BY <1>2, <2>1, <2>2, <2>3
<1>3. CASE \E w \in BOOLEAN : process_call(w)
  <2>1. PICK w \in BOOLEAN : process_call(w)
    BY <1>3
  <2>2. arrived + 1 \in Call /\ pc[arrived + 1] = "none"
    BY <2>1, ServerCallsAssumption DEF process_call, Call, Fresh
  <2> QED
    BY <2>1, <2>2 DEF process_call, HolderInv, HolderOf, connVars
<1>4. ASSUME NEW c \in Call, send_busy(c) PROVE OwesInv'
  <2>1. /\ pc[c] = "busy" /\ closure[c] = "absent" /\ doneRuns[c] = 0
        /\ ~runner[c] /\ ~kept[c]
    BY <1>4 DEF send_busy, HolderInv, HolderOf
  <2>2. /\ pc' = [pc EXCEPT ![c] = "over"]
        /\ UNCHANGED <<wait, closure, kept, runner, internal, threw, dropped>>
    BY <1>4 DEF send_busy, connVars
  <2>3. \/ ~reading' /\ UNCHANGED doneRuns
        \/ reading' = reading /\ doneRuns' = [doneRuns EXCEPT ![c] = 1]
    BY <1>4, <2>1 DEF send_busy, call_done
  <2>4. \A d \in Call : OwesOf(d)'
    BY <2>1, <2>2, <2>3
  <2>5. PlaceReturned'
    <3>1. ASSUME NEW d \in Call, Settled(d)', doneRuns'[d] = 0
          PROVE  \/ (kept[d] /\ dropped)' \/ RefusalRaised(d)'
                 \/ (~wait[d] /\ d \in threw /\ closure[d] \in {"absent", "live"})'
      <4>1. CASE d = c
        <5>1. ~reading'  BY <2>3, <3>1, <4>1
        <5>2. c \notin threw  BY <2>1
        <5> QED  BY <2>1, <2>2, <4>1, <5>1, <5>2
      <4>2. CASE d # c
        BY <2>2, <2>3, <3>1, <4>2
      <4> QED  BY <4>1, <4>2
    <3> QED  BY <3>1
  <2> QED  BY <2>4, <2>5
<1>5. ASSUME NEW c \in Call, PoolStep(c) PROVE OwesInv'
  <2> USE DEF HolderInv, HolderOf, readerVars, connVars
  <2>1. CASE LookupFails(c)
    BY <2>1 DEF LookupFails
  <2>2. CASE CallMethod(c)
    BY <2>2 DEF CallMethod
  <2>3. CASE \E kind \in Outcomes : MethodRunsDone(c, kind)
    BY <2>3 DEF MethodRunsDone
  <2>4. CASE KeepDone(c)
    BY <2>4 DEF KeepDone
  <2>5. CASE MethodReturns(c)
    BY <2>5 DEF MethodReturns
  <2>6. CASE MethodThrows(c)
    BY <2>6 DEF MethodThrows
  <2>7. CASE UnwindRunsDone(c)
    BY <2>7 DEF UnwindRunsDone
  <2>8. CASE FailReply(c)
    BY <2>8 DEF FailReply
  <2>9. CASE Settle(c)
    BY <2>9 DEF Settle, call_done
  <2>10. CASE Leave(c)
    BY <2>10 DEF Leave, call_internal, call_done
  <2> QED
    BY <1>5, <2>1, <2>2, <2>3, <2>4, <2>5, <2>6, <2>7, <2>8, <2>9, <2>10
    DEF PoolStep
<1>6. ASSUME NEW c \in Call, KeeperStep(c) PROVE OwesInv'
  <2> USE DEF HolderInv, HolderOf, readerVars, connVars
  <2>1. CASE \E kind \in Outcomes : closure_runner(c, kind)
    BY <2>1 DEF closure_runner
  <2>2. CASE RunnerLeaves(c)
    BY <2>2 DEF RunnerLeaves, call_internal, call_done, Alive, Pcs, Frame
  <2> QED  BY <1>6, <2>1, <2>2 DEF KeeperStep
<1> QED
  BY <1>1, <1>2, <1>3, <1>4, <1>5, <1>6 DEF Next, ReaderStep

LEMMA OwesInit == Init => OwesInv
BY DEF Init, OwesInv, OwesOf, PlaceReturned, Settled

------------------------------------------------------------------------------
(* What the client hears.                                                   *)

\* An answer that is sent is one more, and there is one then.
LEMMA SendCounts ==
  ASSUME answers \in [Call -> Seq(Reply)], NEW c \in Call, NEW kind \in Reply,
         Send(c, kind)
  PROVE  /\ Len(answers'[c]) = Len(answers[c]) + 1 /\ answers'[c] # <<>>
         /\ \A d \in Call \ {c} : answers'[d] = answers[d]
<1>1. answers[c] \in Seq(Reply)
  OBVIOUS
<1>2. answers'[c] = Append(answers[c], kind)
  BY DEF Send
<1>3. /\ Len(Append(answers[c], kind)) = Len(answers[c]) + 1
      /\ Append(answers[c], kind) # <<>>
  BY <1>1, AppendProperties
<1> QED  BY <1>2, <1>3 DEF Send

LEMMA AnswerStep ==
  CountInv /\ OwesInv /\ AnswerInv /\ [Next]_vars => AnswerInv'
<1> SUFFICES ASSUME CountInv, OwesInv, AnswerInv, [Next]_vars PROVE AnswerInv'
  OBVIOUS
<1>0. /\ TypeOK /\ HolderInv /\ \A c \in Call : OwesOf(c)
      /\ \A c \in Call : Len(answers[c]) \in Nat
  <2>1. \A c \in Call : answers[c] \in Seq(Reply)
    BY DEF CountInv, TypeOK
  <2>2. \A c \in Call : Len(answers[c]) \in Nat
    BY <2>1, LenProperties
  <2> QED  BY <2>2 DEF CountInv, OwesInv
<1> USE <1>0 DEF AnswerInv, AnswerOf, Answered
<1>1. CASE UNCHANGED vars
  BY <1>1 DEF vars, callVars, readerVars, connVars
<1>2. CASE DataReady \/ QueueEmpty \/ on_write_error \/ on_close
  BY <1>2 DEF DataReady, QueueEmpty, on_write_error, on_close, callVars,
              readerVars, connVars, TypeOK
<1>3. CASE \E w \in BOOLEAN : process_call(w)
  <2>1. PICK w \in BOOLEAN : process_call(w)
    BY <1>3
  <2>2. arrived + 1 \in Call /\ pc[arrived + 1] = "none"
    BY <2>1, ServerCallsAssumption DEF process_call, Call, CountInv, Fresh, TypeOK
  <2> QED
    BY <2>1, <2>2 DEF process_call, HolderInv, HolderOf, connVars, TypeOK
<1>4. ASSUME NEW c \in Call, send_busy(c) PROVE AnswerInv'
  <2>1. /\ pc[c] = "busy" /\ closure[c] = "absent"
        /\ pc' = [pc EXCEPT ![c] = "over"]
        /\ UNCHANGED <<wait, closure, kept, runner, internal, threw, dropped>>
    BY <1>4 DEF send_busy, HolderInv, HolderOf, connVars
  <2>2. \/ UNCHANGED answers /\ (wait[c] => ~reading')
        \/ Send(c, "busy") /\ UNCHANGED reading
    BY <1>4 DEF send_busy, TypeOK
  <2>4. ~reading => ~reading'
    BY <1>4 DEF send_busy
  <2>5. CASE UNCHANGED answers /\ (wait[c] => ~reading')
    <3>1. AnswerOf(c)'
      <4>1. pc'[c] = "over" /\ closure'[c] = "absent"
        BY <2>1 DEF TypeOK
      <4>2. answers'[c] = answers[c] /\ wait'[c] = wait[c]
        BY <2>1, <2>5
      <4>3. Len(answers[c]) <= 0 /\ c \notin threw'
        BY <2>1 DEF OwesOf
      <4> QED  BY <2>5, <4>1, <4>2, <4>3
    <3>2. ASSUME NEW d \in Call \ {c} PROVE AnswerOf(d)'
      <4>1. AnswerOf(d) /\ pc'[d] = pc[d]
        BY <2>1 DEF TypeOK
      <4> QED  BY <2>1, <2>4, <2>5, <4>1
    <3> QED  BY <3>1, <3>2
  <2>6. CASE Send(c, "busy") /\ UNCHANGED reading
    <3>1. /\ Len(answers'[c]) = Len(answers[c]) + 1 /\ answers'[c] # <<>>
          /\ \A d \in Call \ {c} : answers'[d] = answers[d]
      BY <2>6, SendCounts DEF Reply, TypeOK
    <3> QED  BY <2>1, <2>6, <3>1 DEF TypeOK
  <2> QED  BY <2>2, <2>5, <2>6
<1>5. ASSUME NEW c \in Call, PoolStep(c) PROVE AnswerInv'
  <2> USE DEF HolderInv, HolderOf, OwesOf, readerVars, connVars, TypeOK
  <2>1. CASE LookupFails(c)
    BY <2>1 DEF LookupFails
  <2>2. CASE CallMethod(c)
    BY <2>2 DEF CallMethod
  <2>3. CASE \E kind \in Outcomes : MethodRunsDone(c, kind)
    <3>1. PICK kind \in Outcomes : MethodRunsDone(c, kind)
      BY <2>3
    <3>2. /\ Len(answers'[c]) = Len(answers[c]) + 1 /\ answers'[c] # <<>>
          /\ \A d \in Call \ {c} : answers'[d] = answers[d]
      <4>1. kind \in Reply /\ Send(c, kind)
        BY <3>1, ServerCallsAssumption DEF MethodRunsDone, Reply
      <4> QED  BY <4>1, SendCounts
    <3> QED  BY <3>1, <3>2 DEF MethodRunsDone
  <2>4. CASE KeepDone(c)
    BY <2>4 DEF KeepDone
  <2>5. CASE MethodReturns(c)
    BY <2>5 DEF MethodReturns
  <2>6. CASE MethodThrows(c)
    BY <2>6 DEF MethodThrows
  <2>7. CASE UnwindRunsDone(c)
    BY <2>7 DEF UnwindRunsDone
  <2>8. CASE FailReply(c)
    <3>1. CASE wait[c]
      <4>1. Send(c, "error")
        BY <2>8, <3>1 DEF FailReply
      <4>2. /\ Len(answers'[c]) = Len(answers[c]) + 1 /\ answers'[c] # <<>>
            /\ \A d \in Call \ {c} : answers'[d] = answers[d]
        BY <4>1, SendCounts DEF Reply
      <4> QED  BY <2>8, <3>1, <4>2 DEF FailReply
    <3>2. CASE ~wait[c]
      BY <2>8, <3>2 DEF FailReply
    <3> QED  BY <3>1, <3>2
  <2>9. CASE Settle(c)
    BY <2>9 DEF Settle
  <2>10. CASE Leave(c)
    BY <2>10 DEF Leave
  <2> QED
    BY <1>5, <2>1, <2>2, <2>3, <2>4, <2>5, <2>6, <2>7, <2>8, <2>9, <2>10
    DEF PoolStep
<1>6. ASSUME NEW c \in Call, KeeperStep(c) PROVE AnswerInv'
  <2> USE DEF HolderInv, HolderOf, readerVars, connVars, TypeOK
  <2>1. CASE \E kind \in Outcomes : closure_runner(c, kind)
    <3>1. PICK kind \in Outcomes : closure_runner(c, kind)
      BY <2>1
    <3>2. CASE Alive
      <4>1. /\ Len(answers'[c]) = Len(answers[c]) + 1 /\ answers'[c] # <<>>
            /\ \A d \in Call \ {c} : answers'[d] = answers[d]
        BY <3>1, <3>2, SendCounts, ServerCallsAssumption DEF closure_runner, Reply
      <4>2. /\ closure[c] = "live" /\ closure'[c] = "run"
            /\ \A d \in Call \ {c} : closure'[d] = closure[d]
            /\ UNCHANGED <<wait, pc, kept, threw, reading, dropped>>
        BY <3>1 DEF closure_runner
      <4>3. AnswerOf(c)'
        <5>1. AnswerOf(c) /\ Len(answers[c]) \in Nat
          OBVIOUS
        <5>2. Answered(c) \in Nat /\ Answered(c)' = Answered(c) + 1
          BY <4>2
        <5>3. Len(answers'[c]) <= Answered(c)'
          <6> HIDE DEF Answered
          <6> QED  BY <4>1, <5>1, <5>2
        <5> QED  BY <4>1, <4>2, <5>1, <5>3
      <4>4. ASSUME NEW d \in Call \ {c} PROVE AnswerOf(d)'
        <5>1. AnswerOf(d) /\ answers'[d] = answers[d] /\ closure'[d] = closure[d]
          BY <4>1, <4>2
        <5> QED  BY <4>2, <5>1
      <4> QED  BY <4>3, <4>4
    <3>3. CASE ~Alive
      <4>1. dropped  BY <3>3 DEF Alive
      <4> QED  BY <3>1, <3>3, <4>1 DEF closure_runner
    <3> QED  BY <3>2, <3>3
  <2>2. CASE RunnerLeaves(c)
    BY <2>2 DEF RunnerLeaves
  <2> QED  BY <1>6, <2>1, <2>2 DEF KeeperStep
<1> QED
  BY <1>1, <1>2, <1>3, <1>4, <1>5, <1>6 DEF Next, ReaderStep

LEMMA AnswerInit == Init => AnswerInv
<1>1. Len(<<>>) = 0
  BY EmptySeq
<1> QED  BY <1>1 DEF Init, AnswerInv, AnswerOf, Answered

------------------------------------------------------------------------------
\* current_calls_ never wraps and every variable keeps its type.
THEOREM ServerTypes == Spec => []TypeOK
<1>1. CountInv => TypeOK
  BY DEF CountInv
<1> QED  BY <1>1, CountInvariant, PTL

\* current_calls_ counts exactly the calls that hold a place, and call_done
\* runs at most once for each: make_local_call's direct call and the holder's
\* destructor never both run it.
THEOREM CounterIsExact == Spec => []CounterExact
<1>1. CountInv => CounterExact
  BY DEF CountInv, CounterExact, HolderInv, HolderOf
<1> QED  BY <1>1, CountInvariant, PTL

\* Never more than max_active_calls calls of a connection execute.
THEOREM LimitKept == Spec => []WithinLimit
<1>1. Spec => []CountInv
  BY CountInvariant
<1> QED  BY <1>1, LimitInit, LimitStep, PTL DEF Spec

\* A call gives its place back unless its kept closure outlived the
\* connection, its refusal raised, or it failed and nobody waits for it.
THEOREM PlacesComeBack == Spec => []PlaceReturned
<1>1. Spec => []OwesInv
  BY CountInvariant, OwesInit, OwesStep, PTL DEF Spec
<1>2. OwesInv => PlaceReturned
  BY DEF OwesInv
<1> QED  BY <1>1, <1>2, PTL

\* A client that waits hears once about its call, twice at most if the method
\* ran or kept its closure and threw, and not at all only if the connection
\* died or the refusal raised.  (closure_runner, call_rpc_method, send_busy)
THEOREM ClientHearsOnce == Spec => []AnsweredOnce
<1>1. Spec => []AnswerInv
  BY CountInvariant, OwesInit, OwesStep, AnswerInit, AnswerStep, PTL DEF Spec
<1>2. CountInv /\ OwesInv /\ AnswerInv => AnsweredOnce
  <2> SUFFICES ASSUME CountInv, OwesInv, AnswerInv, NEW c \in Call
               PROVE  /\ Len(answers[c]) <= IF c \in threw /\ closure[c] = "run"
                                               THEN 2 ELSE 1
                      /\ Settled(c) /\ wait[c] /\ answers[c] = <<>> =>
                           (kept[c] /\ dropped) \/ RefusalRaised(c)
    BY DEF AnsweredOnce
  <2>1. answers[c] \in Seq(Reply) /\ Len(answers[c]) \in Nat
    BY LenProperties DEF CountInv, TypeOK
  <2>2. /\ AnswerOf(c) /\ OwesOf(c)
        /\ closure[c] \in {"absent", "live", "run", "unwound"}
    BY DEF AnswerInv, OwesInv, CountInv, TypeOK
  <2>3. Len(answers[c]) <= IF c \in threw /\ closure[c] = "run" THEN 2 ELSE 1
    BY <2>1, <2>2 DEF AnswerOf, Answered
  <2>4. Settled(c) /\ wait[c] /\ answers[c] = <<>> =>
          (kept[c] /\ dropped) \/ RefusalRaised(c)
    BY <2>2 DEF AnswerOf, Settled, RefusalRaised
  <2> QED  BY <2>3, <2>4
<1> QED
  BY <1>1, <1>2, CountInvariant, OwesInit, OwesStep, PTL DEF Spec

(***************************************************************************)
(* The listeners.  v1 kind, v2 working_, v3 acceptor_, v4 ops, v5 job, v6  *)
(* wanted, v7 starts, v8 accepted, v9 late, v10 told, v11 failed, v12      *)
(* deaf, v13 overlap.                                                      *)
(***************************************************************************)

\* x is one of the steps s.
Has(s, x) == \E i \in 1..Len(s) : s[i] = x

\* What can be left of a start, of a stop, and of the stop of on_accept.
StartTails ==
  CASE v1 = "impl" -> {<<"reset", "accept", "flag", "on_start">>, <<"accept", "flag", "on_start">>,
                       <<"flag", "on_start">>, <<"on_start">>}
    [] v1 = "ssl"  -> {<<"flag", "reset", "accept", "on_start">>, <<"reset", "accept", "on_start">>,
                       <<"accept", "on_start">>, <<"on_start">>}
    [] v1 = "pipe" -> {<<"flag", "accept", "on_start">>, <<"accept", "on_start">>, <<"on_start">>}
StopTails ==
  IF v1 = "pipe" THEN {<<"unflag", "close", "on_stop">>, <<"close", "on_stop">>, <<"on_stop">>}
  ELSE {<<"unflag", "close">>, <<"close">>}
FailTails ==
  IF v1 = "pipe" THEN {<<"unflag", "close", "on_stop", "on_accept_failed">>,
                       <<"close", "on_stop", "on_accept_failed">>,
                       <<"on_stop", "on_accept_failed">>, <<"on_accept_failed">>}
  ELSE {<<"unflag", "close", "on_accept_failed">>, <<"close", "on_accept_failed">>, <<"on_accept_failed">>}

\* The types; a thread of the pool runs at most one handler, the user a start or a stop.
ListenerTypes ==
  /\ v1 \in {"impl", "ssl", "pipe"} /\ v2 \in BOOLEAN /\ v3 \in {"none", "open", "closed"}
  /\ v4 \in [pending : Nat, ok : Nat, err : Nat]
  /\ DOMAIN v5 = {"user", "io1", "io2"}
  /\ \A t \in {"io1", "io2"} : v5[t] \in {<<>>, <<"accept">>, <<"on_stop">>} \cup FailTails
  /\ v6 \in BOOLEAN /\ v9 \in Nat /\ v11 \in BOOLEAN /\ v12 \in BOOLEAN /\ v13 \in BOOLEAN
  /\ v5["user"] \in {<<>>} \cup (IF v6 THEN StartTails ELSE StopTails)

\* An accept of the io_service is outstanding, completed, or going to be started.
Accepting == v4.pending + v4.ok + v4.err > 0 \/ \E t \in {"io1", "io2"} : Has(v5[t], "accept")

\* An active listener accepts, or somebody is going to make it, or to stop it.
ActiveInv ==
  /\ v2 /\ ~v12 => \/ Accepting \/ Has(v5["user"], "accept")
                   \/ \E t \in {"user", "io1", "io2"} : Has(v5[t], "unflag")
  /\ v1 = "impl" /\ Has(v5["user"], "flag") /\ ~Has(v5["user"], "accept") /\ ~v12 => Accepting

\* Without a failure and an overlap nothing stops a listener that was started.
StartedInv ==
  v6 /\ ~v11 /\ ~v12 /\ ~v13 =>
    /\ v4.err = 0
    /\ \A t \in {"io1", "io2"} : v5[t] \in {<<>>, <<"accept">>}
    /\ v2 \/ Has(v5["user"], "flag")
    /\ Has(v5["user"], "reset") =>
         v4.pending = 0 /\ v4.ok = 0 /\ \A t \in {"io1", "io2"} : v5[t] = <<>>
    /\ v1 # "pipe" /\ ~Has(v5["user"], "reset") => v3 = "open"

\* There is at most one accept, whoever is going to start it.
Owed(t) == IF Has(v5[t], "accept") THEN 1 ELSE 0
Tokens == v4.pending + v4.ok + Owed("io1") + Owed("io2")

\* No further accept is armed: the pipe looks at working_, the others at the socket.
Deafened == IF v1 = "pipe" THEN ~v2 ELSE v3 # "open"

\* One accept at most is under way; after a stop it is the only client still to come.
LateInv ==
  ~v13 =>
    /\ Tokens + Owed("user") <= 1
    /\ v9 <= 1
    /\ ~v6 /\ v5["user"] # <<>> => v9 = 0
    /\ ~v6 /\ v5["user"] # <<>> /\ ~Has(v5["user"], "unflag") => ~v2
    /\ ~v6 /\ v5["user"] = <<>> => v9 + v4.pending + v4.ok <= 1 /\ (Tokens > 0 => Deafened)

\* The inductive invariant of the listeners.
ListenerInv == ListenerTypes /\ ActiveInv /\ StartedInv /\ LateInv

\* What is left of a start, after its next step.
LEMMA StartTail ==
  ASSUME v1 \in {"impl", "ssl", "pipe"}, NEW s \in StartTails
  PROVE  /\ s # <<>> /\ Tail(s) \in {<<>>} \cup StartTails
         /\ Head(s) \in {"reset", "accept", "flag", "on_start"}
         /\ \A x : Has(Tail(s), x) <=> Has(s, x) /\ x # Head(s)
         /\ Has(s, Head(s)) /\ ~Has(s, "unflag")
         /\ Head(s) = "accept" => ~Has(s, "reset")
         /\ Has(s, "reset") => Has(s, "accept") /\ v1 # "pipe"
         /\ v1 = "impl" /\ Has(s, "accept") => Has(s, "flag")
         /\ v1 # "impl" /\ Has(s, "flag") => Has(s, "accept")
         /\ v1 = "impl" /\ Head(s) = "flag" => ~Has(s, "accept")
         /\ v1 # "impl" /\ Head(s) \in {"reset", "accept"} => ~Has(s, "flag")
         /\ Tail(s) = <<>> => Head(s) = "on_start"
  <1>1. CASE v1 = "impl"
    <2>1. CASE s = <<"reset", "accept", "flag", "on_start">>
      <3>1. s # <<>> /\ Head(s) = "reset" /\ Tail(s) = <<"accept", "flag", "on_start">>
        BY <2>1
      <3>2. \A x : Has(s, x) <=> x \in {"reset", "accept", "flag", "on_start"}
        BY <2>1 DEF Has
      <3>3. \A x : Has(<<"accept", "flag", "on_start">>, x) <=> x \in {"accept", "flag", "on_start"}
        BY DEF Has
      <3>4. Tail(s) \in {<<>>} \cup StartTails
        BY <1>1, <3>1 DEF StartTails
      <3> QED
        BY <1>1, <2>1, <3>1, <3>2, <3>3, <3>4
    <2>2. CASE s = <<"accept", "flag", "on_start">>
      <3>1. s # <<>> /\ Head(s) = "accept" /\ Tail(s) = <<"flag", "on_start">>
        BY <2>2
      <3>2. \A x : Has(s, x) <=> x \in {"accept", "flag", "on_start"}
        BY <2>2 DEF Has
      <3>3. \A x : Has(<<"flag", "on_start">>, x) <=> x \in {"flag", "on_start"}
        BY DEF Has
      <3>4. Tail(s) \in {<<>>} \cup StartTails
        BY <1>1, <3>1 DEF StartTails
      <3> QED
        BY <1>1, <2>2, <3>1, <3>2, <3>3, <3>4
    <2>3. CASE s = <<"flag", "on_start">>
      <3>1. s # <<>> /\ Head(s) = "flag" /\ Tail(s) = <<"on_start">>
        BY <2>3
      <3>2. \A x : Has(s, x) <=> x \in {"flag", "on_start"}
        BY <2>3 DEF Has
      <3>3. \A x : Has(<<"on_start">>, x) <=> x \in {"on_start"}
        BY DEF Has
      <3>4. Tail(s) \in {<<>>} \cup StartTails
        BY <1>1, <3>1 DEF StartTails
      <3> QED
        BY <1>1, <2>3, <3>1, <3>2, <3>3, <3>4
    <2>4. CASE s = <<"on_start">>
      <3>1. s # <<>> /\ Head(s) = "on_start" /\ Tail(s) = <<>>
        BY <2>4
      <3>2. \A x : Has(s, x) <=> x \in {"on_start"}
        BY <2>4 DEF Has
      <3>3. \A x : Has(<<>>, x) <=> x \in {}
        BY DEF Has
      <3>4. Tail(s) \in {<<>>} \cup StartTails
        BY <1>1, <3>1 DEF StartTails
      <3> QED
        BY <1>1, <2>4, <3>1, <3>2, <3>3, <3>4
    <2> QED
      BY <1>1, <2>1, <2>2, <2>3, <2>4 DEF StartTails
  <1>2. CASE v1 = "ssl"
    <2>1. CASE s = <<"flag", "reset", "accept", "on_start">>
      <3>1. s # <<>> /\ Head(s) = "flag" /\ Tail(s) = <<"reset", "accept", "on_start">>
        BY <2>1
      <3>2. \A x : Has(s, x) <=> x \in {"flag", "reset", "accept", "on_start"}
        BY <2>1 DEF Has
      <3>3. \A x : Has(<<"reset", "accept", "on_start">>, x) <=> x \in {"reset", "accept", "on_start"}
        BY DEF Has
      <3>4. Tail(s) \in {<<>>} \cup StartTails
        BY <1>2, <3>1 DEF StartTails
      <3> QED
        BY <1>2, <2>1, <3>1, <3>2, <3>3, <3>4
    <2>2. CASE s = <<"reset", "accept", "on_start">>
      <3>1. s # <<>> /\ Head(s) = "reset" /\ Tail(s) = <<"accept", "on_start">>
        BY <2>2
      <3>2. \A x : Has(s, x) <=> x \in {"reset", "accept", "on_start"}
        BY <2>2 DEF Has
      <3>3. \A x : Has(<<"accept", "on_start">>, x) <=> x \in {"accept", "on_start"}
        BY DEF Has
      <3>4. Tail(s) \in {<<>>} \cup StartTails
        BY <1>2, <3>1 DEF StartTails
      <3> QED
        BY <1>2, <2>2, <3>1, <3>2, <3>3, <3>4
    <2>3. CASE s = <<"accept", "on_start">>
      <3>1. s # <<>> /\ Head(s) = "accept" /\ Tail(s) = <<"on_start">>
        BY <2>3
      <3>2. \A x : Has(s, x) <=> x \in {"accept", "on_start"}
        BY <2>3 DEF Has
      <3>3. \A x : Has(<<"on_start">>, x) <=> x \in {"on_start"}
        BY DEF Has
      <3>4. Tail(s) \in {<<>>} \cup StartTails
        BY <1>2, <3>1 DEF StartTails
      <3> QED
        BY <1>2, <2>3, <3>1, <3>2, <3>3, <3>4
    <2>4. CASE s = <<"on_start">>
      <3>1. s # <<>> /\ Head(s) = "on_start" /\ Tail(s) = <<>>
        BY <2>4
      <3>2. \A x : Has(s, x) <=> x \in {"on_start"}
        BY <2>4 DEF Has
      <3>3. \A x : Has(<<>>, x) <=> x \in {}
        BY DEF Has
      <3>4. Tail(s) \in {<<>>} \cup StartTails
        BY <1>2, <3>1 DEF StartTails
      <3> QED
        BY <1>2, <2>4, <3>1, <3>2, <3>3, <3>4
    <2> QED
      BY <1>2, <2>1, <2>2, <2>3, <2>4 DEF StartTails
  <1>3. CASE v1 = "pipe"
    <2>1. CASE s = <<"flag", "accept", "on_start">>
      <3>1. s # <<>> /\ Head(s) = "flag" /\ Tail(s) = <<"accept", "on_start">>
        BY <2>1
      <3>2. \A x : Has(s, x) <=> x \in {"flag", "accept", "on_start"}
        BY <2>1 DEF Has
      <3>3. \A x : Has(<<"accept", "on_start">>, x) <=> x \in {"accept", "on_start"}
        BY DEF Has
      <3>4. Tail(s) \in {<<>>} \cup StartTails
        BY <1>3, <3>1 DEF StartTails
      <3> QED
        BY <1>3, <2>1, <3>1, <3>2, <3>3, <3>4
    <2>2. CASE s = <<"accept", "on_start">>
      <3>1. s # <<>> /\ Head(s) = "accept" /\ Tail(s) = <<"on_start">>
        BY <2>2
      <3>2. \A x : Has(s, x) <=> x \in {"accept", "on_start"}
        BY <2>2 DEF Has
      <3>3. \A x : Has(<<"on_start">>, x) <=> x \in {"on_start"}
        BY DEF Has
      <3>4. Tail(s) \in {<<>>} \cup StartTails
        BY <1>3, <3>1 DEF StartTails
      <3> QED
        BY <1>3, <2>2, <3>1, <3>2, <3>3, <3>4
    <2>3. CASE s = <<"on_start">>
      <3>1. s # <<>> /\ Head(s) = "on_start" /\ Tail(s) = <<>>
        BY <2>3
      <3>2. \A x : Has(s, x) <=> x \in {"on_start"}
        BY <2>3 DEF Has
      <3>3. \A x : Has(<<>>, x) <=> x \in {}
        BY DEF Has
      <3>4. Tail(s) \in {<<>>} \cup StartTails
        BY <1>3, <3>1 DEF StartTails
      <3> QED
        BY <1>3, <2>3, <3>1, <3>2, <3>3, <3>4
    <2> QED
      BY <1>3, <2>1, <2>2, <2>3 DEF StartTails
  <1> QED
    BY <1>1, <1>2, <1>3

\* What is left of a stop.
LEMMA StopTail ==
  ASSUME v1 \in {"impl", "ssl", "pipe"}, NEW s \in StopTails
  PROVE  /\ s # <<>> /\ Tail(s) \in {<<>>} \cup StopTails
         /\ Head(s) \in {"unflag", "close", "on_stop"}
         /\ \A x : Has(Tail(s), x) <=> Has(s, x) /\ x # Head(s)
         /\ Has(s, Head(s)) /\ ~Has(s, "accept") /\ ~Has(s, "flag") /\ ~Has(s, "reset")
         /\ Head(s) \in {"close", "on_stop"} => ~Has(s, "unflag")
         /\ Tail(s) = <<>> => Head(s) = IF v1 = "pipe" THEN "on_stop" ELSE "close"
         /\ Head(s) = "on_stop" => v1 = "pipe"
  <1>1. CASE v1 # "pipe"
    <2>1. CASE s = <<"unflag", "close">>
      <3>1. s # <<>> /\ Head(s) = "unflag" /\ Tail(s) = <<"close">>
        BY <2>1
      <3>2. \A x : Has(s, x) <=> x \in {"unflag", "close"}
        BY <2>1 DEF Has
      <3>3. \A x : Has(<<"close">>, x) <=> x \in {"close"}
        BY DEF Has
      <3>4. Tail(s) \in {<<>>} \cup StopTails
        BY <1>1, <3>1 DEF StopTails
      <3> QED
        BY <1>1, <2>1, <3>1, <3>2, <3>3, <3>4
    <2>2. CASE s = <<"close">>
      <3>1. s # <<>> /\ Head(s) = "close" /\ Tail(s) = <<>>
        BY <2>2
      <3>2. \A x : Has(s, x) <=> x \in {"close"}
        BY <2>2 DEF Has
      <3>3. \A x : Has(<<>>, x) <=> x \in {}
        BY DEF Has
      <3>4. Tail(s) \in {<<>>} \cup StopTails
        BY <1>1, <3>1 DEF StopTails
      <3> QED
        BY <1>1, <2>2, <3>1, <3>2, <3>3, <3>4
    <2> QED
      BY <1>1, <2>1, <2>2 DEF StopTails
  <1>2. CASE v1 = "pipe"
    <2>1. CASE s = <<"unflag", "close", "on_stop">>
      <3>1. s # <<>> /\ Head(s) = "unflag" /\ Tail(s) = <<"close", "on_stop">>
        BY <2>1
      <3>2. \A x : Has(s, x) <=> x \in {"unflag", "close", "on_stop"}
        BY <2>1 DEF Has
      <3>3. \A x : Has(<<"close", "on_stop">>, x) <=> x \in {"close", "on_stop"}
        BY DEF Has
      <3>4. Tail(s) \in {<<>>} \cup StopTails
        BY <1>2, <3>1 DEF StopTails
      <3> QED
        BY <1>2, <2>1, <3>1, <3>2, <3>3, <3>4
    <2>2. CASE s = <<"close", "on_stop">>
      <3>1. s # <<>> /\ Head(s) = "close" /\ Tail(s) = <<"on_stop">>
        BY <2>2
      <3>2. \A x : Has(s, x) <=> x \in {"close", "on_stop"}
        BY <2>2 DEF Has
      <3>3. \A x : Has(<<"on_stop">>, x) <=> x \in {"on_stop"}
        BY DEF Has
      <3>4. Tail(s) \in {<<>>} \cup StopTails
        BY <1>2, <3>1 DEF StopTails
      <3> QED
        BY <1>2, <2>2, <3>1, <3>2, <3>3, <3>4
    <2>3. CASE s = <<"on_stop">>
      <3>1. s # <<>> /\ Head(s) = "on_stop" /\ Tail(s) = <<>>
        BY <2>3
      <3>2. \A x : Has(s, x) <=> x \in {"on_stop"}
        BY <2>3 DEF Has
      <3>3. \A x : Has(<<>>, x) <=> x \in {}
        BY DEF Has
      <3>4. Tail(s) \in {<<>>} \cup StopTails
        BY <1>2, <3>1 DEF StopTails
      <3> QED
        BY <1>2, <2>3, <3>1, <3>2, <3>3, <3>4
    <2> QED
      BY <1>2, <2>1, <2>2, <2>3 DEF StopTails
  <1> QED
    BY <1>1, <1>2

\* What is left of the handler of a completed accept.
LEMMA IoTail ==
  ASSUME v1 \in {"impl", "ssl", "pipe"},
         NEW s \in {<<"accept">>, <<"on_stop">>} \cup FailTails
  PROVE  /\ s # <<>> /\ Tail(s) \in {<<>>} \cup FailTails
         /\ Head(s) \in {"accept", "unflag", "close", "on_stop", "on_accept_failed"}
         /\ \A x : Has(Tail(s), x) <=> Has(s, x) /\ x # Head(s)
         /\ Has(s, Head(s)) /\ ~Has(s, "flag") /\ ~Has(s, "reset")
         /\ Has(s, "accept") <=> s = <<"accept">>
         /\ Head(s) = "accept" <=> s = <<"accept">>
         /\ Head(s) = "accept" => Tail(s) = <<>>
  <1>1. CASE s = <<"accept">>
    <2>1. s # <<>> /\ Head(s) = "accept" /\ Tail(s) = <<>>
      BY <1>1
    <2>2. \A x : Has(s, x) <=> x \in {"accept"}
      BY <1>1 DEF Has
    <2>3. \A x : Has(<<>>, x) <=> x \in {}
      BY DEF Has
    <2>4. Tail(s) \in {<<>>} \cup FailTails
      BY <2>1 DEF FailTails
    <2> QED
      BY <1>1, <2>1, <2>2, <2>3, <2>4
  <1>2. CASE s = <<"on_stop">>
    <2>1. s # <<>> /\ Head(s) = "on_stop" /\ Tail(s) = <<>>
      BY <1>2
    <2>2. \A x : Has(s, x) <=> x \in {"on_stop"}
      BY <1>2 DEF Has
    <2>3. \A x : Has(<<>>, x) <=> x \in {}
      BY DEF Has
    <2>4. Tail(s) \in {<<>>} \cup FailTails
      BY <2>1 DEF FailTails
    <2> QED
      BY <1>2, <2>1, <2>2, <2>3, <2>4
  <1>3. CASE v1 # "pipe" /\ s \in FailTails
    <2>1. CASE s = <<"unflag", "close", "on_accept_failed">>
      <3>1. s # <<>> /\ Head(s) = "unflag" /\ Tail(s) = <<"close", "on_accept_failed">>
        BY <2>1
      <3>2. \A x : Has(s, x) <=> x \in {"unflag", "close", "on_accept_failed"}
        BY <2>1 DEF Has
      <3>3. \A x : Has(<<"close", "on_accept_failed">>, x) <=> x \in {"close", "on_accept_failed"}
        BY DEF Has
      <3>4. Tail(s) \in {<<>>} \cup FailTails
        BY <1>3, <3>1 DEF FailTails
      <3> QED
        BY <1>3, <2>1, <3>1, <3>2, <3>3, <3>4
    <2>2. CASE s = <<"close", "on_accept_failed">>
      <3>1. s # <<>> /\ Head(s) = "close" /\ Tail(s) = <<"on_accept_failed">>
        BY <2>2
      <3>2. \A x : Has(s, x) <=> x \in {"close", "on_accept_failed"}
        BY <2>2 DEF Has
      <3>3. \A x : Has(<<"on_accept_failed">>, x) <=> x \in {"on_accept_failed"}
        BY DEF Has
      <3>4. Tail(s) \in {<<>>} \cup FailTails
        BY <1>3, <3>1 DEF FailTails
      <3> QED
        BY <1>3, <2>2, <3>1, <3>2, <3>3, <3>4
    <2>3. CASE s = <<"on_accept_failed">>
      <3>1. s # <<>> /\ Head(s) = "on_accept_failed" /\ Tail(s) = <<>>
        BY <2>3
      <3>2. \A x : Has(s, x) <=> x \in {"on_accept_failed"}
        BY <2>3 DEF Has
      <3>3. \A x : Has(<<>>, x) <=> x \in {}
        BY DEF Has
      <3>4. Tail(s) \in {<<>>} \cup FailTails
        BY <1>3, <3>1 DEF FailTails
      <3> QED
        BY <1>3, <2>3, <3>1, <3>2, <3>3, <3>4
    <2> QED
      BY <1>3, <2>1, <2>2, <2>3 DEF FailTails
  <1>4. CASE v1 = "pipe" /\ s \in FailTails
    <2>1. CASE s = <<"unflag", "close", "on_stop", "on_accept_failed">>
      <3>1. s # <<>> /\ Head(s) = "unflag" /\ Tail(s) = <<"close", "on_stop", "on_accept_failed">>
        BY <2>1
      <3>2. \A x : Has(s, x) <=> x \in {"unflag", "close", "on_stop", "on_accept_failed"}
        BY <2>1 DEF Has
      <3>3. \A x : Has(<<"close", "on_stop", "on_accept_failed">>, x) <=> x \in {"close", "on_stop", "on_accept_failed"}
        BY DEF Has
      <3>4. Tail(s) \in {<<>>} \cup FailTails
        BY <1>4, <3>1 DEF FailTails
      <3> QED
        BY <1>4, <2>1, <3>1, <3>2, <3>3, <3>4
    <2>2. CASE s = <<"close", "on_stop", "on_accept_failed">>
      <3>1. s # <<>> /\ Head(s) = "close" /\ Tail(s) = <<"on_stop", "on_accept_failed">>
        BY <2>2
      <3>2. \A x : Has(s, x) <=> x \in {"close", "on_stop", "on_accept_failed"}
        BY <2>2 DEF Has
      <3>3. \A x : Has(<<"on_stop", "on_accept_failed">>, x) <=> x \in {"on_stop", "on_accept_failed"}
        BY DEF Has
      <3>4. Tail(s) \in {<<>>} \cup FailTails
        BY <1>4, <3>1 DEF FailTails
      <3> QED
        BY <1>4, <2>2, <3>1, <3>2, <3>3, <3>4
    <2>3. CASE s = <<"on_stop", "on_accept_failed">>
      <3>1. s # <<>> /\ Head(s) = "on_stop" /\ Tail(s) = <<"on_accept_failed">>
        BY <2>3
      <3>2. \A x : Has(s, x) <=> x \in {"on_stop", "on_accept_failed"}
        BY <2>3 DEF Has
      <3>3. \A x : Has(<<"on_accept_failed">>, x) <=> x \in {"on_accept_failed"}
        BY DEF Has
      <3>4. Tail(s) \in {<<>>} \cup FailTails
        BY <1>4, <3>1 DEF FailTails
      <3> QED
        BY <1>4, <2>3, <3>1, <3>2, <3>3, <3>4
    <2>4. CASE s = <<"on_accept_failed">>
      <3>1. s # <<>> /\ Head(s) = "on_accept_failed" /\ Tail(s) = <<>>
        BY <2>4
      <3>2. \A x : Has(s, x) <=> x \in {"on_accept_failed"}
        BY <2>4 DEF Has
      <3>3. \A x : Has(<<>>, x) <=> x \in {}
        BY DEF Has
      <3>4. Tail(s) \in {<<>>} \cup FailTails
        BY <1>4, <3>1 DEF FailTails
      <3> QED
        BY <1>4, <2>4, <3>1, <3>2, <3>3, <3>4
    <2> QED
      BY <1>4, <2>1, <2>2, <2>3, <2>4 DEF FailTails
  <1> QED
    BY <1>1, <1>2, <1>3, <1>4

\* What may be left of a handler depends on the kind of the listener only.
LEMMA TailsSame ==
  ASSUME v1' = v1
  PROVE  StartTails' = StartTails /\ StopTails' = StopTails /\ FailTails' = FailTails
  BY DEF StartTails, StopTails, FailTails

\* The next step of a thread's job is done.
LEMMA JobRest ==
  ASSUME ListenerTypes, NEW t \in {"user", "io1", "io2"}, NEW step, Listener!At(t, step),
         v5' = [v5 EXCEPT ![t] = Tail(v5[t])], v1' = v1, v6' = v6
  PROVE  /\ v5[t] # <<>> /\ Head(v5[t]) = step /\ Has(v5[t], step)
         /\ DOMAIN v5' = {"user", "io1", "io2"}
         /\ \A u \in {"io1", "io2"} : v5'[u] \in {<<>>, <<"accept">>, <<"on_stop">>} \cup FailTails'
         /\ v5'["user"] \in {<<>>} \cup (IF v6' THEN StartTails' ELSE StopTails')
         /\ \A u \in {"user", "io1", "io2"} : u # t => v5'[u] = v5[u]
         /\ v5'[t] = Tail(v5[t])
         /\ \A x : Has(v5'[t], x) <=> Has(v5[t], x) /\ x # step
         /\ t = "user" => v5["user"] \in (IF v6 THEN StartTails ELSE StopTails)
         /\ t # "user" => v5[t] \in {<<"accept">>, <<"on_stop">>} \cup FailTails
  <1> DEFINE s == v5[t]
  <1>1. s # <<>> /\ Head(s) = step
    BY DEF Listener!At, Listener!Idle
  <1>2. DOMAIN v5 = {"user", "io1", "io2"} /\ v1 \in {"impl", "ssl", "pipe"} /\ v6 \in BOOLEAN
    BY DEF ListenerTypes
  <1>3. /\ DOMAIN v5' = {"user", "io1", "io2"} /\ v5'[t] = Tail(s)
        /\ \A u \in {"user", "io1", "io2"} : u # t => v5'[u] = v5[u]
    BY <1>2
  <1>4. StartTails' = StartTails /\ StopTails' = StopTails /\ FailTails' = FailTails
    BY TailsSame
  <1>5. \A u \in {"io1", "io2"} : v5[u] \in {<<>>, <<"accept">>, <<"on_stop">>} \cup FailTails
    BY DEF ListenerTypes
  <1>6. v5["user"] \in {<<>>} \cup (IF v6 THEN StartTails ELSE StopTails)
    BY DEF ListenerTypes
  <1>7. CASE t = "user"
    <2>1. CASE v6
      <3>1. s \in StartTails
        BY <1>1, <1>6, <1>7, <2>1
      <3> HIDE DEF s
      <3>2. /\ Tail(s) \in {<<>>} \cup StartTails /\ Has(s, step)
            /\ \A x : Has(Tail(s), x) <=> Has(s, x) /\ x # step
        BY <1>1, <1>2, <3>1, StartTail
      <3> QED
        BY <1>1, <1>3, <1>4, <1>5, <1>7, <2>1, <3>1, <3>2 DEF s
    <2>2. CASE ~v6
      <3>1. s \in StopTails
        BY <1>1, <1>6, <1>7, <2>2
      <3> HIDE DEF s
      <3>2. /\ Tail(s) \in {<<>>} \cup StopTails /\ Has(s, step)
            /\ \A x : Has(Tail(s), x) <=> Has(s, x) /\ x # step
        BY <1>1, <1>2, <3>1, StopTail
      <3> QED
        BY <1>1, <1>3, <1>4, <1>5, <1>7, <2>2, <3>1, <3>2 DEF s
    <2> QED
      BY <2>1, <2>2
  <1>8. CASE t # "user"
    <2>1. s \in {<<"accept">>, <<"on_stop">>} \cup FailTails
      BY <1>1, <1>5, <1>8
    <2> HIDE DEF s
    <2>2. /\ Tail(s) \in {<<>>} \cup FailTails /\ Has(s, step)
          /\ \A x : Has(Tail(s), x) <=> Has(s, x) /\ x # step
      BY <1>1, <1>2, <2>1, IoTail
    <2> QED
      BY <1>1, <1>3, <1>4, <1>5, <1>6, <1>8, <2>1, <2>2 DEF s
  <1> QED
    BY <1>7, <1>8

\* An idle thread has no step.
LEMMA HasNone ==
  ASSUME NEW x
  PROVE  ~Has(<<>>, x)
  BY DEF Has

\* What the jobs of a listener hold.
LEMMA JobsAre ==
  ASSUME ListenerTypes
  PROVE  /\ v6 => ~Has(v5["user"], "unflag")
         /\ v6 /\ Has(v5["user"], "reset") => Has(v5["user"], "accept") /\ v1 # "pipe"
         /\ v6 /\ v1 = "impl" /\ Has(v5["user"], "accept") => Has(v5["user"], "flag")
         /\ v6 /\ v1 # "impl" /\ Has(v5["user"], "flag") => Has(v5["user"], "accept")
         /\ ~v6 => /\ ~Has(v5["user"], "accept") /\ ~Has(v5["user"], "flag")
                   /\ ~Has(v5["user"], "reset")
         /\ \A t \in {"io1", "io2"} :
              /\ ~Has(v5[t], "flag") /\ ~Has(v5[t], "reset")
              /\ Has(v5[t], "accept") <=> v5[t] = <<"accept">>
  <1> DEFINE s == v5["user"]
  <1>1. v1 \in {"impl", "ssl", "pipe"} /\ v6 \in BOOLEAN
    BY DEF ListenerTypes
  <1>2. v6 => s \in {<<>>} \cup StartTails
    BY DEF ListenerTypes
  <1>3. ~v6 => s \in {<<>>} \cup StopTails
    BY DEF ListenerTypes
  <1>4. \A x : ~Has(<<>>, x)
    BY HasNone
  <1>5. /\ v6 => ~Has(s, "unflag")
        /\ v6 /\ Has(s, "reset") => Has(s, "accept") /\ v1 # "pipe"
        /\ v6 /\ v1 = "impl" /\ Has(s, "accept") => Has(s, "flag")
        /\ v6 /\ v1 # "impl" /\ Has(s, "flag") => Has(s, "accept")
    <2> HIDE DEF s
    <2> QED
      BY <1>1, <1>2, <1>4, StartTail
  <1>6. ~v6 => ~Has(s, "accept") /\ ~Has(s, "flag") /\ ~Has(s, "reset")
    <2> HIDE DEF s
    <2> QED
      BY <1>1, <1>3, <1>4, StopTail
  <1>7. ASSUME NEW t \in {"io1", "io2"}
        PROVE  /\ ~Has(v5[t], "flag") /\ ~Has(v5[t], "reset")
               /\ Has(v5[t], "accept") <=> v5[t] = <<"accept">>
    <2> DEFINE r == v5[t]
    <2>1. r \in {<<>>} \cup ({<<"accept">>, <<"on_stop">>} \cup FailTails)
      BY DEF ListenerTypes
    <2>2. CASE r = <<>>
      BY <1>4, <2>2
    <2>3. CASE r # <<>>
      <3> HIDE DEF r
      <3> QED
        BY <1>1, <2>1, <2>3, IoTail DEF r
    <2> QED
      BY <2>2, <2>3
  <1> QED
    BY <1>5, <1>6, <1>7

\* A new listener.
LEMMA ListenerStarts ==
  ASSUME Listener!Init
  PROVE  ListenerInv
  <1>1. /\ v1 \in {"impl", "ssl", "pipe"} /\ v2 = FALSE /\ v3 = "none"
        /\ v4 = [pending |-> 0, ok |-> 0, err |-> 0]
        /\ v5 = [t \in {"user", "io1", "io2"} |-> <<>>]
        /\ v6 = FALSE /\ v9 = 0 /\ v11 = FALSE /\ v12 = FALSE /\ v13 = FALSE
    BY DEF Listener!Init, Listener!Kinds, Listener!Threads
  <1>2. v2 \in BOOLEAN /\ v6 \in BOOLEAN /\ v11 \in BOOLEAN /\ v12 \in BOOLEAN /\ v13 \in BOOLEAN
    BY <1>1, Zenon
  <1>3. ListenerTypes
    BY <1>1, <1>2 DEF ListenerTypes
  <1>4. ActiveInv
    BY <1>1, HasNone DEF ActiveInv
  <1>5. StartedInv
    BY <1>1 DEF StartedInv
  <1>6. LateInv
    BY <1>1, HasNone DEF LateInv, Tokens, Owed
  <1> QED
    BY <1>3, <1>4, <1>5, <1>6 DEF ListenerInv

\* A start.
LEMMA ListenerStart ==
  ASSUME ListenerInv, Listener!Start
  PROVE  ListenerInv'
  <1> DEFINE zero == [pending |-> 0, ok |-> 0, err |-> 0]
  <1>1. /\ v5["user"] = <<>> /\ v5' = [v5 EXCEPT !["user"] = Listener!StartSteps]
        /\ ~v6 /\ v6' = TRUE /\ v1' = v1 /\ v2' = v2 /\ v3' = v3 /\ v4' = v4
        /\ v9' = v9 /\ v11' = v11 /\ v12' = v12
    BY DEF Listener!Start, Listener!Idle, Listener!Does
  <1>2. v13' = (v13 \/ v4 # zero \/ \E t \in {"io1", "io2"} : v5[t] # <<>>)
    BY DEF Listener!Start, Listener!Idle, Listener!IoThreads, Listener!Threads
  <1>3. v6' \in BOOLEAN /\ v13' \in BOOLEAN /\ v2' \in BOOLEAN /\ v11' \in BOOLEAN /\ v12' \in BOOLEAN
    BY <1>1, <1>2, Zenon DEF ListenerInv, ListenerTypes
  <1>4. ~v13' => ~v13 /\ v4 = zero /\ v5["io1"] = <<>> /\ v5["io2"] = <<>>
    BY <1>2, Zenon
  <1>5. StartTails' = StartTails /\ StopTails' = StopTails /\ FailTails' = FailTails
    BY <1>1, TailsSame
  <1> DEFINE S == Listener!StartSteps
  <1>6. /\ S \in StartTails
        /\ Has(S, "accept") /\ Has(S, "flag") /\ (v1 # "pipe" => Has(S, "reset"))
    <2>1. CASE v1 = "impl"
      <3>1. S = <<"reset", "accept", "flag", "on_start">>
        BY <2>1 DEF Listener!StartSteps
      <3> QED
        BY <2>1, <3>1 DEF StartTails, Has
    <2>2. CASE v1 = "ssl"
      <3>1. S = <<"flag", "reset", "accept", "on_start">>
        BY <2>2 DEF Listener!StartSteps
      <3> QED
        BY <2>2, <3>1 DEF StartTails, Has
    <2>3. CASE v1 = "pipe"
      <3>1. S = <<"flag", "accept", "on_start">>
        BY <2>3 DEF Listener!StartSteps
      <3> QED
        BY <2>3, <3>1 DEF StartTails, Has
    <2> QED
      BY <2>1, <2>2, <2>3 DEF ListenerInv, ListenerTypes
  <1> HIDE DEF S
  <1>7. /\ DOMAIN v5' = {"user", "io1", "io2"} /\ v5'["user"] = S
        /\ v5'["io1"] = v5["io1"] /\ v5'["io2"] = v5["io2"]
    BY <1>1 DEF ListenerInv, ListenerTypes, S
  <1>8. ListenerTypes'
    BY <1>1, <1>3, <1>5, <1>6, <1>7 DEF ListenerInv, ListenerTypes
  <1>9. ActiveInv'
    BY <1>1, <1>6, <1>7 DEF ActiveInv
  <1>10. StartedInv'
    BY <1>1, <1>4, <1>6, <1>7 DEF StartedInv
  <1>11. LateInv'
    BY <1>1, <1>4, <1>6, <1>7, HasNone DEF ListenerInv, LateInv, Tokens, Owed
  <1> QED
    BY <1>8, <1>9, <1>10, <1>11 DEF ListenerInv

\* A step appended to two or three steps.
LEMMA TupleAppend ==
  ASSUME NEW a, NEW b, NEW c
  PROVE  /\ <<a, b>> \o <<c>> = <<a, b, c>>
         /\ \A d : <<a, b, c>> \o <<d>> = <<a, b, c, d>>
  <1>1. <<a, b>> \o <<c>> = <<a, b, c>>
    <2> DEFINE S == {a, b, c}  r == <<a, b>>  t == <<c>>  u == <<a, b, c>>
    <2>1. r \in Seq(S) /\ t \in Seq(S) /\ u \in Seq(S) /\ Len(r) = 2 /\ Len(t) = 1 /\ Len(u) = 3
      OBVIOUS
    <2>2. r[1] = u[1] /\ r[2] = u[2] /\ t[1] = u[3]
      OBVIOUS
    <2> HIDE DEF S, r, t, u
    <2>0. r \in Seq(S) /\ t \in Seq(S)
      BY <2>1
    <2>3. /\ r \o t \in Seq(S) /\ Len(r \o t) = Len(r) + Len(t)
          /\ \A i \in 1..Len(r) : (r \o t)[i] = r[i]
          /\ \A i \in 1..Len(t) : (r \o t)[Len(r) + i] = t[i]
      BY <2>0, ConcatAt
    <2>4. (r \o t)[1] = u[1] /\ (r \o t)[2] = u[2] /\ (r \o t)[3] = u[3]
      BY <2>1, <2>2, <2>3
    <2>6. Len(r \o t) = Len(u)
      BY <2>1, <2>3
    <2>7. \A i \in 1..Len(u) : (r \o t)[i] = u[i]
      <3>1. Len(u) = 3
        BY <2>1
      <3>2. \A i \in 1..Len(u) : i = 1 \/ i = 2 \/ i = 3
        BY <3>1
      <3> QED
        BY <2>4, <3>2, Zenon
    <2>5. r \o t = u
      BY <2>1, <2>3, <2>6, <2>7, SameSeq
    <2> QED
      BY <2>5 DEF r, t, u
  <1>2. ASSUME NEW d PROVE <<a, b, c>> \o <<d>> = <<a, b, c, d>>
    <2> DEFINE S == {a, b, c, d}  r == <<a, b, c>>  t == <<d>>  u == <<a, b, c, d>>
    <2>1. r \in Seq(S) /\ t \in Seq(S) /\ u \in Seq(S) /\ Len(r) = 3 /\ Len(t) = 1 /\ Len(u) = 4
      OBVIOUS
    <2>2. r[1] = u[1] /\ r[2] = u[2] /\ r[3] = u[3] /\ t[1] = u[4]
      OBVIOUS
    <2> HIDE DEF S, r, t, u
    <2>0. r \in Seq(S) /\ t \in Seq(S)
      BY <2>1
    <2>3. /\ r \o t \in Seq(S) /\ Len(r \o t) = Len(r) + Len(t)
          /\ \A i \in 1..Len(r) : (r \o t)[i] = r[i]
          /\ \A i \in 1..Len(t) : (r \o t)[Len(r) + i] = t[i]
      BY <2>0, ConcatAt
    <2>4. (r \o t)[1] = u[1] /\ (r \o t)[2] = u[2] /\ (r \o t)[3] = u[3] /\ (r \o t)[4] = u[4]
      BY <2>1, <2>2, <2>3
    <2>6. Len(r \o t) = Len(u)
      BY <2>1, <2>3
    <2>7. \A i \in 1..Len(u) : (r \o t)[i] = u[i]
      <3>1. Len(u) = 4
        BY <2>1
      <3>2. \A i \in 1..Len(u) : i = 1 \/ i = 2 \/ i = 3 \/ i = 4
        BY <3>1
      <3> QED
        BY <2>4, <3>2, Zenon
    <2>5. r \o t = u
      BY <2>1, <2>3, <2>6, <2>7, SameSeq
    <2> QED
      BY <2>5 DEF r, t, u
  <1> QED
    BY <1>1, <1>2

\* A stop.
LEMMA ListenerStop ==
  ASSUME ListenerInv, Listener!Stop
  PROVE  ListenerInv'
  <1> DEFINE S == Listener!StopSteps
  <1>1. /\ v5["user"] = <<>> /\ v5' = [v5 EXCEPT !["user"] = S]
        /\ v6 /\ v6' = FALSE /\ v1' = v1 /\ v2' = v2 /\ v3' = v3 /\ v4' = v4
        /\ v9' = 0 /\ v11' = v11 /\ v12' = v12 /\ v13' = v13
    BY DEF Listener!Stop, Listener!Idle, Listener!Does
  <1>2. v6' \in BOOLEAN /\ v13' \in BOOLEAN /\ v2' \in BOOLEAN /\ v11' \in BOOLEAN /\ v12' \in BOOLEAN
    BY <1>1, Zenon DEF ListenerInv, ListenerTypes
  <1>3. StartTails' = StartTails /\ StopTails' = StopTails /\ FailTails' = FailTails
    BY <1>1, TailsSame
  <1>4. S \in StopTails /\ Has(S, "unflag") /\ ~Has(S, "accept") /\ ~Has(S, "flag") /\ ~Has(S, "reset") /\ S # <<>>
    <2>1. CASE v1 # "pipe"
      <3>1. S = <<"unflag", "close">>
        BY <2>1 DEF Listener!StopSteps
      <3> QED
        BY <2>1, <3>1 DEF StopTails, Has
    <2>2. CASE v1 = "pipe"
      <3>1. S = <<"unflag", "close", "on_stop">>
        BY <2>2, TupleAppend DEF Listener!StopSteps
      <3> QED
        BY <2>2, <3>1 DEF StopTails, Has
    <2> QED
      BY <2>1, <2>2
  <1> HIDE DEF S
  <1>5. /\ DOMAIN v5' = {"user", "io1", "io2"} /\ v5'["user"] = S
        /\ v5'["io1"] = v5["io1"] /\ v5'["io2"] = v5["io2"]
    BY <1>1 DEF ListenerInv, ListenerTypes, S
  <1>6. ListenerTypes'
    BY <1>1, <1>2, <1>3, <1>4, <1>5 DEF ListenerInv, ListenerTypes
  <1>7. ActiveInv'
    BY <1>1, <1>4, <1>5 DEF ActiveInv
  <1>8. StartedInv'
    BY <1>1 DEF StartedInv
  <1>9. LateInv'
    BY <1>1, <1>4, <1>5, HasNone DEF ListenerInv, LateInv, Tokens, Owed
  <1> QED
    BY <1>6, <1>7, <1>8, <1>9 DEF ListenerInv

\* acceptor_.reset, with which a start begins or fails.
LEMMA ListenerReset ==
  ASSUME ListenerInv, NEW t \in {"user", "io1", "io2"}, Listener!Reset(t)
  PROVE  ListenerInv'
  <1>1. ListenerTypes
    BY DEF ListenerInv
  <1>2. /\ Listener!At(t, "reset") /\ v1' = v1 /\ v2' = v2 /\ v9' = v9 /\ v11' = v11 /\ v13' = v13
        /\ v4' = [v4 EXCEPT !.pending = 0, !.err = @ + v4.pending]
    BY DEF Listener!Reset, Listener!Aborted
  <1>3. v4 \in [pending : Nat, ok : Nat, err : Nat]
    BY <1>1 DEF ListenerTypes
  <1>4. /\ v4' \in [pending : Nat, ok : Nat, err : Nat]
        /\ v4'.pending = 0 /\ v4'.ok = v4.ok /\ v4'.err = v4.err + v4.pending
    <2>1. v4.pending \in Nat /\ v4.err \in Nat /\ v4.err + v4.pending \in Nat
      BY <1>3
    <2> QED
      BY <1>2, <1>3, <2>1
  <1>5. Has(v5[t], "reset") /\ v5[t] # <<>>
    <2> DEFINE s == v5[t]
    <2>1. s # <<>> /\ Head(s) = "reset"
      BY <1>2 DEF Listener!At, Listener!Idle
    <2>2. s \in StartTails \cup StopTails \cup ({<<"accept">>, <<"on_stop">>} \cup FailTails)
      BY <1>1, <2>1 DEF ListenerTypes
    <2> HIDE DEF s
    <2>3. v1 \in {"impl", "ssl", "pipe"}
      BY <1>1 DEF ListenerTypes
    <2>4. Has(s, "reset")
      BY <2>1, <2>2, <2>3, StartTail, StopTail, IoTail
    <2> QED
      BY <2>1, <2>4 DEF s
  <1>6. t = "user" /\ v6
    BY <1>1, <1>5, JobsAre DEF ListenerTypes
  <1>7. Has(v5["user"], "accept") /\ v1 # "pipe" /\ (v1 = "impl" => Has(v5["user"], "flag"))
    BY <1>1, <1>5, <1>6, JobsAre
  <1>8. StartTails' = StartTails /\ StopTails' = StopTails /\ FailTails' = FailTails
    BY <1>2, TailsSame
  <1>9. CASE v3' = "open" /\ Listener!Rest(t) /\ UNCHANGED <<v6, v12>>
    <2>1. v5' = [v5 EXCEPT ![t] = Tail(v5[t])] /\ v6' = v6 /\ v12' = v12 /\ v3' = "open"
      BY <1>9 DEF Listener!Rest, Listener!Does
    <2>2. /\ DOMAIN v5' = {"user", "io1", "io2"}
          /\ \A u \in {"io1", "io2"} : v5'[u] \in {<<>>, <<"accept">>, <<"on_stop">>} \cup FailTails'
          /\ v5'["user"] \in {<<>>} \cup (IF v6' THEN StartTails' ELSE StopTails')
          /\ v5'["io1"] = v5["io1"] /\ v5'["io2"] = v5["io2"]
          /\ \A x : Has(v5'["user"], x) <=> Has(v5["user"], x) /\ x # "reset"
      BY <1>1, <1>2, <1>6, <2>1, JobRest
    <2>3. ListenerTypes'
      BY <1>1, <1>2, <1>4, <2>1, <2>2 DEF ListenerTypes
    <2>4. ActiveInv'
      BY <1>2, <1>7, <2>1, <2>2 DEF ActiveInv
    <2>5. StartedInv'
      BY <1>2, <1>3, <1>4, <1>5, <1>6, <2>1, <2>2 DEF ListenerInv, StartedInv
    <2>6. LateInv'
      BY <1>2, <1>3, <1>4, <1>6, <1>7, <2>1, <2>2 DEF ListenerInv, LateInv, Tokens, Owed
    <2> QED
      BY <2>3, <2>4, <2>5, <2>6 DEF ListenerInv
  <1>10. CASE /\ v3' = IF v3 = "none" THEN "none" ELSE "closed"
              /\ Listener!Does(t, <<>>) /\ v6' = FALSE /\ v12' = (v12 \/ v2)
    <2>1. /\ v5' = [v5 EXCEPT !["user"] = <<>>] /\ v6' = FALSE /\ v3' \in {"none", "open", "closed"}
      BY <1>6, <1>10 DEF Listener!Does
    <2>2. /\ DOMAIN v5' = {"user", "io1", "io2"} /\ v5'["user"] = <<>>
          /\ v5'["io1"] = v5["io1"] /\ v5'["io2"] = v5["io2"]
      BY <1>1, <2>1 DEF ListenerTypes
    <2>3. v6' \in BOOLEAN /\ v12' \in BOOLEAN /\ (~v12' => ~v2) /\ (v2 => v12')
      BY <1>10, Zenon
    <2>4. v2' \in BOOLEAN /\ v11' \in BOOLEAN /\ v13' \in BOOLEAN
      BY <1>1, <1>2, Zenon DEF ListenerTypes
    <2>5. ListenerTypes'
      BY <1>1, <1>2, <1>4, <1>8, <2>1, <2>2, <2>3, <2>4 DEF ListenerTypes
    <2>6. ActiveInv'
      BY <1>2, <2>2, <2>3, HasNone DEF ActiveInv
    <2>7. StartedInv'
      BY <2>1 DEF StartedInv
    <2>8. LateInv'
      <3>1. ~v13' => v4.pending + v4.ok + Owed("io1") + Owed("io2") + Owed("user") <= 1 /\ v9 <= 1
        BY <1>2 DEF ListenerInv, LateInv, Tokens
      <3>2. Owed("user") = 1 /\ Owed("io1") \in Nat /\ Owed("io2") \in Nat
        BY <1>7 DEF Owed
      <3>3. Owed("user")' = 0 /\ Owed("io1")' = Owed("io1") /\ Owed("io2")' = Owed("io2")
        BY <2>2, HasNone DEF Owed
      <3>4. ~v13' => Tokens' = 0 /\ v4'.ok = 0
        BY <1>3, <1>4, <3>1, <3>2, <3>3 DEF Tokens
      <3>5. v9 \in Nat
        BY <1>1 DEF ListenerTypes
      <3> QED
        BY <1>2, <1>4, <2>2, <3>1, <3>3, <3>4, <3>5 DEF LateInv
    <2> QED
      BY <2>5, <2>6, <2>7, <2>8 DEF ListenerInv
  <1> QED
    BY <1>9, <1>10 DEF Listener!Reset

\* working_ is set.
LEMMA ListenerFlag ==
  ASSUME ListenerInv, NEW t \in {"user", "io1", "io2"}, Listener!Flag(t)
  PROVE  ListenerInv'
  <1>1. ListenerTypes
    BY DEF ListenerInv
  <1>2. /\ Listener!At(t, "flag") /\ v1' = v1 /\ v2' = TRUE /\ v3' = v3 /\ v4' = v4 /\ v6' = v6
        /\ v9' = v9 /\ v11' = v11 /\ v12' = v12 /\ v13' = v13
        /\ v5' = [v5 EXCEPT ![t] = Tail(v5[t])]
    BY DEF Listener!Flag, Listener!History, Listener!Rest, Listener!Does
  <1>3. /\ v5[t] # <<>> /\ Head(v5[t]) = "flag" /\ Has(v5[t], "flag")
        /\ DOMAIN v5' = {"user", "io1", "io2"}
        /\ \A u \in {"io1", "io2"} : v5'[u] \in {<<>>, <<"accept">>, <<"on_stop">>} \cup FailTails'
        /\ v5'["user"] \in {<<>>} \cup (IF v6' THEN StartTails' ELSE StopTails')
        /\ \A u \in {"user", "io1", "io2"} : u # t => v5'[u] = v5[u]
        /\ \A x : Has(v5'[t], x) <=> Has(v5[t], x) /\ x # "flag"
        /\ t = "user" => v5["user"] \in (IF v6 THEN StartTails ELSE StopTails)
    BY <1>1, <1>2, JobRest
  <1>4. t = "user" /\ v6 /\ v5["user"] \in StartTails
    BY <1>1, <1>3, JobsAre DEF ListenerTypes
  <1>5. /\ v1 = "impl" => ~Has(v5["user"], "accept")
        /\ v1 # "impl" => Has(v5["user"], "accept")
    <2>1. v1 \in {"impl", "ssl", "pipe"}
      BY <1>1 DEF ListenerTypes
    <2> QED
      BY <1>3, <1>4, <2>1, StartTail
  <1>6. v2' \in BOOLEAN
    BY <1>2, Zenon
  <1>7. ListenerTypes'
    BY <1>1, <1>2, <1>3, <1>6 DEF ListenerTypes
  <1>8. ActiveInv'
    BY <1>2, <1>3, <1>4, <1>5 DEF ListenerInv, ActiveInv, Accepting
  <1>9. StartedInv'
    BY <1>2, <1>3, <1>4 DEF ListenerInv, StartedInv
  <1>10. LateInv'
    BY <1>2, <1>3, <1>4 DEF ListenerInv, LateInv, Tokens, Owed
  <1> QED
    BY <1>7, <1>8, <1>9, <1>10 DEF ListenerInv

\* Accepts that come or go: what a step of start_accept does to them.
LEMMA ListenerAccept ==
  ASSUME ListenerInv, NEW t \in {"user", "io1", "io2"}, Listener!start_accept(t)
  PROVE  ListenerInv'
  <1>1. ListenerTypes
    BY DEF ListenerInv
  <1>2. /\ Listener!At(t, "accept") /\ v1 # "pipe" /\ v1' = v1 /\ v2' = v2 /\ v3' = v3 /\ v6' = v6
        /\ v9' = v9 /\ v11' = v11 /\ v12' = v12 /\ v13' = v13
        /\ v5' = [v5 EXCEPT ![t] = Tail(v5[t])]
        /\ v4' = IF v3 = "open" THEN [v4 EXCEPT !.pending = @ + 1] ELSE [v4 EXCEPT !.err = @ + 1]
    BY DEF Listener!start_accept, Listener!History, Listener!Rest, Listener!Does
  <1>3. /\ v5[t] # <<>> /\ Head(v5[t]) = "accept" /\ Has(v5[t], "accept")
        /\ DOMAIN v5' = {"user", "io1", "io2"}
        /\ \A u \in {"io1", "io2"} : v5'[u] \in {<<>>, <<"accept">>, <<"on_stop">>} \cup FailTails'
        /\ v5'["user"] \in {<<>>} \cup (IF v6' THEN StartTails' ELSE StopTails')
        /\ \A u \in {"user", "io1", "io2"} : u # t => v5'[u] = v5[u]
        /\ v5'[t] = Tail(v5[t])
        /\ \A x : Has(v5'[t], x) <=> Has(v5[t], x) /\ x # "accept"
        /\ t = "user" => v5["user"] \in (IF v6 THEN StartTails ELSE StopTails)
    BY <1>1, <1>2, JobRest
  <1>4. v4 \in [pending : Nat, ok : Nat, err : Nat]
    BY <1>1 DEF ListenerTypes
  <1>5. /\ v4' \in [pending : Nat, ok : Nat, err : Nat] /\ v4'.ok = v4.ok
        /\ v3 = "open" => v4'.pending = v4.pending + 1 /\ v4'.err = v4.err
        /\ v3 # "open" => v4'.pending = v4.pending /\ v4'.err = v4.err + 1
    <2>1. v4.pending + 1 \in Nat /\ v4.err + 1 \in Nat
      BY <1>4
    <2> QED
      BY <1>2, <1>4, <2>1
  <1>6. t # "user" => v5[t] = <<"accept">> /\ v5'[t] = <<>>
    <2>1. t # "user" => v5[t] = <<"accept">>
      BY <1>1, <1>3, JobsAre
    <2>2. Tail(<<"accept">>) = <<>>
      OBVIOUS
    <2> QED
      BY <1>3, <2>1, <2>2, Zenon
  <1>7. t = "user" => v6 /\ ~Has(v5["user"], "reset")
    <2>1. t = "user" => v6
      BY <1>1, <1>3, JobsAre DEF ListenerTypes
    <2>2. v1 \in {"impl", "ssl", "pipe"}
      BY <1>1 DEF ListenerTypes
    <2> QED
      BY <1>3, <2>1, <2>2, StartTail
  <1>8. ListenerTypes'
    BY <1>1, <1>2, <1>3, <1>5 DEF ListenerTypes
  <1>9. ActiveInv'
    <2>1. v4'.pending + v4'.ok + v4'.err > 0
      BY <1>4, <1>5
    <2> QED
      BY <2>1 DEF ActiveInv, Accepting
  <1>10. StartedInv'
    <2> SUFFICES ASSUME v6', ~v11', ~v12', ~v13'
                 PROVE  StartedInv'
      BY DEF StartedInv
    <2>1. /\ v4.err = 0
          /\ \A u \in {"io1", "io2"} : v5[u] \in {<<>>, <<"accept">>}
          /\ v2 \/ Has(v5["user"], "flag")
          /\ Has(v5["user"], "reset") =>
               v4.pending = 0 /\ v4.ok = 0 /\ \A u \in {"io1", "io2"} : v5[u] = <<>>
          /\ ~Has(v5["user"], "reset") => v3 = "open"
      BY <1>2 DEF ListenerInv, StartedInv
    <2>2. ~Has(v5["user"], "reset")
      <3>1. CASE t = "user"
        BY <1>7, <3>1
      <3>2. CASE t # "user"
        BY <1>3, <2>1, <3>2
      <3> QED
        BY <3>1, <3>2
    <2>3. v3 = "open" /\ v4'.err = 0
      BY <1>5, <2>1, <2>2
    <2>4. \A u \in {"io1", "io2"} : v5'[u] \in {<<>>, <<"accept">>}
      BY <1>3, <1>6, <2>1
    <2>5. \A x : x # "accept" => (Has(v5'["user"], x) <=> Has(v5["user"], x))
      BY <1>3
    <2> QED
      BY <1>2, <2>1, <2>2, <2>3, <2>4, <2>5 DEF StartedInv
  <1>11. LateInv'
    <2> SUFFICES ASSUME ~v13'
                 PROVE  LateInv'
      BY DEF LateInv
    <2>1. /\ v4.pending + v4.ok + Owed("io1") + Owed("io2") + Owed("user") <= 1
          /\ v9 <= 1
          /\ ~v6 /\ v5["user"] # <<>> => v9 = 0
          /\ ~v6 /\ v5["user"] # <<>> /\ ~Has(v5["user"], "unflag") => ~v2
          /\ ~v6 /\ v5["user"] = <<>> =>
               v9 + v4.pending + v4.ok <= 1 /\ (Tokens > 0 => Deafened)
      BY <1>2 DEF ListenerInv, LateInv, Tokens
    <2>2. /\ Owed(t) = 1 /\ Owed(t)' = 0
          /\ \A u \in {"user", "io1", "io2"} : u # t => Owed(u)' = Owed(u)
          /\ \A u \in {"user", "io1", "io2"} : Owed(u) \in Nat
      BY <1>3 DEF Owed
    <2>3. Tokens' + Owed("user")' <= Tokens + Owed("user") /\ Tokens' <= Tokens + 1
      BY <1>4, <1>5, <2>2 DEF Tokens
    <2>4. ~v6 => t # "user" /\ v5'["user"] = v5["user"]
      BY <1>3, <1>7
    <2>5. ~v6 /\ v5["user"] = <<>> => Tokens > 0 /\ Deafened /\ v3 # "open"
      <3>1. t # "user" => Tokens > 0
        BY <1>4, <2>2 DEF Tokens
      <3> QED
        BY <1>2, <2>1, <2>4, <3>1 DEF Deafened
    <2>6. Deafened' = Deafened
      BY <1>2 DEF Deafened
    <2>7. Tokens' + Owed("user")' <= 1
      <3>1. Tokens + Owed("user") <= 1
        BY <2>1 DEF Tokens
      <3>2. Tokens \in Int /\ Tokens' \in Int /\ Owed("user") \in Int /\ Owed("user")' \in Int
        BY <1>4, <1>5, <2>2 DEF Tokens
      <3> QED
        BY <2>3, <3>1, <3>2
    <2>8. ~v6' /\ v5'["user"] # <<>> /\ ~Has(v5'["user"], "unflag") => ~v2'
      BY <1>2, <2>1, <2>4
    <2>9. ~v6' /\ v5'["user"] = <<>> => v9' + v4'.pending + v4'.ok <= 1 /\ Deafened'
      BY <1>2, <1>5, <2>1, <2>4, <2>5, <2>6
    <2>10. v9' <= 1 /\ (~v6' /\ v5'["user"] # <<>> => v9' = 0)
      BY <1>2, <2>1, <2>4
    <2> QED
      BY <2>7, <2>8, <2>9, <2>10 DEF LateInv
  <1> QED
    BY <1>8, <1>9, <1>10, <1>11 DEF ListenerInv

\* The accept a thread is going to start is the only one.
LEMMA LateFacts ==
  ASSUME ListenerInv, ~v13
  PROVE  /\ v4.pending \in Nat /\ v4.ok \in Nat /\ v4.err \in Nat /\ v9 \in Nat
         /\ \A u \in {"user", "io1", "io2"} : Owed(u) \in Nat /\ (Has(v5[u], "accept") => Owed(u) = 1)
         /\ v4.pending + v4.ok + Owed("io1") + Owed("io2") + Owed("user") <= 1
         /\ v9 <= 1
         /\ ~v6 /\ v5["user"] # <<>> => v9 = 0
         /\ ~v6 /\ v5["user"] # <<>> /\ ~Has(v5["user"], "unflag") => ~v2
         /\ ~v6 /\ v5["user"] = <<>> =>
              /\ v9 + v4.pending + v4.ok <= 1
              /\ v4.pending > 0 \/ v4.ok > 0 \/ Owed("io1") > 0 \/ Owed("io2") > 0 => Deafened
  <1>1. /\ Tokens + Owed("user") <= 1
        /\ v9 <= 1
        /\ ~v6 /\ v5["user"] # <<>> => v9 = 0
        /\ ~v6 /\ v5["user"] # <<>> /\ ~Has(v5["user"], "unflag") => ~v2
        /\ ~v6 /\ v5["user"] = <<>> => v9 + v4.pending + v4.ok <= 1 /\ (Tokens > 0 => Deafened)
    BY DEF ListenerInv, LateInv
  <1>2. v4 \in [pending : Nat, ok : Nat, err : Nat] /\ v9 \in Nat
    BY DEF ListenerInv, ListenerTypes
  <1>3. v4.pending \in Nat /\ v4.ok \in Nat /\ v4.err \in Nat
    BY <1>2
  <1>4. \A u \in {"user", "io1", "io2"} : Owed(u) \in Nat /\ (Has(v5[u], "accept") => Owed(u) = 1)
    BY DEF Owed
  <1>5. v4.pending > 0 \/ v4.ok > 0 \/ Owed("io1") > 0 \/ Owed("io2") > 0 => Tokens > 0
    BY <1>3, <1>4 DEF Tokens
  <1> QED
    BY <1>1, <1>2, <1>3, <1>4, <1>5 DEF Tokens

\* start_accept of the pipe.
LEMMA ListenerAcceptPipe ==
  ASSUME ListenerInv, NEW t \in {"user", "io1", "io2"}, Listener!start_accept_pipe(t)
  PROVE  ListenerInv'
  <1>1. ListenerTypes
    BY DEF ListenerInv
  <1>2. /\ Listener!At(t, "accept") /\ v1 = "pipe" /\ v1' = v1 /\ v2' = v2 /\ v3' = v3
        /\ v9' = v9 /\ v13' = v13
    BY DEF Listener!start_accept_pipe
  <1>3. v4 \in [pending : Nat, ok : Nat, err : Nat] /\ v4.pending \in Nat /\ v4.ok \in Nat /\ v4.err \in Nat
    BY <1>1 DEF ListenerTypes
  <1>4. v5[t] # <<>> /\ Has(v5[t], "accept")
    <2> DEFINE s == v5[t]
    <2>1. s # <<>> /\ Head(s) = "accept"
      BY <1>2 DEF Listener!At, Listener!Idle
    <2>2. s \in StartTails \cup StopTails \cup ({<<"accept">>, <<"on_stop">>} \cup FailTails)
      BY <1>1, <2>1 DEF ListenerTypes
    <2> HIDE DEF s
    <2>3. v1 \in {"impl", "ssl", "pipe"}
      BY <1>1 DEF ListenerTypes
    <2>4. Has(s, "accept")
      BY <2>1, <2>2, <2>3, StartTail, StopTail, IoTail
    <2> QED
      BY <2>1, <2>4 DEF s
  <1>5. t = "user" => v6
    BY <1>1, <1>4, JobsAre DEF ListenerTypes
  <1>6. ~Has(v5["user"], "reset")
    BY <1>1, <1>2, JobsAre DEF ListenerTypes
  <1>7. StartTails' = StartTails /\ StopTails' = StopTails /\ FailTails' = FailTails /\ Deafened' = Deafened
    BY <1>2, TailsSame DEF Deafened
  <1>8. ASSUME Listener!Rest(t), v6' = v6, v12' = v12, v11' \in BOOLEAN, v11 => v11',
               v4' \in [pending : Nat, ok : Nat, err : Nat],
               v4'.pending + v4'.ok <= v4.pending + v4.ok + 1,
               ~v2 => v4' = v4,
               v2 => v4'.pending + v4'.ok + v4'.err > 0,
               ~v11' => v4'.err = v4.err
        PROVE  ListenerInv'
    <2>1. v5' = [v5 EXCEPT ![t] = Tail(v5[t])]
      BY <1>8 DEF Listener!Rest, Listener!Does
    <2>2. /\ DOMAIN v5' = {"user", "io1", "io2"}
          /\ \A u \in {"io1", "io2"} : v5'[u] \in {<<>>, <<"accept">>, <<"on_stop">>} \cup FailTails'
          /\ v5'["user"] \in {<<>>} \cup (IF v6' THEN StartTails' ELSE StopTails')
          /\ \A u \in {"user", "io1", "io2"} : u # t => v5'[u] = v5[u]
          /\ v5'[t] = Tail(v5[t])
          /\ \A x : Has(v5'[t], x) <=> Has(v5[t], x) /\ x # "accept"
      BY <1>1, <1>2, <1>8, <2>1, JobRest
    <2>3. ListenerTypes'
      BY <1>1, <1>2, <1>8, <2>2 DEF ListenerTypes
    <2>4. ActiveInv'
      BY <1>2, <1>8 DEF ActiveInv, Accepting
    <2>5. StartedInv'
      <3> SUFFICES ASSUME v6', ~v11', ~v12', ~v13'
                   PROVE  StartedInv'
        BY DEF StartedInv
      <3>1. /\ v4.err = 0
            /\ \A u \in {"io1", "io2"} : v5[u] \in {<<>>, <<"accept">>}
            /\ v2 \/ Has(v5["user"], "flag")
        BY <1>2, <1>8 DEF ListenerInv, StartedInv
      <3>2. t # "user" => v5'[t] = <<>>
        <4>1. t # "user" => v5[t] = <<"accept">>
          BY <1>1, <1>4, JobsAre
        <4>2. Tail(<<"accept">>) = <<>>
          OBVIOUS
        <4> QED
          BY <2>2, <4>1, <4>2, Zenon
      <3>3. \A x : x # "accept" => (Has(v5'["user"], x) <=> Has(v5["user"], x))
        BY <2>2
      <3>4. \A u \in {"io1", "io2"} : v5'[u] \in {<<>>, <<"accept">>}
        BY <2>2, <3>1, <3>2
      <3> QED
        BY <1>2, <1>6, <1>8, <3>1, <3>3, <3>4 DEF StartedInv
    <2>6. LateInv'
      <3> SUFFICES ASSUME ~v13'
                   PROVE  LateInv'
        BY DEF LateInv
      <3>1. /\ \A u \in {"user", "io1", "io2"} : Owed(u) \in Nat
            /\ v4.pending + v4.ok + Owed("io1") + Owed("io2") + Owed("user") <= 1
            /\ v9 <= 1
            /\ ~v6 /\ v5["user"] # <<>> => v9 = 0
            /\ ~v6 /\ v5["user"] # <<>> /\ ~Has(v5["user"], "unflag") => ~v2
            /\ ~v6 /\ v5["user"] = <<>> =>
                 /\ v9 + v4.pending + v4.ok <= 1
                 /\ v4.pending > 0 \/ v4.ok > 0 \/ Owed("io1") > 0 \/ Owed("io2") > 0 => Deafened
        BY <1>2, LateFacts
      <3>2. /\ Owed(t) = 1 /\ Owed(t)' = 0
            /\ \A u \in {"user", "io1", "io2"} : u # t => Owed(u)' = Owed(u)
        BY <1>4, <2>2 DEF Owed
      <3>3. v4'.pending \in Nat /\ v4'.ok \in Nat
        BY <1>8
      <3>4. v4'.pending + v4'.ok + Owed("io1")' + Owed("io2")' + Owed("user")' <= 1
        <4>1. v4'.pending + v4'.ok <= v4.pending + v4.ok + 1
          BY <1>8
        <4>2. \/ Owed("user") = 1 /\ Owed("user")' = 0 /\ Owed("io1")' = Owed("io1") /\ Owed("io2")' = Owed("io2")
              \/ Owed("io1") = 1 /\ Owed("io1")' = 0 /\ Owed("user")' = Owed("user") /\ Owed("io2")' = Owed("io2")
              \/ Owed("io2") = 1 /\ Owed("io2")' = 0 /\ Owed("user")' = Owed("user") /\ Owed("io1")' = Owed("io1")
          BY <3>2
        <4>3. /\ Owed("user") \in Nat /\ Owed("io1") \in Nat /\ Owed("io2") \in Nat
              /\ v4.pending + v4.ok + Owed("io1") + Owed("io2") + Owed("user") <= 1
          BY <3>1
        <4> QED
          BY <1>3, <3>3, <4>1, <4>2, <4>3
      <3>5. ~v6' => t # "user" /\ v5'["user"] = v5["user"] /\ ~v6
        BY <1>5, <1>8, <2>2
      <3>6. ~v6' /\ v5'["user"] = <<>> => Deafened /\ ~v2 /\ v4' = v4
        <4>1. t # "user" => Owed("io1") > 0 \/ Owed("io2") > 0
          BY <3>2
        <4>2. ~v6' /\ v5'["user"] = <<>> => Deafened
          BY <3>1, <3>5, <4>1
        <4> QED
          BY <1>2, <1>8, <4>2 DEF Deafened
      <3>7. ~v6' /\ v5'["user"] = <<>> => Deafened' /\ v9' + v4'.pending + v4'.ok <= 1
        BY <1>2, <1>7, <3>1, <3>5, <3>6
      <3>8. v9' <= 1 /\ (~v6' /\ v5'["user"] # <<>> => v9' = 0)
        BY <1>2, <3>1, <3>5
      <3>9. ~v6' /\ v5'["user"] # <<>> /\ ~Has(v5'["user"], "unflag") => ~v2'
        BY <1>2, <3>1, <3>5
      <3>10. Tokens' + Owed("user")' <= 1
        BY <3>4 DEF Tokens
      <3> QED
        BY <3>7, <3>8, <3>9, <3>10 DEF LateInv
    <2> QED
      BY <2>3, <2>4, <2>5, <2>6 DEF ListenerInv
  <1>9. v2 \in BOOLEAN /\ v6 \in BOOLEAN /\ v11 \in BOOLEAN /\ v12 \in BOOLEAN
    BY <1>1 DEF ListenerTypes
  <1>10. CASE Listener!Rest(t) /\ ~v2 /\ UNCHANGED <<v4, v6, v12, v11>>
    <2>1. /\ v6' = v6 /\ v12' = v12 /\ v11' = v11 /\ v4' = v4
      BY <1>10
    <2>2. v4'.pending + v4'.ok <= v4.pending + v4.ok + 1
      BY <1>3, <2>1
    <2> QED
      BY <1>3, <1>8, <1>9, <1>10, <2>1, <2>2
  <1>11. CASE /\ Listener!Rest(t) /\ v2 /\ UNCHANGED <<v6, v12, v11>>
              /\ v4' = [v4 EXCEPT !.pending = @ + 1] \/ v4' = [v4 EXCEPT !.ok = @ + 1]
    <2>1. v6' = v6 /\ v12' = v12 /\ v11' = v11
      BY <1>11
    <2>2. /\ v4' \in [pending : Nat, ok : Nat, err : Nat]
          /\ v4'.pending + v4'.ok = v4.pending + v4.ok + 1 /\ v4'.err = v4.err
      <3>1. v4.pending + 1 \in Nat /\ v4.ok + 1 \in Nat
        BY <1>3
      <3>2. CASE v4' = [v4 EXCEPT !.pending = @ + 1]
        BY <1>3, <3>1, <3>2
      <3>3. CASE v4' = [v4 EXCEPT !.ok = @ + 1]
        BY <1>3, <3>1, <3>3
      <3> QED
        BY <1>11, <3>2, <3>3
    <2>3. v4'.pending + v4'.ok + v4'.err > 0 /\ v4'.pending + v4'.ok <= v4.pending + v4.ok + 1
      BY <1>3, <2>2
    <2> QED
      BY <1>8, <1>9, <1>11, <2>1, <2>2, <2>3
  <1>12. CASE /\ Listener!Rest(t) /\ v2 /\ v4' = [v4 EXCEPT !.err = @ + 1] /\ v11' = TRUE
              /\ UNCHANGED <<v6, v12>>
    <2>1. v6' = v6 /\ v12' = v12
      BY <1>12
    <2>2. v11' \in BOOLEAN /\ v11'
      BY <1>12, Zenon
    <2>3. /\ v4' \in [pending : Nat, ok : Nat, err : Nat]
          /\ v4'.pending = v4.pending /\ v4'.ok = v4.ok /\ v4'.err = v4.err + 1
      <3>1. v4.err + 1 \in Nat
        BY <1>3
      <3> QED
        BY <1>3, <1>12, <3>1
    <2>4. v4'.pending + v4'.ok + v4'.err > 0 /\ v4'.pending + v4'.ok <= v4.pending + v4.ok + 1
      BY <1>3, <2>3
    <2> QED
      BY <1>8, <1>12, <2>1, <2>2, <2>3, <2>4
  <1>13. CASE /\ Listener!Does(t, <<>>) /\ v2 /\ v12' = TRUE
              /\ v6' = (IF t = "user" THEN FALSE ELSE v6) /\ UNCHANGED <<v4, v11>>
    <2>1. /\ DOMAIN v5' = {"user", "io1", "io2"} /\ v5'[t] = <<>>
          /\ \A u \in {"user", "io1", "io2"} : u # t => v5'[u] = v5[u]
      BY <1>1, <1>13 DEF Listener!Does, ListenerTypes
    <2>2. v6' \in BOOLEAN /\ v12' \in BOOLEAN /\ v12' /\ v11' = v11 /\ v4' = v4
      BY <1>9, <1>13, Zenon
    <2>3. t = "user" => v6' = FALSE
      BY <1>13
    <2>4. t # "user" => v6' = v6
      BY <1>13
    <2>5. ListenerTypes'
      <3>1. v5'["user"] \in {<<>>} \cup (IF v6' THEN StartTails' ELSE StopTails')
        <4>1. CASE t = "user"
          BY <2>1, <4>1
        <4>2. CASE t # "user"
          BY <1>1, <1>7, <2>1, <2>4, <4>2 DEF ListenerTypes
        <4> QED
          BY <4>1, <4>2
      <3>2. \A u \in {"io1", "io2"} : v5'[u] \in {<<>>, <<"accept">>, <<"on_stop">>} \cup FailTails'
        BY <1>1, <1>7, <2>1 DEF ListenerTypes
      <3> QED
        BY <1>1, <1>2, <2>1, <2>2, <3>1, <3>2 DEF ListenerTypes
    <2>6. ActiveInv' /\ StartedInv'
      BY <2>2 DEF ActiveInv, StartedInv
    <2>7. LateInv'
      <3> SUFFICES ASSUME ~v13'
                   PROVE  LateInv'
        BY DEF LateInv
      <3>1. /\ \A u \in {"user", "io1", "io2"} : Owed(u) \in Nat
            /\ v4.pending + v4.ok + Owed("io1") + Owed("io2") + Owed("user") <= 1
            /\ v9 <= 1 /\ v9 \in Nat
            /\ ~v6 /\ v5["user"] # <<>> => v9 = 0
            /\ ~v6 /\ v5["user"] # <<>> /\ ~Has(v5["user"], "unflag") => ~v2
            /\ ~v6 /\ v5["user"] = <<>> =>
                 /\ v9 + v4.pending + v4.ok <= 1
                 /\ v4.pending > 0 \/ v4.ok > 0 \/ Owed("io1") > 0 \/ Owed("io2") > 0 => Deafened
        BY <1>2, LateFacts
      <3>2. /\ Owed(t) = 1 /\ Owed(t)' = 0
            /\ \A u \in {"user", "io1", "io2"} : u # t => Owed(u)' = Owed(u)
        BY <1>4, <2>1, HasNone DEF Owed
      <3>3. v4.pending + v4.ok + Owed("io1")' + Owed("io2")' + Owed("user")' = 0
        BY <1>3, <3>1, <3>2
      <3>4. Tokens' + Owed("user")' <= 1 /\ Tokens' = 0 /\ v4'.pending = 0 /\ v4'.ok = 0
        BY <1>3, <2>2, <3>1, <3>2, <3>3 DEF Tokens
      <3>5. ~v6' /\ v5'["user"] # <<>> => t # "user" /\ v5'["user"] = v5["user"] /\ ~v6
        BY <2>1, <2>4
      <3>6. v9' <= 1 /\ v9' \in Nat /\ (~v6' /\ v5'["user"] # <<>> => v9' = 0)
        BY <1>2, <3>1, <3>5
      <3>7. ~v6' /\ v5'["user"] # <<>> /\ ~Has(v5'["user"], "unflag") => ~v2'
        BY <1>2, <3>1, <3>5
      <3>8. v9' + v4'.pending + v4'.ok <= 1
        <4>1. v9' + 0 + 0 <= 1
          BY <3>6
        <4> QED
          BY <3>4, <4>1
      <3>9. ~(Tokens' > 0)
        BY <3>4
      <3> QED
        BY <3>4, <3>6, <3>7, <3>8, <3>9 DEF LateInv
    <2> QED
      BY <2>5, <2>6, <2>7 DEF ListenerInv
  <1> QED
    BY <1>10, <1>11, <1>12, <1>13 DEF Listener!start_accept_pipe

\* The steps of a stop, and the signals.
LEMMA ListenerUnflag ==
  ASSUME ListenerInv, NEW t \in {"user", "io1", "io2"}, Listener!Unflag(t)
  PROVE  ListenerInv'
  <1>1. ListenerTypes
    BY DEF ListenerInv
  <1>2. /\ Listener!At(t, "unflag") /\ v1' = v1 /\ v2' = FALSE /\ v3' = v3 /\ v4' = v4 /\ v6' = v6
        /\ v9' = v9 /\ v11' = v11 /\ v12' = v12 /\ v13' = v13
        /\ v5' = [v5 EXCEPT ![t] = Tail(v5[t])]
    BY DEF Listener!Unflag, Listener!History, Listener!Rest, Listener!Does
  <1>3. /\ v5[t] # <<>> /\ Has(v5[t], "unflag") /\ Head(v5[t]) = "unflag"
        /\ DOMAIN v5' = {"user", "io1", "io2"}
        /\ \A u \in {"io1", "io2"} : v5'[u] \in {<<>>, <<"accept">>, <<"on_stop">>} \cup FailTails'
        /\ v5'["user"] \in {<<>>} \cup (IF v6' THEN StartTails' ELSE StopTails')
        /\ \A u \in {"user", "io1", "io2"} : u # t => v5'[u] = v5[u]
        /\ v5'[t] = Tail(v5[t])
        /\ \A x : Has(v5'[t], x) <=> Has(v5[t], x) /\ x # "unflag"
        /\ t = "user" => v5["user"] \in (IF v6 THEN StartTails ELSE StopTails)
    BY <1>1, <1>2, JobRest
  <1>4. t = "user" => ~v6
    BY <1>1, <1>3, JobsAre
  <1>5. v2' \in BOOLEAN /\ ~v2'
    BY <1>2, Zenon
  <1>6. \A u \in {"user", "io1", "io2"} : \A x : x # "unflag" => (Has(v5'[u], x) <=> Has(v5[u], x))
    BY <1>3
  <1>7. ListenerTypes'
    BY <1>1, <1>2, <1>3, <1>5 DEF ListenerTypes
  <1>8. ActiveInv'
    <2>1. Accepting => Accepting'
      BY <1>2, <1>6 DEF Accepting
    <2> QED
      BY <1>2, <1>5, <1>6, <2>1 DEF ListenerInv, ActiveInv
  <1>9. StartedInv'
    <2>1. v6' /\ ~v11' /\ ~v12' /\ ~v13' => \A u \in {"io1", "io2"} : v5[u] \in {<<>>, <<"accept">>}
      BY <1>2 DEF ListenerInv, StartedInv
    <2>2. ~Has(<<>>, "unflag") /\ ~Has(<<"accept">>, "unflag")
      BY DEF Has
    <2>3. ~(v6' /\ ~v11' /\ ~v12' /\ ~v13')
      BY <1>2, <1>3, <1>4, <2>1, <2>2
    <2> QED
      BY <2>3 DEF StartedInv
  <1>10. LateInv'
    <2> SUFFICES ASSUME ~v13'
                 PROVE  LateInv'
      BY DEF LateInv
    <2>1. \A u \in {"user", "io1", "io2"} : Owed(u)' = Owed(u)
      BY <1>6 DEF Owed
    <2>2. Tokens' = Tokens
      BY <1>2, <2>1 DEF Tokens
    <2>3. /\ Tokens + Owed("user") <= 1
          /\ v9 <= 1
          /\ ~v6 /\ v5["user"] # <<>> => v9 = 0
          /\ ~v6 /\ v5["user"] = <<>> => v9 + v4.pending + v4.ok <= 1 /\ (Tokens > 0 => Deafened)
      BY <1>2 DEF ListenerInv, LateInv
    <2>4. Deafened => Deafened'
      BY <1>2, <1>5 DEF Deafened
    <2>5. t = "user" => v5'["user"] # <<>>
      <3>1. v1 \in {"impl", "ssl", "pipe"}
        BY <1>1 DEF ListenerTypes
      <3>2. t = "user" => v5["user"] \in StopTails
        BY <1>3, <1>4
      <3> QED
        BY <1>3, <3>1, <3>2, StopTail
    <2>6. v5'["user"] = <<>> <=> v5["user"] = <<>>
      BY <1>3, <2>5
    <2> QED
      BY <1>2, <1>5, <2>1, <2>2, <2>3, <2>4, <2>6 DEF LateInv
  <1> QED
    BY <1>7, <1>8, <1>9, <1>10 DEF ListenerInv

\* The acceptor is closed: what waits for a client fails.
LEMMA ListenerClose ==
  ASSUME ListenerInv, NEW t \in {"user", "io1", "io2"}, Listener!Close(t)
  PROVE  ListenerInv'
  <1>1. ListenerTypes
    BY DEF ListenerInv
  <1>2. /\ Listener!At(t, "close") /\ v1' = v1 /\ v2' = v2 /\ v6' = v6
        /\ v9' = v9 /\ v11' = v11 /\ v12' = v12 /\ v13' = v13
        /\ v5' = [v5 EXCEPT ![t] = Tail(v5[t])]
        /\ v1 = "pipe" \/ v3 = "none" => v3' = v3 /\ v4' = v4
        /\ ~(v1 = "pipe" \/ v3 = "none") =>
             v3' = "closed" /\ v4' = [v4 EXCEPT !.pending = 0, !.err = @ + v4.pending]
    BY DEF Listener!Close, Listener!History, Listener!Rest, Listener!Does, Listener!Aborted
  <1>3. /\ v5[t] # <<>> /\ Has(v5[t], "close") /\ Head(v5[t]) = "close"
        /\ DOMAIN v5' = {"user", "io1", "io2"}
        /\ \A u \in {"io1", "io2"} : v5'[u] \in {<<>>, <<"accept">>, <<"on_stop">>} \cup FailTails'
        /\ v5'["user"] \in {<<>>} \cup (IF v6' THEN StartTails' ELSE StopTails')
        /\ \A u \in {"user", "io1", "io2"} : u # t => v5'[u] = v5[u]
        /\ v5'[t] = Tail(v5[t])
        /\ \A x : Has(v5'[t], x) <=> Has(v5[t], x) /\ x # "close"
        /\ t = "user" => v5["user"] \in (IF v6 THEN StartTails ELSE StopTails)
    BY <1>1, <1>2, JobRest
  <1>4. v1 \in {"impl", "ssl", "pipe"}
    BY <1>1 DEF ListenerTypes
  <1>5. t = "user" => ~v6 /\ v5["user"] \in StopTails
    BY <1>3, <1>4, StartTail
  <1>6. \A u \in {"user", "io1", "io2"} : \A x : x # "close" => (Has(v5'[u], x) <=> Has(v5[u], x))
    BY <1>3
  <1>7. v4 \in [pending : Nat, ok : Nat, err : Nat] /\ v4.pending \in Nat /\ v4.ok \in Nat /\ v4.err \in Nat
    BY <1>1 DEF ListenerTypes
  <1>8. /\ v4' \in [pending : Nat, ok : Nat, err : Nat] /\ v4'.ok = v4.ok
        /\ v1 = "pipe" \/ v3 = "none" => v4' = v4
        /\ ~(v1 = "pipe" \/ v3 = "none") => v4'.pending = 0 /\ v4'.err = v4.err + v4.pending
    <2>1. v4.err + v4.pending \in Nat
      BY <1>7
    <2>2. CASE v1 = "pipe" \/ v3 = "none"
      BY <1>2, <1>7, <2>2
    <2>3. CASE ~(v1 = "pipe" \/ v3 = "none")
      <3>1. v4' = [v4 EXCEPT !.pending = 0, !.err = @ + v4.pending]
        BY <1>2, <2>3
      <3> QED
        BY <1>7, <2>1, <2>3, <3>1
    <2> QED
      BY <2>2, <2>3
  <1>9. ListenerTypes'
    <2>1. v3' \in {"none", "open", "closed"}
      BY <1>1, <1>2 DEF ListenerTypes
    <2> QED
      BY <1>1, <1>2, <1>3, <1>8, <2>1 DEF ListenerTypes
  <1>10. ActiveInv'
    <2>1. Accepting => Accepting'
      <3>1. v4.pending + v4.ok + v4.err = v4'.pending + v4'.ok + v4'.err
        BY <1>7, <1>8
      <3> QED
        BY <1>6, <3>1 DEF Accepting
    <2> QED
      BY <1>2, <1>6, <2>1 DEF ListenerInv, ActiveInv
  <1>11. StartedInv'
    <2>1. v6' /\ ~v11' /\ ~v12' /\ ~v13' => \A u \in {"io1", "io2"} : v5[u] \in {<<>>, <<"accept">>}
      BY <1>2 DEF ListenerInv, StartedInv
    <2>2. ~Has(<<>>, "close") /\ ~Has(<<"accept">>, "close")
      BY DEF Has
    <2>3. ~(v6' /\ ~v11' /\ ~v12' /\ ~v13')
      BY <1>2, <1>3, <1>5, <2>1, <2>2
    <2> QED
      BY <2>3 DEF StartedInv
  <1>12. LateInv'
    <2> SUFFICES ASSUME ~v13'
                 PROVE  LateInv'
      BY DEF LateInv
    <2>1. \A u \in {"user", "io1", "io2"} : Owed(u)' = Owed(u)
      BY <1>6 DEF Owed
    <2>2. /\ \A u \in {"user", "io1", "io2"} : Owed(u) \in Nat
          /\ v4.pending + v4.ok + Owed("io1") + Owed("io2") + Owed("user") <= 1
          /\ v9 <= 1 /\ v9 \in Nat
          /\ ~v6 /\ v5["user"] # <<>> => v9 = 0
          /\ ~v6 /\ v5["user"] # <<>> /\ ~Has(v5["user"], "unflag") => ~v2
          /\ ~v6 /\ v5["user"] = <<>> =>
               /\ v9 + v4.pending + v4.ok <= 1
               /\ v4.pending > 0 \/ v4.ok > 0 \/ Owed("io1") > 0 \/ Owed("io2") > 0 => Deafened
      BY <1>2, LateFacts
    <2>3. v4'.pending \in Nat /\ v4'.pending <= v4.pending
      BY <1>7, <1>8
    <2>9. v4'.pending + v4'.ok <= v4.pending + v4.ok /\ v4'.ok \in Nat /\ v4.pending \in Nat /\ v4.ok \in Nat
      BY <1>7, <1>8, <2>3
    <2>4. Tokens' + Owed("user")' <= 1
      <3>1. Owed("io1")' = Owed("io1") /\ Owed("io2")' = Owed("io2") /\ Owed("user")' = Owed("user")
        BY <2>1
      <3>2. /\ Owed("user") \in Nat /\ Owed("io1") \in Nat /\ Owed("io2") \in Nat
            /\ v4.pending + v4.ok + Owed("io1") + Owed("io2") + Owed("user") <= 1
        BY <2>2
      <3>3. v4'.pending + v4'.ok + Owed("io1")' + Owed("io2")' + Owed("user")' <= 1
        BY <2>3, <2>9, <3>1, <3>2
      <3> QED
        BY <3>3 DEF Tokens
    <2>5. v9' <= 1 /\ (~v6' /\ v5'["user"] # <<>> => v9' = 0)
      BY <1>2, <1>3, <1>5, <2>2
    <2>6. ~v6' /\ v5'["user"] # <<>> /\ ~Has(v5'["user"], "unflag") => ~v2'
      BY <1>2, <1>3, <1>5, <1>6, <2>2
    <2>7. CASE t = "user"
      <3>1. v5'["user"] = <<>> => v1 # "pipe"
        BY <1>3, <1>4, <1>5, <2>7, StopTail
      <3>2. v5'["user"] = <<>> => Deafened'
        BY <1>2, <3>1 DEF Deafened
      <3>3. v9 = 0
        BY <1>3, <1>5, <2>2, <2>7
      <3>4. v9' + v4'.pending + v4'.ok <= 1
        BY <1>2, <1>7, <1>8, <2>2, <2>3, <3>3
      <3> QED
        BY <2>4, <2>5, <2>6, <3>2, <3>4 DEF LateInv
    <2>8. CASE t # "user"
      <3>1. v5'["user"] = v5["user"]
        BY <1>3, <2>8
      <3>2. Tokens' > 0 => v4.pending > 0 \/ v4.ok > 0 \/ Owed("io1") > 0 \/ Owed("io2") > 0
        BY <1>7, <1>8, <2>1, <2>2, <2>3 DEF Tokens
      <3>3. Deafened => Deafened'
        BY <1>2 DEF Deafened
      <3>4. ~v6' /\ v5'["user"] = <<>> => v9' + v4'.pending + v4'.ok <= 1 /\ (Tokens' > 0 => Deafened')
        <4>1. ~v6' /\ v5'["user"] = <<>> => ~v6 /\ v5["user"] = <<>> /\ v9' = v9
          BY <1>2, <3>1
        <4>2. ~v6 /\ v5["user"] = <<>> => v9 + v4.pending + v4.ok <= 1
          BY <2>2
        <4>5. v9 \in Nat
          BY <2>2
        <4>3. v9 + v4.pending + v4.ok <= 1 => v9 + v4'.pending + v4'.ok <= 1
          BY <2>3, <2>9, <4>5
        <4>4. ~v6 /\ v5["user"] = <<>> /\ (v4.pending > 0 \/ v4.ok > 0 \/ Owed("io1") > 0 \/ Owed("io2") > 0) => Deafened
          BY <2>2
        <4> QED
          BY <3>2, <3>3, <4>1, <4>2, <4>3, <4>4
      <3> QED
        BY <2>4, <2>5, <2>6, <3>4 DEF LateInv
    <2> QED
      BY <2>7, <2>8
  <1> QED
    BY <1>9, <1>10, <1>11, <1>12 DEF ListenerInv

\* The callbacks of the user change nothing the listener relies on.
LEMMA ListenerEmit ==
  ASSUME ListenerInv, NEW t \in {"user", "io1", "io2"}, Listener!Emit(t)
  PROVE  ListenerInv'
  <1>1. ListenerTypes
    BY DEF ListenerInv
  <1>2. PICK step \in {"on_start", "on_stop", "on_accept_failed"} : Listener!At(t, step)
    BY DEF Listener!Emit
  <1>3. /\ v1' = v1 /\ v2' = v2 /\ v3' = v3 /\ v4' = v4 /\ v6' = v6
        /\ v9' = v9 /\ v11' = v11 /\ v12' = v12 /\ v13' = v13
        /\ v5' = [v5 EXCEPT ![t] = Tail(v5[t])]
    BY DEF Listener!Emit, Listener!Rest, Listener!Does
  <1>4. /\ v5[t] # <<>> /\ Head(v5[t]) = step
        /\ DOMAIN v5' = {"user", "io1", "io2"}
        /\ \A u \in {"io1", "io2"} : v5'[u] \in {<<>>, <<"accept">>, <<"on_stop">>} \cup FailTails'
        /\ v5'["user"] \in {<<>>} \cup (IF v6' THEN StartTails' ELSE StopTails')
        /\ \A u \in {"user", "io1", "io2"} : u # t => v5'[u] = v5[u]
        /\ v5'[t] = Tail(v5[t])
        /\ \A x : Has(v5'[t], x) <=> Has(v5[t], x) /\ x # step
        /\ t = "user" => v5["user"] \in (IF v6 THEN StartTails ELSE StopTails)
    BY <1>1, <1>2, <1>3, JobRest
  <1>5. v1 \in {"impl", "ssl", "pipe"}
    BY <1>1 DEF ListenerTypes
  <1>6. \A u \in {"user", "io1", "io2"} :
          \A x \in {"accept", "flag", "reset", "unflag"} : Has(v5'[u], x) <=> Has(v5[u], x)
    BY <1>2, <1>4
  <1>7. ListenerTypes'
    BY <1>1, <1>3, <1>4 DEF ListenerTypes
  <1>8. ActiveInv'
    <2>1. Accepting' <=> Accepting
      BY <1>3, <1>6 DEF Accepting
    <2> QED
      BY <1>3, <1>6, <2>1 DEF ListenerInv, ActiveInv
  <1>9. StartedInv'
    <2> SUFFICES ASSUME v6', ~v11', ~v12', ~v13'
                 PROVE  StartedInv'
      BY DEF StartedInv
    <2>1. /\ v4.err = 0
          /\ \A u \in {"io1", "io2"} : v5[u] \in {<<>>, <<"accept">>}
          /\ v2 \/ Has(v5["user"], "flag")
          /\ Has(v5["user"], "reset") =>
               v4.pending = 0 /\ v4.ok = 0 /\ \A u \in {"io1", "io2"} : v5[u] = <<>>
          /\ v1 # "pipe" /\ ~Has(v5["user"], "reset") => v3 = "open"
      BY <1>3 DEF ListenerInv, StartedInv
    <2>2. Head(<<"accept">>) = "accept"
      OBVIOUS
    <2>3. t = "user"
      BY <1>2, <1>4, <2>1, <2>2
    <2>4. \A u \in {"io1", "io2"} : v5'[u] = v5[u]
      BY <1>4, <2>3
    <2> QED
      BY <1>3, <1>6, <2>1, <2>4 DEF StartedInv
  <1>10. LateInv'
    <2> SUFFICES ASSUME ~v13'
                 PROVE  LateInv'
      BY DEF LateInv
    <2>1. \A u \in {"user", "io1", "io2"} : Owed(u)' = Owed(u) /\ Owed(u) \in Nat
      BY <1>6 DEF Owed
    <2>2. Tokens' = Tokens /\ Deafened' = Deafened
      BY <1>3, <2>1 DEF Tokens, Deafened
    <2>3. /\ Tokens + Owed("user") <= 1
          /\ v9 <= 1
          /\ ~v6 /\ v5["user"] # <<>> => v9 = 0
          /\ ~v6 /\ v5["user"] # <<>> /\ ~Has(v5["user"], "unflag") => ~v2
          /\ ~v6 /\ v5["user"] = <<>> => v9 + v4.pending + v4.ok <= 1 /\ (Tokens > 0 => Deafened)
      BY <1>3 DEF ListenerInv, LateInv
    <2>4. CASE v5'["user"] = v5["user"]
      BY <1>3, <2>1, <2>2, <2>3, <2>4 DEF LateInv
    <2>5. CASE v5'["user"] # v5["user"]
      <3>1. t = "user"
        BY <1>4, <2>5
      <3>2. v5["user"] # <<>>
        BY <1>4, <3>1
      <3>3. ~v6 => v5["user"] \in StopTails
        BY <1>4, <3>1
      <3>4. ~v6 => v1 = "pipe" /\ ~Has(v5["user"], "unflag")
        <4>1. ~v6 => Head(v5["user"]) = "on_stop"
          BY <1>2, <1>4, <1>5, <3>1, <3>3, StopTail
        <4> QED
          BY <1>5, <3>3, <4>1, StopTail
      <3>5. ~v6 => v9 = 0 /\ ~v2
        BY <2>3, <3>2, <3>4
      <3>6. ~v6 => Deafened'
        BY <1>3, <3>4, <3>5 DEF Deafened
      <3>7. v4.pending \in Nat /\ v4.ok \in Nat
        BY <1>1 DEF ListenerTypes
      <3>8. ~v6 => v9 + v4.pending + v4.ok <= 1
        BY <2>1, <2>3, <3>5, <3>7 DEF Tokens
      <3> QED
        BY <1>3, <2>1, <2>2, <2>3, <3>5, <3>6, <3>8 DEF LateInv
    <2> QED
      BY <2>4, <2>5
  <1> QED
    BY <1>7, <1>8, <1>9, <1>10 DEF ListenerInv

\* A client comes, or the accept fails.
LEMMA ListenerArrives ==
  ASSUME ListenerInv, Listener!Arrive \/ Listener!Fail
  PROVE  ListenerInv'
  <1>1. ListenerTypes
    BY DEF ListenerInv
  <1>2. v4 \in [pending : Nat, ok : Nat, err : Nat] /\ v4.pending \in Nat /\ v4.ok \in Nat /\ v4.err \in Nat
    BY <1>1 DEF ListenerTypes
  <1>3. /\ v1' = v1 /\ v2' = v2 /\ v3' = v3 /\ v5' = v5 /\ v6' = v6
        /\ v9' = v9 /\ v12' = v12 /\ v13' = v13 /\ v4.pending > 0
    BY DEF Listener!Arrive, Listener!Fail, Listener!History
  <1>4. /\ v4' \in [pending : Nat, ok : Nat, err : Nat] /\ v4'.pending = v4.pending - 1
        /\ v4'.ok \in Nat /\ v4'.err \in Nat
        /\ v4'.ok + v4'.err = v4.ok + v4.err + 1 /\ v4'.ok <= v4.ok + 1
        /\ v11' \in BOOLEAN
        /\ ~v11' => ~v11 /\ v4'.err = v4.err
    <2>1. v4.pending - 1 \in Nat /\ v4.ok + 1 \in Nat /\ v4.err + 1 \in Nat
      BY <1>2, <1>3
    <2>2. CASE Listener!Arrive
      <3>1. v4' = [v4 EXCEPT !.pending = @ - 1, !.ok = @ + 1] /\ v11' = v11
        BY <2>2 DEF Listener!Arrive, Listener!History
      <3>2. v11' \in BOOLEAN
        BY <1>1, <3>1 DEF ListenerTypes
      <3>3. /\ v4' \in [pending : Nat, ok : Nat, err : Nat] /\ v4'.pending = v4.pending - 1
            /\ v4'.ok = v4.ok + 1 /\ v4'.err = v4.err
        BY <1>2, <2>1, <3>1
      <3> QED
        BY <1>2, <2>1, <3>1, <3>2, <3>3
    <2>3. CASE Listener!Fail
      <3>1. v4' = [v4 EXCEPT !.pending = @ - 1, !.err = @ + 1] /\ v11' = TRUE
        BY <2>3 DEF Listener!Fail
      <3>2. v11' \in BOOLEAN /\ v11'
        BY <3>1, Zenon
      <3>3. /\ v4' \in [pending : Nat, ok : Nat, err : Nat] /\ v4'.pending = v4.pending - 1
            /\ v4'.ok = v4.ok /\ v4'.err = v4.err + 1
        BY <1>2, <2>1, <3>1
      <3> QED
        BY <1>2, <2>1, <3>2, <3>3
    <2> QED
      BY <2>2, <2>3
  <1>5. StartTails' = StartTails /\ StopTails' = StopTails /\ FailTails' = FailTails
    BY <1>3, TailsSame
  <1>6. ListenerTypes'
    BY <1>1, <1>3, <1>4, <1>5 DEF ListenerTypes
  <1>7. ActiveInv'
    <2>1. v4'.pending + v4'.ok + v4'.err > 0
      BY <1>2, <1>3, <1>4
    <2> QED
      BY <2>1 DEF ActiveInv, Accepting
  <1>8. StartedInv'
    <2> SUFFICES ASSUME v6', ~v11', ~v12', ~v13'
                 PROVE  StartedInv'
      BY DEF StartedInv
    <2>1. /\ v4.err = 0
          /\ \A u \in {"io1", "io2"} : v5[u] \in {<<>>, <<"accept">>}
          /\ v2 \/ Has(v5["user"], "flag")
          /\ ~Has(v5["user"], "reset")
          /\ v1 # "pipe" /\ ~Has(v5["user"], "reset") => v3 = "open"
      BY <1>3, <1>4 DEF ListenerInv, StartedInv
    <2> QED
      BY <1>3, <1>4, <2>1 DEF StartedInv
  <1>9. LateInv'
    <2> SUFFICES ASSUME ~v13'
                 PROVE  LateInv'
      BY DEF LateInv
    <2>1. /\ \A u \in {"user", "io1", "io2"} : Owed(u) \in Nat
          /\ v4.pending + v4.ok + Owed("io1") + Owed("io2") + Owed("user") <= 1
          /\ v9 <= 1 /\ v9 \in Nat
          /\ ~v6 /\ v5["user"] # <<>> => v9 = 0
          /\ ~v6 /\ v5["user"] # <<>> /\ ~Has(v5["user"], "unflag") => ~v2
          /\ ~v6 /\ v5["user"] = <<>> =>
               /\ v9 + v4.pending + v4.ok <= 1
               /\ v4.pending > 0 \/ v4.ok > 0 \/ Owed("io1") > 0 \/ Owed("io2") > 0 => Deafened
      BY <1>3, LateFacts
    <2>2. Owed("io1")' = Owed("io1") /\ Owed("io2")' = Owed("io2") /\ Owed("user")' = Owed("user")
      BY <1>3 DEF Owed
    <2>6. v4'.pending \in Nat /\ v4'.ok \in Nat /\ v4'.pending + v4'.ok <= v4.pending + v4.ok
      BY <1>2, <1>3, <1>4
    <2>3. Tokens' + Owed("user")' <= 1
      <3>1. /\ Owed("user") \in Nat /\ Owed("io1") \in Nat /\ Owed("io2") \in Nat
            /\ v4.pending + v4.ok + Owed("io1") + Owed("io2") + Owed("user") <= 1
        BY <2>1
      <3>2. v4'.pending + v4'.ok + Owed("io1")' + Owed("io2")' + Owed("user")' <= 1
        BY <1>2, <2>2, <2>6, <3>1
      <3> QED
        BY <3>2 DEF Tokens
    <2>4. Deafened' = Deafened
      BY <1>3 DEF Deafened
    <2>5. ~v6' /\ v5'["user"] = <<>> => v9' + v4'.pending + v4'.ok <= 1 /\ Deafened'
      BY <1>2, <1>3, <2>1, <2>4, <2>6
    <2> QED
      BY <1>3, <2>1, <2>3, <2>5 DEF LateInv
  <1> QED
    BY <1>6, <1>7, <1>8, <1>9 DEF ListenerInv

\* A completed accept is run: with a socket, the next accept is started.
LEMMA ListenerOk ==
  ASSUME ListenerInv, NEW t \in {"io1", "io2"}, Listener!on_accept_ok(t)
  PROVE  ListenerInv'
  <1>1. ListenerTypes
    BY DEF ListenerInv
  <1>2. v4 \in [pending : Nat, ok : Nat, err : Nat] /\ v4.pending \in Nat /\ v4.ok \in Nat /\ v4.err \in Nat
    BY <1>1 DEF ListenerTypes
  <1>3. /\ v1' = v1 /\ v2' = v2 /\ v3' = v3 /\ v5' = [v5 EXCEPT ![t] = <<"accept">>] /\ v6' = v6
        /\ v11' = v11 /\ v12' = v12 /\ v13' = v13 /\ v4.ok > 0 /\ v5[t] = <<>>
        /\ v4' = [v4 EXCEPT !.ok = @ - 1]
        /\ v9' = IF v6 \/ v5["user"] # <<>> THEN v9 ELSE v9 + 1
    BY DEF Listener!on_accept_ok, Listener!Idle, Listener!Does
  <1>4. /\ v4' \in [pending : Nat, ok : Nat, err : Nat] /\ v4'.pending = v4.pending
        /\ v4'.ok = v4.ok - 1 /\ v4'.err = v4.err
    <2>1. v4.ok - 1 \in Nat
      BY <1>2, <1>3
    <2> QED
      BY <1>2, <1>3, <2>1
  <1>5. StartTails' = StartTails /\ StopTails' = StopTails /\ FailTails' = FailTails /\ Deafened' = Deafened
    BY <1>3, TailsSame DEF Deafened
  <1>6. /\ DOMAIN v5' = {"user", "io1", "io2"} /\ v5'[t] = <<"accept">>
        /\ \A u \in {"user", "io1", "io2"} : u # t => v5'[u] = v5[u]
        /\ v5'["user"] = v5["user"]
    BY <1>1, <1>3 DEF ListenerTypes
  <1>7. Has(v5'[t], "accept")
    BY <1>6 DEF Has
  <1>8. ListenerTypes'
    <2>1. v9' \in Nat
      BY <1>1, <1>3 DEF ListenerTypes
    <2>2. \A u \in {"io1", "io2"} : v5'[u] \in {<<>>, <<"accept">>, <<"on_stop">>} \cup FailTails'
      BY <1>1, <1>5, <1>6 DEF ListenerTypes
    <2>3. v5'["user"] \in {<<>>} \cup (IF v6' THEN StartTails' ELSE StopTails')
      BY <1>1, <1>3, <1>5, <1>6 DEF ListenerTypes
    <2> QED
      BY <1>1, <1>3, <1>4, <1>6, <2>1, <2>2, <2>3 DEF ListenerTypes
  <1>9. ActiveInv'
    BY <1>7 DEF ActiveInv, Accepting
  <1>10. StartedInv'
    <2> SUFFICES ASSUME v6', ~v11', ~v12', ~v13'
                 PROVE  StartedInv'
      BY DEF StartedInv
    <2>1. /\ v4.err = 0
          /\ \A u \in {"io1", "io2"} : v5[u] \in {<<>>, <<"accept">>}
          /\ v2 \/ Has(v5["user"], "flag")
          /\ ~Has(v5["user"], "reset")
          /\ v1 # "pipe" /\ ~Has(v5["user"], "reset") => v3 = "open"
      BY <1>3 DEF ListenerInv, StartedInv
    <2>2. \A u \in {"io1", "io2"} : v5'[u] \in {<<>>, <<"accept">>}
      BY <1>6, <2>1
    <2> QED
      BY <1>3, <1>4, <1>6, <2>1, <2>2 DEF StartedInv
  <1>11. LateInv'
    <2> SUFFICES ASSUME ~v13'
                 PROVE  LateInv'
      BY DEF LateInv
    <2>1. /\ \A u \in {"user", "io1", "io2"} : Owed(u) \in Nat
          /\ v4.pending + v4.ok + Owed("io1") + Owed("io2") + Owed("user") <= 1
          /\ v9 <= 1 /\ v9 \in Nat
          /\ ~v6 /\ v5["user"] # <<>> => v9 = 0
          /\ ~v6 /\ v5["user"] # <<>> /\ ~Has(v5["user"], "unflag") => ~v2
          /\ ~v6 /\ v5["user"] = <<>> =>
               /\ v9 + v4.pending + v4.ok <= 1
               /\ v4.pending > 0 \/ v4.ok > 0 \/ Owed("io1") > 0 \/ Owed("io2") > 0 => Deafened
      BY <1>3, LateFacts
    <2>2. /\ Owed(t) = 0 /\ Owed(t)' = 1
          /\ \A u \in {"user", "io1", "io2"} : u # t => Owed(u)' = Owed(u)
      BY <1>3, <1>6, <1>7, HasNone DEF Owed
    <2>3. Tokens' + Owed("user")' <= 1
      BY <1>2, <1>4, <2>1, <2>2 DEF Tokens
    <2>4. ~v6' /\ v5'["user"] = <<>> => v9' + v4'.pending + v4'.ok <= 1 /\ Deafened'
      BY <1>2, <1>3, <1>4, <1>5, <1>6, <2>1
    <2>5. v9' <= 1
      BY <1>2, <1>3, <2>1
    <2> QED
      BY <1>3, <1>6, <2>1, <2>3, <2>4, <2>5 DEF LateInv
  <1> QED
    BY <1>8, <1>9, <1>10, <1>11 DEF ListenerInv

\* With an error an active listener stops, and another one tells.
LEMMA ListenerError ==
  ASSUME ListenerInv, NEW t \in {"io1", "io2"}, Listener!on_accept_error(t)
  PROVE  ListenerInv'
  <1> DEFINE S == IF v2 THEN Listener!StopSteps \o <<"on_accept_failed">> ELSE <<"on_stop">>
  <1>1. ListenerTypes
    BY DEF ListenerInv
  <1>2. v4 \in [pending : Nat, ok : Nat, err : Nat] /\ v4.pending \in Nat /\ v4.ok \in Nat /\ v4.err \in Nat
    BY <1>1 DEF ListenerTypes
  <1>3. /\ v1' = v1 /\ v2' = v2 /\ v3' = v3 /\ v5' = [v5 EXCEPT ![t] = S] /\ v6' = v6
        /\ v9' = v9 /\ v11' = v11 /\ v13' = v13 /\ v4.err > 0 /\ v5[t] = <<>>
        /\ v4' = [v4 EXCEPT !.err = @ - 1]
    BY DEF Listener!on_accept_error, Listener!Idle, Listener!Does
  <1>4. v12' \in BOOLEAN /\ (~v12' => ~v12 /\ ~Has(v5["user"], "flag"))
    <2>1. v12' = (v12 \/ \E i \in DOMAIN v5["user"] : v5["user"][i] = "flag")
      BY DEF Listener!on_accept_error
    <2>2. v12' \in BOOLEAN /\ (~v12' => ~v12 /\ ~\E i \in DOMAIN v5["user"] : v5["user"][i] = "flag")
      BY <2>1, Zenon
    <2>3. DOMAIN v5["user"] = 1..Len(v5["user"])
      <3> DEFINE s == v5["user"]
      <3>1. s \in {<<>>} \cup StartTails \cup StopTails /\ v1 \in {"impl", "ssl", "pipe"}
        BY <1>1 DEF ListenerTypes
      <3> HIDE DEF s
      <3>2. s = <<>> => DOMAIN s = 1..Len(s)
        OBVIOUS
      <3>3. s = <<"reset", "accept", "flag", "on_start">> => DOMAIN s = 1..Len(s)
        OBVIOUS
      <3>4. s = <<"accept", "flag", "on_start">> => DOMAIN s = 1..Len(s)
        OBVIOUS
      <3>5. s = <<"flag", "on_start">> => DOMAIN s = 1..Len(s)
        OBVIOUS
      <3>6. s = <<"on_start">> => DOMAIN s = 1..Len(s)
        OBVIOUS
      <3>7. s = <<"flag", "reset", "accept", "on_start">> => DOMAIN s = 1..Len(s)
        OBVIOUS
      <3>8. s = <<"reset", "accept", "on_start">> => DOMAIN s = 1..Len(s)
        OBVIOUS
      <3>9. s = <<"accept", "on_start">> => DOMAIN s = 1..Len(s)
        OBVIOUS
      <3>10. s = <<"flag", "accept", "on_start">> => DOMAIN s = 1..Len(s)
        OBVIOUS
      <3>11. s = <<"unflag", "close", "on_stop">> => DOMAIN s = 1..Len(s)
        OBVIOUS
      <3>12. s = <<"close", "on_stop">> => DOMAIN s = 1..Len(s)
        OBVIOUS
      <3>13. s = <<"on_stop">> => DOMAIN s = 1..Len(s)
        OBVIOUS
      <3>14. s = <<"unflag", "close">> => DOMAIN s = 1..Len(s)
        OBVIOUS
      <3>15. s = <<"close">> => DOMAIN s = 1..Len(s)
        OBVIOUS
      <3>16. DOMAIN s = 1..Len(s)
        BY <3>1, <3>2, <3>3, <3>4, <3>5, <3>6, <3>7, <3>8, <3>9, <3>10, <3>11, <3>12, <3>13, <3>14, <3>15 DEF StartTails, StopTails
      <3> QED
        BY <3>16 DEF s
    <2> QED
      BY <2>2, <2>3 DEF Has
  <1>5. /\ v4' \in [pending : Nat, ok : Nat, err : Nat] /\ v4'.pending = v4.pending
        /\ v4'.ok = v4.ok /\ v4'.err = v4.err - 1
    <2>1. v4.err - 1 \in Nat
      BY <1>2, <1>3
    <2> QED
      BY <1>2, <1>3, <2>1
  <1>6. /\ S \in {<<"on_stop">>} \cup FailTails /\ ~Has(S, "accept")
        /\ v2 => Has(S, "unflag")
    <2>1. CASE ~v2
      <3>1. S = <<"on_stop">>
        BY <2>1
      <3>2. ~Has(<<"on_stop">>, "accept")
        BY DEF Has
      <3> HIDE DEF S
      <3> QED
        BY <2>1, <3>1, <3>2
    <2>2. CASE v2 /\ v1 # "pipe"
      <3>1. S = <<"unflag", "close", "on_accept_failed">>
        <4>1. Listener!StopSteps = <<"unflag", "close">>
          BY <2>2 DEF Listener!StopSteps
        <4> QED
          BY <2>2, <4>1, TupleAppend
      <3> HIDE DEF S
      <3> QED
        BY <2>2, <3>1 DEF FailTails, Has
    <2>3. CASE v2 /\ v1 = "pipe"
      <3>1. S = <<"unflag", "close", "on_stop", "on_accept_failed">>
        <4>1. Listener!StopSteps = <<"unflag", "close", "on_stop">>
          BY <2>3, TupleAppend DEF Listener!StopSteps
        <4>2. S = <<"unflag", "close", "on_stop">> \o <<"on_accept_failed">>
          BY <2>3, <4>1
        <4> HIDE DEF S
        <4> QED
          BY <4>2, TupleAppend
      <3> HIDE DEF S
      <3> QED
        BY <2>3, <3>1 DEF FailTails, Has
    <2> QED
      BY <2>1, <2>2, <2>3
  <1> HIDE DEF S
  <1>7. StartTails' = StartTails /\ StopTails' = StopTails /\ FailTails' = FailTails /\ Deafened' = Deafened
    BY <1>3, TailsSame DEF Deafened
  <1>8. /\ DOMAIN v5' = {"user", "io1", "io2"} /\ v5'[t] = S
        /\ \A u \in {"user", "io1", "io2"} : u # t => v5'[u] = v5[u]
        /\ v5'["user"] = v5["user"]
    BY <1>1, <1>3 DEF ListenerTypes
  <1>9. ListenerTypes'
    <2>1. \A u \in {"io1", "io2"} : v5'[u] \in {<<>>, <<"accept">>, <<"on_stop">>} \cup FailTails'
      BY <1>1, <1>6, <1>7, <1>8 DEF ListenerTypes
    <2>2. v5'["user"] \in {<<>>} \cup (IF v6' THEN StartTails' ELSE StopTails')
      BY <1>1, <1>3, <1>7, <1>8 DEF ListenerTypes
    <2> QED
      BY <1>1, <1>3, <1>4, <1>5, <1>8, <2>1, <2>2 DEF ListenerTypes
  <1>10. ActiveInv'
    BY <1>3, <1>4, <1>6, <1>8 DEF ActiveInv
  <1>11. StartedInv'
    <2>1. v6 /\ ~v11 /\ ~v12 /\ ~v13 => v4.err = 0
      BY DEF ListenerInv, StartedInv
    <2>2. ~(v6' /\ ~v11' /\ ~v12' /\ ~v13')
      BY <1>2, <1>3, <1>4, <2>1
    <2> QED
      BY <2>2 DEF StartedInv
  <1>12. LateInv'
    <2> SUFFICES ASSUME ~v13'
                 PROVE  LateInv'
      BY DEF LateInv
    <2>1. \A u \in {"user", "io1", "io2"} : Owed(u)' = Owed(u)
      BY <1>3, <1>6, <1>8, HasNone DEF Owed
    <2>2. Tokens' = Tokens
      BY <1>5, <2>1 DEF Tokens
    <2> QED
      BY <1>3, <1>5, <1>7, <1>8, <2>1, <2>2 DEF ListenerInv, LateInv
  <1> QED
    BY <1>9, <1>10, <1>11, <1>12 DEF ListenerInv

\* Every step keeps the invariant.
LEMMA ListenerStep ==
  ASSUME ListenerInv, Listener!Next
  PROVE  ListenerInv'
  <1>1. ASSUME NEW t \in {"user", "io1", "io2"}, Listener!Step(t) PROVE ListenerInv'
    BY <1>1, ListenerReset, ListenerFlag, ListenerAccept, ListenerAcceptPipe, ListenerUnflag,
       ListenerClose, ListenerEmit DEF Listener!Step
  <1>2. ASSUME NEW t \in {"io1", "io2"}, Listener!OnAccept(t) PROVE ListenerInv'
    BY <1>2, ListenerOk, ListenerError DEF Listener!OnAccept
  <1> QED
    BY <1>1, <1>2, ListenerStart, ListenerStop, ListenerArrives
    DEF Listener!Next, Listener!Threads, Listener!IoThreads

\* The invariant contains what the run checks.
LEMMA ListenerSound ==
  ASSUME ListenerInv
  PROVE  Listener!ActiveListens /\ Listener!StartedStaysActive /\ Listener!AtMostOneLate
  <1>1. v4.pending \in Nat /\ v4.ok \in Nat /\ v4.err \in Nat
    BY DEF ListenerInv, ListenerTypes
  <1>2. ASSUME Listener!Quiet, v2, ~v12
        PROVE  v4.pending > 0
    <2>1. /\ v5["user"] = <<>> /\ v5["io1"] = <<>> /\ v5["io2"] = <<>> /\ v4.ok = 0 /\ v4.err = 0
      BY <1>2 DEF Listener!Quiet, Listener!Threads, Listener!Idle
    <2>2. v4.pending + v4.ok + v4.err > 0
      BY <1>2, <2>1, HasNone DEF ListenerInv, ActiveInv, Accepting
    <2> QED
      BY <1>1, <2>1, <2>2
  <1>3. ASSUME Listener!Quiet, v6, ~v11, ~v13, ~v12
        PROVE  v2
    <2>1. v5["user"] = <<>>
      BY <1>3 DEF Listener!Quiet, Listener!Threads, Listener!Idle
    <2> QED
      BY <1>3, <2>1, HasNone DEF ListenerInv, StartedInv
  <1>4. ~v6 /\ ~v13 => v9 <= 1
    BY DEF ListenerInv, LateInv
  <1> QED
    BY <1>2, <1>3, <1>4 DEF Listener!ActiveListens, Listener!StartedStaysActive, Listener!AtMostOneLate

(***************************************************************************)
(* The thread pools.  v1 threads_, v2 created, v3 ended, v4 wrk_, v5       *)
(* stopped, v6 queue, v7 running, v8 adding, v9 does, v10 joins, v11       *)
(* posts, v12 inside, v13 missed.                                          *)
(***************************************************************************)

\* The steps of a call of Main: what was taken is joined next.
JoinFollows(steps) ==
  /\ steps \in Seq({"stop", "take", "join"} \X {"io", "rpc"})
  /\ \A i \in 1..Len(steps) : steps[i][1] = "take" => i < Len(steps) /\ steps[i + 1][1] = "join"

\* Unless a handler calls join_all, only Main takes threads, and what it took and
\* has not joined is what it is going to join.
PoolsInv ==
  /\ v1 \in [Pools!Pools -> SUBSET Pools!PoolThreads]
  /\ v2 \subseteq Pools!PoolThreads
  /\ DOMAIN v9 = Pools!Callers /\ DOMAIN v10 = Pools!Callers
  /\ v8 = "none" \/ v8 \in Pools!PoolThreads
  /\ v12 = {} => \A t \in Pools!PoolThreads : v9[t] = <<>>
  /\ JoinFollows(v9["main"])
  /\ v10["main"] # {} => v9["main"] # <<>> /\ v9["main"][1][1] = "join"
  /\ v12 = {} => \A t \in v2 \ (v3 \cup {"io2"}) :
       t \in v13 \/ t = v8 \/ t \in v1[Pools!PoolOf(t)] \/ t \in v10["main"]

\* A pair of pools as it is constructed.
LEMMA PoolsStart ==
  ASSUME Pools!Init
  PROVE  PoolsInv
  BY DEF Pools!Init, PoolsInv, JoinFollows, Pools!Pools, Pools!PoolThreads, Pools!Callers, Pools!Main

\* What is left of such steps is such steps.
LEMMA JoinFollowsTail ==
  ASSUME NEW steps, JoinFollows(steps), steps # <<>>
  PROVE  /\ JoinFollows(Tail(steps))
         /\ steps[1][1] = "take" => Tail(steps) # <<>> /\ Tail(steps)[1][1] = "join"
  <1> DEFINE S == {"stop", "take", "join"} \X {"io", "rpc"}
  <1>1. steps \in Seq(S) /\ Len(steps) \in Nat /\ Len(steps) > 0
    BY DEF JoinFollows
  <1>2. /\ Tail(steps) \in Seq(S) /\ Len(Tail(steps)) = Len(steps) - 1
        /\ \A i \in 1..Len(Tail(steps)) : Tail(steps)[i] = steps[i + 1]
    <2> HIDE DEF S
    <2> QED
      BY <1>1, TailAt
  <1>3. ASSUME NEW i \in 1..Len(Tail(steps)), Tail(steps)[i][1] = "take"
        PROVE  i < Len(Tail(steps)) /\ Tail(steps)[i + 1][1] = "join"
    <2>1. i + 1 \in 1..Len(steps) /\ steps[i + 1][1] = "take"
      BY <1>1, <1>2, <1>3
    <2>2. i + 1 < Len(steps) /\ steps[(i + 1) + 1][1] = "join"
      BY <2>1 DEF JoinFollows
    <2> QED
      BY <1>1, <1>2, <2>2
  <1>4. ASSUME steps[1][1] = "take" PROVE Tail(steps) # <<>> /\ Tail(steps)[1][1] = "join"
    <2>1. 1 < Len(steps) /\ steps[1 + 1][1] = "join"
      BY <1>1, <1>4 DEF JoinFollows
    <2>2. 1 \in 1..Len(Tail(steps)) /\ Tail(steps)[1] = steps[1 + 1]
      BY <1>1, <1>2, <2>1
    <2>3. Tail(steps) # <<>>
      <3>1. Len(Tail(steps)) # 0
        BY <1>1, <1>2, <2>1
      <3>2. Len(<<>>) = 0
        OBVIOUS
      <3> QED
        BY <3>1, <3>2, Zenon
    <2> QED
      BY <2>1, <2>2, <2>3
  <1> QED
    BY <1>2, <1>3, <1>4 DEF JoinFollows

\* In both ways to shut the pools down, what is taken is joined next.
LEMMA ShutDownJoins ==
  /\ JoinFollows(Pools!destroy)
  /\ JoinFollows(Pools!stop_all \o Pools!join_all)
  <1> DEFINE S == {"stop", "take", "join"} \X {"io", "rpc"}
             s == Pools!stop_all  t == Pools!join_all
  <1>1. s \in Seq(S) /\ t \in Seq(S) /\ Len(s) = 2 /\ Len(t) = 4
    BY DEF Pools!stop_all, Pools!join_all
  <1>2. /\ s[1][1] = "stop" /\ s[2][1] = "stop"
        /\ t[1][1] = "take" /\ t[2][1] = "join" /\ t[3][1] = "take" /\ t[4][1] = "join"
    BY DEF Pools!stop_all, Pools!join_all
  <1>3. /\ s \o t \in Seq(S) /\ Len(s \o t) = 6
        /\ (s \o t)[1] = s[1] /\ (s \o t)[2] = s[2]
        /\ (s \o t)[3] = t[1] /\ (s \o t)[4] = t[2] /\ (s \o t)[5] = t[3] /\ (s \o t)[6] = t[4]
    <2>0. s \in Seq(S) /\ t \in Seq(S)
      BY <1>1
    <2> HIDE DEF S, s, t
    <2>1. /\ s \o t \in Seq(S) /\ Len(s \o t) = Len(s) + Len(t)
          /\ \A i \in 1..Len(s) : (s \o t)[i] = s[i]
          /\ \A i \in 1..Len(t) : (s \o t)[Len(s) + i] = t[i]
      BY <2>0, ConcatAt
    <2> QED
      BY <1>1, <2>1
  <1>4. JoinFollows(s \o t)
    <2> HIDE DEF s, t
    <2> QED
      BY <1>2, <1>3 DEF JoinFollows
  <1> QED
    BY <1>4 DEF JoinFollows, Pools!destroy

\* Every step of the pools keeps the invariant.
LEMMA PoolsStep ==
  ASSUME PoolsInv, Pools!Next
  PROVE  PoolsInv'
  <1> USE DEF PoolsInv, Pools!Pools, Pools!PoolThreads, Pools!Callers, Pools!Main, Pools!PoolOf
  <1>1. ASSUME NEW t \in Pools!PoolThreads, Pools!create_thread(t) PROVE PoolsInv'
    BY <1>1 DEF Pools!create_thread
  <1>2. CASE Pools!attach(Pools!Attached)
    BY <1>2 DEF Pools!attach, Pools!Attached
  <1>3. CASE Pools!inc
    BY <1>3 DEF Pools!inc
  <1>4. ASSUME NEW p \in Pools!Pools, NEW h, Pools!post(p, h) PROVE PoolsInv'
    BY <1>4 DEF Pools!post
  <1>5. ASSUME NEW steps, JoinFollows(steps), Pools!ShutDown(steps) PROVE PoolsInv'
    BY <1>5 DEF Pools!ShutDown, Pools!Steps
  <1>6. ASSUME NEW c \in Pools!Callers, NEW p \in Pools!Pools, Pools!stop(c, p) PROVE PoolsInv'
    BY <1>6, JoinFollowsTail DEF Pools!stop, Pools!Steps, Pools!At
  <1>7. ASSUME NEW c \in Pools!Callers, NEW p \in Pools!Pools, Pools!TakeThreads(c, p) PROVE PoolsInv'
    BY <1>7, JoinFollowsTail DEF Pools!TakeThreads, Pools!Steps, Pools!At
  <1>8. ASSUME NEW c \in Pools!Callers, NEW p \in Pools!Pools, Pools!JoinThreads(c, p) PROVE PoolsInv'
    BY <1>8, JoinFollowsTail DEF Pools!JoinThreads, Pools!Steps, Pools!At
  <1>9. ASSUME NEW t \in Pools!PoolThreads, Pools!run_one(t) PROVE PoolsInv'
    BY <1>9 DEF Pools!run_one, Pools!Steps
  <1>10. ASSUME NEW t \in Pools!PoolThreads, Pools!HandlerEnds(t) PROVE PoolsInv'
    BY <1>10 DEF Pools!HandlerEnds
  <1>11. ASSUME NEW t \in Pools!PoolThreads, Pools!RunReturns(t) PROVE PoolsInv'
    BY <1>11 DEF Pools!RunReturns
  <1> QED
    BY <1>1, <1>2, <1>3, <1>4, <1>5, <1>6, <1>7, <1>8, <1>9, <1>10, <1>11, ShutDownJoins
    DEF Pools!Next, Pools!Call, Pools!Thread

\* The invariant contains what the run checks.
LEMMA PoolsEnd ==
  ASSUME PoolsInv
  PROVE  Pools!NoThreadLeft
  BY DEF PoolsInv, Pools!NoThreadLeft, Pools!Main, Pools!Attached

(***************************************************************************)
(* The periodical timer.  v1 enabled_, v2 chain, v3 calls, v4 extra, v5    *)
(* hasty.                                                                  *)
(***************************************************************************)

\* A chain is made by each call; without a hasty one at most one chain is going, and
\* when that has called the user after a cancel it is not going to be armed.
TimerInv ==
  /\ v1 \in BOOLEAN /\ v2 \in [1..MaxChains -> Timer!Stages] /\ v3 \in 0..MaxChains
  /\ v4 \in Nat /\ v5 \in BOOLEAN
  /\ \A c \in 1..MaxChains : v2[c] = "none" <=> c > v3
  /\ ~v5 => \A c, d \in 1..MaxChains : Timer!Going(c) /\ Timer!Going(d) => c = d
  /\ ~v5 /\ ~v1 => v4 <= 1
  /\ ~v5 /\ ~v1 /\ v4 = 1 => \A c \in 1..MaxChains : v2[c] \notin {"armed", "expired", "arming"}

\* A timer that was not started.
LEMMA TimerStart ==
  ASSUME Timer!Init
  PROVE  TimerInv
  <1>1. /\ v1 = FALSE /\ v2 = [c \in 1..MaxChains |-> "none"] /\ v3 = 0 /\ v4 = 0 /\ v5 = FALSE
    BY DEF Timer!Init, Timer!Chains
  <1>2. v1 \in BOOLEAN /\ v5 \in BOOLEAN
    BY <1>1, Zenon
  <1> QED
    BY <1>1, <1>2, BoundsAssumption DEF TimerInv, Timer!Stages, Timer!Going

\* Every step of the timer keeps the invariant.
LEMMA TimerStep ==
  ASSUME TimerInv, Timer!Next
  PROVE  TimerInv'
  <1> USE BoundsAssumption DEF TimerInv, Timer!Stages, Timer!Chains, Timer!Going
  <1>1. CASE Timer!call
    <2>1. v1' = TRUE /\ v4' = 0 /\ v3' = v3 + 1 /\ v3 + 1 \in 1..MaxChains
      BY <1>1 DEF Timer!call
    <2>2. v1' \in BOOLEAN /\ v5' \in BOOLEAN
      BY <1>1, <2>1, Zenon DEF Timer!call
    <2>3. \A c \in 1..MaxChains :
            v2'[c] = IF c = v3 + 1 THEN "armed" ELSE IF v2[c] = "armed" THEN "aborted" ELSE v2[c]
      BY <1>1, <2>1 DEF Timer!call, Timer!Aborted
    <2>4. v2' \in [1..MaxChains -> Timer!Stages]
      BY <1>1, <2>1 DEF Timer!call, Timer!Aborted
    <2>5. ~v5' => ~v5 /\ \A c \in 1..v3 : v2[c] = "ended"
      <3>1. v5' = (v5 \/ \E c \in 1..v3 : v2[c] # "ended")
        BY <1>1, Zenon DEF Timer!call
      <3> QED
        BY <3>1, Zenon
    <2> QED
      BY <2>1, <2>2, <2>3, <2>4, <2>5
  <1>2. CASE Timer!cancel
    <2>1. v1' = FALSE /\ v4' = 0 /\ v3' = v3 /\ v5' = v5
      BY <1>2 DEF Timer!cancel
    <2>2. v1' \in BOOLEAN /\ v5' \in BOOLEAN
      BY <2>1, Zenon
    <2>3. \A c \in 1..MaxChains : v2'[c] = IF v2[c] = "armed" THEN "aborted" ELSE v2[c]
      BY <1>2 DEF Timer!cancel, Timer!Aborted
    <2>4. v2' \in [1..MaxChains -> Timer!Stages]
      BY <1>2 DEF Timer!cancel, Timer!Aborted
    <2> QED
      BY <2>1, <2>2, <2>3, <2>4
  <1>3. ASSUME NEW c \in 1..MaxChains, Timer!Expire(c) PROVE TimerInv'
    BY <1>3 DEF Timer!Expire
  <1>4. ASSUME NEW c \in 1..MaxChains, Timer!userhdl(c) PROVE TimerInv'
    BY <1>4 DEF Timer!userhdl
  <1>5. ASSUME NEW c \in 1..MaxChains, Timer!handler(c) PROVE TimerInv'
    BY <1>5 DEF Timer!handler
  <1>6. ASSUME NEW c \in 1..MaxChains, Timer!call_impl(c) PROVE TimerInv'
    BY <1>6 DEF Timer!call_impl, Timer!Aborted
  <1> QED
    BY <1>1, <1>2, <1>3, <1>4, <1>5, <1>6 DEF Timer!Next, Timer!Run

\* The invariant contains what the run checks.
LEMMA TimerEnds ==
  ASSUME TimerInv
  PROVE  Timer!CancelEnds
  <1>1. ~v5 /\ ~v1 => v4 <= 1
    BY DEF TimerInv
  <1> QED
    BY <1>1, Zenon DEF TimerInv, Timer!CancelEnds, Timer!Chains

(***************************************************************************)
(* The parts of MCLibrary that belong to the server: one of them runs, and *)
(* its invariant holds.                                                    *)
(***************************************************************************)

\* What is known of the part that runs.
ServerPartInv ==
  /\ part = "acceptor" => ListenerInv
  /\ part = "pools" => PoolsInv
  /\ part = "timer" => TimerInv

\* It holds when the part begins.
LEMMA ServerPartInvStart ==
  ASSUME LibraryInit
  PROVE  ServerPartInv
  <1>1. /\ part = "acceptor" => Listener!Init
        /\ part = "pools" => Pools!Init
        /\ part = "timer" => Timer!Init
    BY DEF LibraryInit
  <1> QED
    BY <1>1, ListenerStarts, PoolsStart, TimerStart DEF ServerPartInv

\* A step that leaves the variables alone keeps what is known of each part.
LEMMA ListenerRests ==
  ASSUME ListenerInv, UNCHANGED all
  PROVE  ListenerInv'
  <1>1. /\ v1' = v1 /\ v2' = v2 /\ v3' = v3 /\ v4' = v4 /\ v5' = v5 /\ v6' = v6 /\ v9' = v9
        /\ v11' = v11 /\ v12' = v12 /\ v13' = v13
    BY DEF all
  <1>2. StartTails' = StartTails /\ StopTails' = StopTails /\ FailTails' = FailTails
    BY <1>1, TailsSame
  <1>3. ListenerTypes'
    BY <1>1, <1>2 DEF ListenerInv, ListenerTypes
  <1>4. ActiveInv' /\ StartedInv'
    BY <1>1 DEF ListenerInv, ActiveInv, StartedInv, Accepting, Has
  <1>5. LateInv'
    BY <1>1 DEF ListenerInv, LateInv, Tokens, Owed, Deafened, Has
  <1> QED
    BY <1>3, <1>4, <1>5 DEF ListenerInv

\* A step that leaves the variables alone keeps what is known.
LEMMA PoolsRest ==
  ASSUME PoolsInv, UNCHANGED all
  PROVE  PoolsInv'
  BY DEF PoolsInv, all, JoinFollows

\* A step that leaves the variables alone keeps what is known.
LEMMA TimerRests ==
  ASSUME TimerInv, UNCHANGED all
  PROVE  TimerInv'
  BY DEF TimerInv, all, Timer!Going

\* Every step of the part that runs keeps it, whichever part that is.
LEMMA ServerPartInvStep ==
  ASSUME ServerPartInv, [LibraryNext]_all
  PROVE  ServerPartInv'
  <1>1. CASE UNCHANGED all
    <2>1. part' = part
      BY <1>1 DEF all
    <2>2. /\ ListenerInv => ListenerInv'
          /\ PoolsInv => PoolsInv'
          /\ TimerInv => TimerInv'
      BY <1>1, ListenerRests, PoolsRest, TimerRests
    <2> QED
      BY <2>1, <2>2 DEF ServerPartInv
  <1>2. CASE LibraryNext
    <2>1. part' = part
      BY <1>2 DEF LibraryNext, Same15, Same13, Same10, Same9, Same8, Same6, Same5
    <2>2. /\ part = "acceptor" => Listener!Next
          /\ part = "pools" => Pools!Next
          /\ part = "timer" => Timer!Next
      BY <1>2 DEF LibraryNext
    <2> QED
      BY <2>1, <2>2, ListenerStep, PoolsStep, TimerStep DEF ServerPartInv
  <1> QED
    BY <1>1, <1>2

\* For any number of starts and clients, an active listener waits for a client, a
\* started one stays active, and at most one client comes in after a stop, but for the
\* cases the Acceptor module names.  (server/listener: start, stop, on_accept)
THEOREM ListenersAreHeard == LibrarySpec => []ListenersListen
  <1>1. ServerPartInv => ListenersListen
    BY ListenerSound DEF ServerPartInv, ListenersListen
  <1> QED
    BY <1>1, ServerPartInvStart, ServerPartInvStep, PTL DEF LibrarySpec

\* For any number of handlers and of calls, a shutdown leaves no thread of the pools
\* behind but those the ThreadPool module names, and a cancelled timer calls its user
\* once more at most.  (thread-pool.cpp: join_all, timers/periodical.h: cancel)
THEOREM ThreadsAndTimersDoEnd == LibrarySpec => []ThreadsAndTimersEnd
  <1>1. ServerPartInv => ThreadsAndTimersEnd
    BY PoolsEnd, TimerEnds DEF ServerPartInv, ThreadsAndTimersEnd
  <1> QED
    BY <1>1, ServerPartInvStart, ServerPartInvStep, PTL DEF LibrarySpec
==============================================================================
