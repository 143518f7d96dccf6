------------------------ MODULE ServerConnectionsProofs ------------------------
(***************************************************************************)
(* Proofs about ServerConnections, for any number of connections: the lock *)
(* order, the counting of the connections, the timers and the broadcast.   *)
(* One inductive invariant serves all: what the next step of each thread   *)
(* says about the connection it is for; a second one, on top of it, follows*)
(* the timers.                                                             *)
(***************************************************************************)
EXTENDS ServerConnections, Lemmas

Connection ==
  [made : BOOLEAN, announced : BOOLEAN, thrown : BOOLEAN,
   closed : BOOLEAN, stops : Nat, shaken : BOOLEAN, switched : BOOLEAN, ready : BOOLEAN,
   hello : {"no", "posted", "sent", "done", "lost"},
   bye : BOOLEAN, reading : BOOLEAN, everRead : BOOLEAN,
   timer : {"armed", "due", "off"}, tlsTimer : {"armed", "due", "off"},
   tls : {"no", "pending", "done"},
   late : SUBSET {"tls", "init"}, ousted : SUBSET {"tls", "init"}]

Step == [op : {"store", "new", "hello", "arm", "arm_tls", "tls", "shake", "publish", "expel",
               "close", "on_stop", "handle", "drop", "unlist", "test", "send"},
         c : Members \cup {List}]

Broadcast ==
  [state : {"no", "on", "sent", "raised"}, sender : Members \cup {Nobody},
   got : SUBSET Members, steady : SUBSET Members]

Types ==
  /\ kind \in {"impl", "ssl", "pipe"} /\ slot \in {"throws", "lists"}
  /\ con \in [Members -> Connection]
  /\ clients_ \in SUBSET Members /\ client_count_ \in Int
  /\ job \in [Threads -> Seq(Step)]
  /\ held \in [{List} \cup Members -> Threads \cup {Nobody}]
  /\ cast \in Broadcast
  /\ all \in BOOLEAN

\* The next step of every thread; t is about to do op for the connection c.
todo == [t \in Threads |-> IF Idle(t) THEN Op("idle", List) ELSE job[t][1]]
Doing(t, op, c) == todo[t].op = op /\ todo[t].c = c

\* What a thread of the io_service has to do, told by its next step; it is all
\* for one connection.
IoJob(t) ==
  ~Idle(t) =>
    /\ todo[t].c \in Members
    /\ \A i \in DOMAIN job[t] : job[t][i].c = todo[t].c
    /\ \/ todo[t].op = "store" /\ Len(job[t]) = 2 /\ job[t][2].op = "new"
       \/ todo[t].op \in {"new", "drop"} /\ Len(job[t]) = 1
       \/ todo[t].op = "hello" /\ Len(job[t]) = 2 /\ job[t][2].op = "arm"
       \/ todo[t].op \in {"arm", "publish", "expel"} /\ Len(job[t]) = 1
       \/ todo[t].op = "arm_tls" /\ kind = "ssl" /\ Len(job[t]) = 2 /\ job[t][2].op = "tls"
       \/ todo[t].op = "tls" /\ kind = "ssl" /\ Len(job[t]) = 1
       \/ todo[t].op = "shake" /\ Len(job[t]) = 2 /\ job[t][2].op = "publish"
       \/ /\ todo[t].op \in {"close", "handle"}
          /\ Len(job[t]) = 1 \/ (Len(job[t]) = 2 /\ job[t][2].op = "drop")
       \/ /\ todo[t].op = "on_stop" /\ slot = "lists" /\ job[t][2].op = "handle"
          /\ Len(job[t]) = 2 \/ (Len(job[t]) = 3 /\ job[t][3].op = "drop")

\* What the user's thread has to do: the rest of a walk, and at its end to
\* unlock the list.
UserJob ==
  LET s == job["user"] IN
  s # <<>> =>
    /\ s[Len(s)] = Op("unlist", List)
    /\ \A i \in 1..(Len(s) - 1) :
         /\ s[i].c \in Members
         /\ \/ s[i].op = "test" /\ cast.state = "on"
            \/ s[i].op = "send" /\ cast.state = "on" /\ i = 1
            \/ s[i].op = "close" /\ all /\ cast.state = "no"
            \/ s[i].op = "handle" /\ all /\ cast.state = "no" /\ i = 1
            \/ s[i].op = "handle" /\ all /\ cast.state = "no" /\ i = 2 /\ s[1].op = "on_stop"
            \/ /\ s[i].op = "on_stop" /\ all /\ cast.state = "no"
               /\ i = 1 /\ slot = "lists" /\ Len(s) > 2
               /\ s[2] = Op("handle", s[1].c)

\* The connection is announced, or a thread is about to announce it.
Known(c) == con[c].announced \/ \E t \in Io : Doing(t, "new", c)

\* The steps that set a connection up, and those that end its handshake: one
\* thread at most is at either.
SettingUp == {"store", "new", "hello", "arm", "arm_tls", "tls"}
Shaking == {"shake", "publish"}
Alone(c) ==
  \A t, u \in Io :
    /\ todo[t].c = c /\ todo[u].c = c
    /\ \/ todo[t].op \in SettingUp /\ todo[u].op \in SettingUp
       \/ todo[t].op \in Shaking /\ todo[u].op \in Shaking
    => t = u

\* What a thread's next step says about its connection.
NextFits(t, c) ==
  todo[t].c = c =>
    /\ todo[t].op \in {"store", "new"} => ~con[c].announced
    /\ todo[t].op = "new" => c \in clients_
    /\ todo[t].op \in {"arm_tls", "tls"} => con[c].tls = "no"
    /\ todo[t].op = "hello" => con[c].hello = "no"
    /\ todo[t].op = "drop" => con[c].thrown \/ con[c].closed
    /\ todo[t].op \in {"handle", "on_stop"} => con[c].closed
    /\ con[c].made /\ (~con[c].announced => todo[t].op \in {"store", "new"})
    /\ kind = "ssl" /\ con[c].tls # "done" => todo[t].op \notin {"hello", "arm"}
    /\ todo[t].op \in Shaking => con[c].hello = "done" /\ ~con[c].reading /\ ~con[c].switched

ConnInv(c) ==
  /\ ~con[c].made => ~con[c].announced /\ c \notin clients_
  /\ ~con[c].announced =>
       /\ con[c].hello = "no" /\ ~con[c].bye /\ con[c].tls = "no" /\ ~con[c].thrown
       /\ con[c].timer = "off" /\ con[c].tlsTimer = "off"
  /\ con[c].hello # "done" => ~con[c].reading
  /\ con[c].ready => con[c].switched
  /\ kind = "ssl" /\ con[c].tls # "done" => con[c].hello = "no"
  /\ kind # "ssl" => con[c].tls = "no"
  /\ \A t \in Io : NextFits(t, c)
  /\ Alone(c)
  /\ con[c].stops = IF con[c].closed THEN 1 ELSE 0
  /\ con[c].closed /\ ~con[c].announced => all
  /\ con[c].announced /\ ~con[c].closed /\ ~con[c].thrown => c \in clients_
  /\ c \in clients_ \/ con[c].closed => Known(c)

\* The list is locked by the user's walk only, and who holds the lock of a
\* connection is about to end its close.
Locks ==
  /\ held[List] \in {Nobody, "user"}
  /\ \A c \in Members : \A t \in Threads :
       held[c] = t => Doing(t, "handle", c) \/ (slot = "lists" /\ Doing(t, "on_stop", c))

\* What the walk is still to close is known.
WalkKnown ==
  \A i \in DOMAIN job["user"] :
    job["user"][i].op = "close" => Known(job["user"][i].c)

Announced == {c \in Members : con[c].announced}
Closed == {c \in Members : con[c].closed}
Count == client_count_ = Cardinality(Announced) - Cardinality(Closed)

\* The broadcast has still to reach, or has reached, who was ready at its
\* beginning and is; who is no longer will not be again.
Pending(c) ==
  \E i \in DOMAIN job["user"] : job["user"][i] \in {Op("test", c), Op("send", c)}
CastInv ==
  /\ \A c \in cast.steady : con[c].switched
  /\ cast.state = "on" =>
       \A c \in cast.steady \ {cast.sender} : c \in cast.got \/ ~con[c].ready \/ Pending(c)
  /\ cast.state = "on" => ~Idle("user")
  /\ cast.state = "on" /\ todo["user"].op = "send" => todo["user"].c # cast.sender
  /\ BroadcastReaches

IInv ==
  /\ Types /\ (\A t \in Io : IoJob(t)) /\ UserJob
  /\ (\A c \in Members : ConnInv(c)) /\ Locks /\ WalkKnown /\ Count /\ CastInv

------------------------------------------------------------------------------
LEMMA Finite ==
  /\ IsFiniteSet(Members) /\ List \notin Members
  /\ \A S \in SUBSET Members : IsFiniteSet(S) /\ Cardinality(S) \in Nat
  <1>1. Conns \in [1..Len(Conns) -> Members] /\ Len(Conns) \in Nat
    BY ConnsAssumption, LenProperties DEF Members
  <1>2. Conns \in Surjection(1..Len(Conns), Members)
    BY <1>1 DEF Surjection, Members, Range
  <1>3. IsFiniteSet(Members)
    BY <1>1, <1>2, FS_NatSurjection DEF ExistsSurjection
  <1> QED
    BY <1>3, FS_Subset, FS_CardinalityType, ConnsAssumption DEF Members, List

LEMMA Threading ==
  /\ "user" \in Threads /\ "user" \notin Io /\ Io \subseteq Threads
  /\ Threads = Io \cup {"user"} /\ Nobody \notin Threads
  BY DEF Threads, Io, Nobody

\* What a thread does next, and that this is in its job.
LEMMA Todo ==
  ASSUME Types, NEW t \in Threads
  PROVE  /\ job[t] \in Seq(Step) /\ Len(job[t]) \in Nat /\ DOMAIN job[t] = 1..Len(job[t])
         /\ Idle(t) <=> todo[t].op = "idle"
         /\ Idle(t) <=> Len(job[t]) = 0
         /\ Idle(t) => todo[t].c = List
         /\ ~Idle(t) => /\ todo[t] = job[t][1] /\ todo[t] \in Step
                        /\ Head(job[t]) = todo[t] /\ Of(t) = todo[t].c
         /\ \A op : op # "idle" => (At(t, op) <=> todo[t].op = op)
  <1>1. job[t] \in Seq(Step) /\ Len(job[t]) \in Nat /\ DOMAIN job[t] = 1..Len(job[t])
    BY LenProperties DEF Types
  <1>2. Idle(t) <=> Len(job[t]) = 0
    BY <1>1, EmptySeq DEF Idle
  <1>3. CASE Idle(t)
    <2>1. todo[t] = Op("idle", List)
      BY <1>3 DEF todo
    <2>2. todo[t].op = "idle" /\ todo[t].c = List
      BY <2>1 DEF Op
    <2> QED
      BY <1>1, <1>2, <1>3, <2>2 DEF At
  <1>4. CASE ~Idle(t)
    <2>1. todo[t] = job[t][1]
      BY <1>4 DEF todo
    <2>2. Head(job[t]) = job[t][1] /\ Head(job[t]) \in Step
      BY <1>1, <1>4, TailAt DEF Idle
    <2>3. \A x \in Step : x.op # "idle"
      BY DEF Step
    <2> QED
      BY <1>1, <1>2, <1>4, <2>1, <2>2, <2>3 DEF At, Of
  <1> QED
    BY <1>3, <1>4

\* A thread turns to other steps, has done its step, or puts one or two
\* before what it has still to do.
LEMMA DoesSteps ==
  ASSUME Types, NEW t \in Threads, NEW s \in Seq(Step), Does(t, s)
  PROVE  /\ job' \in [Threads -> Seq(Step)] /\ job'[t] = s
         /\ \A u \in Threads \ {t} : job'[u] = job[u] /\ todo'[u] = todo[u]
         /\ s = <<>> => todo'[t] = Op("idle", List)
         /\ s # <<>> => todo'[t] = s[1]
  <1>1. job' \in [Threads -> Seq(Step)] /\ job'[t] = s
    BY DEF Types, Does
  <1>2. \A u \in Threads \ {t} : job'[u] = job[u]
    BY DEF Types, Does
  <1> QED
    BY <1>1, <1>2 DEF todo, Idle

LEMMA ThenSteps ==
  ASSUME Types, NEW t \in Threads, ~Idle(t), NEW s \in Seq(Step), Then(t, s)
  PROVE  /\ job' \in [Threads -> Seq(Step)]
         /\ \A u \in Threads \ {t} : job'[u] = job[u] /\ todo'[u] = todo[u]
         /\ Len(job'[t]) = Len(s) + Len(job[t]) - 1
         /\ \A i \in 1..Len(s) : job'[t][i] = s[i]
         /\ \A i \in 2..Len(job[t]) : job'[t][Len(s) + i - 1] = job[t][i]
         /\ Len(job'[t]) = 0 => todo'[t] = Op("idle", List)
         /\ Len(job'[t]) # 0 => todo'[t] = job'[t][1]
  <1> DEFINE q == s \o Tail(job[t])
  <1>1. /\ job[t] \in Seq(Step) /\ Len(job[t]) \in Nat \ {0} /\ Tail(job[t]) \in Seq(Step)
        /\ Len(Tail(job[t])) = Len(job[t]) - 1
        /\ \A i \in 1..(Len(job[t]) - 1) : Tail(job[t])[i] = job[t][i + 1]
    BY Todo, TailAt DEF Idle
  <1>2. /\ q \in Seq(Step) /\ Len(q) = Len(s) + Len(Tail(job[t])) /\ Len(s) \in Nat
        /\ \A i \in 1..Len(s) : q[i] = s[i]
        /\ \A i \in 1..Len(Tail(job[t])) : q[Len(s) + i] = Tail(job[t])[i]
    BY <1>1, ConcatAt, LenProperties
  <1>3. Does(t, q)
    BY DEF Then
  <1> HIDE DEF q
  <1>4. /\ job' \in [Threads -> Seq(Step)] /\ job'[t] = q
        /\ \A u \in Threads \ {t} : job'[u] = job[u] /\ todo'[u] = todo[u]
        /\ q = <<>> => todo'[t] = Op("idle", List)
        /\ q # <<>> => todo'[t] = q[1]
    BY <1>2, <1>3, DoesSteps
  <1>5. Len(q) = Len(s) + Len(job[t]) - 1
    BY <1>1, <1>2
  <1>6. ASSUME NEW i \in 2..Len(job[t]) PROVE q[Len(s) + i - 1] = job[t][i]
    <2>1. i - 1 \in 1..(Len(job[t]) - 1) /\ Len(s) + (i - 1) = Len(s) + i - 1 /\ (i - 1) + 1 = i
      BY <1>1, <1>2
    <2> QED
      BY <1>1, <1>2, <2>1
  <1>7. q = <<>> <=> Len(q) = 0
    BY <1>2, EmptySeq
  <1> QED
    BY <1>2, <1>4, <1>5, <1>6, <1>7
------------------------------------------------------------------------------
(* A step of one thread, for one connection.                                 *)

Frame(t, c) ==
  /\ job' \in [Threads -> Seq(Step)] /\ con' \in [Members -> Connection]
  /\ clients_' \in SUBSET Members
  /\ \A u \in Threads \ {t} : job'[u] = job[u] /\ todo'[u] = todo[u]
  /\ \/ todo' = todo
     \/ todo[t].c \in {c, List} /\ todo'[t].c \in {c, List}
  /\ \A d \in Members \ {c} : con'[d] = con[d] /\ (d \in clients_' <=> d \in clients_)
  /\ kind' = kind /\ slot' = slot /\ cast' = cast /\ all' = all

LEMMA OtherConnections ==
  ASSUME IInv, NEW t \in Io, NEW c \in Members, Frame(t, c), NEW d \in Members \ {c}
  PROVE  ConnInv(d)' /\ (Known(d) => Known(d)')
  <1>1. /\ con'[d] = con[d] /\ (d \in clients_' <=> d \in clients_)
        /\ kind' = kind /\ all' = all
    BY DEF Frame
  <1>2. todo' = todo \/ (todo[t].c # d /\ todo'[t].c # d)
    BY Finite DEF Frame
  <1>3. \A u \in Io : u # t => todo'[u] = todo[u]
    BY Threading DEF Frame
  <1>4. ConnInv(d)
    BY DEF IInv
  <1>5. \A u \in Io : todo'[u].c = d => todo'[u] = todo[u]
    BY <1>2, <1>3
  <1>6. \A u \in Io : NextFits(u, d)'
    <2>1. \A u \in Io : NextFits(u, d)
      BY <1>4 DEF ConnInv
    <2> QED
      BY <1>1, <1>5, <2>1 DEF NextFits
  <1>7. Known(d) => Known(d)'
    BY <1>1, <1>2, <1>3 DEF Known, Doing
  <1>8. Alone(d)'
    BY <1>4, <1>5 DEF ConnInv, Alone
  <1>9. ConnInv(d)'
    <2> HIDE DEF Known
    <2> QED
      BY <1>1, <1>4, <1>6, <1>7, <1>8 DEF ConnInv
  <1> QED
    BY <1>7, <1>9

KeepsCast(c) ==
  con[c].switched => con'[c].switched /\ (con'[c].ready => con[c].ready)

LEMMA IoStep ==
  ASSUME IInv, NEW t \in Io, NEW c \in Members, Frame(t, c),
         IoJob(t)', ConnInv(c)', Known(c) => Known(c)', KeepsCast(c),
         held' \in [{List} \cup Members -> Threads \cup {Nobody}], client_count_' \in Int,
         Locks', Count'
  PROVE  IInv'
  <1>0. Types /\ UserJob /\ WalkKnown /\ CastInv /\ \A u \in Io : IoJob(u)
    BY DEF IInv
  <1>1. Types'
    BY <1>0 DEF Types, Frame
  <1>2. \A u \in Io : IoJob(u)'
    <2>1. \A u \in Io : u # t => job'[u] = job[u] /\ todo'[u] = todo[u]
      BY Threading DEF Frame
    <2>2. kind' = kind /\ slot' = slot
      BY DEF Frame
    <2> QED
      BY <1>0, <2>1, <2>2 DEF IoJob, Idle
  <1>3. job'["user"] = job["user"] /\ cast' = cast /\ all' = all /\ slot' = slot
    BY Threading DEF Frame
  <1>4. UserJob'
    BY <1>0, <1>3 DEF UserJob
  <1>5. \A d \in Members : ConnInv(d)' /\ (Known(d) => Known(d)')
    BY OtherConnections
  <1>6. WalkKnown'
    <2>1. ASSUME NEW i \in DOMAIN job["user"], job["user"][i].op = "close"
          PROVE  job["user"][i].c \in Members
      <3>1. /\ job["user"] # <<>> /\ Len(job["user"]) \in Nat
            /\ DOMAIN job["user"] = 1..Len(job["user"])
        BY <1>0, Todo, Threading, EmptySeq
      <3>2. i # Len(job["user"])
        BY <1>0, <2>1, <3>1 DEF UserJob, Op
      <3> QED
        BY <1>0, <3>1, <3>2 DEF UserJob
    <2> QED
      BY <1>0, <1>3, <1>5, <2>1 DEF WalkKnown
  <1>7. CastInv'
    <2>1. \A d \in Members : Pending(d)' <=> Pending(d)
      BY <1>3 DEF Pending
    <2>2. \A d \in Members \ {c} : con'[d] = con[d]
      BY DEF Frame
    <2>3. cast.steady \subseteq Members
      BY <1>0 DEF Types, Broadcast
    <2>4. ASSUME NEW d \in cast.steady
          PROVE  con'[d].switched /\ (con'[d].ready => con[d].ready)
      <3>1. con[d].switched
        BY <1>0 DEF CastInv
      <3> QED
        BY <2>2, <2>3, <2>4, <3>1 DEF KeepsCast
    <2>5. (Idle("user")' <=> Idle("user")) /\ todo'["user"] = todo["user"]
      BY <1>3, Threading DEF Idle, Frame
    <2> QED
      BY <1>0, <1>3, <2>1, <2>3, <2>4, <2>5 DEF CastInv, BroadcastReaches
  <1> QED
    BY <1>1, <1>2, <1>4, <1>5, <1>6, <1>7 DEF IInv

\* A step that neither locks nor ends a close leaves the locks as they are.
LEMMA SameLocks ==
  ASSUME IInv, NEW t \in Io, NEW c \in Members, Frame(t, c), held' = held,
         todo[t].op \notin {"handle", "on_stop"} \/ todo' = todo
  PROVE  Locks' /\ held' \in [{List} \cup Members -> Threads \cup {Nobody}]
  <1>1. \A u \in Threads : u # t => todo'[u] = todo[u]
    BY DEF Frame
  <1>2. Locks /\ slot' = slot
    BY DEF IInv, Frame
  <1> QED
    BY <1>1, <1>2 DEF Locks, Doing, IInv, Types

LEMMA SameCount ==
  ASSUME IInv, NEW t \in Io, NEW c \in Members, Frame(t, c), client_count_' = client_count_,
         con'[c].announced = con[c].announced, con'[c].closed = con[c].closed
  PROVE  Count' /\ client_count_' \in Int
  <1>1. \A d \in Members : con'[d].announced = con[d].announced /\ con'[d].closed = con[d].closed
    BY DEF Frame
  <1>2. Announced' = Announced /\ Closed' = Closed
    BY <1>1 DEF Announced, Closed
  <1> QED
    BY <1>2 DEF IInv, Count, Types
------------------------------------------------------------------------------
(* The steps of the threads of the io_service.                               *)

LEMMA UserSteps ==
  ASSUME IInv
  PROVE  /\ todo["user"].op \in {"idle", "unlist", "test", "send", "close", "handle", "on_stop"}
         /\ slot # "lists" => todo["user"].op # "on_stop"
  <1> DEFINE s == job["user"]
  <1>0. Types /\ UserJob
    BY DEF IInv
  <1>1. /\ Len(s) \in Nat /\ (Idle("user") <=> todo["user"].op = "idle")
        /\ Idle("user") <=> Len(s) = 0
        /\ ~Idle("user") => todo["user"] = s[1] /\ s # <<>>
    BY <1>0, Todo, Threading DEF Idle
  <1>2. CASE Idle("user")
    BY <1>1, <1>2
  <1>3. CASE ~Idle("user") /\ Len(s) = 1
    <2>1. s[1] = Op("unlist", List)
      BY <1>0, <1>1, <1>3 DEF UserJob
    <2> QED
      BY <1>1, <1>3, <2>1 DEF Op
  <1>4. CASE ~Idle("user") /\ Len(s) # 1
    <2>0. Len(s) # 0
      BY <1>1, <1>4
    <2>1. 1 \in 1..(Len(s) - 1)
      <3>1. \A n \in Nat : n # 0 /\ n # 1 => 1 \in 1..(n - 1)
        OBVIOUS
      <3> QED
        BY <1>1, <1>4, <2>0, <3>1
    <2>2. s[1].op \in {"test", "send", "close", "handle", "on_stop"}
          /\ (s[1].op = "on_stop" => slot = "lists")
      BY <1>0, <1>1, <1>4, <2>1 DEF UserJob
    <2> QED
      BY <1>1, <1>4, <2>2
  <1> QED
    BY <1>2, <1>3, <1>4

\* A thread of the io_service that is busy.
LEMMA IoBusy ==
  ASSUME IInv, NEW t \in Threads,
         todo[t].op \in SettingUp \cup Shaking \cup {"expel", "drop"} \/ (t \in Io /\ ~Idle(t))
  PROVE  /\ t \in Io /\ ~Idle(t) /\ todo[t].c \in Members /\ Of(t) = todo[t].c
         /\ ConnInv(todo[t].c) /\ NextFits(t, todo[t].c) /\ IoJob(t)
         /\ con[todo[t].c] \in Connection
  <1>1. t \in Io /\ ~Idle(t)
    BY UserSteps, Threading, Todo DEF IInv, SettingUp, Shaking
  <1>2. IoJob(t) /\ todo[t].c \in Members /\ Of(t) = todo[t].c
    BY <1>1, Todo DEF IInv, IoJob
  <1>3. ConnInv(todo[t].c)
    BY <1>2 DEF IInv
  <1>4. NextFits(t, todo[t].c)
    BY <1>1, <1>3 DEF ConnInv
  <1> QED
    BY <1>1, <1>2, <1>3, <1>4 DEF IInv, Types

LEMMA IoThen ==
  ASSUME IInv, NEW t \in Io, ~Idle(t), NEW s \in Seq(Step),
         \A i \in 1..Len(s) : s[i].c = todo[t].c, Then(t, s)
  PROVE  /\ job' \in [Threads -> Seq(Step)]
         /\ \A u \in Threads \ {t} : job'[u] = job[u] /\ todo'[u] = todo[u]
         /\ todo'[t].c \in {todo[t].c, List}
         /\ Idle(t)' <=> Len(job'[t]) = 0
         /\ ~Idle(t)' => todo'[t] = job'[t][1] /\ todo'[t].c = todo[t].c
         /\ Idle(t)' => todo'[t].op = "idle" /\ todo'[t].c = List
         /\ Len(job'[t]) = Len(s) + Len(job[t]) - 1 /\ Len(s) \in Nat
         /\ Len(job[t]) \in Nat \ {0}
         /\ \A i \in 1..Len(s) : job'[t][i] = s[i]
         /\ \A i \in 2..Len(job[t]) : job'[t][Len(s) + i - 1] = job[t][i]
         /\ \A i \in DOMAIN job'[t] : job'[t][i].c = todo[t].c
  <1>0. Types /\ t \in Threads /\ IoJob(t)
    BY Threading DEF IInv
  <1>1. /\ job' \in [Threads -> Seq(Step)]
        /\ \A u \in Threads \ {t} : job'[u] = job[u] /\ todo'[u] = todo[u]
        /\ Len(job'[t]) = Len(s) + Len(job[t]) - 1
        /\ \A i \in 1..Len(s) : job'[t][i] = s[i]
        /\ \A i \in 2..Len(job[t]) : job'[t][Len(s) + i - 1] = job[t][i]
        /\ Len(job'[t]) = 0 => todo'[t] = Op("idle", List)
        /\ Len(job'[t]) # 0 => todo'[t] = job'[t][1]
    BY <1>0, ThenSteps
  <1>2. /\ job'[t] \in Seq(Step) /\ Len(job'[t]) \in Nat /\ DOMAIN job'[t] = 1..Len(job'[t])
        /\ Idle(t)' <=> Len(job'[t]) = 0
    BY <1>0, <1>1, LenProperties, EmptySeq DEF Idle
  <1>3. Len(job[t]) \in Nat \ {0} /\ DOMAIN job[t] = 1..Len(job[t]) /\ Len(s) \in Nat
    BY <1>0, Todo, LenProperties
  <1>4. \A i \in 1..Len(job[t]) : job[t][i].c = todo[t].c
    BY <1>0, <1>3 DEF IoJob
  <1>5. ASSUME NEW i \in 1..Len(job'[t]) PROVE job'[t][i].c = todo[t].c
    <2>1. CASE i <= Len(s)
      BY <1>1, <1>2, <1>3, <2>1
    <2>2. CASE i > Len(s)
      <3>1. i - Len(s) + 1 \in 2..Len(job[t]) /\ Len(s) + (i - Len(s) + 1) - 1 = i
        BY <1>1, <1>2, <1>3, <2>2
      <3>2. job'[t][i] = job[t][i - Len(s) + 1]
        BY <1>1, <3>1
      <3> QED
        BY <1>3, <1>4, <3>1, <3>2
    <2> QED
      BY <1>2, <1>3, <2>1, <2>2
  <1>6. ~Idle(t)' => todo'[t] = job'[t][1] /\ todo'[t].c = todo[t].c
    BY <1>1, <1>2, <1>5, SMTT(30)
  <1>7. Idle(t)' => todo'[t].op = "idle" /\ todo'[t].c = List
    BY <1>1, <1>2 DEF Op
  <1> QED
    BY <1>1, <1>2, <1>3, <1>5, <1>6, <1>7

\* The thread t has done its step for c, and goes on.
Pops(t, c) ==
  /\ job' \in [Threads -> Seq(Step)]
  /\ \A u \in Threads \ {t} : job'[u] = job[u] /\ todo'[u] = todo[u]
  /\ todo[t].c = c /\ todo'[t].c \in {c, List}
  /\ Idle(t)' <=> Len(job'[t]) = 0
  /\ ~Idle(t)' => todo'[t] = job'[t][1] /\ todo'[t].c = c
  /\ Idle(t)' => todo'[t].op = "idle" /\ todo'[t].c = List
  /\ Len(job[t]) \in Nat \ {0} /\ Len(job'[t]) = Len(job[t]) - 1
  /\ Len(job[t]) >= 2 => job'[t][1] = job[t][2]
  /\ Len(job[t]) >= 3 => job'[t][2] = job[t][3]
  /\ \A i \in DOMAIN job'[t] : job'[t][i].c = c

LEMMA IoDone ==
  ASSUME IInv, NEW t \in Io, ~Idle(t), Then(t, <<>>)
  PROVE  Pops(t, todo[t].c)
  <1> DEFINE s == <<>>
  <1>1. s \in Seq(Step) /\ Len(s) = 0 /\ Then(t, s)
    BY EmptySeq
  <1>2. \A i \in 1..Len(s) : s[i].c = todo[t].c
    BY <1>1
  <1> HIDE DEF s
  <1>3. /\ job' \in [Threads -> Seq(Step)]
        /\ \A u \in Threads \ {t} : job'[u] = job[u] /\ todo'[u] = todo[u]
        /\ todo'[t].c \in {todo[t].c, List}
        /\ Idle(t)' <=> Len(job'[t]) = 0
        /\ ~Idle(t)' => todo'[t] = job'[t][1] /\ todo'[t].c = todo[t].c
        /\ Idle(t)' => todo'[t].op = "idle" /\ todo'[t].c = List
        /\ Len(job'[t]) = Len(s) + Len(job[t]) - 1 /\ Len(s) \in Nat
        /\ Len(job[t]) \in Nat \ {0}
        /\ \A i \in 2..Len(job[t]) : job'[t][Len(s) + i - 1] = job[t][i]
        /\ \A i \in DOMAIN job'[t] : job'[t][i].c = todo[t].c
    BY <1>1, <1>2, IoThen
  <1>4. \A i \in 2..Len(job[t]) : job'[t][i - 1] = job[t][i]
    BY <1>1, <1>3
  <1>5. Len(job[t]) >= 2 => job'[t][1] = job[t][2]
    <2>1. Len(job[t]) >= 2 => 2 \in 2..Len(job[t]) /\ 2 - 1 = 1
      BY <1>3
    <2> QED
      BY <1>4, <2>1
  <1>6. Len(job[t]) >= 3 => job'[t][2] = job[t][3]
    <2>1. Len(job[t]) >= 3 => 3 \in 2..Len(job[t]) /\ 3 - 1 = 2
      BY <1>3
    <2> QED
      BY <1>4, <2>1
  <1> QED
    BY <1>1, <1>3, <1>5, <1>6 DEF Pops

\* A step of a thread for a connection that keeps the locks and the count.
LEMMA QuietStep ==
  ASSUME IInv, NEW t \in Io, NEW c \in Members, Frame(t, c), IoJob(t)', ConnInv(c)',
         Known(c) => Known(c)', KeepsCast(c),
         held' = held, client_count_' = client_count_,
         todo[t].op \notin {"handle", "on_stop"} \/ todo' = todo,
         con'[c].announced = con[c].announced, con'[c].closed = con[c].closed
  PROVE  IInv'
  <1>1. Locks' /\ held' \in [{List} \cup Members -> Threads \cup {Nobody}]
    BY SameLocks
  <1>2. Count' /\ client_count_' \in Int
    BY SameCount
  <1> QED
    BY <1>1, <1>2, IoStep

LEMMA DoesNothing ==
  ASSUME Types, NEW t \in Threads, Idle(t), Does(t, <<>>)
  PROVE  job' = job
  BY DEF Types, Idle, Does

\* A handler: t was idle and takes up the steps s for c.
Takes(t, c, s) ==
  /\ job' \in [Threads -> Seq(Step)]
  /\ \A u \in Threads \ {t} : job'[u] = job[u] /\ todo'[u] = todo[u]
  /\ todo[t].op = "idle" /\ todo[t].c = List
  /\ ~Idle(t)' /\ job'[t] = s /\ todo'[t] = s[1] /\ \A i \in DOMAIN s : s[i].c = c

LEMMA TakesOne ==
  ASSUME IInv, NEW t \in Io, Idle(t), NEW c \in Members, NEW op \in {"close", "expel"},
         Does(t, <<Op(op, c)>>)
  PROVE  Takes(t, c, <<Op(op, c)>>)
  <1> DEFINE s == <<Op(op, c)>>
  <1>1. Op(op, c) \in Step /\ Op(op, c).c = c
    BY DEF Op, Step
  <1>2. s \in Seq(Step) /\ s # <<>> /\ \A i \in DOMAIN s : s[i].c = c
    BY <1>1
  <1>3. Types /\ t \in Threads
    BY Threading DEF IInv
  <1>4. /\ job' \in [Threads -> Seq(Step)] /\ job'[t] = s
        /\ \A u \in Threads \ {t} : job'[u] = job[u] /\ todo'[u] = todo[u]
        /\ todo'[t] = s[1]
    BY <1>2, <1>3, DoesSteps
  <1>5. todo[t].op = "idle" /\ todo[t].c = List
    BY <1>3, Todo
  <1> QED
    BY <1>2, <1>4, <1>5 DEF Takes, Idle

LEMMA TakesTwo ==
  ASSUME IInv, NEW t \in Io, Idle(t), NEW c \in Members,
         NEW op \in {"store", "close", "hello", "shake"},
         NEW op2 \in {"new", "drop", "arm", "publish"},
         Does(t, <<Op(op, c), Op(op2, c)>>)
  PROVE  Takes(t, c, <<Op(op, c), Op(op2, c)>>)
  <1> DEFINE s == <<Op(op, c), Op(op2, c)>>
  <1>1. /\ Op(op, c) \in Step /\ Op(op, c).c = c
        /\ Op(op2, c) \in Step /\ Op(op2, c).c = c
    BY DEF Op, Step
  <1>2. s \in Seq(Step) /\ s # <<>> /\ \A i \in DOMAIN s : s[i].c = c
    BY <1>1
  <1>3. Types /\ t \in Threads
    BY Threading DEF IInv
  <1>4. /\ job' \in [Threads -> Seq(Step)] /\ job'[t] = s
        /\ \A u \in Threads \ {t} : job'[u] = job[u] /\ todo'[u] = todo[u]
        /\ todo'[t] = s[1]
    BY <1>2, <1>3, DoesSteps
  <1>5. todo[t].op = "idle" /\ todo[t].c = List
    BY <1>3, Todo
  <1> QED
    BY <1>2, <1>4, <1>5 DEF Takes, Idle

LEMMA ArmStep ==
  ASSUME IInv, NEW t \in Threads, NEW c \in Members, todo[t].c = c, arm(t)
  PROVE  IInv'
  <1>1. todo[t].op = "arm"
    BY Todo DEF arm, IInv
  <1>2. /\ t \in Io /\ ~Idle(t) /\ c \in Members /\ Of(t) = c /\ ConnInv(c)
        /\ NextFits(t, c) /\ IoJob(t) /\ con[c] \in Connection
    BY <1>1, IoBusy DEF SettingUp, Shaking
  <1>3. /\ con' = [con EXCEPT ![c].timer = "armed"]
        /\ Then(t, <<>>) /\ clients_' = clients_
        /\ kind' = kind /\ slot' = slot /\ client_count_' = client_count_
        /\ held' = held /\ cast' = cast /\ all' = all
    BY <1>1, <1>2 DEF arm
  <1>4. Pops(t, c)
    BY <1>2, <1>3, IoDone
  <1>5. /\ con' \in [Members -> Connection]
        /\ \A d \in Members \ {c} : con'[d] = con[d]
        /\ con'[c].made = con[c].made /\ con'[c].announced = con[c].announced /\ con'[c].thrown = con[c].thrown
        /\ con'[c].closed = con[c].closed /\ con'[c].stops = con[c].stops /\ con'[c].ready = con[c].ready
        /\ con'[c].hello = con[c].hello /\ con'[c].bye = con[c].bye /\ con'[c].reading = con[c].reading
        /\ con'[c].everRead = con[c].everRead /\ con'[c].timer = "armed" /\ con'[c].tls = con[c].tls
        /\ con'[c].switched = con[c].switched /\ con'[c].tlsTimer = con[c].tlsTimer
    BY <1>1, <1>2, <1>3 DEF IInv, Types, Connection
  <1>6. Frame(t, c)
    BY <1>1, <1>2, <1>3, <1>4, <1>5 DEF Frame, IInv, Types, Pops
  <1>7. todo[t].c = c /\ todo'[t].c \in {c, List} /\ (todo'[t].op # "idle" => todo'[t].c = c)
        /\ todo'[t].op = "idle"
    BY <1>1, <1>2, <1>4 DEF IoJob, Pops
  <1>8. IoJob(t)'
    BY <1>1, <1>2, <1>3, <1>4, <1>7 DEF IoJob, Pops
  <1>9. ConnInv(c)' /\ (Known(c) => Known(c)')
    <2>1. \A u \in Io : u # t => todo'[u] = todo[u]
      BY <1>4, <1>6, Threading DEF Frame
    <2>2. (\A u \in Io : NextFits(u, c)) /\ Alone(c)
      BY <1>2 DEF ConnInv
    <2>3. \A u \in Io : NextFits(u, c)'
      BY <1>1, <1>2, <1>3, <1>5, <1>7, <2>1, <2>2, Finite DEF NextFits, ConnInv, Alone, SettingUp, Shaking, Connection
    <2>4. Alone(c)'
      BY <1>1, <1>2, <1>7, <2>1, <2>2, Finite DEF Alone, SettingUp, Shaking, NextFits, ConnInv
    <2>5. Known(c) => Known(c)'
      BY <1>1, <1>2, <1>5, <1>7, <2>1 DEF Known, Doing
    <2> QED
      BY <1>1, <1>2, <1>3, <1>5, <1>7, <2>3, <2>4, <2>5 DEF ConnInv, NextFits, Connection
  <1>10. KeepsCast(c)
    BY <1>1, <1>2, <1>5 DEF KeepsCast, Connection, ConnInv, NextFits
  <1> QED
    BY <1>1, <1>2, <1>3, <1>5, <1>6, <1>7, <1>8, <1>9, <1>10, QuietStep

LEMMA ArmTlsStep ==
  ASSUME IInv, NEW t \in Threads, NEW c \in Members, todo[t].c = c, arm_tls(t)
  PROVE  IInv'
  <1>1. todo[t].op = "arm_tls"
    BY Todo DEF arm_tls, IInv
  <1>2. /\ t \in Io /\ ~Idle(t) /\ c \in Members /\ Of(t) = c /\ ConnInv(c)
        /\ NextFits(t, c) /\ IoJob(t) /\ con[c] \in Connection
    BY <1>1, IoBusy DEF SettingUp, Shaking
  <1>3. /\ con' = [con EXCEPT ![c].tlsTimer = "armed"]
        /\ Then(t, <<>>) /\ clients_' = clients_
        /\ kind' = kind /\ slot' = slot /\ client_count_' = client_count_
        /\ held' = held /\ cast' = cast /\ all' = all
    BY <1>1, <1>2 DEF arm_tls
  <1>4. Pops(t, c)
    BY <1>2, <1>3, IoDone
  <1>5. /\ con' \in [Members -> Connection]
        /\ \A d \in Members \ {c} : con'[d] = con[d]
        /\ con'[c].made = con[c].made /\ con'[c].announced = con[c].announced /\ con'[c].thrown = con[c].thrown
        /\ con'[c].closed = con[c].closed /\ con'[c].stops = con[c].stops /\ con'[c].ready = con[c].ready
        /\ con'[c].hello = con[c].hello /\ con'[c].bye = con[c].bye /\ con'[c].reading = con[c].reading
        /\ con'[c].everRead = con[c].everRead /\ con'[c].timer = con[c].timer /\ con'[c].tls = con[c].tls
        /\ con'[c].switched = con[c].switched /\ con'[c].tlsTimer = "armed"
    BY <1>1, <1>2, <1>3 DEF IInv, Types, Connection
  <1>6. Frame(t, c)
    BY <1>1, <1>2, <1>3, <1>4, <1>5 DEF Frame, IInv, Types, Pops
  <1>7. todo[t].c = c /\ todo'[t].c \in {c, List} /\ (todo'[t].op # "idle" => todo'[t].c = c)
        /\ kind = "ssl" /\ todo'[t].op = "tls"
    BY <1>1, <1>2, <1>4 DEF IoJob, Pops
  <1>8. IoJob(t)'
    BY <1>1, <1>2, <1>3, <1>4, <1>7 DEF IoJob, Pops
  <1>9. ConnInv(c)' /\ (Known(c) => Known(c)')
    <2>1. \A u \in Io : u # t => todo'[u] = todo[u]
      BY <1>4, <1>6, Threading DEF Frame
    <2>2. (\A u \in Io : NextFits(u, c)) /\ Alone(c)
      BY <1>2 DEF ConnInv
    <2>3. \A u \in Io : NextFits(u, c)'
      BY <1>1, <1>2, <1>3, <1>5, <1>7, <2>1, <2>2, Finite DEF NextFits, ConnInv, Alone, SettingUp, Shaking, Connection
    <2>4. Alone(c)'
      BY <1>1, <1>2, <1>7, <2>1, <2>2, Finite DEF Alone, SettingUp, Shaking, NextFits, ConnInv
    <2>5. Known(c) => Known(c)'
      BY <1>1, <1>2, <1>5, <1>7, <2>1 DEF Known, Doing
    <2> QED
      BY <1>1, <1>2, <1>3, <1>5, <1>7, <2>3, <2>4, <2>5 DEF ConnInv, NextFits, Connection
  <1>10. KeepsCast(c)
    BY <1>1, <1>2, <1>5 DEF KeepsCast, Connection, ConnInv, NextFits
  <1> QED
    BY <1>1, <1>2, <1>3, <1>5, <1>6, <1>7, <1>8, <1>9, <1>10, QuietStep

LEMMA TlsStep ==
  ASSUME IInv, NEW t \in Threads, NEW c \in Members, todo[t].c = c, tls(t)
  PROVE  IInv'
  <1>1. todo[t].op = "tls"
    BY Todo DEF tls, IInv
  <1>2. /\ t \in Io /\ ~Idle(t) /\ c \in Members /\ Of(t) = c /\ ConnInv(c)
        /\ NextFits(t, c) /\ IoJob(t) /\ con[c] \in Connection
    BY <1>1, IoBusy DEF SettingUp, Shaking
  <1>3. /\ con' = [con EXCEPT ![c].tls = "pending"]
        /\ Then(t, <<>>) /\ clients_' = clients_
        /\ kind' = kind /\ slot' = slot /\ client_count_' = client_count_
        /\ held' = held /\ cast' = cast /\ all' = all
    BY <1>1, <1>2 DEF tls
  <1>4. Pops(t, c)
    BY <1>2, <1>3, IoDone
  <1>5. /\ con' \in [Members -> Connection]
        /\ \A d \in Members \ {c} : con'[d] = con[d]
        /\ con'[c].made = con[c].made /\ con'[c].announced = con[c].announced /\ con'[c].thrown = con[c].thrown
        /\ con'[c].closed = con[c].closed /\ con'[c].stops = con[c].stops /\ con'[c].ready = con[c].ready
        /\ con'[c].hello = con[c].hello /\ con'[c].bye = con[c].bye /\ con'[c].reading = con[c].reading
        /\ con'[c].everRead = con[c].everRead /\ con'[c].timer = con[c].timer /\ con'[c].tls = "pending"
        /\ con'[c].switched = con[c].switched /\ con'[c].tlsTimer = con[c].tlsTimer
    BY <1>1, <1>2, <1>3 DEF IInv, Types, Connection
  <1>6. Frame(t, c)
    BY <1>1, <1>2, <1>3, <1>4, <1>5 DEF Frame, IInv, Types, Pops
  <1>7. todo[t].c = c /\ todo'[t].c \in {c, List} /\ (todo'[t].op # "idle" => todo'[t].c = c)
        /\ kind = "ssl" /\ todo'[t].op = "idle"
    BY <1>1, <1>2, <1>4 DEF IoJob, Pops
  <1>8. IoJob(t)'
    BY <1>1, <1>2, <1>3, <1>4, <1>7 DEF IoJob, Pops
  <1>9. ConnInv(c)' /\ (Known(c) => Known(c)')
    <2>1. \A u \in Io : u # t => todo'[u] = todo[u]
      BY <1>4, <1>6, Threading DEF Frame
    <2>2. (\A u \in Io : NextFits(u, c)) /\ Alone(c)
      BY <1>2 DEF ConnInv
    <2>3. \A u \in Io : NextFits(u, c)'
      BY <1>1, <1>2, <1>3, <1>5, <1>7, <2>1, <2>2, Finite DEF NextFits, ConnInv, Alone, SettingUp, Shaking, Connection
    <2>4. Alone(c)'
      BY <1>1, <1>2, <1>7, <2>1, <2>2, Finite DEF Alone, SettingUp, Shaking, NextFits, ConnInv
    <2>5. Known(c) => Known(c)'
      BY <1>1, <1>2, <1>5, <1>7, <2>1 DEF Known, Doing
    <2> QED
      BY <1>1, <1>2, <1>3, <1>5, <1>7, <2>3, <2>4, <2>5 DEF ConnInv, NextFits, Connection
  <1>10. KeepsCast(c)
    BY <1>1, <1>2, <1>5 DEF KeepsCast, Connection, ConnInv, NextFits
  <1> QED
    BY <1>1, <1>2, <1>3, <1>5, <1>6, <1>7, <1>8, <1>9, <1>10, QuietStep

LEMMA HelloStep ==
  ASSUME IInv, NEW t \in Threads, NEW c \in Members, todo[t].c = c, hello(t)
  PROVE  IInv'
  <1>1. todo[t].op = "hello"
    BY Todo DEF hello, IInv
  <1>2. /\ t \in Io /\ ~Idle(t) /\ c \in Members /\ Of(t) = c /\ ConnInv(c)
        /\ NextFits(t, c) /\ IoJob(t) /\ con[c] \in Connection
    BY <1>1, IoBusy DEF SettingUp, Shaking
  <1>3. /\ con' = [con EXCEPT ![c].hello = "posted"]
        /\ Then(t, <<>>) /\ clients_' = clients_
        /\ kind' = kind /\ slot' = slot /\ client_count_' = client_count_
        /\ held' = held /\ cast' = cast /\ all' = all
    BY <1>1, <1>2 DEF hello
  <1>4. Pops(t, c)
    BY <1>2, <1>3, IoDone
  <1>5. /\ con' \in [Members -> Connection]
        /\ \A d \in Members \ {c} : con'[d] = con[d]
        /\ con'[c].made = con[c].made /\ con'[c].announced = con[c].announced /\ con'[c].thrown = con[c].thrown
        /\ con'[c].closed = con[c].closed /\ con'[c].stops = con[c].stops /\ con'[c].ready = con[c].ready
        /\ con'[c].hello = "posted" /\ con'[c].bye = con[c].bye /\ con'[c].reading = con[c].reading
        /\ con'[c].everRead = con[c].everRead /\ con'[c].timer = con[c].timer /\ con'[c].tls = con[c].tls
        /\ con'[c].switched = con[c].switched /\ con'[c].tlsTimer = con[c].tlsTimer
    BY <1>1, <1>2, <1>3 DEF IInv, Types, Connection
  <1>6. Frame(t, c)
    BY <1>1, <1>2, <1>3, <1>4, <1>5 DEF Frame, IInv, Types, Pops
  <1>7. todo[t].c = c /\ todo'[t].c \in {c, List} /\ (todo'[t].op # "idle" => todo'[t].c = c)
        /\ todo'[t].op = "arm"
    BY <1>1, <1>2, <1>4 DEF IoJob, Pops
  <1>8. IoJob(t)'
    BY <1>1, <1>2, <1>3, <1>4, <1>7 DEF IoJob, Pops
  <1>9. ConnInv(c)' /\ (Known(c) => Known(c)')
    <2>1. \A u \in Io : u # t => todo'[u] = todo[u]
      BY <1>4, <1>6, Threading DEF Frame
    <2>2. (\A u \in Io : NextFits(u, c)) /\ Alone(c)
      BY <1>2 DEF ConnInv
    <2>3. \A u \in Io : NextFits(u, c)'
      BY <1>1, <1>2, <1>3, <1>5, <1>7, <2>1, <2>2, Finite DEF NextFits, ConnInv, Alone, SettingUp, Shaking, Connection
    <2>4. Alone(c)'
      BY <1>1, <1>2, <1>7, <2>1, <2>2, Finite DEF Alone, SettingUp, Shaking, NextFits, ConnInv
    <2>5. Known(c) => Known(c)'
      BY <1>1, <1>2, <1>5, <1>7, <2>1 DEF Known, Doing
    <2> QED
      BY <1>1, <1>2, <1>3, <1>5, <1>7, <2>3, <2>4, <2>5 DEF ConnInv, NextFits, Connection
  <1>10. KeepsCast(c)
    BY <1>1, <1>2, <1>5 DEF KeepsCast, Connection, ConnInv, NextFits
  <1> QED
    BY <1>1, <1>2, <1>3, <1>5, <1>6, <1>7, <1>8, <1>9, <1>10, QuietStep

LEMMA ShakeStep ==
  ASSUME IInv, NEW t \in Threads, NEW c \in Members, todo[t].c = c, shake(t)
  PROVE  IInv'
  <1>1. todo[t].op = "shake"
    BY Todo DEF shake, IInv
  <1>2. /\ t \in Io /\ ~Idle(t) /\ c \in Members /\ Of(t) = c /\ ConnInv(c)
        /\ NextFits(t, c) /\ IoJob(t) /\ con[c] \in Connection
    BY <1>1, IoBusy DEF SettingUp, Shaking
  <1>3. /\ con' = [con EXCEPT ![c].shaken = TRUE]
        /\ Then(t, <<>>) /\ clients_' = clients_
        /\ kind' = kind /\ slot' = slot /\ client_count_' = client_count_
        /\ held' = held /\ cast' = cast /\ all' = all
    BY <1>1, <1>2 DEF shake
  <1>4. Pops(t, c)
    BY <1>2, <1>3, IoDone
  <1>5. /\ con' \in [Members -> Connection]
        /\ \A d \in Members \ {c} : con'[d] = con[d]
        /\ con'[c].made = con[c].made /\ con'[c].announced = con[c].announced /\ con'[c].thrown = con[c].thrown
        /\ con'[c].closed = con[c].closed /\ con'[c].stops = con[c].stops /\ con'[c].ready = con[c].ready
        /\ con'[c].hello = con[c].hello /\ con'[c].bye = con[c].bye /\ con'[c].reading = con[c].reading
        /\ con'[c].everRead = con[c].everRead /\ con'[c].timer = con[c].timer /\ con'[c].tls = con[c].tls
        /\ con'[c].switched = con[c].switched /\ con'[c].tlsTimer = con[c].tlsTimer
    BY <1>1, <1>2, <1>3 DEF IInv, Types, Connection
  <1>6. Frame(t, c)
    BY <1>1, <1>2, <1>3, <1>4, <1>5 DEF Frame, IInv, Types, Pops
  <1>7. todo[t].c = c /\ todo'[t].c \in {c, List} /\ (todo'[t].op # "idle" => todo'[t].c = c)
        /\ todo'[t].op = "publish"
    BY <1>1, <1>2, <1>4 DEF IoJob, Pops
  <1>8. IoJob(t)'
    BY <1>1, <1>2, <1>3, <1>4, <1>7 DEF IoJob, Pops
  <1>9. ConnInv(c)' /\ (Known(c) => Known(c)')
    <2>1. \A u \in Io : u # t => todo'[u] = todo[u]
      BY <1>4, <1>6, Threading DEF Frame
    <2>2. (\A u \in Io : NextFits(u, c)) /\ Alone(c)
      BY <1>2 DEF ConnInv
    <2>3. \A u \in Io : NextFits(u, c)'
      BY <1>1, <1>2, <1>3, <1>5, <1>7, <2>1, <2>2, Finite DEF NextFits, ConnInv, Alone, SettingUp, Shaking, Connection
    <2>4. Alone(c)'
      BY <1>1, <1>2, <1>7, <2>1, <2>2, Finite DEF Alone, SettingUp, Shaking, NextFits, ConnInv
    <2>5. Known(c) => Known(c)'
      BY <1>1, <1>2, <1>5, <1>7, <2>1 DEF Known, Doing
    <2> QED
      BY <1>1, <1>2, <1>3, <1>5, <1>7, <2>3, <2>4, <2>5 DEF ConnInv, NextFits, Connection
  <1>10. KeepsCast(c)
    BY <1>1, <1>2, <1>5 DEF KeepsCast, Connection, ConnInv, NextFits
  <1> QED
    BY <1>1, <1>2, <1>3, <1>5, <1>6, <1>7, <1>8, <1>9, <1>10, QuietStep

LEMMA PublishStep ==
  ASSUME IInv, NEW t \in Threads, NEW c \in Members, todo[t].c = c, do_handshake(t)
  PROVE  IInv'
  <1>1. todo[t].op = "publish"
    BY Todo DEF do_handshake, IInv
  <1>2. /\ t \in Io /\ ~Idle(t) /\ c \in Members /\ Of(t) = c /\ ConnInv(c)
        /\ NextFits(t, c) /\ IoJob(t) /\ con[c] \in Connection
    BY <1>1, IoBusy DEF SettingUp, Shaking
  <1>3. /\ con' = [con EXCEPT ![c].switched = con[c].shaken, ![c].ready = con[c].shaken,
                           ![c].reading = TRUE]
        /\ Then(t, <<>>) /\ clients_' = clients_
        /\ kind' = kind /\ slot' = slot /\ client_count_' = client_count_
        /\ held' = held /\ cast' = cast /\ all' = all
    BY <1>1, <1>2 DEF do_handshake
  <1>4. Pops(t, c)
    BY <1>2, <1>3, IoDone
  <1>5. /\ con' \in [Members -> Connection]
        /\ \A d \in Members \ {c} : con'[d] = con[d]
        /\ con'[c].made = con[c].made /\ con'[c].announced = con[c].announced /\ con'[c].thrown = con[c].thrown
        /\ con'[c].closed = con[c].closed /\ con'[c].stops = con[c].stops /\ con'[c].ready = con[c].shaken
        /\ con'[c].hello = con[c].hello /\ con'[c].bye = con[c].bye /\ con'[c].reading = TRUE
        /\ con'[c].everRead = con[c].everRead /\ con'[c].timer = con[c].timer /\ con'[c].tls = con[c].tls
        /\ con'[c].switched = con[c].shaken /\ con'[c].tlsTimer = con[c].tlsTimer
    BY <1>1, <1>2, <1>3 DEF IInv, Types, Connection
  <1>6. Frame(t, c)
    BY <1>1, <1>2, <1>3, <1>4, <1>5 DEF Frame, IInv, Types, Pops
  <1>7. todo[t].c = c /\ todo'[t].c \in {c, List} /\ (todo'[t].op # "idle" => todo'[t].c = c)
        /\ todo'[t].op = "idle"
    BY <1>1, <1>2, <1>4 DEF IoJob, Pops
  <1>8. IoJob(t)'
    BY <1>1, <1>2, <1>3, <1>4, <1>7 DEF IoJob, Pops
  <1>9. ConnInv(c)' /\ (Known(c) => Known(c)')
    <2>1. \A u \in Io : u # t => todo'[u] = todo[u]
      BY <1>4, <1>6, Threading DEF Frame
    <2>2. (\A u \in Io : NextFits(u, c)) /\ Alone(c)
      BY <1>2 DEF ConnInv
    <2>3. \A u \in Io : NextFits(u, c)'
      BY <1>1, <1>2, <1>3, <1>5, <1>7, <2>1, <2>2, Finite DEF NextFits, ConnInv, Alone, SettingUp, Shaking, Connection
    <2>4. Alone(c)'
      BY <1>1, <1>2, <1>7, <2>1, <2>2, Finite DEF Alone, SettingUp, Shaking, NextFits, ConnInv
    <2>5. Known(c) => Known(c)'
      BY <1>1, <1>2, <1>5, <1>7, <2>1 DEF Known, Doing
    <2> QED
      BY <1>1, <1>2, <1>3, <1>5, <1>7, <2>3, <2>4, <2>5 DEF ConnInv, NextFits, Connection
  <1>10. KeepsCast(c)
    BY <1>1, <1>2, <1>5 DEF KeepsCast, Connection, ConnInv, NextFits, Shaking
  <1> QED
    BY <1>1, <1>2, <1>3, <1>5, <1>6, <1>7, <1>8, <1>9, <1>10, QuietStep

LEMMA ExpelStep ==
  ASSUME IInv, NEW t \in Threads, NEW c \in Members, todo[t].c = c, send_and_close(t)
  PROVE  IInv'
  <1>1. todo[t].op = "expel"
    BY Todo DEF send_and_close, IInv
  <1>2. /\ t \in Io /\ ~Idle(t) /\ c \in Members /\ Of(t) = c /\ ConnInv(c)
        /\ NextFits(t, c) /\ IoJob(t) /\ con[c] \in Connection
    BY <1>1, IoBusy DEF SettingUp, Shaking
  <1>3. /\ con' = IF Alive(c)
                   THEN [con EXCEPT ![c].bye = TRUE, ![c].ousted = @ \cup {"init"}] ELSE con
        /\ Then(t, <<>>) /\ clients_' = clients_
        /\ kind' = kind /\ slot' = slot /\ client_count_' = client_count_
        /\ held' = held /\ cast' = cast /\ all' = all
    BY <1>1, <1>2 DEF send_and_close
  <1>3a. clients_' = clients_ /\ kind' = kind /\ all' = all
    BY <1>3
  <1>4. Pops(t, c)
    BY <1>2, <1>3, IoDone
  <1>5. /\ con' \in [Members -> Connection]
        /\ \A d \in Members \ {c} : con'[d] = con[d]
        /\ con'[c].made = con[c].made /\ con'[c].announced = con[c].announced /\ con'[c].thrown = con[c].thrown
        /\ con'[c].closed = con[c].closed /\ con'[c].stops = con[c].stops /\ con'[c].ready = con[c].ready
        /\ con'[c].hello = con[c].hello /\ con'[c].reading = con[c].reading
        /\ con'[c].everRead = con[c].everRead /\ con'[c].timer = con[c].timer /\ con'[c].tls = con[c].tls
        /\ con'[c].switched = con[c].switched /\ con'[c].tlsTimer = con[c].tlsTimer
    BY <1>1, <1>2, <1>3 DEF IInv, Types, Connection
  <1>6. Frame(t, c)
    BY <1>1, <1>2, <1>3, <1>4, <1>5 DEF Frame, IInv, Types, Pops
  <1>7. todo[t].c = c /\ todo'[t].c \in {c, List} /\ (todo'[t].op # "idle" => todo'[t].c = c)
        /\ todo'[t].op = "idle"
    BY <1>1, <1>2, <1>4 DEF IoJob, Pops
  <1>8. IoJob(t)'
    BY <1>1, <1>2, <1>3, <1>4, <1>7 DEF IoJob, Pops
  <1>9. ConnInv(c)' /\ (Known(c) => Known(c)')
    <2>1. \A u \in Io : u # t => todo'[u] = todo[u]
      BY <1>4, <1>6, Threading DEF Frame
    <2>2. (\A u \in Io : NextFits(u, c)) /\ Alone(c)
      BY <1>2 DEF ConnInv
    <2>3. \A u \in Io : NextFits(u, c)'
      BY <1>1, <1>2, <1>3a, <1>5, <1>7, <2>1, <2>2, Finite DEF NextFits, ConnInv, Alone, SettingUp, Shaking, Connection
    <2>4. Alone(c)'
      BY <1>1, <1>2, <1>7, <2>1, <2>2, Finite DEF Alone, SettingUp, Shaking, NextFits, ConnInv
    <2>5. Known(c) => Known(c)'
      BY <1>1, <1>2, <1>5, <1>7, <2>1 DEF Known, Doing
    <2> QED
      BY <1>1, <1>2, <1>3a, <1>5, <1>7, <2>3, <2>4, <2>5 DEF ConnInv, NextFits, Connection
  <1>10. KeepsCast(c)
    BY <1>1, <1>2, <1>5 DEF KeepsCast, Connection, ConnInv, NextFits
  <1> QED
    BY <1>1, <1>2, <1>3, <1>5, <1>6, <1>7, <1>8, <1>9, <1>10, QuietStep

LEMMA StoreStep ==
  ASSUME IInv, NEW t \in Threads, NEW c \in Members, todo[t].c = c, store(t)
  PROVE  IInv'
  <1>1. todo[t].op = "store"
    BY Todo DEF store, IInv
  <1>2. /\ t \in Io /\ ~Idle(t) /\ c \in Members /\ Of(t) = c /\ ConnInv(c)
        /\ NextFits(t, c) /\ IoJob(t) /\ con[c] \in Connection
    BY <1>1, IoBusy DEF SettingUp, Shaking
  <1>3. /\ con' = con
        /\ Then(t, <<>>) /\ clients_' = clients_ \cup {c}
        /\ kind' = kind /\ slot' = slot /\ client_count_' = client_count_
        /\ held' = held /\ cast' = cast /\ all' = all
    BY <1>1, <1>2 DEF store
  <1>4. Pops(t, c)
    BY <1>2, <1>3, IoDone
  <1>5. con' = con /\ con' \in [Members -> Connection]
    BY <1>3 DEF IInv, Types
  <1>6. Frame(t, c)
    BY <1>1, <1>2, <1>3, <1>4, <1>5 DEF Frame, IInv, Types, Pops
  <1>7. todo[t].c = c /\ todo'[t].c \in {c, List} /\ (todo'[t].op # "idle" => todo'[t].c = c)
        /\ todo'[t].op = "new" /\ todo'[t].c = c
    BY <1>1, <1>2, <1>4 DEF IoJob, Pops
  <1>8. IoJob(t)'
    BY <1>1, <1>2, <1>3, <1>4, <1>7 DEF IoJob, Pops
  <1>9. ConnInv(c)' /\ (Known(c) => Known(c)')
    <2>1. \A u \in Io : u # t => todo'[u] = todo[u]
      BY <1>4, <1>6, Threading DEF Frame
    <2>2. (\A u \in Io : NextFits(u, c)) /\ Alone(c)
      BY <1>2 DEF ConnInv
    <2>3. \A u \in Io : NextFits(u, c)'
      BY <1>1, <1>2, <1>3, <1>5, <1>7, <2>1, <2>2, Finite DEF NextFits, ConnInv, Alone, SettingUp, Shaking, Connection
    <2>4. Alone(c)'
      BY <1>1, <1>2, <1>7, <2>1, <2>2, Finite DEF Alone, SettingUp, Shaking, NextFits, ConnInv
    <2>5. Known(c) => Known(c)'
      BY <1>1, <1>2, <1>5, <1>7, <2>1 DEF Known, Doing
    <2> QED
      BY <1>1, <1>2, <1>3, <1>5, <1>7, <2>3, <2>4, <2>5 DEF ConnInv, NextFits, Connection, Known, Doing
  <1>10. KeepsCast(c)
    BY <1>1, <1>2, <1>5 DEF KeepsCast, Connection, ConnInv, NextFits
  <1> QED
    BY <1>1, <1>2, <1>3, <1>5, <1>6, <1>7, <1>8, <1>9, <1>10, QuietStep

LEMMA DropStep ==
  ASSUME IInv, NEW t \in Threads, NEW c \in Members, todo[t].c = c, drop(t)
  PROVE  IInv'
  <1>1. todo[t].op = "drop"
    BY Todo DEF drop, IInv
  <1>2. /\ t \in Io /\ ~Idle(t) /\ c \in Members /\ Of(t) = c /\ ConnInv(c)
        /\ NextFits(t, c) /\ IoJob(t) /\ con[c] \in Connection
    BY <1>1, IoBusy DEF SettingUp, Shaking
  <1>3. /\ con' = con
        /\ Then(t, <<>>) /\ clients_' = clients_ \ {c}
        /\ kind' = kind /\ slot' = slot /\ client_count_' = client_count_
        /\ held' = held /\ cast' = cast /\ all' = all
    BY <1>1, <1>2 DEF drop
  <1>4. Pops(t, c)
    BY <1>2, <1>3, IoDone
  <1>5. con' = con /\ con' \in [Members -> Connection]
    BY <1>3 DEF IInv, Types
  <1>6. Frame(t, c)
    BY <1>1, <1>2, <1>3, <1>4, <1>5 DEF Frame, IInv, Types, Pops
  <1>7. todo[t].c = c /\ todo'[t].c \in {c, List} /\ (todo'[t].op # "idle" => todo'[t].c = c)
        /\ todo'[t].op = "idle"
    BY <1>1, <1>2, <1>4 DEF IoJob, Pops
  <1>8. IoJob(t)'
    BY <1>1, <1>2, <1>3, <1>4, <1>7 DEF IoJob, Pops
  <1>9. ConnInv(c)' /\ (Known(c) => Known(c)')
    <2>1. \A u \in Io : u # t => todo'[u] = todo[u]
      BY <1>4, <1>6, Threading DEF Frame
    <2>2. (\A u \in Io : NextFits(u, c)) /\ Alone(c)
      BY <1>2 DEF ConnInv
    <2>3. \A u \in Io : NextFits(u, c)'
      BY <1>1, <1>2, <1>3, <1>5, <1>7, <2>1, <2>2, Finite DEF NextFits, ConnInv, Alone, SettingUp, Shaking, Connection
    <2>4. Alone(c)'
      BY <1>1, <1>2, <1>7, <2>1, <2>2, Finite DEF Alone, SettingUp, Shaking, NextFits, ConnInv
    <2>5. Known(c) => Known(c)'
      BY <1>1, <1>2, <1>5, <1>7, <2>1 DEF Known, Doing
    <2> QED
      BY <1>1, <1>2, <1>3, <1>5, <1>7, <2>3, <2>4, <2>5 DEF ConnInv, NextFits, Connection
  <1>10. KeepsCast(c)
    BY <1>1, <1>2, <1>5 DEF KeepsCast, Connection, ConnInv, NextFits
  <1> QED
    BY <1>1, <1>2, <1>3, <1>5, <1>6, <1>7, <1>8, <1>9, <1>10, QuietStep

LEMMA TlsDoneStep ==
  ASSUME IInv, NEW t \in Io, NEW c \in Members, ssl_handshake_handler(t, c),
         Does(t, <<Op("hello", c), Op("arm", c)>>)
  PROVE  IInv'
  <1>1. Idle(t) /\ con[c].tls = "pending"
    BY DEF ssl_handshake_handler, Free
  <1>2. ConnInv(c) /\ IoJob(t) /\ NextFits(t, c) /\ con[c] \in Connection
    BY DEF IInv, Types, ConnInv
  <1>3. /\ con' = [con EXCEPT ![c].tls = "done", ![c].tlsTimer = Cancelled(@)]
        /\ Does(t, <<Op("hello", c), Op("arm", c)>>) /\ clients_' = clients_
        /\ kind' = kind /\ slot' = slot /\ client_count_' = client_count_
        /\ held' = held /\ cast' = cast /\ all' = all
    BY <1>1, <1>2 DEF ssl_handshake_handler
  <1>4. Takes(t, c, <<Op("hello", c), Op("arm", c)>>)
    BY <1>1, <1>3, TakesTwo DEF Free
  <1>4a. /\ job' \in [Threads -> Seq(Step)] /\ todo[t].c = List /\ todo'[t].c = c
        /\ \A u \in Threads \ {t} : job'[u] = job[u] /\ todo'[u] = todo[u]
    BY <1>4 DEF Takes, Op
  <1>5. /\ con' \in [Members -> Connection]
        /\ \A d \in Members \ {c} : con'[d] = con[d]
        /\ con'[c].made = con[c].made /\ con'[c].announced = con[c].announced /\ con'[c].thrown = con[c].thrown
        /\ con'[c].closed = con[c].closed /\ con'[c].stops = con[c].stops /\ con'[c].ready = con[c].ready
        /\ con'[c].hello = con[c].hello /\ con'[c].bye = con[c].bye /\ con'[c].reading = con[c].reading
        /\ con'[c].everRead = con[c].everRead /\ con'[c].timer = con[c].timer /\ con'[c].tls = "done"
        /\ con'[c].switched = con[c].switched /\ con'[c].tlsTimer = Cancelled(con[c].tlsTimer)
    BY <1>1, <1>2, <1>3 DEF IInv, Types, Connection, Cancelled
  <1>6. Frame(t, c)
    BY <1>1, <1>2, <1>3, <1>4a, <1>5 DEF Frame, IInv, Types
  <1>7. todo[t].op = "idle" /\ todo[t].c = List /\ todo'[t].c = c /\ todo'[t].op = "hello"
    BY <1>4 DEF Takes, Op
  <1>8. IoJob(t)'
    BY <1>3, <1>4, <1>7, <1>1, <1>2 DEF ConnInv, IoJob, Takes, Op
  <1>9. ConnInv(c)' /\ (Known(c) => Known(c)')
    <2>1. \A u \in Io : u # t => todo'[u] = todo[u]
      BY <1>4, <1>6, Threading DEF Frame
    <2>2. (\A u \in Io : NextFits(u, c)) /\ Alone(c)
      BY <1>2 DEF ConnInv
    <2>3. \A u \in Io : NextFits(u, c)'
      BY <1>1, <1>2, <1>3, <1>5, <1>7, <2>1, <2>2, Finite DEF NextFits, ConnInv, Alone, SettingUp, Shaking, Connection
    <2>4. Alone(c)'
      BY <1>1, <1>2, <1>7, <2>1, <2>2, Finite DEF Alone, SettingUp, Shaking, NextFits, ConnInv
    <2>5. Known(c) => Known(c)'
      BY <1>1, <1>2, <1>5, <1>7, <2>1 DEF Known, Doing
    <2> QED
      BY <1>1, <1>2, <1>3, <1>5, <1>7, <2>3, <2>4, <2>5 DEF ConnInv, NextFits, Connection, Cancelled
  <1>10. KeepsCast(c)
    BY <1>1, <1>2, <1>5 DEF KeepsCast, Connection, ConnInv, NextFits
  <1> QED
    BY <1>1, <1>2, <1>3, <1>5, <1>6, <1>7, <1>8, <1>9, <1>10, QuietStep

LEMMA TlsFailedStep ==
  ASSUME IInv, NEW t \in Io, NEW c \in Members, ssl_handshake_handler(t, c),
         Does(t, <<Op("close", c)>>)
  PROVE  IInv'
  <1>1. Idle(t) /\ con[c].tls = "pending"
    BY DEF ssl_handshake_handler, Free
  <1>2. ConnInv(c) /\ IoJob(t) /\ NextFits(t, c) /\ con[c] \in Connection
    BY DEF IInv, Types, ConnInv
  <1>3. /\ con' = [con EXCEPT ![c].tls = "done", ![c].tlsTimer = Cancelled(@)]
        /\ Does(t, <<Op("close", c)>>) /\ clients_' = clients_
        /\ kind' = kind /\ slot' = slot /\ client_count_' = client_count_
        /\ held' = held /\ cast' = cast /\ all' = all
    BY <1>1, <1>2 DEF ssl_handshake_handler
  <1>4. Takes(t, c, <<Op("close", c)>>)
    BY <1>1, <1>3, TakesOne DEF Free
  <1>4a. /\ job' \in [Threads -> Seq(Step)] /\ todo[t].c = List /\ todo'[t].c = c
        /\ \A u \in Threads \ {t} : job'[u] = job[u] /\ todo'[u] = todo[u]
    BY <1>4 DEF Takes, Op
  <1>5. /\ con' \in [Members -> Connection]
        /\ \A d \in Members \ {c} : con'[d] = con[d]
        /\ con'[c].made = con[c].made /\ con'[c].announced = con[c].announced /\ con'[c].thrown = con[c].thrown
        /\ con'[c].closed = con[c].closed /\ con'[c].stops = con[c].stops /\ con'[c].ready = con[c].ready
        /\ con'[c].hello = con[c].hello /\ con'[c].bye = con[c].bye /\ con'[c].reading = con[c].reading
        /\ con'[c].everRead = con[c].everRead /\ con'[c].timer = con[c].timer /\ con'[c].tls = "done"
        /\ con'[c].switched = con[c].switched /\ con'[c].tlsTimer = Cancelled(con[c].tlsTimer)
    BY <1>1, <1>2, <1>3 DEF IInv, Types, Connection, Cancelled
  <1>6. Frame(t, c)
    BY <1>1, <1>2, <1>3, <1>4a, <1>5 DEF Frame, IInv, Types
  <1>7. todo[t].op = "idle" /\ todo[t].c = List /\ todo'[t].c = c /\ todo'[t].op = "close"
    BY <1>4 DEF Takes, Op
  <1>8. IoJob(t)'
    BY <1>3, <1>4, <1>7 DEF IoJob, Takes, Op
  <1>9. ConnInv(c)' /\ (Known(c) => Known(c)')
    <2>1. \A u \in Io : u # t => todo'[u] = todo[u]
      BY <1>4, <1>6, Threading DEF Frame
    <2>2. (\A u \in Io : NextFits(u, c)) /\ Alone(c)
      BY <1>2 DEF ConnInv
    <2>3. \A u \in Io : NextFits(u, c)'
      BY <1>1, <1>2, <1>3, <1>5, <1>7, <2>1, <2>2, Finite DEF NextFits, ConnInv, Alone, SettingUp, Shaking, Connection
    <2>4. Alone(c)'
      BY <1>1, <1>2, <1>7, <2>1, <2>2, Finite DEF Alone, SettingUp, Shaking, NextFits, ConnInv
    <2>5. Known(c) => Known(c)'
      BY <1>1, <1>2, <1>5, <1>7, <2>1 DEF Known, Doing
    <2> QED
      BY <1>1, <1>2, <1>3, <1>5, <1>7, <2>3, <2>4, <2>5, SMTT(30) DEF ConnInv, NextFits, Connection, Cancelled
  <1>10. KeepsCast(c)
    BY <1>1, <1>2, <1>5 DEF KeepsCast, Connection, ConnInv, NextFits
  <1> QED
    BY <1>1, <1>2, <1>3, <1>5, <1>6, <1>7, <1>8, <1>9, <1>10, QuietStep

LEMMA WrittenStep ==
  ASSUME IInv, NEW t \in Io, NEW c \in Members, write_handler(t, c),
         job' = job
  PROVE  IInv'
  <1>1. Idle(t) /\ con[c].hello = "sent"
    BY DEF write_handler, Free
  <1>2. ConnInv(c) /\ IoJob(t) /\ NextFits(t, c) /\ con[c] \in Connection
    BY DEF IInv, Types, ConnInv
  <1>3. /\ con' = [con EXCEPT ![c].hello = "done", ![c].reading = TRUE, ![c].everRead = TRUE]
        /\ job' = job /\ clients_' = clients_
        /\ kind' = kind /\ slot' = slot /\ client_count_' = client_count_
        /\ held' = held /\ cast' = cast /\ all' = all
    BY <1>1, <1>2 DEF write_handler
  <1>4. job' = job /\ todo' = todo
    BY <1>3 DEF todo, Idle
  <1>5. /\ con' \in [Members -> Connection]
        /\ \A d \in Members \ {c} : con'[d] = con[d]
        /\ con'[c].made = con[c].made /\ con'[c].announced = con[c].announced /\ con'[c].thrown = con[c].thrown
        /\ con'[c].closed = con[c].closed /\ con'[c].stops = con[c].stops /\ con'[c].ready = con[c].ready
        /\ con'[c].hello = "done" /\ con'[c].bye = con[c].bye /\ con'[c].reading = TRUE
        /\ con'[c].everRead = TRUE /\ con'[c].timer = con[c].timer /\ con'[c].tls = con[c].tls
        /\ con'[c].switched = con[c].switched /\ con'[c].tlsTimer = con[c].tlsTimer
    BY <1>1, <1>2, <1>3 DEF IInv, Types, Connection
  <1>6. Frame(t, c)
    BY <1>1, <1>2, <1>3, <1>4, <1>5 DEF Frame, IInv, Types
  <1>7. todo' = todo
    BY <1>4
  <1>8. IoJob(t)'
    BY <1>2, <1>3, <1>4 DEF IoJob, Idle
  <1>9. ConnInv(c)' /\ (Known(c) => Known(c)')
    <2>1. \A u \in Io : u # t => todo'[u] = todo[u]
      BY <1>4, <1>6, Threading DEF Frame
    <2>2. (\A u \in Io : NextFits(u, c)) /\ Alone(c)
      BY <1>2 DEF ConnInv
    <2>3. \A u \in Io : NextFits(u, c)'
      BY <1>1, <1>2, <1>3, <1>5, <1>7, <2>1, <2>2, Finite DEF NextFits, ConnInv, Alone, SettingUp, Shaking, Connection
    <2>4. Alone(c)'
      BY <1>1, <1>2, <1>7, <2>1, <2>2, Finite DEF Alone, SettingUp, Shaking, NextFits, ConnInv
    <2>5. Known(c) => Known(c)'
      BY <1>1, <1>2, <1>5, <1>7, <2>1 DEF Known, Doing
    <2> QED
      BY <1>1, <1>2, <1>3, <1>5, <1>7, <2>3, <2>4, <2>5 DEF ConnInv, NextFits, Connection
  <1>10. KeepsCast(c)
    BY <1>1, <1>2, <1>5 DEF KeepsCast, Connection, ConnInv, NextFits
  <1> QED
    BY <1>1, <1>2, <1>3, <1>5, <1>6, <1>7, <1>8, <1>9, <1>10, QuietStep

LEMMA WriteFailedStep ==
  ASSUME IInv, NEW t \in Io, NEW c \in Members, write_handler(t, c),
         Does(t, <<Op("close", c)>>)
  PROVE  IInv'
  <1>1. Idle(t) /\ con[c].hello = "sent"
    BY DEF write_handler, Free
  <1>2. ConnInv(c) /\ IoJob(t) /\ NextFits(t, c) /\ con[c] \in Connection
    BY DEF IInv, Types, ConnInv
  <1>3. /\ con' = [con EXCEPT ![c].hello = "done", ![c].reading = TRUE, ![c].everRead = TRUE]
        /\ Does(t, <<Op("close", c)>>) /\ clients_' = clients_
        /\ kind' = kind /\ slot' = slot /\ client_count_' = client_count_
        /\ held' = held /\ cast' = cast /\ all' = all
    BY <1>1, <1>2 DEF write_handler
  <1>4. Takes(t, c, <<Op("close", c)>>)
    BY <1>1, <1>3, TakesOne DEF Free
  <1>4a. /\ job' \in [Threads -> Seq(Step)] /\ todo[t].c = List /\ todo'[t].c = c
        /\ \A u \in Threads \ {t} : job'[u] = job[u] /\ todo'[u] = todo[u]
    BY <1>4 DEF Takes, Op
  <1>5. /\ con' \in [Members -> Connection]
        /\ \A d \in Members \ {c} : con'[d] = con[d]
        /\ con'[c].made = con[c].made /\ con'[c].announced = con[c].announced /\ con'[c].thrown = con[c].thrown
        /\ con'[c].closed = con[c].closed /\ con'[c].stops = con[c].stops /\ con'[c].ready = con[c].ready
        /\ con'[c].hello = "done" /\ con'[c].bye = con[c].bye /\ con'[c].reading = TRUE
        /\ con'[c].everRead = TRUE /\ con'[c].timer = con[c].timer /\ con'[c].tls = con[c].tls
        /\ con'[c].switched = con[c].switched /\ con'[c].tlsTimer = con[c].tlsTimer
    BY <1>1, <1>2, <1>3 DEF IInv, Types, Connection
  <1>6. Frame(t, c)
    BY <1>1, <1>2, <1>3, <1>4a, <1>5 DEF Frame, IInv, Types
  <1>7. todo[t].op = "idle" /\ todo[t].c = List /\ todo'[t].c = c /\ todo'[t].op = "close"
    BY <1>4 DEF Takes, Op
  <1>8. IoJob(t)'
    BY <1>3, <1>4, <1>7 DEF IoJob, Takes, Op
  <1>9. ConnInv(c)' /\ (Known(c) => Known(c)')
    <2>1. \A u \in Io : u # t => todo'[u] = todo[u]
      BY <1>4, <1>6, Threading DEF Frame
    <2>2. (\A u \in Io : NextFits(u, c)) /\ Alone(c)
      BY <1>2 DEF ConnInv
    <2>3. \A u \in Io : NextFits(u, c)'
      BY <1>1, <1>2, <1>3, <1>5, <1>7, <2>1, <2>2, Finite DEF NextFits, ConnInv, Alone, SettingUp, Shaking, Connection
    <2>4. Alone(c)'
      BY <1>1, <1>2, <1>7, <2>1, <2>2, Finite DEF Alone, SettingUp, Shaking, NextFits, ConnInv
    <2>5. Known(c) => Known(c)'
      BY <1>1, <1>2, <1>5, <1>7, <2>1 DEF Known, Doing
    <2> QED
      BY <1>1, <1>2, <1>3, <1>5, <1>7, <2>3, <2>4, <2>5 DEF ConnInv, NextFits, Connection
  <1>10. KeepsCast(c)
    BY <1>1, <1>2, <1>5 DEF KeepsCast, Connection, ConnInv, NextFits
  <1> QED
    BY <1>1, <1>2, <1>3, <1>5, <1>6, <1>7, <1>8, <1>9, <1>10, QuietStep

LEMMA ReadyStep ==
  ASSUME IInv, NEW t \in Io, NEW c \in Members, set_client_ready(t, c)
  PROVE  IInv'
  <1>1. Idle(t) /\ con[c].reading /\ ~con[c].switched
    BY DEF set_client_ready, Free
  <1>2. ConnInv(c) /\ IoJob(t) /\ NextFits(t, c) /\ con[c] \in Connection
    BY DEF IInv, Types, ConnInv
  <1>3. /\ con' = [con EXCEPT ![c].reading = FALSE, ![c].timer = Cancelled(@)]
        /\ Does(t, <<Op("shake", c), Op("publish", c)>>) /\ clients_' = clients_
        /\ kind' = kind /\ slot' = slot /\ client_count_' = client_count_
        /\ held' = held /\ cast' = cast /\ all' = all
    BY <1>1, <1>2 DEF set_client_ready
  <1>4. Takes(t, c, <<Op("shake", c), Op("publish", c)>>)
    BY <1>1, <1>3, TakesTwo DEF Free
  <1>4a. /\ job' \in [Threads -> Seq(Step)] /\ todo[t].c = List /\ todo'[t].c = c
        /\ \A u \in Threads \ {t} : job'[u] = job[u] /\ todo'[u] = todo[u]
    BY <1>4 DEF Takes, Op
  <1>5. /\ con' \in [Members -> Connection]
        /\ \A d \in Members \ {c} : con'[d] = con[d]
        /\ con'[c].made = con[c].made /\ con'[c].announced = con[c].announced /\ con'[c].thrown = con[c].thrown
        /\ con'[c].closed = con[c].closed /\ con'[c].stops = con[c].stops /\ con'[c].ready = con[c].ready
        /\ con'[c].hello = con[c].hello /\ con'[c].bye = con[c].bye /\ con'[c].reading = FALSE
        /\ con'[c].everRead = con[c].everRead /\ con'[c].timer = Cancelled(con[c].timer) /\ con'[c].tls = con[c].tls
        /\ con'[c].switched = con[c].switched /\ con'[c].tlsTimer = con[c].tlsTimer
    <2>1. con \in [Members -> Connection] /\ con[c] \in Connection
      BY <1>2 DEF IInv, Types
    <2>2. con'[c] = [con[c] EXCEPT !.reading = FALSE, !.timer = Cancelled(con[c].timer)]
      BY <1>3, <2>1 DEF Connection
    <2>3. con'[c] \in Connection
      BY <2>1, <2>2 DEF Connection, Cancelled
    <2>4. \A d \in Members \ {c} : con'[d] = con[d]
      BY <1>3, <2>1
    <2>5. con' \in [Members -> Connection]
      BY <1>3, <2>1, <2>3, <2>4
    <2>6. /\ con'[c].made = con[c].made /\ con'[c].announced = con[c].announced /\ con'[c].thrown = con[c].thrown
          /\ con'[c].closed = con[c].closed /\ con'[c].stops = con[c].stops /\ con'[c].ready = con[c].ready
          /\ con'[c].hello = con[c].hello /\ con'[c].bye = con[c].bye /\ con'[c].reading = FALSE
          /\ con'[c].everRead = con[c].everRead /\ con'[c].timer = Cancelled(con[c].timer) /\ con'[c].tls = con[c].tls
          /\ con'[c].switched = con[c].switched /\ con'[c].tlsTimer = con[c].tlsTimer
      BY <2>1, <2>2 DEF Connection
    <2> QED
      BY <2>4, <2>5, <2>6
  <1>6. Frame(t, c)
    BY <1>1, <1>2, <1>3, <1>4a, <1>5 DEF Frame, IInv, Types
  <1>7. todo[t].op = "idle" /\ todo[t].c = List /\ todo'[t].c = c /\ todo'[t].op = "shake"
    BY <1>4 DEF Takes, Op
  <1>8. IoJob(t)'
    BY <1>3, <1>4, <1>7 DEF IoJob, Takes, Op
  <1>9. ConnInv(c)' /\ (Known(c) => Known(c)')
    <2>1. \A u \in Io : u # t => todo'[u] = todo[u]
      BY <1>4, <1>6, Threading DEF Frame
    <2>2. (\A u \in Io : NextFits(u, c)) /\ Alone(c)
      BY <1>2 DEF ConnInv
    <2>3. \A u \in Io : NextFits(u, c)'
      BY <1>1, <1>2, <1>3, <1>5, <1>7, <2>1, <2>2, Finite DEF NextFits, ConnInv, Alone, SettingUp, Shaking, Connection
    <2>4. Alone(c)'
      BY <1>1, <1>2, <1>7, <2>1, <2>2, Finite DEF Alone, SettingUp, Shaking, NextFits, ConnInv
    <2>5. Known(c) => Known(c)'
      BY <1>1, <1>2, <1>5, <1>7, <2>1 DEF Known, Doing
    <2> QED
      BY <1>1, <1>2, <1>3, <1>5, <1>7, <2>3, <2>4, <2>5 DEF ConnInv, NextFits, Connection, Cancelled
  <1>10. KeepsCast(c)
    BY <1>1, <1>2, <1>5 DEF KeepsCast, Connection, ConnInv, NextFits
  <1> QED
    BY <1>1, <1>2, <1>3, <1>5, <1>6, <1>7, <1>8, <1>9, <1>10, QuietStep

LEMMA NoParseStep ==
  ASSUME IInv, NEW t \in Io, NEW c \in Members, get_pop_message(t, c)
  PROVE  IInv'
  <1>1. Idle(t) /\ con[c].reading
    BY DEF get_pop_message, Free
  <1>2. ConnInv(c) /\ IoJob(t) /\ NextFits(t, c) /\ con[c] \in Connection
    BY DEF IInv, Types, ConnInv
  <1>3. /\ con' = con
        /\ Does(t, <<Op("close", c)>>) /\ clients_' = clients_
        /\ kind' = kind /\ slot' = slot /\ client_count_' = client_count_
        /\ held' = held /\ cast' = cast /\ all' = all
    BY <1>1, <1>2 DEF get_pop_message
  <1>4. Takes(t, c, <<Op("close", c)>>)
    BY <1>1, <1>3, TakesOne DEF Free
  <1>4a. /\ job' \in [Threads -> Seq(Step)] /\ todo[t].c = List /\ todo'[t].c = c
        /\ \A u \in Threads \ {t} : job'[u] = job[u] /\ todo'[u] = todo[u]
    BY <1>4 DEF Takes, Op
  <1>5. con' = con /\ con' \in [Members -> Connection]
    BY <1>3 DEF IInv, Types
  <1>6. Frame(t, c)
    BY <1>1, <1>2, <1>3, <1>4a, <1>5 DEF Frame, IInv, Types
  <1>7. todo[t].op = "idle" /\ todo[t].c = List /\ todo'[t].c = c /\ todo'[t].op = "close"
    BY <1>4 DEF Takes, Op
  <1>8. IoJob(t)'
    BY <1>3, <1>4, <1>7 DEF IoJob, Takes, Op
  <1>9. ConnInv(c)' /\ (Known(c) => Known(c)')
    <2>1. \A u \in Io : u # t => todo'[u] = todo[u]
      BY <1>4, <1>6, Threading DEF Frame
    <2>2. (\A u \in Io : NextFits(u, c)) /\ Alone(c)
      BY <1>2 DEF ConnInv
    <2>3. \A u \in Io : NextFits(u, c)'
      BY <1>1, <1>2, <1>3, <1>5, <1>7, <2>1, <2>2, Finite DEF NextFits, ConnInv, Alone, SettingUp, Shaking, Connection
    <2>4. Alone(c)'
      BY <1>1, <1>2, <1>7, <2>1, <2>2, Finite DEF Alone, SettingUp, Shaking, NextFits, ConnInv
    <2>5. Known(c) => Known(c)'
      BY <1>1, <1>2, <1>5, <1>7, <2>1 DEF Known, Doing
    <2> QED
      BY <1>1, <1>2, <1>3, <1>5, <1>7, <2>3, <2>4, <2>5 DEF ConnInv, NextFits, Connection
  <1>10. KeepsCast(c)
    BY <1>1, <1>2, <1>5 DEF KeepsCast, Connection, ConnInv, NextFits
  <1> QED
    BY <1>1, <1>2, <1>3, <1>5, <1>6, <1>7, <1>8, <1>9, <1>10, QuietStep

LEMMA ReadErrorStep ==
  ASSUME IInv, NEW t \in Io, NEW c \in Members, read_handler(t, c)
  PROVE  IInv'
  <1>1. Idle(t) /\ con[c].reading
    BY DEF read_handler, Free
  <1>2. ConnInv(c) /\ IoJob(t) /\ NextFits(t, c) /\ con[c] \in Connection
    BY DEF IInv, Types, ConnInv
  <1>3. /\ con' = [con EXCEPT ![c].reading = FALSE, ![c].ready = FALSE]
        /\ Does(t, <<Op("close", c), Op("drop", c)>>) /\ clients_' = clients_
        /\ kind' = kind /\ slot' = slot /\ client_count_' = client_count_
        /\ held' = held /\ cast' = cast /\ all' = all
    BY <1>1, <1>2 DEF read_handler
  <1>4. Takes(t, c, <<Op("close", c), Op("drop", c)>>)
    BY <1>1, <1>3, TakesTwo DEF Free
  <1>4a. /\ job' \in [Threads -> Seq(Step)] /\ todo[t].c = List /\ todo'[t].c = c
        /\ \A u \in Threads \ {t} : job'[u] = job[u] /\ todo'[u] = todo[u]
    BY <1>4 DEF Takes, Op
  <1>5. /\ con' \in [Members -> Connection]
        /\ \A d \in Members \ {c} : con'[d] = con[d]
        /\ con'[c].made = con[c].made /\ con'[c].announced = con[c].announced /\ con'[c].thrown = con[c].thrown
        /\ con'[c].closed = con[c].closed /\ con'[c].stops = con[c].stops /\ con'[c].ready = FALSE
        /\ con'[c].hello = con[c].hello /\ con'[c].bye = con[c].bye /\ con'[c].reading = FALSE
        /\ con'[c].everRead = con[c].everRead /\ con'[c].timer = con[c].timer /\ con'[c].tls = con[c].tls
        /\ con'[c].switched = con[c].switched /\ con'[c].tlsTimer = con[c].tlsTimer
    <2>1. con \in [Members -> Connection]
      BY DEF IInv, Types
    <2>2. con' = [con EXCEPT ![c].reading = FALSE, ![c].ready = FALSE]
      BY <1>3
    <2> QED
      BY <1>1, <1>2, <2>1, <2>2 DEF Connection
  <1>6. Frame(t, c)
    BY <1>1, <1>2, <1>3, <1>4a, <1>5 DEF Frame, IInv, Types
  <1>7. todo[t].op = "idle" /\ todo[t].c = List /\ todo'[t].c = c /\ todo'[t].op = "close"
    BY <1>4 DEF Takes, Op
  <1>8. IoJob(t)'
    BY <1>3, <1>4, <1>7 DEF IoJob, Takes, Op
  <1>9. ConnInv(c)' /\ (Known(c) => Known(c)')
    <2>1. \A u \in Io : u # t => todo'[u] = todo[u]
      BY <1>4, <1>6, Threading DEF Frame
    <2>2. (\A u \in Io : NextFits(u, c)) /\ Alone(c)
      BY <1>2 DEF ConnInv
    <2>3. \A u \in Io : NextFits(u, c)'
      BY <1>1, <1>2, <1>3, <1>5, <1>7, <2>1, <2>2, Finite DEF NextFits, ConnInv, Alone, SettingUp, Shaking, Connection
    <2>4. Alone(c)'
      BY <1>1, <1>2, <1>7, <2>1, <2>2, Finite DEF Alone, SettingUp, Shaking, NextFits, ConnInv
    <2>5. Known(c) => Known(c)'
      BY <1>1, <1>2, <1>5, <1>7, <2>1 DEF Known, Doing
    <2> QED
      BY <1>1, <1>2, <1>3, <1>5, <1>7, <2>3, <2>4, <2>5 DEF ConnInv, NextFits, Connection
  <1>10. KeepsCast(c)
    BY <1>1, <1>2, <1>5 DEF KeepsCast, Connection, ConnInv, NextFits
  <1> QED
    BY <1>1, <1>2, <1>3, <1>5, <1>6, <1>7, <1>8, <1>9, <1>10, QuietStep

LEMMA TimeoutStep ==
  ASSUME IInv, NEW t \in Io, NEW c \in Members, on_init_timeout(t, c),
         Alive(c) /\ ~con[c].shaken
  PROVE  IInv'
  <1>1. Idle(t) /\ con[c].timer = "due"
    BY DEF on_init_timeout, Free
  <1>2. ConnInv(c) /\ IoJob(t) /\ NextFits(t, c) /\ con[c] \in Connection
    BY DEF IInv, Types, ConnInv
  <1>3. /\ con' = [con EXCEPT ![c].timer = "off"]
        /\ Does(t, <<Op("expel", c)>>) /\ clients_' = clients_
        /\ kind' = kind /\ slot' = slot /\ client_count_' = client_count_
        /\ held' = held /\ cast' = cast /\ all' = all
    BY <1>1, <1>2 DEF on_init_timeout
  <1>4. Takes(t, c, <<Op("expel", c)>>)
    BY <1>1, <1>3, TakesOne DEF Free
  <1>4a. /\ job' \in [Threads -> Seq(Step)] /\ todo[t].c = List /\ todo'[t].c = c
        /\ \A u \in Threads \ {t} : job'[u] = job[u] /\ todo'[u] = todo[u]
    BY <1>4 DEF Takes, Op
  <1>5. /\ con' \in [Members -> Connection]
        /\ \A d \in Members \ {c} : con'[d] = con[d]
        /\ con'[c].made = con[c].made /\ con'[c].announced = con[c].announced /\ con'[c].thrown = con[c].thrown
        /\ con'[c].closed = con[c].closed /\ con'[c].stops = con[c].stops /\ con'[c].ready = con[c].ready
        /\ con'[c].hello = con[c].hello /\ con'[c].bye = con[c].bye /\ con'[c].reading = con[c].reading
        /\ con'[c].everRead = con[c].everRead /\ con'[c].timer = "off" /\ con'[c].tls = con[c].tls
        /\ con'[c].switched = con[c].switched /\ con'[c].tlsTimer = con[c].tlsTimer
    BY <1>1, <1>2, <1>3 DEF IInv, Types, Connection
  <1>6. Frame(t, c)
    BY <1>1, <1>2, <1>3, <1>4a, <1>5 DEF Frame, IInv, Types
  <1>7. todo[t].op = "idle" /\ todo[t].c = List /\ todo'[t].c = c /\ todo'[t].op = "expel"
    BY <1>4 DEF Takes, Op
  <1>8. IoJob(t)'
    BY <1>3, <1>4, <1>7 DEF IoJob, Takes, Op
  <1>9. ConnInv(c)' /\ (Known(c) => Known(c)')
    <2>1. \A u \in Io : u # t => todo'[u] = todo[u]
      BY <1>4, <1>6, Threading DEF Frame
    <2>2. (\A u \in Io : NextFits(u, c)) /\ Alone(c)
      BY <1>2 DEF ConnInv
    <2>3. \A u \in Io : NextFits(u, c)'
      BY <1>1, <1>2, <1>3, <1>5, <1>7, <2>1, <2>2, Finite DEF NextFits, ConnInv, Alone, SettingUp, Shaking, Connection
    <2>4. Alone(c)'
      BY <1>1, <1>2, <1>7, <2>1, <2>2, Finite DEF Alone, SettingUp, Shaking, NextFits, ConnInv
    <2>5. Known(c) => Known(c)'
      BY <1>1, <1>2, <1>5, <1>7, <2>1 DEF Known, Doing
    <2> QED
      BY <1>1, <1>2, <1>3, <1>5, <1>7, <2>3, <2>4, <2>5 DEF ConnInv, NextFits, Connection
  <1>10. KeepsCast(c)
    BY <1>1, <1>2, <1>5 DEF KeepsCast, Connection, ConnInv, NextFits
  <1> QED
    BY <1>1, <1>2, <1>3, <1>5, <1>6, <1>7, <1>8, <1>9, <1>10, QuietStep

LEMMA NoTimeoutStep ==
  ASSUME IInv, NEW t \in Io, NEW c \in Members, on_init_timeout(t, c),
         ~(Alive(c) /\ ~con[c].shaken)
  PROVE  IInv'
  <1>1. Idle(t) /\ con[c].timer = "due"
    BY DEF on_init_timeout, Free
  <1>2. ConnInv(c) /\ IoJob(t) /\ NextFits(t, c) /\ con[c] \in Connection
    BY DEF IInv, Types, ConnInv
  <1>3. /\ con' = [con EXCEPT ![c].timer = "off"]
        /\ job' = job /\ clients_' = clients_
        /\ kind' = kind /\ slot' = slot /\ client_count_' = client_count_
        /\ held' = held /\ cast' = cast /\ all' = all
    BY <1>1, <1>2, DoesNothing, Threading DEF on_init_timeout, IInv
  <1>4. job' = job /\ todo' = todo
    BY <1>3 DEF todo, Idle
  <1>5. /\ con' \in [Members -> Connection]
        /\ \A d \in Members \ {c} : con'[d] = con[d]
        /\ con'[c].made = con[c].made /\ con'[c].announced = con[c].announced /\ con'[c].thrown = con[c].thrown
        /\ con'[c].closed = con[c].closed /\ con'[c].stops = con[c].stops /\ con'[c].ready = con[c].ready
        /\ con'[c].hello = con[c].hello /\ con'[c].bye = con[c].bye /\ con'[c].reading = con[c].reading
        /\ con'[c].everRead = con[c].everRead /\ con'[c].timer = "off" /\ con'[c].tls = con[c].tls
        /\ con'[c].switched = con[c].switched /\ con'[c].tlsTimer = con[c].tlsTimer
    BY <1>1, <1>2, <1>3 DEF IInv, Types, Connection
  <1>6. Frame(t, c)
    BY <1>1, <1>2, <1>3, <1>4, <1>5 DEF Frame, IInv, Types
  <1>7. todo' = todo
    BY <1>4
  <1>8. IoJob(t)'
    BY <1>2, <1>3, <1>4 DEF IoJob, Idle
  <1>9. ConnInv(c)' /\ (Known(c) => Known(c)')
    <2>1. \A u \in Io : u # t => todo'[u] = todo[u]
      BY <1>4, <1>6, Threading DEF Frame
    <2>2. (\A u \in Io : NextFits(u, c)) /\ Alone(c)
      BY <1>2 DEF ConnInv
    <2>3. \A u \in Io : NextFits(u, c)'
      BY <1>1, <1>2, <1>3, <1>5, <1>7, <2>1, <2>2, Finite DEF NextFits, ConnInv, Alone, SettingUp, Shaking, Connection
    <2>4. Alone(c)'
      BY <1>1, <1>2, <1>7, <2>1, <2>2, Finite DEF Alone, SettingUp, Shaking, NextFits, ConnInv
    <2>5. Known(c) => Known(c)'
      BY <1>1, <1>2, <1>5, <1>7, <2>1 DEF Known, Doing
    <2> QED
      BY <1>1, <1>2, <1>3, <1>5, <1>7, <2>3, <2>4, <2>5 DEF ConnInv, NextFits, Connection
  <1>10. KeepsCast(c)
    BY <1>1, <1>2, <1>5 DEF KeepsCast, Connection, ConnInv, NextFits
  <1> QED
    BY <1>1, <1>2, <1>3, <1>5, <1>6, <1>7, <1>8, <1>9, <1>10, QuietStep

LEMMA TlsTimeoutStep ==
  ASSUME IInv, NEW t \in Io, NEW c \in Members, on_init_timeout_ssl(t, c),
         Alive(c)
  PROVE  IInv'
  <1>1. Idle(t) /\ con[c].tlsTimer = "due"
    BY DEF on_init_timeout_ssl, Free
  <1>2. ConnInv(c) /\ IoJob(t) /\ NextFits(t, c) /\ con[c] \in Connection
    BY DEF IInv, Types, ConnInv
  <1>3. /\ con' = [con EXCEPT ![c].tlsTimer = "off", ![c].ousted = @ \cup {"tls"}]
        /\ Does(t, <<Op("close", c)>>) /\ clients_' = clients_
        /\ kind' = kind /\ slot' = slot /\ client_count_' = client_count_
        /\ held' = held /\ cast' = cast /\ all' = all
    BY <1>1, <1>2 DEF on_init_timeout_ssl
  <1>4. Takes(t, c, <<Op("close", c)>>)
    BY <1>1, <1>3, TakesOne DEF Free
  <1>4a. /\ job' \in [Threads -> Seq(Step)] /\ todo[t].c = List /\ todo'[t].c = c
        /\ \A u \in Threads \ {t} : job'[u] = job[u] /\ todo'[u] = todo[u]
    BY <1>4 DEF Takes, Op
  <1>5. /\ con' \in [Members -> Connection]
        /\ \A d \in Members \ {c} : con'[d] = con[d]
        /\ con'[c].made = con[c].made /\ con'[c].announced = con[c].announced /\ con'[c].thrown = con[c].thrown
        /\ con'[c].closed = con[c].closed /\ con'[c].stops = con[c].stops /\ con'[c].ready = con[c].ready
        /\ con'[c].hello = con[c].hello /\ con'[c].bye = con[c].bye /\ con'[c].reading = con[c].reading
        /\ con'[c].everRead = con[c].everRead /\ con'[c].timer = con[c].timer /\ con'[c].tls = con[c].tls
        /\ con'[c].switched = con[c].switched /\ con'[c].tlsTimer = "off"
    BY <1>1, <1>2, <1>3 DEF IInv, Types, Connection
  <1>6. Frame(t, c)
    BY <1>1, <1>2, <1>3, <1>4a, <1>5 DEF Frame, IInv, Types
  <1>7. todo[t].op = "idle" /\ todo[t].c = List /\ todo'[t].c = c /\ todo'[t].op = "close"
    BY <1>4 DEF Takes, Op
  <1>8. IoJob(t)'
    BY <1>3, <1>4, <1>7 DEF IoJob, Takes, Op
  <1>9. ConnInv(c)' /\ (Known(c) => Known(c)')
    <2>1. \A u \in Io : u # t => todo'[u] = todo[u]
      BY <1>4, <1>6, Threading DEF Frame
    <2>2. (\A u \in Io : NextFits(u, c)) /\ Alone(c)
      BY <1>2 DEF ConnInv
    <2>3. \A u \in Io : NextFits(u, c)'
      BY <1>1, <1>2, <1>3, <1>5, <1>7, <2>1, <2>2, Finite DEF NextFits, ConnInv, Alone, SettingUp, Shaking, Connection
    <2>4. Alone(c)'
      BY <1>1, <1>2, <1>7, <2>1, <2>2, Finite DEF Alone, SettingUp, Shaking, NextFits, ConnInv
    <2>5. Known(c) => Known(c)'
      BY <1>1, <1>2, <1>5, <1>7, <2>1 DEF Known, Doing
    <2> QED
      BY <1>1, <1>2, <1>3, <1>5, <1>7, <2>3, <2>4, <2>5 DEF ConnInv, NextFits, Connection
  <1>10. KeepsCast(c)
    BY <1>1, <1>2, <1>5 DEF KeepsCast, Connection, ConnInv, NextFits
  <1> QED
    BY <1>1, <1>2, <1>3, <1>5, <1>6, <1>7, <1>8, <1>9, <1>10, QuietStep

LEMMA TlsFreedStep ==
  ASSUME IInv, NEW t \in Io, NEW c \in Members, on_init_timeout_ssl(t, c),
         ~Alive(c)
  PROVE  IInv'
  <1>1. Idle(t) /\ con[c].tlsTimer = "due"
    BY DEF on_init_timeout_ssl, Free
  <1>2. ConnInv(c) /\ IoJob(t) /\ NextFits(t, c) /\ con[c] \in Connection
    BY DEF IInv, Types, ConnInv
  <1>3. /\ con' = [con EXCEPT ![c].tlsTimer = "off"]
        /\ job' = job /\ clients_' = clients_
        /\ kind' = kind /\ slot' = slot /\ client_count_' = client_count_
        /\ held' = held /\ cast' = cast /\ all' = all
    BY <1>1, <1>2, DoesNothing, Threading DEF on_init_timeout_ssl, IInv
  <1>4. job' = job /\ todo' = todo
    BY <1>3 DEF todo, Idle
  <1>5. /\ con' \in [Members -> Connection]
        /\ \A d \in Members \ {c} : con'[d] = con[d]
        /\ con'[c].made = con[c].made /\ con'[c].announced = con[c].announced /\ con'[c].thrown = con[c].thrown
        /\ con'[c].closed = con[c].closed /\ con'[c].stops = con[c].stops /\ con'[c].ready = con[c].ready
        /\ con'[c].hello = con[c].hello /\ con'[c].bye = con[c].bye /\ con'[c].reading = con[c].reading
        /\ con'[c].everRead = con[c].everRead /\ con'[c].timer = con[c].timer /\ con'[c].tls = con[c].tls
        /\ con'[c].switched = con[c].switched /\ con'[c].tlsTimer = "off"
    BY <1>1, <1>2, <1>3 DEF IInv, Types, Connection
  <1>6. Frame(t, c)
    BY <1>1, <1>2, <1>3, <1>4, <1>5 DEF Frame, IInv, Types
  <1>7. todo' = todo
    BY <1>4
  <1>8. IoJob(t)'
    BY <1>2, <1>3, <1>4 DEF IoJob, Idle
  <1>9. ConnInv(c)' /\ (Known(c) => Known(c)')
    <2>1. \A u \in Io : u # t => todo'[u] = todo[u]
      BY <1>4, <1>6, Threading DEF Frame
    <2>2. (\A u \in Io : NextFits(u, c)) /\ Alone(c)
      BY <1>2 DEF ConnInv
    <2>3. \A u \in Io : NextFits(u, c)'
      BY <1>1, <1>2, <1>3, <1>5, <1>7, <2>1, <2>2, Finite DEF NextFits, ConnInv, Alone, SettingUp, Shaking, Connection
    <2>4. Alone(c)'
      BY <1>1, <1>2, <1>7, <2>1, <2>2, Finite DEF Alone, SettingUp, Shaking, NextFits, ConnInv
    <2>5. Known(c) => Known(c)'
      BY <1>1, <1>2, <1>5, <1>7, <2>1 DEF Known, Doing
    <2> QED
      BY <1>1, <1>2, <1>3, <1>5, <1>7, <2>3, <2>4, <2>5 DEF ConnInv, NextFits, Connection
  <1>10. KeepsCast(c)
    BY <1>1, <1>2, <1>5 DEF KeepsCast, Connection, ConnInv, NextFits
  <1> QED
    BY <1>1, <1>2, <1>3, <1>5, <1>6, <1>7, <1>8, <1>9, <1>10, QuietStep

\* What close_client and an expiring timer leave of a connection.
Byed(x, y, b) == y = [x EXCEPT !.bye = FALSE, !.shaken = b]
InitLate(x, y, l) == y = [x EXCEPT !.timer = "due", !.late = l]
TlsLate(x, y, l) == y = [x EXCEPT !.tlsTimer = "due", !.late = l]

ByeKeeps(x, y) ==
  /\ y.bye = FALSE /\ y.timer = x.timer /\ y.tlsTimer = x.tlsTimer
  /\ y.made = x.made /\ y.announced = x.announced /\ y.thrown = x.thrown
  /\ y.closed = x.closed /\ y.stops = x.stops /\ y.ready = x.ready
  /\ y.hello = x.hello /\ y.reading = x.reading /\ y.everRead = x.everRead
  /\ y.tls = x.tls /\ y.switched = x.switched

LEMMA ByeFields ==
  ASSUME NEW x \in Connection, NEW y, NEW b \in BOOLEAN, Byed(x, y, b)
  PROVE  y \in Connection /\ ByeKeeps(x, y)
  BY DEF Connection, Byed, ByeKeeps

LEMMA InitLateFields ==
  ASSUME NEW x \in Connection, NEW y, NEW l \in SUBSET {"tls", "init"}, InitLate(x, y, l)
  PROVE  /\ y \in Connection /\ y.bye = x.bye
         /\ y.made = x.made /\ y.announced = x.announced /\ y.thrown = x.thrown
         /\ y.closed = x.closed /\ y.stops = x.stops /\ y.ready = x.ready
         /\ y.hello = x.hello /\ y.reading = x.reading /\ y.everRead = x.everRead
         /\ y.tls = x.tls /\ y.switched = x.switched
  <1>1. y \in Connection
    BY DEF Connection, InitLate
  <1>2. /\ y.bye = x.bye
        /\ y.made = x.made /\ y.announced = x.announced /\ y.thrown = x.thrown
         /\ y.closed = x.closed /\ y.stops = x.stops /\ y.ready = x.ready
         /\ y.hello = x.hello /\ y.reading = x.reading /\ y.everRead = x.everRead
         /\ y.tls = x.tls /\ y.switched = x.switched
    BY DEF Connection, InitLate
  <1> QED
    BY <1>1, <1>2

LEMMA TlsLateFields ==
  ASSUME NEW x \in Connection, NEW y, NEW l \in SUBSET {"tls", "init"}, TlsLate(x, y, l)
  PROVE  /\ y \in Connection /\ y.bye = x.bye
         /\ y.made = x.made /\ y.announced = x.announced /\ y.thrown = x.thrown
         /\ y.closed = x.closed /\ y.stops = x.stops /\ y.ready = x.ready
         /\ y.hello = x.hello /\ y.reading = x.reading /\ y.everRead = x.everRead
         /\ y.tls = x.tls /\ y.switched = x.switched
  <1>1. y \in Connection
    BY DEF Connection, TlsLate
  <1>2. /\ y.bye = x.bye
        /\ y.made = x.made /\ y.announced = x.announced /\ y.thrown = x.thrown
         /\ y.closed = x.closed /\ y.stops = x.stops /\ y.ready = x.ready
         /\ y.hello = x.hello /\ y.reading = x.reading /\ y.everRead = x.everRead
         /\ y.tls = x.tls /\ y.switched = x.switched
    BY DEF Connection, TlsLate
  <1> QED
    BY <1>1, <1>2

LEMMA LateTypes ==
  ASSUME NEW x \in Connection
  PROVE  /\ (IF x.shaken THEN x.late ELSE x.late \cup {"init"}) \in SUBSET {"tls", "init"}
         /\ (IF x.tls = "done" THEN x.late ELSE x.late \cup {"tls"}) \in SUBSET {"tls", "init"}
  BY DEF Connection

LEMMA CloseClientStep ==
  ASSUME IInv, NEW t \in Io, NEW c \in Members, close_client(t, c),
         ~con[c].closed
  PROVE  IInv'
  <1>1. Idle(t) /\ con[c].bye
    BY DEF close_client, Free
  <1>2. ConnInv(c) /\ IoJob(t) /\ NextFits(t, c) /\ con[c] \in Connection
    BY DEF IInv, Types, ConnInv
  <1>3. /\ con' = [con EXCEPT ![c].bye = FALSE, ![c].shaken = @ /\ con[c].closed]
        /\ Does(t, <<Op("close", c)>>) /\ clients_' = clients_
        /\ kind' = kind /\ slot' = slot /\ client_count_' = client_count_
        /\ held' = held /\ cast' = cast /\ all' = all
    BY <1>1, <1>2 DEF close_client
  <1>4. Takes(t, c, <<Op("close", c)>>)
    BY <1>1, <1>3, TakesOne DEF Free
  <1>4a. /\ job' \in [Threads -> Seq(Step)] /\ todo[t].c = List /\ todo'[t].c = c
        /\ \A u \in Threads \ {t} : job'[u] = job[u] /\ todo'[u] = todo[u]
    BY <1>4 DEF Takes, Op
  <1>5. /\ con' \in [Members -> Connection]
        /\ \A d \in Members \ {c} : con'[d] = con[d]
        /\ con'[c].made = con[c].made /\ con'[c].announced = con[c].announced /\ con'[c].thrown = con[c].thrown
        /\ con'[c].closed = con[c].closed /\ con'[c].stops = con[c].stops /\ con'[c].ready = con[c].ready
        /\ con'[c].hello = con[c].hello /\ con'[c].bye = FALSE /\ con'[c].reading = con[c].reading
        /\ con'[c].everRead = con[c].everRead /\ con'[c].timer = con[c].timer /\ con'[c].tls = con[c].tls
        /\ con'[c].switched = con[c].switched /\ con'[c].tlsTimer = con[c].tlsTimer
    <2>1. con \in [Members -> Connection] /\ con[c] \in Connection
      BY <1>2 DEF IInv, Types
    <2>2. PICK b \in BOOLEAN : b = (con[c].shaken /\ con[c].closed)
      BY Zenon
    <2>2a. Byed(con[c], con'[c], b)
      BY <1>3, <2>1, <2>2 DEF Connection, Byed
    <2>2b. con[c] \in Connection /\ b \in BOOLEAN
      BY <2>1, <2>2
    <2>3. con'[c] \in Connection /\ ByeKeeps(con[c], con'[c])
      BY <2>2a, <2>2b, ByeFields
    <2>4. \A d \in Members \ {c} : con'[d] = con[d]
      BY <1>3, <2>1
    <2>5. con' \in [Members -> Connection]
      BY <1>3, <2>1, <2>3, <2>4
    <2>6. /\ con'[c].made = con[c].made /\ con'[c].announced = con[c].announced /\ con'[c].thrown = con[c].thrown
          /\ con'[c].closed = con[c].closed /\ con'[c].stops = con[c].stops /\ con'[c].ready = con[c].ready
          /\ con'[c].hello = con[c].hello /\ con'[c].bye = FALSE /\ con'[c].reading = con[c].reading
          /\ con'[c].everRead = con[c].everRead /\ con'[c].timer = con[c].timer /\ con'[c].tls = con[c].tls
          /\ con'[c].switched = con[c].switched /\ con'[c].tlsTimer = con[c].tlsTimer
      BY <2>3 DEF ByeKeeps
    <2> QED
      BY <2>4, <2>5, <2>6
  <1>6. Frame(t, c)
    BY <1>1, <1>2, <1>3, <1>4a, <1>5 DEF Frame, IInv, Types
  <1>7. todo[t].op = "idle" /\ todo[t].c = List /\ todo'[t].c = c /\ todo'[t].op = "close"
    BY <1>4 DEF Takes, Op
  <1>8. IoJob(t)'
    BY <1>3, <1>4, <1>7 DEF IoJob, Takes, Op
  <1>9. ConnInv(c)' /\ (Known(c) => Known(c)')
    <2>1. \A u \in Io : u # t => todo'[u] = todo[u]
      BY <1>4, <1>6, Threading DEF Frame
    <2>2. (\A u \in Io : NextFits(u, c)) /\ Alone(c)
      BY <1>2 DEF ConnInv
    <2>3. \A u \in Io : NextFits(u, c)'
      BY <1>1, <1>2, <1>3, <1>5, <1>7, <2>1, <2>2, Finite DEF NextFits, ConnInv, Alone, SettingUp, Shaking, Connection
    <2>4. Alone(c)'
      BY <1>1, <1>2, <1>7, <2>1, <2>2, Finite DEF Alone, SettingUp, Shaking, NextFits, ConnInv
    <2>5. Known(c) => Known(c)'
      BY <1>1, <1>2, <1>5, <1>7, <2>1 DEF Known, Doing
    <2> QED
      BY <1>1, <1>2, <1>3, <1>5, <1>7, <2>3, <2>4, <2>5 DEF ConnInv, NextFits, Connection
  <1>10. KeepsCast(c)
    BY <1>1, <1>2, <1>5 DEF KeepsCast, Connection, ConnInv, NextFits
  <1> QED
    BY <1>1, <1>2, <1>3, <1>5, <1>6, <1>7, <1>8, <1>9, <1>10, QuietStep

LEMMA ClosedClientStep ==
  ASSUME IInv, NEW t \in Io, NEW c \in Members, close_client(t, c),
         con[c].closed
  PROVE  IInv'
  <1>1. Idle(t) /\ con[c].bye
    BY DEF close_client, Free
  <1>2. ConnInv(c) /\ IoJob(t) /\ NextFits(t, c) /\ con[c] \in Connection
    BY DEF IInv, Types, ConnInv
  <1>3. /\ con' = [con EXCEPT ![c].bye = FALSE, ![c].shaken = @ /\ con[c].closed]
        /\ job' = job /\ clients_' = clients_
        /\ kind' = kind /\ slot' = slot /\ client_count_' = client_count_
        /\ held' = held /\ cast' = cast /\ all' = all
    BY <1>1, <1>2, DoesNothing, Threading DEF close_client, IInv
  <1>4. job' = job /\ todo' = todo
    BY <1>3 DEF todo, Idle
  <1>5. /\ con' \in [Members -> Connection]
        /\ \A d \in Members \ {c} : con'[d] = con[d]
        /\ con'[c].made = con[c].made /\ con'[c].announced = con[c].announced /\ con'[c].thrown = con[c].thrown
        /\ con'[c].closed = con[c].closed /\ con'[c].stops = con[c].stops /\ con'[c].ready = con[c].ready
        /\ con'[c].hello = con[c].hello /\ con'[c].bye = FALSE /\ con'[c].reading = con[c].reading
        /\ con'[c].everRead = con[c].everRead /\ con'[c].timer = con[c].timer /\ con'[c].tls = con[c].tls
        /\ con'[c].switched = con[c].switched /\ con'[c].tlsTimer = con[c].tlsTimer
    <2>1. con \in [Members -> Connection] /\ con[c] \in Connection
      BY <1>2 DEF IInv, Types
    <2>2. PICK b \in BOOLEAN : b = (con[c].shaken /\ con[c].closed)
      BY Zenon
    <2>2a. Byed(con[c], con'[c], b)
      BY <1>3, <2>1, <2>2 DEF Connection, Byed
    <2>2b. con[c] \in Connection /\ b \in BOOLEAN
      BY <2>1, <2>2
    <2>3. con'[c] \in Connection /\ ByeKeeps(con[c], con'[c])
      BY <2>2a, <2>2b, ByeFields
    <2>4. \A d \in Members \ {c} : con'[d] = con[d]
      BY <1>3, <2>1
    <2>5. con' \in [Members -> Connection]
      BY <1>3, <2>1, <2>3, <2>4
    <2>6. /\ con'[c].made = con[c].made /\ con'[c].announced = con[c].announced /\ con'[c].thrown = con[c].thrown
          /\ con'[c].closed = con[c].closed /\ con'[c].stops = con[c].stops /\ con'[c].ready = con[c].ready
          /\ con'[c].hello = con[c].hello /\ con'[c].bye = FALSE /\ con'[c].reading = con[c].reading
          /\ con'[c].everRead = con[c].everRead /\ con'[c].timer = con[c].timer /\ con'[c].tls = con[c].tls
          /\ con'[c].switched = con[c].switched /\ con'[c].tlsTimer = con[c].tlsTimer
      BY <2>3 DEF ByeKeeps
    <2> QED
      BY <2>4, <2>5, <2>6
  <1>6. Frame(t, c)
    BY <1>1, <1>2, <1>3, <1>4, <1>5 DEF Frame, IInv, Types
  <1>7. todo' = todo
    BY <1>4
  <1>8. IoJob(t)'
    BY <1>2, <1>3, <1>4 DEF IoJob, Idle
  <1>9. ConnInv(c)' /\ (Known(c) => Known(c)')
    <2>1. \A u \in Io : u # t => todo'[u] = todo[u]
      BY <1>4, <1>6, Threading DEF Frame
    <2>2. (\A u \in Io : NextFits(u, c)) /\ Alone(c)
      BY <1>2 DEF ConnInv
    <2>3. \A u \in Io : NextFits(u, c)'
      BY <1>1, <1>2, <1>3, <1>5, <1>7, <2>1, <2>2, Finite DEF NextFits, ConnInv, Alone, SettingUp, Shaking, Connection
    <2>4. Alone(c)'
      BY <1>1, <1>2, <1>7, <2>1, <2>2, Finite DEF Alone, SettingUp, Shaking, NextFits, ConnInv
    <2>5. Known(c) => Known(c)'
      BY <1>1, <1>2, <1>5, <1>7, <2>1 DEF Known, Doing
    <2> QED
      BY <1>1, <1>2, <1>3, <1>5, <1>7, <2>3, <2>4, <2>5 DEF ConnInv, NextFits, Connection
  <1>10. KeepsCast(c)
    BY <1>1, <1>2, <1>5 DEF KeepsCast, Connection, ConnInv, NextFits
  <1> QED
    BY <1>1, <1>2, <1>3, <1>5, <1>6, <1>7, <1>8, <1>9, <1>10, QuietStep

LEMMA WriteStep ==
  ASSUME IInv, NEW t \in Io, NEW c \in Members, write_impl(c)
  PROVE  IInv'
  <1>1. con[c].hello = "posted"
    BY DEF write_impl, Free
  <1>2. ConnInv(c) /\ IoJob(t) /\ NextFits(t, c) /\ con[c] \in Connection
    BY DEF IInv, Types, ConnInv
  <1>3. /\ con' = [con EXCEPT ![c].hello = IF con[c].closed THEN "lost" ELSE "sent"]
        /\ job' = job /\ clients_' = clients_
        /\ kind' = kind /\ slot' = slot /\ client_count_' = client_count_
        /\ held' = held /\ cast' = cast /\ all' = all
    BY <1>1, <1>2 DEF write_impl
  <1>4. job' = job /\ todo' = todo
    BY <1>3 DEF todo, Idle
  <1>5. /\ con' \in [Members -> Connection]
        /\ \A d \in Members \ {c} : con'[d] = con[d]
        /\ con'[c].made = con[c].made /\ con'[c].announced = con[c].announced /\ con'[c].thrown = con[c].thrown
        /\ con'[c].closed = con[c].closed /\ con'[c].stops = con[c].stops /\ con'[c].ready = con[c].ready
        /\ con'[c].hello = (IF con[c].closed THEN "lost" ELSE "sent") /\ con'[c].bye = con[c].bye /\ con'[c].reading = con[c].reading
        /\ con'[c].everRead = con[c].everRead /\ con'[c].timer = con[c].timer /\ con'[c].tls = con[c].tls
        /\ con'[c].switched = con[c].switched /\ con'[c].tlsTimer = con[c].tlsTimer
    BY <1>1, <1>2, <1>3 DEF IInv, Types, Connection
  <1>6. Frame(t, c)
    BY <1>1, <1>2, <1>3, <1>4, <1>5 DEF Frame, IInv, Types
  <1>7. todo' = todo
    BY <1>4
  <1>8. IoJob(t)'
    BY <1>2, <1>3, <1>4 DEF IoJob, Idle
  <1>9. ConnInv(c)' /\ (Known(c) => Known(c)')
    <2>1. \A u \in Io : u # t => todo'[u] = todo[u]
      BY <1>4, <1>6, Threading DEF Frame
    <2>2. (\A u \in Io : NextFits(u, c)) /\ Alone(c)
      BY <1>2 DEF ConnInv
    <2>3. \A u \in Io : NextFits(u, c)'
      BY <1>1, <1>2, <1>3, <1>5, <1>7, <2>1, <2>2, Finite DEF NextFits, ConnInv, Alone, SettingUp, Shaking, Connection
    <2>4. Alone(c)'
      BY <1>1, <1>2, <1>7, <2>1, <2>2, Finite DEF Alone, SettingUp, Shaking, NextFits, ConnInv
    <2>5. Known(c) => Known(c)'
      BY <1>1, <1>2, <1>5, <1>7, <2>1 DEF Known, Doing
    <2> QED
      BY <1>1, <1>2, <1>3, <1>5, <1>7, <2>3, <2>4, <2>5 DEF ConnInv, NextFits, Connection
  <1>10. KeepsCast(c)
    BY <1>1, <1>2, <1>5 DEF KeepsCast, Connection, ConnInv, NextFits
  <1> QED
    BY <1>1, <1>2, <1>3, <1>5, <1>6, <1>7, <1>8, <1>9, <1>10, QuietStep

LEMMA ExpireStep ==
  ASSUME IInv, NEW t \in Io, NEW c \in Members, Expire(c)
  PROVE  IInv'
  <1>1. con[c].timer = "armed" \/ con[c].tlsTimer = "armed"
    BY DEF Expire
  <1>2. ConnInv(c) /\ IoJob(t) /\ NextFits(t, c) /\ con[c] \in Connection
    BY DEF IInv, Types, ConnInv
  <1>3. /\ \/ con' = [con EXCEPT ![c].timer = "due",
                                 ![c].late = IF con[c].shaken THEN @ ELSE @ \cup {"init"}]
           \/ con' = [con EXCEPT ![c].tlsTimer = "due",
                                 ![c].late = IF con[c].tls = "done" THEN @ ELSE @ \cup {"tls"}]
        /\ job' = job /\ clients_' = clients_
        /\ kind' = kind /\ slot' = slot /\ client_count_' = client_count_
        /\ held' = held /\ cast' = cast /\ all' = all
    BY <1>1, <1>2 DEF Expire
  <1>4. job' = job /\ todo' = todo
    BY <1>3 DEF todo, Idle
  <1>5. /\ con' \in [Members -> Connection]
        /\ \A d \in Members \ {c} : con'[d] = con[d]
        /\ con'[c].made = con[c].made /\ con'[c].announced = con[c].announced /\ con'[c].thrown = con[c].thrown
        /\ con'[c].closed = con[c].closed /\ con'[c].stops = con[c].stops /\ con'[c].ready = con[c].ready
        /\ con'[c].hello = con[c].hello /\ con'[c].bye = con[c].bye /\ con'[c].reading = con[c].reading
        /\ con'[c].everRead = con[c].everRead /\ con'[c].tls = con[c].tls
        /\ con'[c].switched = con[c].switched
    <2>1. con \in [Members -> Connection] /\ con[c] \in Connection
      BY <1>2 DEF IInv, Types
    <2>2. PICK l \in SUBSET {"tls", "init"} :
            InitLate(con[c], con'[c], l) \/ TlsLate(con[c], con'[c], l)
      <3> DEFINE i == IF con[c].shaken THEN con[c].late ELSE con[c].late \cup {"init"}
                 h == IF con[c].tls = "done" THEN con[c].late ELSE con[c].late \cup {"tls"}
      <3>1. i \in SUBSET {"tls", "init"} /\ h \in SUBSET {"tls", "init"}
        BY <2>1, LateTypes
      <3>2. InitLate(con[c], con'[c], i) \/ TlsLate(con[c], con'[c], h)
        BY <1>3, <2>1 DEF Connection, InitLate, TlsLate
      <3> HIDE DEF i, h
      <3> QED
        BY <3>1, <3>2
    <2>3. con'[c] \in Connection
      BY <2>1, <2>2, InitLateFields, TlsLateFields
    <2>4. \A d \in Members \ {c} : con'[d] = con[d]
      BY <1>3, <2>1
    <2>5. con' \in [Members -> Connection]
      BY <1>3, <2>1, <2>3, <2>4
    <2>6. /\ con'[c].made = con[c].made /\ con'[c].announced = con[c].announced /\ con'[c].thrown = con[c].thrown
          /\ con'[c].closed = con[c].closed /\ con'[c].stops = con[c].stops /\ con'[c].ready = con[c].ready
          /\ con'[c].hello = con[c].hello /\ con'[c].bye = con[c].bye /\ con'[c].reading = con[c].reading
          /\ con'[c].everRead = con[c].everRead /\ con'[c].tls = con[c].tls
          /\ con'[c].switched = con[c].switched
      BY <2>1, <2>2, InitLateFields, TlsLateFields
    <2> QED
      BY <2>4, <2>5, <2>6
  <1>6. Frame(t, c)
    BY <1>1, <1>2, <1>3, <1>4, <1>5 DEF Frame, IInv, Types
  <1>7. todo' = todo
    BY <1>4
  <1>8. IoJob(t)'
    BY <1>2, <1>3, <1>4 DEF IoJob, Idle
  <1>9. ConnInv(c)' /\ (Known(c) => Known(c)')
    <2>1. \A u \in Io : u # t => todo'[u] = todo[u]
      BY <1>4, <1>6, Threading DEF Frame
    <2>2. (\A u \in Io : NextFits(u, c)) /\ Alone(c)
      BY <1>2 DEF ConnInv
    <2>3. \A u \in Io : NextFits(u, c)'
      BY <1>1, <1>2, <1>3, <1>5, <1>7, <2>1, <2>2, Finite DEF NextFits, ConnInv, Alone, SettingUp, Shaking, Connection
    <2>4. Alone(c)'
      BY <1>1, <1>2, <1>7, <2>1, <2>2, Finite DEF Alone, SettingUp, Shaking, NextFits, ConnInv
    <2>5. Known(c) => Known(c)'
      BY <1>1, <1>2, <1>5, <1>7, <2>1 DEF Known, Doing
    <2> QED
      BY <1>1, <1>2, <1>3, <1>5, <1>7, <2>3, <2>4, <2>5 DEF ConnInv, NextFits, Connection
  <1>10. KeepsCast(c)
    BY <1>1, <1>2, <1>5 DEF KeepsCast, Connection, ConnInv, NextFits
  <1> QED
    BY <1>1, <1>2, <1>3, <1>5, <1>6, <1>7, <1>8, <1>9, <1>10, QuietStep

\* on_accept makes the connection c.
Accepted(t, c) ==
  /\ Free(t) /\ ~con[c].made /\ con' = [con EXCEPT ![c].made = TRUE]
  /\ UNCHANGED <<kind, slot, clients_, client_count_, held, cast, all>>

LEMMA AcceptStep ==
  ASSUME IInv, NEW t \in Io, NEW c \in Members, Accepted(t, c),
         Does(t, <<Op("store", c), Op("new", c)>>)
  PROVE  IInv'
  <1>1. Idle(t) /\ ~con[c].made
    BY DEF Accepted, Free
  <1>2. ConnInv(c) /\ IoJob(t) /\ NextFits(t, c) /\ con[c] \in Connection
    BY DEF IInv, Types, ConnInv
  <1>3. /\ con' = [con EXCEPT ![c].made = TRUE]
        /\ Does(t, <<Op("store", c), Op("new", c)>>) /\ clients_' = clients_
        /\ kind' = kind /\ slot' = slot /\ client_count_' = client_count_
        /\ held' = held /\ cast' = cast /\ all' = all
    BY <1>1, <1>2 DEF Accepted
  <1>4. Takes(t, c, <<Op("store", c), Op("new", c)>>)
    BY <1>1, <1>3, TakesTwo DEF Free
  <1>4a. /\ job' \in [Threads -> Seq(Step)] /\ todo[t].c = List /\ todo'[t].c = c
        /\ \A u \in Threads \ {t} : job'[u] = job[u] /\ todo'[u] = todo[u]
    BY <1>4 DEF Takes, Op
  <1>5. /\ con' \in [Members -> Connection]
        /\ \A d \in Members \ {c} : con'[d] = con[d]
        /\ con'[c].made = TRUE /\ con'[c].announced = con[c].announced /\ con'[c].thrown = con[c].thrown
        /\ con'[c].closed = con[c].closed /\ con'[c].stops = con[c].stops /\ con'[c].ready = con[c].ready
        /\ con'[c].hello = con[c].hello /\ con'[c].bye = con[c].bye /\ con'[c].reading = con[c].reading
        /\ con'[c].everRead = con[c].everRead /\ con'[c].timer = con[c].timer /\ con'[c].tls = con[c].tls
        /\ con'[c].switched = con[c].switched /\ con'[c].tlsTimer = con[c].tlsTimer
    BY <1>1, <1>2, <1>3 DEF IInv, Types, Connection
  <1>6. Frame(t, c)
    BY <1>1, <1>2, <1>3, <1>4a, <1>5 DEF Frame, IInv, Types
  <1>7. todo[t].op = "idle" /\ todo[t].c = List /\ todo'[t].c = c /\ todo'[t].op = "store"
    BY <1>4 DEF Takes, Op
  <1>8. IoJob(t)'
    BY <1>3, <1>4, <1>7 DEF IoJob, Takes, Op
  <1>9. ConnInv(c)' /\ (Known(c) => Known(c)')
    <2>1. \A u \in Io : u # t => todo'[u] = todo[u]
      BY <1>4, <1>6, Threading DEF Frame
    <2>2. (\A u \in Io : NextFits(u, c)) /\ Alone(c)
      BY <1>2 DEF ConnInv
    <2>3. \A u \in Io : NextFits(u, c)'
      BY <1>1, <1>2, <1>3, <1>5, <1>7, <2>1, <2>2, Finite DEF NextFits, ConnInv, Alone, SettingUp, Shaking, Connection
    <2>4. Alone(c)'
      BY <1>1, <1>2, <1>7, <2>1, <2>2, Finite DEF Alone, SettingUp, Shaking, NextFits, ConnInv
    <2>5. Known(c) => Known(c)'
      BY <1>1, <1>2, <1>5, <1>7, <2>1 DEF Known, Doing
    <2> QED
      BY <1>1, <1>2, <1>3, <1>5, <1>7, <2>3, <2>4, <2>5 DEF ConnInv, NextFits, Connection
  <1>10. KeepsCast(c)
    BY <1>1, <1>2, <1>5 DEF KeepsCast, Connection, ConnInv, NextFits
  <1> QED
    BY <1>1, <1>2, <1>3, <1>5, <1>6, <1>7, <1>8, <1>9, <1>10, QuietStep

LEMMA GivenUpStep ==
  ASSUME IInv, NEW t \in Io, NEW c \in Members, Accepted(t, c),
         job' = job
  PROVE  IInv'
  <1>1. Idle(t) /\ ~con[c].made
    BY DEF Accepted, Free
  <1>2. ConnInv(c) /\ IoJob(t) /\ NextFits(t, c) /\ con[c] \in Connection
    BY DEF IInv, Types, ConnInv
  <1>3. /\ con' = [con EXCEPT ![c].made = TRUE]
        /\ job' = job /\ clients_' = clients_
        /\ kind' = kind /\ slot' = slot /\ client_count_' = client_count_
        /\ held' = held /\ cast' = cast /\ all' = all
    BY <1>1, <1>2 DEF Accepted
  <1>4. job' = job /\ todo' = todo
    BY <1>3 DEF todo, Idle
  <1>5. /\ con' \in [Members -> Connection]
        /\ \A d \in Members \ {c} : con'[d] = con[d]
        /\ con'[c].made = TRUE /\ con'[c].announced = con[c].announced /\ con'[c].thrown = con[c].thrown
        /\ con'[c].closed = con[c].closed /\ con'[c].stops = con[c].stops /\ con'[c].ready = con[c].ready
        /\ con'[c].hello = con[c].hello /\ con'[c].bye = con[c].bye /\ con'[c].reading = con[c].reading
        /\ con'[c].everRead = con[c].everRead /\ con'[c].timer = con[c].timer /\ con'[c].tls = con[c].tls
        /\ con'[c].switched = con[c].switched /\ con'[c].tlsTimer = con[c].tlsTimer
    BY <1>1, <1>2, <1>3 DEF IInv, Types, Connection
  <1>6. Frame(t, c)
    BY <1>1, <1>2, <1>3, <1>4, <1>5 DEF Frame, IInv, Types
  <1>7. todo' = todo
    BY <1>4
  <1>8. IoJob(t)'
    BY <1>2, <1>3, <1>4 DEF IoJob, Idle
  <1>9. ConnInv(c)' /\ (Known(c) => Known(c)')
    <2>1. \A u \in Io : u # t => todo'[u] = todo[u]
      BY <1>4, <1>6, Threading DEF Frame
    <2>2. (\A u \in Io : NextFits(u, c)) /\ Alone(c)
      BY <1>2 DEF ConnInv
    <2>3. \A u \in Io : NextFits(u, c)'
      BY <1>1, <1>2, <1>3, <1>5, <1>7, <2>1, <2>2, Finite DEF NextFits, ConnInv, Alone, SettingUp, Shaking, Connection
    <2>4. Alone(c)'
      BY <1>1, <1>2, <1>7, <2>1, <2>2, Finite DEF Alone, SettingUp, Shaking, NextFits, ConnInv
    <2>5. Known(c) => Known(c)'
      BY <1>1, <1>2, <1>5, <1>7, <2>1 DEF Known, Doing
    <2> QED
      BY <1>1, <1>2, <1>3, <1>5, <1>7, <2>3, <2>4, <2>5 DEF ConnInv, NextFits, Connection
  <1>10. KeepsCast(c)
    BY <1>1, <1>2, <1>5 DEF KeepsCast, Connection, ConnInv, NextFits
  <1> QED
    BY <1>1, <1>2, <1>3, <1>5, <1>6, <1>7, <1>8, <1>9, <1>10, QuietStep

\* The thread t puts one or two steps in the place of the one for c it has done.
PutsOne(t, c, op) ==
  /\ job' \in [Threads -> Seq(Step)]
  /\ \A u \in Threads \ {t} : job'[u] = job[u] /\ todo'[u] = todo[u]
  /\ ~Idle(t)' /\ todo[t].c = c /\ todo'[t].c = c /\ todo'[t].op = op
  /\ Len(job[t]) \in Nat \ {0} /\ Len(job'[t]) = Len(job[t])
  /\ Len(job[t]) >= 2 => job'[t][2] = job[t][2]
  /\ \A i \in DOMAIN job'[t] : job'[t][i].c = c

PutsTwo(t, c, op, op2) ==
  /\ job' \in [Threads -> Seq(Step)]
  /\ \A u \in Threads \ {t} : job'[u] = job[u] /\ todo'[u] = todo[u]
  /\ ~Idle(t)' /\ todo[t].c = c /\ todo'[t].c = c /\ todo'[t].op = op
  /\ Len(job[t]) \in Nat \ {0} /\ Len(job'[t]) = Len(job[t]) + 1
  /\ job'[t][2].op = op2
  /\ Len(job[t]) >= 2 => job'[t][3] = job[t][2]
  /\ \A i \in DOMAIN job'[t] : job'[t][i].c = c

LEMMA IoOne ==
  ASSUME IInv, NEW t \in Io, ~Idle(t), NEW c \in Members, todo[t].c = c,
         NEW op \in {"drop", "handle"}, Then(t, <<Op(op, c)>>)
  PROVE  PutsOne(t, c, op)
  <1> DEFINE s == <<Op(op, c)>>
  <1>1. Op(op, c) \in Step /\ Op(op, c).c = c /\ Op(op, c).op = op
    BY DEF Op, Step
  <1>2. s \in Seq(Step) /\ Len(s) = 1 /\ s[1] = Op(op, c) /\ Then(t, s)
    BY <1>1
  <1> HIDE DEF s
  <1>3. \A i \in 1..Len(s) : s[i].c = todo[t].c
    BY <1>1, <1>2
  <1>4. /\ job' \in [Threads -> Seq(Step)]
        /\ \A u \in Threads \ {t} : job'[u] = job[u] /\ todo'[u] = todo[u]
        /\ Idle(t)' <=> Len(job'[t]) = 0
        /\ ~Idle(t)' => todo'[t] = job'[t][1] /\ todo'[t].c = todo[t].c
        /\ Len(job'[t]) = Len(s) + Len(job[t]) - 1
        /\ Len(job[t]) \in Nat \ {0}
        /\ \A i \in 1..Len(s) : job'[t][i] = s[i]
        /\ \A i \in 2..Len(job[t]) : job'[t][Len(s) + i - 1] = job[t][i]
        /\ \A i \in DOMAIN job'[t] : job'[t][i].c = todo[t].c
    BY <1>2, <1>3, IoThen
  <1>5. Len(job'[t]) = Len(job[t]) /\ job'[t][1] = Op(op, c)
    BY <1>2, <1>4
  <1>6. ~Idle(t)' /\ todo'[t].op = op
    BY <1>1, <1>4, <1>5
  <1>7. Len(job[t]) >= 2 => job'[t][2] = job[t][2]
    <2>1. Len(job[t]) >= 2 => 2 \in 2..Len(job[t]) /\ Len(s) + 2 - 1 = 2
      BY <1>2, <1>4
    <2> QED
      BY <1>4, <2>1
  <1> QED
    BY <1>4, <1>5, <1>6, <1>7 DEF PutsOne

LEMMA IoTwo ==
  ASSUME IInv, NEW t \in Io, ~Idle(t), NEW c \in Members, todo[t].c = c,
         NEW op \in {"arm_tls", "hello", "on_stop"}, NEW op2 \in {"tls", "arm", "handle"},
         Then(t, <<Op(op, c), Op(op2, c)>>)
  PROVE  PutsTwo(t, c, op, op2)
  <1> DEFINE s == <<Op(op, c), Op(op2, c)>>
  <1>1. /\ Op(op, c) \in Step /\ Op(op, c).c = c /\ Op(op, c).op = op
        /\ Op(op2, c) \in Step /\ Op(op2, c).c = c /\ Op(op2, c).op = op2
    BY DEF Op, Step
  <1>2. /\ s \in Seq(Step) /\ Len(s) = 2 /\ s[1] = Op(op, c) /\ s[2] = Op(op2, c)
        /\ Then(t, s)
    BY <1>1
  <1> HIDE DEF s
  <1>3. \A i \in 1..Len(s) : s[i].c = todo[t].c
    BY <1>1, <1>2
  <1>4. /\ job' \in [Threads -> Seq(Step)]
        /\ \A u \in Threads \ {t} : job'[u] = job[u] /\ todo'[u] = todo[u]
        /\ Idle(t)' <=> Len(job'[t]) = 0
        /\ ~Idle(t)' => todo'[t] = job'[t][1] /\ todo'[t].c = todo[t].c
        /\ Len(job'[t]) = Len(s) + Len(job[t]) - 1
        /\ Len(job[t]) \in Nat \ {0}
        /\ \A i \in 1..Len(s) : job'[t][i] = s[i]
        /\ \A i \in 2..Len(job[t]) : job'[t][Len(s) + i - 1] = job[t][i]
        /\ \A i \in DOMAIN job'[t] : job'[t][i].c = todo[t].c
    BY <1>2, <1>3, IoThen
  <1>5. Len(job'[t]) = Len(job[t]) + 1 /\ job'[t][1] = Op(op, c) /\ job'[t][2] = Op(op2, c)
    BY <1>2, <1>4
  <1>6. ~Idle(t)' /\ todo'[t].op = op /\ job'[t][2].op = op2
    BY <1>1, <1>4, <1>5
  <1>7. Len(job[t]) >= 2 => job'[t][3] = job[t][2]
    <2>1. Len(job[t]) >= 2 => 2 \in 2..Len(job[t]) /\ Len(s) + 2 - 1 = 3
      BY <1>2, <1>4
    <2> QED
      BY <1>4, <2>1
  <1> QED
    BY <1>4, <1>5, <1>6, <1>7 DEF PutsTwo

\* new_connection with slots that return, and with one that throws.
Welcomed(t, c) ==
  /\ At(t, "new") /\ client_count_' = client_count_ + 1
  /\ con' = [con EXCEPT ![c].announced = TRUE]
  /\ Then(t, IF kind = "ssl" THEN <<Op("arm_tls", c), Op("tls", c)>>
                             ELSE <<Op("hello", c), Op("arm", c)>>)
  /\ UNCHANGED <<kind, slot, clients_, held, cast, all>>

Refused(t, c) ==
  /\ At(t, "new") /\ client_count_' = client_count_ + 1
  /\ con' = [con EXCEPT ![c].announced = TRUE, ![c].thrown = TRUE]
  /\ Then(t, IF kind = "pipe" THEN <<>> ELSE <<Op("drop", c)>>)
  /\ UNCHANGED <<kind, slot, clients_, held, cast, all>>

\* A connection is announced, or closed: the count follows.
LEMMA OneMore ==
  ASSUME IInv, NEW t \in Io, NEW c \in Members, Frame(t, c),
         client_count_' = client_count_ + 1, ~con[c].announced,
         con'[c].announced = TRUE, con'[c].closed = con[c].closed
  PROVE  Count' /\ client_count_' \in Int
  <1>1. Closed' = Closed
    BY DEF Closed, Frame
  <1>2. Announced' = Announced \cup {c} /\ c \notin Announced
    BY DEF Announced, Frame
  <1>3. Announced \in SUBSET Members /\ Closed \in SUBSET Members
    BY DEF Announced, Closed
  <1>4. /\ IsFiniteSet(Announced) /\ Cardinality(Announced) \in Nat
        /\ Cardinality(Closed) \in Nat
    BY <1>3, Finite
  <1>5. Cardinality(Announced \cup {c}) = Cardinality(Announced) + 1
    BY <1>2, <1>4, FS_AddElement
  <1>6. client_count_ = Cardinality(Announced) - Cardinality(Closed)
    BY DEF IInv, Count
  <1> QED
    BY <1>1, <1>2, <1>4, <1>5, <1>6 DEF Count

LEMMA OneLess ==
  ASSUME IInv, NEW c \in Members, \A d \in Members \ {c} : con'[d] = con[d],
         client_count_' = client_count_ - 1, ~con[c].closed,
         con'[c].closed = TRUE, con'[c].announced = con[c].announced
  PROVE  Count' /\ client_count_' \in Int
  <1>1. Announced' = Announced
    BY DEF Announced
  <1>2. Closed' = Closed \cup {c} /\ c \notin Closed
    BY DEF Closed
  <1>3. Announced \in SUBSET Members /\ Closed \in SUBSET Members
    BY DEF Announced, Closed
  <1>4. /\ IsFiniteSet(Closed) /\ Cardinality(Announced) \in Nat
        /\ Cardinality(Closed) \in Nat
    BY <1>3, Finite
  <1>5. Cardinality(Closed \cup {c}) = Cardinality(Closed) + 1
    BY <1>2, <1>4, FS_AddElement
  <1>6. client_count_ = Cardinality(Announced) - Cardinality(Closed)
    BY DEF IInv, Count
  <1> QED
    BY <1>1, <1>2, <1>4, <1>5, <1>6 DEF Count

LEMMA NewStep ==
  ASSUME IInv, NEW t \in Io, NEW c \in Members, todo[t].c = c, Welcomed(t, c)
  PROVE  IInv'
  <1>1. todo[t].op = "new"
    BY Todo, Threading DEF Welcomed, IInv
  <1>2. /\ ~Idle(t) /\ Of(t) = c /\ ConnInv(c) /\ t \in Threads
        /\ NextFits(t, c) /\ IoJob(t) /\ con[c] \in Connection
    BY <1>1, IoBusy, Todo, Threading DEF IInv, SettingUp
  <1>3. /\ con' = [con EXCEPT ![c].announced = TRUE]
        /\ Then(t, IF kind = "ssl" THEN <<Op("arm_tls", c), Op("tls", c)>> ELSE <<Op("hello", c), Op("arm", c)>>) /\ clients_' = clients_ /\ client_count_' = client_count_ + 1
        /\ kind' = kind /\ slot' = slot /\ held' = held
        /\ cast' = cast /\ all' = all
    BY <1>1, <1>2 DEF Welcomed
  <1>4. (kind = "ssl" => PutsTwo(t, c, "arm_tls", "tls")) /\ (kind # "ssl" => PutsTwo(t, c, "hello", "arm"))
    BY <1>2, <1>3, IoTwo
  <1>5. /\ con' \in [Members -> Connection]
        /\ \A d \in Members \ {c} : con'[d] = con[d]
        /\ con'[c].made = con[c].made /\ con'[c].announced = TRUE /\ con'[c].thrown = con[c].thrown
        /\ con'[c].closed = con[c].closed /\ con'[c].stops = con[c].stops /\ con'[c].ready = con[c].ready
        /\ con'[c].hello = con[c].hello /\ con'[c].bye = con[c].bye /\ con'[c].reading = con[c].reading
        /\ con'[c].everRead = con[c].everRead /\ con'[c].timer = con[c].timer /\ con'[c].tls = con[c].tls
        /\ con'[c].switched = con[c].switched /\ con'[c].tlsTimer = con[c].tlsTimer
    BY <1>1, <1>2, <1>3 DEF IInv, Types, Connection
  <1>6. Frame(t, c)
    BY <1>1, <1>2, <1>3, <1>4, <1>5 DEF Frame, IInv, Types, PutsTwo
  <1>7. todo'[t].c = c /\ IF kind = "ssl" THEN todo'[t].op = "arm_tls" ELSE todo'[t].op = "hello"
    BY <1>1, <1>2, <1>4 DEF IoJob, PutsTwo
  <1>8. IoJob(t)'
    BY <1>1, <1>2, <1>3, <1>4, <1>7 DEF IoJob, PutsTwo
  <1>9. ConnInv(c)' /\ (Known(c) => Known(c)')
    <2>1. \A u \in Io : u # t => todo'[u] = todo[u]
      BY <1>6, Threading DEF Frame
    <2>2. (\A u \in Io : NextFits(u, c)) /\ Alone(c)
      BY <1>2 DEF ConnInv
    <2>3. \A u \in Io : NextFits(u, c)'
      BY <1>1, <1>2, <1>3, <1>5, <1>7, <2>1, <2>2, Finite DEF NextFits, ConnInv, Alone, SettingUp, Shaking, Connection
    <2>4. Alone(c)'
      BY <1>1, <1>2, <1>7, <2>1, <2>2, Finite DEF Alone, SettingUp, Shaking, NextFits, ConnInv
    <2>5. Known(c) => Known(c)'
      BY <1>1, <1>2, <1>5, <1>7, <2>1 DEF Known, Doing
    <2> QED
      BY <1>1, <1>2, <1>3, <1>5, <1>7, <2>3, <2>4, <2>5 DEF ConnInv, NextFits, Connection
  <1>10. KeepsCast(c)
    BY <1>1, <1>2, <1>5 DEF KeepsCast, Connection, ConnInv, NextFits
  <1>11. Count' /\ client_count_' \in Int
    BY <1>1, <1>2, <1>3, <1>5, <1>6, OneMore DEF NextFits, Connection
  <1>12. Locks' /\ held' \in [{List} \cup Members -> Threads \cup {Nobody}]
    BY <1>1, <1>2, <1>3, <1>6, SameLocks
  <1> QED
    BY <1>6, <1>8, <1>9, <1>10, <1>11, <1>12, IoStep

LEMMA ThrownStep ==
  ASSUME IInv, NEW t \in Io, NEW c \in Members, todo[t].c = c, Refused(t, c)
  PROVE  IInv'
  <1>1. todo[t].op = "new"
    BY Todo, Threading DEF Refused, IInv
  <1>2. /\ ~Idle(t) /\ Of(t) = c /\ ConnInv(c) /\ t \in Threads
        /\ NextFits(t, c) /\ IoJob(t) /\ con[c] \in Connection
    BY <1>1, IoBusy, Todo, Threading DEF IInv, SettingUp
  <1>3. /\ con' = [con EXCEPT ![c].announced = TRUE, ![c].thrown = TRUE]
        /\ Then(t, IF kind = "pipe" THEN <<>> ELSE <<Op("drop", c)>>) /\ clients_' = clients_ /\ client_count_' = client_count_ + 1
        /\ kind' = kind /\ slot' = slot /\ held' = held
        /\ cast' = cast /\ all' = all
    BY <1>1, <1>2 DEF Refused
  <1>4. (kind = "pipe" => Pops(t, c)) /\ (kind # "pipe" => PutsOne(t, c, "drop"))
    BY <1>2, <1>3, IoOne, IoDone
  <1>5. /\ con' \in [Members -> Connection]
        /\ \A d \in Members \ {c} : con'[d] = con[d]
        /\ con'[c].made = con[c].made /\ con'[c].announced = TRUE /\ con'[c].thrown = TRUE
        /\ con'[c].closed = con[c].closed /\ con'[c].stops = con[c].stops /\ con'[c].ready = con[c].ready
        /\ con'[c].hello = con[c].hello /\ con'[c].bye = con[c].bye /\ con'[c].reading = con[c].reading
        /\ con'[c].everRead = con[c].everRead /\ con'[c].timer = con[c].timer /\ con'[c].tls = con[c].tls
        /\ con'[c].switched = con[c].switched /\ con'[c].tlsTimer = con[c].tlsTimer
    BY <1>1, <1>2, <1>3 DEF IInv, Types, Connection
  <1>6. Frame(t, c)
    BY <1>1, <1>2, <1>3, <1>4, <1>5 DEF Frame, IInv, Types, Pops, PutsOne
  <1>7. /\ kind = "pipe" => todo'[t].op = "idle" /\ todo'[t].c = List
        /\ kind # "pipe" => todo'[t].op = "drop" /\ todo'[t].c = c
    BY <1>1, <1>2, <1>4 DEF IoJob, Pops, PutsOne
  <1>8. IoJob(t)'
    BY <1>1, <1>2, <1>3, <1>4, <1>7 DEF IoJob, Pops, PutsOne
  <1>9. ConnInv(c)' /\ (Known(c) => Known(c)')
    <2>1. \A u \in Io : u # t => todo'[u] = todo[u]
      BY <1>6, Threading DEF Frame
    <2>2. (\A u \in Io : NextFits(u, c)) /\ Alone(c)
      BY <1>2 DEF ConnInv
    <2>3. \A u \in Io : NextFits(u, c)'
      BY <1>1, <1>2, <1>3, <1>5, <1>7, <2>1, <2>2, Finite DEF NextFits, ConnInv, Alone, SettingUp, Shaking, Connection
    <2>4. Alone(c)'
      BY <1>1, <1>2, <1>7, <2>1, <2>2, Finite DEF Alone, SettingUp, Shaking, NextFits, ConnInv
    <2>5. Known(c) => Known(c)'
      BY <1>1, <1>2, <1>5, <1>7, <2>1 DEF Known, Doing
    <2> QED
      BY <1>1, <1>2, <1>3, <1>5, <1>7, <2>3, <2>4, <2>5 DEF ConnInv, NextFits, Connection
  <1>10. KeepsCast(c)
    BY <1>1, <1>2, <1>5 DEF KeepsCast, Connection, ConnInv, NextFits
  <1>11. Count' /\ client_count_' \in Int
    BY <1>1, <1>2, <1>3, <1>5, <1>6, OneMore DEF NextFits, Connection
  <1>12. Locks' /\ held' \in [{List} \cup Members -> Threads \cup {Nobody}]
    BY <1>1, <1>2, <1>3, <1>6, SameLocks
  <1> QED
    BY <1>6, <1>8, <1>9, <1>10, <1>11, <1>12, IoStep

LEMMA ClosedStep ==
  ASSUME IInv, NEW t \in Io, NEW c \in Members, todo[t].c = c, close(t),
         con[c].closed
  PROVE  IInv'
  <1>1. todo[t].op = "close"
    BY Todo, Threading DEF close, IInv
  <1>2. /\ ~Idle(t) /\ Of(t) = c /\ ConnInv(c) /\ t \in Threads
        /\ NextFits(t, c) /\ IoJob(t) /\ con[c] \in Connection
    BY <1>1, IoBusy, Todo, Threading DEF IInv, SettingUp
  <1>3. /\ con' = con
        /\ Then(t, <<>>) /\ clients_' = clients_ /\ client_count_' = client_count_
        /\ kind' = kind /\ slot' = slot /\ held' = held
        /\ cast' = cast /\ all' = all
    BY <1>1, <1>2 DEF close
  <1>4. Pops(t, c)
    BY <1>2, <1>3, IoDone
  <1>5. con' = con /\ con' \in [Members -> Connection]
    BY <1>3 DEF IInv, Types
  <1>6. Frame(t, c)
    BY <1>1, <1>2, <1>3, <1>4, <1>5 DEF Frame, IInv, Types, Pops
  <1>7. todo'[t].op \in {"idle", "drop"} /\ (todo'[t].op = "drop" => todo'[t].c = c)
    BY <1>1, <1>2, <1>4 DEF IoJob, Pops
  <1>8. IoJob(t)'
    BY <1>1, <1>2, <1>3, <1>4, <1>7 DEF IoJob, Pops
  <1>9. ConnInv(c)' /\ (Known(c) => Known(c)')
    <2>1. \A u \in Io : u # t => todo'[u] = todo[u]
      BY <1>6, Threading DEF Frame
    <2>2. (\A u \in Io : NextFits(u, c)) /\ Alone(c)
      BY <1>2 DEF ConnInv
    <2>3. \A u \in Io : NextFits(u, c)'
      BY <1>1, <1>2, <1>3, <1>5, <1>7, <2>1, <2>2, Finite DEF NextFits, ConnInv, Alone, SettingUp, Shaking, Connection
    <2>4. Alone(c)'
      BY <1>1, <1>2, <1>7, <2>1, <2>2, Finite DEF Alone, SettingUp, Shaking, NextFits, ConnInv
    <2>5. Known(c) => Known(c)'
      BY <1>1, <1>2, <1>5, <1>7, <2>1 DEF Known, Doing
    <2> QED
      BY <1>1, <1>2, <1>3, <1>5, <1>7, <2>3, <2>4, <2>5 DEF ConnInv, NextFits, Connection
  <1>10. KeepsCast(c)
    BY <1>1, <1>2, <1>5 DEF KeepsCast, Connection, ConnInv, NextFits
  <1>11. Count' /\ client_count_' \in Int
    BY <1>1, <1>2, <1>3, <1>5, <1>6, SameCount DEF NextFits, Connection
  <1>12. Locks' /\ held' \in [{List} \cup Members -> Threads \cup {Nobody}]
    BY <1>1, <1>2, <1>3, <1>6, SameLocks
  <1> QED
    BY <1>6, <1>8, <1>9, <1>10, <1>11, <1>12, IoStep

LEMMA CloseStep ==
  ASSUME IInv, NEW t \in Io, NEW c \in Members, todo[t].c = c, close(t),
         ~con[c].closed, slot # "lists"
  PROVE  IInv'
  <1>1. todo[t].op = "close"
    BY Todo, Threading DEF close, IInv
  <1>2. /\ ~Idle(t) /\ Of(t) = c /\ ConnInv(c) /\ t \in Threads
        /\ NextFits(t, c) /\ IoJob(t) /\ con[c] \in Connection
    BY <1>1, IoBusy, Todo, Threading DEF IInv, SettingUp
  <1>3. /\ con' = [con EXCEPT ![c].closed = TRUE, ![c].stops = con[c].stops + 1]
        /\ Then(t, <<Op("handle", c)>>) /\ clients_' = clients_ /\ client_count_' = client_count_ - 1
        /\ kind' = kind /\ slot' = slot /\ held' = [held EXCEPT ![c] = t]
        /\ cast' = cast /\ all' = all
    BY <1>1, <1>2 DEF close
  <1>4. PutsOne(t, c, "handle")
    BY <1>2, <1>3, IoOne
  <1>5. /\ con' \in [Members -> Connection]
        /\ \A d \in Members \ {c} : con'[d] = con[d]
        /\ con'[c].made = con[c].made /\ con'[c].announced = con[c].announced /\ con'[c].thrown = con[c].thrown
        /\ con'[c].closed = TRUE /\ con'[c].stops = (con[c].stops + 1) /\ con'[c].ready = con[c].ready
        /\ con'[c].hello = con[c].hello /\ con'[c].bye = con[c].bye /\ con'[c].reading = con[c].reading
        /\ con'[c].everRead = con[c].everRead /\ con'[c].timer = con[c].timer /\ con'[c].tls = con[c].tls
        /\ con'[c].switched = con[c].switched /\ con'[c].tlsTimer = con[c].tlsTimer
    <2>1. con \in [Members -> Connection] /\ con[c].stops + 1 \in Nat
      BY <1>2 DEF IInv, Types, Connection
    <2> QED
      BY <1>2, <1>3, <2>1 DEF Connection
  <1>6. Frame(t, c)
    BY <1>1, <1>2, <1>3, <1>4, <1>5 DEF Frame, IInv, Types, PutsOne
  <1>7. todo'[t].op = "handle" /\ todo'[t].c = c
    BY <1>1, <1>2, <1>4 DEF IoJob, PutsOne
  <1>8. IoJob(t)'
    BY <1>1, <1>2, <1>3, <1>4, <1>7 DEF IoJob, PutsOne
  <1>9. ConnInv(c)' /\ (Known(c) => Known(c)')
    <2>1. \A u \in Io : u # t => todo'[u] = todo[u]
      BY <1>6, Threading DEF Frame
    <2>2. (\A u \in Io : NextFits(u, c)) /\ Alone(c)
      BY <1>2 DEF ConnInv
    <2>3. \A u \in Io : NextFits(u, c)'
      BY <1>1, <1>2, <1>3, <1>5, <1>7, <2>1, <2>2, Finite DEF NextFits, ConnInv, Alone, SettingUp, Shaking, Connection
    <2>4. Alone(c)'
      BY <1>1, <1>2, <1>7, <2>1, <2>2, Finite DEF Alone, SettingUp, Shaking, NextFits, ConnInv
    <2>5. Known(c) => Known(c)'
      BY <1>1, <1>2, <1>5, <1>7, <2>1 DEF Known, Doing
    <2> QED
      BY <1>1, <1>2, <1>3, <1>5, <1>7, <2>3, <2>4, <2>5 DEF ConnInv, NextFits, Connection
  <1>10. KeepsCast(c)
    BY <1>1, <1>2, <1>5 DEF KeepsCast, Connection, ConnInv, NextFits
  <1>11. Count' /\ client_count_' \in Int
    BY <1>1, <1>2, <1>3, <1>5, <1>6, OneLess DEF NextFits, Connection
  <1>12. Locks' /\ held' \in [{List} \cup Members -> Threads \cup {Nobody}]
    <2>1. \A u \in Threads : u # t => todo'[u] = todo[u]
      BY <1>6 DEF Frame
    <2>2. Locks /\ List \notin Members
      BY Finite DEF IInv
    <2>3. held \in [{List} \cup Members -> Threads \cup {Nobody}]
      BY DEF IInv, Types
    <2> QED
      BY <1>1, <1>2, <1>3, <1>7, <2>1, <2>2, <2>3, Threading DEF Locks, Doing
  <1> QED
    BY <1>6, <1>8, <1>9, <1>10, <1>11, <1>12, IoStep

LEMMA CloseListsStep ==
  ASSUME IInv, NEW t \in Io, NEW c \in Members, todo[t].c = c, close(t),
         ~con[c].closed, slot = "lists"
  PROVE  IInv'
  <1>1. todo[t].op = "close"
    BY Todo, Threading DEF close, IInv
  <1>2. /\ ~Idle(t) /\ Of(t) = c /\ ConnInv(c) /\ t \in Threads
        /\ NextFits(t, c) /\ IoJob(t) /\ con[c] \in Connection
    BY <1>1, IoBusy, Todo, Threading DEF IInv, SettingUp
  <1>3. /\ con' = [con EXCEPT ![c].closed = TRUE, ![c].stops = con[c].stops + 1]
        /\ Then(t, <<Op("on_stop", c), Op("handle", c)>>) /\ clients_' = clients_ /\ client_count_' = client_count_ - 1
        /\ kind' = kind /\ slot' = slot /\ held' = [held EXCEPT ![c] = t]
        /\ cast' = cast /\ all' = all
    BY <1>1, <1>2 DEF close
  <1>4. PutsTwo(t, c, "on_stop", "handle")
    BY <1>2, <1>3, IoTwo
  <1>5. /\ con' \in [Members -> Connection]
        /\ \A d \in Members \ {c} : con'[d] = con[d]
        /\ con'[c].made = con[c].made /\ con'[c].announced = con[c].announced /\ con'[c].thrown = con[c].thrown
        /\ con'[c].closed = TRUE /\ con'[c].stops = (con[c].stops + 1) /\ con'[c].ready = con[c].ready
        /\ con'[c].hello = con[c].hello /\ con'[c].bye = con[c].bye /\ con'[c].reading = con[c].reading
        /\ con'[c].everRead = con[c].everRead /\ con'[c].timer = con[c].timer /\ con'[c].tls = con[c].tls
        /\ con'[c].switched = con[c].switched /\ con'[c].tlsTimer = con[c].tlsTimer
    <2>1. con \in [Members -> Connection] /\ con[c].stops + 1 \in Nat
      BY <1>2 DEF IInv, Types, Connection
    <2> QED
      BY <1>2, <1>3, <2>1 DEF Connection
  <1>6. Frame(t, c)
    BY <1>1, <1>2, <1>3, <1>4, <1>5 DEF Frame, IInv, Types, PutsTwo
  <1>7. todo'[t].op = "on_stop" /\ todo'[t].c = c
    BY <1>1, <1>2, <1>4 DEF IoJob, PutsTwo
  <1>8. IoJob(t)'
    <2>1. Len(job[t]) = 1 \/ (Len(job[t]) = 2 /\ job[t][2].op = "drop")
      BY <1>1, <1>2 DEF IoJob
    <2>2. /\ Len(job'[t]) = 2 \/ (Len(job'[t]) = 3 /\ job'[t][3].op = "drop")
          /\ job'[t][2].op = "handle" /\ \A i \in DOMAIN job'[t] : job'[t][i].c = todo'[t].c
      <3>1. /\ Len(job[t]) \in Nat /\ Len(job'[t]) = Len(job[t]) + 1
            /\ job'[t][2].op = "handle" /\ (Len(job[t]) >= 2 => job'[t][3] = job[t][2])
            /\ todo'[t].c = c /\ \A i \in DOMAIN job'[t] : job'[t][i].c = c
        BY <1>4 DEF PutsTwo
      <3>2. CASE Len(job[t]) = 1
        BY <3>1, <3>2
      <3>3. CASE Len(job[t]) = 2 /\ job[t][2].op = "drop"
        <4>1. Len(job'[t]) = 3 /\ job'[t][3] = job[t][2]
          BY <3>1, <3>3
        <4> QED
          BY <3>1, <3>3, <4>1
      <3> QED
        BY <2>1, <3>2, <3>3
    <2> QED
      BY <1>3, <1>7, <2>2 DEF IoJob
  <1>9. ConnInv(c)' /\ (Known(c) => Known(c)')
    <2>1. \A u \in Io : u # t => todo'[u] = todo[u]
      BY <1>6, Threading DEF Frame
    <2>2. (\A u \in Io : NextFits(u, c)) /\ Alone(c)
      BY <1>2 DEF ConnInv
    <2>3. \A u \in Io : NextFits(u, c)'
      BY <1>1, <1>2, <1>3, <1>5, <1>7, <2>1, <2>2, Finite DEF NextFits, ConnInv, Alone, SettingUp, Shaking, Connection
    <2>4. Alone(c)'
      BY <1>1, <1>2, <1>7, <2>1, <2>2, Finite DEF Alone, SettingUp, Shaking, NextFits, ConnInv
    <2>5. Known(c) => Known(c)'
      BY <1>1, <1>2, <1>5, <1>7, <2>1 DEF Known, Doing
    <2> QED
      BY <1>1, <1>2, <1>3, <1>5, <1>7, <2>3, <2>4, <2>5 DEF ConnInv, NextFits, Connection
  <1>10. KeepsCast(c)
    BY <1>1, <1>2, <1>5 DEF KeepsCast, Connection, ConnInv, NextFits
  <1>11. Count' /\ client_count_' \in Int
    BY <1>1, <1>2, <1>3, <1>5, <1>6, OneLess DEF NextFits, Connection
  <1>12. Locks' /\ held' \in [{List} \cup Members -> Threads \cup {Nobody}]
    <2>1. \A u \in Threads : u # t => todo'[u] = todo[u]
      BY <1>6 DEF Frame
    <2>2. Locks /\ List \notin Members
      BY Finite DEF IInv
    <2>3. held \in [{List} \cup Members -> Threads \cup {Nobody}]
      BY DEF IInv, Types
    <2> QED
      BY <1>1, <1>2, <1>3, <1>7, <2>1, <2>2, <2>3, Threading DEF Locks, Doing
  <1> QED
    BY <1>6, <1>8, <1>9, <1>10, <1>11, <1>12, IoStep

LEMMA OnStopStep ==
  ASSUME IInv, NEW t \in Io, NEW c \in Members, todo[t].c = c, on_stop_connection(t)
  PROVE  IInv'
  <1>1. todo[t].op = "on_stop"
    BY Todo, Threading DEF on_stop_connection, IInv
  <1>2. /\ ~Idle(t) /\ Of(t) = c /\ ConnInv(c) /\ t \in Threads
        /\ NextFits(t, c) /\ IoJob(t) /\ con[c] \in Connection
    BY <1>1, IoBusy, Todo, Threading DEF IInv, SettingUp
  <1>3. /\ con' = con
        /\ Then(t, <<>>) /\ clients_' = clients_ /\ client_count_' = client_count_
        /\ kind' = kind /\ slot' = slot /\ held' = held
        /\ cast' = cast /\ all' = all
    BY <1>1, <1>2 DEF on_stop_connection
  <1>4. Pops(t, c)
    BY <1>2, <1>3, IoDone
  <1>5. con' = con /\ con' \in [Members -> Connection]
    BY <1>3 DEF IInv, Types
  <1>6. Frame(t, c)
    BY <1>1, <1>2, <1>3, <1>4, <1>5 DEF Frame, IInv, Types, Pops
  <1>7. todo'[t].op = "handle" /\ todo'[t].c = c
    BY <1>1, <1>2, <1>4 DEF IoJob, Pops
  <1>8. IoJob(t)'
    BY <1>1, <1>2, <1>3, <1>4, <1>7 DEF IoJob, Pops
  <1>9. ConnInv(c)' /\ (Known(c) => Known(c)')
    <2>1. \A u \in Io : u # t => todo'[u] = todo[u]
      BY <1>6, Threading DEF Frame
    <2>2. (\A u \in Io : NextFits(u, c)) /\ Alone(c)
      BY <1>2 DEF ConnInv
    <2>3. \A u \in Io : NextFits(u, c)'
      BY <1>1, <1>2, <1>3, <1>5, <1>7, <2>1, <2>2, Finite DEF NextFits, ConnInv, Alone, SettingUp, Shaking, Connection
    <2>4. Alone(c)'
      BY <1>1, <1>2, <1>7, <2>1, <2>2, Finite DEF Alone, SettingUp, Shaking, NextFits, ConnInv
    <2>5. Known(c) => Known(c)'
      BY <1>1, <1>2, <1>5, <1>7, <2>1 DEF Known, Doing
    <2> QED
      BY <1>1, <1>2, <1>3, <1>5, <1>7, <2>3, <2>4, <2>5 DEF ConnInv, NextFits, Connection
  <1>10. KeepsCast(c)
    BY <1>1, <1>2, <1>5 DEF KeepsCast, Connection, ConnInv, NextFits
  <1>11. Count' /\ client_count_' \in Int
    BY <1>1, <1>2, <1>3, <1>5, <1>6, SameCount DEF NextFits, Connection
  <1>12. Locks' /\ held' \in [{List} \cup Members -> Threads \cup {Nobody}]
    <2>1. \A u \in Threads : u # t => todo'[u] = todo[u]
      BY <1>6 DEF Frame
    <2>2. Locks /\ List \notin Members
      BY Finite DEF IInv
    <2>3. held \in [{List} \cup Members -> Threads \cup {Nobody}]
      BY DEF IInv, Types
    <2> QED
      BY <1>1, <1>2, <1>3, <1>7, <2>1, <2>2, <2>3, Threading DEF Locks, Doing
  <1> QED
    BY <1>6, <1>8, <1>9, <1>10, <1>11, <1>12, IoStep

LEMMA HandleStep ==
  ASSUME IInv, NEW t \in Io, NEW c \in Members, todo[t].c = c, close_handle(t)
  PROVE  IInv'
  <1>1. todo[t].op = "handle"
    BY Todo, Threading DEF close_handle, IInv
  <1>2. /\ ~Idle(t) /\ Of(t) = c /\ ConnInv(c) /\ t \in Threads
        /\ NextFits(t, c) /\ IoJob(t) /\ con[c] \in Connection
    BY <1>1, IoBusy, Todo, Threading DEF IInv, SettingUp
  <1>3. /\ con' = con
        /\ Then(t, <<>>) /\ clients_' = clients_ /\ client_count_' = client_count_
        /\ kind' = kind /\ slot' = slot /\ held' = [held EXCEPT ![c] = Nobody]
        /\ cast' = cast /\ all' = all
    BY <1>1, <1>2 DEF close_handle
  <1>4. Pops(t, c)
    BY <1>2, <1>3, IoDone
  <1>5. con' = con /\ con' \in [Members -> Connection]
    BY <1>3 DEF IInv, Types
  <1>6. Frame(t, c)
    BY <1>1, <1>2, <1>3, <1>4, <1>5 DEF Frame, IInv, Types, Pops
  <1>7. todo'[t].op \in {"idle", "drop"} /\ (todo'[t].op = "drop" => todo'[t].c = c)
    BY <1>1, <1>2, <1>4 DEF IoJob, Pops
  <1>8. IoJob(t)'
    BY <1>1, <1>2, <1>3, <1>4, <1>7 DEF IoJob, Pops
  <1>9. ConnInv(c)' /\ (Known(c) => Known(c)')
    <2>1. \A u \in Io : u # t => todo'[u] = todo[u]
      BY <1>6, Threading DEF Frame
    <2>2. (\A u \in Io : NextFits(u, c)) /\ Alone(c)
      BY <1>2 DEF ConnInv
    <2>3. \A u \in Io : NextFits(u, c)'
      BY <1>1, <1>2, <1>3, <1>5, <1>7, <2>1, <2>2, Finite DEF NextFits, ConnInv, Alone, SettingUp, Shaking, Connection
    <2>4. Alone(c)'
      BY <1>1, <1>2, <1>7, <2>1, <2>2, Finite DEF Alone, SettingUp, Shaking, NextFits, ConnInv
    <2>5. Known(c) => Known(c)'
      BY <1>1, <1>2, <1>5, <1>7, <2>1 DEF Known, Doing
    <2> QED
      BY <1>1, <1>2, <1>3, <1>5, <1>7, <2>3, <2>4, <2>5 DEF ConnInv, NextFits, Connection
  <1>10. KeepsCast(c)
    BY <1>1, <1>2, <1>5 DEF KeepsCast, Connection, ConnInv, NextFits
  <1>11. Count' /\ client_count_' \in Int
    BY <1>1, <1>2, <1>3, <1>5, <1>6, SameCount DEF NextFits, Connection
  <1>12. Locks' /\ held' \in [{List} \cup Members -> Threads \cup {Nobody}]
    <2>1. \A u \in Threads : u # t => todo'[u] = todo[u]
      BY <1>6 DEF Frame
    <2>2. Locks /\ List \notin Members
      BY Finite DEF IInv
    <2>3. held \in [{List} \cup Members -> Threads \cup {Nobody}]
      BY DEF IInv, Types
    <2> QED
      BY <1>1, <1>2, <1>3, <1>7, <2>1, <2>2, <2>3, Threading DEF Locks, Doing
  <1> QED
    BY <1>6, <1>8, <1>9, <1>10, <1>11, <1>12, IoStep

------------------------------------------------------------------------------
(* The steps of the user's thread.                                           *)

LEMMA UserBusy ==
  ASSUME IInv, ~Idle("user"), todo["user"].op # "unlist",
         NEW s, s = job["user"], NEW c, c = todo["user"].c
  PROVE  /\ Len(s) \in Nat /\ Len(s) >= 2 /\ c \in Members /\ s[1] = todo["user"]
         /\ DOMAIN s = 1..Len(s) /\ s[Len(s)] = Op("unlist", List) /\ Of("user") = c
         /\ s[1].op \in {"test", "send"} => cast.state = "on"
         /\ s[1].op \in {"close", "handle", "on_stop"} => all /\ cast.state = "no"
         /\ s[1].op = "on_stop" => slot = "lists" /\ s[2] = Op("handle", c) /\ Len(s) > 2
         /\ s[1].op \in {"test", "send", "close", "handle", "on_stop"}
  <1>0. Types /\ UserJob
    BY DEF IInv
  <1>1. /\ Len(s) \in Nat /\ Len(s) # 0 /\ s[1] = todo["user"] /\ Of("user") = c
        /\ DOMAIN s = 1..Len(s) /\ s # <<>>
    BY <1>0, Todo, Threading DEF Idle
  <1>2. s[Len(s)] = Op("unlist", List)
    BY <1>0, <1>1 DEF UserJob
  <1>3. Len(s) # 1
    BY <1>1, <1>2 DEF Op
  <1>4. Len(s) >= 2 /\ 1 \in 1..(Len(s) - 1)
    <2>1. \A n \in Nat : n # 0 /\ n # 1 => n >= 2 /\ 1 \in 1..(n - 1)
      OBVIOUS
    <2> QED
      BY <1>1, <1>3, <2>1
  <1>5. /\ s[1].c \in Members
        /\ \/ s[1].op = "test" /\ cast.state = "on"
           \/ s[1].op = "send" /\ cast.state = "on"
           \/ s[1].op \in {"close", "handle"} /\ all /\ cast.state = "no"
           \/ /\ s[1].op = "on_stop" /\ all /\ cast.state = "no"
              /\ slot = "lists" /\ Len(s) > 2 /\ s[2] = Op("handle", s[1].c)
    BY <1>0, <1>1, <1>4 DEF UserJob
  <1> QED
    BY <1>1, <1>2, <1>4, <1>5

\* What follows the step that is next.
LEMMA UserRest ==
  ASSUME IInv, ~Idle("user"), todo["user"].op # "unlist", NEW s, s = job["user"],
         NEW i \in 2..(Len(s) - 1)
  PROVE  /\ s[i].c \in Members
         /\ \/ s[i].op = "test" /\ cast.state = "on"
            \/ s[i].op = "close" /\ all /\ cast.state = "no"
            \/ s[i].op = "handle" /\ i = 2 /\ s[1].op = "on_stop" /\ all /\ cast.state = "no"
  <1>1. UserJob /\ s # <<>> /\ Len(s) \in Nat
    BY UserBusy DEF IInv, Idle
  <1>2. i \in 1..(Len(s) - 1) /\ i # 1
    BY <1>1
  <1> QED
    BY <1>1, <1>2 DEF UserJob

\* The user's thread has done its step and goes on.
LEMMA UserPops ==
  ASSUME IInv, ~Idle("user"), todo["user"].op # "unlist", Then("user", <<>>),
         cast'.state = cast.state, all' = all, slot' = slot
  PROVE  /\ UserJob' /\ job' \in [Threads -> Seq(Step)]
         /\ \A u \in Io : job'[u] = job[u] /\ todo'[u] = todo[u]
         /\ ~Idle("user")' /\ todo'["user"] = job["user"][2] /\ todo'["user"].op # "send"
         /\ DOMAIN job'["user"] = 1..(Len(job["user"]) - 1)
         /\ \A i \in 1..(Len(job["user"]) - 1) : job'["user"][i] = job["user"][i + 1]
  <1> DEFINE s == job["user"]  q == job'["user"]  e == <<>>
  <1>0. Types
    BY DEF IInv
  <1>1. /\ Len(s) \in Nat /\ Len(s) >= 2 /\ s[Len(s)] = Op("unlist", List)
        /\ s[1].op = "on_stop" => s[2] = Op("handle", s[1].c) /\ Len(s) > 2
    BY UserBusy
  <1>2. e \in Seq(Step) /\ Len(e) = 0 /\ Then("user", e)
    BY EmptySeq
  <1> HIDE DEF e
  <1>3. /\ job' \in [Threads -> Seq(Step)]
        /\ \A u \in Threads \ {"user"} : job'[u] = job[u] /\ todo'[u] = todo[u]
        /\ Len(q) = Len(e) + Len(s) - 1
        /\ \A i \in 2..Len(s) : q[Len(e) + i - 1] = s[i]
        /\ Len(q) # 0 => todo'["user"] = q[1]
    BY <1>0, <1>2, ThenSteps, Threading, ZenonT(30)
  <1> HIDE DEF s, q
  <1>4. Len(q) = Len(s) - 1 /\ \A i \in 1..(Len(s) - 1) : q[i] = s[i + 1]
    <2>1. Len(q) = Len(s) - 1
      BY <1>1, <1>2, <1>3
    <2>2. ASSUME NEW i \in 1..(Len(s) - 1) PROVE q[i] = s[i + 1]
      <3>1. i + 1 \in 2..Len(s) /\ Len(e) + (i + 1) - 1 = i
        BY <1>1, <1>2
      <3> QED
        BY <1>3, <3>1
    <2> QED
      BY <2>1, <2>2
  <1>5. q \in Seq(Step) /\ DOMAIN q = 1..Len(q) /\ q # <<>>
    BY <1>1, <1>3, <1>4, Threading, LenProperties DEF q
  <1>6. todo'["user"] = s[2]
    BY <1>1, <1>3, <1>4
  <1>7. q[Len(q)] = Op("unlist", List)
    BY <1>1, <1>4
  <1>8. ASSUME NEW i \in 1..(Len(q) - 1)
        PROVE  /\ q[i].c \in Members
               /\ \/ q[i].op = "test" /\ cast.state = "on"
                  \/ q[i].op = "close" /\ all /\ cast.state = "no"
                  \/ q[i].op = "handle" /\ all /\ cast.state = "no" /\ i = 1
    <2>1. i + 1 \in 2..(Len(s) - 1) /\ q[i] = s[i + 1]
      BY <1>1, <1>4
    <2>2. /\ s[i + 1].c \in Members
          /\ \/ s[i + 1].op = "test" /\ cast.state = "on"
             \/ s[i + 1].op = "close" /\ all /\ cast.state = "no"
             \/ s[i + 1].op = "handle" /\ i + 1 = 2 /\ all /\ cast.state = "no"
      BY <2>1, UserRest DEF s
    <2> QED
      BY <2>1, <2>2
  <1>9. UserJob'
    BY <1>5, <1>7, <1>8 DEF UserJob, q
  <1>10. todo'["user"].op # "send"
    <2>1. CASE Len(q) = 1
      <3>1. Op("unlist", List).op = "unlist"
        BY DEF Op
      <3>2. todo'["user"] = q[1]
        <4>1. Len(q) # 0 => todo'["user"] = q[1]
          BY <1>3
        <4> QED
          BY <2>1, <4>1
      <3>3. q[1] = Op("unlist", List)
        BY <1>7, <2>1
      <3> QED
        BY <3>1, <3>2, <3>3
    <2>2. CASE Len(q) # 1
      <3>1. 1 \in 1..(Len(q) - 1) /\ Len(q) # 0
        BY <1>1, <1>4, <2>2
      <3> QED
        BY <1>3, <1>8, <3>1
    <2> QED
      BY <2>1, <2>2
  <1> QED
    BY <1>1, <1>3, <1>4, <1>5, <1>6, <1>9, <1>10, Threading DEF s, q, Idle

\* A step of the user's that leaves the connections alone, or closes one.
LEMMA UserStep ==
  ASSUME IInv, Types', \A u \in Io : job'[u] = job[u] /\ todo'[u] = todo[u],
         kind' = kind, slot' = slot, clients_' = clients_, con' = con, all => all',
         UserJob', Locks', CastInv', client_count_' = client_count_,
         \A i \in DOMAIN job'["user"] : job'["user"][i].op = "close" =>
           Known(job'["user"][i].c)
  PROVE  IInv'
  <1>1. \A u \in Io : IoJob(u)'
    BY DEF IInv, IoJob, Idle
  <1>2. \A c : Known(c) => Known(c)'
    BY DEF Known, Doing
  <1>3. \A c \in Members : ConnInv(c)'
    <2> SUFFICES ASSUME NEW c \in Members PROVE ConnInv(c)'
      OBVIOUS
    <2>1. ConnInv(c)
      BY DEF IInv
    <2>2. \A u \in Io : NextFits(u, c)'
      BY <2>1 DEF ConnInv, NextFits
    <2>3. Alone(c)'
      BY <2>1 DEF ConnInv, Alone
    <2> QED
      BY <1>2, <2>1, <2>2, <2>3 DEF ConnInv
  <1>4. Count'
    BY DEF IInv, Count, Announced, Closed
  <1>5. WalkKnown'
    BY <1>2 DEF WalkKnown
  <1> QED
    BY <1>1, <1>3, <1>4, <1>5 DEF IInv

\* The user's thread goes on to the second half of a step.
LEMMA UserOne ==
  ASSUME IInv, ~Idle("user"), NEW c \in Members, todo["user"].c = c, NEW op,
         \/ todo["user"].op = "test" /\ op = "send"
         \/ todo["user"].op = "close" /\ op = "handle",
         Then("user", <<Op(op, c)>>), cast'.state = cast.state, all' = all, slot' = slot
  PROVE  /\ UserJob' /\ job' \in [Threads -> Seq(Step)]
         /\ \A u \in Io : job'[u] = job[u] /\ todo'[u] = todo[u]
         /\ ~Idle("user")' /\ todo'["user"] = Op(op, c) /\ job'["user"][1] = Op(op, c)
         /\ DOMAIN job'["user"] = DOMAIN job["user"] /\ 1 \in DOMAIN job["user"]
         /\ \A i \in DOMAIN job["user"] \ {1} : job'["user"][i] = job["user"][i]
  <1> DEFINE s == job["user"]  q == job'["user"]  e == <<Op(op, c)>>
  <1>0. Types
    BY DEF IInv
  <1>1. /\ Len(s) \in Nat /\ Len(s) >= 2 /\ s[Len(s)] = Op("unlist", List)
        /\ DOMAIN s = 1..Len(s) /\ s[1] = todo["user"]
        /\ s[1].op \in {"test", "send"} => cast.state = "on"
        /\ s[1].op \in {"close", "handle", "on_stop"} => all /\ cast.state = "no"
    BY UserBusy
  <1>2. Op(op, c) \in Step /\ Op(op, c).op = op /\ Op(op, c).c = c
    BY DEF Op, Step
  <1>3. e \in Seq(Step) /\ Len(e) = 1 /\ e[1] = Op(op, c) /\ Then("user", e)
    BY <1>2
  <1> HIDE DEF e
  <1>4. /\ job' \in [Threads -> Seq(Step)]
        /\ \A u \in Threads \ {"user"} : job'[u] = job[u] /\ todo'[u] = todo[u]
        /\ Len(q) = Len(e) + Len(s) - 1
        /\ \A i \in 1..Len(e) : q[i] = e[i]
        /\ \A i \in 2..Len(s) : q[Len(e) + i - 1] = s[i]
        /\ Len(q) # 0 => todo'["user"] = q[1]
    BY <1>0, <1>3, ThenSteps, Threading, ZenonT(30)
  <1> HIDE DEF s, q
  <1>5. Len(q) = Len(s) /\ q[1] = Op(op, c) /\ \A i \in 2..Len(s) : q[i] = s[i]
    <2>1. Len(q) = Len(s) /\ q[1] = Op(op, c)
      BY <1>1, <1>3, <1>4
    <2>2. ASSUME NEW i \in 2..Len(s) PROVE q[i] = s[i]
      <3>1. Len(e) + i - 1 = i
        BY <1>3
      <3> QED
        BY <1>4, <3>1
    <2> QED
      BY <2>1, <2>2
  <1>6. q \in Seq(Step) /\ DOMAIN q = 1..Len(q) /\ q # <<>>
    BY <1>1, <1>4, <1>5, Threading, LenProperties DEF q
  <1>7. todo'["user"] = Op(op, c)
    BY <1>1, <1>4, <1>5
  <1>8. q[Len(q)] = Op("unlist", List)
    BY <1>1, <1>5
  <1>9. ASSUME NEW i \in 1..(Len(q) - 1)
        PROVE  /\ q[i].c \in Members
               /\ \/ q[i].op = "test" /\ cast.state = "on"
                  \/ q[i].op = "send" /\ cast.state = "on" /\ i = 1
                  \/ q[i].op = "close" /\ all /\ cast.state = "no"
                  \/ q[i].op = "handle" /\ all /\ cast.state = "no" /\ i = 1
    <2>1. CASE i = 1
      BY <1>1, <1>2, <1>5, <2>1
    <2>2. CASE i # 1
      <3>1. i \in 2..(Len(s) - 1) /\ q[i] = s[i]
        BY <1>1, <1>5, <2>2
      <3>2. /\ s[i].c \in Members
            /\ \/ s[i].op = "test" /\ cast.state = "on"
               \/ s[i].op = "close" /\ all /\ cast.state = "no"
               \/ s[i].op = "handle" /\ s[1].op = "on_stop"
        BY <3>1, UserRest, UserBusy DEF s
      <3> QED
        BY <1>1, <3>1, <3>2
    <2> QED
      BY <2>1, <2>2
  <1>10. UserJob'
    BY <1>6, <1>8, <1>9 DEF UserJob, q
  <1> QED
    BY <1>1, <1>4, <1>5, <1>6, <1>7, <1>10, Threading DEF s, q, Idle

StopSteps(c) == <<Op("on_stop", c), Op("handle", c)>>

LEMMA UserTwo ==
  ASSUME IInv, ~Idle("user"), NEW c \in Members, todo["user"].c = c,
         todo["user"].op = "close", slot = "lists",
         Then("user", StopSteps(c)), cast'.state = cast.state, all' = all, slot' = slot
  PROVE  /\ UserJob' /\ job' \in [Threads -> Seq(Step)]
         /\ \A u \in Io : job'[u] = job[u] /\ todo'[u] = todo[u]
         /\ ~Idle("user")' /\ todo'["user"] = Op("on_stop", c)
         /\ job'["user"][1] = Op("on_stop", c) /\ job'["user"][2] = Op("handle", c)
         /\ \A i \in DOMAIN job'["user"] \ {1, 2} :
              i - 1 \in DOMAIN job["user"] /\ job'["user"][i] = job["user"][i - 1]
  <1> DEFINE s == job["user"]  q == job'["user"]  e == StopSteps(c)
  <1>0. Types
    BY DEF IInv
  <1>1. /\ Len(s) \in Nat /\ Len(s) >= 2 /\ s[Len(s)] = Op("unlist", List)
        /\ DOMAIN s = 1..Len(s) /\ s[1] = todo["user"] /\ all /\ cast.state = "no"
    BY UserBusy
  <1>2. /\ Op("on_stop", c) \in Step /\ Op("on_stop", c).op = "on_stop" /\ Op("on_stop", c).c = c
        /\ Op("handle", c) \in Step /\ Op("handle", c).op = "handle" /\ Op("handle", c).c = c
    BY DEF Op, Step
  <1>3. /\ e \in Seq(Step) /\ Len(e) = 2 /\ e[1] = Op("on_stop", c) /\ e[2] = Op("handle", c)
        /\ Then("user", e)
    BY <1>2 DEF StopSteps
  <1> HIDE DEF e
  <1>4. /\ job' \in [Threads -> Seq(Step)]
        /\ \A u \in Threads \ {"user"} : job'[u] = job[u] /\ todo'[u] = todo[u]
        /\ Len(q) = Len(e) + Len(s) - 1
        /\ \A i \in 1..Len(e) : q[i] = e[i]
        /\ \A i \in 2..Len(s) : q[Len(e) + i - 1] = s[i]
        /\ Len(q) # 0 => todo'["user"] = q[1]
    <2>1. e \in Seq(Step) /\ Then("user", e) /\ "user" \in Threads
      BY <1>3, Threading
    <2> QED
      BY <1>0, <2>1, ThenSteps
  <1> HIDE DEF s, q
  <1>5. /\ Len(q) = Len(s) + 1 /\ q[1] = Op("on_stop", c) /\ q[2] = Op("handle", c)
        /\ \A i \in 3..Len(q) : i - 1 \in 2..Len(s) /\ q[i] = s[i - 1]
    <2>1. Len(q) = Len(s) + 1 /\ q[1] = Op("on_stop", c) /\ q[2] = Op("handle", c)
      BY <1>1, <1>3, <1>4
    <2>2. ASSUME NEW i \in 3..Len(q) PROVE i - 1 \in 2..Len(s) /\ q[i] = s[i - 1]
      <3>1. Len(e) + (i - 1) - 1 = i /\ i - 1 \in 2..Len(s)
        BY <1>1, <1>3, <2>1
      <3> QED
        BY <1>4, <3>1
    <2> QED
      BY <2>1, <2>2
  <1>6. q \in Seq(Step) /\ DOMAIN q = 1..Len(q) /\ q # <<>>
    BY <1>1, <1>4, <1>5, Threading, LenProperties DEF q
  <1>7. todo'["user"] = Op("on_stop", c)
    BY <1>1, <1>4, <1>5
  <1>8. q[Len(q)] = Op("unlist", List)
    BY <1>1, <1>5
  <1>9. ASSUME NEW i \in 1..(Len(q) - 1)
        PROVE  /\ q[i].c \in Members
               /\ \/ q[i].op = "test" /\ cast.state = "on"
                  \/ q[i].op = "close" /\ all /\ cast.state = "no"
                  \/ q[i].op = "handle" /\ all /\ cast.state = "no" /\ i = 2 /\ q[1].op = "on_stop"
                  \/ /\ q[i].op = "on_stop" /\ all /\ cast.state = "no"
                     /\ i = 1 /\ slot = "lists" /\ Len(q) > 2
                     /\ q[2] = Op("handle", q[1].c)
    <2>1. CASE i = 1
      BY <1>1, <1>2, <1>5, <2>1
    <2>2. CASE i = 2
      BY <1>1, <1>2, <1>5, <2>2
    <2>3. CASE i # 1 /\ i # 2
      <3>1. i \in 3..Len(q) /\ i - 1 \in 2..(Len(s) - 1)
        BY <1>1, <1>5, <2>3
      <3>2. /\ s[i - 1].c \in Members
            /\ \/ s[i - 1].op = "test" /\ cast.state = "on"
               \/ s[i - 1].op = "close" /\ all /\ cast.state = "no"
               \/ s[i - 1].op = "handle" /\ s[1].op = "on_stop"
        BY <3>1, UserRest DEF s
      <3> QED
        BY <1>1, <1>5, <3>1, <3>2
    <2> QED
      BY <2>1, <2>2, <2>3
  <1>10. UserJob'
    BY <1>6, <1>8, <1>9 DEF UserJob, q
  <1>11. \A i \in DOMAIN q \ {1, 2} : i - 1 \in DOMAIN s /\ q[i] = s[i - 1]
    <2> SUFFICES ASSUME NEW i \in DOMAIN q \ {1, 2} PROVE i - 1 \in DOMAIN s /\ q[i] = s[i - 1]
      OBVIOUS
    <2>1. i \in 3..Len(q)
      BY <1>1, <1>5, <1>6
    <2>2. i - 1 \in 2..Len(s) /\ q[i] = s[i - 1]
      BY <1>5, <2>1
    <2> QED
      BY <1>1, <2>2
  <1> QED
    BY <1>4, <1>5, <1>6, <1>7, <1>10, <1>11, Threading DEF s, q, Idle

\* The user's thread closes c.
Closes(c) ==
  /\ con' \in [Members -> Connection] /\ \A d \in Members \ {c} : con'[d] = con[d]
  /\ con'[c].closed = TRUE /\ con'[c].stops = con[c].stops + 1
  /\ con'[c].made = con[c].made /\ con'[c].announced = con[c].announced
  /\ con'[c].thrown = con[c].thrown /\ con'[c].ready = con[c].ready
  /\ con'[c].hello = con[c].hello /\ con'[c].bye = con[c].bye
  /\ con'[c].reading = con[c].reading /\ con'[c].everRead = con[c].everRead
  /\ con'[c].timer = con[c].timer /\ con'[c].tls = con[c].tls
  /\ con'[c].switched = con[c].switched /\ con'[c].tlsTimer = con[c].tlsTimer

LEMMA UserCloses ==
  ASSUME IInv, Types', \A u \in Io : job'[u] = job[u] /\ todo'[u] = todo[u],
         kind' = kind, slot' = slot, clients_' = clients_, all' = all, cast' = cast,
         cast.state = "no",
         NEW c \in Members, ~con[c].closed, all, Known(c), Closes(c),
         UserJob', Locks', client_count_' = client_count_ - 1,
         \A i \in DOMAIN job'["user"] : job'["user"][i].op = "close" =>
           Known(job'["user"][i].c)
  PROVE  IInv'
  <1>1. \A u \in Io : IoJob(u)'
    BY DEF IInv, IoJob, Idle
  <1>2. \A d \in Members : con'[d].announced = con[d].announced
    BY DEF Closes
  <1>3. \A d \in Members : Known(d) => Known(d)'
    BY <1>2 DEF Known, Doing
  <1>4. \A d \in Members : ConnInv(d)'
    <2> SUFFICES ASSUME NEW d \in Members PROVE ConnInv(d)'
      OBVIOUS
    <2>1. ConnInv(d)
      BY DEF IInv
    <2>1a. Alone(d)'
      BY <2>1 DEF ConnInv, Alone
    <2>2. CASE d # c
      <3>1. con'[d] = con[d]
        BY <2>2 DEF Closes
      <3>2. \A u \in Io : NextFits(u, d)'
        BY <2>1, <3>1 DEF ConnInv, NextFits
      <3> QED
        BY <1>3, <2>1, <2>1a, <3>1, <3>2 DEF ConnInv
    <2>3. CASE d = c
      <3>1. \A u \in Io : NextFits(u, c)
        BY <2>1, <2>3 DEF ConnInv
      <3>2. \A u \in Io : NextFits(u, c)'
        BY <3>1 DEF NextFits, Closes
      <3> QED
        BY <1>3, <2>1, <2>1a, <2>3, <3>2 DEF ConnInv, Closes
    <2> QED
      BY <2>2, <2>3
  <1>5. Count'
    BY OneLess DEF Closes
  <1>6. WalkKnown'
    <2>1. \A i \in DOMAIN job'["user"] : job'["user"][i].op = "close" =>
            job'["user"][i].c \in Members
      <3> SUFFICES ASSUME NEW i \in DOMAIN job'["user"], job'["user"][i].op = "close"
                   PROVE  job'["user"][i].c \in Members
        OBVIOUS
      <3>1. /\ job'["user"] \in Seq(Step)
        BY Threading DEF Types
      <3>2. /\ Len(job'["user"]) \in Nat /\ DOMAIN job'["user"] = 1..Len(job'["user"])
            /\ job'["user"] # <<>>
        BY <3>1, LenProperties, EmptySeq
      <3>3. i # Len(job'["user"])
        BY <3>2 DEF UserJob, Op
      <3> QED
        BY <3>2, <3>3 DEF UserJob
    <2> QED
      BY <1>3, <2>1 DEF WalkKnown
  <1>7. CastInv'
    <2>1. cast.steady \subseteq Members
      BY DEF IInv, Types, Broadcast
    <2>2. \A d \in Members : con'[d].switched = con[d].switched /\ con'[d].ready = con[d].ready
      BY DEF Closes
    <2> QED
      BY <2>1, <2>2 DEF IInv, CastInv, BroadcastReaches
  <1> QED
    BY <1>1, <1>4, <1>5, <1>6, <1>7 DEF IInv

\* Outside a broadcast, a step of the user's that leaves the connections alone
\* keeps what is said of the last one.
LEMMA NoCast ==
  ASSUME IInv, cast' = cast, cast.state = "no", con' = con
  PROVE  CastInv'
  BY DEF IInv, CastInv, BroadcastReaches

LEMMA UserAtClose ==
  ASSUME IInv, todo["user"].op \in {"close", "handle", "on_stop"}
  PROVE  /\ ~Idle("user") /\ todo["user"].c \in Members /\ Of("user") = todo["user"].c
         /\ all /\ cast.state = "no" /\ con[todo["user"].c] \in Connection
         /\ todo["user"].op = "close" => Known(todo["user"].c)
         /\ todo["user"].op = "on_stop" =>
              slot = "lists" /\ job["user"][2] = Op("handle", todo["user"].c)
         /\ \A i \in DOMAIN job["user"] : job["user"][i].op = "close" => Known(job["user"][i].c)
         /\ Len(job["user"]) \in Nat /\ DOMAIN job["user"] = 1..Len(job["user"])
         /\ 1 \in DOMAIN job["user"] /\ job["user"][1] = todo["user"]
  <1>1. ~Idle("user")
    BY Todo, Threading DEF IInv
  <1>2. /\ Len(job["user"]) \in Nat /\ Len(job["user"]) >= 2 /\ todo["user"].c \in Members
        /\ job["user"][1] = todo["user"] /\ DOMAIN job["user"] = 1..Len(job["user"])
        /\ Of("user") = todo["user"].c /\ all /\ cast.state = "no"
        /\ todo["user"].op = "on_stop" =>
             slot = "lists" /\ job["user"][2] = Op("handle", todo["user"].c)
    BY <1>1, UserBusy
  <1>3. \A i \in DOMAIN job["user"] : job["user"][i].op = "close" => Known(job["user"][i].c)
    BY DEF IInv, WalkKnown
  <1>4. 1 \in DOMAIN job["user"]
    BY <1>2
  <1>5. todo["user"].op = "close" => Known(todo["user"].c)
    BY <1>2, <1>3, <1>4
  <1> QED
    BY <1>1, <1>2, <1>3, <1>4, <1>5 DEF IInv, Types

LEMMA UserClosedStep ==
  ASSUME IInv, close("user"), con[Of("user")].closed
  PROVE  IInv'
  <1>1. todo["user"].op = "close"
    BY Todo, Threading DEF close, IInv
  <1>2. /\ ~Idle("user") /\ cast.state = "no"
        /\ \A i \in DOMAIN job["user"] : job["user"][i].op = "close" => Known(job["user"][i].c)
        /\ Len(job["user"]) \in Nat /\ DOMAIN job["user"] = 1..Len(job["user"])
    BY <1>1, UserAtClose
  <1>3. /\ Then("user", <<>>) /\ con' = con /\ client_count_' = client_count_ /\ held' = held
        /\ kind' = kind /\ slot' = slot /\ clients_' = clients_ /\ cast' = cast /\ all' = all
    BY DEF close
  <1>4. /\ UserJob' /\ job' \in [Threads -> Seq(Step)]
        /\ \A u \in Io : job'[u] = job[u] /\ todo'[u] = todo[u]
        /\ DOMAIN job'["user"] = 1..(Len(job["user"]) - 1)
        /\ \A i \in 1..(Len(job["user"]) - 1) : job'["user"][i] = job["user"][i + 1]
    BY <1>1, <1>2, <1>3, UserPops
  <1>5. ASSUME NEW i \in DOMAIN job'["user"], job'["user"][i].op = "close"
        PROVE  Known(job'["user"][i].c)
    <2>1. i + 1 \in DOMAIN job["user"] /\ job'["user"][i] = job["user"][i + 1]
      BY <1>2, <1>4
    <2> QED
      BY <1>2, <1>5, <2>1
  <1>6. Locks'
    BY <1>1, <1>3, <1>4, Threading DEF IInv, Locks, Doing
  <1>7. CastInv'
    BY <1>2, <1>3, NoCast
  <1>8. Types'
    BY <1>3, <1>4 DEF IInv, Types
  <1> QED
    BY <1>3, <1>4, <1>5, <1>6, <1>7, <1>8, UserStep

LEMMA UserCloseStep ==
  ASSUME IInv, close("user"), NEW c \in Members, todo["user"].c = c, ~con[c].closed
  PROVE  IInv'
  <1>1. todo["user"].op = "close"
    BY Todo, Threading DEF close, IInv
  <1>2. /\ ~Idle("user") /\ cast.state = "no" /\ all /\ Known(c) /\ Of("user") = c
        /\ \A i \in DOMAIN job["user"] : job["user"][i].op = "close" => Known(job["user"][i].c)
        /\ Len(job["user"]) \in Nat /\ DOMAIN job["user"] = 1..Len(job["user"])
        /\ con[c] \in Connection
    BY <1>1, UserAtClose
  <1>3. /\ con' = [con EXCEPT ![c].closed = TRUE, ![c].stops = con[c].stops + 1]
        /\ client_count_' = client_count_ - 1 /\ held' = [held EXCEPT ![c] = "user"]
        /\ kind' = kind /\ slot' = slot /\ clients_' = clients_ /\ cast' = cast /\ all' = all
        /\ slot # "lists" => Then("user", <<Op("handle", c)>>)
        /\ slot = "lists" => Then("user", StopSteps(c))
    BY <1>2 DEF close, StopSteps
  <1>4. Closes(c)
    <2>1. con \in [Members -> Connection] /\ con[c].stops + 1 \in Nat
      BY <1>2 DEF IInv, Types, Connection
    <2> QED
      BY <1>2, <1>3, <2>1 DEF Closes, Connection
  <1>4a. /\ Locks /\ List \notin Members
         /\ held \in [{List} \cup Members -> Threads \cup {Nobody}]
    BY Finite DEF IInv, Types
  <1>5. CASE slot # "lists"
    <2>1. /\ UserJob' /\ job' \in [Threads -> Seq(Step)]
          /\ \A u \in Io : job'[u] = job[u] /\ todo'[u] = todo[u]
          /\ todo'["user"] = Op("handle", c) /\ job'["user"][1] = Op("handle", c)
          /\ DOMAIN job'["user"] = DOMAIN job["user"]
          /\ \A i \in DOMAIN job["user"] \ {1} : job'["user"][i] = job["user"][i]
      BY <1>1, <1>2, <1>3, <1>5, UserOne
    <2>2. Op("handle", c).op = "handle" /\ Op("handle", c).c = c
      BY DEF Op
    <2>3. \A i \in DOMAIN job'["user"] : job'["user"][i].op = "close" => Known(job'["user"][i].c)
      BY <1>2, <2>1, <2>2
    <2>4. Locks'
      BY <1>1, <1>3, <1>4a, <2>1, <2>2, Threading DEF Locks, Doing
    <2>5. Types'
      BY <1>3, <1>4, <2>1, Threading DEF IInv, Types, Closes
    <2> QED
      BY <1>2, <1>3, <1>4, <2>1, <2>3, <2>4, <2>5, UserCloses
  <1>6. CASE slot = "lists"
    <2>1. /\ UserJob' /\ job' \in [Threads -> Seq(Step)]
          /\ \A u \in Io : job'[u] = job[u] /\ todo'[u] = todo[u]
          /\ todo'["user"] = Op("on_stop", c)
          /\ job'["user"][1] = Op("on_stop", c) /\ job'["user"][2] = Op("handle", c)
          /\ \A i \in DOMAIN job'["user"] \ {1, 2} :
               i - 1 \in DOMAIN job["user"] /\ job'["user"][i] = job["user"][i - 1]
      BY <1>1, <1>2, <1>3, <1>6, UserTwo
    <2>2. /\ Op("handle", c).op = "handle" /\ Op("on_stop", c).op = "on_stop"
          /\ Op("on_stop", c).c = c
      BY DEF Op
    <2>3. \A i \in DOMAIN job'["user"] : job'["user"][i].op = "close" => Known(job'["user"][i].c)
      <3> SUFFICES ASSUME NEW i \in DOMAIN job'["user"], job'["user"][i].op = "close"
                   PROVE  Known(job'["user"][i].c)
        OBVIOUS
      <3>1. i # 1 /\ i # 2
        BY <2>1, <2>2
      <3> QED
        BY <1>2, <2>1, <3>1
    <2>4. Locks'
      BY <1>1, <1>3, <1>4a, <1>6, <2>1, <2>2, Threading DEF Locks, Doing
    <2>5. Types'
      BY <1>3, <1>4, <2>1, Threading DEF IInv, Types, Closes
    <2> QED
      BY <1>2, <1>3, <1>4, <2>1, <2>3, <2>4, <2>5, UserCloses
  <1> QED
    BY <1>5, <1>6

\* The slot of on_stop_connection, and the end of a close.
LEMMA UserEndStep ==
  ASSUME IInv, on_stop_connection("user") \/ close_handle("user"),
         NEW c \in Members, todo["user"].c = c
  PROVE  IInv'
  <1>1. /\ on_stop_connection("user") => todo["user"].op = "on_stop"
        /\ close_handle("user") => todo["user"].op = "handle"
    BY Todo, Threading DEF on_stop_connection, close_handle, IInv
  <1>2. /\ ~Idle("user") /\ cast.state = "no" /\ Of("user") = c
        /\ \A i \in DOMAIN job["user"] : job["user"][i].op = "close" => Known(job["user"][i].c)
        /\ Len(job["user"]) \in Nat /\ DOMAIN job["user"] = 1..Len(job["user"])
        /\ todo["user"].op = "on_stop" => slot = "lists" /\ job["user"][2] = Op("handle", c)
    BY <1>1, UserAtClose
  <1>3. /\ Then("user", <<>>) /\ con' = con /\ client_count_' = client_count_
        /\ kind' = kind /\ slot' = slot /\ clients_' = clients_ /\ cast' = cast /\ all' = all
    BY DEF on_stop_connection, close_handle
  <1>4. /\ todo["user"].op = "on_stop" => held' = held
        /\ todo["user"].op = "handle" => held' = [held EXCEPT ![c] = Nobody]
    BY <1>1, <1>2 DEF on_stop_connection, close_handle
  <1>5. /\ UserJob' /\ job' \in [Threads -> Seq(Step)]
        /\ \A u \in Io : job'[u] = job[u] /\ todo'[u] = todo[u]
        /\ todo'["user"] = job["user"][2]
        /\ DOMAIN job'["user"] = 1..(Len(job["user"]) - 1)
        /\ \A i \in 1..(Len(job["user"]) - 1) : job'["user"][i] = job["user"][i + 1]
    BY <1>1, <1>2, <1>3, UserPops
  <1>6. ASSUME NEW i \in DOMAIN job'["user"], job'["user"][i].op = "close"
        PROVE  Known(job'["user"][i].c)
    <2>1. i + 1 \in DOMAIN job["user"] /\ job'["user"][i] = job["user"][i + 1]
      BY <1>2, <1>5
    <2> QED
      BY <1>2, <1>6, <2>1
  <1>7. held' \in [{List} \cup Members -> Threads \cup {Nobody}]
    BY <1>1, <1>4 DEF IInv, Types
  <1>8. Locks'
    <2>1. Op("handle", c).op = "handle" /\ Op("handle", c).c = c
      BY DEF Op
    <2>2. Locks /\ List \notin Members /\ held \in [{List} \cup Members -> Threads \cup {Nobody}]
      BY Finite DEF IInv, Types
    <2>3. CASE todo["user"].op = "on_stop"
      BY <1>2, <1>3, <1>4, <1>5, <2>1, <2>2, <2>3, Threading DEF Locks, Doing
    <2>4. CASE todo["user"].op = "handle"
      BY <1>3, <1>4, <1>5, <2>2, <2>4, Threading DEF Locks, Doing
    <2> QED
      BY <1>1, <2>3, <2>4
  <1>9. CastInv'
    BY <1>2, <1>3, NoCast
  <1>10. Types'
    BY <1>3, <1>5, <1>7 DEF IInv, Types
  <1> QED
    BY <1>3, <1>5, <1>6, <1>8, <1>9, <1>10, UserStep

LEMMA UserAtUnlist ==
  ASSUME IInv, todo["user"].op = "unlist"
  PROVE  ~Idle("user") /\ Len(job["user"]) = 1 /\ job["user"][1] = Op("unlist", List)
         /\ DOMAIN job["user"] = {1}
  <1> DEFINE s == job["user"]
  <1>0. Types /\ UserJob
    BY DEF IInv
  <1>1. /\ ~Idle("user") /\ Len(s) \in Nat /\ Len(s) # 0 /\ s[1] = todo["user"]
        /\ DOMAIN s = 1..Len(s) /\ s # <<>>
    BY <1>0, Todo, Threading DEF Idle
  <1>2. Len(s) = 1
    <2> SUFFICES ASSUME Len(s) # 1 PROVE FALSE
      OBVIOUS
    <2>1. 1 \in 1..(Len(s) - 1)
      <3>1. \A n \in Nat : n # 0 /\ n # 1 => 1 \in 1..(n - 1)
        OBVIOUS
      <3> QED
        BY <1>1, <3>1
    <2> QED
      BY <1>0, <1>1, <2>1 DEF UserJob
  <1>3. s[Len(s)] = Op("unlist", List)
    BY <1>0, <1>1 DEF UserJob
  <1> QED
    BY <1>1, <1>2, <1>3

LEMMA UnlistStep ==
  ASSUME IInv, NEW t \in Threads, unlist(t)
  PROVE  IInv'
  <1>1. todo[t].op = "unlist"
    BY Todo DEF unlist, IInv
  <1>2. t = "user"
    <2> SUFFICES ASSUME t \in Io PROVE FALSE
      BY Threading
    <2>1. IoJob(t) /\ ~Idle(t)
      BY <1>1, Todo DEF IInv
    <2> QED
      BY <1>1, <2>1 DEF IoJob
  <1>3. ~Idle("user") /\ job["user"][1] = Op("unlist", List) /\ DOMAIN job["user"] = {1}
    BY <1>1, <1>2, UserAtUnlist
  <1>4. /\ Does("user", <<>>) /\ held' = [held EXCEPT ![List] = Nobody]
        /\ cast' = IF cast.state = "on" THEN [cast EXCEPT !.state = "sent"] ELSE cast
        /\ con' = con /\ client_count_' = client_count_
        /\ kind' = kind /\ slot' = slot /\ clients_' = clients_ /\ all' = all
    BY <1>2 DEF unlist
  <1>5. /\ job' \in [Threads -> Seq(Step)] /\ job'["user"] = <<>>
        /\ \A u \in Io : job'[u] = job[u] /\ todo'[u] = todo[u]
    <2>1. <<>> \in Seq(Step) /\ Types
      BY EmptySeq DEF IInv
    <2>2. "user" \in Threads /\ Does("user", <<>>)
      BY <1>4, Threading
    <2>3. /\ job' \in [Threads -> Seq(Step)] /\ job'["user"] = <<>>
          /\ \A u \in Threads \ {"user"} : job'[u] = job[u] /\ todo'[u] = todo[u]
      BY <2>1, <2>2, DoesSteps
    <2> QED
      BY <2>3, Threading, Zenon
  <1>6. UserJob'
    BY <1>5 DEF UserJob
  <1>7. /\ cast \in Broadcast
        /\ Locks /\ List \notin Members /\ held \in [{List} \cup Members -> Threads \cup {Nobody}]
    BY Finite DEF IInv, Types
  <1>8. /\ cast' \in Broadcast
        /\ cast'.got = cast.got /\ cast'.sender = cast.sender /\ cast'.steady = cast.steady
        /\ cast'.state = IF cast.state = "on" THEN "sent" ELSE cast.state
    BY <1>4, <1>7 DEF Broadcast
  <1>9. Types'
    BY <1>4, <1>5, <1>7, <1>8 DEF IInv, Types
  <1>10. Locks'
    BY <1>1, <1>2, <1>4, <1>5, <1>7, Threading DEF Locks, Doing
  <1>11. CastInv'
    <2>1. \A c : ~Pending(c)
      BY <1>3 DEF Pending, Op
    <2>2. CastInv
      BY DEF IInv
    <2> QED
      BY <1>4, <1>8, <2>1, <2>2 DEF CastInv, BroadcastReaches
  <1>12. DOMAIN job'["user"] = {}
    BY <1>5
  <1> QED
    BY <1>4, <1>5, <1>6, <1>9, <1>10, <1>11, <1>12, UserStep

LEMMA UserAtCast ==
  ASSUME IInv, NEW t \in Threads, todo[t].op \in {"test", "send"}
  PROVE  /\ t = "user" /\ ~Idle("user") /\ todo[t].c \in Members /\ Of("user") = todo[t].c
         /\ cast.state = "on" /\ Len(job["user"]) \in Nat /\ Len(job["user"]) >= 2
         /\ DOMAIN job["user"] = 1..Len(job["user"]) /\ job["user"][1] = todo["user"]
         /\ \A i \in DOMAIN job["user"] : job["user"][i].op # "close"
  <1>1. t = "user"
    <2> SUFFICES ASSUME t \in Io PROVE FALSE
      BY Threading
    <2>1. IoJob(t) /\ ~Idle(t)
      BY Todo DEF IInv
    <2> QED
      BY <2>1 DEF IoJob
  <1>2. ~Idle("user")
    BY <1>1, Todo DEF IInv
  <1>3. /\ Len(job["user"]) \in Nat /\ Len(job["user"]) >= 2 /\ todo["user"].c \in Members
        /\ job["user"][1] = todo["user"] /\ DOMAIN job["user"] = 1..Len(job["user"])
        /\ Of("user") = todo["user"].c /\ cast.state = "on"
        /\ job["user"][Len(job["user"])] = Op("unlist", List)
    BY <1>1, <1>2, UserBusy
  <1>4. ASSUME NEW i \in DOMAIN job["user"] PROVE job["user"][i].op # "close"
    <2>1. CASE i = Len(job["user"])
      BY <1>3, <2>1 DEF Op
    <2>2. CASE i = 1
      BY <1>1, <1>3, <2>2
    <2>3. CASE i # 1 /\ i # Len(job["user"])
      <3>1. i \in 2..(Len(job["user"]) - 1)
        BY <1>3, <2>3
      <3>2. job["user"][i].op = "test" \/ cast.state = "no"
        BY <1>1, <1>2, <3>1, UserRest
      <3> QED
        BY <1>3, <3>2
    <2> QED
      BY <2>1, <2>2, <2>3
  <1> QED
    BY <1>1, <1>2, <1>3, <1>4

\* send_to_client finds the client active, or passes it over.
LEMMA TestStep ==
  ASSUME IInv, NEW t \in Threads, send_to_client(t)
  PROVE  IInv'
  <1>1. todo[t].op = "test"
    BY Todo DEF send_to_client, IInv
  <1>2. /\ t = "user" /\ ~Idle("user") /\ todo["user"].c \in Members /\ Of("user") = todo["user"].c
        /\ cast.state = "on" /\ Len(job["user"]) \in Nat /\ Len(job["user"]) >= 2
        /\ DOMAIN job["user"] = 1..Len(job["user"]) /\ job["user"][1] = todo["user"]
        /\ \A i \in DOMAIN job["user"] : job["user"][i].op # "close"
    BY <1>1, UserAtCast
  <1>3. PICK c \in Members : todo["user"].c = c
    BY <1>2
  <1>4. /\ Then("user", IF c # cast.sender /\ con[c].ready THEN <<Op("send", c)>> ELSE <<>>) /\ con' = con
        /\ client_count_' = client_count_ /\ held' = held
        /\ kind' = kind /\ slot' = slot /\ clients_' = clients_ /\ cast' = cast /\ all' = all
    BY <1>2, <1>3 DEF send_to_client
  <1>5. Op("send", c).op = "send" /\ Op("send", c).c = c /\ job["user"][1] = Op("test", c)
    <2>1. todo["user"] \in Step
      BY <1>2, Todo, Threading DEF IInv
    <2> QED
      BY <1>1, <1>2, <1>3, <2>1 DEF Op, Step
  <1>6. Types /\ CastInv /\ Locks
    BY DEF IInv
  <1>7. CASE c # cast.sender /\ con[c].ready
    <2>1. /\ UserJob' /\ job' \in [Threads -> Seq(Step)]
          /\ \A u \in Io : job'[u] = job[u] /\ todo'[u] = todo[u]
          /\ ~Idle("user")' /\ todo'["user"] = Op("send", c) /\ job'["user"][1] = Op("send", c)
          /\ DOMAIN job'["user"] = DOMAIN job["user"] /\ 1 \in DOMAIN job["user"]
          /\ \A i \in DOMAIN job["user"] \ {1} : job'["user"][i] = job["user"][i]
      BY <1>1, <1>2, <1>3, <1>4, <1>7, UserOne
    <2>2. \A i \in DOMAIN job'["user"] : job'["user"][i].op # "close"
      BY <1>2, <1>5, <2>1
    <2>3. ASSUME NEW d, Pending(d) PROVE Pending(d)'
      <3>1. PICK i \in DOMAIN job["user"] : job["user"][i] \in {Op("test", d), Op("send", d)}
        BY <2>3 DEF Pending
      <3>2. CASE i = 1
        <4>1. d = c
          BY <1>5, <3>1, <3>2 DEF Op
        <4> QED
          BY <2>1, <4>1 DEF Pending
      <3>3. CASE i # 1
        BY <2>1, <3>1, <3>3 DEF Pending
      <3> QED
        BY <3>2, <3>3
    <2>4. CastInv'
      BY <1>4, <1>5, <1>6, <1>7, <2>1, <2>3 DEF CastInv, BroadcastReaches
    <2>5. Locks'
      BY <1>1, <1>2, <1>4, <1>6, <2>1, Threading DEF Locks, Doing
    <2>6. Types'
      BY <1>4, <1>6, <2>1 DEF Types
    <2> QED
      BY <1>4, <2>1, <2>2, <2>4, <2>5, <2>6, UserStep
  <1>8. CASE ~(c # cast.sender /\ con[c].ready)
    <2>0. Then("user", <<>>)
      BY <1>4, <1>8
    <2>1. /\ UserJob' /\ job' \in [Threads -> Seq(Step)]
          /\ \A u \in Io : job'[u] = job[u] /\ todo'[u] = todo[u]
          /\ ~Idle("user")' /\ todo'["user"].op # "send"
          /\ DOMAIN job'["user"] = 1..(Len(job["user"]) - 1)
          /\ \A i \in 1..(Len(job["user"]) - 1) : job'["user"][i] = job["user"][i + 1]
      BY <1>1, <1>2, <1>4, <2>0, UserPops
    <2>2. ASSUME NEW i \in DOMAIN job'["user"] PROVE job'["user"][i].op # "close"
      <3>1. i \in 1..(Len(job["user"]) - 1)
        BY <2>1
      <3>2. i + 1 \in DOMAIN job["user"]
        BY <1>2, <3>1
      <3>3. job'["user"][i] = job["user"][i + 1]
        BY <2>1, <3>1
      <3> QED
        BY <1>2, <3>2, <3>3
    <2>3. ASSUME NEW d, Pending(d), d # c PROVE Pending(d)'
      <3>1. PICK i \in DOMAIN job["user"] : job["user"][i] \in {Op("test", d), Op("send", d)}
        BY <2>3 DEF Pending
      <3>2. i # 1
        BY <1>5, <2>3, <3>1 DEF Op
      <3>3. i - 1 \in 1..(Len(job["user"]) - 1) /\ (i - 1) + 1 = i
        <4>1. \A n \in Nat : \A k \in 1..n : k # 1 => k - 1 \in 1..(n - 1) /\ (k - 1) + 1 = k
          OBVIOUS
        <4> QED
          BY <1>2, <3>1, <3>2, <4>1
      <3>4. job'["user"][i - 1] = job["user"][i] /\ i - 1 \in DOMAIN job'["user"]
        BY <2>1, <3>3
      <3> QED
        BY <3>1, <3>4 DEF Pending
    <2>4. CastInv'
      BY <1>4, <1>6, <1>8, <2>1, <2>3 DEF CastInv, BroadcastReaches
    <2>5. Locks'
      BY <1>1, <1>2, <1>4, <1>6, <2>1, Threading DEF Locks, Doing
    <2>6. Types'
      BY <1>4, <1>6, <2>1 DEF Types
    <2> QED
      BY <1>4, <2>1, <2>2, <2>4, <2>5, <2>6, UserStep
  <1> QED
    BY <1>7, <1>8

\* call_rpc_method reaches the client, or raises and ends the walk.
LEMMA SendStep ==
  ASSUME IInv, NEW t \in Threads, call_rpc_method(t)
  PROVE  IInv'
  <1>1. todo[t].op = "send"
    BY Todo DEF call_rpc_method, IInv
  <1>2. /\ t = "user" /\ ~Idle("user") /\ todo["user"].c \in Members /\ Of("user") = todo["user"].c
        /\ cast.state = "on" /\ Len(job["user"]) \in Nat /\ Len(job["user"]) >= 2
        /\ DOMAIN job["user"] = 1..Len(job["user"]) /\ job["user"][1] = todo["user"]
        /\ \A i \in DOMAIN job["user"] : job["user"][i].op # "close"
    BY <1>1, UserAtCast
  <1>3. PICK c \in Members : todo["user"].c = c
    BY <1>2
  <1>4. /\ con' = con /\ client_count_' = client_count_ /\ held' = held
        /\ kind' = kind /\ slot' = slot /\ clients_' = clients_ /\ all' = all
        /\ IF con[c].ready
             THEN cast' = [cast EXCEPT !.got = cast.got \cup {c}] /\ Then("user", <<>>)
             ELSE cast' = [cast EXCEPT !.state = "raised"] /\ Does("user", <<Op("unlist", List)>>)
    BY <1>2, <1>3 DEF call_rpc_method
  <1>5. job["user"][1] = Op("send", c)
    <2>1. todo["user"] \in Step
      BY <1>2, Todo, Threading DEF IInv
    <2> QED
      BY <1>1, <1>2, <1>3, <2>1 DEF Op, Step
  <1>6. Types /\ CastInv /\ Locks
    BY DEF IInv
  <1>6a. cast \in Broadcast
    BY <1>6 DEF Types
  <1>6b. c # cast.sender
    BY <1>1, <1>2, <1>3, <1>6 DEF CastInv
  <1>7. CASE con[c].ready
    <2>0. /\ cast' \in Broadcast
          /\ cast'.state = "on" /\ cast'.got = cast.got \cup {c} /\ cast'.steady = cast.steady /\ cast'.sender = cast.sender
          /\ Then("user", <<>>)
      BY <1>2, <1>4, <1>6a, <1>7 DEF Broadcast
    <2>1. /\ UserJob' /\ job' \in [Threads -> Seq(Step)]
          /\ \A u \in Io : job'[u] = job[u] /\ todo'[u] = todo[u]
          /\ ~Idle("user")' /\ todo'["user"].op # "send"
          /\ DOMAIN job'["user"] = 1..(Len(job["user"]) - 1)
          /\ \A i \in 1..(Len(job["user"]) - 1) : job'["user"][i] = job["user"][i + 1]
      BY <1>1, <1>2, <1>4, <2>0, UserPops
    <2>2. ASSUME NEW i \in DOMAIN job'["user"] PROVE job'["user"][i].op # "close"
      <3>1. i \in 1..(Len(job["user"]) - 1)
        BY <2>1
      <3>2. i + 1 \in DOMAIN job["user"]
        BY <1>2, <3>1
      <3>3. job'["user"][i] = job["user"][i + 1]
        BY <2>1, <3>1
      <3> QED
        BY <1>2, <3>2, <3>3
    <2>3. ASSUME NEW d, Pending(d), d # c PROVE Pending(d)'
      <3>1. PICK i \in DOMAIN job["user"] : job["user"][i] \in {Op("test", d), Op("send", d)}
        BY <2>3 DEF Pending
      <3>2. i # 1
        BY <1>5, <2>3, <3>1 DEF Op
      <3>3. i - 1 \in 1..(Len(job["user"]) - 1) /\ (i - 1) + 1 = i
        BY <1>2, <3>1, <3>2
      <3>4. job'["user"][i - 1] = job["user"][i] /\ i - 1 \in DOMAIN job'["user"]
        BY <2>1, <3>3
      <3> QED
        BY <3>1, <3>4 DEF Pending
    <2>4. CastInv'
      BY <1>2, <1>4, <1>6, <1>6b, <2>0, <2>1, <2>3 DEF CastInv, BroadcastReaches
    <2>5. Locks'
      BY <1>1, <1>2, <1>4, <1>6, <2>1, Threading DEF Locks, Doing
    <2>6. Types'
      BY <1>4, <1>6, <2>0, <2>1 DEF Types
    <2> QED
      BY <1>4, <2>1, <2>2, <2>4, <2>5, <2>6, UserStep
  <1>8. CASE ~con[c].ready
    <2>0. /\ cast' \in Broadcast
          /\ cast'.state = "raised" /\ cast'.got = cast.got /\ cast'.steady = cast.steady /\ cast'.sender = cast.sender
          /\ Does("user", <<Op("unlist", List)>>)
      BY <1>4, <1>6a, <1>8 DEF Broadcast
    <2> DEFINE q == <<Op("unlist", List)>>
    <2>1. Op("unlist", List) \in Step /\ Op("unlist", List).op = "unlist"
      BY DEF Op, Step
    <2>2. q \in Seq(Step) /\ Len(q) = 1 /\ q[1] = Op("unlist", List) /\ DOMAIN q = {1} /\ q # <<>>
      BY <2>1
    <2>3. Does("user", q)
      BY <2>0
    <2> HIDE DEF q
    <2>4. /\ job' \in [Threads -> Seq(Step)] /\ job'["user"] = q
          /\ \A u \in Io : job'[u] = job[u] /\ todo'[u] = todo[u]
      <3>1. q \in Seq(Step) /\ "user" \in Threads
        BY <2>2, Threading
      <3>2. /\ job' \in [Threads -> Seq(Step)] /\ job'["user"] = q
            /\ \A u \in Threads \ {"user"} : job'[u] = job[u] /\ todo'[u] = todo[u]
        BY <1>6, <2>3, <3>1, DoesSteps
      <3> QED
        BY <3>2, Threading
    <2>5. UserJob'
      <3>1. q[Len(q)] = Op("unlist", List) /\ 1..(Len(q) - 1) = {}
        BY <2>2
      <3> QED
        BY <2>4, <3>1 DEF UserJob
    <2>6. \A i \in DOMAIN job'["user"] : job'["user"][i].op # "close"
      BY <2>1, <2>2, <2>4
    <2>7. CastInv'
      BY <1>4, <1>6, <2>0 DEF CastInv, BroadcastReaches
    <2>8. Locks'
      BY <1>1, <1>2, <1>4, <1>6, <2>4, Threading DEF Locks, Doing
    <2>9. Types'
      BY <1>4, <1>6, <2>0, <2>4 DEF Types
    <2> QED
      BY <1>4, <2>4, <2>5, <2>6, <2>7, <2>8, <2>9, UserStep
  <1> QED
    BY <1>7, <1>8

\* The walk has a step for every connection in the list.
LEMMA Walk ==
  ASSUME IInv, NEW op \in {"close", "test"}, foreach_while(op, "user"),
         op = "close" => all' /\ cast'.state = "no", op = "test" => cast'.state = "on"
  PROVE  /\ UserJob' /\ job' \in [Threads -> Seq(Step)] /\ ~Idle("user")'
         /\ \A u \in Io : job'[u] = job[u] /\ todo'[u] = todo[u]
         /\ todo'["user"].op # "send"
         /\ \A i \in DOMAIN job'["user"] : job'["user"][i].op \in {op, "unlist"}
         /\ \A i \in DOMAIN job'["user"] : job'["user"][i].op = op => job'["user"][i].c \in clients_
         /\ \A c \in clients_ : \E i \in DOMAIN job'["user"] : job'["user"][i] = Op(op, c)
  <1>0. Types /\ clients_ \in SUBSET Members
    BY DEF IInv, Types
  <1>1. IsFiniteSet(clients_) /\ Cardinality(clients_) \in Nat
    BY <1>0, Finite
  <1> DEFINE n == Cardinality(clients_)
  <1>2. PICK walk \in SetToSeqs(clients_) :
          Does("user", [i \in DOMAIN walk |-> Op(op, walk[i])] \o <<Op("unlist", List)>>)
    BY DEF foreach_while
  <1>3. /\ walk \in [1..n -> clients_] /\ DOMAIN walk = 1..n
        /\ \A i, j \in 1..n : i # j => walk[i] # walk[j]
    BY DEF SetToSeqs
  <1>4. \A c \in clients_ : \E i \in 1..n : walk[i] = c
    <2>1. walk \in Injection(1..n, clients_)
      BY <1>3 DEF Injection, IsInjective
    <2>2. Cardinality(1..n) = n
      BY <1>1, FS_Interval
    <2>3. walk \in Surjection(1..n, clients_)
      BY <1>1, <2>1, <2>2, FS_Injection
    <2> QED
      BY <2>3 DEF Surjection
  <1> DEFINE f == [i \in DOMAIN walk |-> Op(op, walk[i])]  e == <<Op("unlist", List)>>  q == f \o e
  <1>5. n \in Nat
    BY <1>1
  <1> HIDE DEF n
  <1>6. \A x \in {op, "unlist"} : \A y \in Members \cup {List} :
          Op(x, y) \in Step /\ Op(x, y).op = x /\ Op(x, y).c = y
    BY DEF Op, Step
  <1>7. f \in Seq(Step) /\ Len(f) = n /\ \A i \in 1..n : f[i] = Op(op, walk[i])
    <2>1. \A i \in 1..n : walk[i] \in Members
      BY <1>0, <1>3
    <2>2. f \in [1..n -> Step] /\ \A i \in 1..n : f[i] = Op(op, walk[i])
      BY <1>3, <1>6, <2>1
    <2> HIDE DEF f
    <2>3. f \in Seq(Step)
      BY <1>5, <2>2, SeqDef
    <2> QED
      BY <1>5, <2>2, <2>3, LenProperties
  <1>8. e \in Seq(Step) /\ Len(e) = 1 /\ e[1] = Op("unlist", List)
    BY <1>6
  <1>9. Does("user", q)
    BY <1>2
  <1> HIDE DEF f, e
  <1>10. /\ q \in Seq(Step) /\ Len(q) = Len(f) + Len(e) /\ DOMAIN q = 1..(Len(f) + Len(e))
         /\ \A i \in 1..Len(f) : q[i] = f[i]
         /\ \A i \in 1..Len(e) : q[Len(f) + i] = e[i]
    BY <1>7, <1>8, ConcatAt
  <1> HIDE DEF q
  <1>11. /\ Len(q) = n + 1 /\ DOMAIN q = 1..(n + 1) /\ q[n + 1] = Op("unlist", List)
         /\ \A i \in 1..n : q[i] = Op(op, walk[i])
    BY <1>5, <1>7, <1>8, <1>10
  <1>12. q # <<>>
    BY <1>5, <1>10, <1>11, EmptySeq
  <1>13. /\ job' \in [Threads -> Seq(Step)] /\ job'["user"] = q
         /\ \A u \in Io : job'[u] = job[u] /\ todo'[u] = todo[u]
    <2>1. q \in Seq(Step) /\ "user" \in Threads
      BY <1>10, Threading
    <2>2. /\ job' \in [Threads -> Seq(Step)] /\ job'["user"] = q
          /\ \A u \in Threads \ {"user"} : job'[u] = job[u] /\ todo'[u] = todo[u]
      BY <1>0, <1>9, <2>1, DoesSteps
    <2> QED
      BY <2>2, Threading
  <1>14. \A i \in 1..n : q[i].op = op /\ q[i].c = walk[i] /\ walk[i] \in clients_ /\ walk[i] \in Members
    BY <1>0, <1>3, <1>6, <1>11
  <1>15. \A i \in 1..(n + 1) : i \in 1..n \/ i = n + 1
    BY <1>5
  <1>16. UserJob'
    <2>1. (n + 1) - 1 = n
      BY <1>5
    <2> QED
      BY <1>11, <1>12, <1>13, <1>14, <2>1 DEF UserJob
  <1>17. \A i \in DOMAIN q : q[i].op \in {op, "unlist"} /\ (q[i].op = op => q[i].c \in clients_)
    BY <1>6, <1>11, <1>14, <1>15
  <1>18. \A c \in clients_ : \E i \in DOMAIN q : q[i] = Op(op, c)
    <2>1. \A i \in 1..n : i \in DOMAIN q
      BY <1>5, <1>11
    <2> QED
      BY <1>4, <1>11, <2>1 DEF n
  <1>19. todo'["user"].op # "send"
    <2>1. 1 \in DOMAIN q
      BY <1>5, <1>11
    <2>2. todo'["user"] = q[1]
      BY <1>12, <1>13, Threading DEF todo, Idle
    <2> QED
      BY <1>17, <2>1, <2>2
  <1> QED
    BY <1>12, <1>13, <1>16, <1>17, <1>18, <1>19 DEF Idle

\* stop_all_clients begins its walk.
LEMMA StopAllStep ==
  ASSUME IInv, stop_all_clients
  PROVE  IInv'
  <1>1. /\ cast.state = "no" /\ foreach_while("close", "user") /\ all' = TRUE
        /\ con' = con /\ client_count_' = client_count_ /\ held' = [held EXCEPT ![List] = "user"]
        /\ kind' = kind /\ slot' = slot /\ clients_' = clients_ /\ cast' = cast
        /\ Idle("user")
    BY DEF stop_all_clients, foreach_while
  <1>2. /\ UserJob' /\ job' \in [Threads -> Seq(Step)]
        /\ \A u \in Io : job'[u] = job[u] /\ todo'[u] = todo[u]
        /\ \A i \in DOMAIN job'["user"] : job'["user"][i].op = "close" => job'["user"][i].c \in clients_
    <2>1. "close" \in {"close", "test"} /\ "close" # "test" /\ all' /\ cast'.state = "no"
      BY <1>1
    <2> QED
      BY <1>1, <2>1, Walk
  <1>3. \A c \in clients_ : Known(c)
    <2>1. clients_ \subseteq Members /\ \A c \in Members : ConnInv(c)
      BY DEF IInv, Types
    <2>2. \A c \in Members : c \in clients_ => Known(c)
      BY <2>1 DEF ConnInv
    <2> QED
      BY <2>1, <2>2
  <1>4. Locks /\ List \notin Members /\ held \in [{List} \cup Members -> Threads \cup {Nobody}]
    BY Finite DEF IInv, Types
  <1>5. held' \in [{List} \cup Members -> Threads \cup {Nobody}]
    BY <1>1, <1>4, Threading
  <1>6. todo["user"].op = "idle"
    BY <1>1, Todo, Threading DEF IInv
  <1>7. Locks'
    BY <1>1, <1>2, <1>4, <1>6, Threading DEF Locks, Doing
  <1>8. CastInv'
    BY <1>1, NoCast
  <1>9. Types'
    BY <1>1, <1>2, <1>5 DEF IInv, Types
  <1>10. \A i \in DOMAIN job'["user"] : job'["user"][i].op = "close" => Known(job'["user"][i].c)
    BY <1>2, <1>3
  <1> QED
    BY <1>1, <1>2, <1>7, <1>8, <1>9, <1>10, UserStep

\* A broadcast begins its walk.
LEMMA BroadcastStep ==
  ASSUME IInv, broadcast
  PROVE  IInv'
  <1>1. /\ foreach_while("test", "user") /\ all' = all
        /\ con' = con /\ client_count_' = client_count_ /\ held' = [held EXCEPT ![List] = "user"]
        /\ kind' = kind /\ slot' = slot /\ clients_' = clients_
        /\ \E c \in Members \cup {Nobody} :
             cast' = [state |-> "on", sender |-> c, got |-> {}, steady |-> {d \in clients_ : con[d].ready}]
        /\ Idle("user")
    BY DEF broadcast, foreach_while
  <1>1a. PICK x \in Members \cup {Nobody} :
           cast' = [state |-> "on", sender |-> x, got |-> {}, steady |-> {d \in clients_ : con[d].ready}]
    BY <1>1
  <1>2. cast'.state = "on" /\ cast'.got = {} /\ cast'.steady = {c \in clients_ : con[c].ready}
    BY <1>1a
  <1>3. /\ UserJob' /\ job' \in [Threads -> Seq(Step)] /\ ~Idle("user")' /\ todo'["user"].op # "send"
        /\ \A u \in Io : job'[u] = job[u] /\ todo'[u] = todo[u]
        /\ \A i \in DOMAIN job'["user"] : job'["user"][i].op \in {"test", "unlist"}
        /\ \A c \in clients_ : \E i \in DOMAIN job'["user"] : job'["user"][i] = Op("test", c)
    <2>1. "test" \in {"close", "test"} /\ "close" # "test"
      OBVIOUS
    <2> QED
      BY <1>1, <1>2, <2>1, Walk
  <1>4. /\ Locks /\ List \notin Members /\ held \in [{List} \cup Members -> Threads \cup {Nobody}]
        /\ clients_ \subseteq Members /\ \A c \in Members : ConnInv(c)
    BY Finite DEF IInv, Types
  <1>5. held' \in [{List} \cup Members -> Threads \cup {Nobody}]
    BY <1>1, <1>4, Threading
  <1>6. todo["user"].op = "idle"
    BY <1>1, Todo, Threading DEF IInv
  <1>7. Locks'
    BY <1>1, <1>3, <1>4, <1>6, Threading DEF Locks, Doing
  <1>8. cast' \in Broadcast
    BY <1>1a, <1>4 DEF Broadcast
  <1>9. Types'
    BY <1>1, <1>3, <1>5, <1>8 DEF IInv, Types
  <1>10. CastInv'
    <2>1. \A c \in cast'.steady : c \in clients_ /\ c \in Members /\ con[c].ready
      BY <1>2, <1>4
    <2>2. \A c \in cast'.steady : con'[c].switched
      BY <1>1, <1>4, <2>1 DEF ConnInv
    <2>3. \A c \in cast'.steady : Pending(c)'
      BY <1>3, <2>1 DEF Pending
    <2>4. BroadcastReaches'
      BY <1>2 DEF BroadcastReaches
    <2> QED
      BY <1>3, <2>2, <2>3, <2>4 DEF CastInv
  <1>11. \A i \in DOMAIN job'["user"] : job'["user"][i].op # "close"
    BY <1>3
  <1> QED
    BY <1>1, <1>3, <1>7, <1>9, <1>10, <1>11, UserStep

------------------------------------------------------------------------------
LEMMA InitInv == Init => IInv
  <1> SUFFICES ASSUME Init PROVE IInv
    OBVIOUS
  <1> USE DEF Init
  <1>1. /\ \A c \in Members : con[c] = NewConnection
        /\ \A t \in Threads : job[t] = <<>> /\ Idle(t) /\ todo[t].op = "idle" /\ todo[t].c = List
        /\ \A l \in {List} \cup Members : held[l] = Nobody
    <2>1. \A t \in Threads : job[t] = <<>> /\ Idle(t)
      BY DEF Idle
    <2>2. \A t \in Threads : todo[t] = Op("idle", List)
      BY <2>1 DEF todo
    <2> QED
      BY <2>1, <2>2 DEF Op
  <1>2. NewConnection \in Connection
    BY DEF NewConnection, Connection
  <1>3. Types
    <2>1. con \in [Members -> Connection]
      BY <1>2
    <2>2. job \in [Threads -> Seq(Step)]
      BY EmptySeq
    <2>3. cast \in Broadcast
      BY DEF Broadcast
    <2>4. held \in [{List} \cup Members -> Threads \cup {Nobody}]
      OBVIOUS
    <2>5. /\ kind \in {"impl", "ssl", "pipe"} /\ slot \in {"throws", "lists"}
          /\ clients_ \in SUBSET Members /\ client_count_ \in Int
      OBVIOUS
    <2>6. all \in BOOLEAN
      BY Zenon
    <2> HIDE DEF Init
    <2> QED
      BY <2>1, <2>2, <2>3, <2>4, <2>5, <2>6 DEF Types
  <1> USE DEF NewConnection
  <1>4. (\A t \in Io : IoJob(t)) /\ UserJob
    BY <1>1, Threading DEF IoJob, UserJob
  <1>5. \A c \in Members : ConnInv(c)
    <2>1. \A t \in Io : \A c \in Members : todo[t].c # c
      BY <1>1, Threading, Finite
    <2>2. \A t \in Io : \A c \in Members : NextFits(t, c)
      BY <2>1 DEF NextFits
    <2> QED
      BY <1>1, <2>1, <2>2 DEF ConnInv, Alone
  <1>6. Locks
    BY <1>1, Threading DEF Locks
  <1>7. WalkKnown
    BY <1>1, Threading DEF WalkKnown
  <1>8. Count
    <2>1. Announced = {} /\ Closed = {}
      BY <1>1 DEF Announced, Closed
    <2> QED
      BY <2>1, FS_EmptySet DEF Count
  <1>9. CastInv
    BY DEF CastInv, BroadcastReaches
  <1> QED
    BY <1>3, <1>4, <1>5, <1>6, <1>7, <1>8, <1>9 DEF IInv

LEMMA ArrivesMember ==
  ASSUME IInv, NEW i \in 1..Arrivals[<<kind, slot>>]
  PROVE  Conns[i] \in Members
  <1>1. kind \in {"impl", "ssl", "pipe"} /\ slot \in {"throws", "lists"}
    BY DEF IInv, Types
  <1>2. <<kind, slot>> \in {"impl", "ssl", "pipe"} \X {"throws", "lists"}
    BY <1>1
  <1>3. Arrivals[<<kind, slot>>] \in 0..Len(Conns) /\ Len(Conns) \in Nat /\ DOMAIN Conns = 1..Len(Conns)
    BY <1>2, ConnsAssumption, LenProperties
  <1>4. i \in DOMAIN Conns
    BY <1>3
  <1> QED
    BY <1>4 DEF Members, Range

LEMMA OnAccept ==
  ASSUME IInv, NEW t \in Io, on_accept(t)
  PROVE  IInv'
  <1>1. PICK i \in 1..Arrivals[<<kind, slot>>] :
          /\ ~con[Conns[i]].made
          /\ con' = [con EXCEPT ![Conns[i]].made = TRUE]
          /\ \/ Does(t, <<Op("store", Conns[i]), Op("new", Conns[i])>>)
             \/ kind # "pipe" /\ UNCHANGED job
    BY DEF on_accept
  <1>2. Conns[i] \in Members
    BY <1>1, ArrivesMember
  <1>3. PICK c \in Members : c = Conns[i]
    BY <1>2
  <1>4. Accepted(t, c)
    BY <1>1, <1>3 DEF Accepted, on_accept
  <1>5. CASE job' = job
    BY <1>4, <1>5, GivenUpStep
  <1>6. CASE Does(t, <<Op("store", c), Op("new", c)>>)
    BY <1>4, <1>6, AcceptStep
  <1> QED
    BY <1>1, <1>3, <1>5, <1>6

LEMMA HandleInv ==
  ASSUME IInv, NEW t \in Io, NEW c \in Members, Handle(t, c)
  PROVE  IInv'
  <1>1. CASE ssl_handshake_handler(t, c)
    BY <1>1, TlsDoneStep, TlsFailedStep DEF ssl_handshake_handler
  <1>2. CASE write_handler(t, c)
    <2>1. job' = job \/ Does(t, <<Op("close", c)>>)
      BY <1>2 DEF write_handler
    <2> QED
      BY <1>2, <2>1, WrittenStep, WriteFailedStep
  <1>3. CASE on_init_timeout_ssl(t, c)
    BY <1>3, TlsTimeoutStep, TlsFreedStep
  <1>4. CASE close_client(t, c)
    BY <1>4, CloseClientStep, ClosedClientStep
  <1>5. CASE on_init_timeout(t, c)
    BY <1>5, TimeoutStep, NoTimeoutStep
  <1> QED
    BY <1>1, <1>2, <1>3, <1>4, <1>5, ReadyStep, NoParseStep, ReadErrorStep DEF Handle

LEMMA NewConnectionInv ==
  ASSUME IInv, NEW t \in Threads, new_connection(t)
  PROVE  IInv'
  <1>1. todo[t].op = "new"
    BY Todo DEF new_connection, IInv
  <1>2. t \in Io /\ todo[t].c \in Members /\ Of(t) = todo[t].c
    BY <1>1, IoBusy DEF SettingUp, Shaking
  <1>3. PICK c \in Members : todo[t].c = c
    BY <1>2
  <1>4. Welcomed(t, c) \/ Refused(t, c)
    BY <1>2, <1>3 DEF new_connection, Welcomed, Refused
  <1> QED
    BY <1>2, <1>3, <1>4, NewStep, ThrownStep

\* The steps of a close are done by any thread.
LEMMA CloseInv ==
  ASSUME IInv, NEW t \in Threads, close(t) \/ on_stop_connection(t) \/ close_handle(t)
  PROVE  IInv'
  <1>1. todo[t].op \in {"close", "on_stop", "handle"}
    BY Todo DEF close, on_stop_connection, close_handle, IInv
  <1>2. CASE t \in Io
    <2>1. ~Idle(t)
      BY <1>1, Todo DEF IInv
    <2>2. PICK c \in Members : todo[t].c = c
      BY <1>2, <2>1, IoBusy
    <2> QED
      BY <1>2, <2>2, ClosedStep, CloseStep, CloseListsStep, OnStopStep, HandleStep
  <1>3. CASE t = "user"
    <2>1. todo["user"].c \in Members /\ Of("user") = todo["user"].c
      BY <1>1, <1>3, UserAtClose
    <2>2. PICK c \in Members : todo["user"].c = c
      BY <2>1
    <2>3. CASE close("user")
      BY <2>1, <2>2, <2>3, UserClosedStep, UserCloseStep
    <2> QED
      BY <1>3, <2>2, <2>3, UserEndStep
  <1> QED
    BY <1>2, <1>3, Threading

LEMMA GoInv ==
  ASSUME IInv, NEW t \in Threads, Go(t)
  PROVE  IInv'
  <1>1. CASE store(t) \/ hello(t) \/ arm(t) \/ tls(t) \/ drop(t)
    <2>1. todo[t].op \in {"store", "hello", "arm", "tls", "drop"}
      BY <1>1, Todo DEF store, hello, arm, tls, drop, IInv
    <2>2. PICK c \in Members : todo[t].c = c
      BY <2>1, IoBusy DEF SettingUp
    <2> QED
      BY <1>1, <2>2, StoreStep, HelloStep, ArmStep, TlsStep, DropStep
  <1>1a. CASE arm_tls(t) \/ shake(t) \/ do_handshake(t) \/ send_and_close(t)
    <2>1. todo[t].op \in {"arm_tls", "shake", "publish", "expel"}
      BY <1>1a, Todo DEF arm_tls, shake, do_handshake, send_and_close, IInv
    <2>2. PICK c \in Members : todo[t].c = c
      BY <2>1, IoBusy DEF SettingUp, Shaking
    <2> QED
      BY <1>1a, <2>2, ArmTlsStep, ShakeStep, PublishStep, ExpelStep
  <1>2. CASE new_connection(t)
    BY <1>2, NewConnectionInv
  <1>3. CASE close(t) \/ on_stop_connection(t) \/ close_handle(t)
    BY <1>3, CloseInv
  <1>4. CASE unlist(t) \/ send_to_client(t) \/ call_rpc_method(t)
    BY <1>4, UnlistStep, TestStep, SendStep
  <1> QED
    BY <1>1, <1>1a, <1>2, <1>3, <1>4 DEF Go

LEMMA NextInv == IInv /\ [Next]_vars => IInv'
  <1> SUFFICES ASSUME IInv, [Next]_vars PROVE IInv'
    OBVIOUS
  <1>1. CASE \E t \in Io : on_accept(t)
    BY <1>1, OnAccept
  <1>2. CASE \E t \in Io : \E c \in Members : Handle(t, c)
    BY <1>2, HandleInv
  <1>3. CASE \E t \in Threads : Go(t)
    BY <1>3, GoInv
  <1>4. CASE \E c \in Members : write_impl(c) \/ Expire(c)
    <2>1. "io1" \in Io
      BY DEF Io
    <2> QED
      BY <1>4, <2>1, WriteStep, ExpireStep
  <1>5. CASE UNCHANGED vars
    <2>1. /\ kind' = kind /\ slot' = slot /\ con' = con /\ clients_' = clients_
          /\ client_count_' = client_count_ /\ job' = job /\ held' = held
          /\ cast' = cast /\ all' = all
      BY <1>5 DEF vars
    <2>2. todo' = todo
      BY <2>1 DEF todo, Idle
    <2>3. \A i \in DOMAIN job["user"] : job["user"][i].op = "close" => Known(job["user"][i].c)
      BY DEF IInv, WalkKnown
    <2>4. Types' /\ UserJob'
      BY <2>1 DEF IInv, Types, UserJob
    <2>5. Locks'
      BY <2>1, <2>2 DEF IInv, Locks, Doing
    <2>6. CastInv'
      <3>1. \A c : Pending(c)' <=> Pending(c)
        BY <2>1 DEF Pending
      <3> QED
        BY <2>1, <2>2, <3>1 DEF IInv, CastInv, BroadcastReaches, Idle
    <2> QED
      BY <2>1, <2>2, <2>3, <2>4, <2>5, <2>6, UserStep
  <1> QED
    BY <1>1, <1>2, <1>3, <1>4, <1>5, StopAllStep, BroadcastStep DEF Next

\* What every thread has still to do fits the state of its connection, through
\* every interleaving of the handlers.
LEMMA SpecInv == Spec => []IInv
  BY InitInv, NextInv, PTL DEF Spec

------------------------------------------------------------------------------
(* The timers.                                                               *)

\* A timer is due, or was the reason of a write or a close, only if the
\* handshake it watches was not over when it expired, and the TLS timer is
\* armed only while that handshake lasts.
Judged(x) ==
  /\ x.timer = "due" /\ ~x.shaken => "init" \in x.late
  /\ x.bye => "init" \in x.late
  /\ x.tlsTimer = "due" => "tls" \in x.late
  /\ x.tlsTimer = "armed" => x.tls # "done"
  /\ x.ousted \subseteq x.late

Expelling(t, c) == \E i \in DOMAIN job[t] : job[t][i].op = "expel" /\ job[t][i].c = c

TimerInv ==
  \A c \in Members :
    /\ Judged(con[c])
    /\ \A t \in Threads : Expelling(t, c) => "init" \in con[c].late

\* What a step does to the connections, and to what the threads have to do.
Judging == \A c \in Members : Judged(con'[c]) /\ con[c].late \subseteq con'[c].late
NoExpel == \A c \in Members : \A t \in Threads : Expelling(t, c)' => Expelling(t, c)

Alike(x, y) ==
  /\ y.timer = x.timer /\ y.tlsTimer = x.tlsTimer /\ y.bye = x.bye /\ y.shaken = x.shaken
  /\ y.tls = x.tls /\ y.late = x.late /\ y.ousted = x.ousted

LEMMA TimersKept ==
  ASSUME TimerInv, Judging, NoExpel
  PROVE  TimerInv'
  BY DEF TimerInv, Judging, NoExpel

LEMMA AlikeJudged ==
  ASSUME TimerInv, \A c \in Members : Alike(con[c], con'[c])
  PROVE  Judging
  BY DEF TimerInv, Judging, Alike, Judged

Plain(s) == s \in Seq(Step) /\ \A i \in DOMAIN s : s[i].op # "expel"

Ops == {"store", "new", "hello", "arm", "arm_tls", "tls", "shake", "publish", "close",
        "on_stop", "handle", "drop", "unlist", "test", "send"}

LEMMA PlainNone == Plain(<<>>)
  BY DEF Plain

LEMMA PlainOne ==
  ASSUME NEW c \in Members \cup {List}, NEW a \in Ops
  PROVE  Plain(<<Op(a, c)>>)
  <1>1. Op(a, c) \in Step /\ Op(a, c).op # "expel"
    BY DEF Op, Step, Ops
  <1> QED
    BY <1>1 DEF Plain

LEMMA PlainTwo ==
  ASSUME NEW c \in Members \cup {List}, NEW a \in Ops, NEW b \in Ops
  PROVE  Plain(<<Op(a, c), Op(b, c)>>)
  <1>1. Op(a, c) \in Step /\ Op(b, c) \in Step /\ Op(a, c).op # "expel" /\ Op(b, c).op # "expel"
    BY DEF Op, Step, Ops
  <1> QED
    BY <1>1 DEF Plain

LEMMA DoesPlain ==
  ASSUME IInv, NEW t \in Threads, NEW s, Plain(s), Does(t, s)
  PROVE  NoExpel
  <1>1. job'[t] = s /\ \A u \in Threads \ {t} : job'[u] = job[u]
    BY DoesSteps DEF IInv, Plain
  <1> QED
    BY <1>1 DEF NoExpel, Expelling, Plain

LEMMA ThenPlain ==
  ASSUME IInv, NEW t \in Threads, ~Idle(t), NEW s, Plain(s), Then(t, s)
  PROVE  NoExpel
  <1>1. /\ job' \in [Threads -> Seq(Step)]
        /\ \A u \in Threads \ {t} : job'[u] = job[u]
        /\ Len(job'[t]) = Len(s) + Len(job[t]) - 1
        /\ \A i \in 1..Len(s) : job'[t][i] = s[i]
        /\ \A i \in 2..Len(job[t]) : job'[t][Len(s) + i - 1] = job[t][i]
    BY ThenSteps DEF IInv, Plain
  <1>2. /\ Len(s) \in Nat /\ DOMAIN s = 1..Len(s) /\ \A i \in DOMAIN s : s[i].op # "expel"
        /\ Len(job[t]) \in Nat /\ DOMAIN job[t] = 1..Len(job[t])
        /\ DOMAIN job'[t] = 1..Len(job'[t])
    BY <1>1, Todo, LenProperties DEF IInv, Plain
  <1>3. ASSUME NEW c \in Members, Expelling(t, c)' PROVE Expelling(t, c)
    <2>1. PICK i \in 1..Len(job'[t]) : job'[t][i].op = "expel" /\ job'[t][i].c = c
      BY <1>2, <1>3 DEF Expelling
    <2>2. i \notin 1..Len(s)
      BY <1>1, <1>2, <2>1
    <2>3. /\ i - Len(s) + 1 \in 2..Len(job[t])
          /\ Len(s) + (i - Len(s) + 1) - 1 = i
      BY <1>1, <1>2, <2>1, <2>2
    <2>4. job[t][i - Len(s) + 1] = job'[t][i]
      BY <1>1, <2>3
    <2>5. i - Len(s) + 1 \in DOMAIN job[t]
      BY <1>2, <2>3
    <2> QED
      BY <2>1, <2>4, <2>5 DEF Expelling
  <1> QED
    BY <1>1, <1>3 DEF NoExpel, Expelling

LEMMA SameJobs ==
  ASSUME UNCHANGED job
  PROVE  NoExpel
  BY DEF NoExpel, Expelling

\* The steps of a thread that is at work.
LEMMA GoTimers ==
  ASSUME IInv, TimerInv, NEW t \in Threads, Go(t)
  PROVE  TimerInv'
  <1> DEFINE c == Of(t)
  <1>1. Types /\ con \in [Members -> Connection]
    BY DEF IInv, Types
  <1>2. ~Idle(t)
    BY DEF Go, At, store, new_connection, hello, arm, arm_tls, tls, shake, do_handshake,
           send_and_close, close, on_stop_connection, close_handle, drop, unlist,
           send_to_client, call_rpc_method
  <1>3. c \in Members \cup {List} /\ c = todo[t].c
    BY <1>1, <1>2, Todo DEF Step
  <1>4. Plain(<<>>) /\ Plain(<<Op("unlist", List)>>)
    <2>1. List \in Members \cup {List} /\ "unlist" \in Ops
      BY DEF Ops
    <2> QED
      BY <2>1, PlainNone, PlainOne
  <1>5. ASSUME UNCHANGED con PROVE Judging
    BY <1>5, AlikeJudged DEF Alike
  <1> HIDE DEF c
  <1>6. CASE store(t) \/ drop(t) \/ on_stop_connection(t) \/ close_handle(t)
    BY <1>2, <1>4, <1>5, <1>6, ThenPlain, TimersKept
       DEF store, drop, on_stop_connection, close_handle
  <1>7. CASE new_connection(t)
    <2>1. \A d \in Members : Alike(con[d], con'[d])
      BY <1>1, <1>7 DEF new_connection, Alike, Connection
    <2>2. NoExpel
      <3>0. /\ Plain(<<Op("arm_tls", c), Op("tls", c)>>) /\ Plain(<<Op("hello", c), Op("arm", c)>>)
            /\ Plain(<<Op("drop", c)>>)
        <4>1. {"arm_tls", "tls", "hello", "arm", "drop"} \subseteq Ops
          BY DEF Ops
        <4> QED
          BY <1>3, <4>1, PlainOne, PlainTwo
      <3>1. PICK s : Plain(s) /\ Then(t, s)
        <4>1. \/ Then(t, <<Op("arm_tls", c), Op("tls", c)>>) \/ Then(t, <<Op("hello", c), Op("arm", c)>>)
              \/ Then(t, <<>>) \/ Then(t, <<Op("drop", c)>>)
          BY <1>7 DEF new_connection, c
        <4> QED
          BY <1>4, <3>0, <4>1
      <3> QED
        BY <1>2, <3>1, ThenPlain
    <2> QED
      BY <2>1, <2>2, AlikeJudged, TimersKept
  <1>8. CASE hello(t) \/ do_handshake(t)
    <2>1. \A d \in Members : Alike(con[d], con'[d])
      BY <1>1, <1>8 DEF hello, do_handshake, Alike, Connection
    <2> QED
      BY <1>2, <1>4, <1>8, <2>1, AlikeJudged, ThenPlain, TimersKept DEF hello, do_handshake
  <1>9. CASE arm(t)
    <2>1. Judging
      BY <1>1, <1>9 DEF arm, Judging, Judged, TimerInv, Connection
    <2> QED
      BY <1>2, <1>4, <1>9, <2>1, ThenPlain, TimersKept DEF arm
  <1>10. CASE arm_tls(t)
    <2>1. todo[t].op = "arm_tls" /\ t \in Io
      BY <1>1, <1>10, Todo, UserSteps, Threading DEF arm_tls
    <2>2. c \in Members => con[c].tls = "no"
      BY <1>3, <2>1 DEF IInv, ConnInv, NextFits
    <2>3. Judging
      BY <1>1, <1>10, <2>2 DEF arm_tls, Judging, Judged, TimerInv, Connection, c
    <2> QED
      BY <1>2, <1>4, <1>10, <2>3, ThenPlain, TimersKept DEF arm_tls
  <1>11. CASE tls(t)
    <2>1. Judging
      BY <1>1, <1>11 DEF tls, Judging, Judged, TimerInv, Connection
    <2> QED
      BY <1>2, <1>4, <1>11, <2>1, ThenPlain, TimersKept DEF tls
  <1>12. CASE shake(t)
    <2>1. Judging
      BY <1>1, <1>12 DEF shake, Judging, Judged, TimerInv, Connection
    <2> QED
      BY <1>2, <1>4, <1>12, <2>1, ThenPlain, TimersKept DEF shake
  <1>13. CASE send_and_close(t)
    <2>1. job[t][1].op = "expel" /\ 1 \in DOMAIN job[t] /\ job[t][1].c = c
      BY <1>1, <1>2, <1>3, <1>13, Todo DEF send_and_close, At
    <2>2. c \in Members => "init" \in con[c].late
      BY <2>1 DEF TimerInv, Expelling
    <2>3. \/ con' = con
          \/ con' = [con EXCEPT ![c].bye = TRUE, ![c].ousted = @ \cup {"init"}]
      BY <1>13 DEF send_and_close, c
    <2>4. Judging
      BY <1>1, <2>2, <2>3 DEF Judging, Judged, TimerInv, Connection
    <2> QED
      BY <1>2, <1>4, <1>13, <2>4, ThenPlain, TimersKept DEF send_and_close
  <1>14. CASE close(t)
    <2>1. \A d \in Members : Alike(con[d], con'[d])
      BY <1>1, <1>14 DEF close, Alike, Connection
    <2>2. NoExpel
      <3>0. Plain(<<Op("on_stop", c), Op("handle", c)>>) /\ Plain(<<Op("handle", c)>>)
        <4>1. {"on_stop", "handle"} \subseteq Ops
          BY DEF Ops
        <4> QED
          BY <1>3, <4>1, PlainOne, PlainTwo
      <3>1. PICK s : Plain(s) /\ Then(t, s)
        <4>1. \/ Then(t, <<Op("on_stop", c), Op("handle", c)>>) \/ Then(t, <<Op("handle", c)>>)
              \/ Then(t, <<>>)
          BY <1>14 DEF close, c
        <4> QED
          BY <1>4, <3>0, <4>1
      <3> QED
        BY <1>2, <3>1, ThenPlain
    <2> QED
      BY <2>1, <2>2, AlikeJudged, TimersKept
  <1>15. CASE unlist(t)
    BY <1>4, <1>5, <1>15, DoesPlain, TimersKept DEF unlist
  <1>16. CASE send_to_client(t)
    <2>0. Plain(<<Op("send", c)>>)
      <3>1. "send" \in Ops
        BY DEF Ops
      <3> QED
        BY <1>3, <3>1, PlainOne
    <2>1. PICK s : Plain(s) /\ Then(t, s)
      <3>1. Then(t, <<Op("send", c)>>) \/ Then(t, <<>>)
        BY <1>16 DEF send_to_client, c
      <3> QED
        BY <1>4, <2>0, <3>1
    <2> QED
      BY <1>2, <1>5, <1>16, <2>1, ThenPlain, TimersKept DEF send_to_client
  <1>17. CASE call_rpc_method(t)
    BY <1>2, <1>4, <1>5, <1>17, ThenPlain, DoesPlain, TimersKept DEF call_rpc_method
  <1> QED
    BY <1>6, <1>7, <1>8, <1>9, <1>10, <1>11, <1>12, <1>13, <1>14, <1>15, <1>16, <1>17 DEF Go

\* The handlers of a connection.
LEMMA HandleTimers ==
  ASSUME IInv, TimerInv, NEW t \in Io, NEW c \in Members, Handle(t, c)
  PROVE  TimerInv'
  <1>1. con \in [Members -> Connection] /\ con[c] \in Connection /\ t \in Threads
    BY Threading DEF IInv, Types
  <1>2. Judged(con[c]) /\ \A d \in Members : Judged(con[d])
    BY DEF TimerInv
  <1>3. /\ Plain(<<>>) /\ Plain(<<Op("close", c)>>)
        /\ Plain(<<Op("hello", c), Op("arm", c)>>) /\ Plain(<<Op("shake", c), Op("publish", c)>>)
        /\ Plain(<<Op("close", c), Op("drop", c)>>)
    <2>1. {"hello", "arm", "shake", "publish", "close", "drop"} \subseteq Ops
      BY DEF Ops
    <2> QED
      BY <2>1, PlainNone, PlainOne, PlainTwo
  <1>4. CASE ssl_handshake_handler(t, c)
    <2>1. Judging
      BY <1>1, <1>2, <1>4 DEF ssl_handshake_handler, Judging, Judged, Connection, Cancelled
    <2> QED
      BY <1>1, <1>3, <1>4, <2>1, DoesPlain, TimersKept DEF ssl_handshake_handler
  <1>5. CASE write_handler(t, c) \/ read_handler(t, c)
    <2>1. \A d \in Members : Alike(con[d], con'[d])
      BY <1>1, <1>5 DEF write_handler, read_handler, Alike, Connection
    <2> QED
      BY <1>1, <1>3, <1>5, <2>1, AlikeJudged, DoesPlain, SameJobs, TimersKept
         DEF write_handler, read_handler
  <1>6. CASE set_client_ready(t, c)
    <2>1. Judging
      BY <1>1, <1>2, <1>6 DEF set_client_ready, Judging, Judged, Connection, Cancelled
    <2> QED
      BY <1>1, <1>3, <1>6, <2>1, DoesPlain, TimersKept DEF set_client_ready
  <1>7. CASE get_pop_message(t, c)
    <2>1. \A d \in Members : Alike(con[d], con'[d])
      BY <1>7 DEF get_pop_message, Alike
    <2> QED
      BY <1>1, <1>3, <1>7, <2>1, AlikeJudged, DoesPlain, TimersKept DEF get_pop_message
  <1>8. CASE on_init_timeout(t, c)
    <2>1. Judging
      BY <1>1, <1>2, <1>8 DEF on_init_timeout, Judging, Judged, Connection
    <2>2. CASE Alive(c) /\ ~con[c].shaken
      <3>1. Does(t, <<Op("expel", c)>>) /\ "init" \in con[c].late
        BY <1>2, <1>8, <2>2 DEF on_init_timeout, Judged
      <3>2. <<Op("expel", c)>> \in Seq(Step)
        BY DEF Op, Step
      <3>3. job'[t] = <<Op("expel", c)>> /\ \A u \in Threads \ {t} : job'[u] = job[u]
        BY <1>1, <3>1, <3>2, DoesSteps DEF IInv
      <3>4. \A d \in Members : \A u \in Threads :
              Expelling(u, d)' => Expelling(u, d) \/ (u = t /\ d = c)
        BY <3>3 DEF Expelling, Op
      <3> QED
        BY <2>1, <3>1, <3>4 DEF TimerInv, Judging
    <2>3. CASE ~(Alive(c) /\ ~con[c].shaken)
      <3>1. Does(t, <<>>)
        BY <1>8, <2>3 DEF on_init_timeout
      <3> QED
        BY <1>1, <1>3, <2>1, <3>1, DoesPlain, TimersKept
    <2> QED
      BY <2>2, <2>3
  <1>9. CASE on_init_timeout_ssl(t, c)
    <2>1. \/ con' = [con EXCEPT ![c].tlsTimer = "off", ![c].ousted = @ \cup {"tls"}]
          \/ con' = [con EXCEPT ![c].tlsTimer = "off"]
      BY <1>9 DEF on_init_timeout_ssl
    <2>2. "tls" \in con[c].late
      BY <1>2, <1>9 DEF on_init_timeout_ssl, Judged
    <2>3. Judging
      BY <1>1, <1>2, <2>1, <2>2 DEF Judging, Judged, Connection
    <2>4. Does(t, <<>>) \/ Does(t, <<Op("close", c)>>)
      BY <1>9 DEF on_init_timeout_ssl
    <2> QED
      BY <1>1, <1>3, <2>3, <2>4, DoesPlain, TimersKept
  <1>10. CASE close_client(t, c)
    <2>1. /\ con' = [con EXCEPT ![c].bye = FALSE, ![c].shaken = @ /\ con[c].closed]
          /\ "init" \in con[c].late
      BY <1>2, <1>10 DEF close_client, Judged
    <2>2. Judging
      BY <1>1, <1>2, <2>1 DEF Judging, Judged, Connection
    <2>3. Does(t, <<>>) \/ Does(t, <<Op("close", c)>>)
      BY <1>10 DEF close_client
    <2> QED
      BY <1>1, <1>3, <2>2, <2>3, DoesPlain, TimersKept
  <1> QED
    BY <1>4, <1>5, <1>6, <1>7, <1>8, <1>9, <1>10 DEF Handle

LEMMA NextTimers == IInv /\ TimerInv /\ [Next]_vars => TimerInv'
  <1> SUFFICES ASSUME IInv, TimerInv, [Next]_vars PROVE TimerInv'
    OBVIOUS
  <1>1. con \in [Members -> Connection] /\ \A d \in Members : Judged(con[d])
    BY DEF IInv, Types, TimerInv
  <1>2. CASE \E t \in Io : on_accept(t)
    <2>1. PICK t \in Io : on_accept(t)
      BY <1>2
    <2>2. PICK c \in Members :
            /\ con' = [con EXCEPT ![c].made = TRUE]
            /\ Does(t, <<Op("store", c), Op("new", c)>>) \/ UNCHANGED job
      <3>1. PICK i \in 1..Arrivals[<<kind, slot>>] :
              /\ con' = [con EXCEPT ![Conns[i]].made = TRUE]
              /\ Does(t, <<Op("store", Conns[i]), Op("new", Conns[i])>>) \/ UNCHANGED job
        BY <2>1 DEF on_accept
      <3>2. Conns[i] \in Members
        BY <3>1, ArrivesMember
      <3> QED
        BY <3>1, <3>2
    <2>3. \A d \in Members : Alike(con[d], con'[d])
      BY <1>1, <2>2 DEF Alike, Connection
    <2>4. Plain(<<Op("store", c), Op("new", c)>>)
      <3>1. {"store", "new"} \subseteq Ops
        BY DEF Ops
      <3> QED
        BY <3>1, PlainTwo
    <2> QED
      BY <2>2, <2>3, <2>4, AlikeJudged, DoesPlain, SameJobs, TimersKept, Threading
  <1>3. CASE \E c \in Members : write_impl(c)
    <2>1. \A d \in Members : Alike(con[d], con'[d])
      BY <1>1, <1>3 DEF write_impl, Alike, Connection
    <2> QED
      BY <1>3, <2>1, AlikeJudged, SameJobs, TimersKept DEF write_impl
  <1>4. CASE \E c \in Members : Expire(c)
    <2>1. PICK c \in Members : Expire(c)
      BY <1>4
    <2>2. Judging
      BY <1>1, <2>1 DEF Expire, Judging, Judged, Connection
    <2> QED
      BY <2>1, <2>2, SameJobs, TimersKept DEF Expire
  <1>5. CASE stop_all_clients \/ broadcast
    <2>1. \A d \in Members : Alike(con[d], con'[d])
      BY <1>5 DEF stop_all_clients, broadcast, Alike
    <2>2. PICK op \in {"close", "test"} :
            /\ foreach_while(op, "user")
            /\ op = "close" => all' /\ cast'.state = "no"
            /\ op = "test" => cast'.state = "on"
      BY <1>5 DEF stop_all_clients, broadcast
    <2>3. /\ \A u \in Io : job'[u] = job[u]
          /\ \A i \in DOMAIN job'["user"] : job'["user"][i].op \in {op, "unlist"}
      BY <2>2, Walk
    <2>4. NoExpel
      BY <2>2, <2>3, Threading DEF NoExpel, Expelling
    <2> QED
      BY <2>1, <2>4, AlikeJudged, TimersKept
  <1>6. CASE UNCHANGED vars
    BY <1>6, SameJobs, AlikeJudged, TimersKept DEF vars, Alike
  <1> QED
    BY <1>2, <1>3, <1>4, <1>5, <1>6, HandleTimers, GoTimers DEF Next

LEMMA InitTimers == Init => TimerInv
  <1> SUFFICES ASSUME Init PROVE TimerInv
    OBVIOUS
  <1>1. \A c \in Members : Judged(con[c])
    BY DEF Init, NewConnection, Judged
  <1>2. \A t \in Threads : DOMAIN job[t] = {}
    BY DEF Init
  <1> QED
    BY <1>1, <1>2 DEF TimerInv, Expelling

LEMMA SpecTimers == Spec => []TimerInv
  BY InitInv, InitTimers, NextInv, NextTimers, PTL DEF Spec

------------------------------------------------------------------------------
(* What follows from the invariant.                                          *)

\* As long as no slot of on_stop_connection uses the list, no set of threads
\* waits in a circle for the mutexes of the connections and of the list: who
\* holds close_lock_ goes on to close_handle and waits for nobody, and who
\* walks the list under clients_lock_ waits for such a one at most.
THEOREM NoDeadlockOfLocks == Spec => []NoCircularWait
  <1>1. IInv => NoCircularWait
    <2> SUFFICES ASSUME IInv, slot # "lists", NEW W \in (SUBSET Threads) \ {{}}
                 PROVE  \E t \in W : \A u \in W : ~Waits(t, u)
      BY DEF NoCircularWait
    <2>1. \A t \in Threads : \A op : op # "idle" => (At(t, op) <=> todo[t].op = op)
      BY Todo DEF IInv
    <2>2. ASSUME NEW t \in Threads, todo[t].op = "close", NEW u \in Threads, held[Of(t)] = u
          PROVE  todo[u].op = "handle"
      <3>1. Of(t) \in Members
        <4>1. CASE t \in Io
          <5>1. ~Idle(t)
            BY <2>2, Todo DEF IInv
          <5> QED
            BY <4>1, <5>1, IoBusy
        <4>2. CASE t = "user"
          BY <2>2, <4>2, UserAtClose
        <4> QED
          BY <4>1, <4>2, Threading
      <3> QED
        BY <2>2, <3>1 DEF IInv, Locks, Doing
    <2>3. ASSUME NEW t \in Threads, todo[t].op \in {"store", "drop", "on_stop"}
          PROVE  t # "user"
      BY <2>3, UserSteps
    <2>4. held[List] \in {Nobody, "user"}
      BY DEF IInv, Locks
    <2>5. CASE \E t \in W : todo[t].op = "handle"
      <3>1. PICK t \in W : todo[t].op = "handle"
        BY <2>5
      <3>2. \A u \in W : ~Waits(t, u)
        BY <2>1, <3>1 DEF Waits
      <3> QED
        BY <3>2
    <2>6. CASE \A t \in W : todo[t].op # "handle"
      <3>1. \A t, u \in W : Waits(t, u) => u = "user" /\ t # "user"
        BY <2>1, <2>2, <2>3, <2>4, <2>6, Threading DEF Waits
      <3>2. CASE "user" \in W
        BY <3>1, <3>2
      <3>3. CASE "user" \notin W
        <4>1. PICK t \in W : TRUE
          OBVIOUS
        <4>2. \A u \in W : ~Waits(t, u)
          BY <3>1, <3>3
        <4> QED
          BY <4>2
      <3> QED
        BY <3>2, <3>3
    <2> QED
      BY <2>5, <2>6
  <1> QED
    BY <1>1, SpecInv, PTL

\* A timer has a connection closed only if the handshake it watches was not over
\* when it expired.  The invariant follows a late expiry through the queued
\* handler, the step between its test of ready_ and send_and_close, and the
\* write whose closure closes.  (on_init_timeout, send_and_close, close_client)
THEOREM TimerOnlyLosesRace == Spec => []OnlyLateOusted
  <1>1. TimerInv => OnlyLateOusted
    BY DEF TimerInv, Judged, OnlyLateOusted
  <1> QED
    BY <1>1, SpecTimers, PTL

\* clients_count( ) follows the connection list of the listener, and every
\* connection is announced as stopped at most once, and after it was announced
\* as new unless stop_all_clients closed it.  (new_connection, close, drop)
THEOREM ConnectionsAccounted == Spec => []ListAccounted
  <1>1. IInv => CountFollowsList
    <2> SUFFICES ASSUME IInv PROVE CountFollowsList
      OBVIOUS
    <2>1. /\ Announced \in SUBSET Members /\ Closed \in SUBSET Members
          /\ client_count_ = Cardinality(Announced) - Cardinality(Closed)
          /\ clients_ \in SUBSET Members
      BY DEF IInv, Count, Announced, Closed, Types
    <2>2. /\ IsFiniteSet(Announced) /\ Cardinality(Announced) \in Nat
          /\ IsFiniteSet(Closed) /\ Cardinality(Closed) \in Nat
      BY <2>1, Finite
    <2>3. /\ \A c \in Members : c \in Announced <=> con[c].announced
          /\ \A c \in Members : c \in Closed <=> con[c].closed
      BY DEF Announced, Closed
    <2>4. \A c \in Members :
            /\ con[c].thrown => con[c].announced
            /\ con[c].closed /\ ~con[c].announced => all
            /\ con[c].announced /\ ~con[c].closed /\ ~con[c].thrown => c \in clients_
            /\ c \in clients_ \/ con[c].closed => Known(c)
      BY DEF IInv, ConnInv
    <2>5. ASSUME Quiet
          PROVE  client_count_ = Cardinality({c \in clients_ : ~con[c].closed})
                   + Cardinality({c \in Members : con[c].thrown /\ ~con[c].closed /\ c \notin clients_})
      <3> DEFINE L == {c \in clients_ : ~con[c].closed}
                 T == {c \in Members : con[c].thrown /\ ~con[c].closed /\ c \notin clients_}
      <3>1. \A c \in Members : Known(c) => con[c].announced
        <4>1. \A t \in Io : todo[t].op = "idle"
          BY <2>5, Todo, Threading DEF Quiet, IInv
        <4> QED
          BY <4>1 DEF Known, Doing
      <3>2. Closed \subseteq Announced
        BY <2>1, <2>3, <2>4, <3>1
      <3>3. Announced \ Closed = L \cup T /\ L \cap T = {} /\ L \in SUBSET Members /\ T \in SUBSET Members
        BY <2>1, <2>3, <2>4, <3>1
      <3>4. /\ IsFiniteSet(L) /\ Cardinality(L) \in Nat
            /\ IsFiniteSet(T) /\ Cardinality(T) \in Nat
        BY <3>3, Finite
      <3> HIDE DEF L, T
      <3>5. Cardinality(L \cup T) = Cardinality(L) + Cardinality(T) - Cardinality(L \cap T)
        BY <3>4, FS_Union
      <3>6. Cardinality(L \cup T) = Cardinality(L) + Cardinality(T)
        <4>1. Cardinality(L \cap T) = 0
          BY <3>3, FS_EmptySet
        <4> QED
          BY <3>4, <3>5, <4>1
      <3>7. Cardinality(Announced \ Closed) = Cardinality(Announced) - Cardinality(Announced \cap Closed)
        BY <2>2, FS_Difference
      <3>8. Announced \cap Closed = Closed
        BY <3>2
      <3> QED
        BY <2>1, <2>2, <3>3, <3>4, <3>6, <3>7, <3>8 DEF L, T
    <2>6. ASSUME client_count_ < 0 PROVE all
      <3>1. ~(Closed \subseteq Announced)
        <4> SUFFICES ASSUME Closed \subseteq Announced PROVE FALSE
          OBVIOUS
        <4>1. Cardinality(Closed) <= Cardinality(Announced)
          BY <2>2, FS_Subset
        <4> QED
          BY <2>1, <2>2, <2>6, <4>1
      <3>2. PICK c \in Members : c \in Closed /\ c \notin Announced
        BY <2>1, <3>1
      <3> QED
        BY <2>3, <2>4, <3>2
    <2> QED
      BY <2>5, <2>6 DEF CountFollowsList
  <1>2. IInv => StoppedOnce
    <2> SUFFICES ASSUME IInv, NEW c \in Members
                 PROVE  con[c].stops <= 1 /\ (con[c].stops = 1 /\ ~con[c].announced => all)
      BY DEF StoppedOnce
    <2>1. /\ con[c].stops = IF con[c].closed THEN 1 ELSE 0
          /\ con[c].closed /\ ~con[c].announced => all
      BY DEF IInv, ConnInv
    <2> QED
      BY <2>1
  <1> QED
    BY <1>1, <1>2, SpecInv, PTL DEF ListAccounted

\* A broadcast that did not raise was sent to every client other than its sender
\* that was ready when it began and is ready still, and never to its sender,
\* though clients become ready, are closed and are dropped while the list is
\* walked.  (foreach_while, send_to_client)
THEOREM BroadcastMissesNobody == Spec => []BroadcastReaches
  <1>1. IInv => BroadcastReaches
    BY DEF IInv, CastInv
  <1> QED
    BY <1>1, SpecInv, PTL
==============================================================================
