-------------------------------- MODULE Framing --------------------------------
(***************************************************************************)
(* From bytes to messages: the receiving half of default_protocol with the *)
(* varint parser of data-queue.cpp. The peer's bytes arrive in chunks of   *)
(* any size; process_data appends a chunk, cuts every complete frame off   *)
(* the front of the buffer and calls the dispatch loop once, which checks  *)
(* the hash of each message and stops at the first bad one. A length that  *)
(* the parser refuses raises out of process_data before the loop is called.*)
(***************************************************************************)
EXTENDS SizePack

CONSTANTS
  MaxValid,    \* session_options::max_message_length
  MaxChunk,    \* bound: bytes of one read
  Plans        \* what the peer may send: sequences of frames

ASSUME FramingAssumption == MaxValid \in Nat /\ MaxChunk \in Nat \ {0}

\* A frame the peer sends: the bytes of its length, its body, and whether
\* the hash in the body is the hash of its data.
Frame == [prefix : Seq(Byte), body : Seq(Byte), good : BOOLEAN]

\* The peer frames what it sends: the bytes before a body are its length, in
\* as many bytes as the peer likes.
Framed(f) ==
  /\ f.prefix # <<>> /\ size_length(f.prefix) = Len(f.prefix)
  /\ unpack(f.prefix) = Len(f.body)

ASSUME PlansAssumption ==
  \A p \in Plans : p \in Seq(Frame) /\ \A i \in DOMAIN p : Framed(p[i])

VARIABLES
  plan,        \* the frames of this run
  wire,        \* bytes the transport has not read yet
  data,        \* queue_base::impl::data_
  messages,    \* queue_base::impl::packed_
  delivered,   \* messages that passed pop_proto_message, in order
  outcome,     \* open, raised (length_error) or refused (hash)
  before       \* history: bytes read before the last read

vars == <<plan, wire, data, messages, delivered, outcome, before>>

Bytes(f) == f.prefix \o f.body

\* The bytes of the first k frames of p, and of all.
StreamTo(p, k) ==
  LET to[j \in 0..k] == IF j = 0 THEN <<>> ELSE to[j - 1] \o Bytes(p[j])
  IN to[k]
Stream(p) == StreamTo(p, Len(p))

\* The sender's pack_message: the length of what follows, then the body.
pack_message(body, good) == [prefix |-> pack[Len(body)], body |-> body, good |-> good]

Init ==
  /\ plan \in Plans
  /\ wire = Stream(plan)
  /\ data = <<>>
  /\ messages = <<>>
  /\ delivered = <<>>
  /\ outcome = "open"
  /\ before = 0

------------------------------------------------------------------------------
(* The parser.                                                              *)

Nothing == [kind |-> "more", len |-> 0, next |-> 0]

\* Mutant: the length is not compared with the maximum.
process_one_unlimited(s) ==
  LET next == size_length(s)
      len  == unpack(SubSeq(s, 1, next))
  IN CASE next = 0            -> Nothing
       [] next > max_length   -> [Nothing EXCEPT !.kind = "raise"]
       [] OTHER ->
            IF len + next <= Len(s)
              THEN [kind |-> "frame", len |-> len, next |-> next]
              ELSE Nothing

\* Mutant: a frame is complete only when something follows it.
process_one_strict(s) ==
  LET next == size_length(s)
      len  == unpack(SubSeq(s, 1, next))
  IN CASE next = 0            -> Nothing
       [] next > max_length   -> [Nothing EXCEPT !.kind = "raise"]
       [] OTHER ->
            IF len > MaxValid THEN [Nothing EXCEPT !.kind = "raise"]
            ELSE IF len + next < Len(s)
              THEN [kind |-> "frame", len |-> len, next |-> next]
              ELSE Nothing

\* What is at the front of the buffer s: a complete frame, a length the
\* parser refuses, or not enough bytes to tell.
process_one(s) ==
  LET next == size_length(s)
      len  == unpack(SubSeq(s, 1, next))
  IN CASE next = 0            -> Nothing
       [] next > max_length   -> [Nothing EXCEPT !.kind = "raise"]
       [] OTHER ->
            IF len > MaxValid THEN [Nothing EXCEPT !.kind = "raise"]
            ELSE IF len + next <= Len(s)
              THEN [kind |-> "frame", len |-> len, next |-> next]
              ELSE Nothing

\* Mutant: the buffer is cleared once its frames were cut off.
process_clears(s) ==
  LET at[i \in 1..(Len(s) + 1)] ==
        LET rest == SubSeq(s, i, Len(s))
            one  == process_one(rest)
            size == one.next + one.len
        IN IF one.kind = "frame"
             THEN LET tail == at[i + size] IN
                  [tail EXCEPT !.rest = <<>>,
                               !.msgs = <<SubSeq(rest, one.next + 1, size)>> \o @]
             ELSE [msgs |-> <<>>, rest |-> rest, raised |-> one.kind = "raise"]
  IN at[1]

\* The frames cut off the front of s, what is left of it, and whether the
\* loop ended by raising. at[i] parses from the i-th byte on.
process(s) ==
  LET at[i \in 1..(Len(s) + 1)] ==
        LET rest == SubSeq(s, i, Len(s))
            one  == process_one(rest)
            size == one.next + one.len
        IN IF one.kind = "frame"
             THEN LET tail == at[i + size] IN
                  [tail EXCEPT !.msgs =
                    <<SubSeq(rest, one.next + 1, size)>> \o @]
             ELSE [msgs |-> <<>>, rest |-> rest, raised |-> one.kind = "raise"]
  IN at[1]
------------------------------------------------------------------------------
(* One read.                                                                *)

\* check_message: the peer's hash is right for its good frames. Messages are
\* popped in the order of the plan.
check_message(k) == k \in DOMAIN plan /\ plan[k].good

\* Mutant: the loop goes on after a bad message.
PoppedAll(n) == n

\* The dispatch loop pops until the queue is empty or a message is bad.
Popped(n) ==
  LET start == Len(delivered)
  IN CHOOSE m \in 0..n :
       /\ \A j \in 1..m : check_message(start + j)
       /\ m < n => ~check_message(start + m + 1)

\* process_data for a chunk of n bytes.
process_data(n) ==
  /\ outcome = "open"
  /\ n <= Len(wire)
  /\ LET p == process(data \o SubSeq(wire, 1, n))
         queued == messages \o p.msgs
         m == Popped(Len(queued))
     IN /\ data' = p.rest
        /\ IF p.raised \/ p.msgs = <<>>
             THEN messages' = queued /\ UNCHANGED delivered
             ELSE \* a bad message is popped too, and the loop returns
                  /\ delivered' = delivered \o SubSeq(queued, 1, m)
                  /\ messages' = SubSeq(queued, m + 2, Len(queued))
        /\ outcome' = CASE p.raised -> "raised"
                        [] ~p.raised /\ p.msgs # <<>> /\ m < Len(queued) -> "refused"
                        [] OTHER -> "open"
  /\ wire' = SubSeq(wire, n + 1, Len(wire))
  /\ before' = Len(Stream(plan)) - Len(wire)
  /\ UNCHANGED plan

Next == \E n \in 1..MaxChunk : process_data(n)

\* The transport keeps reading what the peer sent, if only byte by byte.
Spec == Init /\ [][Next]_vars /\ WF_vars(process_data(1))
------------------------------------------------------------------------------
\* Every length that fits comes back from both encodings, takes no more bytes
\* than the parser accepts, and no proper beginning of it is taken for a
\* length.  So the parser stays in step with the stream: the length it finds at
\* the front of its buffer is the one the sender put before the next message.
RoundTrip ==
  /\ \A n \in 0..(SizeValues - 1) :
       /\ size_length(pack[n]) = Len(pack[n])
       /\ Len(pack[n]) <= max_length
       /\ unpack(pack[n]) = n
       /\ \A i \in 1..(Len(pack[n]) - 1) : size_length(SubSeq(pack[n], 1, i)) = 0
       /\ n < Octets[2] => /\ fix_size_length(fix_pack(n, 2), 2) = 2
                           /\ fix_unpack(fix_pack(n, 2), 2) = n
  /\ outcome = "open" /\ size_length(data) # 0 =>
       size_length(data) = Len(plan[Len(delivered) + 1].prefix)

\* However the bytes are cut into reads, no byte is lost, repeated or moved
\* from one message to another.
NothingLost ==
  outcome = "open" =>
    /\ messages = <<>>
    /\ Stream([i \in DOMAIN delivered |-> [plan[i] EXCEPT !.body = delivered[i]]])
         \o data \o wire = Stream(plan)

\* A message whose last byte was read before the last read is delivered,
\* unless a bad hash came first: a raise loses only what came in its read.
\* And only what passed the hash and the limit is delivered.
DeliveredOnTime ==
  /\ \A k \in DOMAIN plan :
       /\ Len(StreamTo(plan, k)) <= before
       /\ \A i \in 1..k : plan[i].good
       => Len(delivered) >= k /\ delivered[k] = plan[k].body
  /\ \A k \in DOMAIN delivered :
       plan[k].good /\ Len(delivered[k]) <= MaxValid

\* The buffer holds at most one incomplete frame, unless it is nothing but
\* the beginning of a length.
BufferBounded ==
  \/ Len(data) < max_length + MaxValid
  \/ \A i \in DOMAIN data : Continues(data[i])
  \/ outcome = "raised"

\* In the end everything the peer sent is delivered, or the connection is
\* given up for a reason that is in the stream.
AllDelivered ==
  <>[](\/ outcome = "open" /\ Len(delivered) = Len(plan)
       \/ outcome = "raised" /\ \E k \in DOMAIN plan :
             \/ Len(plan[k].prefix) > max_length
             \/ unpack(plan[k].prefix) > MaxValid
       \/ outcome = "refused" /\ \E k \in DOMAIN plan : ~plan[k].good)

\* However reads divide the stream, process and pop give every message once, whole,
\* on time and only if it is sound, and keep no more than one incomplete frame.
FramesSound == NothingLost /\ DeliveredOnTime /\ BufferBounded
================================================================================
