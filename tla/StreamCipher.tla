------------------------------ MODULE StreamCipher ------------------------------
(***************************************************************************)
(* The stream cipher of a connection: erseefor.h, with the transformer that*)
(* drops the start of its stream, the keys both ends derive and the choice *)
(* of a transformer by its number.  Each direction has a cipher on either  *)
(* end; the receiver's must stay in step with the sender's for the life of *)
(* the connection, whatever lengths messages have.                         *)
(*                                                                         *)
(* A byte is a number below Size, the length of the permutation: 256 in the*)
(* code, smaller here.  The hash of the key is abstract: a key is what it  *)
(* was derived from.                                                       *)
(***************************************************************************)
EXTENDS Naturals, Sequences

CONSTANTS
  Size,             \* 256 in the code: a power of two
  drop_key_init,    \* 3072 in the code: bytes dropped when a cipher is made
  Secrets,          \* secrets of a session
  KeyBytes,         \* secret -> the bytes of the key derived from it
  Messages,         \* messages: sequences of bytes, the empty one too
  MaxMessages       \* bound: messages sent in one direction

Byte == 0..(Size - 1)
Null == [kind |-> "null"]

\* Exclusive or of numbers up to n, bit by bit.
XorTo[n \in Nat] ==
  [p \in Nat \X Nat |-> IF n = 0 THEN 0
     ELSE ((p[1] + p[2]) % 2) + 2 * XorTo[n \div 2][<<p[1] \div 2, p[2] \div 2>>]]
xor(a, b) == XorTo[Size - 1][<<a, b>>]

\* swap_bytes.
swap_bytes(f, i, j) == [f EXCEPT ![i] = f[j], ![j] = f[i]]

\* init_key: the loop of 256 steps, as a function of the steps done.
init_key(key) ==
  LET KeyAt(i) == key[(i % Len(key)) + 1]
      loop[i \in 0..Size] ==
        IF i = 0 THEN [state_ |-> [b \in Byte |-> b], k |-> 0]
        ELSE LET s == loop[i - 1]
                 k == (s.k + s.state_[i - 1] + KeyAt(i - 1)) % Size
             IN [state_ |-> swap_bytes(s.state_, i - 1, k), k |-> k]
  IN [kind |-> "erseefor", state_ |-> loop[Size].state_, si1_ |-> 0, si2_ |-> 0]

\* One step of the generator, in drop and in transform.
Step(c) ==
  LET i == (c.si1_ + 1) % Size
      j == (c.si2_ + c.state_[i]) % Size
  IN [c EXCEPT !.si1_ = i, !.si2_ = j, !.state_ = swap_bytes(c.state_, i, j)]

\* The cipher after n steps.
After(c) == LET after[n \in Nat] == IF n = 0 THEN c ELSE Step(after[n - 1]) IN after

drop(c, count) == After(c)[count]

\* transform of erseefor.h: the cipher and the bytes that come out.
transform_bytes(c, data) ==
  LET Pad(n) == LET s == After(c)[n] IN s.state_[(s.state_[s.si1_] + s.state_[s.si2_]) % Size]
  IN <<After(c)[Len(data)], [n \in DOMAIN data |-> xor(data[n], Pad(n))]>>

\* transformer::transform: that of none changes nothing.
transform(c, data) ==
  IF c.kind = "none" THEN <<c, data>> ELSE transform_bytes(c, data)

\* create_key: sha256( s2 + sha256( s1 + key ) ), abstract.
create_key(secret) == KeyBytes[secret]

\* create: a number that is not known gives no transformer at all.
create(id, key) ==
  CASE id = "TRANSFORM_ERSEEFOR" -> drop(init_key(key), drop_key_init)
    [] id = "TRANSFORM_NONE" -> [kind |-> "none"]
    [] OTHER -> Null

VARIABLES
  id,          \* the number of the transformer the client asks for
  transformer_,\* the client's, for what it sends
  revertor_,   \* the server's, for what it receives
  wire,        \* transformed messages on their way
  sent,        \* history: messages sent
  received     \* history: messages received, reverted

vars == <<id, transformer_, revertor_, wire, sent, received>>

\* Both ends derive the key from the secret they share.
Init ==
  /\ id \in {"TRANSFORM_ERSEEFOR", "TRANSFORM_NONE", "unknown"}
  /\ \E s \in Secrets :
       transformer_ = create(id, create_key(s)) /\ revertor_ = create(id, create_key(s))
  /\ wire = <<>> /\ sent = <<>> /\ received = <<>>

\* Without a transformer the session is not set up.
Works == transformer_ # Null /\ revertor_ # Null

\* pack_message_impl.
send(m) ==
  /\ Works /\ Len(sent) < MaxMessages
  /\ LET out == transform(transformer_, m) IN
       transformer_' = out[1] /\ wire' = Append(wire, out[2])
  /\ sent' = Append(sent, m) /\ UNCHANGED <<id, revertor_, received>>

\* Mutant: a message without bytes steps the receiver's cipher.
receive_reset ==
  /\ wire # <<>>
  /\ LET out == transform(IF Head(wire) = <<>> /\ id = "TRANSFORM_ERSEEFOR"
                            THEN Step(revertor_) ELSE revertor_, Head(wire)) IN
       revertor_' = out[1] /\ received' = Append(received, out[2])
  /\ wire' = Tail(wire) /\ UNCHANGED <<id, transformer_, sent>>

\* The message is reverted when it is taken from the queue.
receive ==
  /\ wire # <<>>
  /\ LET out == transform(revertor_, Head(wire)) IN
       revertor_' = out[1] /\ received' = Append(received, out[2])
  /\ wire' = Tail(wire) /\ UNCHANGED <<id, transformer_, sent>>

Next == receive \/ \E m \in Messages : send(m)

Spec == Init /\ [][Next]_vars

------------------------------------------------------------------------------
(* Properties.                                                              *)

IsCipher(c) == c.kind = "erseefor"

\* What is received is what was sent, message by message, and with nothing on the
\* way the two ciphers are in the same state; that state stays a permutation of
\* the bytes.
InStep ==
  /\ received = SubSeq(sent, 1, Len(received))
  /\ wire = <<>> => transformer_ = revertor_ /\ received = sent
  /\ \A c \in {transformer_, revertor_} :
       IsCipher(c) => {c.state_[b] : b \in Byte} = Byte
================================================================================
