------------------------------ MODULE ByteChannel ------------------------------
(***************************************************************************)
(* What the sending half of a transport promises the protocol above it:    *)
(* messages are accepted in some order that keeps the order of each writer,*)
(* and the bytes that come out are those of the accepted messages, one     *)
(* message after the other. The cipher and the hash of the layer above work*)
(* because of nothing else.                                                *)
(***************************************************************************)
EXTENDS Naturals, Sequences

CONSTANTS
  Threads,     \* writers
  MaxWrites,   \* bound: messages of each writer
  Size         \* bytes of a message

VARIABLES
  accepted,    \* messages in the order they were accepted
  out          \* bytes that came out

Message == Threads \X (1..MaxWrites)

Accepted(m) == \E i \in DOMAIN accepted : accepted[i] = m

\* The bytes of all accepted messages, Size to a message, as <<message, index>>.
Bytes ==
  [i \in 1..(Len(accepted) * Size) |->
     <<accepted[((i - 1) \div Size) + 1], ((i - 1) % Size) + 1>>]

\* The next message of a writer: the ones it wrote before were accepted.
Accept ==
  \E m \in Message :
    /\ ~Accepted(m)
    /\ \A k \in 1..(m[2] - 1) : Accepted(<<m[1], k>>)
    /\ accepted' = Append(accepted, m)
    /\ UNCHANGED out

\* More of the bytes come out, in their order.
Emit ==
  /\ \E n \in (Len(out) + 1)..Len(Bytes) : out' = SubSeq(Bytes, 1, n)
  /\ UNCHANGED accepted

Spec == accepted = <<>> /\ out = <<>> /\ [][Accept \/ Emit]_<<accepted, out>>
================================================================================
