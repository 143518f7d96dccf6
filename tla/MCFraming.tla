------------------------------ MODULE MCFraming ------------------------------
(* Varint groups of one bit: a length of two already takes two bytes, and   *)
(* the largest size_type takes max_length bytes.                            *)
EXTENDS Framing

\* Bodies whose bytes would be lengths to a parser that lost its place.
Body(len) == [j \in 1..len |-> (3 * j + len) % (2 * Base)]

Sound(lens) == {pack_message(Body(n), TRUE) : n \in lens}

\* Frames the receiver has to give up on: too long, a bad hash, a length
\* padded beyond max_length; and one that is only padded.
Odd ==
  {pack_message(Body(MaxValid + 3), TRUE),
   pack_message(Body(2), FALSE),
   [prefix |-> [i \in 1..(max_length + 1) |-> IF i <= max_length THEN Base ELSE 0],
    body |-> <<>>, good |-> TRUE],
   [prefix |-> <<Base + 1, Base, 0>>, body |-> Body(1), good |-> TRUE]}

MCPlans ==
  {<<a, b, c>> : a \in Sound({2}), b \in Sound({1, 4}) \cup Odd,
                 c \in Sound({0, 3}) \cup Odd}
==============================================================================
