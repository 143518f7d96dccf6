------------------------------- MODULE SizePack -------------------------------
(***************************************************************************)
(* The two encodings of a frame's length (sizepack-policy.h). A byte is a  *)
(* number below 2 * Base; varint keeps the continuation bit in its upper   *)
(* half, so a byte of the code has Base = 128 and a model a smaller one.   *)
(***************************************************************************)
EXTENDS Naturals, Sequences

CONSTANTS
  Base,     \* values of one varint group: 2^7 in the code
  Digits    \* whole varint groups in size_type: 64 \div 7 = 9 in the code

ASSUME SizePackAssumption == Base \in Nat /\ Base > 1 /\ Digits \in Nat \ {0}

Byte == 0..(2 * Base - 1)

Continues(b) == b >= Base

\* b^n, for the shifts: by groups of varint, and by bytes of fixint.
Powers(b) == LET p[n \in Nat] == IF n = 0 THEN 1 ELSE b * p[n - 1] IN p
Power  == Powers(Base)
Octets == Powers(2 * Base)

\* size_type has one bit more than Digits groups (64 = 9 * 7 + 1).
SizeValues == 2 * Power[Digits]

------------------------------------------------------------------------------
(* varint_policy                                                            *)

\* Mutant: the bit left over is forgotten.
max_length_short == Digits

max_length == Digits + 1

\* The number of bytes of the length at the front of s; 0 when its last byte
\* has not arrived.
size_length(s) ==
  IF \A i \in DOMAIN s : Continues(s[i])
    THEN 0
    ELSE CHOOSE i \in DOMAIN s :
           ~Continues(s[i]) /\ \A j \in 1..(i - 1) : Continues(s[j])

pack[n \in Nat] ==
  IF n < Base THEN <<n>> ELSE <<(n % Base) + Base>> \o pack[n \div Base]

\* The groups of s from its i-th byte to the one that does not continue,
\* added up in size_type.
unpack(s) ==
  LET from[i \in 1..(Len(s) + 1)] ==
        IF i > Len(s) THEN 0
        ELSE ((s[i] % Base) * Power[i - 1]
               + (IF Continues(s[i]) THEN from[i + 1] ELSE 0)) % SizeValues
  IN from[1]

------------------------------------------------------------------------------
(* fixint_policy, of N bytes: the most significant first.                   *)

fix_size_length(s, N) == IF Len(s) < N THEN 0 ELSE N

fix_pack(n, N) == [i \in 1..N |-> (n \div Octets[N - i]) % (2 * Base)]

fix_unpack(s, N) ==
  LET from[i \in 1..(N + 1)] ==
        IF i > N \/ i > Len(s) THEN 0 ELSE s[i] * Octets[N - i] + from[i + 1]
  IN from[1]
================================================================================
