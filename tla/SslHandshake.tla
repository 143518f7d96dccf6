----------------------------- MODULE SslHandshake -----------------------------
(***************************************************************************)
(* TLS over remote calls: examples/hello-ssl-handshake.  Each side has an  *)
(* ssl_bio_wrapper, an SSL object between two memory buffers; the records  *)
(* that one side takes out of out_ travel as the block of send_block and   *)
(* are put into the other's in_.                                           *)
(*                                                                         *)
(* The SSL object is external.  Its handshake has four flights, two of each*)
(* side, and it may refuse (the server makes its context from              *)
(* TLSv1_2_client_method).  The client does the handshake in a loop that   *)
(* would spin if the SSL object wanted to read and had nothing to say, and *)
(* then sends messages; the reply to one of them it only puts into in_,    *)
(* where the next decrypt finds it.                                        *)
(***************************************************************************)
EXTENDS Naturals, Sequences, SequencesExt

CONSTANT Messages     \* bound: messages of the client, the second undecoded

Sides == {"client", "server"}
Peer(s) == IF s = "client" THEN "server" ELSE "client"
Flight(n) == [flight |-> n]
Record(m) == [data |-> m]

VARIABLES
  flights,   \* side -> flights its SSL object has sent or taken
  in_, out_, \* side -> records in its buffers
  block,     \* the block that travels
  turn,      \* who runs: "client", "call", "server", "reply" or "end"
  sent,      \* messages the client has encrypted
  decoded,   \* what decrypt gave the client
  echoed,    \* what the server decrypted
  failed     \* a side raised an exception

vars == <<flights, in_, out_, block, turn, sent, decoded, echoed, failed>>

Init ==
  /\ flights = [s \in Sides |-> 0]
  /\ in_ = [s \in Sides |-> <<>>] /\ out_ = [s \in Sides |-> <<>>]
  /\ block = <<>> /\ turn = "client" /\ sent = 0
  /\ decoded = <<>> /\ echoed = <<>> /\ failed = FALSE

------------------------------------------------------------------------------
(* The SSL object (external).                                               *)

init_finished(s) == flights[s] = 4

\* The flight n is sent by the client if n is odd, by the server if it is even.
Speaks(s, n) == n \in 1..4 /\ (s = "client" <=> n % 2 = 1)

\* SSL_do_handshake takes the flight it waits for, and sends the one that
\* follows.  Without input it wants to read.
SSL_do_handshake(s, input) ==
  LET next == flights[s] + 1
      taken == IF next \in 1..4 /\ ~Speaks(s, next) /\ input # <<>> /\ Head(input) = Flight(next)
                 THEN 1 ELSE 0
      says == IF Speaks(s, next + taken) THEN <<Flight(next + taken)>> ELSE <<>>
  IN [in |-> SubSeq(input, 1 + taken, Len(input)),
      out |-> says, flights |-> flights[s] + taken + Len(says)]

------------------------------------------------------------------------------
(* ssl_bio_wrapper.                                                         *)

\* out_.read_all: everything the SSL object wrote.
Takes(s, records) == block' = out_[s] \o records /\ out_' = [out_ EXCEPT ![s] = <<>>]

\* Mutant: the output is read before the handshake is continued.
do_handshake_early(s, data) ==
  LET r == SSL_do_handshake(s, in_[s] \o data) IN
    /\ in_' = [in_ EXCEPT ![s] = r.in] /\ flights' = [flights EXCEPT ![s] = r.flights]
    /\ block' = out_[s] /\ out_' = [out_ EXCEPT ![s] = r.out]

\* do_handshake: the data goes into in_, the handshake goes on, out_ is read.
do_handshake(s, data) ==
  LET r == SSL_do_handshake(s, in_[s] \o data) IN
    /\ in_' = [in_ EXCEPT ![s] = r.in] /\ flights' = [flights EXCEPT ![s] = r.flights]
    /\ Takes(s, r.out)

\* check_raise_fatal: the SSL object refuses.
check_raise_fatal ==
  /\ turn \in {"client", "server"} /\ \E s \in Sides : turn = s /\ ~init_finished(s)
  /\ failed' = TRUE /\ turn' = "end"
  /\ UNCHANGED <<flights, in_, out_, block, sent, decoded, echoed>>

\* encrypt: SSL_write makes a record of the message, and out_ is read.
encrypt(s, m) == Takes(s, <<Record(m)>>)

read_all(records) == [i \in DOMAIN records |-> records[i].data]

\* decrypt: the data goes into in_, read_all gives what is there.
Decrypted(s, data) == read_all(in_[s] \o data)

------------------------------------------------------------------------------
(* connect_handshake and send_data of the client.                           *)

\* The loop: a flight is sent by a call.  No flight: the loop spins.
connect_handshake ==
  /\ turn = "client" /\ ~init_finished("client")
  /\ do_handshake("client", <<>>)
  /\ turn' = IF block' = <<>> THEN "client" ELSE "call"
  /\ UNCHANGED <<sent, decoded, echoed, failed>>

send_data ==
  /\ turn = "client" /\ init_finished("client") /\ sent < Messages
  /\ sent' = sent + 1 /\ encrypt("client", sent + 1) /\ turn' = "call"
  /\ UNCHANGED <<flights, in_, decoded, echoed, failed>>

\* The answer of the handshake, and the one that is not decoded, goes into in_.
AnswerKept ==
  /\ turn = "reply" /\ (~init_finished("client") \/ sent = 2)
  /\ in_' = [in_ EXCEPT !["client"] = @ \o block] /\ block' = <<>>
  /\ turn' = "client"
  /\ UNCHANGED <<flights, out_, sent, decoded, echoed, failed>>

\* Mutant: what is left in in_ is not read.
AnswerDecoded_last ==
  /\ turn = "reply" /\ init_finished("client") /\ sent # 2
  /\ decoded' = decoded \o read_all(block)
  /\ in_' = [in_ EXCEPT !["client"] = <<>>] /\ block' = <<>>
  /\ turn' = "client"
  /\ UNCHANGED <<flights, out_, sent, echoed, failed>>

AnswerDecoded ==
  /\ turn = "reply" /\ init_finished("client") /\ sent # 2
  /\ decoded' = decoded \o Decrypted("client", block)
  /\ in_' = [in_ EXCEPT !["client"] = <<>>] /\ block' = <<>>
  /\ turn' = "client"
  /\ UNCHANGED <<flights, out_, sent, echoed, failed>>

Finish ==
  /\ turn = "client" /\ sent = Messages /\ init_finished("client")
  /\ turn' = "end"
  /\ UNCHANGED <<flights, in_, out_, block, sent, decoded, echoed, failed>>

\* The call reaches the server, or the connection is lost and it throws.
CallArrives ==
  /\ turn = "call"
  /\ \/ turn' = "server" /\ UNCHANGED failed
     \/ turn' = "end" /\ failed' = TRUE
  /\ UNCHANGED <<flights, in_, out_, block, sent, decoded, echoed>>

------------------------------------------------------------------------------
(* send_block of the server.                                                *)

send_block ==
  /\ turn = "server" /\ turn' = "reply"
  /\ \/ ~init_finished("server") /\ do_handshake("server", block) /\ UNCHANGED echoed
     \/ /\ init_finished("server")
        /\ echoed' = echoed \o Decrypted("server", block)
        /\ in_' = [in_ EXCEPT !["server"] = <<>>]
        /\ Takes("server", [i \in DOMAIN Decrypted("server", block) |-> Record(Decrypted("server", block)[i])])
        /\ UNCHANGED flights
  /\ UNCHANGED <<sent, decoded, failed>>

Step ==
  \/ connect_handshake \/ send_data \/ AnswerKept \/ AnswerDecoded
  \/ Finish \/ CallArrives \/ send_block

Next == Step \/ check_raise_fatal

\* Both programs run; the SSL object need not refuse.
Spec == Init /\ [][Next]_vars /\ WF_vars(Step)

------------------------------------------------------------------------------
(* Properties.                                                              *)

\* Messages are exchanged only when both sides have finished, and what each side
\* decrypts is what the other encrypted, in order, with nothing lost between a
\* reply that was only kept and the next that is decoded.
RepliesInOrder ==
  /\ sent > 0 => \A s \in Sides : init_finished(s)
  /\ IsPrefix(echoed, [i \in 1..sent |-> i])
  /\ IsPrefix(decoded, echoed)
  /\ turn = "end" /\ ~failed => echoed = [i \in 1..Messages |-> i] /\ (Messages > 2 => decoded = echoed)

Finished == turn = "end"

\* The client's loop does not spin: the program ends.
ProgramEnds == <>Finished
===============================================================================
