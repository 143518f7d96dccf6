------------------------------- MODULE Handshake -------------------------------
(***************************************************************************)
(* The start of a session, both ends: the server says hello, the client    *)
(* selects a hash and perhaps the cipher, the ends exchange salts, the     *)
(* server says ready; from then on calls flow. Each end switches the four  *)
(* things a message depends on (hash maker and checker, transformer and    *)
(* revertor) at its own moment, while messages posted to the write strand  *)
(* are packed later, and while the server's init timer may fire.           *)
(*                                                                         *)
(* A read may bring several messages, but process_data calls the stage     *)
(* function once for each read: in the handshake that takes one message.   *)
(***************************************************************************)
EXTENDS Naturals, Sequences, FiniteSets

CONSTANTS
  Secrets,      \* session keys
  NoKey,        \* the client's environment has no session_key
  MaxCalls      \* bound: calls each end makes once it is ready

ASSUME HandshakeAssumption == NoKey \notin Secrets /\ MaxCalls \in Nat

End == {"client", "server"}
Peer(e) == IF e = "client" THEN "server" ELSE "client"

\* A cipher is keyed with a secret and the salts one end made.
Plain  == <<>>
Cipher == {Plain} \cup (Secrets \X End)

Capsule == {"hello", "select_none", "select_cipher", "setup", "ready",
            "denied", "timeout"}
What    == Capsule \cup {"call"}
Packet  == [what : What, hash : {"none", "crc"}, key : Cipher]

VARIABLES
  conf,      \* session_key of either end, and session_key_required
  stage,     \* stage_ of the client, stage_function_ of the server
  ready,     \* ready_ of each end's iface
  mode,      \* process_stage_: do_handshake or ready_call
  maker, checker, trans, rev,   \* hash_maker_, hash_checker_, transformer_, revertor_
  posted,    \* messages each end posted to its write strand
  net,       \* packets each end sent and the other has not read
  queue,     \* packets each end has read and not popped
  open,      \* the connection is not closed at this end
  closing,   \* the server sent a message with close_client as its closure
  timer,     \* keepalive_calls_: armed, due, posting or off
  errors,    \* history: how often the client's on_init_error was signalled
  calls,     \* history: calls each end made
  handled,   \* history: calls each end handled
  garbled    \* history: what failed its hash check, and where

codecVars == <<maker, checker, trans, rev>>
readVars  == <<net, queue>>
histVars  == <<errors, calls, handled, garbled>>
vars == <<conf, stage, ready, mode, codecVars, posted, readVars, open, closing,
          timer, histVars>>

Both(x) == [e \in End |-> x]

Init ==
  /\ conf \in [client : Secrets \cup {NoKey}, server : Secrets, required : BOOLEAN]
  /\ stage = [e \in End |-> IF e = "client" THEN "hello" ELSE "selection"]
  /\ ready = Both(FALSE)
  /\ mode = Both("handshake")
  /\ maker = Both("none") /\ checker = Both("none")
  /\ trans = Both(Plain) /\ rev = Both(Plain)
  /\ posted = [e \in End |-> IF e = "client" THEN <<>> ELSE <<"hello">>]
  /\ net = Both(<<>>) /\ queue = Both(<<>>)
  /\ open = Both(TRUE)
  /\ closing = FALSE
  /\ timer = "armed"
  /\ errors = 0
  /\ calls = Both(0) /\ handled = Both(0)
  /\ garbled = {}

------------------------------------------------------------------------------
(* Sending.                                                                 *)

Post(e, what) == posted' = [posted EXCEPT ![e] = Append(@, what)]

\* The strand packs a message with what is set now. The closure of the
\* client's selection (set_options) runs right after that and sets its hash.
pack_message(e) ==
  /\ posted[e] # <<>>
  /\ LET what == Head(posted[e]) IN
     /\ posted' = [posted EXCEPT ![e] = Tail(@)]
     /\ net' = [net EXCEPT ![e] = IF open[e]
                  THEN Append(@, [what |-> what, hash |-> maker[e], key |-> trans[e]])
                  ELSE @]
     /\ maker' = [maker EXCEPT ![e] =
                    IF what \in {"select_none", "select_cipher"} THEN "crc" ELSE @]
     /\ closing' = (closing \/ (what \in {"denied", "timeout"} /\ open[e]))
  /\ UNCHANGED <<conf, stage, ready, mode, checker, trans, rev, queue, open,
                 timer, histVars>>

\* close_client: the refusal was sent.
close_client ==
  /\ closing
  /\ closing' = FALSE
  /\ ready' = [ready EXCEPT !["server"] = FALSE]
  /\ open' = [open EXCEPT !["server"] = FALSE]
  /\ UNCHANGED <<conf, stage, mode, codecVars, posted, readVars, timer, histVars>>

\* An end that is ready makes a call.
Call(e) ==
  /\ mode[e] = "ready" /\ open[e]
  /\ calls[e] < MaxCalls
  /\ calls' = [calls EXCEPT ![e] = @ + 1]
  /\ Post(e, "call")
  /\ UNCHANGED <<conf, stage, ready, mode, codecVars, readVars, open, closing,
                 timer, errors, handled, garbled>>

------------------------------------------------------------------------------
(* Receiving. A read brings n messages.                                     *)

Arrived(e, n) == queue[e] \o SubSeq(net[Peer(e)], 1, n)

Receive(e, n, rest) ==
  /\ net' = [net EXCEPT ![Peer(e)] = SubSeq(@, n + 1, Len(@))]
  /\ queue' = [queue EXCEPT ![e] = rest]

\* pop_raw_message understands p.
Decodes(e, p) == p.hash = checker[e] /\ p.key = rev[e]

\* do_handshake: one message is popped.
do_handshake(e, n) ==
  /\ open[e] /\ mode[e] = "handshake"
  /\ n \in 1..Len(net[Peer(e)])
  /\ Receive(e, n, Tail(Arrived(e, n)))

Front(e, n) == Head(Arrived(e, n))

\* ... and passes its hash check, at stage st.
Stage(e, n, st) ==
  /\ do_handshake(e, n)
  /\ stage[e] = st
  /\ Decodes(e, Front(e, n))

\* connection close at the client: the lowlevel's close signals an error
\* that depends on the stage, unless it is ready or in the error stage.
ClientCloses(st, reported) ==
  /\ open' = [open EXCEPT !["client"] = FALSE]
  /\ stage' = [stage EXCEPT !["client"] = st]
  /\ errors' = errors + reported
                 + (IF ready["client"] \/ st = "error" THEN 0 ELSE 1)

\* The hash of what is read changes at once, the hash of what is sent with
\* the answer.
on_hello_call(n) ==
  /\ Stage("client", n, "hello")
  /\ checker' = [checker EXCEPT !["client"] = "crc"]
  /\ stage' = [stage EXCEPT !["client"] =
                 IF conf.client # NoKey THEN "setup" ELSE "ready"]
  /\ Post("client", IF conf.client # NoKey THEN "select_cipher" ELSE "select_none")
  /\ UNCHANGED <<conf, ready, mode, maker, trans, rev, open, closing, timer,
                 histVars>>

\* Mutant: the two keys are swapped.
on_trans_setup_swapped(n) ==
  /\ Stage("client", n, "setup")
  /\ Front("client", n).what = "setup"
  /\ trans' = [trans EXCEPT !["client"] = <<conf.client, "client">>]
  /\ rev' = [rev EXCEPT !["client"] = <<conf.client, "server">>]
  /\ stage' = [stage EXCEPT !["client"] = "ready"]
  /\ Post("client", "setup")
  /\ UNCHANGED <<conf, ready, mode, maker, checker, open, closing, timer, histVars>>

\* The server's salts key what the client sends, the client's own salts what
\* it reads. A capsule that is not ready ends the session.
on_trans_setup(n) ==
  /\ Stage("client", n, "setup")
  /\ \/ /\ Front("client", n).what = "setup"
        /\ trans' = [trans EXCEPT !["client"] = <<conf.client, "server">>]
        /\ rev' = [rev EXCEPT !["client"] = <<conf.client, "client">>]
        /\ stage' = [stage EXCEPT !["client"] = "ready"]
        /\ Post("client", "setup")
        /\ UNCHANGED <<open, errors>>
     \/ /\ Front("client", n).what # "setup"
        /\ ClientCloses("setup", 1)
        /\ UNCHANGED <<trans, rev, posted>>
  /\ UNCHANGED <<conf, ready, mode, maker, checker, closing, timer, calls,
                 handled, garbled>>

on_server_ready(n) ==
  /\ Stage("client", n, "ready")
  /\ \/ /\ Front("client", n).what = "ready"
        /\ ready' = [ready EXCEPT !["client"] = TRUE]
        /\ mode' = [mode EXCEPT !["client"] = "ready"]
        /\ UNCHANGED <<open, stage, errors>>
     \/ /\ Front("client", n).what # "ready"
        /\ ClientCloses("error", 1)
        /\ UNCHANGED <<ready, mode>>
  /\ UNCHANGED <<conf, codecVars, posted, closing, timer, calls, handled, garbled>>

\* Mutant: a bad hash closes the connection and nobody is told.
ClientBadHashSilent(n) ==
  /\ do_handshake("client", n)
  /\ ~Decodes("client", Front("client", n))
  /\ garbled' = garbled \cup {<<"client", Front("client", n).what>>}
  /\ ClientCloses("error", 0)
  /\ UNCHANGED <<conf, ready, mode, codecVars, posted, closing, timer, calls, handled>>

ClientBadHash(n) ==
  /\ do_handshake("client", n)
  /\ ~Decodes("client", Front("client", n))
  /\ garbled' = garbled \cup {<<"client", Front("client", n).what>>}
  /\ ClientCloses("error", 1)
  /\ UNCHANGED <<conf, ready, mode, codecVars, posted, closing, timer, calls, handled>>

\* Mutant: the server goes on with do_handshake after it is ready.
set_client_ready_stays ==
  /\ timer' = IF timer = "armed" THEN "off" ELSE timer
  /\ ready' = [ready EXCEPT !["server"] = TRUE]
  /\ UNCHANGED mode
  /\ Post("server", "ready")

\* set_client_ready: the timer is cancelled, which is too late for a handler
\* that is due; do_handshake then switches to the ready stage.
set_client_ready ==
  /\ timer' = IF timer = "armed" THEN "off" ELSE timer
  /\ ready' = [ready EXCEPT !["server"] = TRUE]
  /\ mode' = [mode EXCEPT !["server"] = "ready"]
  /\ Post("server", "ready")

\* Mutant: session_key_required is not asked.
setup_transformer_any(what) ==
  \/ /\ what = "select_none"
     /\ set_client_ready
     /\ UNCHANGED <<rev, stage>>
  \/ /\ what = "select_cipher"
     /\ rev' = [rev EXCEPT !["server"] = <<conf.server, "server">>]
     /\ stage' = [stage EXCEPT !["server"] = "transformer"]
     /\ Post("server", "setup")
     /\ UNCHANGED <<timer, ready, mode>>

setup_transformer(what) ==
  \/ /\ what = "select_none" /\ ~conf.required
     /\ set_client_ready
     /\ UNCHANGED <<rev, stage>>
  \/ /\ what = "select_none" /\ conf.required
     /\ Post("server", "denied")
     /\ UNCHANGED <<rev, stage, timer, ready, mode>>
  \/ /\ what = "select_cipher"
     /\ rev' = [rev EXCEPT !["server"] = <<conf.server, "server">>]
     /\ stage' = [stage EXCEPT !["server"] = "transformer"]
     /\ Post("server", "setup")
     /\ UNCHANGED <<timer, ready, mode>>

on_client_selection(n) ==
  /\ Stage("server", n, "selection")
  /\ checker' = [checker EXCEPT !["server"] = "crc"]
  /\ maker' = [maker EXCEPT !["server"] = "crc"]
  /\ setup_transformer(Front("server", n).what)
  /\ UNCHANGED <<conf, trans, open, closing, histVars>>

on_client_transformer(n) ==
  /\ Stage("server", n, "transformer")
  /\ trans' = [trans EXCEPT !["server"] = <<conf.server, "client">>]
  /\ set_client_ready
  /\ UNCHANGED <<conf, stage, maker, checker, rev, open, closing, histVars>>

\* The server's accessor reports nothing and closes nothing.
ServerBadHash(n) ==
  /\ do_handshake("server", n)
  /\ ~Decodes("server", Front("server", n))
  /\ garbled' = garbled \cup {<<"server", Front("server", n).what>>}
  /\ UNCHANGED <<conf, stage, ready, mode, codecVars, posted, open, closing,
                 timer, errors, calls, handled>>

\* Mutant: a message of no known type is taken for a call.
ready_call_default(e, n) ==
  /\ open[e] /\ mode[e] = "ready"
  /\ n \in 1..Len(net[Peer(e)])
  /\ Receive(e, n, <<>>)
  /\ handled' = [handled EXCEPT ![e] = @ + Len(Arrived(e, n))]
  /\ UNCHANGED <<conf, stage, ready, mode, codecVars, posted, open, closing,
                 timer, errors, calls, garbled>>

\* Mutant: one message is popped, as in the handshake.
ready_call_once(e, n) ==
  /\ open[e] /\ mode[e] = "ready"
  /\ n \in 1..Len(net[Peer(e)])
  /\ Receive(e, n, Tail(Arrived(e, n)))
  /\ handled' = [handled EXCEPT ![e] = IF Front(e, n).what = "call" THEN @ + 1 ELSE @]
  /\ UNCHANGED <<conf, stage, ready, mode, codecVars, posted, open, closing,
                 timer, errors, calls, garbled>>

\* ready_call: the dispatch loop pops everything up to a message that does
\* not decode, which closes the connection. A capsule of the handshake
\* parses as a unit of no known type and is ignored.
ready_call(e, n) ==
  /\ open[e] /\ mode[e] = "ready"
  /\ n \in 1..Len(net[Peer(e)])
  /\ LET all  == Arrived(e, n)
         Bad  == {i \in DOMAIN all : ~Decodes(e, all[i])}
         last == IF Bad = {} THEN Len(all)
                 ELSE (CHOOSE i \in Bad : \A j \in Bad : i <= j) - 1
     IN /\ Receive(e, n, SubSeq(all, last + 2, Len(all)))
        /\ handled' = [handled EXCEPT ![e] = @ +
             Cardinality({i \in 1..last : all[i].what = "call"})]
        /\ garbled' = garbled \cup {<<e, all[i].what>> : i \in Bad}
        /\ open' = [open EXCEPT ![e] = Bad = {}]
  /\ UNCHANGED <<conf, stage, ready, mode, codecVars, posted, closing, timer,
                 errors, calls>>

\* The other end closed and everything it sent was read.
ReadError(e) ==
  /\ open[e] /\ ~open[Peer(e)] /\ net[Peer(e)] = <<>>
  /\ \/ e = "client" /\ ClientCloses(stage["client"], 0)
     \/ /\ e = "server"
        /\ open' = [open EXCEPT ![e] = FALSE]
        /\ UNCHANGED <<stage, errors>>
  /\ UNCHANGED <<conf, ready, mode, codecVars, posted, readVars, closing, timer,
                 calls, handled, garbled>>

------------------------------------------------------------------------------
(* The init timer, on a thread of the I/O pool.                             *)

TimerExpires ==
  /\ timer = "armed"
  /\ timer' = "due"
  /\ UNCHANGED <<conf, stage, ready, mode, codecVars, posted, readVars, open,
                 closing, histVars>>

\* on_init_timeout looks at ready_ without a lock ...
on_init_timeout ==
  /\ timer = "due"
  /\ timer' = IF ready["server"] THEN "off" ELSE "posting"
  /\ UNCHANGED <<conf, stage, ready, mode, codecVars, posted, readVars, open,
                 closing, histVars>>

\* Mutant: the handler only notes that the time is over.
send_nothing ==
  /\ timer = "posting"
  /\ timer' = "off"
  /\ UNCHANGED <<conf, stage, ready, mode, codecVars, posted, readVars, open,
                 closing, histVars>>

\* ... and posts its capsule later.
send_and_close ==
  /\ timer = "posting"
  /\ timer' = "off"
  /\ Post("server", "timeout")
  /\ UNCHANGED <<conf, stage, ready, mode, codecVars, readVars, open, closing,
                 histVars>>

------------------------------------------------------------------------------
ClientReads(n) ==
  \/ on_hello_call(n) \/ on_trans_setup(n) \/ on_server_ready(n)
  \/ ClientBadHash(n) \/ ready_call("client", n)
ServerReads(n) ==
  \/ on_client_selection(n) \/ on_client_transformer(n) \/ ServerBadHash(n)
  \/ ready_call("server", n)

\* No more messages can be in the net than an end sends in all.
Burst == 1..(MaxCalls + 4)

Reads == \/ \E n \in Burst : ClientReads(n) \/ ServerReads(n)
         \/ \E e \in End : ReadError(e)

TimerStep == TimerExpires \/ on_init_timeout \/ send_and_close

Next ==
  \/ \E e \in End : pack_message(e) \/ Call(e)
  \/ close_client \/ Reads \/ TimerStep

Spec == Init /\ [][Next]_vars

\* The strands, the read handlers and the timer run in the end.
FairSpec ==
  /\ Spec
  /\ \A e \in End : WF_vars(pack_message(e)) /\ WF_vars(ReadError(e))
  /\ WF_vars(\E n \in Burst : ClientReads(n))
  /\ WF_vars(\E n \in Burst : ServerReads(n))
  /\ WF_vars(close_client) /\ WF_vars(TimerStep)
------------------------------------------------------------------------------
\* Types of the variables of both ends' handshake objects.
TypeOK ==
  /\ conf \in [client : Secrets \cup {NoKey}, server : Secrets, required : BOOLEAN]
  /\ stage \in [End -> {"hello", "setup", "ready", "error", "selection", "transformer"}]
  /\ stage["client"] \in {"hello", "setup", "ready", "error"}
  /\ stage["server"] \in {"selection", "transformer"}
  /\ ready \in [End -> BOOLEAN]
  /\ mode \in [End -> {"handshake", "ready"}]
  /\ maker \in [End -> {"none", "crc"}] /\ checker \in [End -> {"none", "crc"}]
  /\ trans \in [End -> Cipher] /\ rev \in [End -> Cipher]
  /\ posted \in [End -> Seq(What)]
  /\ net \in [End -> Seq(Packet)] /\ queue \in [End -> Seq(Packet)]
  /\ open \in [End -> BOOLEAN] /\ closing \in BOOLEAN
  /\ timer \in {"armed", "due", "posting", "off"}
  /\ errors \in 0..2
  /\ calls \in [End -> 0..MaxCalls] /\ handled \in [End -> 0..MaxCalls]
  /\ garbled \subseteq End \X What

KeysAgree == conf.client \in {NoKey, conf.server}

\* Whatever the moments at which the two ends switch their hashes and
\* ciphers, what is packed can be unpacked: only the timeout's capsule,
\* which is sent at no agreed moment, can be misread, and the client's setup
\* if the secrets differ.
Understood ==
  garbled \subseteq
    {<<"client", "timeout">>} \cup
    (IF KeysAgree THEN {} ELSE {<<"server", "setup">>})

\* An end that is ready agrees with the other on the secret, uses the cipher
\* if the client has a key, and uses it if the server requires one; when the
\* client is ready both directions of the connection fit together.
ReadyAgreement ==
  /\ \A e \in End : mode[e] = "ready" =>
       /\ KeysAgree
       /\ trans[e] = Plain <=> conf.client = NoKey
       /\ conf.required => trans[e] # Plain /\ rev[e] # Plain
  /\ mode["client"] = "ready" =>
       /\ mode["server"] = "ready"
       /\ \A e \in End : maker[e] = checker[Peer(e)] /\ trans[e] = rev[Peer(e)]

\* on_init_error is signalled if and only if the connection closes at the
\* client before it was ready: connect waits for it or for on_ready.
ErrorReported ==
  /\ ~open["client"] /\ mode["client"] = "handshake" => errors > 0
  /\ errors > 0 => ~open["client"] /\ mode["client"] = "handshake"

\* Messages that stay unpopped at an end that is ready came in the very read
\* that brought the server's ready capsule; the next read takes them all.
LeftoverOnlyAtFirst ==
  \A e \in End : open[e] /\ mode[e] = "ready" /\ queue[e] # <<>> =>
    e = "client" /\ handled[e] = 0

\* Every handshake ends: the client is ready or its connection is closed.
HandshakeEnds == <>(mode["client"] = "ready" \/ ~open["client"])

\* Every call of a client that is ready reaches the server, unless the
\* connection is closed.
ClientCallsArrive ==
  \A k \in 1..MaxCalls :
    calls["client"] = k ~> handled["server"] >= k \/ ~open["server"]

\* Ends that are ready fit together, a client that fails is told, and only the read
\* that made an end ready may leave messages behind.
\* (on_trans_setup, on_server_ready, on_close, process_data)
HandshakeSound == TypeOK /\ ReadyAgreement /\ ErrorReported /\ LeftoverOnlyAtFirst

\* Every handshake ends, and what a ready client calls arrives.
\* (on_init_timeout, set_client_ready)
HandshakeServes == HandshakeEnds /\ ClientCallsArrive
================================================================================
