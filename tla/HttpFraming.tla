------------------------------ MODULE HttpFraming ------------------------------
(***************************************************************************)
(* Calls as HTTP: examples/hello-events-http.  A lowlevel_unit is written  *)
(* as a request or a response with X-VTRC fields and a body of hexadecimal *)
(* digits; the peer's header_parser takes the stream in reads of any size. *)
(* process_data pushes what it has read until nothing is left and then     *)
(* lets the protocol pop the units that are ready.                         *)
(*                                                                         *)
(* A character of a line is abstracted to a part of it: the name of a field*)
(* and its value are two symbols, so that a read may end inside a line.    *)
(* Digits and ends of lines are symbols of their own.  The text of an error*)
(* is written as it is, so that an end of a line in it reaches the parser. *)
(***************************************************************************)
EXTENDS Integers, Sequences, SequencesExt, FiniteSets

CONSTANTS
  Plans,        \* what the peer may send: sequences of units
  MaxUnsigned   \* the largest number of an unsigned: 2^32 - 1; identifiers are wider

Options == {"wait", "accept_response", "accept_callbacks"}

\* A unit: call is the path of the service with the method last, or empty.
\* error is its code, additional its text, in symbols.
Unit == [call : Seq(STRING), error : Nat, category : Nat, additional : Seq(Seq(STRING)),
         id : Nat, target_id : Nat, message_type : Nat, opt : SUBSET Options, body : Seq(0..255)]

VARIABLES
  plan,      \* the units that are sent
  wire,      \* symbols that have not been read
  chunk,     \* the rest of the read that process_data works on
  parser,    \* current_header_
  container_,  \* header_parsers that are ready
  ok,        \* process_data: a message is ready
  received,  \* the units that were popped
  open,      \* the connection
  seen       \* history: symbols read before this read

vars == <<plan, wire, chunk, parser, container_, ok, received, open, seen>>

------------------------------------------------------------------------------
(* Conversions.                                                             *)

\* A symbol is a sequence of one part; a digit has two, the end of a line none.
eol == <<>>
digit(d) == <<"digit", d>>
Text(s) == [i \in DOMAIN s |-> s[i][1]]

bin2hex(s) == FlattenSeq([i \in DOMAIN s |-> <<digit(s[i] \div 16), digit(s[i] % 16)>>])

\* Not a sequence of pairs of digits.
NotHex(s) == Len(s) % 2 = 1 \/ \E i \in DOMAIN s : Len(s[i]) # 2

\* Mutant: the low digit comes first.
hex2bin_swapped(s) ==
  IF NotHex(s) THEN <<>> ELSE [i \in 1..(Len(s) \div 2) |-> s[2 * i - 1][2] + 16 * s[2 * i][2]]

\* Nothing for an odd length or another character.
hex2bin(s) ==
  IF NotHex(s) THEN <<>> ELSE [i \in 1..(Len(s) \div 2) |-> 16 * s[2 * i - 1][2] + s[2 * i][2]]

Bit(set, o, n) == IF o \in set THEN n ELSE 0
opt2flags(opt) == Bit(opt, "wait", 1) + Bit(opt, "accept_response", 2) + Bit(opt, "accept_callbacks", 4)

flags2opt(f) ==
  {o \in Options : \/ o = "wait" /\ f % 2 = 1
                   \/ o = "accept_response" /\ (f \div 2) % 2 = 1
                   \/ o = "accept_callbacks" /\ (f \div 4) % 2 = 1}

Field(name, text) == << <<name>> >> \o text \o <<eol>>
Line(name, value) == Field(name, << <<value>> >>)

\* An error has no X-VTRC-Id and no X-VTRC-Tid; its body is a text.
lowlevel2http(u) ==
  LET content == bin2hex(u.body)
      html    == << <<"<H1>">>, <<u.error>> >> \o u.additional \o <<eol, <<"</H1>">> >>
  IN (IF u.call # <<>> /\ u.error = 0 THEN Line("GET", u.call) ELSE Line("HTTP/1.1", "200 OK"))
     \o Line("X-VTRC-Type", u.message_type) \o Line("X-VTRC-Options", opt2flags(u.opt))
     \o (IF u.error # 0
           THEN Line("X-VTRC-Error", u.error) \o Line("X-VTRC-Category", u.category)
                \o Field("X-VTRC-Message", u.additional)
                \o Line("Content-Length", Len(html)) \o <<eol>> \o html
           ELSE Line("X-VTRC-Id", u.id) \o Line("X-VTRC-Tid", u.target_id)
                \o Line("Content-Length", Len(content)) \o <<eol>> \o content)

field(p, name) == IF name \in DOMAIN p.cont_ THEN p.cont_[name] ELSE <<>>
get(p, name, def) == IF name \in DOMAIN p.cont_ THEN p.cont_[name][1][1] ELSE def

\* lexical_cast: an identifier that is no unsigned has http2lowlevel throw.
http2lowlevel_throws(p) ==
  get(p, "X-VTRC-Id", 0) > MaxUnsigned \/ get(p, "X-VTRC-Tid", 0) > MaxUnsigned

\* A path goes back to a service and a method; a missing field is its default.
http2lowlevel(p) ==
  LET error   == get(p, "X-VTRC-Error", 0)
      request == Head(p.method_) = "GET"
  IN [call |-> IF error = 0 /\ request THEN p.method_[2] ELSE <<>>, error |-> error,
      category |-> IF error # 0 THEN get(p, "X-VTRC-Category", 0) ELSE 0,
      additional |-> IF error # 0 THEN field(p, "X-VTRC-Message") ELSE <<>>,
      id |-> get(p, "X-VTRC-Id", 0), target_id |-> get(p, "X-VTRC-Tid", 0),
      message_type |-> get(p, "X-VTRC-Type", 1), opt |-> flags2opt(get(p, "X-VTRC-Options", 3)),
      body |-> IF error # 0 THEN <<>> ELSE hex2bin(p.current_)]

------------------------------------------------------------------------------
(* header_parser.                                                           *)

Empty == [method_ |-> <<>>, cont_ |-> [n \in {} |-> 0], current_ |-> <<>>,
          header_ready_ |-> FALSE, ready_ |-> FALSE]

insert(cont, name, value) ==
  IF name \in DOMAIN cont THEN cont ELSE [n \in DOMAIN cont \cup {name} |-> IF n = name THEN value ELSE cont[n]]

\* The end of a line: the method, a field, or the end of the header.
EndOfLine(p) ==
  IF p.current_ = <<>> THEN [p EXCEPT !.header_ready_ = TRUE]
  ELSE IF p.method_ = <<>> THEN [p EXCEPT !.method_ = Text(p.current_), !.current_ = <<>>]
  ELSE [p EXCEPT !.cont_ = insert(@, p.current_[1][1], Tail(p.current_)), !.current_ = <<>>]

\* One turn of the loop of push_header.
push_header(p, c) == IF c = eol THEN EndOfLine(p) ELSE [p EXCEPT !.current_ = Append(@, c)]

content_length(p) == get(p, "Content-Length", 0)

\* Mutant: all that was read belongs to this body.
push_body_greedy(p, s) ==
  LET len == content_length(p)
      now == p.current_ \o s
  IN IF len = 0 THEN [p |-> [p EXCEPT !.ready_ = TRUE], rest |-> s]
     ELSE [p |-> [p EXCEPT !.current_ = now, !.ready_ = Len(now) >= len], rest |-> <<>>]

push_body(p, s) ==
  LET len == content_length(p)
      pos == IF Len(s) < len - Len(p.current_) THEN Len(s) ELSE len - Len(p.current_)
      now == p.current_ \o SubSeq(s, 1, pos)
  IN IF len = 0 THEN [p |-> [p EXCEPT !.ready_ = TRUE], rest |-> s]
     ELSE [p |-> [p EXCEPT !.current_ = now, !.ready_ = Len(now) = len],
           rest |-> SubSeq(s, pos + 1, Len(s))]

\* Mutant: a body waits for the next push.
push_once(p, s) ==
  IF p.header_ready_ THEN push_body(p, s) ELSE [p |-> push_header(p, Head(s)), rest |-> Tail(s)]

\* push: the body follows the end of the header at once, even when nothing is left.
push(p, s) ==
  IF p.header_ready_ THEN push_body(p, s)
  ELSE LET h == push_header(p, Head(s))
       IN IF h.header_ready_ THEN push_body(h, Tail(s)) ELSE [p |-> h, rest |-> Tail(s)]

------------------------------------------------------------------------------
(* process_data and pop_proto_message.                                      *)

Init ==
  /\ plan \in Plans
  /\ wire = FlattenSeq([i \in DOMAIN plan |-> lowlevel2http(plan[i])])
  /\ chunk = <<>> /\ parser = Empty /\ container_ = <<>> /\ ok = FALSE
  /\ received = <<>> /\ open = TRUE /\ seen = 0

\* start_reading: the next read ends anywhere.
Read ==
  /\ open /\ chunk = <<>> /\ ~ok /\ wire # <<>>
  /\ \E n \in 1..Len(wire) :
       chunk' = SubSeq(wire, 1, n) /\ wire' = SubSeq(wire, n + 1, Len(wire)) /\ seen' = seen + n
  /\ UNCHANGED <<plan, parser, container_, ok, received, open>>

\* The loop of process_data, a symbol of the header or a piece of the body at a time.
process_data ==
  /\ chunk # <<>>
  /\ LET r == push(parser, chunk) IN
       /\ chunk' = r.rest
       /\ parser' = IF r.p.ready_ THEN Empty ELSE r.p
       /\ container_' = IF r.p.ready_ THEN Append(container_, r.p) ELSE container_
       /\ ok' = (ok \/ r.p.ready_)
  /\ UNCHANGED <<plan, wire, received, open, seen>>

\* pop_proto_message of the units of c, up to one that throws.
pop_proto_message(c) ==
  LET n == Cardinality({i \in DOMAIN c : \A j \in 1..i : ~http2lowlevel_throws(c[j])})
  IN [units |-> [i \in 1..n |-> http2lowlevel(c[i])], rest |-> SubSeq(c, n + 1, Len(c))]

\* message_ready after the loop: the protocol pops the units, up to one that throws;
\* read_handler catches what is thrown and closes the connection.
message_ready ==
  /\ chunk = <<>> /\ ok
  /\ LET popped == pop_proto_message(container_)
     IN /\ received' = received \o popped.units
        /\ container_' = popped.rest
        /\ open' = (container_' = <<>>)
  /\ ok' = FALSE
  /\ UNCHANGED <<plan, wire, chunk, parser, seen>>

Next == Read \/ process_data \/ message_ready

\* The peer's bytes arrive and are handled.
Spec == Init /\ [][Next]_vars /\ WF_vars(Next)

------------------------------------------------------------------------------
(* Properties.                                                              *)

\* What the format carries of a unit: an error loses its id, its target and its call,
\* and its text ends with its first line.
Carried(u) ==
  IF u.error = 0 THEN u
  ELSE [u EXCEPT !.id = 0, !.target_id = 0, !.call = <<>>, !.body = <<>>,
          !.additional = SubSeq(@, 1, SelectInSeq(@ \o <<eol>>, LAMBDA s : s = eol) - 1)]

\* The format cannot carry a unit: an empty line in the text of an error ends the
\* header before Content-Length, and an identifier may be too wide.
Uncarried(u) ==
  \/ u.error # 0 /\ \E i \in DOMAIN u.additional : SubSeq(u.additional \o <<eol>>, i, i + 1) = <<eol, eol>>
  \/ u.error = 0 /\ (u.id > MaxUnsigned \/ u.target_id > MaxUnsigned)

\* The units before the first that cannot be carried.
Sound == Cardinality({n \in DOMAIN plan : \A i \in 1..n : ~Uncarried(plan[i])})

\* How long the first n units are.
Length(n) == Len(FlattenSeq([i \in 1..n |-> lowlevel2http(plan[i])]))

\* However the stream is cut, a unit arrives as the format carries it, in order,
\* and as soon as its last symbol is read; what follows it is not taken for its body,
\* and the connection stays open.  Nothing is said of what follows a unit that the
\* format cannot carry.
UnitsOnTime ==
  /\ \A i \in 1..Sound : i \in DOMAIN received => received[i] = Carried(plan[i])
  /\ chunk = <<>> /\ ~ok =>
       IF seen <= Length(Sound)
         THEN Len(received) = Cardinality({n \in 1..Sound : Length(n) <= seen})
         ELSE Len(received) >= Sound
  /\ ~open => seen > Length(Sound)

Finished == Len(received) >= Sound

\* Every unit arrives: the loop of process_data ends with each read.
AllUnits == <>Finished
===============================================================================
