------------------------------ MODULE Calculator ------------------------------
(***************************************************************************)
(* The calculator of examples/calculator: a call names its operands by     *)
(* value or by the name of a variable of the client, and the server calls  *)
(* back into the waiting client for each name.                             *)
(*                                                                         *)
(* The client's program is a list of tests; each stores its result as a    *)
(* variable that later ones use, and one that throws is reported and       *)
(* skipped.  Numbers are symbolic: the result of op on a and b is          *)
(* <<op, a, b>>.                                                           *)
(***************************************************************************)
EXTENDS Naturals, Sequences

Name(n) == [kind |-> "name", is |-> n]
Value(v) == [kind |-> "value", is |-> v]
Result(n) == [kind |-> "result", is |-> n]   \* passed by value
None == <<"none">>
Error == <<"error">>

\* The tests: the variable a test sets, the operation and its operands.
Tests == <<
  [sets |-> "first",  op |-> "mul", l |-> Name("pi"),      r |-> Name("e")],
  [sets |-> "inner",  op |-> "mul", l |-> Value("3"),        r |-> Value("5")],
  [sets |-> "second", op |-> "sum", l |-> Value("17"),       r |-> Result("inner")],
  [sets |-> "third",  op |-> "pow", l |-> Name("first"),   r |-> Name("second")],
  [sets |-> "zero",   op |-> "div", l |-> Name("first"),   r |-> Value("0")],
  [sets |-> "bad",    op |-> "mul", l |-> Name("invalid"), r |-> Value("1")],
  [sets |-> "none",   op |-> "not_implemented", l |-> Value("0"), r |-> Value("0")] >>

VARIABLES
  test,         \* the test that is run
  waits,        \* the client waits for the answer to its call
  request,      \* the server's side: the operands that are known
  variables_,   \* the client's variables
  callbacks,    \* server_callback_count_
  outcome,      \* test -> its result, Error or None
  alive         \* the connection lives

vars == <<test, waits, request, variables_, callbacks, outcome, alive>>

Init ==
  /\ test = 1 /\ waits = FALSE /\ request = <<>>
  /\ variables_ = [n \in {"pi", "e"} |-> <<n>>]
  /\ callbacks = 0 /\ outcome = [t \in DOMAIN Tests |-> None] /\ alive = TRUE

Current == Tests[test]

------------------------------------------------------------------------------
(* The client.                                                              *)

\* call, with make_pair: the call goes out, or throws if the connection is gone
\* or the call inside it threw.
call ==
  /\ test \in DOMAIN Tests /\ ~waits
  /\ IF alive /\ (Current.r.kind = "result" => Current.r.is \in DOMAIN variables_)
       THEN waits' = TRUE /\ request' = <<>> /\ UNCHANGED <<test, outcome>>
       ELSE /\ outcome' = [outcome EXCEPT ![test] = Error] /\ test' = test + 1
            /\ UNCHANGED <<waits, request>>
  /\ UNCHANGED <<variables_, callbacks, alive>>

\* Mutant: a variable that is not there reads as zero.
get_variable_zero(n) == IF n \in DOMAIN variables_ THEN variables_[n] ELSE <<"0">>

\* get_variable: one that is not there throws.
get_variable(n) == IF n \in DOMAIN variables_ THEN variables_[n] ELSE Error

Set(n, v) == variables_' = [m \in DOMAIN variables_ \cup {n} |-> IF m = n THEN v ELSE variables_[m]]

\* The call returns: the result becomes a variable; an exception is printed.
Returns(result) ==
  /\ outcome' = [outcome EXCEPT ![test] = result]
  /\ IF result = Error THEN UNCHANGED variables_ ELSE Set(Current.sets, result)
  /\ test' = test + 1 /\ waits' = FALSE /\ request' = <<>>

\* The connection is lost; the call that waits is told.
Lost ==
  /\ alive /\ alive' = FALSE
  /\ IF waits THEN Returns(Error) ELSE UNCHANGED <<test, waits, request, variables_, outcome>>
  /\ UNCHANGED callbacks

------------------------------------------------------------------------------
(* The server.                                                              *)

\* extract_num_pair: the operands in their order, those with a name asked from
\* the client by request_client_variable, on the thread of its call.
Throws == \E i \in DOMAIN request : request[i] = Error
Next_operand == IF request = <<>> THEN Current.l ELSE Current.r

extract_num_pair ==
  /\ waits /\ Len(request) < 2 /\ Current.op # "not_implemented" /\ ~Throws
  /\ CASE Next_operand.kind = "value" ->
            request' = Append(request, <<Next_operand.is>>) /\ UNCHANGED callbacks
       [] Next_operand.kind = "result" ->
            request' = Append(request, variables_[Next_operand.is]) /\ UNCHANGED callbacks
       [] OTHER ->
            /\ request' = Append(request, get_variable(Next_operand.is))
            /\ callbacks' = callbacks + 1
  /\ UNCHANGED <<test, waits, variables_, outcome, alive>>

\* sum, mul, div and pow.
operation(op, a, b) == IF op = "div" /\ b = <<"0">> THEN Error ELSE <<op, a, b>>

\* The handler ends: an exception of a callback or of the operation, or a method
\* that is not implemented, is the answer.
answer ==
  /\ waits
  /\ \/ Throws /\ Returns(Error)
     \/ Current.op = "not_implemented" /\ Returns(Error)
     \/ ~Throws /\ Len(request) = 2 /\ Returns(operation(Current.op, request[1], request[2]))
  /\ UNCHANGED <<callbacks, alive>>

Next == call \/ extract_num_pair \/ answer \/ Lost

Spec == Init /\ [][Next]_vars /\ WF_vars(call \/ extract_num_pair \/ answer)

------------------------------------------------------------------------------
(* Properties.                                                              *)

\* The value of a test's operand, from the outcomes of the tests before it.
Reference(x) ==
  IF x.kind = "value" \/ x.is \in {"pi", "e"} THEN <<x.is>>
  ELSE IF \E t \in DOMAIN Tests : Tests[t].sets = x.is
    THEN outcome[CHOOSE t \in DOMAIN Tests : Tests[t].sets = x.is]
    ELSE Error

\* Each test has the result of its operation on what its operands stand for, and
\* fails exactly if the connection was lost, an operand has no value, the divisor
\* is zero or the method is not there.
OutcomesRight ==
  \A t \in DOMAIN Tests : outcome[t] # None =>
    LET l == Reference(Tests[t].l)  r == Reference(Tests[t].r) IN
      \/ outcome[t] = <<Tests[t].op, l, r>>
         /\ Error \notin {l, r} /\ ~(Tests[t].op = "div" /\ r = <<"0">>)
      \/ outcome[t] = Error
         /\ \/ ~alive \/ Error \in {l, r} \/ Tests[t].op = "not_implemented"
            \/ Tests[t].op = "div" /\ r = <<"0">>

Finished == test > Len(Tests)

\* All tests are run, whatever fails.
TestsEnd == <>Finished
==============================================================================
