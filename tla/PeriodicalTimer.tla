--------------------------- MODULE PeriodicalTimer ---------------------------
(***************************************************************************)
(* timers::periodical of include/vtrc/common/timers/periodical.h: a timer  *)
(* that calls the user's handler again and again until it is cancelled.    *)
(*                                                                         *)
(* An armed wait expires or is aborted; its handler, run by a thread of    *)
(* the io_service, calls the user, then asks enabled_ under lock_, then    *)
(* arms the next wait.  call and cancel come from the user's thread, or    *)
(* from the user's handler itself, at any point between these steps, and   *)
(* expires_from_now aborts the waits that are armed.                       *)
(***************************************************************************)
EXTENDS Naturals

CONSTANT MaxCalls   \* bound: calls of call

Chains == 1..MaxCalls       \* one for each call of call

VARIABLES
  enabled_,
  chain,     \* chain -> what its last wait or handler does now
  calls,     \* calls of call so far
  extra,     \* history: the user's handler was run without error since cancel
  hasty      \* history: call was called before the last chain had ended

vars == <<enabled_, chain, calls, extra, hasty>>

\* A chain waits, is ready to run with or without an error, has called the
\* user, is going to arm the next wait, or has ended.
Stages == {"none", "armed", "expired", "aborted", "called", "arming", "ended"}

Init ==
  /\ enabled_ = FALSE /\ chain = [c \in Chains |-> "none"] /\ calls = 0
  /\ extra = 0 /\ hasty = FALSE

\* Every armed wait of the timer completes with operation_aborted.
Aborted == [c \in Chains |-> IF chain[c] = "armed" THEN "aborted" ELSE chain[c]]

\* call: expires_from_now, enabled_ and async_wait.
call ==
  /\ calls < MaxCalls
  /\ calls' = calls + 1
  /\ enabled_' = TRUE /\ extra' = 0
  /\ hasty' = (hasty \/ \E c \in 1..calls : chain[c] # "ended")
  /\ chain' = [Aborted EXCEPT ![calls + 1] = "armed"]

\* cancel: only an enabled timer aborts its waits.
cancel ==
  /\ enabled_
  /\ enabled_' = FALSE /\ extra' = 0
  /\ chain' = Aborted
  /\ UNCHANGED <<calls, hasty>>

Expire(c) ==
  /\ chain[c] = "armed"
  /\ chain' = [chain EXCEPT ![c] = "expired"]
  /\ UNCHANGED <<enabled_, calls, extra, hasty>>

\* handler: the user is called, with the error or without.
userhdl(c) ==
  /\ chain[c] \in {"expired", "aborted"}
  /\ chain' = [chain EXCEPT ![c] = IF @ = "expired" THEN "called" ELSE "ended"]
  /\ extra' = IF chain[c] = "expired" /\ ~enabled_ THEN extra + 1 ELSE extra
  /\ UNCHANGED <<enabled_, calls, hasty>>

\* Mutant: the next wait is armed in any case.
handler_always(c) ==
  /\ chain[c] = "called"
  /\ chain' = [chain EXCEPT ![c] = "arming"]
  /\ UNCHANGED <<enabled_, calls, extra, hasty>>

\* handler: go on only if the timer is enabled.
handler(c) ==
  /\ chain[c] = "called"
  /\ chain' = [chain EXCEPT ![c] = IF enabled_ THEN "arming" ELSE "ended"]
  /\ UNCHANGED <<enabled_, calls, extra, hasty>>

\* call_impl: expires_from_now aborts the waits of other chains.
call_impl(c) ==
  /\ chain[c] = "arming"
  /\ chain' = [Aborted EXCEPT ![c] = "armed"]
  /\ UNCHANGED <<enabled_, calls, extra, hasty>>

Run(c) == userhdl(c) \/ handler(c) \/ call_impl(c)

Next == call \/ cancel \/ \E c \in Chains : Expire(c) \/ Run(c)

Spec == Init /\ [][Next]_vars

------------------------------------------------------------------------------
(* Properties.                                                              *)

Going(c) == chain[c] \notin {"none", "ended"}

\* After cancel the user's handler is called without an error once more at
\* most, by the wait that had already expired or that was just being armed;
\* and there are two chains only if call was called before the last chain had
\* ended.  (cancel, handler)
CancelEnds ==
  /\ ~enabled_ /\ ~hasty => extra <= 1
  /\ ~hasty => \A c, d \in Chains : Going(c) /\ Going(d) => c = d
==============================================================================
