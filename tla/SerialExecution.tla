--------------------------- MODULE SerialExecution ---------------------------
(***************************************************************************)
(* What TaskScheduler promises (task_scheduler.h, "scheduling and executing *)
(* tasks sequentially"): the submitted tasks are called one at a time, in   *)
(* the order of their submission, each at most once.  When a task begins,   *)
(* and whether it ever does, is left open.                                  *)
(***************************************************************************)
EXTENDS Naturals, Sequences

CONSTANT Task

VARIABLES
  submitted,   (* the tasks handed over, in order *)
  calls,       (* the tasks called, in order      *)
  busy         (* a call is in progress           *)

vars == <<submitted, calls, busy>>

Init ==
  /\ submitted = <<>>
  /\ calls = <<>>
  /\ busy = FALSE

Submit(t) ==
  /\ submitted' = Append(submitted, t)
  /\ UNCHANGED <<calls, busy>>

Begin ==
  /\ ~busy
  /\ Len(calls) < Len(submitted)
  /\ calls' = Append(calls, submitted[Len(calls) + 1])
  /\ busy' = TRUE
  /\ UNCHANGED submitted

End ==
  /\ busy
  /\ busy' = FALSE
  /\ UNCHANGED <<submitted, calls>>

Next == (\E t \in Task : Submit(t)) \/ Begin \/ End

Spec == Init /\ [][Next]_vars

=============================================================================
