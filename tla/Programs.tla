------------------------------- MODULE Programs -------------------------------
(***************************************************************************)
(* Tasks as programs over the blocking calls: every task has a label, and  *)
(* a step of it is one kernel call, or the taking of the outcome of its    *)
(* call with all it computes up to the next one.  No other task can see    *)
(* what a task computes between two calls.                                 *)
(***************************************************************************)
EXTENDS BlockingCalls

VARIABLE pc          \* where each task is

calls == <<phase, gen, mail, line, request, outcome>>

\* Task t is at label l and goes to label m.
At(t, l, m) == pc[t] = l /\ pc' = [pc EXCEPT ![t] = m]

\* The call of task t has returned and t takes its outcome.
Returns(t) == outcome[t] # Nothing /\ Collect(t)

\* A call whose outcome the task does not look at returns.
Ignores(t) == Returns(t) /\ UNCHANGED pc
=============================================================================
