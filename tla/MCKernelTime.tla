----------------------------- MODULE MCKernelTime -----------------------------
(***************************************************************************)
(* The time that the kernel needs for a system call, and what rtos_main    *)
(* counts of it.  TimeAccounts with a history variable: whether the timer  *)
(* has run out since the time of the call was read.                        *)
(***************************************************************************)
EXTENDS TimeAccounts, TLC

VARIABLE elapsed

\* From the reading at which the user time of the task ends to the one at which
\* its system time does.
InCall == pc \in {"handle", "micros", "top", "accountSystem"}

WatchedInit == Init /\ elapsed = FALSE
WatchedNext ==
  Next /\ elapsed' = (InCall /\ InCall' /\ (elapsed \/ (timeout' /\ ~timeout)))
WatchedSpec == WatchedInit /\ [][WatchedNext]_<<vars, elapsed>>

\* rtos_main says "Only count the kernel time here if we did a syscall": when the
\* timer has run out while a call was handled, the system time of the task that
\* made it grows.
SyscallTimeCounted ==
  [][pc = "accountSystem" /\ pc' = "pick" /\ elapsed =>
       systemTimeMicros'[currentTask] > systemTimeMicros[currentTask]]_<<vars, elapsed>>

Alike == Permutations(Tasks)
=============================================================================
