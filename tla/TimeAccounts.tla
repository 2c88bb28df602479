---------------------------- MODULE TimeAccounts ----------------------------
(***************************************************************************)
(* The 64-bit counter of microseconds, which the handler of the timer      *)
(* advances in two stores, and what the kernel loop charges to tasks by    *)
(* it (rtosmain.c, micros.c, interrupts.c and the masks of                 *)
(* contextSwitch.asm).                                                     *)
(*                                                                         *)
(* Which task is ready, exits or is created is left open: Kernel says it.  *)
(***************************************************************************)
EXTENDS Integers, FiniteSets, Functions

CONSTANTS
  Tasks,      \* the descriptors
  Null,
  WordSize,   \* 2^32: how many values the low word has
  Tick,       \* microseconds between two interrupts of the timer
  MaxTicks    \* bound on the interrupts that are handled

ASSUME TimeAssumption ==
  /\ IsFiniteSet(Tasks) /\ Null \notin Tasks
  /\ WordSize \in Nat \ {0} /\ Tick \in 1 .. WordSize /\ MaxTicks \in Nat

VARIABLES
  low, high,        \* systemMicroCount
  timeout,          \* TIMER_TIMA_TIMEOUT is set
  timerEnabled,     \* its interrupt is enabled
  masked,           \* BASEPRI is 0x20, which holds back the timer
  handler,          \* where systemTimerISR is
  pc,               \* where rtos_main is, or the task that it has switched to
  reading, got,     \* where getSystemTimerMicros is, and the low word that it has
  currentTask,
  preemptionReason,
  userTimeMicros, userTimeEntryMicros, systemTimeMicros, systemTimeEntryMicros,
  told,             \* the time that the last prjGetMonotonicMicros gave
  ticks,            \* the interrupts of the timer that were handled
  forgotten         \* user time of the tasks whose descriptors were given away

counter == <<low, high, ticks>>
clock == <<counter, timeout, handler>>
accounts == <<userTimeMicros, userTimeEntryMicros, systemTimeMicros,
              systemTimeEntryMicros, told, forgotten>>
loop == <<pc, currentTask, preemptionReason>>
vars == <<clock, timerEnabled, masked, reading, got, accounts, loop>>

\* The points of the loop and of the calls at which the counter is read.
Readers == {"accountSystem", "enter", "charge", "micros"}

systemMicroCount == low + WordSize * high

Init ==
  /\ low = 0 /\ high = 0 /\ timeout = FALSE /\ timerEnabled = TRUE /\ masked = TRUE
  /\ handler = "idle"
  /\ pc = "top" /\ reading = "no" /\ got = 0 /\ currentTask = Null
  /\ preemptionReason = "syscall"
  /\ userTimeMicros = [t \in Tasks |-> 0] /\ userTimeEntryMicros = [t \in Tasks |-> 0]
  /\ systemTimeMicros = [t \in Tasks |-> 0]
  /\ systemTimeEntryMicros = [t \in Tasks |-> 0]
  /\ told = 0 /\ ticks = 0 /\ forgotten = 0
-----------------------------------------------------------------------------
(* The timer.                                                              *)

Timeout ==
  /\ timeout' = TRUE
  /\ UNCHANGED <<counter, handler, timerEnabled, masked, reading, got, accounts, loop>>

HandlerStarts ==
  /\ handler = "idle" /\ timeout /\ timerEnabled /\ ~masked /\ ticks < MaxTicks
  /\ handler' = "low" /\ timeout' = FALSE
  /\ UNCHANGED <<counter, timerEnabled, masked, reading, got, accounts, loop>>

StoreLow ==
  /\ handler = "low"
  /\ low' = (low + Tick) % WordSize
  /\ handler' = IF low + Tick >= WordSize THEN "carry" ELSE "high"
  /\ UNCHANGED <<high, ticks, timeout, timerEnabled, masked, reading, got, accounts, loop>>

\* Broken variant: the sum has 32 bits.
NoCarry == 0

Carry == IF handler = "carry" THEN 1 ELSE 0

StoreHigh ==
  /\ handler \in {"high", "carry"}
  /\ high' = high + Carry
  /\ handler' = "idle" /\ ticks' = ticks + 1
  /\ UNCHANGED <<low, timeout, timerEnabled, masked, reading, got, accounts, loop>>

\* Everything else stands still while the handler runs.
Thread == handler = "idle" /\ UNCHANGED clock
-----------------------------------------------------------------------------
(* getSystemTimerMicros.                                                   *)

Disable ==
  /\ Thread /\ pc \in Readers /\ reading = "no"
  /\ reading' = "off" /\ timerEnabled' = FALSE
  /\ UNCHANGED <<masked, got, accounts, loop>>

LoadLow ==
  /\ Thread /\ reading = "off"
  /\ reading' = "low" /\ got' = low
  /\ UNCHANGED <<timerEnabled, masked, accounts, loop>>

Enable == timerEnabled' = TRUE

\* The call at p returns with Got.
Got == got + WordSize * high

Reads(p) == Thread /\ pc = p /\ reading = "low" /\ reading' = "no" /\ got' = 0 /\ Enable
-----------------------------------------------------------------------------
(* rtos_main.                                                              *)

Rest == Thread /\ UNCHANGED <<timerEnabled, reading, got>>

Add(account, t, n) == [account EXCEPT ![t] = @ + n]
Set(entry, t, n) == [entry EXCEPT ![t] = n]

Top ==
  /\ Rest /\ pc = "top"
  /\ pc' = IF currentTask # Null /\ systemTimeEntryMicros[currentTask] # 0
           THEN "accountSystem" ELSE "pick"
  /\ UNCHANGED <<masked, accounts, currentTask, preemptionReason>>

AccountSystem ==
  /\ Reads("accountSystem") /\ pc' = "pick"
  /\ systemTimeMicros' =
       Add(systemTimeMicros, currentTask, Got - systemTimeEntryMicros[currentTask])
  /\ UNCHANGED <<masked, userTimeMicros, userTimeEntryMicros, systemTimeEntryMicros,
                 told, forgotten, currentTask, preemptionReason>>

Pick ==
  /\ Rest /\ pc = "pick"
  /\ currentTask' \in Tasks \cup {Null}
  /\ pc' = IF currentTask' = Null THEN "top" ELSE "enter"
  /\ UNCHANGED <<masked, accounts, preemptionReason>>

\* Broken variant: the entry of the last time is kept.
EntryKept(t, n) == UNCHANGED userTimeEntryMicros

Entry(t, n) == userTimeEntryMicros' = Set(userTimeEntryMicros, t, n)

\* kernelToTask drops the mask.
Enter ==
  /\ Reads("enter") /\ pc' = "task" /\ masked' = FALSE
  /\ Entry(currentTask, Got)
  /\ UNCHANGED <<userTimeMicros, systemTimeMicros, systemTimeEntryMicros, told, forgotten,
                 currentTask, preemptionReason>>

\* BASEPRI is raised on the way into the kernel.
Mask == masked' = TRUE

\* A system call, or an interrupt other than that of the timer.
Leave ==
  /\ Rest /\ pc = "task" /\ pc' = "charge" /\ Mask
  /\ preemptionReason' \in {"syscall", "interrupt"}
  /\ UNCHANGED <<accounts, currentTask>>

\* A task whose stack is too deep is killed and its call not handled.
Charge ==
  /\ Reads("charge") /\ pc' \in {"handle", "top"}
  /\ userTimeMicros' =
       Add(userTimeMicros, currentTask, Got - userTimeEntryMicros[currentTask])
  /\ systemTimeEntryMicros' =
       Set(systemTimeEntryMicros, currentTask, IF preemptionReason = "syscall" THEN Got ELSE 0)
  /\ UNCHANGED <<masked, userTimeEntryMicros, systemTimeMicros, told, forgotten,
                 currentTask, preemptionReason>>

\* An interrupt, or a call that neither creates a task nor asks for the time.
Handle ==
  /\ Rest /\ pc = "handle" /\ pc' = "top"
  /\ UNCHANGED <<masked, accounts, currentTask, preemptionReason>>

\* createTask: reinitializeTd clears the descriptor of a task that is gone.
Create ==
  /\ Rest /\ pc = "handle" /\ preemptionReason = "syscall" /\ pc' = "top"
  /\ \E t \in Tasks \ {currentTask} :
       /\ userTimeMicros' = Set(userTimeMicros, t, 0)
       /\ userTimeEntryMicros' = Set(userTimeEntryMicros, t, 0)
       /\ systemTimeMicros' = Set(systemTimeMicros, t, 0)
       /\ systemTimeEntryMicros' = Set(systemTimeEntryMicros, t, 0)
       /\ forgotten' = forgotten + userTimeMicros[t]
  /\ UNCHANGED <<masked, told, currentTask, preemptionReason>>

AskMicros ==
  /\ Rest /\ pc = "handle" /\ preemptionReason = "syscall" /\ pc' = "micros"
  /\ UNCHANGED <<masked, accounts, currentTask, preemptionReason>>

sys_getMonotonicMicros ==
  /\ Reads("micros") /\ pc' = "top"
  /\ told' = Got
  /\ UNCHANGED <<masked, userTimeMicros, userTimeEntryMicros, systemTimeMicros,
                 systemTimeEntryMicros, forgotten, currentTask, preemptionReason>>

Next ==
  \/ Timeout \/ HandlerStarts \/ StoreLow \/ StoreHigh
  \/ Disable \/ LoadLow
  \/ Top \/ AccountSystem \/ Pick \/ Enter \/ Leave
  \/ Charge \/ Handle \/ Create \/ AskMicros \/ sys_getMonotonicMicros

Spec == Init /\ [][Next]_vars
-----------------------------------------------------------------------------
\* The interrupt of the timer is disabled only while the counter is read, which
\* happens at four points, and the mask is off only while a task runs.
TypeOK ==
  /\ low \in 0 .. WordSize - 1 /\ high \in Nat /\ ticks \in Nat
  /\ timeout \in BOOLEAN /\ masked \in BOOLEAN
  /\ handler \in {"idle", "low", "high", "carry"}
  /\ pc \in Readers \cup {"top", "pick", "task", "handle"}
  /\ reading \in {"no", "off", "low"} /\ (reading # "no" => pc \in Readers)
  /\ timerEnabled \in BOOLEAN /\ (timerEnabled <=> reading = "no")
  /\ got \in 0 .. WordSize - 1
  /\ currentTask \in Tasks \cup {Null}
  /\ pc \notin {"top", "pick"} => currentTask \in Tasks
  /\ preemptionReason \in {"syscall", "interrupt"}
  /\ userTimeMicros \in [Tasks -> Nat] /\ userTimeEntryMicros \in [Tasks -> Nat]
  /\ systemTimeMicros \in [Tasks -> Nat] /\ systemTimeEntryMicros \in [Tasks -> Nat]
  /\ told \in Nat /\ forgotten \in Nat

\* The time that a task is told is that of all interrupts handled so far: a read
\* of the two words never falls between the stores of the handler, and the carry
\* is not lost (getSystemTimerMicros, systemTimerISR).
ReadsRight == [][told' # told => told' = Tick * ticks]_vars

\* Every microsecond of the counter is charged to one task, once, to the one that
\* ran when it went by, and none is charged to nobody (rtos_main).
MicrosCharged ==
  handler = "idle" =>
    systemMicroCount =
      FoldFunction(LAMBDA x, y : x + y, 0, userTimeMicros) + forgotten
        + (IF pc \in {"task", "charge"}
           THEN systemMicroCount - userTimeEntryMicros[currentTask] ELSE 0)

\* What the code does, where rtos_main says that it counts the kernel time of
\* system calls: the counter stands still in the kernel, whose mask holds back the
\* timer, so that both readings are the same and no system time is ever charged.
\* What the kernel takes is user time of the task that runs next, one interrupt of
\* the timer at most.  Part of the invariant behind MicrosCharged; MCKernelTime
\* shows the claim to fail.
KernelTimeUncharged == \A t \in Tasks : systemTimeMicros[t] = 0
=============================================================================
