-------------------------------- MODULE PrjOS --------------------------------
(***************************************************************************)
(* The kernel loop of rtos_main: Kernel, with the task to run picked by    *)
(* schedule() and every task put back by schedulerAdd().                   *)
(***************************************************************************)
EXTENDS Kernel

VARIABLE ready        \* SchedulerStructure

allVars == <<vars, ready>>

Levels == 0 .. MaxPriority - 1
RQ == INSTANCE ReadyQueue WITH Nodes <- Slots, Levels <- Levels, Nil <- Null

\* createFirstTask adds the init task at priority 0.
PrjInit == Init /\ ready = RQ!schedulerAdd(RQ!EmptyLists, 0, 0)

\* Broken variant: only dead tasks are passed over.
ScheduleAnyLive(t) ==
  /\ DispatchAnyLive(t)
  /\ \E p \in Levels :
       RQ!Schedules(ready, p, t, {i \in Slots : ~isTdAvailable(i)}, ready')

Schedule(t) ==
  /\ Dispatch(t)
  /\ \E p \in Levels :
       RQ!Schedules(ready, p, t, {i \in Slots : isTaskReady(i)}, ready')

\* A slot that was given to a new task in this step.
Created == {n \in Slots : gen'[n] # gen[n]}

\* Broken variant: a task goes back to the list that it came from.
BackInOldList(t) ==
  LET added == IF Created = {} THEN ready
               ELSE LET n == CHOOSE n \in Created : TRUE
                    IN  RQ!schedulerAdd(ready, n, priority'[n])
  IN  ready' = RQ!schedulerAdd(added, t, priority[t])

\* handleSyscall adds the task that it created; then the loop adds the task
\* that trapped, for hasExited() was asked before the call was handled.
BackInList(t) ==
  LET added == IF Created = {} THEN ready
               ELSE LET n == CHOOSE n \in Created : TRUE
                    IN  RQ!schedulerAdd(ready, n, priority'[n])
  IN  ready' = RQ!schedulerAdd(added, t, priority'[t])

RunKernel(t) == (Syscall(t) \/ Interrupt(t)) /\ BackInList(t)

\* A task killed for its stack is not put back.
KillTask(t) == Overflow(t) /\ UNCHANGED ready

PrjNext == \E t \in Slots : Schedule(t) \/ RunKernel(t) \/ KillTask(t)

\* The kernel loop does not stop, and the tick interrupts any task that does
\* not trap by itself.
Fairness == WF_allVars(PrjNext)

PrjSpec == PrjInit /\ [][PrjNext]_allVars /\ Fairness
-----------------------------------------------------------------------------
(* What the lists need of the programs, for the kernel does not see to it. *)

\* The slot of a task that exits is not given to another: schedulerAdd() puts
\* the new one in a list though the old one is still in one (rtosmain.c).
SlotsRetired == \A i \in Slots : "exit" \in Ops[i] => GenLimit[i] <= 1

\* Tasks are created at priorities for which there is a list.
PrioritiesExist == PriorityArgs \subseteq Levels
-----------------------------------------------------------------------------
\* No list has a loop, so schedule() returns, and each tail is the last node
\* of its list, so schedulerAdd() drops none.
ListsWellFormed ==
  \A p \in Levels :
    /\ ~RQ!Loops(ready, p)
    /\ ready.tails[p] = Null <=> ready.heads[p] = Null
    /\ ready.tails[p] # Null => /\ ready.tails[p] \in RQ!Listed(ready, p)
                                /\ ready.next[ready.tails[p]] = Null

\* Every live task but the running one is in the list of its priority and in
\* no other, blocked or not; the running task is in none.
LiveTasksListed ==
  \A t \in Slots, p \in Levels :
    ~isTdAvailable(t) =>
      (t \in RQ!Listed(ready, p) <=> t # current /\ p = priority[t])

\* Of the ready tasks, one of the most urgent runs next.
MostUrgentFirst ==
  [][\A t, u \in Slots : current # t /\ current' = t /\ isTaskReady(u)
       => priority[t] <= priority[u]]_allVars

\* No task that stays ready at the top priority is passed over for ever by its
\* equals; a ready task stays so, and at its priority, until it runs (schedule,
\* schedulerAdd).
NoStarvation ==
  \A t \in Slots :
    <>[](isTaskReady(t) /\ priority[t] = 0) => []<>(current = t)

\* scheduler.c says of schedule(): "Returns 0 if no tasks are ready", so when
\* there is one the call must come back with a task.
ScheduleFindsReady ==
  LET Ready == {t \in Slots : isTaskReady(t)} IN
  current = Nobody /\ Ready # {} =>
    \E p \in Levels : /\ RQ!StopsAt(ready, p, Ready)
                      /\ RQ!Places(ready, p, Ready) # {}
=============================================================================
