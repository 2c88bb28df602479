------------------------------- MODULE Kernel -------------------------------
(***************************************************************************)
(* The prjOS kernel: the task descriptors, the blocking Send / Receive /   *)
(* Reply calls, AwaitEvent, task creation, exit, stack-overflow kill and   *)
(* preemption by interrupts (rtosmain.c, task.c, syscall/*.c).             *)
(*                                                                         *)
(* The processor is either in user mode, running task "current", or in the *)
(* kernel loop (current = Nobody).  The kernel runs with the maskable      *)
(* interrupts off, so everything between a trap and the next dispatch is   *)
(* one step: each action below is a trap of the running task with all that *)
(* the loop does about it.  Which ready task is dispatched is left open    *)
(* here; module PrjOS composes this module with the ready queues.          *)
(*                                                                         *)
(* A task is free to make, in any order, the calls that Ops gives its slot.*)
(***************************************************************************)
EXTENDS Integers, FiniteSets

CONSTANTS
  NTasks,        \* KERNEL_NUMBER_OF_TASKS: slots with a regular stack
  NMicro,        \* KERNEL_NUMBER_OF_MICROTASKS: slots with a small stack
  MaxPriority,   \* TASKS_MAX_PRIORITY: priorities are 0 .. MaxPriority - 1
  NumEvents,     \* EVENTS_NUM_EVENTS: event queries that can be outstanding
  NumTypes,      \* EVENTS_NUM_TYPES: event identifiers are 0 .. NumTypes - 1
  Devices,       \* the event identifiers that an interrupt handler raises
  GenLimit,      \* bound: how often slot i is given to a task (2^20 - 1 in C)
  Lens,          \* the message, buffer and reply lengths that tasks use
  PriorityArgs,  \* the priorities that tasks pass to Create / ChangePriority
  Ops            \* Ops[i]: what the task in slot i may do

Slots      == 0 .. NTasks + NMicro - 1
Regular    == 0 .. NTasks - 1
Micro      == NTasks .. NTasks + NMicro - 1
Queries    == 0 .. NumEvents - 1
EventTypes == 0 .. NumTypes - 1

OpNames == {"yield", "exit", "overflow", "create", "createMicro",
            "changePriority", "send", "receive", "receiveNonBlock", "reply",
            "awaitEvent"}

ASSUME KernelAssumption ==
  /\ NTasks \in Nat \ {0} /\ NMicro \in Nat
  /\ MaxPriority \in Nat \ {0}
  /\ NumEvents \in Nat /\ NumTypes \in Nat
  /\ Devices \subseteq EventTypes
  /\ GenLimit \in [Slots -> Nat]
  /\ Lens \subseteq Nat
  /\ PriorityArgs \subseteq Nat
  /\ Ops \in [Slots -> SUBSET OpNames]

Null   == -1     \* the null pointer, among slots and among queries
Nobody == -1     \* no task is in user mode

\* A task identifier is the slot and the generation of its occupant.
NoTid  == <<0, 0>>                              \* TASKS_ID_INVALID
TidSet == (0 .. NTasks + NMicro) \X Nat

States == {"INVALID", "RUNNING", "EXITED", "RCVD_BLK", "SEND_BLK", "RPLY_BLK",
           "EVT_BLK", "SYSCALL_BLK", "HWINT", "KILLED"}

Codes == {"PENDING", "OK", "DNE", "NOTFOUND", "BAD_BUFFER", "INCOMPLETE",
          "TOO_SMALL", "NOSEND", "NOT_REPLY_BLOCKED", "ERROR", "VOLATILE",
          "BAD_EVENT_ID", "NO_SPACE", "INVAL_PRIORITY"}

Call    == [tid : TidSet, len : Lens \cup {0}, rlen : Lens \cup {0}]
Outcome == [code : Codes, tid : TidSet]

NoCall   == [tid |-> NoTid, len |-> 0, rlen |-> 0]
Only(c)  == [code |-> c, tid |-> NoTid]
With(c, id) == [code |-> c, tid |-> id]

VARIABLES
  current,        \* the task in user mode, or Nobody
  state,          \* TaskDescriptor.state
  gen,            \* the generation part of TaskDescriptor.taskId
  priority,       \* TaskDescriptor.priority
  call,           \* SystemCall.param1/3/5 while a call blocks: partner, lengths
  ret,            \* SystemCall.returnValue, and the identifier handed back
  sendQueueHead, sendQueueTail, sendQueueNext,
  waitingTid, eventId, nextQuery,        \* EventData.eventList[q]
  eventQueueHead, eventQueueTail

sendQueue  == <<sendQueueHead, sendQueueTail, sendQueueNext>>
eventQueue == <<waitingTid, eventId, nextQuery, eventQueueHead, eventQueueTail>>
vars == <<current, state, gen, priority, call, ret, sendQueue, eventQueue>>

-----------------------------------------------------------------------------
(* task.c: what the descriptors say.                                       *)

Tid(i)         == <<i, gen[i]>>
isTaskReady(i) == state[i] \in {"RUNNING", "HWINT"}
isTdAvailable(i) == state[i] \in {"INVALID", "EXITED", "KILLED"}

\* The identifiers a task can hold: one that was handed out, now current or
\* outdated, one with generation 0, one whose index is beyond the table.
KnownTids == {<<NTasks + NMicro, 1>>}
               \cup (UNION {{i} \X (0 .. gen[i]) : i \in Slots})

\* The index and the generation are possible ones (sys_send, sys_reply).
Possible(id) == id[2] # 0 /\ id[1] \in Slots

findTd(id) == IF id[1] \in Slots /\ gen[id[1]] = id[2] THEN id[1] ELSE Null

\* The slot createTask takes: the first available one of its kind.
FirstFree(n, R) == /\ isTdAvailable(n)
                   /\ \A j \in R : isTdAvailable(j) => n <= j
-----------------------------------------------------------------------------
Init ==
  \* rtos_main up to the loop: the init task is in slot 0, the rest is empty
  /\ current = Nobody
  /\ state = [i \in Slots |-> IF i = 0 THEN "RUNNING" ELSE "INVALID"]
  /\ gen = [i \in Slots |-> IF i = 0 THEN 1 ELSE 0]
  /\ priority = [i \in Slots |-> 0]
  /\ call = [i \in Slots |-> NoCall]
  /\ ret = [i \in Slots |-> Only("PENDING")]
  /\ sendQueueHead = [i \in Slots |-> Null]
  /\ sendQueueTail = [i \in Slots |-> Null]
  /\ sendQueueNext = [i \in Slots |-> Null]
  /\ waitingTid = [q \in Queries |-> NoTid]
  /\ eventId = [q \in Queries |-> 0]
  /\ nextQuery = [q \in Queries |-> Null]
  /\ eventQueueHead = [e \in EventTypes |-> Null]
  /\ eventQueueTail = [e \in EventTypes |-> Null]

\* Broken variants: the next task is any live one; an outcome is left in
\* returnValue when it has been delivered.
DispatchAnyLive(t) ==
  /\ current = Nobody
  /\ ~isTdAvailable(t)
  /\ current' = t
  /\ UNCHANGED <<state, gen, priority, call, ret, sendQueue, eventQueue>>

DispatchKeepsOutcome(t) ==
  /\ current = Nobody
  /\ isTaskReady(t)
  /\ current' = t
  /\ UNCHANGED <<state, gen, priority, call, ret, sendQueue, eventQueue>>

\* kernelToTask: any ready task may be the next one.  Its state is kept, so a
\* task that was preempted is still HWINT while it runs.  A task that made a
\* call gets its outcome in R0, a preempted one has its own R0 restored.  The
\* trap of the next call clears returnValue; here it is cleared on delivery.
Dispatch(t) ==
  /\ current = Nobody
  /\ isTaskReady(t)
  /\ current' = t
  /\ ret' = IF state[t] = "HWINT" THEN ret
                                  ELSE [ret EXCEPT ![t] = Only("PENDING")]
  /\ UNCHANGED <<state, gen, priority, call, sendQueue, eventQueue>>

\* The running task traps into the kernel to do op.
Trap(t, op) ==
  /\ current = t
  /\ op \in Ops[t]
  /\ current' = Nobody

\* The call ends at once with outcome r, the task is ready, all else is kept.
Return(t, r) ==
  /\ state' = [state EXCEPT ![t] = "RUNNING"]
  /\ ret' = [ret EXCEPT ![t] = r]
  /\ UNCHANGED <<gen, call, sendQueue, eventQueue>>
-----------------------------------------------------------------------------
(* The calls that return a value and change nothing else, exit, kill.      *)

Yield(t) ==
  /\ Trap(t, "yield")
  /\ Return(t, Only("OK"))
  /\ UNCHANGED priority

Leave(t, s) ==
  /\ state' = [state EXCEPT ![t] = s]
  /\ UNCHANGED <<gen, priority, call, ret, sendQueue, eventQueue>>

Exit(t)     == Trap(t, "exit") /\ Leave(t, "EXITED")

\* The loop finds the stack of the task it just stopped too deep: no call and
\* no interrupt is handled in that step.
Overflow(t) == Trap(t, "overflow") /\ Leave(t, "KILLED")

ChangePriority(t) ==
  /\ Trap(t, "changePriority")
  /\ \E p \in PriorityArgs :
       priority' = IF p < MaxPriority THEN [priority EXCEPT ![t] = p]
                                      ELSE priority
  /\ Return(t, Only("OK"))
-----------------------------------------------------------------------------
(* Task creation.                                                          *)

\* The test that sys_create and sys_createMicroTask make of a priority.
sys_createError(p) == p < 0 /\ p >= MaxPriority

\* Broken variant: reinitializeTd leaves the send queue of the last occupant.
keptSendQueue(n) == UNCHANGED sendQueue

\* reinitializeTd clears the descriptor, the send queue with it.
emptySendQueue(n) ==
  /\ sendQueueHead' = [sendQueueHead EXCEPT ![n] = Null]
  /\ sendQueueTail' = [sendQueueTail EXCEPT ![n] = Null]
  /\ sendQueueNext' = [sendQueueNext EXCEPT ![n] = Null]

\* Broken variant: the generation is not advanced.
oldGeneration(n) == gen[n]

newGeneration(n) == gen[n] + 1

createTask(t, n, p) ==
  /\ gen[n] < GenLimit[n]
  /\ gen' = [gen EXCEPT ![n] = newGeneration(n)]
  /\ priority' = [priority EXCEPT ![n] = p]
  /\ call' = [call EXCEPT ![n] = NoCall]
  /\ state' = [state EXCEPT ![n] = "RUNNING", ![t] = "RUNNING"]
  /\ ret' = [ret EXCEPT ![n] = Only("PENDING"),
                        ![t] = With("OK", <<n, newGeneration(n)>>)]
  /\ emptySendQueue(n)
  /\ UNCHANGED eventQueue

\* Both error exits of the two cases leave the switch without setTaskReady:
\* the caller keeps the state the trap gave it.
CreateFails(t, code) ==
  /\ state' = [state EXCEPT ![t] = "SYSCALL_BLK"]
  /\ ret' = [ret EXCEPT ![t] = Only(code)]
  /\ UNCHANGED <<gen, priority, call, sendQueue, eventQueue>>

CreateIn(t, R, p) ==
  IF sys_createError(p) THEN CreateFails(t, "INVAL_PRIORITY")
  ELSE IF \A i \in R : ~isTdAvailable(i) THEN CreateFails(t, "NO_SPACE")
  ELSE \E n \in R : FirstFree(n, R) /\ createTask(t, n, p)

Create(t) ==
  Trap(t, "create") /\ \E p \in PriorityArgs : CreateIn(t, Regular, p)

CreateMicroTask(t) ==
  Trap(t, "createMicro") /\ CreateIn(t, Micro, priority[t])
-----------------------------------------------------------------------------
(* Send, Receive and Reply.                                                *)

\* How a message of n bytes arrives in a buffer of cap bytes.
Fits(n, cap) == n <= cap

SendRefused(t) ==
  /\ Trap(t, "send")
  /\ \E id \in KnownTids :
       Return(t, Only(CASE ~Possible(id)    -> "DNE"
                        [] Possible(id) /\ findTd(id) = Null -> "NOTFOUND"
                        [] OTHER -> "BAD_BUFFER"))
  /\ UNCHANGED priority

\* The receiver is waiting: the message is copied at once.
SendDirect(t) ==
  /\ Trap(t, "send")
  /\ \E id \in KnownTids, len \in Lens, rlen \in Lens \ {0} :
       LET r == findTd(id) IN
       /\ Possible(id) /\ r # Null
       /\ state[r] = "SEND_BLK"
       /\ state' = [state EXCEPT ![r] = "RUNNING", ![t] = "RPLY_BLK"]
       /\ sendQueueHead' = [sendQueueHead EXCEPT ![r] = Null]
       /\ call' = [call EXCEPT
                     ![t] = [tid |-> id, len |-> len, rlen |-> rlen],
                     ![r] = NoCall]
       /\ ret' = [ret EXCEPT
                    ![r] = With(IF Fits(len, call[r].len) THEN "OK"
                                ELSE "TOO_SMALL", Tid(t)),
                    ![t] = Only("OK")]
  /\ UNCHANGED <<gen, priority, sendQueueTail, sendQueueNext, eventQueue>>

\* Broken variants: the tail stays where it was; the sender goes first.
pushKeepsTail(t, r) ==
  IF sendQueueHead[r] = Null
  THEN /\ sendQueueHead' = [sendQueueHead EXCEPT ![r] = t]
       /\ sendQueueTail' = [sendQueueTail EXCEPT ![r] = t]
       /\ sendQueueNext' = [sendQueueNext EXCEPT ![t] = Null]
  ELSE /\ sendQueueNext' = [sendQueueNext EXCEPT ![sendQueueTail[r]] = t,
                                                 ![t] = Null]
       /\ UNCHANGED <<sendQueueHead, sendQueueTail>>

pushFirst(t, r) ==
  /\ sendQueueHead' = [sendQueueHead EXCEPT ![r] = t]
  /\ sendQueueNext' = [sendQueueNext EXCEPT ![t] = sendQueueHead[r]]
  /\ sendQueueTail' = [sendQueueTail EXCEPT
                         ![r] = IF sendQueueHead[r] = Null THEN t ELSE @]

\* Append t to the send queue of r.
push(t, r) ==
  /\ sendQueueTail' = [sendQueueTail EXCEPT ![r] = t]
  /\ IF sendQueueHead[r] = Null
     THEN /\ sendQueueHead' = [sendQueueHead EXCEPT ![r] = t]
          /\ sendQueueNext' = [sendQueueNext EXCEPT ![t] = Null]
     ELSE /\ sendQueueNext' = [sendQueueNext EXCEPT ![sendQueueTail[r]] = t,
                                                    ![t] = Null]
          /\ UNCHANGED sendQueueHead

\* The receiver is not waiting, or has exited: wait in its send queue.
SendQueued(t) ==
  /\ Trap(t, "send")
  /\ \E id \in KnownTids, len \in Lens, rlen \in Lens \ {0} :
       LET r == findTd(id) IN
       /\ Possible(id) /\ r # Null
       /\ state[r] # "SEND_BLK"
       /\ call' = [call EXCEPT ![t] = [tid |-> id, len |-> len, rlen |-> rlen]]
       /\ push(t, r)
  /\ state' = [state EXCEPT ![t] = "RCVD_BLK"]
  /\ ret' = [ret EXCEPT ![t] = Only("PENDING")]
  /\ UNCHANGED <<gen, priority, eventQueue>>

\* A null buffer: the code returns before it makes the caller ready again.
ReceiveRefused(t, op) ==
  /\ Trap(t, op)
  /\ state' = [state EXCEPT ![t] = "SYSCALL_BLK"]
  /\ ret' = [ret EXCEPT ![t] = Only("BAD_BUFFER")]
  /\ UNCHANGED <<gen, priority, call, sendQueue, eventQueue>>

\* A sender is queued: pop it and copy its message.
ReceiveQueued(t, op) ==
  LET s == sendQueueHead[t] IN
  /\ Trap(t, op)
  /\ s # Null
  /\ sendQueueHead' = [sendQueueHead EXCEPT ![t] = sendQueueNext[s]]
  /\ sendQueueNext' = [sendQueueNext EXCEPT ![s] = Null]
  /\ state' = [state EXCEPT ![s] = "RPLY_BLK", ![t] = "RUNNING"]
  /\ \E cap \in Lens :
       LET fit == Fits(call[s].len, cap) IN
       ret' = [ret EXCEPT
                 ![s] = Only(IF fit THEN "OK" ELSE "INCOMPLETE"),
                 ![t] = With(IF fit THEN "OK" ELSE "TOO_SMALL", Tid(s))]
  /\ UNCHANGED <<gen, priority, call, sendQueueTail, eventQueue>>

\* Broken variant: Receive blocks without a look at its send queue.
ReceiveBlocksAnyway(t) ==
  /\ Trap(t, "receive")
  /\ state' = [state EXCEPT ![t] = "SEND_BLK"]
  /\ \E cap \in Lens : call' = [call EXCEPT ![t] = [NoCall EXCEPT !.len = cap]]
  /\ ret' = [ret EXCEPT ![t] = Only("PENDING")]
  /\ UNCHANGED <<gen, priority, sendQueue, eventQueue>>

ReceiveBlocks(t) ==
  /\ Trap(t, "receive")
  /\ sendQueueHead[t] = Null
  /\ state' = [state EXCEPT ![t] = "SEND_BLK"]
  /\ \E cap \in Lens : call' = [call EXCEPT ![t] = [NoCall EXCEPT !.len = cap]]
  /\ ret' = [ret EXCEPT ![t] = Only("PENDING")]
  /\ UNCHANGED <<gen, priority, sendQueue, eventQueue>>

ReceiveNothing(t) ==
  /\ Trap(t, "receiveNonBlock")
  /\ sendQueueHead[t] = Null
  /\ Return(t, Only("NOSEND"))
  /\ UNCHANGED priority

\* Broken variant: a task is answered before its message is received.
AwaitsExchange(s) == state[s] \in {"RPLY_BLK", "RCVD_BLK"}

AwaitsReply(s) == state[s] = "RPLY_BLK"

ReplyRefused(t) ==
  /\ Trap(t, "reply")
  /\ \E id \in KnownTids :
       \/ ~Possible(id) /\ Return(t, Only("DNE"))
       \/ Possible(id) /\ findTd(id) = Null /\ Return(t, Only("NOTFOUND"))
       \/ Possible(id) /\ findTd(id) # Null /\ Return(t, Only("ERROR"))
       \/ /\ Possible(id) /\ findTd(id) # Null
          /\ ~AwaitsReply(findTd(id))
          /\ Return(t, Only("NOT_REPLY_BLOCKED"))
  /\ UNCHANGED priority

\* Anyone who knows a reply-blocked task may answer it.
ReplyDelivers(t) ==
  /\ Trap(t, "reply")
  /\ \E id \in KnownTids, len \in Lens :
       LET s   == findTd(id)
           fit == Fits(len, call[s].rlen) IN
       /\ Possible(id) /\ s # Null
       /\ AwaitsReply(s)
       /\ state' = [state EXCEPT ![s] = "RUNNING", ![t] = "RUNNING"]
       /\ call' = [call EXCEPT ![s] = NoCall]
       /\ ret' = [ret EXCEPT ![s] = Only(IF fit THEN "OK" ELSE "INCOMPLETE"),
                             ![t] = Only(IF fit THEN "OK" ELSE "ERROR")]
  /\ UNCHANGED <<gen, priority, sendQueue, eventQueue>>
-----------------------------------------------------------------------------
(* Events and interrupts.                                                  *)

Vacant(q) == waitingTid[q] = NoTid

\* Broken variant: the first query, in use or not.
FirstQuery(q) == \A p \in Queries : q <= p

FirstVacant(q) == Vacant(q) /\ \A p \in Queries : Vacant(p) => q <= p

AwaitEventRefused(t) ==
  /\ Trap(t, "awaitEvent")
  /\ \/ Return(t, Only("BAD_EVENT_ID"))
     \/ (\A q \in Queries : ~Vacant(q)) /\ Return(t, Only("TOO_SMALL"))
  /\ UNCHANGED priority

\* Broken variant: the last to wait is the first to be woken.
pushEventFirst(q, e) ==
  /\ eventQueueHead' = [eventQueueHead EXCEPT ![e] = q]
  /\ nextQuery' = [nextQuery EXCEPT ![q] = eventQueueHead[e]]
  /\ eventQueueTail' = [eventQueueTail EXCEPT
                          ![e] = IF eventQueueHead[e] = Null THEN q ELSE @]

\* Append query q to the queue of event e.
pushEvent(q, e) ==
  /\ eventQueueTail' = [eventQueueTail EXCEPT ![e] = q]
  /\ IF eventQueueHead[e] = Null
     THEN /\ eventQueueHead' = [eventQueueHead EXCEPT ![e] = q]
          /\ nextQuery' = [nextQuery EXCEPT ![q] = Null]
     ELSE /\ nextQuery' = [nextQuery EXCEPT ![eventQueueTail[e]] = q,
                                            ![q] = Null]
          /\ UNCHANGED eventQueueHead

AwaitEvent(t) ==
  /\ Trap(t, "awaitEvent")
  /\ \E q \in Queries, e \in EventTypes :
       /\ FirstVacant(q)
       /\ waitingTid' = [waitingTid EXCEPT ![q] = Tid(t)]
       /\ eventId' = [eventId EXCEPT ![q] = e]
       /\ pushEvent(q, e)
  /\ state' = [state EXCEPT ![t] = "EVT_BLK"]
  /\ ret' = [ret EXCEPT ![t] = Only("PENDING")]
  /\ UNCHANGED <<gen, priority, call, sendQueue>>

\* hwContextSwitch: the running task is stopped between two instructions.  Its
\* saved outcome is not touched.
Preempt(t) ==
  /\ current = t
  /\ current' = Nobody
  /\ state' = [state EXCEPT ![t] = "HWINT"]
  /\ UNCHANGED <<gen, priority, call, ret, sendQueue, eventQueue>>

\* A device interrupt: handleInterrupt calls sys_eventHappened, which wakes
\* the task of the first query; with no query the event is forgotten.
DeviceInterrupt(t, e) ==
  LET q == eventQueueHead[e]
      w == findTd(waitingTid[q]) IN
  /\ current = t
  /\ current' = Nobody
  /\ q # Null
  /\ eventQueueHead' = [eventQueueHead EXCEPT ![e] = nextQuery[q]]
  /\ nextQuery' = [nextQuery EXCEPT ![q] = Null]
  /\ waitingTid' = [waitingTid EXCEPT ![q] = NoTid]
  /\ state' = [state EXCEPT ![t] = "HWINT", ![w] = "RUNNING"]
  /\ ret' = [ret EXCEPT ![w] = Only("VOLATILE")]
  /\ UNCHANGED <<gen, priority, call, sendQueue, eventId, eventQueueTail>>
-----------------------------------------------------------------------------
Syscall(t) ==
  \/ Yield(t) \/ Exit(t) \/ ChangePriority(t)
  \/ Create(t) \/ CreateMicroTask(t)
  \/ SendRefused(t) \/ SendDirect(t) \/ SendQueued(t)
  \/ \E op \in {"receive", "receiveNonBlock"} :
       ReceiveRefused(t, op) \/ ReceiveQueued(t, op)
  \/ ReceiveBlocks(t) \/ ReceiveNothing(t)
  \/ ReplyRefused(t) \/ ReplyDelivers(t)
  \/ AwaitEventRefused(t) \/ AwaitEvent(t)

Interrupt(t) == Preempt(t) \/ \E e \in Devices : DeviceInterrupt(t, e)

Next == \E t \in Slots :
          Dispatch(t) \/ Syscall(t) \/ Overflow(t) \/ Interrupt(t)

Spec == Init /\ [][Next]_vars
-----------------------------------------------------------------------------
(* What must hold.                                                         *)

\* Every field of every descriptor and query has a value of its C type, and a
\* task in user mode is one that the scheduler could have picked.
TypeOK ==
  /\ current \in Slots \cup {Nobody}
  /\ current # Nobody => isTaskReady(current)
  /\ state \in [Slots -> States]
  /\ gen \in [Slots -> Nat]
  /\ priority \in [Slots -> Nat]
  /\ call \in [Slots -> Call]
  /\ ret \in [Slots -> Outcome]
  /\ sendQueueHead \in [Slots -> Slots \cup {Null}]
  /\ sendQueueTail \in [Slots -> Slots \cup {Null}]
  /\ sendQueueNext \in [Slots -> Slots \cup {Null}]
  /\ waitingTid \in [Queries -> TidSet]
  /\ eventId \in [Queries -> EventTypes \cup {0}]
  /\ nextQuery \in [Queries -> Queries \cup {Null}]
  /\ eventQueueHead \in [EventTypes -> Queries \cup {Null}]
  /\ eventQueueTail \in [EventTypes -> Queries \cup {Null}]

\* A live task has an identifier that is not TASKS_ID_INVALID, and a blocked
\* call names a task of the present or of the past: a task that is created
\* later cannot have the identifier that an old call is waiting on.
IdentifiersOK ==
  /\ \A t \in Slots : ~isTdAvailable(t) => gen[t] > 0
  /\ \A s, r \in Slots : call[s].tid[1] = r => call[s].tid[2] <= gen[r]

\* s is blocked on a Send to the task that now occupies slot r.
IsSender(s, r) == state[s] = "RCVD_BLK" /\ call[s].tid = Tid(r)

Senders(r) == {s \in Slots : IsSender(s, r)}

\* The links lead from the head to the tail through every member of S once.
Linked(S, head, tail, next) ==
  LET n == Cardinality(S) IN
  \E f \in [1 .. n -> S] :
    /\ \A x \in S : \E i \in 1 .. n : f[i] = x
    /\ \A i, j \in 1 .. n : f[i] = f[j] => i = j
    /\ head = IF n = 0 THEN Null ELSE f[1]
    /\ \A i \in 1 .. n : next[f[i]] = IF i = n THEN Null ELSE f[i + 1]
    /\ n > 0 => tail = f[n]

\* No sender is lost: whatever interleaving of Send, Receive, exit, kill and
\* slot reuse led here, the pointers of sys_send and sys_receive link exactly
\* the tasks that are blocked on a Send to the present occupant of each slot.
SendQueueOK ==
  \A r \in Slots :
    Linked(Senders(r), sendQueueHead[r], sendQueueTail[r], sendQueueNext)

\* A task that waits in Receive has no queued sender: sys_send resets the head
\* of the queue of such a task without looking at it, which would otherwise
\* drop every sender that is queued.
ReceiverQueueEmpty ==
  \A r \in Slots : state[r] = "SEND_BLK" => sendQueueHead[r] = Null

\* The queries in use and the tasks in AwaitEvent are in one to one
\* correspondence, a query always resolving to a live waiting task:
\* sys_eventHappened dereferences what findTd gives it without a test.
IsWaiting(t, q) == waitingTid[q] = Tid(t) /\ state[t] = "EVT_BLK"

EventWaiters ==
  /\ \A q \in Queries : ~Vacant(q) => \E t \in Slots : IsWaiting(t, q)
  /\ \A t \in Slots : state[t] = "EVT_BLK" => \E q \in Queries : IsWaiting(t, q)
  /\ \A p, q \in Queries : waitingTid[p] = waitingTid[q] /\ ~Vacant(p) => p = q

Pending(e) == {q \in Queries : ~Vacant(q) /\ eventId[q] = e}

\* No waiter is lost and none is woken twice: pushEvent and popEvent link
\* exactly the queries that are in use, each to a task that waits for it.
EventQueueOK ==
  /\ EventWaiters
  /\ \A e \in EventTypes :
       Linked(Pending(e), eventQueueHead[e], eventQueueTail[e], nextQuery)

\* A preempted task has no outcome to collect: kernelToTask restores the
\* registers of a task that is HWINT and would drop a value meant for it.
NoOutcomeForPreempted ==
  \A t \in Slots : state[t] = "HWINT" => ret[t] = Only("PENDING")

\* Of a blocked call only the matching event changes the state, and it hands
\* back what the call promises: a Send waits for Receive and then for Reply, a
\* Receive names a task that waits for its reply, AwaitEvent ends with an
\* event; a preempted task stays as it is until it runs again.
ServedOnly(t) ==
  /\ state[t] = "RCVD_BLK" => state'[t] \in {"RCVD_BLK", "RPLY_BLK"}
  /\ state[t] = "RPLY_BLK" =>
       \/ state'[t] = "RPLY_BLK"
       \/ /\ state'[t] = "RUNNING"
          /\ ret'[t].code \in {"OK", "INCOMPLETE"}
  /\ state[t] = "SEND_BLK" =>
       \/ state'[t] = "SEND_BLK"
       \/ /\ state'[t] = "RUNNING" /\ ret'[t].code \in {"OK", "TOO_SMALL"}
          /\ state'[ret'[t].tid[1]] = "RPLY_BLK"
          /\ gen[ret'[t].tid[1]] = ret'[t].tid[2]
  /\ state[t] = "EVT_BLK" =>
       \/ state'[t] = "EVT_BLK"
       \/ state'[t] = "RUNNING" /\ ret'[t].code = "VOLATILE"
  /\ state[t] = "HWINT" /\ current # t => state'[t] = "HWINT"

BlockedUntilServed == [][\A t \in Slots : ServedOnly(t)]_vars

\* A message reaches the task it was sent to and no later occupant of its
\* slot, although a dead task keeps its queue until the slot is given away.
DeliveredToAddressee ==
  [][\A s \in Slots : state[s] = "RCVD_BLK" /\ state'[s] = "RPLY_BLK" =>
       current \in Slots /\ call[s].tid = Tid(current)]_vars
=============================================================================
