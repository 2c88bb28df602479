# prjOS in TLA+

prjOS is a small real-time kernel for Cortex-M4 boards with message passing in
the style of QNX: tasks that Send, Receive and Reply, events raised by
interrupts, priorities with preemption, and on top of it a name server, a serial
driver and a command line. This directory holds its specification: modules
translated from `src/src` and `src/include`, TLC configurations that check them
on small instances, and theorems that TLAPS proves for every size of the system.

Contents: [the system](#the-system) · [the modules](#the-modules) ·
[what is abstracted](#what-is-abstracted) · [runs](#runs) ·
[where the code and its comments disagree](#where-the-code-and-its-comments-disagree) ·
[proofs](#proofs) · [plan](#plan)

## The system

| component | its state | its operations | what makes it correct |
|---|---|---|---|
| **kernel calls** `task.c`, `syscall/*.c`, `rtosmain.c` (`handleSyscall`, `createTask`) | the table of `TaskDescriptor`s: state, identifier, priority, the pending `SystemCall`, a send queue linked through the descriptors | Create, CreateMicroTask, Exit, Yield, ChangePriority, Send, Receive (blocking or not), Reply, kill on stack overflow | no sender is lost or repeated; a message goes to the task it was sent to; a blocked call ends only with what it waits for; slots are reused safely |
| **events** `syscall/awaitevent.c`, `hardware_dependent/interrupts.c` | a pool of `EventQuery`s, one queue per event type | AwaitEvent, `sys_eventHappened` from the interrupt path | one query per waiting task; woken in the order they came; no query leaks |
| **scheduler and kernel loop** `scheduler.c`, `rtos_main` | one list per priority, a node per descriptor | `schedule`, `schedulerAdd` | each live task in one list; the most urgent ready task runs; equals take turns |
| **context switch** `contextSwitch.asm`, `taskSwitch.c` | frames on the stacks of kernel and tasks, `stackPointer`, `returnValue` | `kernelToTask`, `contextSwitch` (for a call), `hwContextSwitch` | everybody goes on with their own registers; the result of a call reaches R0; the kernel finds the parameters |
| **name server, boot** `base_tasks/nameserver.c`, `init.c`, `whois.c`, `registerAs.c` | a table of names | REGISTER, WHOIS | clients are answered once and for their own request |
| **serial driver** `base_tasks/serialDriver.c`, `getch.c`, `putbuf.c`, `putstr.c` | a subscriber, the UART | SEND, GETCH, the poll loop | each character reaches the reader once; the subscriber is served |
| **command line** `cli/serialUI.c`, `cli/commandExecutor.c` | a line, a courier, an executor | key by key editing, hand-over of a line | the tasks never wait on each other in a circle |
| **command tree** `cli/baseCli.c` | directory and command records, the directory the user is in | `cli_mkcmd`, `cli_mkdir`, `cli_engine` | each entry is in the list of its directory once; a name finds the entry that its rule says; `..` leads home |
| **formatted output** `bwio.c` | a digit buffer, a pointer to the arguments | `printi`, `printli`, `print`, `myAtoi` | the arguments are those of the caller, the digits those of the number, and they stay in the buffer |
| **time accounts** `rtosmain.c`, `micros.c`, `interrupts.c` | a 64-bit counter in two words, four 64-bit accounts per task | `systemTimerISR`, `getSystemTimerMicros`, the accounting of the loop | no torn read; each microsecond is charged once |
| **stacks** `task.c`, `cpu.c` | `stackBase`, `maxStackSize`, an area for each descriptor | `reinitializeTd`, `cpuCreateTask`, `taskStackOverflow` | no task writes in the area of another; who needs more than its area is killed |
| **board and start-up code, debug printing** | none that the kernel reads again | — | not modelled |

How they interact. A task runs until it traps (`SVC`), is preempted by the tick,
or is stopped by a device interrupt. The loop of `rtos_main` then looks at its
stack, handles the call or the interrupt (`kernelTasks`), puts the task back with
`schedulerAdd` and picks the next with `schedule`. Two tasks interact only
through the kernel: a call of one changes the descriptor of the other. All the
services are tasks that use the calls and nothing else. The command tree and the
formatted output are plain C inside one task: an executor owns its tree, and
`print` works on the stack of whoever calls it. The time counter is shared by the
handler of a timer and everything else.

What is hard: the kernel turn is atomic, but *between* turns anything may run, so
the queues are built by turns of many tasks in an order nobody chose; a task may
exit, be killed, and its slot be given away while others are linked to it or
name it; a descriptor holds the data of a blocked call that another task
completes; an interrupt can stop a task at any instruction and wake another in
the same turn. `PROJECT.json` lists these hazards with the line where each bites
and the property that covers it.

## The modules

| module | what it is |
|---|---|
| `BlockingCalls` | the promise of the calls, without descriptors: a mailbox (sequence of senders) per task, a line of waiters per event |
| `Kernel` | the kernel: every trap and interrupt as one action over descriptors, queries and pointers |
| `KernelRefinement` | the mapping that reads the pointers of `Kernel` as the sequences of `BlockingCalls` |
| `ReadyQueue` | `scheduler.c` as operators on a record of heads, tails and links |
| `PrjOS` | the kernel loop: `Kernel` with the choice of the next task made by `ReadyQueue` |
| `Programs` | tasks as programs over `BlockingCalls`: a label per task, one call or one return per step |
| `NameServer` | `init.c`, the name server, `prjWhoIs` and `prjRegisterAs` |
| `Registry` | the promise of the last two: an atomic map from names to tasks |
| `SerialDriver` | the driver, its polling task, its readers and writers, the UART |
| `CommandLine` | the UI task with its line, its courier and the executors, over what they see of the driver |
| `CommandDirectory` | the promise of the command tree: entries in the order in which they were bound, no name twice in a directory |
| `CommandTree` | the records of `baseCli.c` with their links, binding and dispatch |
| `Printf` | `print` from conversion to conversion: where an argument is read, what is put out, where in the buffer; `myAtoi` |
| `TimeAccounts` | the counter, its handler store by store, and the accounting of the loop load by load |
| `ContextSwitch` | the memory of the stacks, the registers and the three handlers, under a kernel reduced to how a call ends |
| `KernelProofs` | types; lemmas on linked lists, the invariant of the queues, delivery to the addressee; results are neither dropped nor early |
| `RefinementProofs` | `Kernel` implements `BlockingCalls`; the loop implements `Kernel`, so all that is proved of it holds of the loop; the ready lists |
| `NameServerProofs` | the registry is sound, clients start after the server is known, somebody is always ready, `NameServer` implements `Registry` |
| `SerialProofs` | the driver forgets nobody and loses no character |
| `CommandProofs` | the line is what was typed, no circle of Sends; the links are right, lookups are those of `CommandDirectory`, and so is the rest while names differ |
| `PrintfProofs` | arguments are found in regular formats only, what is printed is what the C standard says, stays in the buffer and is read back |
| `TimeProofs` | no torn read, no system time, every microsecond charged once |
| `ContextSwitchProofs` | the registers of tasks and kernel survive a switch, the fifth parameter, overflow |
| `MC*` | what the tasks do and how often slots are given away, per instance; `MCKernelTime` adds the claim about kernel time with a history variable |

`Kernel` state against the code: `current` is the task in user mode (a local of
`rtos_main`); `state`, `gen` (upper bits of `taskId`), `priority`, `sendQueueHead`,
`sendQueueTail`, `sendQueueNext` are the fields of `TaskDescriptor`; `call` is what
a blocked `SystemCall` leaves in its parameters for its partner (whom it names,
message and buffer lengths); `ret` is `returnValue` and, where the call hands one
back, the identifier it stores for the caller; `waitingTid`, `eventId`,
`nextQuery`, `eventQueueHead`, `eventQueueTail` are `EventData`. In C the slots of
one table are addressed by pointers; here a pointer is the slot number or `Null`.

Each action is one turn of the loop up to the next dispatch: trap, the `case` of
`handleSyscall`, the `sys_*` function with all its calls, and the state the task
is left in. Error exits are actions of their own (`SendRefused`,
`ReceiveRefused`, `ReplyRefused`, `AwaitEventRefused`, `CreateFails`), separated
where the code leaves the caller in a different state. `Dispatch` is
`kernelToTask`, `Preempt` the tick, `DeviceInterrupt` a handler that reaches
`sys_eventHappened`, `Overflow` the turn in which the loop kills the task.

That a turn is one step is what the code arranges: the kernel entry sets BASEPRI
to 0x20, which holds back the tick, the devices and the timer of the 64-bit
counter (all of them have priority 0x20 or less urgent), and it is lowered again
only by the context switch to a task. So no handler runs in the kernel.

What tasks do is left open in `Kernel`: `Ops[i]` gives the calls that the task in slot `i`
may make, and it may make them in any order and with any argument a task could
hold (`KnownTids`: every identifier that was ever handed out, one of generation
0, one beyond the table). In the proofs `Ops` is arbitrary.

**The services** stand on `BlockingCalls`, not on `Kernel`: by the mapping of
`KernelRefinement` the one implements the other, which is checked and proved
(`KernelKeepsPromise`), so a service need not carry descriptors. A
task is a program: `pc[t]` is where it stands, and a step is either the trap of a
call (`Send`, `Receive`, `Reply`, `AwaitEvent`, `Start`, with whatever it computed
just before) or the return of it (`Returns`, with whatever the task computes up to
its next call). No other task can see what is computed between two calls.

- `NameServer`: `nameEntries`, `sender`, `replyOperation`, `returnValue` are the
  locals of `nameserverEntry`, `nameserverTid` the field of `KernelData`; each `case`
  of its switch is one or more actions (`RegisterNew`, `RegisterTooLong`,
  `RegisterAgain`, `RegisterNoSpace`, `WhoIsFound`, `WhoIsNotFound`, `Quit`,
  `Invalid`), `BootStep` is `initTask`. `Result` is how `whois.c` and `registerAs.c`
  turn the reply into their return value, unsigned comparisons included.
- `SerialDriver`: `blocked` is `blockedCharTid`, `other` and `ch` are locals of the
  driver; each `case` of `processMessage` is an action. The body of
  MESSAGE_CHARACTER_RECEIVED is three (`Acknowledge`, `Look`, `Serve`), since it
  calls `prjReply` twice and others run in between. The UART (`fifo`, `irq`,
  `Arrive`, `GetChar`) is modelled from how the driver uses it; `Interrupt` is its
  handler, which calls `sys_eventHappened`. `other`, `ch` and the characters in
  reply buffers are cleared when they are dead.
- `CommandLine`: `line_` (the name `line` is taken), `cursor`, `command`,
  `commandExecutorTid` are the locals of `serialUITask`. What it does about a
  message is several calls with computations between them; `todo` lists what is
  left of them, so `UiPuts`, `UiAnswers`, `Shorten`, `ClearLine`, `HandOver` come in
  the order of the code. `typed` is a history variable: the text that the keys
  alone describe. The driver is reduced to its clients' view: it answers the
  polling task and writers, answers a reader at once or keeps it, and serves it
  after the polling task.

**The parts below the services** have no calls in them.

- `CommandTree`: `name`, `fv`, `parent_dir`, `next_entry`, `link2subdir`, `cmd_list`
  are the fields of `cli_record_t`, one function on records each, with `Garbage`
  where nobody has written; `list` is `global_cmd_list`. `cli_bind_entry`, `cli_mkcmd`
  and `cli_mkdir` have a disjunct per exit; `FindHere`, `FindBuiltIn` and `FindGlobal` are
  the three searches of `cli_find_cmd`. A loop that walks along a pointer is `Met`:
  the least set that has the first pointer and is closed under the link, except
  behind the record at which the loop breaks off. A walk that goes in a ring meets
  neither such a record nor the end of the list, and the action that needs one of
  them is then not enabled: the loop does not end. `bound` is a history
  variable, the sequence of what was bound; it is at the same time the state of
  `CommandDirectory`, so the refinement mapping is the identity.
- `Printf`: `varg` is the pointer of `print` (as an index of words behind the pointer
  to the format), `before` the number of arguments in front of that pointer, `stack` what the caller put there by the calling standard,
  `read` where the arguments handled so far were read, `text` what came out, `low` the lowest
  index of `print_buf` that was written. A step is one conversion. `Formats` are
  the formats *with* the arguments the caller gives.
- `TimeAccounts`: `low` and `high` are the two words of `systemMicroCount`; the handler
  stores one after the other (`StoreLow`, `StoreHigh`), and whoever reads the
  counter disables the interrupt, loads one, loads the other and enables it
  (`Disable`, `LoadLow`, and the action that uses `Got`). `pc` is the point of
  `rtos_main`; the time accounts have the names of the fields of `TaskDescriptor`.
  Between any two of these steps the handler may start if nothing holds it back.
  `ticks` and `forgotten` are history variables.
- `ContextSwitch`: `mem` is what is on the stacks, in cells; a cell stands for a group of
  registers that is always moved as one (R0; R1-R3 with R12, LR, PC and xPSR; R4-R11;
  EXC_RETURN; S0-S15), and `regs`, `lr`, `psp`, `msp` are the same groups in the
  processor. `Stacks` and `Resume` are what the processor does at an exception and at the return from it;
  `lazy` is the address at which it still has to store S0-S15, `fpca` the bit that tells
  that the running code has used the unit. `taskToKernel`, `hwContextSwitch` and
  `kernelToTask` are the handlers, each one step: SVC has the highest priority, and
  all interrupts have the same lower one (`initInterrupts`), so no handler interrupts another.
  What comes meanwhile is taken when a task is resumed (`TailChain`). The loop has two
  stages, before `schedule` and behind the switch. A call is answered, blocks, ends or
  creates, and an interrupt or a call may end that of another task: module `Kernel` has which.
  `own` is a history variable: the registers as each task left them, but for R0,
  which its call sets, and how much it has pushed.

## What is abstracted

- Message contents: a message is its length, and what the copy does is decided by
  the two lengths (`Fits`). `Lens` is the set of lengths; 0 is a legal one for the
  message but not for the reply buffer.
- `call[t]` is cleared when `t` is made ready, and `ret[t]` when `t` has been
  dispatched. The code leaves the old values behind until the next trap
  overwrites them and reads neither in between.
- The generation is a natural number. In C it has 20 bits; `GenLimit[i]` stops
  `Create` before slot `i` is given away once more, far below the wrap. It is an
  assumption of the actions, hence of the proofs, with any natural value.
- `parentId`, `nameserverTid`, the times and counters, stacks and register frames
  are left out of `Kernel` (`TimeAccounts` has the times, `ContextSwitch` the stacks). GetTid, GetParentTid, WhoIs-nameserver, MetaInfo and Micros then
  change nothing and return at once: each is a `Yield`.
- In the services, messages have a kind and a size, and what is checked of them are
  names, identifiers and characters. Characters in `SerialDriver` are numbered as
  they arrive. Names in `NameServer` are values, some of them too long (beyond 32
  characters by at most two, which still fits the query); the empty name, which
  would match unused entries, is left out. `returnValue` before its first assignment is
  `Garbage`, a value of its own, and its use is left open (`ReturnsAnything`).
- In `CommandLine` a character is a letter, a backspace, Enter or another one, chosen
  when the UI task looks at it. What a command does is: put out texts, then redraw.
  `SerialDriver`'s writers do not follow their text to the UART.
- In `CommandTree` a name is a value; `Stored` says what a record keeps of it, so that
  two names may be cut to the same. That a longer one is first copied whole, past
  the end of its field and into `fv`, which is written next, is left out, and so are the
  arguments behind a command, the separation of words, and what is printed in
  which columns. A command does not bind.
- `Printf` has few bits: 5 in place of 32, with a buffer of 4 in place of 12, so
  that every number can be tried in every conversion. Text between the conversions,
  `%c`, `%f` (which nothing uses), `%X` and flags in another order than `-0` are left
  out. A string is null or a text of one character; where it is in memory is
  not modelled.
- In `TimeAccounts` which task is ready, exits or is created is left open. The timer has
  one pending bit, as in the chip: a kernel turn longer than a period loses
  the others, and the counter runs late; the properties are about the counter, not
  about physical time. `contextSwitchCount` is left out.
- In `ContextSwitch` a task pushes at most `Depth[t]` cells, and a popped cell is cleared, which no
  code depends on. The two words in which the fifth and sixth parameter
  are (behind what the compiler pushes) are one cell on top of the stack, and what a call
  does with them is not followed. Of a new stack the six dummy words (`cpu.c:81`) are one cell as well:
  that the displacement of eight or nine words stays inside them rests on the frames that the
  compiler makes for the functions of `syscall/*.c`, which are not modelled. `systemTimerISR` returns to where it came from with no more than the
  frame of the processor, and is left out. The alignment of addresses to words is left out. `schedule`
  may choose any ready task.
- An interrupt nobody waits for is forgotten by `sys_eventHappened`, the same step
  as `Preempt`.
- A task whose stack is too deep is found at its next turn; which turn that is, is
  left open.

## Runs

| run | question | instance | distinct states |
|---|---|---|---|
| `kernel` | are mailboxes, identifiers, queries, outcomes and ready lists right, under preemption and interrupts anywhere, while tasks exit, are killed and replaced? | the init task, one that exits, and a micro-task that is killed and whose slot is given away twice; two queries for three waiters, two kinds of events; two priorities, liveness under weak fairness | 231 647 |
| `nameserver` | do the library calls behave as an atomic map, and return? | two clients, two names and one too long, two entries; EXIT, invalid and short queries | 152 749 |
| `serial` | is every character kept and every client served? | two clients, two characters, a FIFO of one; QUIT, odd sizes (0, 1, 6, 518) | 112 807 |
| `command_line` | is the line what was typed, and does nobody block for ever? | one executor, lines of two letters, any number of keys | 229 905 |
| `command_tree` | do the linked records behave as a directory, whatever is bound, refused and asked in any order? | three records, three names: a built-in word, and one that is cut to another | 13 333 |
| `printf` | does `print` find its arguments and put out the right text in its buffer? | five bits, every number in every conversion and width; every order of up to five arguments, with and without one in front of the format | 141 536 |
| `time` | is the counter read whole, and each microsecond charged once? | two tasks, a low word of 5 values, ticks of 2, six ticks: it wraps twice | 838 282 |
| `context` | does everybody go on with their own registers and stack? | two regular slots of six cells and a micro slot of five; task 0 creates, task 1 uses the floating-point unit, task 2 exits and may overflow by a cell | 4 654 285 |
| `exit_reuse` | does `schedule` find a ready task, as its comment says, when the slot of a task that exited is given away? | three slots, each given away twice | stops at the counterexample |
| `duplicate_names` | is a second entry of one name refused, as the comment in `cli_bind_entry` says? | that of `command_tree` | stops at the counterexample |
| `kernel_time` | is kernel time counted for a system call, as the comment in `rtos_main` says? | that of `time`, with a history variable | stops at the counterexample |
| `floats` | are floating-point registers saved and restored, as the comment in `contextSwitch.asm` says? | that of `context`, two tasks that use the unit | stops at the counterexample |

Why these bounds are enough to mean something. In `kernel` two senders on one mailbox tell
its orders apart, two waiters on one event likewise, and three waiters exhaust the pool of two
queries; a ready list of three has a front, a middle and an end. The task that receives is
the one that is killed and replaced, so senders are left in the queue of a dead task, one may
remember the identifier, and the next occupant receives. One kind of event happens and the
other does not, so a query woken from the wrong queue shows. For longer queues, more kinds
of events, messages that are cut (`Lens` has one length here; the sizes of `serial` and
`nameserver` differ), slots reused after an exit and interleavings without the scheduler, `QueuesCorrect`,
`CallsAreServed`, `MessagesReachAddressee` and `KernelKeepsPromise` have no bound. Where the
property is proved as well, the bound does not matter.

In `nameserver` two entries are enough for a full table with a client left over, for a
place behind an entry in use, and for an entry lost to a name too long. In `serial`
a FIFO of one with two characters gives overrun, a character behind another, and an
interrupt that comes while the polling task is away; the sizes are those where
the code branches (empty, shorter than a type, without text, longer than the buffer).
In `command_line` a line of four columns (prompt, two letters, NUL) has a left end,
a middle and a full line. With one executor the refusal of a second subscriber
(`Subscribe`, second branch) is written down but not reached.

In `command_tree` three records make a directory in a directory with a command in it, a
list of three entries, two entries of one name and an entry behind them. In `printf` five bits are
enough for a number that is its own negation, for several digits in base 10 and 16, and
for longs that are longer than the buffer; up to five arguments give every
pattern of aligned and shifted longs. In `time` a low word of five values and ticks of
two give a carry at two different remainders, with six ticks between any of the steps.

In `context` a frame of four cells, with one above it for a parameter, fills a micro
stack; a regular one has a cell more, which either a pushed one or the floating-point
registers take. So stacks are full to the last cell, and the lowest one, under which there is
nothing but `Slack`, goes one beyond. Only one task uses the floating-point unit there, and it makes no call with five
parameters and does not exit: `floats` and a note below are what happens otherwise.

`MCKernel` and `MCContextSwitch` have TLC confirm that their instances meet the hypotheses
of the theorems about the ready lists and the context switch (see [proofs](#proofs)).

`ReadyQueue` runs with `MaxPriority = 2`: two levels show that a ready task
behind blocked ones is found before a less urgent one.

In `kernel` slot 1, the one whose task calls `prjExit`, is given away only once
(`MCGenLimit`); slot 2, whose task is killed, is given away twice. So the
run covers reuse after a kill and not reuse after an exit. The latter breaks the
lists: `exit_reuse` shows it, and a statement of `ListsWellFormed` for it would be
false of this code. `SlotsRetired` in `PrjOS` states the restriction, and the theorems
about the lists have it as a hypothesis.

`command_tree` and `time` permute the records and the tasks, which nothing tells apart
and over which no property is temporal beyond a step. In the others no symmetry
is used: slots differ in their operations, and the lowest free one is taken.

**Deadlock.** `command_tree`, `time` and `context` check it: the user can always enter a line, the
loop always goes on, and task 0 of `context` never blocks. The configurations of the kernel and the services
say `CHECK_DEADLOCK FALSE`, because the tasks of an instance may all block or exit; in
the code `schedule()` then returns 0 and the loop spins, with the interrupts held back, for ever.
That this does not happen is what `SomebodyReady` says of the boot and of what comes
after it, where `init.c` has its place. `printf` stops at the end of the format.

**Fairness.** `PrjSpec` has `WF(PrjNext)` only: the loop of `rtos_main` is `while (1)`,
and a task in user mode is always stopped again, since `cpuPreemptionTimerEnable()`
arms the tick before each switch. No fairness is asked of a task's own calls.
`NoStarvation` holds under it because a list is served from the front and refilled at
the back. It speaks of a task that stays ready: none ceases to be so, or changes its priority, before it runs. It is stated for priority 0 since a less urgent task may wait for ever, by
design. The services have weak fairness of each task's steps and of its returns: all
of them are created with priority 0 and `NoStarvation` says that a ready task
of that priority runs. A pending interrupt is taken, for the masks are dropped with
each switch to a task. That characters arrive, keys are typed or clients
ask is not assumed.

**Mutants.** Every property of a passing run has a *broken variant* in the module it
is about (a comment names it so): a queue whose tail is not moved, a generation not
advanced, a Receive that does not look at its queue, a task put back at its old
priority. With the variant in place of the definition, the run finds the
property violated.

What each property says, in a sentence:

- `TypeOK` – fields keep to their C types; the task in user mode is schedulable.
- `IdentifiersOK` – no blocked call names an identifier still to be handed out.
- `SendQueueOK` – from head to tail, the links go through exactly the tasks blocked on a
  Send to the present occupant of the slot, once each.
- `ReceiverQueueEmpty` – a task waiting in Receive has nobody queued. `sys_send` resets
  the head of such a queue unseen.
- `EventQueueOK` – queries in use and tasks in AwaitEvent correspond one to one, and each
  event's links go through its queries. `sys_eventHappened` uses the result of `findTd`
  without a test.
- `NoOutcomeForPreempted` – nothing is stored for a preempted task, whose R0 the
  switch does not write.
- `BlockedUntilServed` – RCVD_BLK leads to RPLY_BLK only, RPLY_BLK ends by a Reply,
  SEND_BLK with a sender that now awaits the reply, EVT_BLK by the event.
- `DeliveredToAddressee` – a received message was sent to the task that receives it,
  whatever became of earlier occupants.
- `KeepsPromise` – `Kernel` implements `BlockingCalls`.
- `ListsWellFormed`, `LiveTasksListed`, `MostUrgentFirst`, `NoStarvation` – the
  scheduler, as in the table of components.

- `ServerKnown` – no client runs before the kernel knows the name server: the init task
  waits for the echo of its ping.
- `SomebodyReady` – at every point of the boot and after it a task is ready, so that the
  loop never spins with the interrupts held back.
- `RegistryOK` – entries in use come first, a name is in one of them, none is too long.
- `KeepsRegistry` – `NameServer` implements `Registry`: each call returns what was
  true at one instant while it was open, stale `returnValue`s notwithstanding.
- `CallsReturn`, `RequestsAnswered` – each call to the servers returns while they run,
  but for the requests they drop (`Unanswered`).
- `CharactersKept` – a character that came is in exactly one place: lost to a full
  FIFO, in it, in the driver, in a reply, or read; each reader has its characters in order.
- `NobodyForgotten` – whoever waits for the driver is the one in hand or the
  subscriber, and the subscriber is a task that waits for a character.
- `ReaderServed` – a waiting reader gets a character that is there. It is stated for
  interrupts that found the polling task in AwaitEvent. Without that it is false: an
  interrupt that comes while the polling task is on its way is dropped by
  `sys_eventHappened`, and the character waits in the FIFO for the next one.
- `LineKept` – between two keys the line is the prompt, what the keys have typed, and
  NULs; what is handed over is that text.
- `NoCircle` – in no set of tasks does each wait, in a Send, for one of the set.
- `EverybodyReturns` – the courier's Send to the UI task and the executor's redraw end.
- `LinksKept` – the links of each directory go through its entries in the order in which
  they came, those of the global list through all commands, and the two never mix.
- `WayHome` – `..` leads from everywhere to the root, and no directory is in itself.
- `LookupsKept` – every line that is typed is answered as `CommandDirectory` says: a name means
  an entry here that has it, built-in words come after entries, the newest command is behind a
  `!`, listings are complete; a bind that is refused changes nothing. The answer names the line it
  belongs to, so that one word's answer does not pass for another's. Which of two entries
  of one name is meant here, the promise does not say.
- `KeepsDirectory` (violated) – `CommandTree` implements `CommandDirectory`, which refuses a
  name that is in the directory already.
- `ArgumentsRead` – every argument is read where the caller put it *if and only if* the
  format is regular: longs last, an even number of words before them. What stands
  in front of the format counts: it is nothing in `bwprintf`, a buffer in `bwsprintf` and the tree in
  `cliprintf`, so that `bwprintf("%lu", v)` is right and `bwsprintf(out, "%lu", v)` reads a word too far on. All
  formats of the program are regular; its longs are single ones in `bwprintf`.
- `TextRight` – a regular format with small longs and without `-0` comes out as the C
  standard says.
- `StaysInside` – an int never leaves the buffer, a long does from `BufLen` characters on.
- `ReadBack` – an identifier that was printed and is typed again is the same identifier.
- `ReadsRight` – what a task is told is the time of all interrupts handled so far.
- `MicrosCharged` – every microsecond is charged once, to the task that ran. What
  the kernel takes is not lost either: its interrupt waits until the next task runs,
  and is charged to it.
- `SyscallTimeCounted` (violated) – when the timer has run out while a call was handled, the
  system time of the task that called grows.
- `TaskUndisturbed` – a task goes on with the registers and the stack it had, whatever
  came in between, and R0 is what its call returned, or what it had if it made none.
- `KernelUndisturbed` – `prjTaskSwitch` keeps R4-R11 of the kernel, and returns 0 just when
  the task made a call.
- `ParametersRead` – the fifth parameter of a task without floating-point registers is the one it passed, and what is read
  lies in its stack, even if the task is new and passed none.
- `OverflowKilled` – a task that is not running is KILLED just when its frame
  did not fit.
- `ScheduleFindsReady` (violated) – `schedule` comes back with a task if one is ready.
- `FloatsKept` (violated) – a task goes on with its floating-point registers.

## Where the code and its comments disagree

1. **Reusing the descriptor of a task that called `prjExit` damages a list**
   (`rtosmain.c:259`, `scheduler.c:65`). `hasExited` is asked before the call is handled, so
   it sees the state before the exit and the task goes back in a ready list, against
   the comment of the other branch ("Not adding task to scheduler - it has quit").
   When `createTask` takes the descriptor, `schedulerAdd` gets a node that is already
   linked: the tasks behind it are cut off or the list becomes a ring, and `schedule`
   comes back with nothing, or never, although a task is ready (`ScheduleFindsReady`).
   Without such a reuse, and with priorities that have a list, the comment is proved right (`ScheduleReturnsTask`).
2. **Floating-point registers get mixed up** (`cpu.c:36`). The comment in `contextSwitch.asm:122` says that
   the exception "also saves the floating point context if required (and restores it
   too)". With `MAP_FPULazyStackingEnable()` the processor only reserves the place
   for S0-S15, and stores them before the next instruction of the unit. The handlers execute
   none, so after a switch from one task that has used the unit to another, the
   return to the latter finds the store still pending and takes the registers as they are for its own (`FloatsKept`).
   S16-S31 are not saved by anyone.
   The store may also come later than the task lives: if a task that has used the unit exits, or
   is killed, and its slot is taken again, the next instruction of the unit stores its registers
   in the stack of the new task, over whatever is there by then. The theorems about the context
   switch therefore assume `FloatsStay`.
3. **A directory takes two entries of one name** (`baseCli.c:258`). The comment of the test says "do
   not allow duplicate names within the same subdirectory" (line 267) and `RC_CLI_DUPLICATE` is there
   for it. The loop ends when `next_entry` is null, before its body has looked at that entry,
   so a name equal to that of the last entry is bound once more (`KeepsDirectory`). In the directory
   only the older of the two is found then, behind a `!` the newer one. As long as no directory gets two entries of one
   name, the promise is proved right (`TreeKeepsDirectory`), and the answers to what is
   typed are right in any case (`LookupsStay`). Binding the last
   record again would link it to itself; the walks of `list_directory` would not end. The
   executor binds each of its records once, and `Application` assumes this.
4. **System time is always 0** (`rtosmain.c:224`). The comment at line 246 says "Only count the kernel time here
   if we did a syscall; if it is a regular HW interrupt then it doesn't count for the current
   task". The counter of microseconds is advanced by the handler of its timer alone, and BASEPRI holds
   that back from the entry of the kernel until a task runs again. So both readings
   are the same and nothing is counted for a call either (`SyscallTimeCounted`); the line
   "Task Time - System" of the task command (`commandExecutor.c:134`) always says 0. The tick that waits meanwhile becomes
   user time of the task that runs next (`MicrosCharged`). `KernelTimeUncharged` is what the code does instead,
   proved as `NoSystemTime`; the proof of `MicrosCharged` rests on it.

These four are runs. What follows was read in the code while it was translated; the
modules have it as the code has it, and where a property depends on it, its statement says so.

- **A failed Create does not return** (`rtosmain.c:97`). With no free descriptor the error
  is stored but the caller is not made ready; the same with a null buffer in
  `receive.c`. The error codes of the two calls (`syscall.h:57`) say that they are told.
  `CreateFails` and `ReceiveRefused` leave the caller in SYSCALL_BLK.
- **The fifth parameter of a task that has used the floating-point unit** (`contextSwitch.asm:204`). The
  offsets 100 and 104 are those behind a frame without floating-point registers. The
  frame is "increased by 18 items" otherwise, as the comment at line 128 says, and the kernel
  gets words from inside the frame. `prjSend` has its `replyLen` there. `ParametersRead` is
  false when `Floats` and `Long` have a task in common.
- **No call reports an exited partner.** `syscall.h:65`, "The other task has exited
  before this request could be completed", is never returned: `send.c:117` blocks the
  sender, and nobody looks for it when the partner exits.
- **The priority test is never true.** `create.c:47` asks `priority < 0 && priority >=
  TASKS_MAX_PRIORITY` of an unsigned number; `scheduler.c:62` relies on it ("Not
  checking priority - it should be enforced further up") and indexes `queueTails`.
- **`prjWhoIs` reports an unknown name as a wrong server.** The name server answers -1
  (`nameserver.c:119`); `whois.c:80` asks `value > 0` of an unsigned number, so -1 is
  returned as it is, which is `ERR_WHOIS_INVALID_TID` and not `ERR_WHOIS_NOT_FOUND`
  (`syscall.h:89`).
- **A long has the buffer of an int.** `printli` (`bwio.c:114`) has an array of 22 but
  fills it from `PRINT_BUF_LEN - 1`, which is 11: a long with 12 characters or more runs below
  the array. `StaysInside` has the exact limit. The number that can grow so large
  is the time in microseconds, after 10^11 of them, which is 27.8 hours.
- **A long is read one word too far on.** `print` takes the word at `varg` for padding, reads
  the two behind it and goes on by two. `ArgumentsRead` says for which formats this is right: in
  `bwprintf` for others than in `bwsprintf` and `cliprintf`.
- **`-0` pads with zeros on the right**, so that 5 in `%-03d` is 500. `TextRight` leaves it out.

## Proofs

Every safety and action property that a passing run checks is proved for all values of
the constants; what is left to TLC alone is liveness (the end of this section). Each
component's theorems follow from its named assumption (`KernelAssumption`,
`NameServerAssumption`, ...: counts are naturals, tables are functions on slots, and
the like). Some need more, and what they need is
not true of every program the code accepts; it is a hypothesis of the theorem, by name:

| hypothesis | theorems about | why the code needs it |
|---|---|---|
| `SlotsRetired`: the slot of a task that exits is not given away again | ready lists | disagreement 1 above |
| `NamesDistinct` at every step: no directory has two entries of one name | `TreeKeepsDirectory` | disagreement 3 above |
| `PrioritiesExist`: tasks ask for priorities that have a list | ready lists | the test in `create.c:47` is never true |
| `StacksFit`: a frame fits in every area, and so does what a task pushes, but for the lowest area, which has some cells below it | context switch | the test for overflow comes when the neighbour is already overwritten |
| `FloatsStay`: tasks that use the floating-point unit do not exit | context switch | disagreement 2 above, the late store |
| `FloatsCallShort`: they make no calls with five parameters | the fifth parameter | the offsets in `contextSwitch.asm:204` |
| `OneFloats`: only one task uses the unit | `OneTaskKeepsFloats` | disagreement 2 above |

In `Kernel` all this holds for arbitrary `NTasks`, `NMicro`, `MaxPriority`, `NumEvents`, `NumTypes`,
`Devices`, `GenLimit`, `Lens`, `PriorityArgs` and `Ops`.

**Lists.** `Linked(S, head, tail, next)` says that some enumeration of the finite set
`S` without repetition is what the links spell out. `KernelProofs` first proves what
list code does to it, apart from any kernel: an empty list (`ListEmpty`), where the
ends are (`ListEnds`), links outside the list do not matter (`ListKept`), an element
that is not in it is appended (`ListPush`), the head is taken (`ListPop`). The
enumeration is what makes the invariant inductive: "every member has a
predecessor, the tail has no successor" also fits a list with a detached ring.

**The invariant.** `QueueInv` is `TypeOK /\ IdentifiersOK /\ SendQueueOK /\
ReceiverQueueEmpty /\ EventQueueOK`. The parts need one another:
`SendQueueOK` alone is not kept by `SendDirect`, which sets a head to `Null`; it needs
`ReceiverQueueEmpty`. `ReceiveQueued` trusts the head, so it needs `SendQueueOK`
to know that the head is blocked on this very task. `Create` empties
the queue of the slot it takes; the senders of the last occupant stop being `Senders`
because the generation moves on, and nobody is yet blocked on the new
identifier because of `IdentifiersOK`. An interrupt needs `EventQueueOK` to know that
the query's identifier resolves to a task in EVT_BLK. Most actions are `Quiet`: they
change neither queues nor who is blocked on whom, and `QuietKeeps` covers them at once.

**Outcomes.** `OutcomeInv` adds that the running task has no outcome left. Each user step
is shown to be `Considerate`: what it does to other tasks is `ServedOnly`, and it stores
nothing for a preempted one. Whoever is made ready besides the caller is the head
of a queue, and `QueueInv` says in which call it is blocked. From this
`OutcomesDelivered` and `CallsAreServed` follow.

**The loop.** `TurnIsKernelStep`: a step of `PrjNext` is a step of `Next`, whatever the
lists look like. So `PrjSpec => Spec`, and the queues stay intact
under the real scheduler, damaged lists included (`LoopKeepsQueues`).

**The ready lists.** `ReadyInv` says what each list holds, with `Linked` in place of a walk:
exactly the tasks of its level that are present and not running, blocked ones and new ones
included, and one that has exited too, since the loop puts it back once more and
`schedule` never takes it out. The three operations are lemmas about any lists of this kind: `schedulerAdd`
appends a task that is in none, `schedule` takes out the first ready one, wherever it
stands, and passes over the others. Then each turn of the loop adds and takes just the
tasks whose membership changes; `SlotsRetired` is used where `Create` makes a task
present that must not be linked already, `PrioritiesExist` where it gets its level. A task that is in
no list is running, and that two lists share none follows from the
priorities being a function. `ListsStayWellFormed`, `TasksStayListed`, `UrgentTasksFirst` and
`ScheduleReturnsTask` are read off: that a walk along a list comes to its end is `Linked`
once more.

**The promise.** `KernelKeepsPromise` is `Spec => KeepsPromise`: with the pointers read as
sequences, every action of `Kernel` is a step of `BlockingCalls` or none. `Chain`, which
reads them, is a recursive function, so two things have to be shown of it:

- The enumeration that `Linked` speaks of is unique (`BehindUnique`) and is what the
  chain spells out (`ChainRuns`). Both need a least position at which something goes
  wrong. `LeastMember` gives it: every nonempty set of naturals has a least member,
  because strict inclusion of finite sets is well-founded and the sets of
  the numbers below a member are finite. That takes the place of an induction.
- What list code does to a chain: nothing, if no link of it is written (`ChainKept`);
  append (`ChainPush`); drop the head (`ChainPop`). From these follow the effects
  on a mailbox (`MailPush`, `MailPop`, `MailEmptied`) and on an event's line
  (`LinePush`, `LinePop`).

Each action then maps to its step by `QueueInv` and `OutcomeInv`. TOO_SMALL of AwaitEvent
depends on how many queries are free in the code and on how many tasks wait in the
promise; `QueriesAreTasks` has the bijection. Together with `PrjSpec => Spec` this
gives `LoopKeepsPromise`.

**The name server.** `RegistryIsSound` and `ServerIsKnown` hold for any number of entries,
names and clients, from `NameServerAssumption`. `RegistryInv` adds to `RegistryOK` the
types of the table (`Shape`) and that an open query names a name that may be asked
(`QueriesOK`); the point of the proof is that the loop of REGISTER stops at the first
place that is empty or has the name, and that no entry behind the first empty one is
in use, so it stops at an old entry before it could take a second (`EntryTaken`,
`EntryGoesTo`). `BootInv` follows the boot: `Booting` says which tasks exist at each
label of the init task, `Announced` that once the server is past its start, and
hence once it has replied to anyone, the kernel knows it. `SomebodyIsReady` needs more
of the mailboxes: `ReadyInv` adds the stages of the boot (the init task is ready; its
ping waits in the mailbox of the server, which is on its way to Receive; its ping
is received and the server on its way to Reply), and that until the application
starts nobody else sends anything, so the ping is the first in the mailbox and the
server cannot block before it has answered. After that the init task never blocks again.

`RegistryIsKept` is `ServerSpec => KeepsRegistry`. `AnswerInv` follows a query: whoever is in
the mailbox of the server waits in its Send, once (`MailOK`); whose message the server has in
its hands awaits the reply (`HandOK`); a client that waits has no reply yet, and one that
goes on after a query has one (`ClientOK`). So a call is pending in `Registry` exactly until
the server handles it: each disjunct of `Handle` is the taking effect of the one call in the
hands of the server, sending a query is `Ask`, looking at the answer is `Return`, and every
other step changes nothing that `Registry` sees. That a name has one entry gives the
owner (`Owners`). When it is full is a matter of counting: the named entries are in bijection
with the names that have an owner (`AsManyNames`), the others in use are the lost ones, and a
subset of the entries with as many members is all of them (`FullMeansNoneEmpty`).

**The serial driver.** For any number of clients and characters, any messages and any depth
of the FIFO, from `SerialAssumption`. `ServedInv` makes `NobodyForgotten` inductive: `SetUp`
says that until the driver answers the application only the application can have sent to
it, so that its first message is no request; `MailOK` that whoever is in the driver's
mailbox is in its Send, once, so that a request is never taken twice; `HandOK` that the
request in hand is of a task that awaits the reply, and where the driver can be blocked;
`LettersOK` that a message other than the polling task's is of a client in a call,
hence that the subscriber is a client and not the application at its start. Every step
either takes a request (`TakesServed`), answers one (`GivesServed`), or is a call whose
effect is spelled out once (`StartServed`, `SendServed`, `ReceiveServed` and the polling
task's). `CharInv` orders the characters: those with readers or on their way to them came
before the one that the driver has, and that one before those in the FIFO (`OrderOK`). So
a character that moves is newer than all that its reader has, and it is in one
place because the places hold different stretches of the order (`OneHolder`); a reply buffer
is not overwritten because its client awaits a reply only while the buffer is empty
(`AnswersOK`).

**The command line.** For any length of the line and any number of executors, from
`CommandLineAssumption`. `LineInv` lists what the UI task may have left to do about a
message: `Chores` leave the line alone, so it must be clean already; in `Wiping`, the
end of a backspace, it is right before the cursor, and the NUL comes with `Shorten`;
in `Closing`, the end of an Enter, the text is in `command`. `CircleInv` has two
halves. `MailInv` says that whoever is in a mailbox is in a Send to its owner, once, which
the lemmas about the calls keep (`SendBegins`, `ReceiveFrees`, `ReplyFrees`,
`CollectFrees`). The other half says to whom each program may send. Only the UI
task and the courier send to each other: the UI task does it once, to a courier that is
then newly created and has not sent anything. So the Sends have no circle.

**The command tree.** All of its properties are proved, for any finite or infinite set
of records, names and functions: `TreeInv` says of every link whose record it has to be, in
terms of the history `bound` (`Follows`: the oldest entry of the directory that is
younger; `Precedes`: the newest command that is older). What a walk meets is a least
closed set, so two arguments are enough and no induction along the list is needed: the
walk stays in any closed set that has its start (`MetInClosed`), hence among the
entries up to the first hit (`EntriesClosed`, `CommandsClosed`); and it gets to an entry
because a closed set that misses it would have a last entry before it whose link
leads out. From that `HitHere`, `MissHere`, `ListHere` and their global
counterparts say what each search finds. So each lookup is a step of `CommandDirectory` (`LookupsStay`), and each
bind is one too if it makes no duplicate (`TreeKeepsDirectory`). `WayHome` is proved in the same way, over the binding order.

**Time.** `TimeInv` is `CounterRight` (what the two words say, with what the handler has
not stored yet, is `Tick * ticks`), `Masks` (the mask is on exactly outside a task,
and the handler runs only without it) and `Entered` (an entry time of system time that
is not 0 is the present time). A read is then in one piece because the handler cannot
start between its loads (`GotIsNow`), and the difference that `AccountSystem` adds is 0.
`EveryMicroCharged` is about a sum over the tasks, which a fold defines. The fold is a recursive function on
finite sets (`TotalHas`); that a change in one place changes the sum by as much
(`TotalAdds`) follows from a least subset at which it would not (`LeastSubset`). The invariant
`Charged` says up to when the tasks have been charged: up to the entry of the running
task, or up to now while the kernel runs.

**The context switch.** `IInv` follows the registers of each task around: they are in the
processor while it runs (`InUser`), half on its stack and half in the processor while a
handler is entered or left (`Entered`), and on its stack while it rests (`Resting`). Those of the kernel are
on the kernel's stack while a task or a handler has the processor (`CurrentOK`), and back
in it afterwards (`KernelOK`). A step writes only in the area of the running task, above its limit by
`StacksFit`, and areas do not meet (`AreaFacts`, `Apart`), so the others keep what they
have. The exception is the store of floating-point registers that is still to come:
`LazyOK` says that it goes to the cell that is kept free for it in the frame of the
task that used the unit, which therefore has to stay (`FloatsStay`). `OverflowKilled` is a
part of `IInv`: a suspended task is KILLED just when its frame is longer than its area.

**Formatted output.** For formats of any length, any width of a word and any
array that holds an int, from `PrintfAssumption` (which 32 bits and 12 characters meet).
What `print` computes is recursive over numbers, and the provers know nothing of `^`, so
the module has its own `Power`. `RecursionOnNat` shows once that recursion to smaller
numbers defines a function, `FirstOf` that a set of numbers has a least one; the rest are
arguments about a first counterexample. The loop that divides by the base leaves the digits
`(n \div base^j) % base`, as many as the number needs (`DigitsSpell`, `SpellsLength`), which is the
shortest numeral (`DigitsNumeral`). `ReadInv` says where arguments were read up to now; in a
regular format the words are counted through (`RegularCounts`), and a format in which every
argument is read at its place is regular (`ReadRegular`). `TextInv` adds that what was put
out is the conversion of what was read, or that the number left the array. With that
`PrintedAsStandard` is a comparison of two layouts (`NumberStandard`), `NumbersStayInside` one of
lengths (`LowestRight`), and `PrintedIsReadBack` says what the loop of `myAtoi` has after each
character: the number divided by a power of ten (`ReadsUp`).

**Only model-checked**: `NoStarvation`, `CallsReturn`, `ReaderServed`, `RequestsAnswered` and
`EverybodyReturns`. They are liveness under fairness, which needs ENABLED and is out of reach of
the prover. Out of its reach are also the induction theorems of the library, which take an
operator; least counterexamples take their place everywhere above. No module here has a
RECURSIVE operator. The four disagreements that are runs stay with TLC by their nature.

## Not modelled

- **Calls that only read** (`getTid.c`, `getParentTid.c`, `metaInfo.c`): they change no
  state another task can see. In `Kernel` each is a `Yield`; `prjGetMonotonicMicros` is in
  `TimeAccounts`.
- **The test of the kernel's own stack** (`checkKernelStack`): it stops the system for ever,
  and how deep the kernel goes does not depend on what tasks do.
- **What an overflow does to the neighbour.** The test comes at the next trap of the task that is
  too deep, when the cells of the next area are already overwritten; one that comes back
  before its trap is not noticed at all. Nothing in the code could keep the neighbour intact, so
  in `context` only the lowest stack overflows.
- **Board and processor set-up, start-up code, linker scripts**: registers written once, in
  vendor code mostly. What the kernel needs of them (priorities, masks, the two
  timers) is in `TimeAccounts` and in the atomicity of a turn.
- **Debug printing** (`debug.c`): output only.
- **The wrap of the generation** (20 bits): the identifiers of a slot repeat after 2^20 - 1
  tasks in it. `GenLimit` keeps `Create` below. A model in which it wraps would violate
  `DeliveredToAddressee` as the code does, and says nothing that the width does not.
- **Characters of `print` on their way to the UART**: writing waits for
  the FIFO in a loop and has no other effect.

## Plan

Order of work: what all tasks depend on first, then the services, then the pure parts.

1. *Done*: `Kernel`, `BlockingCalls`, `KernelRefinement`, `ReadyQueue`, `PrjOS`, their proofs.
2. *Done*: `NameServer`, `Registry`, `NameServerProofs`; `SerialDriver`, `SerialProofs`; `CommandLine`.
3. *Done*: `CommandDirectory`, `CommandTree`, `CommandProofs`.
4. *Done*: `Printf`, `PrintfProofs`; `TimeAccounts`, `TimeProofs`.
5. *Done*: `ContextSwitch`, `ContextSwitchProofs`; that the line is kept and no circle of Sends exists,
   for any number of executors; `KeepsPromise`, for the kernel and for its loop; `KeepsRegistry`; the
   ready lists.
6. Open: `SerialDriver` and `CommandLine` have no abstract specification of a whole call, as
   `Registry` is for the name server. The safety half of `ReaderServed` (an interrupt is pending or the
   polling task is on its way whenever a character waits) could be an invariant of its own.
