---------------------------- MODULE ContextSwitch ----------------------------
(***************************************************************************)
(* How control passes between the kernel and the tasks: the frames that    *)
(* the processor and contextSwitch.asm put on the stacks, the areas that   *)
(* task.c gives to them, and the test for overflow in rtos_main.           *)
(* A cell of memory stands for a group of registers that is moved as one:  *)
(* r0; rest (R1-R3, R12, LR, PC, xPSR); callee (R4-R11); the LR of the     *)
(* handler (EXC_RETURN); fp (S0-S15).  What the kernel does with a call is *)
(* in module Kernel; here a call is answered, blocks, ends or creates.     *)
(***************************************************************************)
EXTENDS Integers, Sequences

CONSTANTS
  Regular, Micro,       \* KERNEL_NUMBER_OF_TASKS, KERNEL_NUMBER_OF_MICROTASKS
  KernelSize, RegularSize, MicroSize,   \* sizes of the stacks, in cells
  Slack,        \* cells below the lowest stack
  Depth,        \* Depth[t]: how many cells task t may push
  Blocking,     \* the tasks whose calls may block
  Mortal,       \* those that may exit
  Creating,     \* those that may create others
  Floats,       \* those that use the floating-point unit
  Long          \* those that make calls with five parameters

NumTasks == Regular + Micro
Slots == 0 .. NumTasks - 1
stack_top == Slack + KernelSize + Regular * RegularSize + Micro * MicroSize
Addresses == 0 .. stack_top - 1

ASSUME ContextAssumption ==
  /\ {Regular, Micro, KernelSize, RegularSize, MicroSize, Slack} \subseteq Nat
  /\ Regular > 0 /\ KernelSize > 0 /\ Depth \in [Slots -> Nat]
  /\ Blocking \cup Mortal \cup Creating \cup Floats \cup Long \subseteq Slots

VARIABLES
  mem,          \* the cells of the stacks
  psp,          \* the stack pointer of the task in user mode
  msp,          \* what is on the stack of the kernel during a task switch
  regs,         \* r0, rest, callee, fp
  lr,           \* EXC_RETURN: where the handler returns to, with which frame
  fpca,         \* the running code has used the floating-point unit
  lazy,         \* where fp is still to be stored (LSPACT, FPCAR), or Nowhere
  mode,         \* what the processor executes
  stage,        \* where the loop of rtos_main is
  current,      \* currentTask
  td,           \* the task descriptors
  own           \* history: the registers as each task left them, or as its
                \*   call has changed them, and what it has pushed

hardware == <<psp, msp, regs, lr, fpca, lazy, mode>>
vars == <<mem, hardware, stage, current, td, own>>

Kernel == NumTasks
Word(group, t, v) == <<group, t, v>>
Zero == Word("zero", 0, 0)
Dead == Word("dead", 0, 0)      \* what is in a cell that has been popped
None == Word("none", 0, 0)
Nowhere == -1
Outcome(t) == Word("ret", t, 1)
ToTask(f)   == Word("lr", "task", f)
ToKernel(f) == Word("lr", "kernel", f)
-----------------------------------------------------------------------------
(* The areas of the stacks.                                                *)

REGULAR == 1
MICRO == 2
IsRegular(i) == i < Regular

Offset(i) ==
  KernelSize + IF IsRegular(i) THEN i * RegularSize
               ELSE Regular * RegularSize + (i - Regular) * MicroSize

\* At boot the place follows from the index, later it is kept.
Area(i) ==
  [type |-> IF IsRegular(i) THEN REGULAR ELSE MICRO, base |-> stack_top - Offset(i)]

SizeOf(type) == IF type = REGULAR THEN RegularSize ELSE MicroSize

reinitializeTd(a) ==
  [type |-> a.type, base |-> a.base, sp |-> a.base, size |-> SizeOf(a.type),
   state |-> "INVALID", ret |-> Zero, param |-> Zero]

FrameLen == 4

createdSp(b) == b - 1 - FrameLen

\* The first frame of a task, below the place of a fifth parameter.
cpuCreateTask(m, b, t) ==
  LET sp == createdSp(b) IN
  [m EXCEPT ![sp] = Word("callee", t, 1), ![sp + 1] = ToTask(FALSE),
            ![sp + 2] = Word("r0", t, 1), ![sp + 3] = Word("rest", t, 1),
            ![sp + 4] = Zero]

isTdAvailable(t) == td[t].state \in {"INVALID", "EXITED", "KILLED"}

FirstFree(t) ==
  /\ isTdAvailable(t)
  /\ \A u \in Slots : u < t /\ isTdAvailable(u) => td[u].type # td[t].type

\* A task begins with the result of the call that it never made in R0.
Newborn(t, r) ==
  [r0 |-> r, rest |-> Word("rest", t, 1), callee |-> Word("callee", t, 1),
   fp |-> None, pushed |-> 0, param |-> None]

created(d, r) ==
  [d EXCEPT !.sp = createdSp(d.base), !.state = "RUNNING", !.ret = r]

Init ==
  /\ LET tds == [t \in Slots |-> reinitializeTd(Area(t))] IN
     /\ mem = cpuCreateTask([a \in Addresses |-> Dead], tds[0].base, 0)
     /\ td = [tds EXCEPT ![0] = created(@, Outcome(0))]
  /\ own = [t \in Slots |-> Newborn(t, Outcome(0))]
  /\ psp = stack_top /\ msp = <<>>
  /\ regs = [r0 |-> Zero, rest |-> Word("rest", Kernel, 1),
             callee |-> Word("callee", Kernel, 0), fp |-> None]
  /\ lr = ToKernel(FALSE) /\ fpca = FALSE /\ lazy = Nowhere
  /\ mode = "kernel" /\ stage = "schedule"
  /\ current = 0
-----------------------------------------------------------------------------
(* A task in user mode.                                                    *)

InTask(t) == mode = "task" /\ current = t
Other(w) == [w EXCEPT ![3] = 3 - @]

\* It computes with its registers.
Compute(t) ==
  /\ InTask(t)
  /\ LET v == 3 - regs.rest[3]
         Changed(r) == [r EXCEPT !.r0 = Word("r0", t, v), !.rest = Word("rest", t, v),
                                 !.callee = Word("callee", t, v)]
     IN regs' = Changed(regs) /\ own' = [own EXCEPT ![t] = Changed(@)]
  /\ UNCHANGED <<mem, psp, msp, lr, fpca, lazy, mode, stage, current, td>>

\* A floating-point instruction first stores what is still to be stored.
Float(t) ==
  /\ InTask(t) /\ t \in Floats
  /\ LET new == IF own[t].fp = None THEN Word("fp", t, 1) ELSE Other(own[t].fp)
     IN regs' = [regs EXCEPT !.fp = new] /\ own' = [own EXCEPT ![t].fp = new]
  /\ mem' = IF lazy = Nowhere THEN mem ELSE [mem EXCEPT ![lazy] = regs.fp]
  /\ lazy' = Nowhere /\ fpca' = TRUE
  /\ UNCHANGED <<psp, msp, lr, mode, stage, current, td>>

Push(t) ==
  /\ InTask(t) /\ own[t].pushed < Depth[t]
  /\ psp' = psp - 1
  /\ mem' = [mem EXCEPT ![psp - 1] = Word("local", t, own[t].pushed + 1)]
  /\ own' = [own EXCEPT ![t].pushed = @ + 1]
  /\ UNCHANGED <<msp, regs, lr, fpca, lazy, mode, stage, current, td>>

Pop(t) ==
  /\ InTask(t) /\ own[t].pushed > 0
  /\ psp' = psp + 1
  /\ mem' = [mem EXCEPT ![psp] = Dead]
  /\ own' = [own EXCEPT ![t].pushed = @ - 1]
  /\ UNCHANGED <<msp, regs, lr, fpca, lazy, mode, stage, current, td>>
-----------------------------------------------------------------------------
(* Exceptions.  SVC has the highest priority and all interrupts the same   *)
(* lower one, which the kernel masks: a handler runs in one piece.         *)

Hardware(f) == IF f THEN 3 ELSE 2       \* cells of the frame of the processor

\* The frame of the task; fp has a place in it but is stored only later.
Stacks(handler) ==
  /\ psp' = psp - Hardware(fpca)
  /\ mem' = [mem EXCEPT ![psp'] = regs.r0, ![psp' + 1] = regs.rest]
  /\ lr' = ToTask(fpca)
  /\ lazy' = IF fpca THEN psp - 1 ELSE lazy
  /\ fpca' = FALSE /\ mode' = handler
  /\ UNCHANGED <<msp, regs, stage, current, td>>

\* A call of one parameter or of five; the fifth is on top of the stack.
Call(t) ==
  /\ InTask(t)
  /\ Stacks("contextSwitch")
  /\ \/ own' = [own EXCEPT ![t].param = None]
     \/ /\ t \in Long /\ own[t].pushed > 0
        /\ own' = [own EXCEPT ![t].param = Word("local", t, own[t].pushed)]

\* The tick or a device.
Interrupt(t) ==
  InTask(t) /\ Stacks("hwContextSwitch") /\ UNCHANGED own

\* An interrupt that came while the kernel ran is taken when a task is resumed,
\* before the task goes on, and finds the frame of the task where it was.
TailChain ==
  /\ mode = "resume" /\ mode' = "hwContextSwitch"
  /\ UNCHANGED <<mem, psp, msp, regs, lr, fpca, lazy, stage, current, td, own>>

\* The rest of the registers goes on the stack of the task t, which the kernel
\* has left with its own registers on its stack; there the reason is put in R0.
SaveTask(t, new, reason) ==
  /\ mem' = [mem EXCEPT ![psp - 2] = regs.callee, ![psp - 1] = lr]
  /\ td' = [td EXCEPT ![t] = [new EXCEPT !.sp = psp - 2]]
  /\ regs' = [regs EXCEPT !.callee = msp[1], !.r0 = reason, !.rest = msp[4]]
  /\ lr' = msp[2] /\ msp' = <<>> /\ mode' = "kernel" /\ stage' = "back"
  /\ UNCHANGED <<psp, fpca, lazy, current, own>>

Switched == msp[3][2]       \* the descriptor that the kernel gave in R0

\* Broken variant: the LR of the handler is forgotten.
ParameterBelow(sp) == sp + FrameLen - 1

\* Where the fifth parameter is, behind a frame without floating point.
ParameterAt(sp) == sp + FrameLen

taskToKernel ==
  /\ mode = "contextSwitch"
  /\ LET t == Switched IN
     SaveTask(t, [td[t] EXCEPT !.state = "SYSCALL_BLK", !.ret = Zero,
                               !.param = mem[ParameterAt(psp - 2)]], Zero)

\* Broken variant: as for a call.
hwAsCall ==
  /\ mode = "hwContextSwitch"
  /\ LET t == Switched IN SaveTask(t, [td[t] EXCEPT !.state = "HWINT"], Zero)

hwContextSwitch ==
  /\ mode = "hwContextSwitch"
  /\ LET t == Switched IN
     SaveTask(t, [td[t] EXCEPT !.state = "HWINT"], Word("IPSR", Kernel, 1))
-----------------------------------------------------------------------------
(* The loop of rtos_main.                                                  *)

\* Broken variant: a stack that is just full counts as one that is too large.
OverflowWhenFull(d) == d.base - d.sp >= d.size

taskStackOverflow(d) == d.base - d.sp > d.size

\* The kernel has its result in R0 and handles it before it schedules.
Handles ==
  /\ stage = "back" /\ stage' = "schedule"
  /\ UNCHANGED <<hardware, current>>

Kill ==
  /\ taskStackOverflow(td[current]) /\ Handles
  /\ td' = [td EXCEPT ![current].state = "KILLED"]
  /\ UNCHANGED <<mem, own>>

Returned(t) == [td[t] EXCEPT !.state = "RUNNING", !.ret = Outcome(t)]

\* The calls that end now: that of the current task, of another one, or both.
Answered(ts) ==
  /\ td' = [t \in Slots |-> IF t \in ts THEN Returned(t) ELSE td[t]]
  /\ own' = [t \in Slots |->
               IF t \in ts THEN [own[t] EXCEPT !.r0 = Outcome(t)] ELSE own[t]]
  /\ UNCHANGED mem

Blocked == {t \in Slots : td[t].state = "BLOCKED"}
AtMostOne(S) == {{}} \cup {{t} : t \in S}

Syscall(t) ==
  /\ td[t].state = "SYSCALL_BLK"
  /\ \/ \E us \in AtMostOne(Blocked) : Answered({t} \cup us)
     \/ /\ t \in Blocking /\ td' = [td EXCEPT ![t].state = "BLOCKED"]
        /\ UNCHANGED <<mem, own>>
     \/ /\ t \in Mortal /\ td' = [td EXCEPT ![t].state = "EXITED"]
        /\ UNCHANGED <<mem, own>>

\* The creator gets the result of its call, the new task starts with 0.
Create(t, n) ==
  /\ td[t].state = "SYSCALL_BLK" /\ t \in Creating
  /\ FirstFree(n)
  /\ mem' = cpuCreateTask(mem, td[n].base, n)
  /\ td' = [td EXCEPT ![t] = Returned(t), ![n] = created(reinitializeTd(@), Zero)]
  /\ own' = [own EXCEPT ![n] = Newborn(n, Zero), ![t].r0 = Outcome(t)]

kernelTasks ==
  /\ ~taskStackOverflow(td[current]) /\ Handles
  /\ \/ /\ regs.r0 = Zero
        /\ Syscall(current) \/ \E n \in Slots : Create(current, n)
     \/ regs.r0 # Zero /\ \E us \in AtMostOne(Blocked) : Answered(us)

\* Broken variant: R0 is written whatever the task was interrupted by.
R0Always(t) == td[t].ret

\* What a task finds in R0: the result of its call, or what it had.
R0(t) == IF td[t].state = "HWINT" THEN mem[td[t].sp + 2] ELSE td[t].ret

\* The kernel has the task in a register of its own.
CurrentTask(t) == Word("callee", Kernel, t)

\* prjTaskSwitch and the handler of its SVC, up to the return to the task.
kernelToTask(t) ==
  /\ mode = "kernel" /\ stage = "schedule" /\ td[t].state \in {"RUNNING", "HWINT"}
  /\ LET sp == td[t].sp IN
     /\ msp' = <<CurrentTask(t), ToKernel(fpca), Word("td", t, 1), regs.rest>>
     /\ regs' = [regs EXCEPT !.callee = mem[sp]]
     /\ lr' = mem[sp + 1]
     /\ mem' = [mem EXCEPT ![sp] = Dead, ![sp + 1] = Dead, ![sp + 2] = R0(t)]
     /\ psp' = sp + 2
  /\ mode' = "resume" /\ fpca' = FALSE /\ current' = t
  /\ UNCHANGED <<lazy, stage, td, own>>

\* The return from the exception.  When fp is still to be stored, for whichever
\* task, it counts as that of the task that returns.
Resume ==
  /\ mode = "resume"
  /\ LET f == lr[3] IN
     /\ regs' = [regs EXCEPT
          !.r0 = mem[psp], !.rest = mem[psp + 1],
          !.fp = IF f /\ lazy = Nowhere THEN mem[psp + 2] ELSE @]
     /\ lazy' = IF f THEN Nowhere ELSE lazy
     /\ psp' = psp + Hardware(f) /\ fpca' = f
     /\ mem' = [a \in Addresses |-> IF a \in psp .. psp' - 1 THEN Dead ELSE mem[a]]
  /\ mode' = "task"
  /\ UNCHANGED <<msp, lr, stage, current, td, own>>
-----------------------------------------------------------------------------
Next ==
  \/ \E t \in Slots :
       \/ Compute(t) \/ Float(t) \/ Push(t) \/ Pop(t)
       \/ Call(t) \/ Interrupt(t) \/ kernelToTask(t)
  \/ TailChain \/ taskToKernel \/ hwContextSwitch
  \/ Kill \/ kernelTasks \/ Resume

Spec == Init /\ [][Next]_vars
-----------------------------------------------------------------------------
(* What the kernel relies on and cannot enforce.                           *)

\* Below the lowest stack there are some more cells.
Room(t) ==
  SizeOf(Area(t).type) + IF t = NumTasks - 1 /\ t \notin Floats THEN Slack ELSE 0

\* The stacks hold the first frame, and what the tasks push with a frame: the
\* test for overflow comes after the cells are written, so only the lowest may
\* be too small.
StacksFit ==
  \A t \in Slots :
    /\ 1 + FrameLen <= SizeOf(Area(t).type)
    /\ 1 + Depth[t] + FrameLen + (IF t \in Floats THEN 1 ELSE 0) <= Room(t)

\* A task that uses the floating-point unit stays: its registers may still be
\* to be stored when another task has got the stack.
FloatsStay == Floats \cap Mortal = {}

\* It makes no calls with five parameters: its frame is longer than ParameterAt
\* allows for.
FloatsCallShort == Floats \cap Long = {}
-----------------------------------------------------------------------------
\* A task goes on with the registers and the stack that it had, whatever other
\* tasks and interrupts came in between; only R0 is that of its call
\* (contextSwitch.asm, the areas of reinitializeTd).
TaskUndisturbed ==
  mode = "task" =>
    LET o == own[current]  top == td[current].base - 1 IN
    /\ regs.r0 = o.r0 /\ regs.rest = o.rest /\ regs.callee = o.callee
    /\ psp = top - o.pushed
    /\ \A k \in 1 .. o.pushed : mem[top - k] = Word("local", current, k)

\* prjTaskSwitch returns to the kernel like any function: R4-R11 are kept, and
\* its result is 0 just when the task that it went to has made a call.
KernelUndisturbed ==
  mode = "kernel" =>
    /\ regs.callee = CurrentTask(current)
    /\ regs.rest = Word("rest", Kernel, 1)
    /\ stage = "back" => (regs.r0 = Zero <=> td[current].state = "SYSCALL_BLK")

\* The kernel finds the fifth parameter of a call, which is on "the stack before
\* the exception" (contextSwitch.asm), and never reads from another's stack.
ParametersRead ==
  stage = "back" /\ td[current].state = "SYSCALL_BLK" =>
    /\ own[current].param # None => td[current].param = own[current].param
    /\ ParameterAt(td[current].sp) < td[current].base

\* What the stack of a task holds when the task is not running.
Used(t) == 1 + own[t].pushed + FrameLen + IF own[t].fp = None THEN 0 ELSE 1

Suspended(t) ==
  /\ td[t].state \notin {"INVALID", "EXITED"}
  /\ t = current => mode = "kernel" /\ stage = "schedule"

\* A task is killed just when its frame did not fit in its stack: one that uses
\* the last cell lives (taskStackOverflow, rtos_main).
OverflowKilled ==
  \A t \in Slots : Suspended(t) =>
    (td[t].state = "KILLED" <=> Used(t) > SizeOf(Area(t).type))

\* The floating-point registers of a task are kept as well: the exception "saves
\* the floating point context if required (and restores it too)".
FloatsKept ==
  mode = "task" /\ own[current].fp # None => regs.fp = own[current].fp
=============================================================================
