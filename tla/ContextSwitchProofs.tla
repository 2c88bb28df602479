------------------------- MODULE ContextSwitchProofs -------------------------
(***************************************************************************)
(* A task that is interrupted goes on as if it had not been, and so does   *)
(* the kernel when a task has run: proofs of TaskUndisturbed,              *)
(* KernelUndisturbed, ParametersRead and OverflowKilled, for any number of *)
(* tasks and any sizes of the stacks in which the tasks fit.               *)
(*                                                                         *)
(* The inductive invariant follows the registers of a task around: they    *)
(* are in the processor while it runs, half on its stack while a handler   *)
(* is entered or left, and on its stack while it rests.  Nobody else       *)
(* writes there, since the areas of the stacks do not meet; the one store  *)
(* that comes later, that of the floating-point registers, goes to a cell  *)
(* that is kept free for it.                                               *)
(***************************************************************************)
EXTENDS ContextSwitch, TLAPS

-----------------------------------------------------------------------------
(* The areas of the stacks.                                                *)

Base(t) == Area(t).base
Low(t) == Base(t) - Room(t)

\* Multiplication by a natural number is monotonic.
LEMMA Monotonic ==
  ASSUME NEW i \in Nat, NEW j \in Nat, NEW r \in Nat, i <= j
  PROVE  i * r <= j * r
  <1>1. PICK d \in Nat : j = i + d
    <2> WITNESS j - i \in Nat
    <2> QED OBVIOUS
  <1>2. j * r = i * r + d * r
    BY <1>1
  <1>3. i * r \in Nat /\ d * r \in Nat
    OBVIOUS
  <1> QED BY <1>2, <1>3

\* What is between the tops of two stacks, and below the last one.
LEMMA OffsetFacts ==
  ASSUME NEW t \in Slots
  PROVE  /\ SizeOf(Area(t).type) \in Nat /\ Offset(t) \in Nat
         /\ Offset(t) >= KernelSize
         /\ \A u \in Slots : t < u => Offset(u) >= Offset(t) + SizeOf(Area(t).type)
         /\ Base(t) = stack_top - Offset(t)
         /\ stack_top \in Nat
         /\ Base(t) - SizeOf(Area(t).type) >= Slack
  <1> USE ContextAssumption DEF ContextAssumption
  <1> DEFINE s == SizeOf(Area(t).type)
  <1>0. t \in Nat /\ t < Regular + Micro
    BY DEF Slots, NumTasks
  <1>1. s = IF t < Regular THEN RegularSize ELSE MicroSize
    BY DEF SizeOf, Area, IsRegular, REGULAR, MICRO
  <1>2. ASSUME NEW i \in Nat PROVE i * RegularSize \in Nat /\ i * MicroSize \in Nat
    OBVIOUS
  <1>3. Offset(t) \in Nat /\ Offset(t) >= KernelSize
    BY <1>0, <1>2 DEF Offset, IsRegular
  <1>4. /\ (t + 1) * RegularSize = t * RegularSize + RegularSize
        /\ t >= Regular => ((t - Regular) + 1) * MicroSize
                             = (t - Regular) * MicroSize + MicroSize
    BY <1>0
  <1>5. t < Regular => (t + 1) * RegularSize <= Regular * RegularSize
    BY <1>0, Monotonic
  <1>6. t >= Regular => ((t - Regular) + 1) * MicroSize <= Micro * MicroSize
    BY <1>0, Monotonic
  <1>7. ASSUME NEW u \in Slots, t < u PROVE Offset(u) >= Offset(t) + s
    <2>0. u \in Nat /\ u < Regular + Micro
      BY DEF Slots, NumTasks
    <2>1. u < Regular => (t + 1) * RegularSize <= u * RegularSize
      BY <1>0, <1>7, <2>0, Monotonic
    <2>2. t >= Regular => ((t - Regular) + 1) * MicroSize <= (u - Regular) * MicroSize
      BY <1>0, <1>7, <2>0, Monotonic
    <2>3. CASE u < Regular
      BY <1>0, <1>1, <1>2, <1>4, <1>7, <2>0, <2>1, <2>3 DEF Offset, IsRegular
    <2>4. CASE t < Regular /\ u >= Regular
      <3>1. (u - Regular) * MicroSize \in Nat
        BY <1>2, <2>0, <2>4
      <3> QED
        BY <1>0, <1>1, <1>2, <1>4, <1>5, <2>0, <2>4, <3>1 DEF Offset, IsRegular
    <2>5. CASE t >= Regular
      BY <1>0, <1>1, <1>2, <1>4, <1>7, <2>0, <2>2, <2>5 DEF Offset, IsRegular
    <2> QED BY <1>0, <2>0, <2>3, <2>4, <2>5
  <1>8. stack_top \in Nat /\ Base(t) = stack_top - Offset(t)
    BY <1>2 DEF stack_top, Base, Area
  <1>9. Base(t) - s >= Slack
    <2>1. Regular * RegularSize \in Nat /\ Micro * MicroSize \in Nat
      BY <1>2
    <2>2. CASE t < Regular
      BY <1>0, <1>1, <1>2, <1>4, <1>5, <1>8, <2>1, <2>2
      DEF stack_top, Offset, IsRegular
    <2>3. CASE t >= Regular
      BY <1>0, <1>1, <1>2, <1>4, <1>6, <1>8, <2>1, <2>3
      DEF stack_top, Offset, IsRegular
    <2> QED BY <1>0, <2>2, <2>3
  <1> QED BY <1>1, <1>3, <1>7, <1>8, <1>9

\* The areas do not meet, and each has room for the first frame.
LEMMA AreaFacts ==
  ASSUME StacksFit, NEW t \in Slots
  PROVE  /\ Base(t) \in Nat /\ Base(t) < stack_top /\ stack_top \in Nat
         /\ Low(t) \in Nat /\ Low(t) + 1 + FrameLen <= Base(t)
         /\ SizeOf(Area(t).type) \in Nat /\ Room(t) \in Nat
         /\ Low(t) .. Base(t) - 1 \subseteq Addresses
         /\ \A u \in Slots \ {t} : Base(u) <= Low(t) \/ Base(t) <= Low(u)
  <1> USE ContextAssumption DEF ContextAssumption
  <1>1. Base(t) \in Nat /\ Base(t) < stack_top /\ stack_top \in Nat
    <2>1. /\ Offset(t) \in Nat /\ Offset(t) >= KernelSize /\ stack_top \in Nat
          /\ Base(t) = stack_top - Offset(t) /\ SizeOf(Area(t).type) \in Nat
          /\ Base(t) - SizeOf(Area(t).type) >= Slack
      BY OffsetFacts
    <2> QED BY <2>1
  <1>2. SizeOf(Area(t).type) \in Nat /\ Room(t) \in Nat
    BY OffsetFacts DEF Room
  <1>3. Low(t) \in Nat
    <2>1. SizeOf(Area(t).type) \in Nat /\ Base(t) - SizeOf(Area(t).type) >= Slack
      BY OffsetFacts
    <2> QED BY <1>1, <2>1 DEF Low, Room
  <1>4. Low(t) + 1 + FrameLen <= Base(t)
    <2>1. Depth[t] \in Nat
      OBVIOUS
    <2>2. 1 + Depth[t] + FrameLen <= Room(t)
      BY <1>2, <2>1 DEF StacksFit, FrameLen
    <2> QED BY <1>1, <1>2, <2>1, <2>2 DEF Low, FrameLen
  <1>5. ASSUME NEW u \in Slots, NEW v \in Slots, u < v
        PROVE  Base(v) <= Low(u)
    <2>1. u \in Int /\ v \in Int /\ v <= NumTasks - 1 /\ NumTasks \in Int
      BY DEF Slots, NumTasks
    <2>2. Room(u) = SizeOf(Area(u).type)
      <3>1. SizeOf(Area(u).type) \in Nat
        BY OffsetFacts
      <3> QED BY <1>5, <2>1, <3>1 DEF Room
    <2>3. /\ Offset(v) >= Offset(u) + SizeOf(Area(u).type)
          /\ Offset(u) \in Nat /\ SizeOf(Area(u).type) \in Nat /\ stack_top \in Nat
          /\ Base(u) = stack_top - Offset(u)
      BY <1>5, OffsetFacts
    <2>4. Base(v) = stack_top - Offset(v) /\ Offset(v) \in Nat
      BY OffsetFacts
    <2> QED BY <2>2, <2>3, <2>4 DEF Low
  <1>6. \A u \in Slots \ {t} : Base(u) <= Low(t) \/ Base(t) <= Low(u)
    <2> SUFFICES ASSUME NEW u \in Slots \ {t}
                 PROVE  Base(u) <= Low(t) \/ Base(t) <= Low(u)
      OBVIOUS
    <2>1. u \in Int /\ t \in Int /\ u # t
      BY DEF Slots
    <2> QED BY <1>5, <2>1
  <1>7. Low(t) .. Base(t) - 1 \subseteq Addresses
    BY <1>1, <1>3 DEF Addresses
  <1> QED BY <1>1, <1>2, <1>3, <1>4, <1>6, <1>7
-----------------------------------------------------------------------------
(* The inductive invariant.                                                *)

Floating(t) == own[t].fp # None
Alive == {"RUNNING", "HWINT", "BLOCKED", "SYSCALL_BLK"}
States == Alive \cup {"INVALID", "EXITED", "KILLED"}
Modes == {"kernel", "resume", "task", "contextSwitch", "hwContextSwitch"}

\* Each descriptor keeps the place of its stack; what a task has pushed and
\* whether it has used the floating-point unit is bounded by its program.
TypeOK ==
  /\ DOMAIN mem = Addresses
  /\ current \in Slots /\ mode \in Modes /\ stage \in {"schedule", "back"}
  /\ psp \in Int /\ lazy \in Int
  /\ DOMAIN regs = {"r0", "rest", "callee", "fp"}
  /\ DOMAIN td = Slots /\ DOMAIN own = Slots
  /\ \A t \in Slots :
       /\ DOMAIN td[t] = {"type", "base", "sp", "size", "state", "ret", "param"}
       /\ td[t].type = Area(t).type /\ td[t].base = Base(t)
       /\ td[t].size = SizeOf(Area(t).type) /\ td[t].sp \in Int
       /\ td[t].state \in States
       /\ DOMAIN own[t] = {"r0", "rest", "callee", "fp", "pushed", "param"}
       /\ own[t].pushed \in 0 .. Depth[t]
       /\ own[t].fp \in {None} \cup {Word("fp", t, v) : v \in {1, 2}}

\* What the task has pushed is where it was.
Locals(t) ==
  \A k \in 1 .. own[t].pushed : mem[Base(t) - 1 - k] = Word("local", t, k)

\* The task rests: its registers are in the frame on its stack, R0 there or, for
\* the result of a call, in the descriptor.
Resting(t) ==
  LET sp == Base(t) - Used(t) IN
  /\ td[t].sp = sp
  /\ mem[sp] = own[t].callee /\ mem[sp + 1] = ToTask(Floating(t))
  /\ mem[sp + 3] = own[t].rest
  /\ td[t].state = "HWINT" => mem[sp + 2] = own[t].r0
  /\ td[t].state = "RUNNING" => td[t].ret = own[t].r0
  /\ Locals(t)

\* A handler has been entered or is about to be left: half of the registers are
\* in the frame.
Entered(t) ==
  LET sp == Base(t) - Used(t) + 2 IN
  /\ psp = sp
  /\ mem[sp] = own[t].r0 /\ mem[sp + 1] = own[t].rest
  /\ regs.callee = own[t].callee /\ lr = ToTask(Floating(t))
  /\ fpca = FALSE
  /\ Locals(t)

InUser(t) ==
  /\ psp = Base(t) - 1 - own[t].pushed
  /\ regs.r0 = own[t].r0 /\ regs.rest = own[t].rest /\ regs.callee = own[t].callee
  /\ fpca = Floating(t)
  /\ Floating(t) => lazy = Nowhere
  /\ Locals(t)

RestingOK ==
  \A t \in Slots :
    td[t].state \in Alive /\ (t = current => mode = "kernel") => Resting(t)

\* Tasks that use the floating-point unit live, and only the current task can be
\* in a call that the kernel has not looked at.
TasksOK ==
  \A t \in Slots :
    /\ Floating(t) => t \in Floats /\ td[t].state \in Alive
    /\ td[t].state = "SYSCALL_BLK" => t = current /\ stage = "back"

\* The parameter of a call of the task is on top of what it has pushed.
Passes(t) ==
  /\ t \in Long
  /\ own[t].pushed > 0 /\ own[t].param = Word("local", t, own[t].pushed)

\* While a task or a handler has the processor, the kernel has its registers on
\* its own stack.
CurrentOK ==
  mode # "kernel" =>
    /\ stage = "schedule" /\ td[current].state \in {"RUNNING", "HWINT"}
    /\ msp = <<CurrentTask(current), ToKernel(FALSE), Word("td", current, 1),
               Word("rest", Kernel, 1)>>
    /\ mode = "task" => InUser(current)
    /\ mode # "task" => Entered(current)
    /\ mode = "contextSwitch" /\ own[current].param # None => Passes(current)

BackOK ==
  /\ td[current].state \in {"SYSCALL_BLK", "HWINT"}
  /\ regs.r0 = Zero <=> td[current].state = "SYSCALL_BLK"
  /\ td[current].state = "SYSCALL_BLK" /\ own[current].param # None =>
       current \in Long /\ (~Floating(current) => td[current].param = own[current].param)

KernelOK ==
  mode = "kernel" =>
    /\ regs.callee = CurrentTask(current) /\ regs.rest = Word("rest", Kernel, 1)
    /\ fpca = FALSE
    /\ stage = "back" => BackOK

\* The cell for the floating-point registers is in the frame of a task that does
\* not run, between the rest of the frame and what the task has pushed.
LazyAt(t) ==
  /\ Floating(t) /\ lazy = Base(t) - 2 - own[t].pushed
  /\ t = current => mode # "task"

LazyOK == lazy # Nowhere => \E t \in Slots : LazyAt(t)

IInv ==
  /\ TypeOK /\ RestingOK /\ TasksOK /\ CurrentOK /\ KernelOK /\ LazyOK
  /\ OverflowKilled
-----------------------------------------------------------------------------
(* What a step leaves alone.                                               *)

\* The frame of a task is in its area.
LEMMA UsedFacts ==
  ASSUME StacksFit, TypeOK, TasksOK, NEW t \in Slots
  PROVE  /\ own[t].pushed \in Nat /\ Used(t) \in Nat
         /\ Used(t) = 1 + own[t].pushed + FrameLen + (IF Floating(t) THEN 1 ELSE 0)
         /\ Base(t) \in Nat /\ Low(t) \in Nat
         /\ Low(t) + Used(t) <= Base(t)
  <1>1. own[t].pushed \in Nat /\ own[t].pushed <= Depth[t] /\ Depth[t] \in Nat
    BY ContextAssumption DEF ContextAssumption, TypeOK
  <1>2. Floating(t) => t \in Floats
    BY DEF TasksOK
  <1>3. Used(t) = 1 + own[t].pushed + FrameLen + (IF Floating(t) THEN 1 ELSE 0)
    BY DEF Used, Floating
  <1>4. 1 + Depth[t] + FrameLen + (IF t \in Floats THEN 1 ELSE 0) <= Room(t)
    BY DEF StacksFit
  <1>5. Base(t) \in Nat /\ Low(t) \in Nat /\ Room(t) \in Nat /\ Low(t) = Base(t) - Room(t)
    BY AreaFacts DEF Low
  <1> QED BY <1>1, <1>2, <1>3, <1>4, <1>5 DEF FrameLen

\* A step writes into the area of the task at most the cell that is kept for the
\* floating-point registers.
Kept(t) ==
  \A a \in Low(t) .. Base(t) - 1 :
    mem'[a] = mem[a] \/ (Floating(t) /\ a = Base(t) - 2 - own[t].pushed)

\* Such a step leaves a task that rests as it is.
LEMMA OthersRest ==
  ASSUME StacksFit, TypeOK, TasksOK, NEW t \in Slots, Resting(t),
         Kept(t), own'[t] = own[t], td'[t] = td[t]
  PROVE  Resting(t)'
  <1>1. /\ own[t].pushed \in Nat /\ Used(t) \in Nat
        /\ Used(t) = 1 + own[t].pushed + FrameLen + (IF Floating(t) THEN 1 ELSE 0)
        /\ Base(t) \in Nat /\ Low(t) \in Nat /\ Low(t) + Used(t) <= Base(t)
    BY UsedFacts
  <1>2. Used(t)' = Used(t) /\ Floating(t)' = Floating(t)
    BY DEF Used, Floating
  <1>3. /\ \A k \in 0 .. 3 : mem'[Base(t) - Used(t) + k] = mem[Base(t) - Used(t) + k]
        /\ \A k \in 1 .. own[t].pushed : mem'[Base(t) - 1 - k] = mem[Base(t) - 1 - k]
    <2>1. ASSUME NEW k \in 0 .. 3
          PROVE  mem'[Base(t) - Used(t) + k] = mem[Base(t) - Used(t) + k]
      <3> DEFINE a == Base(t) - Used(t) + k
      <3>1. a \in Low(t) .. Base(t) - 1
        BY <1>1 DEF FrameLen
      <3>2. Floating(t) => a # Base(t) - 2 - own[t].pushed
        BY <1>1 DEF FrameLen
      <3> HIDE DEF a
      <3>3. mem'[a] = mem[a]
        BY <3>1, <3>2 DEF Kept
      <3> QED BY <3>3 DEF a
    <2>2. ASSUME NEW k \in 1 .. own[t].pushed
          PROVE  mem'[Base(t) - 1 - k] = mem[Base(t) - 1 - k]
      <3> DEFINE a == Base(t) - 1 - k
      <3>1. a \in Low(t) .. Base(t) - 1 /\ a # Base(t) - 2 - own[t].pushed
        BY <1>1 DEF FrameLen
      <3> HIDE DEF a
      <3>2. mem'[a] = mem[a]
        BY <3>1 DEF Kept
      <3> QED BY <3>2 DEF a
    <2> QED BY <2>1, <2>2
  <1>4. Locals(t)'
    BY <1>3 DEF Locals, Resting
  <1>5. mem'[Base(t) - Used(t)] = mem[Base(t) - Used(t)]
    <2>1. Base(t) - Used(t) = Base(t) - Used(t) + 0
      BY <1>1
    <2> QED BY <1>3, <2>1
  <1> QED BY <1>1, <1>2, <1>3, <1>4, <1>5 DEF Resting

\* A step of a task or of a handler changes nothing for the other tasks.
LEMMA OthersOK ==
  ASSUME StacksFit, IInv, NEW t \in Slots, TypeOK',
         mode' # "kernel", stage = "schedule", stage' = stage, td' = td,
         current' = t, t # current => mode = "kernel",
         td[t].state \in Alive, Floating(t)' => t \in Floats,
         \A u \in Slots \ {t} : Kept(u) /\ own'[u] = own[u]
  PROVE  RestingOK' /\ TasksOK' /\ KernelOK' /\ OverflowKilled'
  <1>1. RestingOK'
    BY OthersRest DEF IInv, RestingOK
  <1>2. TasksOK'
    BY DEF IInv, TasksOK, Floating
  <1>3. OverflowKilled'
    <2> SUFFICES ASSUME NEW u \in Slots, Suspended(u)'
                 PROVE  td[u].state = "KILLED" <=> Used(u)' > SizeOf(Area(u).type)
      BY DEF OverflowKilled
    <2>1. u # t
      BY DEF Suspended
    <2>2. Suspended(u) /\ Used(u)' = Used(u)
      BY <2>1 DEF Suspended, Used
    <2> QED BY <2>2 DEF IInv, OverflowKilled
  <1>4. KernelOK'
    BY DEF KernelOK
  <1> QED BY <1>1, <1>2, <1>3, <1>4

\* Writing into the area of one task keeps those of the others.
LEMMA Apart ==
  ASSUME StacksFit, NEW t \in Slots, NEW u \in Slots \ {t},
         \A a \in Addresses : a \notin Low(t) .. Base(t) - 1 => mem'[a] = mem[a]
  PROVE  Kept(u)
  <1>1. /\ Base(t) \in Nat /\ Low(t) \in Nat /\ Base(u) \in Nat /\ Low(u) \in Nat
        /\ Base(u) <= Low(t) \/ Base(t) <= Low(u)
        /\ Low(u) .. Base(u) - 1 \subseteq Addresses
    BY AreaFacts
  <1> QED BY <1>1 DEF Kept
-----------------------------------------------------------------------------
(* The steps of a task.                                                    *)

\* A task that runs has the processor as it left it, and its stack has room.
LEMMA UserFacts ==
  ASSUME StacksFit, IInv, NEW t \in Slots, InTask(t)
  PROVE  /\ t = current /\ mode = "task" /\ stage = "schedule"
         /\ InUser(t) /\ td[t].state \in {"RUNNING", "HWINT"}
         /\ own[t].pushed \in Nat /\ own[t].pushed <= Depth[t]
         /\ Base(t) \in Nat /\ Low(t) \in Nat
         /\ Low(t) .. Base(t) - 1 \subseteq Addresses
         /\ Low(t) + Used(t) <= Base(t)
         /\ Used(t) = 1 + own[t].pushed + FrameLen + (IF Floating(t) THEN 1 ELSE 0)
  <1>1. t = current /\ mode = "task" /\ stage = "schedule"
        /\ InUser(t) /\ td[t].state \in {"RUNNING", "HWINT"}
    BY DEF IInv, CurrentOK, InTask
  <1>2. own[t].pushed \in Nat /\ own[t].pushed <= Depth[t]
    BY ContextAssumption DEF ContextAssumption, IInv, TypeOK
  <1> QED BY <1>1, <1>2, AreaFacts, UsedFacts DEF IInv

LEMMA ComputeInv ==
  ASSUME StacksFit, IInv, NEW t \in Slots, Compute(t)
  PROVE  IInv'
  <1> DEFINE v == 3 - regs.rest[3]
  <1>0. /\ t = current /\ mode = "task" /\ stage = "schedule" /\ InUser(t)
        /\ td[t].state \in {"RUNNING", "HWINT"}
    BY UserFacts DEF Compute
  <1>1. /\ DOMAIN regs' = {"r0", "rest", "callee", "fp"}
        /\ regs'.r0 = Word("r0", t, v) /\ regs'.rest = Word("rest", t, v)
        /\ regs'.callee = Word("callee", t, v)
    BY DEF Compute, IInv, TypeOK
  <1>2. /\ DOMAIN own' = Slots
        /\ DOMAIN own'[t] = DOMAIN own[t]
        /\ own'[t].r0 = Word("r0", t, v) /\ own'[t].rest = Word("rest", t, v)
        /\ own'[t].callee = Word("callee", t, v)
        /\ own'[t].fp = own[t].fp /\ own'[t].pushed = own[t].pushed
        /\ \A u \in Slots \ {t} : own'[u] = own[u]
    BY DEF Compute, IInv, TypeOK
  <1>3. UNCHANGED <<mem, psp, msp, lr, fpca, lazy, mode, stage, current, td>>
    BY DEF Compute
  <1>4. TypeOK'
    BY <1>1, <1>2, <1>3 DEF IInv, TypeOK
  <1>5. Floating(t)' = Floating(t)
    BY <1>2 DEF Floating
  <1>6. \A u \in Slots \ {t} : Kept(u)
    BY <1>3 DEF Kept
  <1>7. RestingOK' /\ TasksOK' /\ KernelOK' /\ OverflowKilled'
    BY <1>0, <1>2, <1>3, <1>4, <1>5, <1>6, OthersOK DEF IInv, TasksOK, Alive
  <1>8. InUser(t)'
    BY <1>0, <1>1, <1>2, <1>3, <1>5 DEF InUser, Locals
  <1>9. CurrentOK'
    BY <1>0, <1>3, <1>8 DEF IInv, CurrentOK, CurrentTask
  <1>10. LazyOK'
    BY <1>2, <1>3, <1>5 DEF IInv, LazyOK, LazyAt, Floating
  <1> QED BY <1>4, <1>7, <1>9, <1>10 DEF IInv

LEMMA FloatInv ==
  ASSUME StacksFit, IInv, NEW t \in Slots, Float(t)
  PROVE  IInv'
  <1>0. /\ t = current /\ mode = "task" /\ stage = "schedule" /\ InUser(t)
        /\ td[t].state \in {"RUNNING", "HWINT"}
        /\ own[t].pushed \in Nat /\ Base(t) \in Nat
    BY UserFacts DEF Float
  <1>1. /\ regs'.r0 = regs.r0 /\ regs'.rest = regs.rest /\ regs'.callee = regs.callee
        /\ DOMAIN regs' = DOMAIN regs
    BY DEF Float, IInv, TypeOK
  <1>2. /\ DOMAIN own' = Slots
        /\ DOMAIN own'[t] = DOMAIN own[t]
        /\ own'[t].r0 = own[t].r0 /\ own'[t].rest = own[t].rest
        /\ own'[t].callee = own[t].callee /\ own'[t].pushed = own[t].pushed
        /\ \A u \in Slots \ {t} : own'[u] = own[u]
    BY DEF Float, IInv, TypeOK
  <1>3. own'[t].fp \in {Word("fp", t, v) : v \in {1, 2}}
    <2>1. own[t].fp = None \/ own[t].fp = Word("fp", t, 1) \/ own[t].fp = Word("fp", t, 2)
      BY DEF IInv, TypeOK
    <2>2. /\ Other(Word("fp", t, 1)) = Word("fp", t, 2)
          /\ Other(Word("fp", t, 2)) = Word("fp", t, 1)
      BY DEF Other, Word
    <2>3. own'[t].fp = IF own[t].fp = None THEN Word("fp", t, 1) ELSE Other(own[t].fp)
      BY DEF Float, IInv, TypeOK
    <2> QED BY <2>1, <2>2, <2>3
  <1>4. Floating(t)'
    BY <1>3 DEF Floating, Word, None
  <1>5. /\ UNCHANGED <<psp, msp, lr, mode, stage, current, td>>
        /\ lazy' = Nowhere /\ fpca' = TRUE /\ t \in Floats
    BY DEF Float
  <1>6. DOMAIN mem' = DOMAIN mem
    BY DEF Float
  <1>7. TypeOK'
    BY <1>1, <1>2, <1>3, <1>5, <1>6 DEF IInv, TypeOK, Nowhere
  <1>8. \A u \in Slots \ {t} : Kept(u)
    <2> SUFFICES ASSUME NEW u \in Slots \ {t}, NEW a \in Low(u) .. Base(u) - 1,
                        mem'[a] # mem[a]
                 PROVE  Floating(u) /\ a = Base(u) - 2 - own[u].pushed
      BY DEF Kept
    <2>1. lazy # Nowhere /\ a = lazy /\ a \in Addresses
      BY AreaFacts DEF Float, IInv, TypeOK
    <2>2. PICK w \in Slots : LazyAt(w)
      BY <2>1 DEF IInv, LazyOK
    <2>3. w # t
      BY <1>0, <2>2 DEF LazyAt
    <2>4. /\ own[w].pushed \in Nat /\ Used(w) \in Nat
          /\ Used(w) = 1 + own[w].pushed + FrameLen + (IF Floating(w) THEN 1 ELSE 0)
          /\ Base(w) \in Nat /\ Low(w) \in Nat /\ Low(w) + Used(w) <= Base(w)
      BY UsedFacts DEF IInv
    <2>5. a \in Low(w) .. Base(w) - 1
      BY <2>1, <2>2, <2>4 DEF LazyAt, FrameLen
    <2>6. w = u
      <3>1. Base(u) \in Nat /\ Low(u) \in Nat
        BY AreaFacts
      <3>2. w # u => Base(u) <= Low(w) \/ Base(w) <= Low(u)
        BY AreaFacts
      <3> QED BY <2>4, <2>5, <3>1, <3>2
    <2> QED BY <2>1, <2>2, <2>6 DEF LazyAt
  <1>9. RestingOK' /\ TasksOK' /\ KernelOK' /\ OverflowKilled'
    BY <1>0, <1>2, <1>5, <1>7, <1>8, OthersOK DEF IInv, Alive
  <1>10. \A k \in 1 .. own[t].pushed : mem'[Base(t) - 1 - k] = mem[Base(t) - 1 - k]
    <2> SUFFICES ASSUME NEW k \in 1 .. own[t].pushed, lazy # Nowhere
                 PROVE  Base(t) - 1 - k # lazy
      BY DEF Float
    <2>1. PICK w \in Slots : LazyAt(w)
      BY DEF IInv, LazyOK
    <2>2. w # t
      BY <1>0, <2>1 DEF LazyAt
    <2>3. /\ own[w].pushed \in Nat
          /\ Used(w) = 1 + own[w].pushed + FrameLen + (IF Floating(w) THEN 1 ELSE 0)
          /\ Base(w) \in Nat /\ Low(w) \in Nat /\ Low(w) + Used(w) <= Base(w)
      BY UsedFacts DEF IInv
    <2>4. /\ Used(t) = 1 + own[t].pushed + FrameLen + (IF Floating(t) THEN 1 ELSE 0)
          /\ Low(t) \in Nat /\ Low(t) + Used(t) <= Base(t)
      BY UsedFacts DEF IInv
    <2>5. Base(t) <= Low(w) \/ Base(w) <= Low(t)
      BY <2>2, AreaFacts
    <2>6. lazy = Base(w) - 2 - own[w].pushed
      BY <2>1 DEF LazyAt
    <2> QED BY <1>0, <2>3, <2>4, <2>5, <2>6 DEF FrameLen
  <1>11. InUser(t)'
    BY <1>0, <1>1, <1>2, <1>4, <1>5, <1>10 DEF InUser, Locals
  <1>12. CurrentOK'
    BY <1>0, <1>5, <1>11 DEF IInv, CurrentOK, CurrentTask
  <1>13. LazyOK'
    BY <1>5 DEF LazyOK
  <1> QED BY <1>7, <1>9, <1>12, <1>13 DEF IInv

\* The floating-point registers of another task are still to be stored when the
\* task has pushed or popped something.
LEMMA LazyKept ==
  ASSUME IInv, NEW t \in Slots, InTask(t),
         UNCHANGED <<lazy, mode, current>>,
         \A u \in Slots \ {t} : own'[u] = own[u]
  PROVE  LazyOK'
  <1> SUFFICES ASSUME lazy # Nowhere PROVE \E u \in Slots : LazyAt(u)'
    BY DEF LazyOK
  <1>1. PICK u \in Slots : LazyAt(u)
    BY DEF IInv, LazyOK
  <1>2. u # t
    BY <1>1 DEF LazyAt, InTask
  <1>3. LazyAt(u)'
    BY <1>1, <1>2 DEF LazyAt, Floating
  <1> QED BY <1>3

LEMMA PushInv ==
  ASSUME StacksFit, IInv, NEW t \in Slots, Push(t)
  PROVE  IInv'
  <1>0. /\ t = current /\ mode = "task" /\ stage = "schedule" /\ InUser(t)
        /\ td[t].state \in {"RUNNING", "HWINT"}
        /\ own[t].pushed \in Nat /\ own[t].pushed < Depth[t]
        /\ Base(t) \in Nat /\ Low(t) \in Nat
        /\ Low(t) + 1 + own[t].pushed + FrameLen <= Base(t)
    <2>1. Low(t) + Used(t) <= Base(t) /\ Base(t) \in Nat /\ Low(t) \in Nat
          /\ own[t].pushed \in Nat
          /\ Used(t) = 1 + own[t].pushed + FrameLen + (IF Floating(t) THEN 1 ELSE 0)
      BY UserFacts DEF Push
    <2> QED BY <2>1, UserFacts DEF Push, FrameLen
  <1>1. psp = Base(t) - 1 - own[t].pushed /\ psp - 1 \in Low(t) .. Base(t) - 1
    BY <1>0 DEF InUser, FrameLen
  <1>2. /\ DOMAIN own' = Slots
        /\ DOMAIN own'[t] = DOMAIN own[t]
        /\ own'[t].r0 = own[t].r0 /\ own'[t].rest = own[t].rest
        /\ own'[t].callee = own[t].callee /\ own'[t].fp = own[t].fp
        /\ own'[t].pushed = own[t].pushed + 1
        /\ \A u \in Slots \ {t} : own'[u] = own[u]
    BY DEF Push, IInv, TypeOK
  <1>3. /\ UNCHANGED <<msp, regs, lr, fpca, lazy, mode, stage, current, td>>
        /\ psp' = psp - 1
    BY DEF Push
  <1>4. /\ DOMAIN mem' = Addresses
        /\ mem'[psp - 1] = Word("local", t, own[t].pushed + 1)
        /\ \A a \in Addresses : a # psp - 1 => mem'[a] = mem[a]
    BY <1>1, AreaFacts DEF Push, IInv, TypeOK
  <1>5. Depth[t] \in Nat
    BY ContextAssumption DEF ContextAssumption
  <1>6. TypeOK'
    BY <1>0, <1>2, <1>3, <1>4, <1>5 DEF IInv, TypeOK
  <1>7. \A u \in Slots \ {t} : Kept(u)
    BY <1>1, <1>4, Apart
  <1>8. Floating(t)' = Floating(t)
    BY <1>2 DEF Floating
  <1>9. RestingOK' /\ TasksOK' /\ KernelOK' /\ OverflowKilled'
    BY <1>0, <1>2, <1>3, <1>6, <1>7, <1>8, OthersOK DEF IInv, TasksOK, Alive
  <1>10. Locals(t)'
    <2> SUFFICES ASSUME NEW k \in 1 .. own[t].pushed + 1
                 PROVE  mem'[Base(t) - 1 - k] = Word("local", t, k)
      BY <1>2 DEF Locals
    <2>1. CASE k = own[t].pushed + 1
      BY <1>0, <1>1, <1>4, <2>1
    <2>2. CASE k # own[t].pushed + 1
      <3>1. k \in 1 .. own[t].pushed /\ Base(t) - 1 - k # psp - 1
        <4>1. k \in Int /\ 1 <= k /\ k <= own[t].pushed
          BY <1>0, <2>2
        <4> QED BY <1>0, <1>1, <4>1
      <3>2. Base(t) - 1 - k \in Low(t) .. Base(t) - 1
        BY <1>0, <3>1 DEF FrameLen
      <3>3. mem'[Base(t) - 1 - k] = mem[Base(t) - 1 - k]
        BY <1>4, <3>1, <3>2, AreaFacts
      <3> QED BY <1>0, <3>1, <3>3 DEF InUser, Locals
    <2> QED BY <2>1, <2>2
  <1>11. InUser(t)'
    BY <1>0, <1>1, <1>2, <1>3, <1>8, <1>10 DEF InUser
  <1>12. CurrentOK'
    BY <1>0, <1>3, <1>11 DEF IInv, CurrentOK, CurrentTask
  <1>13. LazyOK'
    BY <1>2, <1>3, LazyKept DEF Push
  <1> QED BY <1>6, <1>9, <1>12, <1>13 DEF IInv

LEMMA PopInv ==
  ASSUME StacksFit, IInv, NEW t \in Slots, Pop(t)
  PROVE  IInv'
  <1>0. /\ t = current /\ mode = "task" /\ stage = "schedule" /\ InUser(t)
        /\ td[t].state \in {"RUNNING", "HWINT"}
        /\ own[t].pushed \in Nat /\ own[t].pushed > 0
        /\ Base(t) \in Nat /\ Low(t) \in Nat
        /\ Low(t) + 1 + own[t].pushed + FrameLen <= Base(t)
    <2>1. Low(t) + Used(t) <= Base(t) /\ Base(t) \in Nat /\ Low(t) \in Nat
          /\ own[t].pushed \in Nat
          /\ Used(t) = 1 + own[t].pushed + FrameLen + (IF Floating(t) THEN 1 ELSE 0)
      BY UserFacts DEF Pop
    <2> QED BY <2>1, UserFacts DEF Pop, FrameLen
  <1>1. psp = Base(t) - 1 - own[t].pushed /\ psp \in Low(t) .. Base(t) - 1
    BY <1>0 DEF InUser, FrameLen
  <1>2. /\ DOMAIN own' = Slots
        /\ DOMAIN own'[t] = DOMAIN own[t]
        /\ own'[t].r0 = own[t].r0 /\ own'[t].rest = own[t].rest
        /\ own'[t].callee = own[t].callee /\ own'[t].fp = own[t].fp
        /\ own'[t].pushed = own[t].pushed - 1
        /\ \A u \in Slots \ {t} : own'[u] = own[u]
    BY DEF Pop, IInv, TypeOK
  <1>3. /\ UNCHANGED <<msp, regs, lr, fpca, lazy, mode, stage, current, td>>
        /\ psp' = psp + 1
    BY DEF Pop
  <1>4. /\ DOMAIN mem' = Addresses
        /\ \A a \in Addresses : a # psp => mem'[a] = mem[a]
    BY DEF Pop, IInv, TypeOK
  <1>5. Depth[t] \in Nat
    BY ContextAssumption DEF ContextAssumption
  <1>6. TypeOK'
    BY <1>0, <1>2, <1>3, <1>4, <1>5 DEF IInv, TypeOK
  <1>7. \A u \in Slots \ {t} : Kept(u)
    BY <1>1, <1>4, Apart
  <1>8. Floating(t)' = Floating(t)
    BY <1>2 DEF Floating
  <1>9. RestingOK' /\ TasksOK' /\ KernelOK' /\ OverflowKilled'
    BY <1>0, <1>2, <1>3, <1>6, <1>7, <1>8, OthersOK DEF IInv, TasksOK, Alive
  <1>10. Locals(t)'
    <2> SUFFICES ASSUME NEW k \in 1 .. own[t].pushed - 1
                 PROVE  mem'[Base(t) - 1 - k] = Word("local", t, k)
      BY <1>2 DEF Locals
    <2>1. k \in 1 .. own[t].pushed /\ Base(t) - 1 - k # psp
      BY <1>0, <1>1
    <2>2. Base(t) - 1 - k \in Low(t) .. Base(t) - 1
      BY <1>0, <2>1 DEF FrameLen
    <2>3. mem'[Base(t) - 1 - k] = mem[Base(t) - 1 - k]
      BY <1>4, <2>1, <2>2, AreaFacts
    <2> QED BY <1>0, <2>1, <2>3 DEF InUser, Locals
  <1>11. InUser(t)'
    BY <1>0, <1>1, <1>2, <1>3, <1>8, <1>10 DEF InUser
  <1>12. CurrentOK'
    BY <1>0, <1>3, <1>11 DEF IInv, CurrentOK, CurrentTask
  <1>13. LazyOK'
    BY <1>2, <1>3, LazyKept DEF Pop
  <1> QED BY <1>6, <1>9, <1>12, <1>13 DEF IInv
-----------------------------------------------------------------------------
(* The processor enters and leaves a handler.                              *)

\* The frame goes below what the task has pushed; when the task has used the
\* floating-point unit a cell above it is left for the registers of that.
LEMMA StacksInv ==
  ASSUME StacksFit, IInv, NEW t \in Slots, InTask(t),
         NEW handler \in {"contextSwitch", "hwContextSwitch"}, Stacks(handler),
         DOMAIN own' = Slots, DOMAIN own'[t] = DOMAIN own[t],
         own'[t].r0 = own[t].r0, own'[t].rest = own[t].rest,
         own'[t].callee = own[t].callee, own'[t].fp = own[t].fp,
         own'[t].pushed = own[t].pushed,
         \A u \in Slots \ {t} : own'[u] = own[u],
         handler = "contextSwitch" /\ own'[t].param # None => Passes(t)'
  PROVE  IInv'
  <1>0. /\ t = current /\ mode = "task" /\ stage = "schedule" /\ InUser(t)
        /\ td[t].state \in {"RUNNING", "HWINT"}
        /\ own[t].pushed \in Nat /\ Base(t) \in Nat /\ Low(t) \in Nat
        /\ Low(t) .. Base(t) - 1 \subseteq Addresses
        /\ Low(t) + Used(t) <= Base(t)
        /\ Used(t) = 1 + own[t].pushed + FrameLen + (IF Floating(t) THEN 1 ELSE 0)
    BY UserFacts
  <1> DEFINE sp == Base(t) - Used(t) + 2
  <1>1. /\ psp = Base(t) - 1 - own[t].pushed /\ psp' = sp
        /\ sp \in Low(t) .. Base(t) - 1 /\ sp + 1 \in Low(t) .. Base(t) - 1
        /\ sp + 1 < Base(t) - 1 - own[t].pushed
    <2>1. psp = Base(t) - 1 - own[t].pushed /\ fpca = Floating(t)
      BY <1>0 DEF InUser
    <2>2. psp' = psp - (IF Floating(t) THEN 3 ELSE 2)
      BY <2>1 DEF Stacks, Hardware
    <2> QED BY <1>0, <2>1, <2>2 DEF FrameLen
  <1> HIDE DEF sp
  <1>2. /\ DOMAIN mem' = Addresses /\ mem'[sp] = regs.r0 /\ mem'[sp + 1] = regs.rest
        /\ \A a \in Addresses : a # sp /\ a # sp + 1 => mem'[a] = mem[a]
    <2>1. DOMAIN mem = Addresses /\ sp \in Addresses /\ sp + 1 \in Addresses /\ sp \in Int
      BY <1>0, <1>1 DEF IInv, TypeOK
    <2>2. mem' = [mem EXCEPT ![sp] = regs.r0, ![sp + 1] = regs.rest]
      BY <1>1 DEF Stacks
    <2> QED BY <2>1, <2>2
  <1>3. /\ UNCHANGED <<msp, regs, stage, current, td>>
        /\ lr' = ToTask(Floating(t)) /\ mode' = handler /\ fpca' = FALSE
        /\ lazy' = IF Floating(t) THEN psp - 1 ELSE lazy
    BY <1>0 DEF Stacks, InUser
  <1>4. Used(t)' = Used(t) /\ Floating(t)' = Floating(t)
    BY DEF Used, Floating
  <1>5. TypeOK'
    BY <1>0, <1>1, <1>2, <1>3 DEF IInv, TypeOK, Modes
  <1>6. \A u \in Slots \ {t} : Kept(u)
    BY <1>1, <1>2, Apart
  <1>7. RestingOK' /\ TasksOK' /\ KernelOK' /\ OverflowKilled'
    BY <1>0, <1>3, <1>4, <1>5, <1>6, OthersOK DEF IInv, TasksOK, Alive
  <1>8. Locals(t)'
    <2> SUFFICES ASSUME NEW k \in 1 .. own[t].pushed
                 PROVE  mem'[Base(t) - 1 - k] = Word("local", t, k)
      BY DEF Locals
    <2>1. Base(t) - 1 - k \in Low(t) .. Base(t) - 1
      BY <1>0 DEF FrameLen
    <2>2. Base(t) - 1 - k # sp /\ Base(t) - 1 - k # sp + 1
      BY <1>0, <1>1
    <2> QED BY <1>0, <1>2, <2>1, <2>2 DEF InUser, Locals
  <1>9. Entered(t)'
    BY <1>0, <1>1, <1>2, <1>3, <1>4, <1>8 DEF Entered, InUser, sp
  <1>10. CurrentOK'
    <2>1. CurrentTask(current)' = CurrentTask(current)
      BY <1>3 DEF CurrentTask
    <2> QED BY <1>0, <1>3, <1>9, <2>1 DEF IInv, CurrentOK
  <1>11. LazyOK'
    <2>1. CASE Floating(t)
      <3>1. LazyAt(t)'
        BY <1>0, <1>1, <1>3, <1>4, <2>1 DEF LazyAt
      <3> QED BY <3>1 DEF LazyOK
    <2>2. CASE ~ Floating(t)
      <3> SUFFICES ASSUME lazy # Nowhere PROVE \E u \in Slots : LazyAt(u)'
        BY <1>3, <2>2 DEF LazyOK
      <3>1. PICK u \in Slots : LazyAt(u)
        BY DEF IInv, LazyOK
      <3>2. u # t
        BY <2>2, <3>1 DEF LazyAt
      <3>3. LazyAt(u)'
        BY <1>0, <1>3, <2>2, <3>1, <3>2 DEF LazyAt, Floating
      <3> QED BY <3>3
    <2> QED BY <2>1, <2>2
  <1> QED BY <1>5, <1>7, <1>10, <1>11 DEF IInv

LEMMA CallInv ==
  ASSUME StacksFit, IInv, NEW t \in Slots, Call(t)
  PROVE  IInv'
  <1>1. /\ DOMAIN own = Slots /\ own[t].pushed \in Nat
        /\ DOMAIN own[t] = {"r0", "rest", "callee", "fp", "pushed", "param"}
    BY DEF IInv, TypeOK
  <1>2. /\ DOMAIN own' = Slots /\ DOMAIN own'[t] = DOMAIN own[t]
        /\ own'[t].r0 = own[t].r0 /\ own'[t].rest = own[t].rest
        /\ own'[t].callee = own[t].callee /\ own'[t].fp = own[t].fp
        /\ own'[t].pushed = own[t].pushed
        /\ \A u \in Slots \ {t} : own'[u] = own[u]
    BY <1>1 DEF Call
  <1>3. own'[t].param # None => Passes(t)'
    BY <1>1, <1>2 DEF Call, Passes
  <1> QED BY <1>2, <1>3, StacksInv DEF Call

LEMMA InterruptInv ==
  ASSUME StacksFit, IInv, NEW t \in Slots, Interrupt(t)
  PROVE  IInv'
BY StacksInv DEF Interrupt, IInv, TypeOK

\* A handler that is entered when another is left finds the same frame.
LEMMA TailChainInv ==
  ASSUME IInv, TailChain
  PROVE  IInv'
  <1>1. /\ mode = "resume" /\ mode' = "hwContextSwitch"
        /\ UNCHANGED <<mem, psp, msp, regs, lr, fpca, lazy, stage, current, td, own>>
    BY DEF TailChain
  <1>2. TypeOK'
    BY <1>1 DEF IInv, TypeOK, Modes
  <1>3. \A t \in Slots : /\ Floating(t)' = Floating(t) /\ Used(t)' = Used(t)
                         /\ Locals(t)' = Locals(t)
    BY <1>1 DEF Floating, Used, Locals
  <1>4. RestingOK' /\ TasksOK' /\ OverflowKilled'
    BY <1>1, <1>3
    DEF IInv, RestingOK, Resting, TasksOK, OverflowKilled, Suspended
  <1>5. CurrentOK' /\ KernelOK'
    <2>1. CurrentTask(current)' = CurrentTask(current) /\ current \in Slots
      BY <1>1 DEF CurrentTask, IInv, TypeOK
    <2>2. Entered(current)'
      BY <1>1, <1>3, <2>1 DEF IInv, CurrentOK, Entered
    <2> QED BY <1>1, <2>1, <2>2 DEF IInv, CurrentOK, KernelOK
  <1>6. LazyOK'
    BY <1>1, <1>3 DEF IInv, LazyOK, LazyAt
  <1> QED BY <1>2, <1>4, <1>5, <1>6 DEF IInv

LEMMA ResumeInv ==
  ASSUME StacksFit, IInv, Resume
  PROVE  IInv'
  <1> DEFINE t == current
  <1>0. /\ t \in Slots /\ mode = "resume" /\ stage = "schedule" /\ Entered(t)
        /\ td[t].state \in {"RUNNING", "HWINT"}
    BY DEF IInv, TypeOK, CurrentOK, Resume
  <1>00. /\ own[t].pushed \in Nat /\ Base(t) \in Nat /\ Low(t) \in Nat
         /\ Low(t) .. Base(t) - 1 \subseteq Addresses
         /\ Low(t) + Used(t) <= Base(t)
         /\ Used(t) = 1 + own[t].pushed + FrameLen + (IF Floating(t) THEN 1 ELSE 0)
    BY <1>0, UsedFacts, AreaFacts DEF IInv
  <1>1. /\ lr[3] = Floating(t)
        /\ psp = Base(t) - Used(t) + 2 /\ psp' = Base(t) - 1 - own[t].pushed
    <2>1. psp = Base(t) - Used(t) + 2 /\ lr[3] = Floating(t)
      BY <1>0 DEF Entered, ToTask, Word
    <2>2. psp' = psp + (IF Floating(t) THEN 3 ELSE 2)
      BY <2>1 DEF Resume, Hardware
    <2> QED BY <1>00, <2>1, <2>2 DEF FrameLen
  <1>2. /\ DOMAIN mem' = Addresses
        /\ \A a \in Addresses : a \notin psp .. psp' - 1 => mem'[a] = mem[a]
    BY DEF Resume
  <1>3. /\ UNCHANGED <<msp, stage, current, td, own>> /\ mode' = "task"
        /\ fpca' = Floating(t) /\ lazy' = IF Floating(t) THEN Nowhere ELSE lazy
    BY <1>1 DEF Resume
  <1>4. /\ DOMAIN regs' = DOMAIN regs
        /\ regs'.r0 = mem[psp] /\ regs'.rest = mem[psp + 1] /\ regs'.callee = regs.callee
    BY DEF Resume, IInv, TypeOK
  <1>5. \A u \in Slots : Floating(u)' = Floating(u)
    BY <1>3 DEF Floating
  <1>6. TypeOK'
    BY <1>00, <1>1, <1>2, <1>3, <1>4 DEF IInv, TypeOK, Modes, Nowhere
  <1>7. \A u \in Slots \ {t} : Kept(u)
    <2>1. \A a \in psp .. psp' - 1 : a \in Low(t) .. Base(t) - 1
      BY <1>00, <1>1 DEF FrameLen
    <2> QED BY <1>0, <1>2, <2>1, Apart
  <1>8. RestingOK' /\ TasksOK' /\ KernelOK' /\ OverflowKilled'
    BY <1>0, <1>3, <1>5, <1>6, <1>7, OthersOK DEF IInv, TasksOK, Alive
  <1>9. Locals(t)'
    <2> SUFFICES ASSUME NEW k \in 1 .. own[t].pushed
                 PROVE  mem'[Base(t) - 1 - k] = Word("local", t, k)
      BY <1>3 DEF Locals
    <2>1. Base(t) - 1 - k \in Low(t) .. Base(t) - 1
      BY <1>00 DEF FrameLen
    <2>2. Base(t) - 1 - k \notin psp .. psp' - 1
      BY <1>00, <1>1
    <2> QED BY <1>0, <1>00, <1>2, <2>1, <2>2 DEF Entered, Locals
  <1>10. InUser(t)'
    BY <1>0, <1>1, <1>3, <1>4, <1>5, <1>9 DEF Entered, InUser
  <1>11. CurrentOK'
    <2>1. CurrentTask(current)' = CurrentTask(current)
      BY <1>3 DEF CurrentTask
    <2> QED BY <1>0, <1>3, <1>10, <2>1 DEF IInv, CurrentOK
  <1>12. LazyOK'
    BY <1>3, <1>5 DEF IInv, LazyOK, LazyAt
  <1> QED BY <1>6, <1>8, <1>11, <1>12 DEF IInv
-----------------------------------------------------------------------------
(* From a task to the kernel.                                              *)

\* The handler puts the rest of the registers below the frame and gives the
\* processor back to the kernel with the kernel's registers.
LEMMA SaveInv ==
  ASSUME StacksFit, IInv, mode \in {"contextSwitch", "hwContextSwitch"},
         NEW new, NEW reason, SaveTask(current, new, reason),
         DOMAIN new = DOMAIN td[current],
         new.type = td[current].type, new.base = td[current].base,
         new.size = td[current].size, new.state \in {"SYSCALL_BLK", "HWINT"},
         reason = Zero <=> new.state = "SYSCALL_BLK",
         new.state = "SYSCALL_BLK" /\ own[current].param # None =>
           current \in Long /\ (~ Floating(current) => new.param = own[current].param)
  PROVE  IInv'
  <1> DEFINE t == current
             sp == Base(t) - Used(t)
  <1>0. /\ t \in Slots /\ Entered(t)
        /\ msp = <<CurrentTask(t), ToKernel(FALSE), Word("td", t, 1),
                   Word("rest", Kernel, 1)>>
    BY DEF IInv, TypeOK, CurrentOK
  <1>00. /\ own[t].pushed \in Nat /\ Base(t) \in Nat /\ Low(t) \in Nat
         /\ Low(t) .. Base(t) - 1 \subseteq Addresses
         /\ Used(t) \in Nat /\ Low(t) + Used(t) <= Base(t)
         /\ Used(t) = 1 + own[t].pushed + FrameLen + (IF Floating(t) THEN 1 ELSE 0)
    BY <1>0, UsedFacts, AreaFacts DEF IInv
  <1>1. /\ psp = sp + 2 /\ sp \in Low(t) .. Base(t) - 1
        /\ sp + 1 \in Low(t) .. Base(t) - 1 /\ sp + 2 \in Low(t) .. Base(t) - 1
        /\ sp + 3 \in Low(t) .. Base(t) - 1
        /\ sp + 1 < Base(t) - 1 - own[t].pushed
    BY <1>0, <1>00 DEF Entered, FrameLen
  <1> HIDE DEF sp
  <1>2. sp \in Int /\ psp - 2 = sp /\ psp - 1 = sp + 1
    BY <1>00, <1>1
  <1>3. /\ DOMAIN mem' = Addresses
        /\ mem'[sp] = regs.callee /\ mem'[sp + 1] = lr
        /\ \A a \in Addresses : a # sp /\ a # sp + 1 => mem'[a] = mem[a]
    <2>1. mem' = [mem EXCEPT ![sp] = regs.callee, ![sp + 1] = lr]
      BY <1>2 DEF SaveTask
    <2>2. DOMAIN mem = Addresses /\ sp \in Addresses /\ sp + 1 \in Addresses
      BY <1>00, <1>1 DEF IInv, TypeOK
    <2> QED BY <1>2, <2>1, <2>2
  <1>4. /\ DOMAIN td' = Slots /\ DOMAIN td'[t] = DOMAIN td[t]
        /\ td'[t].type = td[t].type /\ td'[t].base = td[t].base
        /\ td'[t].size = td[t].size /\ td'[t].state = new.state
        /\ td'[t].param = new.param /\ td'[t].sp = sp
        /\ \A u \in Slots \ {t} : td'[u] = td[u]
    <2>1. td' = [td EXCEPT ![t] = [new EXCEPT !.sp = sp]]
      BY <1>2 DEF SaveTask
    <2>2. DOMAIN td = Slots
          /\ DOMAIN td[t] = {"type", "base", "sp", "size", "state", "ret", "param"}
      BY <1>0 DEF IInv, TypeOK
    <2>3. td'[t] = [new EXCEPT !.sp = sp] /\ DOMAIN td' = Slots
          /\ \A u \in Slots \ {t} : td'[u] = td[u]
      BY <1>0, <2>1, <2>2
    <2> QED BY <2>2, <2>3
  <1>5. /\ DOMAIN regs' = DOMAIN regs
        /\ regs'.callee = CurrentTask(t) /\ regs'.r0 = reason
        /\ regs'.rest = Word("rest", Kernel, 1)
    BY <1>0 DEF SaveTask, IInv, TypeOK
  <1>6. /\ mode' = "kernel" /\ stage' = "back"
        /\ UNCHANGED <<psp, fpca, lazy, current, own>>
    BY DEF SaveTask
  <1>7. \A u \in Slots : Floating(u)' = Floating(u) /\ Used(u)' = Used(u)
    BY <1>6 DEF Floating, Used
  <1>8. TypeOK'
    BY <1>0, <1>2, <1>3, <1>4, <1>5, <1>6 DEF IInv, TypeOK, Modes, States, Alive
  <1>9. \A u \in Slots \ {t} : Kept(u)
    BY <1>0, <1>1, <1>3, Apart
  <1>10. Locals(t)'
    <2> SUFFICES ASSUME NEW k \in 1 .. own[t].pushed
                 PROVE  mem'[Base(t) - 1 - k] = Word("local", t, k)
      BY <1>6 DEF Locals
    <2>1. Base(t) - 1 - k \in Low(t) .. Base(t) - 1
      BY <1>00 DEF FrameLen
    <2>2. Base(t) - 1 - k # sp /\ Base(t) - 1 - k # sp + 1
      BY <1>00, <1>1
    <2> QED BY <1>0, <1>00, <1>3, <2>1, <2>2 DEF Entered, Locals
  <1>11. Resting(t)'
    <2>1. mem'[sp + 2] = own[t].r0 /\ mem'[sp + 3] = own[t].rest
      <3>1. mem[sp + 2] = own[t].r0 /\ mem[sp + 3] = own[t].rest
        <4>1. sp + 3 = (Base(t) - Used(t) + 2) + 1 /\ sp + 2 = Base(t) - Used(t) + 2
          BY <1>00 DEF sp
        <4> QED BY <1>0, <4>1 DEF Entered
      <3> QED BY <1>00, <1>1, <1>2, <1>3, <3>1
    <2>2. td'[t].state # "RUNNING"
      BY <1>4
    <2> QED BY <1>0, <1>3, <1>4, <1>6, <1>7, <1>10, <2>1, <2>2
        DEF Resting, Entered, sp
  <1>12. RestingOK'
    BY <1>4, <1>6, <1>9, <1>11, OthersRest DEF IInv, RestingOK
  <1>13. TasksOK'
    BY <1>4, <1>6, <1>7 DEF IInv, TasksOK, Alive
  <1>14. CurrentOK' /\ KernelOK'
    <2>1. fpca = FALSE
      BY <1>0 DEF Entered
    <2>2. CurrentTask(current)' = CurrentTask(t)
      BY <1>6 DEF CurrentTask
    <2>3. BackOK'
      <3>1. td'[t].state \in {"SYSCALL_BLK", "HWINT"}
        BY <1>4
      <3>2. regs'.r0 = Zero <=> td'[t].state = "SYSCALL_BLK"
        BY <1>4, <1>5
      <3>3. td'[t].state = "SYSCALL_BLK" /\ own[t].param # None =>
              t \in Long /\ (~ Floating(t) => td'[t].param = own[t].param)
        BY <1>4
      <3>4. current' = t /\ own' = own /\ Floating(t)' = Floating(t)
        BY <1>0, <1>6, <1>7
      <3> QED BY <3>1, <3>2, <3>3, <3>4 DEF BackOK, Floating
    <2> QED BY <1>5, <1>6, <2>1, <2>2, <2>3 DEF CurrentOK, KernelOK
  <1>15. LazyOK'
    BY <1>6, <1>7 DEF IInv, LazyOK, LazyAt
  <1>16. OverflowKilled'
    <2> SUFFICES ASSUME NEW u \in Slots, Suspended(u)'
                 PROVE  td'[u].state = "KILLED" <=> Used(u)' > SizeOf(Area(u).type)
      BY DEF OverflowKilled
    <2>1. u # t
      BY <1>6 DEF Suspended
    <2> QED BY <1>4, <1>6, <1>7, <2>1 DEF IInv, OverflowKilled, Suspended
  <1> QED BY <1>8, <1>12, <1>13, <1>14, <1>15, <1>16 DEF IInv

\* The descriptor is that of the current task.
LEMMA SwitchedIsCurrent ==
  ASSUME IInv, mode # "kernel"
  PROVE  Switched = current
BY DEF IInv, CurrentOK, Switched, Word

LEMMA TaskToKernelInv ==
  ASSUME StacksFit, IInv, taskToKernel
  PROVE  IInv'
  <1> DEFINE t == current
             new == [td[t] EXCEPT !.state = "SYSCALL_BLK", !.ret = Zero,
                                  !.param = mem[ParameterAt(psp - 2)]]
  <1>1. /\ mode = "contextSwitch" /\ SaveTask(t, new, Zero)
    BY SwitchedIsCurrent DEF taskToKernel
  <1>2. /\ t \in Slots /\ Entered(t) /\ own[t].param # None => Passes(t)
    BY <1>1 DEF IInv, TypeOK, CurrentOK
  <1>3. /\ DOMAIN new = DOMAIN td[t]
        /\ new.type = td[t].type /\ new.base = td[t].base /\ new.size = td[t].size
        /\ new.state = "SYSCALL_BLK" /\ new.param = mem[ParameterAt(psp - 2)]
    BY <1>1 DEF IInv, TypeOK
  <1> HIDE DEF new
  <1>4. ASSUME own[t].param # None, ~ Floating(t)
        PROVE  mem[ParameterAt(psp - 2)] = own[t].param
    <2>1. /\ own[t].pushed \in Nat /\ Base(t) \in Nat
          /\ Used(t) = 1 + own[t].pushed + FrameLen + (IF Floating(t) THEN 1 ELSE 0)
      BY <1>1, UsedFacts DEF IInv, TypeOK
    <2>2. ParameterAt(psp - 2) = Base(t) - 1 - own[t].pushed
      <3>1. psp = Base(t) - Used(t) + 2
        BY <1>1 DEF IInv, CurrentOK, Entered
      <3> QED BY <1>4, <2>1, <3>1 DEF ParameterAt, FrameLen
    <2>3. Passes(t) /\ Locals(t)
      BY <1>1, <1>4 DEF IInv, CurrentOK, Entered
    <2> QED BY <2>1, <2>2, <2>3 DEF Passes, Locals
  <1>5. own[t].param # None => t \in Long
    BY <1>1 DEF IInv, CurrentOK, Passes
  <1> QED BY <1>1, <1>3, <1>4, <1>5, SaveInv

LEMMA HwContextSwitchInv ==
  ASSUME StacksFit, IInv, hwContextSwitch
  PROVE  IInv'
  <1> DEFINE t == current
             new == [td[t] EXCEPT !.state = "HWINT"]
             reason == Word("IPSR", Kernel, 1)
  <1>1. /\ mode = "hwContextSwitch" /\ SaveTask(t, new, reason)
    BY SwitchedIsCurrent DEF hwContextSwitch
  <1>2. /\ DOMAIN new = DOMAIN td[t]
        /\ new.type = td[t].type /\ new.base = td[t].base /\ new.size = td[t].size
        /\ new.state = "HWINT"
    BY <1>1 DEF IInv, TypeOK
  <1>3. reason # Zero
    BY DEF Zero, Word
  <1> HIDE DEF new, reason
  <1> QED BY <1>1, <1>2, <1>3, SaveInv
-----------------------------------------------------------------------------
(* The kernel.                                                             *)

\* What the kernel leaves of a task when it has handled a call or an interrupt.
Handled(u) ==
  /\ td'[u].state \in Alive => Resting(u)'
  /\ td'[u].state # "SYSCALL_BLK"
  /\ Floating(u)' => u \in Floats /\ td'[u].state \in Alive
  /\ Floating(u) => Floating(u)' /\ own'[u].pushed = own[u].pushed
  /\ td'[u].state \notin {"INVALID", "EXITED"} =>
       (td'[u].state = "KILLED" <=> Used(u)' > SizeOf(Area(u).type))

\* While the kernel handles what a task came back with, all tasks rest, and it
\* sees from the stack pointer whether the frame fitted.
LEMMA HandlesFacts ==
  ASSUME StacksFit, IInv, Handles
  PROVE  /\ mode = "kernel" /\ stage = "back" /\ stage' = "schedule"
         /\ mode' = "kernel" /\ current \in Slots
         /\ UNCHANGED <<psp, msp, regs, lr, fpca, lazy, mode, current>>
         /\ \A u \in Slots : td[u].state \in Alive => Resting(u)
         /\ td[current].state \in {"SYSCALL_BLK", "HWINT"}
         /\ taskStackOverflow(td[current]) <=>
              Used(current) > SizeOf(Area(current).type)
  <1>1. /\ mode = "kernel" /\ stage = "back" /\ stage' = "schedule"
        /\ mode' = "kernel" /\ current \in Slots
        /\ UNCHANGED <<psp, msp, regs, lr, fpca, lazy, mode, current>>
    BY DEF Handles, hardware, IInv, CurrentOK, TypeOK, Modes
  <1>2. \A u \in Slots : td[u].state \in Alive => Resting(u)
    BY <1>1 DEF IInv, RestingOK
  <1>3. td[current].state \in {"SYSCALL_BLK", "HWINT"}
    BY <1>1 DEF IInv, KernelOK, BackOK
  <1>4. td[current].sp = Base(current) - Used(current)
    BY <1>1, <1>2, <1>3 DEF Alive, Resting
  <1>5. Base(current) \in Nat /\ Used(current) \in Nat
    BY <1>1, UsedFacts DEF IInv
  <1>6. td[current].base = Base(current) /\ td[current].size = SizeOf(Area(current).type)
    BY <1>1 DEF IInv, TypeOK
  <1>7. taskStackOverflow(td[current]) <=> Used(current) > SizeOf(Area(current).type)
    BY <1>4, <1>5, <1>6 DEF taskStackOverflow
  <1> QED BY <1>1, <1>2, <1>3, <1>7

LEMMA HandledInv ==
  ASSUME StacksFit, IInv, Handles, TypeOK', \A u \in Slots : Handled(u)
  PROVE  IInv'
  <1>1. /\ mode = "kernel" /\ stage = "back" /\ stage' = "schedule"
        /\ mode' = "kernel" /\ current \in Slots
        /\ UNCHANGED <<psp, msp, regs, lr, fpca, lazy, mode, current>>
    BY HandlesFacts
  <1>2. RestingOK' /\ TasksOK'
    BY DEF Handled, RestingOK, TasksOK
  <1>3. CurrentOK' /\ KernelOK'
    <2>1. CurrentTask(current)' = CurrentTask(current)
      BY <1>1 DEF CurrentTask
    <2> QED BY <1>1, <2>1 DEF IInv, CurrentOK, KernelOK
  <1>4. LazyOK'
    <2> SUFFICES ASSUME lazy # Nowhere PROVE \E u \in Slots : LazyAt(u)'
      BY <1>1 DEF LazyOK
    <2>1. PICK u \in Slots : LazyAt(u)
      BY DEF IInv, LazyOK
    <2>2. LazyAt(u)'
      BY <1>1, <2>1 DEF LazyAt, Handled
    <2> QED BY <2>2
  <1>5. OverflowKilled'
    BY DEF Handled, OverflowKilled, Suspended
  <1> QED BY <1>2, <1>3, <1>4, <1>5 DEF IInv

\* A task that is not concerned is left as it is.
LEMMA OthersHandled ==
  ASSUME StacksFit, IInv, Handles, NEW u \in Slots, Kept(u),
         own'[u] = own[u], td'[u] = td[u],
         u = current => td[u].state = "HWINT" /\ ~ taskStackOverflow(td[u])
  PROVE  Handled(u)
  <1>1. td[u].state \in Alive => Resting(u)'
    BY HandlesFacts, OthersRest DEF IInv
  <1>2. td[u].state # "SYSCALL_BLK"
    BY DEF IInv, TasksOK
  <1>3. Floating(u)' = Floating(u) /\ Used(u)' = Used(u)
    BY DEF Floating, Used
  <1>4. td[u].state \notin {"INVALID", "EXITED"} =>
          (td[u].state = "KILLED" <=> Used(u) > SizeOf(Area(u).type))
    <2>1. CASE u = current
      BY <2>1, HandlesFacts
    <2>2. CASE u # current
      BY <2>2 DEF IInv, OverflowKilled, Suspended
    <2> QED BY <2>1, <2>2
  <1> QED BY <1>1, <1>2, <1>3, <1>4 DEF Handled, IInv, TasksOK

\* A new state of the current task says whether its frame fitted.
LEMMA KillInv ==
  ASSUME StacksFit, IInv, Kill
  PROVE  IInv'
  <1>1. Handles /\ taskStackOverflow(td[current]) /\ UNCHANGED <<mem, own>>
    BY DEF Kill
  <1>2. /\ DOMAIN td' = Slots /\ DOMAIN td'[current] = DOMAIN td[current]
        /\ td'[current].state = "KILLED" /\ td'[current].sp = td[current].sp
        /\ td'[current].type = td[current].type /\ td'[current].base = td[current].base
        /\ td'[current].size = td[current].size
        /\ \A u \in Slots \ {current} : td'[u] = td[u]
    BY DEF Kill, IInv, TypeOK
  <1>3. TypeOK'
    BY <1>1, <1>2, HandlesFacts DEF IInv, TypeOK, States
  <1>4. \A u \in Slots : Kept(u)
    BY <1>1 DEF Kept
  <1>5. \A u \in Slots \ {current} : Handled(u)
    BY <1>1, <1>2, <1>4, OthersHandled
  <1>6. Used(current) > SizeOf(Area(current).type)
    BY <1>1, HandlesFacts
  <1>7. ~ Floating(current)
    <2> SUFFICES ASSUME Floating(current) PROVE FALSE
      OBVIOUS
    <2>1. current \in Slots /\ current \in Floats
      BY <1>1, HandlesFacts DEF IInv, TasksOK
    <2>2. Room(current) = SizeOf(Area(current).type)
      <3>1. SizeOf(Area(current).type) \in Nat
        BY <2>1, AreaFacts
      <3> QED BY <2>1, <3>1 DEF Room
    <2>3. Low(current) + Used(current) <= Base(current) /\ Used(current) \in Nat
      BY <2>1, UsedFacts DEF IInv
    <2>4. Base(current) \in Nat /\ Room(current) \in Nat
      BY <2>1, AreaFacts
    <2> QED BY <1>6, <2>2, <2>3, <2>4 DEF Low
  <1>8. Floating(current)' = Floating(current) /\ Used(current)' = Used(current)
    BY <1>1, HandlesFacts DEF Floating, Used
  <1>9. Handled(current)
    <2>1. current' = current
      BY <1>1, HandlesFacts
    <2> QED BY <1>2, <1>6, <1>7, <1>8, <2>1 DEF Handled, Alive, Floating, Used
  <1> QED BY <1>1, <1>3, <1>5, <1>9, HandledInv

\* A task whose call ends rests with the result in its descriptor.
LEMMA AnsweredInv ==
  ASSUME StacksFit, IInv, Handles, ~ taskStackOverflow(td[current]),
         NEW ts \in SUBSET Slots, Answered(ts),
         \A u \in ts : u = current \/ td[u].state = "BLOCKED",
         current \notin ts => td[current].state = "HWINT"
  PROVE  IInv'
  <1>1. /\ DOMAIN td = Slots /\ DOMAIN own = Slots
        /\ \A u \in Slots :
             /\ DOMAIN td[u] = {"type", "base", "sp", "size", "state", "ret", "param"}
             /\ DOMAIN own[u] = {"r0", "rest", "callee", "fp", "pushed", "param"}
    BY DEF IInv, TypeOK
  <1>2. /\ DOMAIN td' = Slots /\ DOMAIN own' = Slots
        /\ \A u \in Slots \ ts : td'[u] = td[u] /\ own'[u] = own[u]
    BY DEF Answered
  <1>3. ASSUME NEW u \in ts
        PROVE  /\ DOMAIN td'[u] = DOMAIN td[u] /\ DOMAIN own'[u] = DOMAIN own[u]
               /\ td'[u].type = td[u].type /\ td'[u].base = td[u].base
               /\ td'[u].size = td[u].size /\ td'[u].sp = td[u].sp
               /\ td'[u].state = "RUNNING" /\ td'[u].ret = Outcome(u)
               /\ own'[u].r0 = Outcome(u) /\ own'[u].rest = own[u].rest
               /\ own'[u].callee = own[u].callee /\ own'[u].fp = own[u].fp
               /\ own'[u].pushed = own[u].pushed
    <2>1. td'[u] = Returned(u) /\ own'[u] = [own[u] EXCEPT !.r0 = Outcome(u)]
      BY DEF Answered
    <2> QED BY <1>1, <2>1 DEF Returned
  <1>4. TypeOK'
    <2>1. /\ mem' = mem /\ stage' = "schedule"
          /\ UNCHANGED <<psp, regs, lazy, mode, current>>
      BY HandlesFacts DEF Answered
    <2> DEFINE Typed(d, o, u) ==
          /\ DOMAIN d = {"type", "base", "sp", "size", "state", "ret", "param"}
          /\ d.type = Area(u).type /\ d.base = Base(u)
          /\ d.size = SizeOf(Area(u).type) /\ d.sp \in Int
          /\ d.state \in States
          /\ DOMAIN o = {"r0", "rest", "callee", "fp", "pushed", "param"}
          /\ o.pushed \in 0 .. Depth[u]
          /\ o.fp \in {None} \cup {Word("fp", u, v) : v \in {1, 2}}
    <2>2. \A u \in Slots : Typed(td[u], own[u], u)
      BY DEF IInv, TypeOK
    <2>3. ASSUME NEW u \in Slots PROVE Typed(td'[u], own'[u], u)
      <3>1. CASE u \in ts
        BY <1>1, <1>3, <2>2, <3>1 DEF States, Alive
      <3>2. CASE u \notin ts
        BY <1>2, <2>2, <3>2
      <3> QED BY <3>1, <3>2
    <2> QED BY <1>2, <2>1, <2>3 DEF IInv, TypeOK
  <1>5. \A u \in Slots : Kept(u)
    BY DEF Answered, Kept
  <1>6. ASSUME NEW u \in Slots \ ts PROVE Handled(u)
    BY <1>2, <1>5, OthersHandled
  <1>7. ASSUME NEW u \in ts PROVE Handled(u)
    <2>1. Floating(u)' = Floating(u) /\ Used(u)' = Used(u) /\ Locals(u)' = Locals(u)
      <3>1. own'[u].fp = own[u].fp /\ own'[u].pushed = own[u].pushed /\ mem' = mem
        BY <1>3 DEF Answered
      <3>2. Floating(u)' = Floating(u) /\ Used(u)' = Used(u)
        BY <3>1 DEF Floating, Used
      <3>3. Locals(u)' = Locals(u)
        BY <3>1 DEF Locals
      <3> QED BY <3>2, <3>3
    <2>2. Resting(u) /\ td[u].state \in Alive
      BY HandlesFacts DEF Alive
    <2>3. Resting(u)'
      <3>1. /\ mem' = mem /\ td'[u].sp = td[u].sp /\ td'[u].state = "RUNNING"
            /\ td'[u].ret = own'[u].r0 /\ own'[u].rest = own[u].rest
            /\ own'[u].callee = own[u].callee
        BY <1>3 DEF Answered
      <3>2. /\ td'[u].sp = Base(u) - Used(u)' /\ Locals(u)'
            /\ mem[td[u].sp] = own[u].callee /\ mem[td[u].sp + 3] = own[u].rest
            /\ mem[td[u].sp + 1] = ToTask(Floating(u)')
            /\ td[u].sp = Base(u) - Used(u)'
        BY <2>1, <2>2, <3>1 DEF Resting
      <3> QED BY <3>1, <3>2 DEF Resting
    <2>4. ~ (Used(u) > SizeOf(Area(u).type))
      <3>1. CASE u = current
        BY <3>1, HandlesFacts
      <3>2. CASE u # current
        BY <3>2 DEF IInv, OverflowKilled, Suspended
      <3> QED BY <3>1, <3>2
    <2>5. Floating(u) => u \in Floats
      BY DEF IInv, TasksOK
    <2> QED BY <1>3, <2>1, <2>3, <2>4, <2>5 DEF Handled, Alive
  <1> QED BY <1>4, <1>6, <1>7, HandledInv

\* A task whose call does not end is blocked, or out of the way for good.
LEMMA UnansweredInv ==
  ASSUME StacksFit, FloatsStay, IInv, Handles, ~ taskStackOverflow(td[current]),
         NEW s \in {"BLOCKED", "EXITED"}, s = "EXITED" => current \in Mortal,
         td' = [td EXCEPT ![current].state = s], UNCHANGED <<mem, own>>
  PROVE  IInv'
  <1>1. /\ DOMAIN td' = Slots /\ DOMAIN td'[current] = DOMAIN td[current]
        /\ td'[current].state = s /\ td'[current].sp = td[current].sp
        /\ td'[current].type = td[current].type /\ td'[current].base = td[current].base
        /\ td'[current].size = td[current].size
        /\ \A u \in Slots \ {current} : td'[u] = td[u]
    BY DEF IInv, TypeOK
  <1>2. TypeOK'
    BY <1>1, HandlesFacts DEF IInv, TypeOK, States, Alive
  <1>3. \A u \in Slots \ {current} : Handled(u)
    <2>1. \A u \in Slots : Kept(u)
      BY DEF Kept
    <2> QED BY <1>1, <2>1, OthersHandled
  <1>4. \A u \in Slots : /\ Floating(u)' = Floating(u) /\ Used(u)' = Used(u)
                         /\ Locals(u)' = Locals(u)
    BY DEF Floating, Used, Locals
  <1>5. Handled(current)
    <2>1. /\ current' = current /\ current \in Slots /\ Resting(current)
          /\ ~ (Used(current) > SizeOf(Area(current).type))
      BY HandlesFacts DEF Alive
    <2>2. td'[current].state \in Alive => Resting(current)'
      <3> DEFINE t == current
      <3>1. /\ mem' = mem /\ own' = own /\ td'[t].sp = td[t].sp
            /\ td'[t].state \notin {"RUNNING", "HWINT"}
        BY <1>1
      <3> QED BY <1>4, <2>1, <3>1 DEF Resting
    <2>3. Floating(current) => current \in Floats /\ s # "EXITED"
      BY <2>1 DEF IInv, TasksOK, FloatsStay
    <2>4. Floating(current)' = Floating(current) /\ Used(current)' = Used(current)
      BY <2>1, <1>4 DEF Floating, Used
    <2> QED BY <1>1, <2>1, <2>2, <2>3, <2>4 DEF Handled, Alive, Floating, Used
  <1> QED BY <1>2, <1>3, <1>5, HandledInv

\* Five cells are written.
LEMMA FiveCells ==
  ASSUME NEW S, NEW m, DOMAIN m = S,
         NEW a1 \in S, NEW a2 \in S, NEW a3 \in S, NEW a4 \in S, NEW a5 \in S,
         NEW v1, NEW v2, NEW v3, NEW v4, NEW v5,
         a1 \notin {a2, a3, a4, a5}, a2 \notin {a3, a4, a5}, a3 \notin {a4, a5}, a4 # a5,
         NEW r, r = [m EXCEPT ![a1] = v1, ![a2] = v2, ![a3] = v3, ![a4] = v4, ![a5] = v5]
  PROVE  /\ DOMAIN r = S /\ r[a1] = v1 /\ r[a2] = v2 /\ r[a4] = v4
         /\ \A a \in S \ {a1, a2, a3, a4, a5} : r[a] = m[a]
OBVIOUS

\* The frame from which the task n starts is in r, which is as m elsewhere.
FirstFrame(r, m, n) ==
  /\ DOMAIN r = Addresses
  /\ r[Base(n) - 5] = Word("callee", n, 1) /\ r[Base(n) - 4] = ToTask(FALSE)
  /\ r[Base(n) - 2] = Word("rest", n, 1)
  /\ \A a \in Addresses : a \notin Low(n) .. Base(n) - 1 => r[a] = m[a]

LEMMA FrameFacts ==
  ASSUME StacksFit, NEW n \in Slots, NEW m, DOMAIN m = Addresses
  PROVE  FirstFrame(cpuCreateTask(m, Base(n), n), m, n)
  <1> DEFINE r == cpuCreateTask(m, Base(n), n)
             a1 == Base(n) - 5
             a2 == a1 + 1
             a3 == a1 + 2
             a4 == a1 + 3
             a5 == a1 + 4
  <1>1. /\ Base(n) \in Nat /\ Low(n) \in Nat /\ Low(n) + 5 <= Base(n)
        /\ Low(n) .. Base(n) - 1 \subseteq Addresses
    BY AreaFacts DEF FrameLen
  <1>2. /\ {a1, a2, a3, a4, a5} \subseteq Low(n) .. Base(n) - 1
        /\ a2 = Base(n) - 4 /\ a4 = Base(n) - 2
        /\ a1 \notin {a2, a3, a4, a5} /\ a2 \notin {a3, a4, a5}
        /\ a3 \notin {a4, a5} /\ a4 # a5
    BY <1>1
  <1>3. createdSp(Base(n)) = a1
    BY <1>1 DEF createdSp, FrameLen
  <1>4. r = [m EXCEPT ![a1] = Word("callee", n, 1), ![a2] = ToTask(FALSE),
                      ![a3] = Word("r0", n, 1), ![a4] = Word("rest", n, 1),
                      ![a5] = Zero]
    BY <1>3 DEF cpuCreateTask
  <1>5. {a1, a2, a3, a4, a5} \subseteq Addresses
    BY <1>1, <1>2
  <1> HIDE DEF r, a1, a2, a3, a4, a5
  <1>6. /\ DOMAIN r = Addresses
        /\ r[a1] = Word("callee", n, 1) /\ r[a2] = ToTask(FALSE)
        /\ r[a4] = Word("rest", n, 1)
        /\ \A a \in Addresses \ {a1, a2, a3, a4, a5} : r[a] = m[a]
    BY <1>2, <1>4, <1>5, FiveCells
  <1>7. \A a \in Addresses : a \notin Low(n) .. Base(n) - 1 => r[a] = m[a]
    BY <1>2, <1>6
  <1>8. FirstFrame(r, m, n)
    BY <1>2, <1>6, <1>7 DEF FirstFrame, a1
  <1> QED BY <1>8 DEF r

\* What a new task finds: an empty stack but for the frame.
LEMMA NewbornRests ==
  ASSUME StacksFit, NEW n \in Slots, NEW r,
         td'[n].sp = createdSp(Base(n)), td'[n].state = "RUNNING", td'[n].ret = r,
         own'[n] = Newborn(n, r),
         mem'[Base(n) - 5] = Word("callee", n, 1), mem'[Base(n) - 4] = ToTask(FALSE),
         mem'[Base(n) - 2] = Word("rest", n, 1)
  PROVE  /\ Resting(n)' /\ ~ Floating(n)' /\ Used(n)' = 5
         /\ ~ (Used(n)' > SizeOf(Area(n).type))
  <1>1. Base(n) \in Nat /\ SizeOf(Area(n).type) \in Nat
    BY AreaFacts
  <1>2. /\ own'[n].r0 = r /\ own'[n].rest = Word("rest", n, 1)
        /\ own'[n].callee = Word("callee", n, 1)
        /\ own'[n].fp = None /\ own'[n].pushed = 0
    BY DEF Newborn
  <1>3. ~ Floating(n)' /\ Used(n)' = 5
    BY <1>2 DEF Floating, Used, FrameLen
  <1>4. Locals(n)'
    BY <1>2 DEF Locals
  <1>5. Resting(n)'
    <2>1. /\ createdSp(Base(n)) = Base(n) - 5 /\ (Base(n) - 5) + 1 = Base(n) - 4
          /\ (Base(n) - 5) + 3 = Base(n) - 2
      BY <1>1 DEF createdSp, FrameLen
    <2>2. ToTask(Floating(n))' = ToTask(FALSE)
      BY <1>2 DEF Floating
    <2> QED BY <1>2, <1>3, <1>4, <2>1, <2>2 DEF Resting
  <1>6. 5 <= SizeOf(Area(n).type)
    BY DEF StacksFit, FrameLen
  <1> QED BY <1>1, <1>3, <1>5, <1>6

LEMMA CreateInv ==
  ASSUME StacksFit, IInv, Handles, ~ taskStackOverflow(td[current]),
         NEW n \in Slots, Create(current, n)
  PROVE  IInv'
  <1> DEFINE t == current
  <1>1. /\ t \in Slots /\ n # t /\ td[n].state \notin Alive /\ ~ Floating(n)
        /\ td[t].state = "SYSCALL_BLK" /\ Resting(t)
        /\ ~ (Used(t) > SizeOf(Area(t).type))
    <2>1. td[n].state \in {"INVALID", "EXITED", "KILLED"} /\ td[t].state = "SYSCALL_BLK"
      BY DEF Create, FirstFree, isTdAvailable
    <2>2. n # t /\ td[n].state \notin Alive
      BY <2>1 DEF Alive
    <2>3. ~ Floating(n)
      BY <2>2 DEF IInv, TasksOK
    <2> QED BY <2>1, <2>2, <2>3, HandlesFacts DEF Alive
  <1>2. /\ DOMAIN td = Slots /\ DOMAIN own = Slots /\ DOMAIN mem = Addresses
        /\ td[n].base = Base(n) /\ td[n].type = Area(n).type
        /\ DOMAIN td[t] = {"type", "base", "sp", "size", "state", "ret", "param"}
        /\ DOMAIN own[t] = {"r0", "rest", "callee", "fp", "pushed", "param"}
    BY <1>1 DEF IInv, TypeOK
  <1>3. mem' = cpuCreateTask(mem, Base(n), n)
    BY <1>2 DEF Create
  <1>4. /\ DOMAIN mem' = Addresses
        /\ mem'[Base(n) - 5] = Word("callee", n, 1) /\ mem'[Base(n) - 4] = ToTask(FALSE)
        /\ mem'[Base(n) - 2] = Word("rest", n, 1)
        /\ \A a \in Addresses : a \notin Low(n) .. Base(n) - 1 => mem'[a] = mem[a]
    BY <1>2, <1>3, FrameFacts DEF FirstFrame
  <1>5. /\ DOMAIN td' = Slots /\ td'[t] = Returned(t)
        /\ td'[n] = created(reinitializeTd(td[n]), Zero)
        /\ \A u \in Slots \ {t, n} : td'[u] = td[u]
    BY <1>1, <1>2 DEF Create
  <1>6. /\ DOMAIN own' = Slots /\ own'[t] = [own[t] EXCEPT !.r0 = Outcome(t)]
        /\ own'[n] = Newborn(n, Zero)
        /\ \A u \in Slots \ {t, n} : own'[u] = own[u]
    BY <1>1, <1>2 DEF Create
  <1>7. /\ DOMAIN td'[t] = DOMAIN td[t] /\ DOMAIN own'[t] = DOMAIN own[t]
        /\ td'[t].type = td[t].type /\ td'[t].base = td[t].base
        /\ td'[t].size = td[t].size /\ td'[t].sp = td[t].sp
        /\ td'[t].state = "RUNNING" /\ td'[t].ret = Outcome(t)
        /\ own'[t].r0 = Outcome(t) /\ own'[t].rest = own[t].rest
        /\ own'[t].callee = own[t].callee /\ own'[t].fp = own[t].fp
        /\ own'[t].pushed = own[t].pushed
    BY <1>2, <1>5, <1>6 DEF Returned
  <1>8. /\ DOMAIN td'[n] = {"type", "base", "sp", "size", "state", "ret", "param"}
        /\ td'[n].type = Area(n).type /\ td'[n].base = Base(n)
        /\ td'[n].size = SizeOf(Area(n).type) /\ td'[n].sp = createdSp(Base(n))
        /\ td'[n].state = "RUNNING" /\ td'[n].ret = Zero
    BY <1>2, <1>5 DEF created, reinitializeTd
  <1>9. TypeOK'
    <2>1. createdSp(Base(n)) \in Int
      BY AreaFacts DEF createdSp, FrameLen
    <2>2. Depth[n] \in Nat
      BY ContextAssumption DEF ContextAssumption
    <2>3. /\ DOMAIN own'[n] = {"r0", "rest", "callee", "fp", "pushed", "param"}
          /\ own'[n].pushed \in 0 .. Depth[n] /\ own'[n].fp = None
      BY <1>6, <2>2 DEF Newborn
    <2>4. UNCHANGED <<psp, regs, lazy, mode, current>> /\ stage' = "schedule"
      BY HandlesFacts
    <2> QED
      BY <1>1, <1>2, <1>4, <1>5, <1>6, <1>7, <1>8, <2>1, <2>3, <2>4
      DEF IInv, TypeOK, States, Alive
  <1>10. \A u \in Slots \ {n} : Kept(u)
    BY <1>4, Apart
  <1>11. ASSUME NEW u \in Slots \ {t, n} PROVE Handled(u)
    BY <1>5, <1>6, <1>10, OthersHandled
  <1>12. Handled(n)
    <2>1. /\ Resting(n)' /\ ~ Floating(n)' /\ ~ (Used(n)' > SizeOf(Area(n).type))
      BY <1>4, <1>6, <1>8, NewbornRests
    <2> QED BY <1>1, <1>8, <2>1 DEF Handled, Alive
  <1>13. Handled(t)
    <2>1. Floating(t)' = Floating(t) /\ Used(t)' = Used(t)
      BY <1>7, HandlesFacts DEF Floating, Used
    <2> DEFINE o == [own EXCEPT ![t] = own'[t]]
    <2>2. Resting(t)'
      <3>1. /\ own[t].pushed \in Nat /\ Used(t) \in Nat
            /\ Used(t) = 1 + own[t].pushed + FrameLen + (IF Floating(t) THEN 1 ELSE 0)
            /\ Base(t) \in Nat /\ Low(t) \in Nat /\ Low(t) + Used(t) <= Base(t)
        BY <1>1, UsedFacts DEF IInv
      <3>2. \A a \in Low(t) .. Base(t) - 1 : mem'[a] = mem[a]
        <4>1. Low(t) .. Base(t) - 1 \subseteq Addresses
          BY <1>1, AreaFacts
        <4>2. Base(n) \in Nat /\ Low(n) \in Nat
              /\ (Base(n) <= Low(t) \/ Base(t) <= Low(n))
          BY <1>1, AreaFacts
        <4> QED BY <1>4, <3>1, <4>1, <4>2
      <3>3. /\ mem'[Base(t) - Used(t)] = mem[Base(t) - Used(t)]
            /\ mem'[Base(t) - Used(t) + 1] = mem[Base(t) - Used(t) + 1]
            /\ mem'[Base(t) - Used(t) + 3] = mem[Base(t) - Used(t) + 3]
        <4>1. /\ Base(t) - Used(t) \in Low(t) .. Base(t) - 1
              /\ Base(t) - Used(t) + 1 \in Low(t) .. Base(t) - 1
              /\ Base(t) - Used(t) + 3 \in Low(t) .. Base(t) - 1
          BY <3>1 DEF FrameLen
        <4> QED BY <3>2, <4>1
      <3>4. \A k \in 1 .. own[t].pushed : mem'[Base(t) - 1 - k] = mem[Base(t) - 1 - k]
        <4>1. \A k \in 1 .. own[t].pushed : Base(t) - 1 - k \in Low(t) .. Base(t) - 1
          BY <3>1 DEF FrameLen
        <4> QED BY <3>2, <4>1
      <3>5. current' = t
        BY HandlesFacts
      <3>6. Locals(t)'
        BY <1>1, <1>7, <3>4, <3>5 DEF Resting, Locals
      <3> QED BY <1>1, <1>7, <2>1, <3>3, <3>5, <3>6 DEF Resting
    <2>3. Floating(t) => t \in Floats
      BY <1>1 DEF IInv, TasksOK
    <2>4. current' = t
      BY HandlesFacts
    <2> QED BY <1>1, <1>7, <2>1, <2>2, <2>3, <2>4 DEF Handled, Alive, Floating, Used
  <1> QED BY <1>9, <1>11, <1>12, <1>13, HandledInv

LEMMA KernelTasksInv ==
  ASSUME StacksFit, FloatsStay, IInv, kernelTasks
  PROVE  IInv'
  <1>1. Handles /\ ~ taskStackOverflow(td[current]) /\ current \in Slots
    BY DEF kernelTasks, IInv, TypeOK
  <1>2. /\ td[current].state \in {"SYSCALL_BLK", "HWINT"}
        /\ regs.r0 = Zero <=> td[current].state = "SYSCALL_BLK"
    BY <1>1, HandlesFacts DEF IInv, KernelOK, BackOK
  <1>3. ASSUME NEW us \in AtMostOne(Blocked)
        PROVE  /\ {current} \cup us \in SUBSET Slots /\ us \in SUBSET Slots
               /\ \A u \in us : td[u].state = "BLOCKED" /\ u # current
    BY <1>1, <1>2 DEF AtMostOne, Blocked
  <1>4. CASE Syscall(current)
    <2>1. ASSUME NEW us \in AtMostOne(Blocked), Answered({current} \cup us)
          PROVE  IInv'
      <3>1. \A u \in {current} \cup us : u = current \/ td[u].state = "BLOCKED"
        BY <1>3
      <3>2. current \in {current} \cup us
        OBVIOUS
      <3> QED BY <1>1, <1>3, <2>1, <3>1, <3>2, AnsweredInv
    <2>2. CASE /\ current \in Blocking
               /\ td' = [td EXCEPT ![current].state = "BLOCKED"] /\ UNCHANGED <<mem, own>>
      BY <1>1, <2>2, UnansweredInv
    <2>3. CASE /\ current \in Mortal
               /\ td' = [td EXCEPT ![current].state = "EXITED"] /\ UNCHANGED <<mem, own>>
      BY <1>1, <2>3, UnansweredInv
    <2> QED BY <1>4, <2>1, <2>2, <2>3 DEF Syscall
  <1>5. ASSUME NEW n \in Slots, Create(current, n) PROVE IInv'
    BY <1>1, <1>5, CreateInv
  <1>6. ASSUME regs.r0 # Zero, NEW us \in AtMostOne(Blocked), Answered(us)
        PROVE  IInv'
    BY <1>1, <1>2, <1>3, <1>6, AnsweredInv
  <1> QED BY <1>4, <1>5, <1>6 DEF kernelTasks
-----------------------------------------------------------------------------
(* From the kernel to a task.                                              *)

LEMMA KernelToTaskInv ==
  ASSUME StacksFit, IInv, NEW t \in Slots, kernelToTask(t)
  PROVE  IInv'
  <1> DEFINE sp == Base(t) - Used(t)
  <1>0. /\ mode = "kernel" /\ stage = "schedule" /\ td[t].state \in {"RUNNING", "HWINT"}
        /\ Resting(t) /\ td[t].sp = sp
        /\ fpca = FALSE /\ regs.rest = Word("rest", Kernel, 1)
    BY DEF kernelToTask, IInv, RestingOK, KernelOK, Alive, Resting
  <1>1. /\ own[t].pushed \in Nat /\ Base(t) \in Nat /\ Low(t) \in Nat
        /\ Low(t) .. Base(t) - 1 \subseteq Addresses
        /\ Used(t) \in Nat /\ Low(t) + Used(t) <= Base(t)
        /\ Used(t) = 1 + own[t].pushed + FrameLen + (IF Floating(t) THEN 1 ELSE 0)
    BY UsedFacts, AreaFacts DEF IInv
  <1>2. /\ sp \in Low(t) .. Base(t) - 1 /\ sp + 1 \in Low(t) .. Base(t) - 1
        /\ sp + 2 \in Low(t) .. Base(t) - 1 /\ sp + 3 \in Low(t) .. Base(t) - 1
        /\ sp + 2 < Base(t) - 1 - own[t].pushed /\ sp \in Int
    BY <1>1 DEF FrameLen
  <1>3. R0(t) = own[t].r0
    BY <1>0 DEF R0, Resting
  <1>4. mem[sp] = own[t].callee /\ mem[sp + 1] = ToTask(Floating(t))
        /\ mem[sp + 3] = own[t].rest
    BY <1>0 DEF Resting
  <1>5. /\ msp' = <<CurrentTask(t), ToKernel(FALSE), Word("td", t, 1),
                    Word("rest", Kernel, 1)>>
        /\ regs' = [regs EXCEPT !.callee = mem[sp]] /\ lr' = mem[sp + 1]
        /\ mem' = [mem EXCEPT ![sp] = Dead, ![sp + 1] = Dead, ![sp + 2] = R0(t)]
        /\ psp' = sp + 2 /\ mode' = "resume" /\ fpca' = FALSE /\ current' = t
        /\ UNCHANGED <<lazy, stage, td, own>>
    BY <1>0 DEF kernelToTask
  <1> HIDE DEF sp
  <1>6. /\ DOMAIN mem' = Addresses /\ mem'[sp + 2] = own[t].r0
        /\ mem'[sp + 3] = own[t].rest
        /\ \A a \in Addresses : a \notin {sp, sp + 1, sp + 2} => mem'[a] = mem[a]
    <2>1. /\ DOMAIN mem = Addresses /\ sp \in Addresses /\ sp + 1 \in Addresses
          /\ sp + 2 \in Addresses /\ sp + 3 \in Addresses
      BY <1>1, <1>2 DEF IInv, TypeOK
    <2>2. \A a \in Addresses : a \notin {sp, sp + 1, sp + 2} => mem'[a] = mem[a]
      BY <1>5, <2>1
    <2>3. sp + 3 \notin {sp, sp + 1, sp + 2}
      BY <1>2
    <2>4. mem'[sp + 3] = own[t].rest
      BY <1>4, <2>1, <2>2, <2>3
    <2>5. mem'[sp + 2] = own[t].r0
      BY <1>2, <1>3, <1>5, <2>1
    <2> QED BY <1>5, <2>1, <2>2, <2>4, <2>5
  <1>7. DOMAIN regs' = DOMAIN regs /\ regs'.callee = own[t].callee
    BY <1>4, <1>5 DEF IInv, TypeOK
  <1>8. \A u \in Slots : Floating(u)' = Floating(u) /\ Used(u)' = Used(u)
    BY <1>5 DEF Floating, Used
  <1>9. TypeOK'
    BY <1>2, <1>5, <1>6, <1>7 DEF IInv, TypeOK, Modes
  <1>10. \A u \in Slots \ {t} : Kept(u)
    BY <1>2, <1>6, Apart
  <1>11. RestingOK' /\ TasksOK' /\ KernelOK' /\ OverflowKilled'
    BY <1>0, <1>5, <1>8, <1>9, <1>10, OthersOK DEF IInv, TasksOK, Alive
  <1>12. Locals(t)'
    <2> SUFFICES ASSUME NEW k \in 1 .. own[t].pushed
                 PROVE  mem'[Base(t) - 1 - k] = Word("local", t, k)
      BY <1>5 DEF Locals
    <2>1. Base(t) - 1 - k \in Low(t) .. Base(t) - 1
      BY <1>1 DEF FrameLen
    <2>2. Base(t) - 1 - k \notin {sp, sp + 1, sp + 2}
      BY <1>1, <1>2
    <2> QED BY <1>0, <1>1, <1>6, <2>1, <2>2 DEF Resting, Locals
  <1>13. Entered(t)'
    <2>1. (Base(t) - Used(t) + 2) = sp + 2 /\ (Base(t) - Used(t) + 2) + 1 = sp + 3
      BY <1>1 DEF sp
    <2>2. lr' = ToTask(Floating(t))'
      BY <1>4, <1>5 DEF Floating
    <2> QED BY <1>5, <1>6, <1>7, <1>8, <1>12, <2>1, <2>2 DEF Entered
  <1>14. CurrentOK'
    <2>1. CurrentTask(current)' = CurrentTask(t)
      BY <1>5 DEF CurrentTask
    <2> QED BY <1>0, <1>5, <1>13, <2>1 DEF CurrentOK
  <1>15. LazyOK'
    BY <1>5, <1>8 DEF IInv, LazyOK, LazyAt
  <1> QED BY <1>9, <1>11, <1>14, <1>15 DEF IInv
-----------------------------------------------------------------------------
(* The theorems.                                                           *)

LEMMA InitInv ==
  ASSUME StacksFit, Init
  PROVE  IInv
  <1> DEFINE tds == [t \in Slots |-> reinitializeTd(Area(t))]
  <1>1. 0 \in Slots /\ \A t \in Slots : tds[t] = reinitializeTd(Area(t))
    BY ContextAssumption DEF ContextAssumption, Slots, NumTasks
  <1>2. \A t \in Slots :
          /\ DOMAIN tds[t] = {"type", "base", "sp", "size", "state", "ret", "param"}
          /\ tds[t].type = Area(t).type /\ tds[t].base = Base(t)
          /\ tds[t].size = SizeOf(Area(t).type) /\ tds[t].sp = Base(t)
          /\ tds[t].state = "INVALID"
    BY <1>1 DEF reinitializeTd, Base
  <1>3. /\ mem = cpuCreateTask([a \in Addresses |-> Dead], Base(0), 0)
        /\ td = [tds EXCEPT ![0] = created(tds[0], Outcome(0))]
    BY <1>1, <1>2 DEF Init
  <1> HIDE DEF tds
  <1>4. /\ DOMAIN td = Slots /\ \A t \in Slots \ {0} : td[t] = tds[t]
        /\ td[0] = created(tds[0], Outcome(0))
    <2>1. DOMAIN tds = Slots
      BY DEF tds
    <2> QED BY <1>1, <1>3, <2>1
  <1>5. /\ DOMAIN td[0] = {"type", "base", "sp", "size", "state", "ret", "param"}
        /\ td[0].type = Area(0).type /\ td[0].base = Base(0)
        /\ td[0].size = SizeOf(Area(0).type) /\ td[0].sp = createdSp(Base(0))
        /\ td[0].state = "RUNNING" /\ td[0].ret = Outcome(0)
    BY <1>1, <1>2, <1>4 DEF created
  <1>6. /\ DOMAIN own = Slots
        /\ \A t \in Slots :
             /\ DOMAIN own[t] = {"r0", "rest", "callee", "fp", "pushed", "param"}
             /\ own[t].r0 = Outcome(0) /\ own[t].rest = Word("rest", t, 1)
             /\ own[t].callee = Word("callee", t, 1)
             /\ own[t].fp = None /\ own[t].pushed = 0
    BY DEF Init, Newborn
  <1>7. /\ DOMAIN mem = Addresses
        /\ mem[Base(0) - 5] = Word("callee", 0, 1) /\ mem[Base(0) - 4] = ToTask(FALSE)
        /\ mem[Base(0) - 2] = Word("rest", 0, 1)
    BY <1>1, <1>3, FrameFacts DEF FirstFrame
  <1>8. /\ psp = stack_top /\ lazy = Nowhere /\ mode = "kernel" /\ stage = "schedule"
        /\ current = 0 /\ fpca = FALSE
        /\ regs.rest = Word("rest", Kernel, 1) /\ regs.callee = Word("callee", Kernel, 0)
        /\ DOMAIN regs = {"r0", "rest", "callee", "fp"}
    BY DEF Init
  <1>9. \A t \in Slots : Base(t) \in Nat /\ Depth[t] \in Nat /\ stack_top \in Nat
                         /\ SizeOf(Area(t).type) \in Nat
    BY AreaFacts, ContextAssumption DEF ContextAssumption
  <1>10. TypeOK
    <2>1. createdSp(Base(0)) \in Int
      BY <1>1, <1>9 DEF createdSp, FrameLen
    <2>2. \A t \in Slots :
            /\ DOMAIN td[t] = {"type", "base", "sp", "size", "state", "ret", "param"}
            /\ td[t].type = Area(t).type /\ td[t].base = Base(t)
            /\ td[t].size = SizeOf(Area(t).type) /\ td[t].sp \in Int
            /\ td[t].state \in States
      BY <1>2, <1>4, <1>5, <1>9, <2>1 DEF States, Alive
    <2>3. psp \in Int /\ lazy \in Int
      BY <1>1, <1>8, <1>9 DEF Nowhere
    <2>4. \A t \in Slots :
            /\ DOMAIN own[t] = {"r0", "rest", "callee", "fp", "pushed", "param"}
            /\ own[t].pushed \in 0 .. Depth[t]
            /\ own[t].fp \in {None} \cup {Word("fp", t, v) : v \in {1, 2}}
      BY <1>6, <1>9
    <2>5. DOMAIN td = Slots /\ DOMAIN own = Slots
      BY <1>4, <1>6
    <2>6. current \in Slots /\ mode \in Modes /\ stage \in {"schedule", "back"}
      BY <1>1, <1>8 DEF Modes
    <2> QED BY <1>7, <1>8, <2>2, <2>3, <2>4, <2>5, <2>6 DEF TypeOK
  <1>11. \A t \in Slots : ~ Floating(t) /\ Used(t) = 5
    BY <1>6 DEF Floating, Used, FrameLen
  <1>12. Resting(0)
    <2>1. /\ createdSp(Base(0)) = Base(0) - 5 /\ (Base(0) - 5) + 1 = Base(0) - 4
          /\ (Base(0) - 5) + 3 = Base(0) - 2
      BY <1>1, <1>9 DEF createdSp, FrameLen
    <2>2. Locals(0)
      BY <1>1, <1>6 DEF Locals
    <2>3. ToTask(Floating(0)) = ToTask(FALSE)
      BY <1>1, <1>6 DEF Floating
    <2> QED BY <1>1, <1>5, <1>6, <1>7, <1>11, <2>1, <2>2, <2>3 DEF Resting
  <1>13. \A t \in Slots \ {0} : td[t].state = "INVALID"
    BY <1>2, <1>4
  <1>14. RestingOK /\ TasksOK
    BY <1>5, <1>11, <1>12, <1>13 DEF RestingOK, TasksOK, Alive
  <1>15. CurrentOK /\ KernelOK /\ LazyOK
    BY <1>8 DEF CurrentOK, KernelOK, LazyOK, CurrentTask
  <1>16. OverflowKilled
    <2>1. \A t \in Slots : 5 <= SizeOf(Area(t).type)
      BY DEF StacksFit, FrameLen
    <2> QED BY <1>5, <1>9, <1>11, <1>13, <2>1 DEF OverflowKilled, Suspended
  <1> QED BY <1>10, <1>14, <1>15, <1>16 DEF IInv

\* Every step of a task, of a handler and of the kernel preserves the invariant.
LEMMA NextInv ==
  ASSUME StacksFit, FloatsStay, IInv, [Next]_vars
  PROVE  IInv'
  <1>1. CASE UNCHANGED vars
    <2>1. UNCHANGED <<mem, psp, msp, regs, lr, fpca, lazy, mode, stage, current, td, own>>
      BY <1>1 DEF vars, hardware
    <2>2. \A t \in Slots :
            /\ Floating(t)' = Floating(t) /\ Used(t)' = Used(t) /\ Locals(t)' = Locals(t)
            /\ Resting(t)' = Resting(t) /\ LazyAt(t)' = LazyAt(t)
      BY <2>1 DEF Floating, Used, Locals, Resting, LazyAt
    <2>3. current \in Slots /\ current' = current
      BY <2>1 DEF IInv, TypeOK
    <2>4. /\ Entered(current)' = Entered(current) /\ InUser(current)' = InUser(current)
          /\ Passes(current)' = Passes(current) /\ BackOK' = BackOK
          /\ CurrentTask(current)' = CurrentTask(current)
      BY <2>1, <2>2, <2>3 DEF Entered, InUser, Passes, BackOK, CurrentTask, Floating
    <2>5. TypeOK'
      BY <2>1 DEF IInv, TypeOK
    <2>6. RestingOK' /\ TasksOK' /\ LazyOK' /\ OverflowKilled'
      BY <2>1, <2>2 DEF IInv, RestingOK, TasksOK, LazyOK, OverflowKilled, Suspended
    <2>7. CurrentOK' /\ KernelOK'
      BY <2>1, <2>4 DEF IInv, CurrentOK, KernelOK
    <2> QED BY <2>5, <2>6, <2>7 DEF IInv
  <1>2. ASSUME NEW t \in Slots,
               \/ Compute(t) \/ Float(t) \/ Push(t) \/ Pop(t)
               \/ Call(t) \/ Interrupt(t) \/ kernelToTask(t)
        PROVE  IInv'
    BY <1>2, ComputeInv, FloatInv, PushInv, PopInv, CallInv, InterruptInv, KernelToTaskInv
  <1>3. CASE TailChain
    BY <1>3, TailChainInv
  <1>4. CASE taskToKernel
    BY <1>4, TaskToKernelInv
  <1>5. CASE hwContextSwitch
    BY <1>5, HwContextSwitchInv
  <1>6. CASE Kill
    BY <1>6, KillInv
  <1>7. CASE kernelTasks
    BY <1>7, KernelTasksInv
  <1>8. CASE Resume
    BY <1>8, ResumeInv
  <1> QED BY <1>1, <1>2, <1>3, <1>4, <1>5, <1>6, <1>7, <1>8 DEF Next

\* The inductive invariant holds for all tasks that fit in their stacks, when
\* those that use the floating-point unit do not exit.
THEOREM ContextCorrect ==
  ASSUME StacksFit, FloatsStay
  PROVE  Spec => []IInv
  <1>1. Init => IInv
    BY InitInv
  <1>2. IInv /\ [Next]_vars => IInv'
    BY NextInv
  <1> QED BY <1>1, <1>2, PTL DEF Spec

\* A task goes on with the registers and the stack that it had, after any number
\* of calls and interrupts, its own and those of others.
THEOREM TasksUndisturbed ==
  ASSUME StacksFit, FloatsStay
  PROVE  Spec => []TaskUndisturbed
  <1>1. IInv => TaskUndisturbed
    <2> SUFFICES ASSUME IInv, mode = "task" PROVE TaskUndisturbed
      BY DEF TaskUndisturbed
    <2>1. InUser(current) /\ current \in Slots
      BY DEF IInv, CurrentOK, TypeOK
    <2>2. td[current].base = Base(current)
      BY <2>1 DEF IInv, TypeOK
    <2> QED BY <2>1, <2>2 DEF InUser, Locals, TaskUndisturbed
  <1> QED BY <1>1, ContextCorrect, PTL

\* prjTaskSwitch gives the kernel its registers back, and a result that tells a
\* call from an interrupt.
THEOREM KernelStaysUndisturbed ==
  ASSUME StacksFit, FloatsStay
  PROVE  Spec => []KernelUndisturbed
  <1>1. IInv => KernelUndisturbed
    BY DEF IInv, KernelOK, BackOK, KernelUndisturbed
  <1> QED BY <1>1, ContextCorrect, PTL

\* The kernel finds the fifth parameter of every call, when no task that makes
\* such calls uses the floating-point unit.
THEOREM FifthParameterFound ==
  ASSUME StacksFit, FloatsStay, FloatsCallShort
  PROVE  Spec => []ParametersRead
  <1>1. IInv => ParametersRead
    <2> SUFFICES ASSUME IInv, stage = "back", td[current].state = "SYSCALL_BLK"
                 PROVE  /\ own[current].param # None => td[current].param = own[current].param
                        /\ ParameterAt(td[current].sp) < td[current].base
      BY DEF ParametersRead
    <2>1. current \in Slots /\ mode = "kernel"
      BY DEF IInv, TypeOK, CurrentOK
    <2>2. BackOK /\ Resting(current)
      BY <2>1 DEF IInv, KernelOK, RestingOK, Alive
    <2>3. Floating(current) => current \in Floats
      BY <2>1 DEF IInv, TasksOK
    <2>4. own[current].param # None => td[current].param = own[current].param
      BY <2>2, <2>3 DEF BackOK, FloatsCallShort
    <2>5. /\ td[current].base = Base(current) /\ Base(current) \in Nat
          /\ td[current].sp = Base(current) - Used(current)
          /\ own[current].pushed \in Nat
          /\ Used(current) = 1 + own[current].pushed + FrameLen
                               + (IF Floating(current) THEN 1 ELSE 0)
      BY <2>1, <2>2, UsedFacts DEF IInv, TypeOK, Resting
    <2>6. ParameterAt(td[current].sp) < td[current].base
      BY <2>5 DEF ParameterAt, FrameLen
    <2> QED BY <2>4, <2>6
  <1> QED BY <1>1, ContextCorrect, PTL

\* A task is killed just when its frame did not fit in its stack.
THEOREM OverflowsKilled ==
  ASSUME StacksFit, FloatsStay
  PROVE  Spec => []OverflowKilled
  <1>1. IInv => OverflowKilled
    BY DEF IInv
  <1> QED BY <1>1, ContextCorrect, PTL
-----------------------------------------------------------------------------
(* One task with floating-point registers.                                 *)

\* The registers stay in the unit: they are those of the task, and the store is
\* due whenever it does not run.
FloatsInUnit ==
  \A t \in Slots : Floating(t) =>
    regs.fp = own[t].fp /\ ((mode = "task" /\ t = current) \/ lazy # Nowhere)

OneFloats == \A t, u \in Floats : t = u

LEMMA FloatsInUnitInv ==
  ASSUME StacksFit, FloatsStay, OneFloats, IInv, IInv', FloatsInUnit, [Next]_vars
  PROVE  FloatsInUnit'
  <1> SUFFICES ASSUME NEW t \in Slots, Floating(t)'
               PROVE  /\ regs'.fp = own'[t].fp
                      /\ (mode' = "task" /\ t = current') \/ lazy' # Nowhere
    BY DEF FloatsInUnit
  <1>0. /\ DOMAIN regs = {"r0", "rest", "callee", "fp"} /\ current \in Slots
        /\ DOMAIN own = Slots /\ DOMAIN own[t] = {"r0", "rest", "callee", "fp", "pushed", "param"}
        /\ \A u \in Slots : Floating(u) => u \in Floats
        /\ t \in Floats
    BY DEF IInv, TypeOK, TasksOK
  <1>1. CASE UNCHANGED vars
    BY <1>1 DEF vars, hardware, FloatsInUnit, Floating
  <1>2. ASSUME NEW u \in Slots, Compute(u) PROVE FloatsInUnit'
    <2>1. regs'.fp = regs.fp /\ \A w \in Slots : own'[w].fp = own[w].fp
      BY <1>2 DEF Compute, IInv, TypeOK
    <2> QED BY <1>2, <2>1 DEF Compute, FloatsInUnit, Floating
  <1>3. ASSUME NEW u \in Slots, Float(u) PROVE FloatsInUnit'
    <2>1. /\ regs'.fp = own'[u].fp /\ mode' = "task" /\ u = current'
          /\ \A w \in Slots \ {u} : own'[w] = own[w]
      BY <1>0, <1>3 DEF Float, InTask, IInv, TypeOK
    <2>2. \A w \in Slots : Floating(w)' => w = u
      BY <1>3 DEF Float, OneFloats, IInv, TasksOK
    <2> QED BY <2>1, <2>2 DEF FloatsInUnit
  <1>4. ASSUME NEW u \in Slots, Push(u) \/ Pop(u) PROVE FloatsInUnit'
    <2>1. /\ own'[u].fp = own[u].fp
          /\ \A w \in Slots \ {u} : own'[w] = own[w]
      <3>1. CASE Push(u)
        BY <1>0, <3>1 DEF Push, IInv, TypeOK
      <3>2. CASE Pop(u)
        BY <1>0, <3>2 DEF Pop, IInv, TypeOK
      <3> QED BY <1>4, <3>1, <3>2
    <2>2. \A w \in Slots : own'[w].fp = own[w].fp
      BY <2>1
    <2> QED BY <1>4, <2>2 DEF Push, Pop, FloatsInUnit, Floating
  <1>5. ASSUME NEW u \in Slots, Call(u) \/ Interrupt(u) PROVE FloatsInUnit'
    <2>1. \A w \in Slots : own'[w].fp = own[w].fp
      <3>1. CASE own' = own
        BY <3>1
      <3>2. ASSUME NEW p, own' = [own EXCEPT ![u].param = p]
            PROVE  own'[u].fp = own[u].fp /\ \A w \in Slots \ {u} : own'[w] = own[w]
        BY <1>0, <3>2 DEF IInv, TypeOK
      <3>3. CASE \E p : own' = [own EXCEPT ![u].param = p]
        BY <3>2, <3>3
      <3>4. own' = own \/ \E p : own' = [own EXCEPT ![u].param = p]
        BY <1>5 DEF Call, Interrupt
      <3> QED BY <3>1, <3>3, <3>4
    <2>2. PICK h \in {"contextSwitch", "hwContextSwitch"} : InTask(u) /\ Stacks(h)
      BY <1>5 DEF Call, Interrupt
    <2>3. /\ u = current /\ mode = "task" /\ InUser(u)
          /\ own[u].pushed \in Nat /\ Base(u) \in Nat /\ Low(u) \in Nat
          /\ Low(u) + Used(u) <= Base(u)
          /\ Used(u) = 1 + own[u].pushed + FrameLen + (IF Floating(u) THEN 1 ELSE 0)
      BY <2>2, UserFacts
    <2>4. Floating(u) => lazy' # Nowhere
      <3> SUFFICES ASSUME Floating(u) PROVE lazy' # Nowhere
        OBVIOUS
      <3>1. lazy' = psp - 1 /\ psp = Base(u) - 1 - own[u].pushed
        BY <2>2, <2>3 DEF Stacks, InUser
      <3> QED BY <2>3, <3>1 DEF FrameLen, Nowhere
    <2>5. ~ Floating(u) => lazy' = lazy
      BY <2>2, <2>3 DEF Stacks, InUser
    <2>6. regs' = regs /\ current' = current
      BY <2>2 DEF Stacks
    <2>7. \A w \in Slots : Floating(w)' = Floating(w)
      BY <2>1 DEF Floating
    <2>8. ASSUME NEW w \in Slots, Floating(w)
          PROVE  regs'.fp = own'[w].fp /\ lazy' # Nowhere
      BY <2>1, <2>3, <2>4, <2>5, <2>6, <2>8 DEF FloatsInUnit
    <2> QED BY <2>7, <2>8 DEF FloatsInUnit
  <1>6. ASSUME NEW u \in Slots, kernelToTask(u) PROVE FloatsInUnit'
    <2>1. regs'.fp = regs.fp /\ mode = "kernel"
      BY <1>0, <1>6 DEF kernelToTask
    <2> QED BY <1>6, <2>1 DEF kernelToTask, FloatsInUnit, Floating
  <1>7. CASE TailChain
    BY <1>7 DEF TailChain, FloatsInUnit, Floating
  <1>8. CASE taskToKernel \/ hwContextSwitch
    <2>1. PICK s, new, reason : SaveTask(s, new, reason)
      BY <1>8 DEF taskToKernel, hwContextSwitch
    <2>2. regs'.fp = regs.fp /\ UNCHANGED <<lazy, current, own>> /\ mode # "task"
      BY <1>0, <1>8, <2>1 DEF SaveTask, taskToKernel, hwContextSwitch
    <2> QED BY <2>2 DEF FloatsInUnit, Floating
  <1>9. CASE Kill \/ kernelTasks
    <2>1. Handles
      BY <1>9 DEF Kill, kernelTasks
    <2>2. /\ UNCHANGED <<regs, lazy, mode, current>> /\ mode = "kernel"
      BY <2>1, HandlesFacts
    <2>3. ASSUME NEW w \in Slots, Floating(w)' PROVE own'[w].fp = own[w].fp
      <3>1. CASE Kill
        BY <3>1 DEF Kill
      <3>2. ASSUME NEW ts, Answered(ts) PROVE own'[w].fp = own[w].fp
        BY <3>2 DEF Answered, IInv, TypeOK
      <3>3. ASSUME NEW n \in Slots, Create(current, n) PROVE own'[w].fp = own[w].fp
        <4>1. own'[n].fp = None \/ n = current
          BY <1>0, <3>3 DEF Create, Newborn, IInv, TypeOK
        <4>2. n # current
          BY <3>3 DEF Create, FirstFree, isTdAvailable
        <4>3. w # n
          BY <2>3, <4>1, <4>2 DEF Floating
        <4> QED BY <1>0, <3>3, <4>3 DEF Create, IInv, TypeOK
      <3> QED BY <1>9, <3>1, <3>2, <3>3 DEF kernelTasks, Syscall
    <2> QED BY <2>2, <2>3 DEF FloatsInUnit, Floating
  <1>10. CASE Resume
    <2>1. /\ mode = "resume" /\ mode' = "task" /\ UNCHANGED <<current, own>>
      BY <1>10 DEF Resume
    <2>2. lr[3] = Floating(current)
      BY <2>1 DEF IInv, CurrentOK, Entered, ToTask, Word
    <2>3. Floating(t)
      BY <2>1 DEF Floating
    <2>4. regs.fp = own[t].fp /\ lazy # Nowhere
      BY <2>1, <2>3 DEF FloatsInUnit
    <2>5. regs'.fp = regs.fp
      BY <1>0, <1>10, <2>4 DEF Resume
    <2>6. lazy' = IF Floating(current) THEN Nowhere ELSE lazy
      BY <1>10, <2>2 DEF Resume
    <2>7. Floating(current) => current = t
      BY <1>0 DEF OneFloats
    <2> QED BY <2>1, <2>4, <2>5, <2>6, <2>7
  <1> QED
    BY <1>1, <1>2, <1>3, <1>4, <1>5, <1>6, <1>7, <1>8, <1>9, <1>10
    DEF Next, FloatsInUnit

\* With one task that uses the floating-point unit, its registers are kept: the
\* disagreement needs two.
THEOREM OneTaskKeepsFloats ==
  ASSUME StacksFit, FloatsStay, OneFloats
  PROVE  Spec => []FloatsKept
  <1>1. Init => FloatsInUnit
    <2>1. Init => \A t \in Slots : own[t].fp = None
      BY DEF Init, Newborn
    <2> QED BY <2>1 DEF FloatsInUnit, Floating
  <1>2. IInv /\ IInv' /\ FloatsInUnit /\ [Next]_vars => FloatsInUnit'
    BY FloatsInUnitInv
  <1>3. IInv /\ FloatsInUnit => FloatsKept
    BY DEF IInv, TypeOK, FloatsInUnit, FloatsKept, Floating
  <1> QED BY <1>1, <1>2, <1>3, ContextCorrect, PTL DEF Spec
=============================================================================
