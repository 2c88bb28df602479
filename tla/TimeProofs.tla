----------------------------- MODULE TimeProofs -----------------------------
(***************************************************************************)
(* What a task is told is the time, the kernel charges none to itself, and *)
(* every microsecond is charged once, for any finite set of tasks, any     *)
(* width of a word and any length of a tick.                               *)
(***************************************************************************)
EXTENDS TimeAccounts, FiniteSetTheorems, TLAPS

USE DEF counter, clock, accounts, loop, Readers, systemMicroCount

\* What the counter has when the handler has stored so much of the sum.
CounterRight ==
  /\ handler \in {"idle", "low"} => low + WordSize * high = Tick * ticks
  /\ handler = "high" => low + WordSize * high = Tick * ticks + Tick
  /\ handler = "carry" => low + WordSize * high + WordSize = Tick * ticks + Tick

\* The mask is off only while a task runs, and only then the handler does.
Masks ==
  /\ (masked <=> pc # "task")
  /\ handler # "idle" => pc = "task"
  /\ reading = "low" => got = low

\* The running task was entered in the past; since it has entered the kernel no
\* time has gone by.
Entered ==
  /\ pc \in {"task", "charge"} => userTimeEntryMicros[currentTask] <= Tick * ticks
  /\ pc = "accountSystem" => systemTimeEntryMicros[currentTask] = Tick * ticks
  /\ pc \in {"handle", "micros", "top"} /\ currentTask # Null =>
       systemTimeEntryMicros[currentTask] \in {0, Tick * ticks}

TimeInv == CounterRight /\ Masks /\ Entered /\ KernelTimeUncharged
-----------------------------------------------------------------------------
LEMMA Wraps ==
  ASSUME NEW w \in Nat \ {0}, NEW l \in 0 .. w - 1, NEW t \in 1 .. w
  PROVE  (l + t) % w = IF l + t >= w THEN l + t - w ELSE l + t
<1>1. CASE l + t < w
  BY <1>1
<1>2. CASE l + t >= w
  BY <1>2
<1> QED BY <1>1, <1>2

LEMMA Stepwise ==
  ASSUME NEW a \in Nat, NEW b \in Nat
  PROVE  a * (b + 1) = a * b + a /\ a * b \in Nat /\ a * 0 = 0
OBVIOUS

\* A read that returns has the whole counter.
LEMMA GotIsNow ==
  ASSUME TypeOK, CounterRight, Masks, NEW p, Reads(p)
  PROVE  Got = Tick * ticks /\ Got \in Nat
<1>1. WordSize * high \in Nat
  BY TimeAssumption, Stepwise DEF TypeOK
<1> QED BY <1>1 DEF TypeOK, CounterRight, Masks, Reads, Thread, Got
-----------------------------------------------------------------------------
\* Every variable keeps to its type, the timer's interrupt is enabled but at the
\* reads, and the mask is as the loop has it (rtos_main, getSystemTimerMicros).
THEOREM InvariantKept == Spec => [](TypeOK /\ TimeInv)
<1> USE TimeAssumption DEF TypeOK, TimeInv
<1>1. Init => TypeOK /\ TimeInv
  <2>1. WordSize * 0 = 0 /\ Tick * 0 = 0
    BY Stepwise
  <2>2. Init => TypeOK
    <3> SUFFICES ASSUME Init  PROVE TypeOK
      OBVIOUS
    <3>1. 0 \in 0 .. WordSize - 1 /\ [t \in Tasks |-> 0] \in [Tasks -> Nat]
      OBVIOUS
    <3>2. /\ timeout \in BOOLEAN /\ masked \in BOOLEAN
          /\ timerEnabled \in BOOLEAN /\ (timerEnabled <=> reading = "no")
      BY DEF Init
    <3> QED BY <3>1, <3>2 DEF Init
  <2> QED BY <2>1, <2>2 DEF Init, CounterRight, Masks, Entered, KernelTimeUncharged
<1>2. TypeOK /\ TimeInv /\ [Next]_vars => (TypeOK /\ TimeInv)'
  <2> SUFFICES ASSUME TypeOK, TimeInv, [Next]_vars  PROVE (TypeOK /\ TimeInv)'
    OBVIOUS
  <2>1. CASE Timeout
    BY <2>1 DEF Timeout, CounterRight, Masks, Entered, KernelTimeUncharged
  <2>2. CASE HandlerStarts
    BY <2>2 DEF HandlerStarts, CounterRight, Masks, Entered, KernelTimeUncharged
  <2>3. CASE StoreLow
    <3>1. low' = IF low + Tick >= WordSize THEN low + Tick - WordSize ELSE low + Tick
      <4>1. low \in 0 .. WordSize - 1 /\ Tick \in 1 .. WordSize /\ WordSize \in Nat \ {0}
        OBVIOUS
      <4>2. (low + Tick) % WordSize =
              IF low + Tick >= WordSize THEN low + Tick - WordSize ELSE low + Tick
        BY <4>1, Wraps, Zenon
      <4> QED BY <2>3, <4>2 DEF StoreLow
    <3>2. low' \in 0 .. WordSize - 1
      BY <3>1
    <3>3. WordSize * high \in Nat /\ Tick * ticks \in Nat
      BY Stepwise
    <3>4. CounterRight'
      BY <2>3, <3>1, <3>3 DEF StoreLow, CounterRight
    <3> QED BY <2>3, <3>2, <3>4 DEF StoreLow, Masks, Entered, KernelTimeUncharged
  <2>4. CASE StoreHigh
    <3>1. /\ WordSize * (high + 1) = WordSize * high + WordSize
          /\ Tick * (ticks + 1) = Tick * ticks + Tick
          /\ WordSize * high \in Nat /\ Tick * ticks \in Nat
      BY Stepwise
    <3>2. CounterRight'
      BY <2>4, <3>1 DEF StoreHigh, Carry, CounterRight
    <3>3. TypeOK'
      BY <2>4 DEF StoreHigh, Carry
    <3>4. Masks'
      BY <2>4 DEF StoreHigh, Masks
    <3>5. pc = "task"
      BY <2>4 DEF StoreHigh, Masks
    <3>6. Entered'
      BY <2>4, <3>1, <3>5 DEF StoreHigh, Entered
    <3> QED BY <2>4, <3>2, <3>3, <3>4, <3>6 DEF StoreHigh, KernelTimeUncharged
  <2>5. CASE Disable
    BY <2>5 DEF Disable, Thread, CounterRight, Masks, Entered, KernelTimeUncharged
  <2>6. CASE LoadLow
    BY <2>6 DEF LoadLow, Thread, CounterRight, Masks, Entered, KernelTimeUncharged
  <2>7. CASE Top
    BY <2>7 DEF Top, Rest, Thread, CounterRight, Masks, Entered, KernelTimeUncharged
  <2>8. CASE AccountSystem
    <3>1. Got = systemTimeEntryMicros[currentTask] /\ Got \in Nat
      <4>1. Reads("accountSystem") /\ pc = "accountSystem"
        BY <2>8 DEF AccountSystem, Reads
      <4>2. Got = Tick * ticks /\ Got \in Nat
        BY <4>1, GotIsNow
      <4> QED BY <4>1, <4>2 DEF Entered
    <3>2. systemTimeMicros' = systemTimeMicros
      BY <2>8, <3>1 DEF AccountSystem, Add, KernelTimeUncharged
    <3>3. TypeOK'
      BY <2>8, <3>2 DEF AccountSystem, Reads, Thread, Enable
    <3> QED BY <2>8, <3>2, <3>3 DEF AccountSystem, Reads, Thread, CounterRight, Masks,
                               Entered, KernelTimeUncharged
  <2>9. CASE Pick
    BY <2>9 DEF Pick, Rest, Thread, CounterRight, Masks, Entered, KernelTimeUncharged
  <2>10. CASE Enter
    <3>1. Got = Tick * ticks /\ Got \in Nat
      BY <2>10, GotIsNow DEF Enter
    <3>2. TypeOK'
      <4>1. userTimeEntryMicros' \in [Tasks -> Nat]
        BY <2>10, <3>1 DEF Enter, Entry, Set, Reads
      <4>2. /\ timerEnabled' \in BOOLEAN /\ (timerEnabled' <=> reading' = "no")
            /\ masked' \in BOOLEAN
        BY <2>10 DEF Enter, Reads, Enable
      <4> QED BY <2>10, <4>1, <4>2 DEF Enter, Reads, Thread
    <3>3. Entered'
      BY <2>10, <3>1 DEF Enter, Entry, Set, Reads, Thread, Entered
    <3> QED BY <2>10, <3>2, <3>3 DEF Enter, Reads, Thread, CounterRight,
                               Masks, KernelTimeUncharged
  <2>11. CASE Leave
    BY <2>11 DEF Leave, Mask, Rest, Thread, CounterRight, Masks, Entered, KernelTimeUncharged
  <2>12. CASE Charge
    <3>1. Got = Tick * ticks /\ Got \in Nat
      BY <2>12, GotIsNow DEF Charge
    <3>2. Got - userTimeEntryMicros[currentTask] \in Nat
      BY <2>12, <3>1 DEF Charge, Reads, Entered
    <3>3. TypeOK'
      <4>1. userTimeMicros' \in [Tasks -> Nat]
        BY <2>12, <3>2 DEF Charge, Reads, Add
      <4>2. systemTimeEntryMicros' \in [Tasks -> Nat]
        BY <2>12, <3>1 DEF Charge, Reads, Set
      <4> QED BY <2>12, <4>1, <4>2 DEF Charge, Reads, Thread, Enable
    <3>4. Entered'
      BY <2>12, <3>1 DEF Charge, Set, Reads, Thread, Entered
    <3> QED BY <2>12, <3>3, <3>4 DEF Charge, Reads, Thread, CounterRight,
                               Masks, KernelTimeUncharged
  <2>13. CASE Handle
    BY <2>13 DEF Handle, Rest, Thread, CounterRight, Masks, Entered, KernelTimeUncharged
  <2>14. CASE Create
    BY <2>14 DEF Create, Set, Rest, Thread, CounterRight, Masks, Entered, KernelTimeUncharged
  <2>15. CASE AskMicros
    BY <2>15 DEF AskMicros, Rest, Thread, CounterRight, Masks, Entered, KernelTimeUncharged
  <2>16. CASE sys_getMonotonicMicros
    <3>1. Got \in Nat
      BY <2>16, GotIsNow DEF sys_getMonotonicMicros
    <3>2. TypeOK'
      BY <2>16, <3>1 DEF sys_getMonotonicMicros, Reads, Thread, Enable
    <3> QED BY <2>16, <3>2 DEF sys_getMonotonicMicros, Reads, Thread, CounterRight,
                               Masks, Entered, KernelTimeUncharged
  <2>17. CASE UNCHANGED vars
    BY <2>17 DEF vars, CounterRight, Masks, Entered, KernelTimeUncharged
  <2> QED BY <2>1, <2>2, <2>3, <2>4, <2>5, <2>6, <2>7, <2>8, <2>9, <2>10, <2>11, <2>12,
             <2>13, <2>14, <2>15, <2>16, <2>17 DEF Next
<1> QED BY <1>1, <1>2, PTL DEF Spec

\* Types, and where the timer is held back (getSystemTimerMicros, rtos_main).
THEOREM TypeCorrect == Spec => []TypeOK
BY InvariantKept, PTL

\* The kernel charges no time to anybody (rtos_main, contextSwitch.asm).
THEOREM NoSystemTime == Spec => []KernelTimeUncharged
<1>1. TimeInv => KernelTimeUncharged
  BY DEF TimeInv
<1> QED BY <1>1, InvariantKept, PTL

\* A task is told the time of all interrupts handled so far, however the words of
\* the counter wrap (sys_getMonotonicMicros, systemTimerISR).
THEOREM TimeIsToldRight == Spec => ReadsRight
<1>1. TypeOK /\ TimeInv /\ [Next]_vars => [told' # told => told' = Tick * ticks]_vars
  <2> SUFFICES ASSUME TypeOK, TimeInv, Next, told' # told  PROVE told' = Tick * ticks
    BY DEF vars
  <2>1. sys_getMonotonicMicros
    BY DEF Next, Timeout, HandlerStarts, StoreLow, StoreHigh, Disable, LoadLow, Top,
           AccountSystem, Pick, Enter, Leave, Charge, Handle, Create, AskMicros
  <2> QED BY <2>1, GotIsNow DEF TimeInv, sys_getMonotonicMicros
<1> QED BY <1>1, InvariantKept, PTL DEF Spec, ReadsRight
-----------------------------------------------------------------------------
(* Sums over finite sets, as FoldFunction takes them.                      *)

Picked(s) == CHOOSE x \in s : TRUE

\* v[s] is the sum of f over s, for every part s of S.
Sums(f, v, S) ==
  v = [s \in SUBSET S |-> IF s = {} THEN 0 ELSE f[Picked(s)] + v[s \ {Picked(s)}]]

Total(f) == FoldFunction(LAMBDA x, y : x + y, 0, f)

LEMMA TotalIsSum ==
  ASSUME NEW S, NEW f, DOMAIN f = S
  PROVE  Total(f) = (CHOOSE v : Sums(f, v, S))[S]
BY DEF Total, FoldFunction, FoldFunctionOnSet, MapThenFoldSet, Sums, Picked

\* Of some finite sets one has none of the others inside.
LEMMA LeastSubset ==
  ASSUME NEW S, IsFiniteSet(S), NEW D, D \subseteq SUBSET S, D # {}
  PROVE  \E s \in D : \A r \in D : r \subseteq s => r = s
<1>1. FiniteSubsetsOf(S) = SUBSET S
  BY FS_FiniteSubsetsOfFinite
<1>2. IsWellFoundedOn(StrictSubsetOrdering(S), SUBSET S)
  BY <1>1, FS_StrictSubsetOrderingWellFounded
<1>3. \E s \in D : \A r \in D : ~ (<<r, s>> \in StrictSubsetOrdering(S))
  BY <1>2, WFMin
<1>4. PICK s \in D : \A r \in D : ~ (<<r, s>> \in StrictSubsetOrdering(S))
  BY <1>3
<1>5. \A r \in D : r \subseteq s => r = s
  BY <1>4 DEF StrictSubsetOrdering
<1> QED BY <1>5

LEMMA PickedIn ==
  ASSUME NEW S, NEW s \in SUBSET S, s # {}
  PROVE  /\ Picked(s) \in s /\ Picked(s) \in S
         /\ s \ {Picked(s)} \in SUBSET S
         /\ s \ {Picked(s)} \subseteq s /\ s \ {Picked(s)} # s
<1>1. Picked(s) \in s
  BY DEF Picked
<1> QED BY <1>1

LEMMA SumsUnique ==
  ASSUME NEW S, IsFiniteSet(S), NEW f, NEW v, NEW w, Sums(f, v, S), Sums(f, w, S)
  PROVE  v = w
<1> DEFINE D == {s \in SUBSET S : v[s] # w[s]}
<1>1. CASE D # {}
  <2>1. PICK s \in D : \A r \in D : r \subseteq s => r = s
    <3>1. D \subseteq SUBSET S
      OBVIOUS
    <3> HIDE DEF D
    <3> QED BY <1>1, <3>1, LeastSubset
  <2>2. s # {}
    BY DEF Sums
  <2>3. s \ {Picked(s)} \in SUBSET S /\ s \ {Picked(s)} \notin D
    BY <2>1, <2>2, PickedIn
  <2>4. v[s] = f[Picked(s)] + v[s \ {Picked(s)}]
    BY <2>2 DEF Sums
  <2>5. w[s] = f[Picked(s)] + w[s \ {Picked(s)}]
    BY <2>2 DEF Sums
  <2> QED BY <2>3, <2>4, <2>5
<1>2. CASE D = {}
  <2>1. \A s \in SUBSET S : v[s] = w[s]
    BY <1>2
  <2>2. /\ v = [s \in SUBSET S |-> v[s]]
        /\ w = [s \in SUBSET S |-> w[s]]
    BY DEF Sums
  <2> QED BY <2>1, <2>2
<1> QED BY <1>1, <1>2

\* The sums over the parts of a part.
LEMMA SumsWithin ==
  ASSUME NEW S, NEW f, NEW v, Sums(f, v, S), NEW T \in SUBSET S,
         NEW w, w = [s \in SUBSET T |-> v[s]]
  PROVE  Sums(f, w, T)
<1>1. ASSUME NEW s \in SUBSET T
      PROVE  w[s] = IF s = {} THEN 0 ELSE f[Picked(s)] + w[s \ {Picked(s)}]
  <2>1. CASE s = {}
    BY <2>1 DEF Sums
  <2>2. CASE s # {}
    <3>1. s \in SUBSET S /\ s \ {Picked(s)} \in SUBSET T
      BY <2>2, PickedIn
    <3>2. v[s] = f[Picked(s)] + v[s \ {Picked(s)}]
      BY <2>2, <3>1 DEF Sums
    <3> QED BY <2>2, <3>1, <3>2
  <2> QED BY <2>1, <2>2
<1>2. w = [s \in SUBSET T |-> w[s]]
  OBVIOUS
<1> QED BY <1>1, <1>2 DEF Sums

LEMMA SumsExist ==
  ASSUME NEW S, IsFiniteSet(S), NEW f
  PROVE  \E v : Sums(f, v, S)
<1> DEFINE D == {s \in SUBSET S : ~ \E v : Sums(f, v, s)}
           V(s) == CHOOSE v : Sums(f, v, s)
<1> SUFFICES ASSUME D # {} PROVE FALSE
  OBVIOUS
<1>1. PICK s \in D : \A r \in D : r \subseteq s => r = s
  <2>1. D \subseteq SUBSET S
    OBVIOUS
  <2> HIDE DEF D
  <2> QED BY <2>1, LeastSubset
<1>2. \A r \in SUBSET s : r # s => Sums(f, V(r), r)
  <2> SUFFICES ASSUME NEW r \in SUBSET s, r # s PROVE Sums(f, V(r), r)
    OBVIOUS
  <2>1. r \in SUBSET S /\ r \notin D
    BY <1>1
  <2>2. \E v : Sums(f, v, r)
    BY <2>1
  <2> QED BY <2>2
<1> HIDE DEF D, V
<1>3. PICK w : w = [r \in SUBSET s |->
                      IF r = {} THEN 0
                      ELSE f[Picked(r)] + V(r \ {Picked(r)})[r \ {Picked(r)}]]
  OBVIOUS
<1>4. ASSUME NEW u \in SUBSET s, u # s
      PROVE  w[u] = V(u)[u]
  <2>1. Sums(f, V(u), u)
    BY <1>2, <1>4
  <2>2. CASE u = {}
    BY <1>3, <2>1, <2>2 DEF Sums
  <2>3. CASE u # {}
    <3> DEFINE x == u \ {Picked(u)}
    <3>1. x \in SUBSET u /\ x \in SUBSET s /\ x # s
      BY <1>4, <2>3, PickedIn
    <3>2. V(u)[u] = f[Picked(u)] + V(u)[x]
      BY <2>1, <2>3 DEF Sums
    <3>3. w[u] = f[Picked(u)] + V(x)[x]
      BY <1>3, <2>3
    <3> HIDE DEF x
    <3>4. PICK z : z = [r \in SUBSET x |-> V(u)[r]]
      OBVIOUS
    <3>5. Sums(f, z, x)
      BY <2>1, <3>1, <3>4, SumsWithin
    <3>6. Sums(f, V(x), x)
      BY <1>2, <3>1
    <3>7. IsFiniteSet(x)
      <4>1. x \subseteq S
        BY <1>1, <3>1 DEF D
      <4> QED BY <4>1, FS_Subset
    <3>8. z = V(x)
      BY <3>5, <3>6, <3>7, SumsUnique
    <3>9. V(u)[x] = V(x)[x]
      BY <3>4, <3>8
    <3> QED BY <3>2, <3>3, <3>9
  <2> QED BY <2>2, <2>3
<1>5. \A r \in SUBSET s :
        w[r] = IF r = {} THEN 0 ELSE f[Picked(r)] + w[r \ {Picked(r)}]
  <2> SUFFICES ASSUME NEW r \in SUBSET s
               PROVE  w[r] = IF r = {} THEN 0 ELSE f[Picked(r)] + w[r \ {Picked(r)}]
    OBVIOUS
  <2>1. CASE r = {}
    BY <1>3, <2>1
  <2>2. CASE r # {}
    <3>1. r \ {Picked(r)} \in SUBSET s /\ r \ {Picked(r)} # s
      BY <2>2, PickedIn
    <3>2. w[r \ {Picked(r)}] = V(r \ {Picked(r)})[r \ {Picked(r)}]
      BY <1>4, <3>1
    <3> QED BY <1>3, <2>2, <3>2
  <2> QED BY <2>1, <2>2
<1>6. w = [r \in SUBSET s |-> w[r]]
  BY <1>3
<1>7. Sums(f, w, s)
  BY <1>5, <1>6 DEF Sums
<1> QED BY <1>7 DEF D

LEMMA TotalHas ==
  ASSUME NEW S, IsFiniteSet(S), NEW f, DOMAIN f = S
  PROVE  \E v : Sums(f, v, S) /\ Total(f) = v[S]
BY SumsExist, TotalIsSum

LEMMA TotalOfNothing ==
  ASSUME NEW S, IsFiniteSet(S), NEW f, f = [s \in S |-> 0]
  PROVE  Total(f) = 0
<1>1. PICK v : Sums(f, v, S) /\ Total(f) = v[S]
  BY TotalHas
<1> DEFINE D == {s \in SUBSET S : v[s] # 0}
<1>2. ASSUME D # {}
      PROVE  FALSE
  <2>1. PICK s \in D : \A r \in D : r \subseteq s => r = s
    <3>1. D \subseteq SUBSET S
      OBVIOUS
    <3> HIDE DEF D
    <3> QED BY <1>2, <3>1, LeastSubset
  <2>2. s # {}
    BY <1>1 DEF Sums
  <2>3. s \ {Picked(s)} \in SUBSET S /\ s \ {Picked(s)} \notin D /\ f[Picked(s)] = 0
    BY <2>1, <2>2, PickedIn
  <2>4. v[s] = f[Picked(s)] + v[s \ {Picked(s)}]
    BY <1>1, <2>2 DEF Sums
  <2> QED BY <2>3, <2>4
<1> QED BY <1>1, <1>2

\* What changes in one place changes the sum by as much.
LEMMA TotalAdds ==
  ASSUME NEW S, IsFiniteSet(S), NEW f \in [S -> Int], NEW t \in S, NEW d \in Int,
         NEW g, g = [f EXCEPT ![t] = @ + d]
  PROVE  Total(f) \in Int /\ Total(g) = Total(f) + d
<1>1. PICK v : Sums(f, v, S) /\ Total(f) = v[S]
  BY TotalHas
<1>2. DOMAIN g = S /\ \A x \in S : g[x] = IF x = t THEN f[x] + d ELSE f[x]
  OBVIOUS
<1>3. PICK w : Sums(g, w, S) /\ Total(g) = w[S]
  BY <1>2, TotalHas
<1> DEFINE Right(s) == v[s] \in Int /\ w[s] = v[s] + (IF t \in s THEN d ELSE 0)
           D == {s \in SUBSET S : ~ Right(s)}
<1>4. ASSUME D # {}
      PROVE  FALSE
  <2>1. PICK s \in D : \A r \in D : r \subseteq s => r = s
    <3>1. D \subseteq SUBSET S
      OBVIOUS
    <3> HIDE DEF D
    <3> QED BY <1>4, <3>1, LeastSubset
  <2>2. s # {}
    <3>1. v[{}] = 0 /\ w[{}] = 0
      BY <1>1, <1>3 DEF Sums
    <3>2. Right({})
      BY <3>1
    <3> QED BY <2>1, <3>2
  <2> DEFINE x == Picked(s)
             r == s \ {x}
  <2>3. x \in s /\ x \in S /\ r \in SUBSET S /\ r \notin D
    BY <2>1, <2>2, PickedIn
  <2>4. v[s] = f[x] + v[r]
    BY <1>1, <2>2 DEF Sums
  <2>5. w[s] = g[x] + w[r]
    BY <1>3, <2>2 DEF Sums
  <2>6. t \in s <=> t = x \/ t \in r
    BY <2>3
  <2>7. t \in r => t # x
    OBVIOUS
  <2>8. Right(r)
    BY <2>3
  <2>9. f[x] \in Int /\ g[x] = f[x] + (IF t = x THEN d ELSE 0)
    BY <1>2, <2>3
  <2> HIDE DEF x, r
  <2>10. Right(s)
    BY <2>4, <2>5, <2>6, <2>7, <2>8, <2>9
  <2> QED BY <2>1, <2>10
<1>5. Right(S)
  BY <1>4
<1> QED BY <1>1, <1>3, <1>5
-----------------------------------------------------------------------------
\* What the tasks were charged is the time at which the running task was entered,
\* or the time that it is.
Charged ==
  Total(userTimeMicros) + forgotten =
    IF pc \in {"task", "charge"} THEN userTimeEntryMicros[currentTask] ELSE Tick * ticks

LEMMA UserTimesTotal ==
  ASSUME TypeOK
  PROVE  /\ Total(userTimeMicros) \in Int
         /\ \A t \in Tasks, n \in Int :
              Total(Add(userTimeMicros, t, n)) = Total(userTimeMicros) + n
         /\ \A t \in Tasks : Total(Set(userTimeMicros, t, 0)) =
                               Total(userTimeMicros) - userTimeMicros[t]
<1>1. userTimeMicros \in [Tasks -> Int] /\ IsFiniteSet(Tasks)
  BY TimeAssumption DEF TypeOK
<1>2. ASSUME NEW t \in Tasks, NEW n \in Int
      PROVE  /\ Total(userTimeMicros) \in Int
             /\ Total(Add(userTimeMicros, t, n)) = Total(userTimeMicros) + n
  <2>1. Add(userTimeMicros, t, n) = [userTimeMicros EXCEPT ![t] = @ + n]
    BY DEF Add
  <2>2. ASSUME NEW g, g = [userTimeMicros EXCEPT ![t] = @ + n]
        PROVE  Total(userTimeMicros) \in Int /\ Total(g) = Total(userTimeMicros) + n
    BY <1>1, <2>2, TotalAdds
  <2> QED BY <2>1, <2>2
<1>3. ASSUME NEW t \in Tasks
      PROVE  Total(Set(userTimeMicros, t, 0)) = Total(userTimeMicros) - userTimeMicros[t]
  <2>1. userTimeMicros[t] \in Int /\ 0 - userTimeMicros[t] \in Int
    BY <1>1
  <2>2. Set(userTimeMicros, t, 0) = Add(userTimeMicros, t, 0 - userTimeMicros[t])
    <3>1. userTimeMicros[t] + (0 - userTimeMicros[t]) = 0
      BY <2>1
    <3>2. /\ Set(userTimeMicros, t, 0) = [userTimeMicros EXCEPT ![t] = 0]
          /\ Add(userTimeMicros, t, 0 - userTimeMicros[t]) =
               [userTimeMicros EXCEPT
                  ![t] = userTimeMicros[t] + (0 - userTimeMicros[t])]
      BY DEF Set, Add
    <3> QED BY <3>1, <3>2
  <2>3. Total(userTimeMicros) \in Int
    BY <1>2, <2>1
  <2> QED BY <1>2, <2>1, <2>2, <2>3
<1>4. Total(userTimeMicros) \in Int
  <2>1. CASE Tasks = {}
    <3>1. userTimeMicros = [s \in Tasks |-> 0]
      BY <1>1, <2>1
    <3> QED BY <1>1, <3>1, TotalOfNothing
  <2>2. CASE Tasks # {}
    BY <1>2, <2>2
  <2> QED BY <2>1, <2>2
<1> QED BY <1>2, <1>3, <1>4

LEMMA NextCharged ==
  ASSUME TypeOK, TimeInv, Charged, [Next]_vars
  PROVE  Charged'
<1> USE TimeAssumption DEF TimeInv, Charged
<1>1. CASE \/ Timeout \/ HandlerStarts \/ StoreLow \/ Disable \/ LoadLow \/ UNCHANGED vars
  BY <1>1 DEF Timeout, HandlerStarts, StoreLow, Disable, LoadLow, Thread, vars
<1>2. CASE StoreHigh
  BY <1>2 DEF StoreHigh, Masks
<1>3. CASE Top \/ Pick \/ Handle \/ AskMicros \/ Leave
  BY <1>3 DEF Top, Pick, Handle, AskMicros, Leave, Rest, Thread
<1>4. CASE AccountSystem \/ sys_getMonotonicMicros
  BY <1>4 DEF AccountSystem, sys_getMonotonicMicros, Reads, Thread
<1>5. CASE Enter
  <2>1. Got = Tick * ticks
    BY <1>5, GotIsNow DEF Enter
  <2> QED BY <1>5, <2>1 DEF Enter, Entry, Set, Reads, Thread, TypeOK
<1>6. CASE Charge
  <2>1. Got = Tick * ticks /\ Got \in Nat
    BY <1>6, GotIsNow DEF Charge
  <2>2. currentTask \in Tasks /\ userTimeEntryMicros[currentTask] \in Nat
    BY <1>6 DEF Charge, Reads, TypeOK
  <2>3. Total(userTimeMicros') = Total(userTimeMicros)
                                   + (Got - userTimeEntryMicros[currentTask])
    BY <1>6, <2>1, <2>2, UserTimesTotal DEF Charge
  <2>4. /\ pc = "charge" /\ pc' \in {"handle", "top"}
        /\ forgotten' = forgotten /\ ticks' = ticks
    BY <1>6 DEF Charge, Reads, Thread
  <2>5. forgotten \in Nat /\ Total(userTimeMicros) \in Int
    BY UserTimesTotal DEF TypeOK
  <2> QED BY <2>1, <2>2, <2>3, <2>4, <2>5
<1>7. CASE Create
  <2>1. PICK t \in Tasks : /\ userTimeMicros' = Set(userTimeMicros, t, 0)
                           /\ forgotten' = forgotten + userTimeMicros[t]
    BY <1>7 DEF Create
  <2>2. Total(userTimeMicros') = Total(userTimeMicros) - userTimeMicros[t]
    BY <2>1, UserTimesTotal
  <2>3. /\ forgotten \in Nat /\ Total(userTimeMicros) \in Int
        /\ userTimeMicros[t] \in Nat
    BY UserTimesTotal DEF TypeOK
  <2>4. pc = "handle" /\ pc' = "top" /\ ticks' = ticks
    BY <1>7 DEF Create, Rest, Thread
  <2> QED BY <2>1, <2>2, <2>3, <2>4
<1> QED BY <1>1, <1>2, <1>3, <1>4, <1>5, <1>6, <1>7 DEF Next

\* Every microsecond of the counter is charged to one task, once, for any number of
\* tasks (rtos_main).
THEOREM EveryMicroCharged == Spec => []MicrosCharged
<1>1. Init => Charged
  <2>1. Init => Total(userTimeMicros) = 0
    BY TimeAssumption, TotalOfNothing DEF Init
  <2> QED BY <2>1, TimeAssumption, Stepwise DEF Init, Charged
<1>2. ASSUME TypeOK, TimeInv, Charged
      PROVE  MicrosCharged
  <2> SUFFICES ASSUME handler = "idle"
               PROVE  systemMicroCount =
                        Total(userTimeMicros) + forgotten
                          + (IF pc \in {"task", "charge"}
                             THEN systemMicroCount - userTimeEntryMicros[currentTask] ELSE 0)
    BY DEF MicrosCharged, Total, FoldFunction, FoldFunctionOnSet, MapThenFoldSet
  <2>1. systemMicroCount = Tick * ticks
    BY <1>2 DEF TimeInv, CounterRight
  <2>2. Tick * ticks \in Nat /\ forgotten \in Nat /\ Total(userTimeMicros) \in Int
    BY <1>2, TimeAssumption, Stepwise, UserTimesTotal DEF TypeOK
  <2>3. pc \in {"task", "charge"} => userTimeEntryMicros[currentTask] \in Nat
    BY <1>2 DEF TypeOK
  <2> QED BY <1>2, <2>1, <2>2, <2>3 DEF Charged
<1> QED BY <1>1, <1>2, NextCharged, InvariantKept, PTL DEF Spec


=============================================================================
