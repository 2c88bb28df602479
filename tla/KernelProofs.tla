---------------------------- MODULE KernelProofs ----------------------------
(***************************************************************************)
(* Proofs about Kernel, for every number of tasks, events and priorities   *)
(* and every workload.                                                     *)
(*                                                                         *)
(* The types are inductive by themselves.  The send queues and the event   *)
(* queues never lose, share or repeat a task: SendQueueOK,                 *)
(* ReceiverQueueEmpty and EventQueueOK are one inductive invariant with    *)
(* TypeOK and IdentifiersOK.                                               *)
(* The send queues need the event queues, for an interrupt makes the task  *)
(* of the first query ready without a look at its state; the event queues  *)
(* need live tasks to have identifiers, for a query without one is vacant; *)
(* a new task starts with an empty queue only because no old call can name *)
(* its identifier.                                                         *)
(***************************************************************************)
EXTENDS Kernel, FiniteSetTheorems, TLAPS

-----------------------------------------------------------------------------
(* The operators of Kernel.                                                *)

\* The two kinds of slots are slots, and null is neither a slot nor a query.
LEMMA SlotFacts ==
  /\ Regular \subseteq Slots /\ Micro \subseteq Slots
  /\ Slots \subseteq Nat /\ Queries \subseteq Nat
  /\ Null \notin Slots /\ Null \notin Queries /\ Nobody \notin Slots
  /\ 0 \in Slots
BY KernelAssumption
   DEF KernelAssumption, Regular, Micro, Slots, Queries, Null, Nobody

\* Outcomes and calls are of their types.
LEMMA RecordFacts ==
  /\ NoTid \in TidSet
  /\ NoCall \in Call
  /\ \A c \in Codes : Only(c) \in Outcome
  /\ \A c \in Codes, id \in TidSet : With(c, id) \in Outcome
BY KernelAssumption
   DEF KernelAssumption, NoTid, TidSet, NoCall, Call, Only, With, Outcome

\* The identifiers that tasks use are of their type, and what findTd returns
\* is null or the slot whose occupant has the identifier.
LEMMA TidFacts ==
  ASSUME TypeOK
  PROVE  /\ KnownTids \subseteq TidSet
         /\ \A i \in Slots : Tid(i) \in TidSet
         /\ \A id \in TidSet : findTd(id) \in Slots \cup {Null}
         /\ \A id \in TidSet : findTd(id) # Null =>
              findTd(id) \in Slots /\ id = Tid(findTd(id))
  <1>1. \A i \in Slots : i \in 0 .. NTasks + NMicro /\ gen[i] \in Nat
    BY KernelAssumption DEF KernelAssumption, TypeOK, Slots
  <1>2. KnownTids \subseteq TidSet
    <2>1. <<NTasks + NMicro, 1>> \in TidSet
      BY KernelAssumption DEF KernelAssumption, TidSet
    <2>2. \A i \in Slots : {i} \X (0 .. gen[i]) \subseteq TidSet
      BY <1>1 DEF TidSet
    <2> QED BY <2>1, <2>2 DEF KnownTids
  <1>3. \A i \in Slots : Tid(i) \in TidSet
    BY <1>1 DEF Tid, TidSet
  <1>4. \A id \in TidSet : findTd(id) \in Slots \cup {Null}
    BY DEF findTd
  <1>5. \A id \in TidSet : findTd(id) # Null =>
          findTd(id) \in Slots /\ id = Tid(findTd(id))
    BY DEF findTd, Tid, TidSet
  <1> QED BY <1>2, <1>3, <1>4, <1>5


-----------------------------------------------------------------------------
(* Type correctness.                                                       *)

\* The running task is in a slot, so it is not nobody, and was ready.
LEMMA Running ==
  ASSUME TypeOK, NEW t \in Slots, NEW op, Trap(t, op)
  PROVE  /\ current = t /\ current' = Nobody
         /\ state[t] \in {"RUNNING", "HWINT"}
BY SlotFacts DEF TypeOK, Trap, isTaskReady

\* Calls that end at once preserve the types.
LEMMA ReturnTypeOK ==
  ASSUME TypeOK, NEW t \in Slots, NEW r \in Outcome, Return(t, r),
         current' = Nobody, priority' \in [Slots -> Nat]
  PROVE  TypeOK'
BY DEF TypeOK, Return, States, sendQueue, eventQueue

\* Appending to a send queue, or to an event queue, preserves the types.
LEMMA PushTypes ==
  ASSUME TypeOK, NEW t \in Slots, NEW r \in Slots, push(t, r)
  PROVE  /\ sendQueueHead' \in [Slots -> Slots \cup {Null}]
         /\ sendQueueTail' \in [Slots -> Slots \cup {Null}]
         /\ sendQueueNext' \in [Slots -> Slots \cup {Null}]
BY DEF TypeOK, push

LEMMA PushEventTypes ==
  ASSUME TypeOK, NEW q \in Queries, NEW e \in EventTypes, pushEvent(q, e)
  PROVE  /\ eventQueueHead' \in [EventTypes -> Queries \cup {Null}]
         /\ eventQueueTail' \in [EventTypes -> Queries \cup {Null}]
         /\ nextQuery' \in [Queries -> Queries \cup {Null}]
BY DEF TypeOK, pushEvent

\* Creating a task, or failing to, preserves the types.
LEMMA CreateTypeOK ==
  ASSUME TypeOK, NEW t \in Slots, NEW R \in SUBSET Slots, NEW p \in Nat,
         CreateIn(t, R, p), current' = Nobody
  PROVE  TypeOK'
  <1>1. ASSUME NEW code \in {"INVAL_PRIORITY", "NO_SPACE"}, CreateFails(t, code)
        PROVE  TypeOK'
    BY <1>1, RecordFacts DEF CreateFails, TypeOK, States, Codes, sendQueue, eventQueue
  <1>2. ASSUME NEW n \in R, createTask(t, n, p)
        PROVE  TypeOK'
    <2>1. n \in Slots /\ <<n, newGeneration(n)>> \in TidSet
      BY KernelAssumption DEF KernelAssumption, TypeOK, Slots, TidSet, newGeneration
    <2>2. Only("PENDING") \in Outcome /\ With("OK", <<n, newGeneration(n)>>) \in Outcome
      BY <2>1, RecordFacts DEF Codes
    <2>3. ret' \in [Slots -> Outcome] /\ call' \in [Slots -> Call]
      BY <1>2, <2>1, <2>2, RecordFacts DEF createTask, TypeOK
    <2>4. /\ gen' \in [Slots -> Nat] /\ priority' \in [Slots -> Nat]
          /\ state' \in [Slots -> States]
      BY <1>2, <2>1 DEF createTask, newGeneration, TypeOK, States
    <2> QED
      BY <1>2, <2>1, <2>3, <2>4
      DEF createTask, emptySendQueue, TypeOK, eventQueue
  <1> QED BY <1>1, <1>2 DEF CreateIn

\* Every step preserves the types.
LEMMA NextTypeOK ==
  ASSUME TypeOK, [Next]_vars
  PROVE  TypeOK'
  <1> USE SlotFacts, RecordFacts, TidFacts
  <1>1. CASE UNCHANGED vars
    BY <1>1 DEF TypeOK, vars, sendQueue, eventQueue, isTaskReady
  <1>2. ASSUME NEW t \in Slots, Dispatch(t) PROVE TypeOK'
    BY <1>2 DEF Dispatch, TypeOK, Codes, sendQueue, eventQueue, isTaskReady
  <1>3. ASSUME NEW t \in Slots, Yield(t) PROVE TypeOK'
    BY <1>3, ReturnTypeOK DEF Yield, Trap, Codes, TypeOK
  <1>4. ASSUME NEW t \in Slots, Exit(t) \/ Overflow(t) PROVE TypeOK'
    BY <1>4 DEF Exit, Overflow, Trap, Leave, TypeOK, States, sendQueue, eventQueue
  <1>5. ASSUME NEW t \in Slots, ChangePriority(t) PROVE TypeOK'
    <2>1. priority' \in [Slots -> Nat]
      BY <1>5, KernelAssumption DEF KernelAssumption, ChangePriority, TypeOK
    <2> QED BY <1>5, <2>1, ReturnTypeOK DEF ChangePriority, Trap, Codes
  <1>6. ASSUME NEW t \in Slots, Create(t) PROVE TypeOK'
    BY <1>6, CreateTypeOK, KernelAssumption DEF KernelAssumption, Create, Trap
  <1>7. ASSUME NEW t \in Slots, CreateMicroTask(t) PROVE TypeOK'
    BY <1>7, CreateTypeOK DEF CreateMicroTask, Trap, TypeOK
  <1>8. ASSUME NEW t \in Slots, SendRefused(t) PROVE TypeOK'
    BY <1>8, ReturnTypeOK DEF SendRefused, Trap, Codes, TypeOK
  <1>9. ASSUME NEW t \in Slots, SendDirect(t) PROVE TypeOK'
    <2>1. PICK id \in KnownTids, len \in Lens, rlen \in Lens \ {0} :
            SendDirect(t)!2!(id, len, rlen)
      BY <1>9 DEF SendDirect
    <2> DEFINE r == findTd(id)
    <2>2. r \in Slots /\ id \in TidSet /\ Tid(t) \in TidSet
      BY <2>1
    <2>3. [tid |-> id, len |-> len, rlen |-> rlen] \in Call
      BY <2>2 DEF Call
    <2>4. call' \in [Slots -> Call]
      BY <2>1, <2>3 DEF TypeOK
    <2>5. /\ With("OK", Tid(t)) \in Outcome
          /\ With("TOO_SMALL", Tid(t)) \in Outcome
          /\ Only("OK") \in Outcome
      BY <2>2 DEF Codes
    <2>6. ret' \in [Slots -> Outcome]
      BY <2>1, <2>5 DEF TypeOK
    <2>7. state' \in [Slots -> States]
      BY <2>1 DEF TypeOK, States
    <2> QED
      BY <1>9, <2>1, <2>4, <2>6, <2>7 DEF SendDirect, Trap, TypeOK, eventQueue
  <1>10. ASSUME NEW t \in Slots, SendQueued(t) PROVE TypeOK'
    <2>1. PICK id \in KnownTids, len \in Lens, rlen \in Lens \ {0} :
            SendQueued(t)!2!(id, len, rlen)
      BY <1>10 DEF SendQueued
    <2>2. findTd(id) \in Slots /\ id \in TidSet
      BY <2>1
    <2>3. [tid |-> id, len |-> len, rlen |-> rlen] \in Call
      BY <2>2 DEF Call
    <2>4. call' \in [Slots -> Call]
      BY <2>1, <2>3 DEF TypeOK
    <2>5. /\ ret' \in [Slots -> Outcome]
          /\ state' \in [Slots -> States]
      BY <1>10 DEF SendQueued, TypeOK, Codes, States
    <2> QED
      BY <1>10, <2>1, <2>2, <2>4, <2>5, PushTypes
      DEF SendQueued, Trap, TypeOK, eventQueue
  <1>11. ASSUME NEW t \in Slots, NEW op, ReceiveRefused(t, op) PROVE TypeOK'
    BY <1>11
    DEF ReceiveRefused, Trap, TypeOK, States, Codes, sendQueue, eventQueue
  <1>12. ASSUME NEW t \in Slots, NEW op, ReceiveQueued(t, op) PROVE TypeOK'
    <2> DEFINE s == sendQueueHead[t]
    <2>1. s \in Slots /\ Tid(s) \in TidSet
      BY <1>12 DEF ReceiveQueued, TypeOK
    <2>2. /\ Only("OK") \in Outcome /\ Only("INCOMPLETE") \in Outcome
          /\ With("OK", Tid(s)) \in Outcome /\ With("TOO_SMALL", Tid(s)) \in Outcome
      BY <2>1 DEF Codes
    <2>3. ret' \in [Slots -> Outcome]
      BY <1>12, <2>1, <2>2 DEF ReceiveQueued, TypeOK
    <2>4. /\ state' \in [Slots -> States]
          /\ sendQueueHead' \in [Slots -> Slots \cup {Null}]
          /\ sendQueueNext' \in [Slots -> Slots \cup {Null}]
      BY <1>12, <2>1 DEF ReceiveQueued, TypeOK, States
    <2> QED
      BY <1>12, <2>3, <2>4 DEF ReceiveQueued, Trap, TypeOK, eventQueue
  <1>13. ASSUME NEW t \in Slots, ReceiveBlocks(t) PROVE TypeOK'
    <2>1. PICK cap \in Lens : call' = [call EXCEPT ![t] = [NoCall EXCEPT !.len = cap]]
      BY <1>13 DEF ReceiveBlocks
    <2>2. [NoCall EXCEPT !.len = cap] \in Call
      BY DEF NoCall, Call
    <2>3. call' \in [Slots -> Call]
      BY <2>1, <2>2 DEF TypeOK
    <2> QED
      BY <1>13, <2>3
      DEF ReceiveBlocks, Trap, TypeOK, States, Codes, sendQueue, eventQueue
  <1>14. ASSUME NEW t \in Slots, ReceiveNothing(t) PROVE TypeOK'
    BY <1>14, ReturnTypeOK DEF ReceiveNothing, Trap, Codes, TypeOK
  <1>15. ASSUME NEW t \in Slots, ReplyRefused(t) PROVE TypeOK'
    BY <1>15, ReturnTypeOK DEF ReplyRefused, Trap, Codes, TypeOK
  <1>16. ASSUME NEW t \in Slots, ReplyDelivers(t) PROVE TypeOK'
    <2>1. PICK id \in KnownTids, len \in Lens : ReplyDelivers(t)!2!(id, len)
      BY <1>16 DEF ReplyDelivers
    <2>2. findTd(id) \in Slots
      BY <2>1
    <2>3. call' \in [Slots -> Call]
      BY <2>1, <2>2 DEF TypeOK
    <2>4. Only("OK") \in Outcome /\ Only("INCOMPLETE") \in Outcome
          /\ Only("ERROR") \in Outcome
      BY DEF Codes
    <2>5. ret' \in [Slots -> Outcome]
      BY <2>1, <2>2, <2>4 DEF TypeOK
    <2>6. state' \in [Slots -> States]
      BY <2>1, <2>2 DEF TypeOK, States
    <2> QED
      BY <1>16, <2>3, <2>5, <2>6
      DEF ReplyDelivers, Trap, TypeOK, sendQueue, eventQueue
  <1>17. ASSUME NEW t \in Slots, AwaitEventRefused(t) PROVE TypeOK'
    BY <1>17, ReturnTypeOK DEF AwaitEventRefused, Trap, Codes, TypeOK
  <1>18. ASSUME NEW t \in Slots, AwaitEvent(t) PROVE TypeOK'
    <2>1. PICK q \in Queries, e \in EventTypes : AwaitEvent(t)!2!(q, e)
      BY <1>18 DEF AwaitEvent
    <2>2. /\ waitingTid' \in [Queries -> TidSet]
          /\ eventId' \in [Queries -> EventTypes \cup {0}]
      BY <2>1 DEF TypeOK
    <2>3. /\ ret' \in [Slots -> Outcome]
          /\ state' \in [Slots -> States]
      BY <1>18 DEF AwaitEvent, TypeOK, Codes, States
    <2> QED
      BY <1>18, <2>1, <2>2, <2>3, PushEventTypes
      DEF AwaitEvent, Trap, TypeOK, sendQueue
  <1>19. ASSUME NEW t \in Slots, Preempt(t) PROVE TypeOK'
    BY <1>19 DEF Preempt, TypeOK, States, sendQueue, eventQueue
  <1>20. ASSUME NEW t \in Slots, NEW e \in Devices, DeviceInterrupt(t, e)
         PROVE  TypeOK'
    <2> DEFINE q == eventQueueHead[e]
    <2>1. e \in EventTypes /\ q \in Queries
      BY <1>20, KernelAssumption DEF KernelAssumption, DeviceInterrupt, TypeOK
    <2>2. Only("VOLATILE") \in Outcome
      BY DEF Codes
    <2>3. /\ ret' \in [Slots -> Outcome]
          /\ state' \in [Slots -> States]
          /\ waitingTid' \in [Queries -> TidSet]
          /\ eventQueueHead' \in [EventTypes -> Queries \cup {Null}]
          /\ nextQuery' \in [Queries -> Queries \cup {Null}]
      BY <1>20, <2>1, <2>2 DEF DeviceInterrupt, TypeOK, States
    <2> QED
      BY <1>20, <2>3 DEF DeviceInterrupt, TypeOK, sendQueue
  <1> QED
    BY <1>1, <1>2, <1>3, <1>4, <1>5, <1>6, <1>7, <1>8, <1>9, <1>10, <1>11,
       <1>12, <1>13, <1>14, <1>15, <1>16, <1>17, <1>18, <1>19, <1>20
    DEF Next, Syscall, Interrupt

LEMMA InitTypeOK == Init => TypeOK
BY SlotFacts, RecordFacts, KernelAssumption
   DEF KernelAssumption, Init, TypeOK, States, Codes, Nobody

\* Every field keeps to its C type, and the task in user mode is a ready one,
\* for any number of slots, events and priorities and any workload.
THEOREM TypeCorrect == Spec => []TypeOK
  <1> QED BY InitTypeOK, NextTypeOK, PTL DEF Spec
-----------------------------------------------------------------------------
(* The invariant of the queues.                                            *)

QueueInv ==
  /\ TypeOK
  /\ IdentifiersOK
  /\ SendQueueOK
  /\ ReceiverQueueEmpty
  /\ EventQueueOK

-----------------------------------------------------------------------------
(* Linked lists.                                                           *)

\* f runs through the members of S from head to tail.
Runs(f, n, S, head, tail, next) ==
  /\ n = Cardinality(S) /\ n \in Nat /\ f \in [1 .. n -> S]
  /\ \A x \in S : \E i \in 1 .. n : f[i] = x
  /\ \A i, j \in 1 .. n : f[i] = f[j] => i = j
  /\ head = IF n = 0 THEN Null ELSE f[1]
  /\ \A i \in 1 .. n : next[f[i]] = IF i = n THEN Null ELSE f[i + 1]
  /\ n > 0 => tail = f[n]

LEMMA LinkedRuns ==
  ASSUME NEW S, IsFiniteSet(S), NEW head, NEW tail, NEW next
  PROVE  /\ Linked(S, head, tail, next) =>
              \E f, n : Runs(f, n, S, head, tail, next)
         /\ \A f, n : Runs(f, n, S, head, tail, next) =>
              Linked(S, head, tail, next)
  <1>1. Cardinality(S) \in Nat
    BY FS_CardinalityType
  <1> QED BY <1>1 DEF Linked, Runs

\* The list of nothing is the one whose head is null; its tail may be stale.
LEMMA ListEmpty ==
  ASSUME NEW tail, NEW next
  PROVE  Linked({}, Null, tail, next)
  <1>1. Cardinality({}) = 0 /\ IsFiniteSet({})
    BY FS_EmptySet
  <1> DEFINE f == [i \in 1 .. 0 |-> i]
  <1>2. Runs(f, 0, {}, Null, tail, next)
    BY <1>1 DEF Runs
  <1> QED BY <1>1, <1>2, LinkedRuns

\* The head and the tail are members; the head is null if there is none.
LEMMA ListEnds ==
  ASSUME NEW S, IsFiniteSet(S), Null \notin S, NEW head, NEW tail, NEW next,
         Linked(S, head, tail, next)
  PROVE  /\ S = {} <=> head = Null
         /\ head # Null => head \in S /\ tail \in S
         /\ \A x \in S : next[x] \in S \cup {Null}
  <1>1. PICK f, n : Runs(f, n, S, head, tail, next)
    BY LinkedRuns
  <1>2. ASSUME n = 0
        PROVE  S = {} /\ head = Null
    BY <1>1, <1>2 DEF Runs
  <1>3. ASSUME n # 0
        PROVE  head \in S /\ tail \in S
    <2>1. 1 \in 1 .. n /\ n \in 1 .. n
      BY <1>1, <1>3 DEF Runs
    <2> QED BY <1>1, <1>3, <2>1 DEF Runs
  <1>4. ASSUME NEW x \in S
        PROVE  next[x] \in S \cup {Null}
    <2>1. PICK i \in 1 .. n : f[i] = x
      BY <1>1 DEF Runs
    <2>2. i # n => i + 1 \in 1 .. n
      BY <1>1 DEF Runs
    <2> QED BY <1>1, <2>1, <2>2 DEF Runs
  <1> QED BY <1>2, <1>3, <1>4

\* Links of others do not matter.
LEMMA ListKept ==
  ASSUME NEW S, IsFiniteSet(S), NEW head, NEW tail, NEW next, NEW next2,
         Linked(S, head, tail, next), \A x \in S : next2[x] = next[x]
  PROVE  Linked(S, head, tail, next2)
  <1>1. PICK f, n : Runs(f, n, S, head, tail, next)
    BY LinkedRuns
  <1>2. \A i \in 1 .. n : f[i] \in S
    BY <1>1 DEF Runs
  <1>3. \A i \in 1 .. n : next2[f[i]] = IF i = n THEN Null ELSE f[i + 1]
    BY <1>1, <1>2 DEF Runs
  <1>4. Runs(f, n, S, head, tail, next2)
    BY <1>1, <1>3 DEF Runs
  <1> QED BY <1>4, LinkedRuns

\* Appending x.
Appends(x, S, head, tail, next, head2, next2) ==
  /\ head2 = IF head = Null THEN x ELSE head
  /\ next2[x] = Null
  /\ head # Null => next2[tail] = x
  /\ \A y \in S : y = tail \/ next2[y] = next[y]

LEMMA RunsPush ==
  ASSUME NEW S, IsFiniteSet(S), Null \notin S, NEW head, NEW tail, NEW next,
         NEW f, NEW n, Runs(f, n, S, head, tail, next),
         NEW x, x \notin S, NEW head2, NEW next2,
         Appends(x, S, head, tail, next, head2, next2),
         NEW g, g = [i \in 1 .. n + 1 |-> IF i = n + 1 THEN x ELSE f[i]]
  PROVE  Runs(g, n + 1, S \cup {x}, head2, x, next2)
  <1>1. Runs(f, n, S, head, tail, next)
    OBVIOUS
  <1> USE DEF Appends
  <1>2. n \in Nat /\ (n = 0 <=> head = Null)
    BY <1>1, LinkedRuns, ListEnds DEF Runs
  <1>3. \A i \in 1 .. n : f[i] \in S
    BY <1>1 DEF Runs
  <1>4. IsFiniteSet(S \cup {x}) /\ Cardinality(S \cup {x}) = n + 1
    BY <1>1, FS_AddElement DEF Runs
  <1>5. g \in [1 .. n + 1 -> S \cup {x}]
    BY <1>2, <1>3
  <1>6. \A y \in S \cup {x} : \E i \in 1 .. n + 1 : g[i] = y
    <2>1. g[n + 1] = x /\ n + 1 \in 1 .. n + 1
      BY <1>2
    <2>2. \A i \in 1 .. n : g[i] = f[i] /\ i \in 1 .. n + 1
      BY <1>2
    <2>3. \A y \in S : \E i \in 1 .. n : f[i] = y
      BY <1>1 DEF Runs
    <2> QED BY <2>1, <2>2, <2>3
  <1>7. ASSUME NEW i \in 1 .. n + 1, NEW j \in 1 .. n + 1, g[i] = g[j]
        PROVE  i = j
    <2>1. \A k, l \in 1 .. n : f[k] = f[l] => k = l
      BY <1>1 DEF Runs
    <2>2. CASE i \in 1 .. n /\ j \in 1 .. n
      BY <1>2, <1>7, <2>1, <2>2
    <2>3. CASE i = n + 1 \/ j = n + 1
      BY <1>2, <1>3, <1>7, <2>3
    <2> QED BY <1>2, <2>2, <2>3
  <1>8. head2 = g[1]
    BY <1>1, <1>2 DEF Runs
  <1>9. ASSUME NEW i \in 1 .. n + 1
        PROVE  next2[g[i]] = IF i = n + 1 THEN Null ELSE g[i + 1]
    <2>1. CASE i = n + 1
      BY <1>2, <2>1
    <2>2. CASE i = n /\ n # 0
      BY <1>1, <1>2, <2>2 DEF Runs
    <2>3. CASE i \in 1 .. n /\ i # n
      <3>1. n \in 1 .. n
        BY <1>2, <2>3
      <3>2. f[i] # f[n] /\ f[n] = tail /\ next[f[i]] = f[i + 1]
        BY <1>1, <1>2, <2>3, <3>1 DEF Runs
      <3>3. next2[f[i]] = f[i + 1]
        BY <1>3, <2>3, <3>2
      <3> QED BY <1>2, <2>3, <3>3
    <2> QED BY <1>2, <2>1, <2>2, <2>3
  <1>10. n + 1 \in Nat /\ n + 1 # 0 /\ x = g[n + 1]
    BY <1>2
  <1>11. Runs(g, n + 1, S \cup {x}, head2, x, next2)
    BY <1>4, <1>5, <1>6, <1>7, <1>8, <1>9, <1>10 DEF Runs
  <1> QED BY <1>11

LEMMA ListPush ==
  ASSUME NEW S, IsFiniteSet(S), Null \notin S, NEW head, NEW tail, NEW next,
         Linked(S, head, tail, next),
         NEW x, x \notin S, NEW head2, NEW next2,
         Appends(x, S, head, tail, next, head2, next2)
  PROVE  Linked(S \cup {x}, head2, x, next2)
  <1>1. PICK f, n : Runs(f, n, S, head, tail, next)
    BY LinkedRuns
  <1>2. IsFiniteSet(S \cup {x})
    BY FS_AddElement
  <1>3. PICK g : g = [i \in 1 .. n + 1 |-> IF i = n + 1 THEN x ELSE f[i]]
    OBVIOUS
  <1>4. Runs(g, n + 1, S \cup {x}, head2, x, next2)
    BY <1>1, <1>3, RunsPush
  <1> QED BY <1>2, <1>4, LinkedRuns

\* Removing the head.
LEMMA RunsPop ==
  ASSUME NEW S, IsFiniteSet(S), Null \notin S, NEW head, NEW tail, NEW next,
         NEW f, NEW n, Runs(f, n, S, head, tail, next), head # Null,
         NEW next2, \A y \in S : y = head \/ next2[y] = next[y],
         NEW g, g = [i \in 1 .. n - 1 |-> f[i + 1]]
  PROVE  Runs(g, n - 1, S \ {head}, next[head], tail, next2)
  <1> DEFINE R == S \ {head}
  <1>1. Runs(f, n, S, head, tail, next)
    OBVIOUS
  <1>2. n \in Nat \ {0} /\ head = f[1] /\ head \in S
    BY <1>1, LinkedRuns, ListEnds DEF Runs
  <1>3. \A i \in 1 .. n : f[i] \in S
    BY <1>1 DEF Runs
  <1>4. IsFiniteSet(R) /\ Cardinality(R) = n - 1
    BY <1>1, <1>2, FS_RemoveElement DEF Runs
  <1>5. \A i \in 1 .. n - 1 : g[i] = f[i + 1] /\ f[i + 1] \in R
    BY <1>1, <1>2, <1>3 DEF Runs
  <1>6. \A y \in R : \E i \in 1 .. n - 1 : g[i] = y
    <2> SUFFICES ASSUME NEW y \in R PROVE \E i \in 1 .. n - 1 : f[i + 1] = y
      BY <1>5
    <2>1. PICK i \in 1 .. n : f[i] = y
      BY <1>1 DEF Runs
    <2>2. i - 1 \in 1 .. n - 1 /\ (i - 1) + 1 = i
      BY <1>2, <2>1
    <2> QED BY <2>1, <2>2
  <1>7. \A i, j \in 1 .. n - 1 : g[i] = g[j] => i = j
    BY <1>1, <1>2, <1>5 DEF Runs
  <1>8. next[head] = IF n - 1 = 0 THEN Null ELSE g[1]
    BY <1>1, <1>2 DEF Runs
  <1>9. \A i \in 1 .. n - 1 :
          next2[g[i]] = IF i = n - 1 THEN Null ELSE g[i + 1]
    BY <1>1, <1>2, <1>3, <1>5 DEF Runs
  <1>10. n - 1 > 0 => tail = g[n - 1]
    BY <1>1, <1>2 DEF Runs
  <1>11. Runs(g, n - 1, R, next[head], tail, next2)
    <2>1. n - 1 \in Nat /\ g \in [1 .. n - 1 -> R]
      BY <1>2, <1>5
    <2> HIDE DEF R
    <2> QED BY <1>4, <1>6, <1>7, <1>8, <1>9, <1>10, <2>1 DEF Runs
  <1> QED BY <1>11

LEMMA ListPop ==
  ASSUME NEW S, IsFiniteSet(S), Null \notin S, NEW head, NEW tail, NEW next,
         Linked(S, head, tail, next), head # Null,
         NEW next2, \A y \in S : y = head \/ next2[y] = next[y]
  PROVE  Linked(S \ {head}, next[head], tail, next2)
  <1>1. PICK f, n : Runs(f, n, S, head, tail, next)
    BY LinkedRuns
  <1>2. IsFiniteSet(S \ {head})
    BY FS_RemoveElement
  <1>3. PICK g : g = [i \in 1 .. n - 1 |-> f[i + 1]]
    OBVIOUS
  <1>4. Runs(g, n - 1, S \ {head}, next[head], tail, next2)
    BY <1>1, <1>3, RunsPop
  <1> QED BY <1>2, <1>4, LinkedRuns

-----------------------------------------------------------------------------
(* Steps that leave the queues alone.                                      *)

\* Senders and pending queries are finite in number and none is null.
LEMMA Finite ==
  /\ \A r \in Slots : IsFiniteSet(Senders(r)) /\ Null \notin Senders(r)
  /\ \A e \in EventTypes : IsFiniteSet(Pending(e)) /\ Null \notin Pending(e)
  <1>1. IsFiniteSet(Slots) /\ IsFiniteSet(Queries)
    BY KernelAssumption, FS_Interval DEF KernelAssumption, Slots, Queries
  <1>2. \A r \in Slots : Senders(r) \subseteq Slots
    BY DEF Senders
  <1>3. \A e \in EventTypes : Pending(e) \subseteq Queries
    BY DEF Pending
  <1> QED BY <1>1, <1>2, <1>3, FS_Subset, SlotFacts

\* A step keeps the send queues if it keeps the pointers and the tasks that
\* are blocked in Send, and starts no Receive that should not block.
LEMMA SendQueueKept ==
  ASSUME SendQueueOK, ReceiverQueueEmpty,
         UNCHANGED <<gen, sendQueueHead, sendQueueTail, sendQueueNext>>,
         \A s \in Slots : state'[s] = "RCVD_BLK" <=> state[s] = "RCVD_BLK",
         \A s \in Slots : state[s] = "RCVD_BLK" => call'[s] = call[s],
         \A r \in Slots : state'[r] = "SEND_BLK" => sendQueueHead[r] = Null
  PROVE  SendQueueOK' /\ ReceiverQueueEmpty'
  <1>1. \A s, r \in Slots : IsSender(s, r)' <=> IsSender(s, r)
    BY DEF IsSender, Tid
  <1>2. \A r \in Slots : Senders(r)' = Senders(r)
    BY <1>1 DEF Senders
  <1> QED BY <1>2 DEF SendQueueOK, ReceiverQueueEmpty

\* A step keeps the event queues if it keeps the queries and the tasks that
\* are blocked in AwaitEvent.
LEMMA EventQueueKept ==
  ASSUME EventQueueOK,
         UNCHANGED <<waitingTid, eventId, nextQuery, eventQueueHead,
                     eventQueueTail>>,
         \A t \in Slots : state'[t] = "EVT_BLK" <=> state[t] = "EVT_BLK",
         \A t \in Slots : state[t] = "EVT_BLK" => gen'[t] = gen[t]
  PROVE  EventQueueOK'
  <1>1. \A q \in Queries, t \in Slots : IsWaiting(t, q)' <=> IsWaiting(t, q)
    BY DEF IsWaiting, Tid
  <1>2. \A q \in Queries : Vacant(q)' <=> Vacant(q)
    BY DEF Vacant
  <1>3. EventWaiters'
    BY <1>1, <1>2 DEF EventQueueOK, EventWaiters
  <1>4. \A e \in EventTypes : Pending(e)' = Pending(e)
    BY <1>2 DEF Pending
  <1> QED BY <1>3, <1>4 DEF EventQueueOK

\* A quiet step: no task starts or stops waiting in a queue.
Quiet ==
  /\ UNCHANGED <<gen, sendQueueHead, sendQueueTail, sendQueueNext>>
  /\ UNCHANGED <<waitingTid, eventId, nextQuery, eventQueueHead, eventQueueTail>>
  /\ \A s \in Slots : state'[s] = "RCVD_BLK" <=> state[s] = "RCVD_BLK"
  /\ \A s \in Slots : state'[s] = "EVT_BLK" <=> state[s] = "EVT_BLK"
  /\ \A s \in Slots : state[s] = "RCVD_BLK" => call'[s] = call[s]
  /\ \A r \in Slots : state'[r] = "SEND_BLK" => sendQueueHead[r] = Null
  /\ \A t \in Slots : ~isTdAvailable(t)' => ~isTdAvailable(t)
  /\ \A s \in Slots : call'[s].tid = call[s].tid \/ call'[s].tid \in KnownTids

\* A quiet step preserves the invariant.
LEMMA QuietKeeps ==
  ASSUME QueueInv, Quiet
  PROVE  IdentifiersOK' /\ SendQueueOK' /\ ReceiverQueueEmpty' /\ EventQueueOK'
  <1>1. SendQueueOK' /\ ReceiverQueueEmpty'
    BY SendQueueKept DEF QueueInv, Quiet
  <1>2. EventQueueOK'
    BY EventQueueKept DEF QueueInv, Quiet
  <1>3. \A id \in KnownTids, r \in Slots : id[1] = r => id[2] <= gen[r]
    BY KernelAssumption DEF KnownTids, KernelAssumption, Slots, QueueInv, TypeOK
  <1>4. IdentifiersOK'
    BY <1>3 DEF IdentifiersOK, QueueInv, Quiet
  <1> QED BY <1>1, <1>2, <1>4

\* The calls that end at once are quiet.
LEMMA ReturnQuiet ==
  ASSUME QueueInv, NEW t \in Slots, NEW op, Trap(t, op), NEW r, Return(t, r)
  PROVE  Quiet
  <1>1. state[t] \in {"RUNNING", "HWINT"}
    BY Running DEF QueueInv
  <1> QED
    BY <1>1
    DEF Return, Quiet, QueueInv, TypeOK, ReceiverQueueEmpty, isTdAvailable,
        sendQueue, eventQueue

\* So are the steps that stop or stick the running task, and the failed
\* Creates.
LEMMA StopQuiet ==
  ASSUME QueueInv, NEW t \in Slots, current = t,
         NEW s \in {"EXITED", "KILLED", "SYSCALL_BLK", "HWINT"},
         state' = [state EXCEPT ![t] = s],
         UNCHANGED <<gen, call, sendQueue, eventQueue>>
  PROVE  Quiet
  <1>1. state[t] \in {"RUNNING", "HWINT"}
    BY SlotFacts DEF QueueInv, TypeOK, isTaskReady
  <1> QED
    BY <1>1
    DEF Quiet, QueueInv, TypeOK, ReceiverQueueEmpty, isTdAvailable,
        sendQueue, eventQueue

\* A Send to a task that waits in Receive: its queue is empty, so resetting
\* the head changes nothing.
LEMMA SendDirectQuiet ==
  ASSUME QueueInv, NEW t \in Slots, SendDirect(t)
  PROVE  Quiet
  <1>1. PICK id \in KnownTids, len \in Lens, rlen \in Lens \ {0} :
          SendDirect(t)!2!(id, len, rlen)
    BY DEF SendDirect
  <1> DEFINE r == findTd(id)
  <1>2. r \in Slots /\ state[r] = "SEND_BLK"
    BY <1>1, TidFacts DEF QueueInv
  <1>3. state[t] \in {"RUNNING", "HWINT"} /\ r # t
    BY <1>2, Running DEF SendDirect, QueueInv
  <1>4. sendQueueHead[r] = Null
    BY <1>2 DEF QueueInv, ReceiverQueueEmpty
  <1>5. sendQueueHead' = sendQueueHead
    BY <1>1, <1>4 DEF QueueInv, TypeOK
  <1>6. state' = [state EXCEPT ![r] = "RUNNING", ![t] = "RPLY_BLK"]
    BY <1>1
  <1>7. \A s \in Slots : state[s] = "RCVD_BLK" => call'[s] = call[s]
    BY <1>1, <1>2, <1>3 DEF QueueInv, TypeOK
  <1>8. \A s \in Slots : call'[s].tid = call[s].tid \/ call'[s].tid \in KnownTids
    <2>1. NoCall.tid \in KnownTids
      BY SlotFacts DEF NoCall, NoTid, KnownTids, QueueInv, TypeOK
    <2> QED BY <1>1, <2>1 DEF QueueInv, TypeOK
  <1> QED
    BY <1>2, <1>3, <1>5, <1>6, <1>7, <1>8
    DEF SendDirect, Quiet, QueueInv, TypeOK, ReceiverQueueEmpty, isTdAvailable,
        eventQueue

\* A Receive with an empty queue blocks.
LEMMA ReceiveBlocksQuiet ==
  ASSUME QueueInv, NEW t \in Slots, ReceiveBlocks(t)
  PROVE  Quiet
  <1>1. state[t] \in {"RUNNING", "HWINT"}
    BY Running DEF ReceiveBlocks, QueueInv
  <1>2. \A s \in Slots : call'[s].tid = call[s].tid \/ call'[s].tid \in KnownTids
    <2>1. NoTid \in KnownTids
      BY SlotFacts DEF NoTid, KnownTids, QueueInv, TypeOK
    <2> QED BY <2>1 DEF ReceiveBlocks, NoCall, QueueInv, TypeOK
  <1> QED
    BY <1>1, <1>2
    DEF ReceiveBlocks, Quiet, QueueInv, TypeOK, ReceiverQueueEmpty,
        isTdAvailable, sendQueue, eventQueue

\* A reply makes two tasks ready, of which neither is in a queue.
LEMMA ReplyQuiet ==
  ASSUME QueueInv, NEW t \in Slots, ReplyDelivers(t)
  PROVE  Quiet
  <1>1. PICK id \in KnownTids, len \in Lens : ReplyDelivers(t)!2!(id, len)
    BY DEF ReplyDelivers
  <1> DEFINE s == findTd(id)
  <1>2. s \in Slots /\ state[s] = "RPLY_BLK"
    BY <1>1, TidFacts DEF QueueInv, AwaitsReply
  <1>3. state[t] \in {"RUNNING", "HWINT"}
    BY Running DEF ReplyDelivers, QueueInv
  <1>4. /\ state' = [state EXCEPT ![s] = "RUNNING", ![t] = "RUNNING"]
        /\ call' = [call EXCEPT ![s] = NoCall]
    BY <1>1
  <1>5. \A i \in Slots : call'[i].tid = call[i].tid \/ call'[i].tid \in KnownTids
    <2>1. NoCall.tid \in KnownTids
      BY SlotFacts DEF NoCall, NoTid, KnownTids, QueueInv, TypeOK
    <2> QED BY <1>4, <2>1 DEF QueueInv, TypeOK
  <1> QED
    BY <1>2, <1>3, <1>4, <1>5
    DEF ReplyDelivers, Quiet, QueueInv, TypeOK, ReceiverQueueEmpty,
        isTdAvailable, sendQueue, eventQueue

-----------------------------------------------------------------------------
(* Steps that change the queues.                                           *)

\* The queue of x is left alone.
MailboxKept(x) ==
  /\ Senders(x)' = Senders(x)
  /\ sendQueueHead'[x] = sendQueueHead[x] /\ sendQueueTail'[x] = sendQueueTail[x]
  /\ \A y \in Senders(x) : sendQueueNext'[y] = sendQueueNext[y]

LEMMA MailboxStaysLinked ==
  ASSUME SendQueueOK, NEW x \in Slots, MailboxKept(x)
  PROVE  Linked(Senders(x)', sendQueueHead'[x], sendQueueTail'[x], sendQueueNext')
BY Finite, ListKept DEF SendQueueOK, MailboxKept

\* The queue of n is empty, and no other one is changed.
Emptied(n) ==
  /\ Senders(n)' = {} /\ sendQueueHead'[n] = Null
  /\ \A x \in Slots \ {n} : MailboxKept(x)

\* A new task starts with an empty send queue, and none of the old calls is
\* meant for it: they name identifiers of the past.
LEMMA CreateChanges ==
  ASSUME QueueInv, NEW t \in Slots, current = t,
         NEW n \in Slots, isTdAvailable(n), NEW p, createTask(t, n, p)
  PROVE  /\ state[t] \in {"RUNNING", "HWINT"} /\ t # n
         /\ gen'[n] = gen[n] + 1 /\ \A i \in Slots : i = n \/ gen'[i] = gen[i]
         /\ state'[n] = "RUNNING" /\ state'[t] = "RUNNING"
         /\ \A i \in Slots : i = n \/ i = t \/ state'[i] = state[i]
         /\ call'[n] = NoCall /\ \A i \in Slots : i = n \/ call'[i] = call[i]
         /\ Emptied(n)
  <1>1. state[t] \in {"RUNNING", "HWINT"} /\ t # n
    BY SlotFacts DEF QueueInv, TypeOK, isTaskReady, isTdAvailable
  <1>2. /\ gen[n] \in Nat /\ gen'[n] = gen[n] + 1
        /\ \A i \in Slots : i = n \/ gen'[i] = gen[i]
    BY DEF createTask, newGeneration, QueueInv, TypeOK
  <1>3. /\ state'[n] = "RUNNING" /\ state'[t] = "RUNNING"
        /\ \A i \in Slots : i = n \/ i = t \/ state'[i] = state[i]
        /\ call'[n] = NoCall
        /\ \A i \in Slots : i = n \/ call'[i] = call[i]
    BY DEF createTask, QueueInv, TypeOK
  <1>4. Senders(n)' = {}
    <2>1. \A s \in Slots : call[s].tid # <<n, gen[n] + 1>>
      BY <1>2 DEF IdentifiersOK, QueueInv
    <2> QED BY <1>2, <1>3, <2>1 DEF Senders, IsSender, Tid
  <1>5. \A r \in Slots : r # n => Senders(r)' = Senders(r)
    <2> SUFFICES ASSUME NEW r \in Slots, r # n
                 PROVE  Senders(r)' = Senders(r)
      OBVIOUS
    <2>1. \A s \in Slots : IsSender(s, r)' <=> IsSender(s, r)
      BY <1>1, <1>2, <1>3 DEF IsSender, Tid, isTdAvailable
    <2> QED BY <2>1 DEF Senders
  <1>6. \A r \in Slots : n \notin Senders(r)
    BY DEF Senders, IsSender, isTdAvailable
  <1>7. /\ sendQueueHead'[n] = Null
        /\ \A i \in Slots : i # n =>
             /\ sendQueueHead'[i] = sendQueueHead[i]
             /\ sendQueueTail'[i] = sendQueueTail[i]
             /\ sendQueueNext'[i] = sendQueueNext[i]
    BY DEF createTask, emptySendQueue, QueueInv, TypeOK
  <1>8. ASSUME NEW r \in Slots \ {n}
        PROVE  MailboxKept(r)
    <2>1. \A x \in Senders(r) : sendQueueNext'[x] = sendQueueNext[x]
      BY <1>6, <1>7 DEF Senders
    <2> QED BY <1>5, <1>7, <2>1 DEF MailboxKept
  <1>9. Emptied(n)
    BY <1>4, <1>7, <1>8 DEF Emptied
  <1> QED BY <1>1, <1>2, <1>3, <1>9

LEMMA CreateKeeps ==
  ASSUME QueueInv, NEW t \in Slots, current = t,
         NEW n \in Slots, isTdAvailable(n), NEW p, createTask(t, n, p)
  PROVE  IdentifiersOK' /\ SendQueueOK' /\ ReceiverQueueEmpty' /\ EventQueueOK'
  <1>1. state[t] \in {"RUNNING", "HWINT"} /\ t # n
    BY CreateChanges
  <1>2. /\ gen[n] \in Nat /\ gen'[n] = gen[n] + 1
        /\ \A i \in Slots : i = n \/ gen'[i] = gen[i]
    BY CreateChanges DEF QueueInv, TypeOK
  <1>3. /\ state'[n] = "RUNNING" /\ state'[t] = "RUNNING"
        /\ \A i \in Slots : i = n \/ i = t \/ state'[i] = state[i]
        /\ call'[n] = NoCall
        /\ \A i \in Slots : i = n \/ call'[i] = call[i]
    BY CreateChanges
  <1>4. IdentifiersOK'
    <2>1. \A i \in Slots : ~isTdAvailable(i)' => gen'[i] > 0
      BY <1>1, <1>2, <1>3 DEF IdentifiersOK, QueueInv, isTdAvailable
    <2>2. \A s, r \in Slots : call'[s].tid[1] = r => call'[s].tid[2] <= gen'[r]
      <3> SUFFICES ASSUME NEW s \in Slots, NEW r \in Slots,
                          call'[s].tid[1] = r
                   PROVE  call'[s].tid[2] <= gen'[r]
        OBVIOUS
      <3>1. gen[r] \in Nat /\ gen'[r] \in Nat /\ gen[r] <= gen'[r]
        BY <1>2 DEF QueueInv, TypeOK
      <3>2. CASE s = n
        BY <1>3, <3>1, <3>2 DEF NoCall, NoTid
      <3>3. CASE s # n
        <4>1. call[s].tid[2] <= gen[r] /\ call'[s] = call[s]
          BY <1>3, <3>3 DEF IdentifiersOK, QueueInv
        <4>2. call[s].tid[2] \in Nat
          BY DEF QueueInv, TypeOK, Call, TidSet
        <4> QED BY <3>1, <4>1, <4>2
      <3> QED BY <3>2, <3>3
    <2> QED BY <2>1, <2>2 DEF IdentifiersOK
  <1>5. Emptied(n)
    BY CreateChanges
  <1>6. SendQueueOK'
    <2> SUFFICES ASSUME NEW r \in Slots
                 PROVE  Linked(Senders(r)', sendQueueHead'[r],
                               sendQueueTail'[r], sendQueueNext')
      BY DEF SendQueueOK
    <2>1. CASE r = n
      BY <1>5, <2>1, ListEmpty DEF Emptied
    <2>2. CASE r # n
      BY <1>5, <2>2, MailboxStaysLinked DEF QueueInv, Emptied
    <2> QED BY <2>1, <2>2
  <1>7. ReceiverQueueEmpty'
    <2>1. \A x \in Slots : x # n => sendQueueHead'[x] = sendQueueHead[x]
      BY <1>5 DEF Emptied, MailboxKept
    <2> QED BY <1>3, <2>1 DEF ReceiverQueueEmpty, QueueInv
  <1>8. EventQueueOK'
    <2>1. \A i \in Slots : state'[i] = "EVT_BLK" <=> state[i] = "EVT_BLK"
      BY <1>1, <1>3 DEF isTdAvailable
    <2>2. \A i \in Slots : state[i] = "EVT_BLK" => gen'[i] = gen[i]
      BY <1>2 DEF isTdAvailable
    <2> QED BY <2>1, <2>2, EventQueueKept DEF createTask, eventQueue, QueueInv
  <1> QED BY <1>4, <1>6, <1>7, <1>8

\* t comes to the end of the queue of r, and of no other one.
Enqueued(t, r) ==
  /\ Senders(r)' = Senders(r) \cup {t} /\ t \notin Senders(r)
  /\ sendQueueTail'[r] = t
  /\ Appends(t, Senders(r), sendQueueHead[r], sendQueueTail[r], sendQueueNext,
             sendQueueHead'[r], sendQueueNext')
  /\ \A x \in Slots \ {r} : MailboxKept(x)

\* A Send to a task that does not wait in Receive.
LEMMA SendQueuedChanges ==
  ASSUME QueueInv, NEW t \in Slots, SendQueued(t)
  PROVE  \E r \in Slots, len \in Lens, rlen \in Lens \ {0} :
           /\ gen[r] # 0 /\ state[r] # "SEND_BLK"
           /\ call' = [call EXCEPT
                         ![t] = [tid |-> Tid(r), len |-> len, rlen |-> rlen]]
           /\ Enqueued(t, r)
  <1>1. PICK id \in KnownTids, len \in Lens, rlen \in Lens \ {0} :
          SendQueued(t)!2!(id, len, rlen)
    BY DEF SendQueued
  <1>2. PICK r \in Slots :
          r = findTd(id) /\ id = Tid(r) /\ state[r] # "SEND_BLK" /\ push(t, r)
    BY <1>1, TidFacts DEF QueueInv
  <1>3. /\ state[t] \in {"RUNNING", "HWINT"} /\ state'[t] = "RCVD_BLK"
        /\ \A i \in Slots : i # t => state'[i] = state[i]
        /\ UNCHANGED gen
    BY Running DEF SendQueued, QueueInv, TypeOK
  <1>4. /\ call' = [call EXCEPT
                      ![t] = [tid |-> Tid(r), len |-> len, rlen |-> rlen]]
        /\ call'[t].tid = Tid(r)
        /\ \A i \in Slots : i # t => call'[i] = call[i]
    BY <1>1, <1>2 DEF QueueInv, TypeOK
  <1>5. gen[r] # 0
    BY <1>1, <1>2 DEF Possible, Tid
  <1>6. /\ Senders(r)' = Senders(r) \cup {t}
        /\ \A x \in Slots : x # r => Senders(x)' = Senders(x)
        /\ \A x \in Slots : t \notin Senders(x)
    <2>1. \A s, x \in Slots : IsSender(s, x)' <=>
            IsSender(s, x) \/ (s = t /\ x = r)
      BY <1>2, <1>3, <1>4 DEF IsSender, Tid
    <2>2. \A x \in Slots : ~IsSender(t, x)
      BY <1>3 DEF IsSender
    <2> QED BY <1>2, <2>1, <2>2 DEF Senders
  <1>7. \A x \in Slots : x # r => Senders(x) \cap Senders(r) = {}
    BY <1>2 DEF Senders, IsSender, Tid
  <1>8. Linked(Senders(r), sendQueueHead[r], sendQueueTail[r], sendQueueNext)
    BY <1>2 DEF SendQueueOK, QueueInv
  <1>9. /\ sendQueueTail'[r] = t
        /\ sendQueueHead'[r] = IF sendQueueHead[r] = Null THEN t
                                                          ELSE sendQueueHead[r]
        /\ \A x \in Slots : x # r => /\ sendQueueHead'[x] = sendQueueHead[x]
                                     /\ sendQueueTail'[x] = sendQueueTail[x]
    BY <1>2 DEF push, QueueInv, TypeOK
  <1>10. sendQueueHead[r] # Null => sendQueueTail[r] \in Senders(r)
    BY <1>2, <1>8, Finite, ListEnds
  <1>11. /\ sendQueueNext'[t] = Null
         /\ sendQueueHead[r] # Null => sendQueueNext'[sendQueueTail[r]] = t
         /\ \A y \in Slots : \/ y = t
                             \/ y = sendQueueTail[r] /\ sendQueueHead[r] # Null
                             \/ sendQueueNext'[y] = sendQueueNext[y]
    <2>1. sendQueueHead[r] # Null =>
            sendQueueTail[r] \in Slots /\ sendQueueTail[r] # t
      BY <1>2, <1>6, <1>10 DEF Senders
    <2> QED BY <1>2, <2>1 DEF push, QueueInv, TypeOK
  <1>12. \A y \in Senders(r) : \/ y = sendQueueTail[r]
                               \/ sendQueueNext'[y] = sendQueueNext[y]
    BY <1>2, <1>6, <1>11 DEF Senders
  <1>13. ASSUME NEW x \in Slots \ {r}
         PROVE  MailboxKept(x)
    <2>1. \A y \in Senders(x) : sendQueueNext'[y] = sendQueueNext[y]
      BY <1>6, <1>7, <1>10, <1>11 DEF Senders
    <2> QED BY <1>6, <1>9, <2>1 DEF MailboxKept
  <1>14. Enqueued(t, r)
    BY <1>6, <1>9, <1>11, <1>12, <1>13 DEF Enqueued, Appends
  <1> QED BY <1>2, <1>4, <1>5, <1>14

LEMMA SendQueuedKeeps ==
  ASSUME QueueInv, NEW t \in Slots, SendQueued(t)
  PROVE  IdentifiersOK' /\ SendQueueOK' /\ ReceiverQueueEmpty' /\ EventQueueOK'
  <1>1. PICK r \in Slots, len \in Lens, rlen \in Lens \ {0} :
          /\ gen[r] # 0 /\ state[r] # "SEND_BLK"
          /\ call' = [call EXCEPT
                        ![t] = [tid |-> Tid(r), len |-> len, rlen |-> rlen]]
          /\ Enqueued(t, r)
    BY SendQueuedChanges
  <1>2. /\ state[t] \in {"RUNNING", "HWINT"} /\ state'[t] = "RCVD_BLK"
        /\ \A i \in Slots : i # t => state'[i] = state[i]
        /\ UNCHANGED gen
    BY Running DEF SendQueued, QueueInv, TypeOK
  <1>3. IdentifiersOK'
    <2>1. \A i \in Slots : ~isTdAvailable(i)' => ~isTdAvailable(i)
      BY <1>2 DEF isTdAvailable
    <2>2. gen[r] \in Nat /\ call'[t].tid = Tid(r)
          /\ \A i \in Slots : i # t => call'[i] = call[i]
      BY <1>1 DEF QueueInv, TypeOK
    <2> QED BY <1>2, <2>1, <2>2 DEF IdentifiersOK, QueueInv, Tid
  <1>4. SendQueueOK'
    <2> SUFFICES ASSUME NEW x \in Slots
                 PROVE  Linked(Senders(x)', sendQueueHead'[x],
                               sendQueueTail'[x], sendQueueNext')
      BY DEF SendQueueOK
    <2>1. CASE x = r
      <3>1. Linked(Senders(r), sendQueueHead[r], sendQueueTail[r], sendQueueNext)
        BY DEF SendQueueOK, QueueInv
      <3>2. Linked(Senders(r) \cup {t}, sendQueueHead'[r], t, sendQueueNext')
        BY <1>1, <3>1, Finite, ListPush DEF Enqueued
      <3> QED BY <1>1, <2>1, <3>2 DEF Enqueued
    <2>2. CASE x # r
      BY <1>1, <2>2, MailboxStaysLinked DEF QueueInv, Enqueued
    <2> QED BY <2>1, <2>2
  <1>5. ReceiverQueueEmpty'
    <2>1. \A x \in Slots : x # r => sendQueueHead'[x] = sendQueueHead[x]
      BY <1>1 DEF Enqueued, MailboxKept
    <2> QED BY <1>1, <1>2, <2>1 DEF ReceiverQueueEmpty, QueueInv
  <1>6. EventQueueOK'
    <2>1. \A i \in Slots : state'[i] = "EVT_BLK" <=> state[i] = "EVT_BLK"
      BY <1>2
    <2> QED BY <1>2, <2>1, EventQueueKept DEF SendQueued, eventQueue, QueueInv
  <1> QED BY <1>3, <1>4, <1>5, <1>6

\* s leaves the head of the queue of r, and no other one.
Dequeued(s, r) ==
  /\ s = sendQueueHead[r] /\ s # Null /\ s \in Senders(r)
  /\ Senders(r)' = Senders(r) \ {s}
  /\ sendQueueHead'[r] = sendQueueNext[s] /\ sendQueueTail'[r] = sendQueueTail[r]
  /\ \A y \in Senders(r) : y = s \/ sendQueueNext'[y] = sendQueueNext[y]
  /\ \A x \in Slots \ {r} : MailboxKept(x)

\* A Receive with a queued sender takes the head out of its own queue.
LEMMA ReceiveQueuedChanges ==
  ASSUME QueueInv, NEW t \in Slots, NEW op, ReceiveQueued(t, op)
  PROVE  \E s \in Slots :
           /\ state[t] \in {"RUNNING", "HWINT"} /\ s # t /\ IsSender(s, t)
           /\ state' = [state EXCEPT ![s] = "RPLY_BLK", ![t] = "RUNNING"]
           /\ Dequeued(s, t)
  <1> DEFINE s == sendQueueHead[t]
  <1>1. Linked(Senders(t), sendQueueHead[t], sendQueueTail[t], sendQueueNext)
    BY DEF SendQueueOK, QueueInv
  <1>2. s # Null /\ s \in Senders(t)
    BY <1>1, Finite, ListEnds DEF ReceiveQueued
  <1>3. s \in Slots /\ IsSender(s, t) /\ state[s] = "RCVD_BLK"
    BY <1>2 DEF Senders, IsSender
  <1>4. state[t] \in {"RUNNING", "HWINT"} /\ s # t
    BY <1>3, Running DEF ReceiveQueued, QueueInv
  <1>5. /\ state' = [state EXCEPT ![s] = "RPLY_BLK", ![t] = "RUNNING"]
        /\ sendQueueHead' = [sendQueueHead EXCEPT ![t] = sendQueueNext[s]]
        /\ sendQueueNext' = [sendQueueNext EXCEPT ![s] = Null]
        /\ UNCHANGED <<gen, call, sendQueueTail>>
    BY DEF ReceiveQueued
  <1>6. s = sendQueueHead[t]
    OBVIOUS
  <1> HIDE DEF s
  <1>7. /\ state'[s] = "RPLY_BLK" /\ state'[t] = "RUNNING"
        /\ \A i \in Slots : i = s \/ i = t \/ state'[i] = state[i]
    BY <1>3, <1>4, <1>5 DEF QueueInv, TypeOK
  <1>8. /\ Senders(t)' = Senders(t) \ {s}
        /\ \A x \in Slots : x # t => /\ Senders(x)' = Senders(x)
                                     /\ s \notin Senders(x)
    <2>1. \A i, x \in Slots : IsSender(i, x)' <=> IsSender(i, x) /\ i # s
      BY <1>4, <1>5, <1>7 DEF IsSender, Tid
    <2>2. \A x \in Slots : x # t => ~IsSender(s, x)
      BY <1>3 DEF IsSender, Tid
    <2> QED BY <2>1, <2>2 DEF Senders
  <1>9. \A x \in Slots : \A y \in Senders(x) :
          y = s \/ sendQueueNext'[y] = sendQueueNext[y]
    BY <1>5 DEF QueueInv, TypeOK, Senders
  <1>10. /\ sendQueueHead'[t] = sendQueueNext[s]
         /\ \A x \in Slots : x # t => sendQueueHead'[x] = sendQueueHead[x]
    BY <1>5 DEF QueueInv, TypeOK
  <1>11. \A x \in Slots \ {t} : MailboxKept(x)
    BY <1>5, <1>8, <1>9, <1>10 DEF MailboxKept
  <1>12. Dequeued(s, t)
    BY <1>2, <1>5, <1>6, <1>8, <1>9, <1>10, <1>11 DEF Dequeued
  <1> QED BY <1>3, <1>4, <1>5, <1>12

LEMMA ReceiveQueuedKeeps ==
  ASSUME QueueInv, NEW t \in Slots, NEW op, ReceiveQueued(t, op)
  PROVE  IdentifiersOK' /\ SendQueueOK' /\ ReceiverQueueEmpty' /\ EventQueueOK'
  <1>1. PICK s \in Slots :
          /\ state[t] \in {"RUNNING", "HWINT"} /\ s # t /\ IsSender(s, t)
          /\ state' = [state EXCEPT ![s] = "RPLY_BLK", ![t] = "RUNNING"]
          /\ Dequeued(s, t)
    BY ReceiveQueuedChanges
  <1>2. /\ state[s] = "RCVD_BLK" /\ state'[s] = "RPLY_BLK" /\ state'[t] = "RUNNING"
        /\ \A i \in Slots : i = s \/ i = t \/ state'[i] = state[i]
    BY <1>1 DEF QueueInv, TypeOK, IsSender
  <1>3. UNCHANGED <<gen, call>> /\ UNCHANGED eventQueue
    BY DEF ReceiveQueued
  <1>4. IdentifiersOK'
    <2>1. \A i \in Slots : ~isTdAvailable(i)' => ~isTdAvailable(i)
      BY <1>1, <1>2 DEF isTdAvailable
    <2> QED BY <1>3, <2>1 DEF IdentifiersOK, QueueInv
  <1>5. SendQueueOK'
    <2> SUFFICES ASSUME NEW x \in Slots
                 PROVE  Linked(Senders(x)', sendQueueHead'[x],
                               sendQueueTail'[x], sendQueueNext')
      BY DEF SendQueueOK
    <2>1. CASE x = t
      <3>1. Linked(Senders(t), sendQueueHead[t], sendQueueTail[t], sendQueueNext)
        BY DEF SendQueueOK, QueueInv
      <3>2. Linked(Senders(t) \ {s}, sendQueueNext[s], sendQueueTail[t],
                   sendQueueNext')
        BY <1>1, <3>1, Finite, ListPop DEF Dequeued
      <3> QED BY <1>1, <2>1, <3>2 DEF Dequeued
    <2>2. CASE x # t
      BY <1>1, <2>2, MailboxStaysLinked DEF QueueInv, Dequeued
    <2> QED BY <2>1, <2>2
  <1>6. ReceiverQueueEmpty'
    <2>1. \A x \in Slots : x # t => sendQueueHead'[x] = sendQueueHead[x]
      BY <1>1 DEF Dequeued, MailboxKept
    <2> QED BY <1>2, <2>1 DEF ReceiverQueueEmpty, QueueInv
  <1>7. EventQueueOK'
    <2>1. \A i \in Slots : state'[i] = "EVT_BLK" <=> state[i] = "EVT_BLK"
      BY <1>1, <1>2
    <2> QED BY <1>3, <2>1, EventQueueKept DEF eventQueue, QueueInv
  <1> QED BY <1>4, <1>5, <1>6, <1>7

\* The queue of event x is left alone.
EventKept(x) ==
  /\ Pending(x)' = Pending(x)
  /\ eventQueueHead'[x] = eventQueueHead[x] /\ eventQueueTail'[x] = eventQueueTail[x]
  /\ \A q \in Pending(x) : /\ nextQuery'[q] = nextQuery[q]
                           /\ waitingTid'[q] = waitingTid[q]

LEMMA EventStaysLinked ==
  ASSUME EventQueueOK, NEW x \in EventTypes, EventKept(x)
  PROVE  Linked(Pending(x)', eventQueueHead'[x], eventQueueTail'[x], nextQuery')
BY Finite, ListKept DEF EventQueueOK, EventKept

\* q comes to the end of the queue of e, and of no other one.
QueryEnqueued(q, e) ==
  /\ Pending(e)' = Pending(e) \cup {q} /\ q \notin Pending(e)
  /\ eventQueueTail'[e] = q
  /\ Appends(q, Pending(e), eventQueueHead[e], eventQueueTail[e], nextQuery,
             eventQueueHead'[e], nextQuery')
  /\ \A p \in Pending(e) : waitingTid'[p] = waitingTid[p]
  /\ \A x \in EventTypes \ {e} : EventKept(x)

\* AwaitEvent puts a vacant query at the end of the queue of one event.
LEMMA AwaitEventChanges ==
  ASSUME QueueInv, NEW t \in Slots, AwaitEvent(t)
  PROVE  \E q \in Queries, e \in EventTypes :
           /\ Vacant(q) /\ Tid(t) # NoTid
           /\ waitingTid' = [waitingTid EXCEPT ![q] = Tid(t)]
           /\ QueryEnqueued(q, e)
  <1>1. PICK q \in Queries, e \in EventTypes : AwaitEvent(t)!2!(q, e)
    BY DEF AwaitEvent
  <1>2. /\ Vacant(q) /\ pushEvent(q, e)
        /\ waitingTid' = [waitingTid EXCEPT ![q] = Tid(t)]
        /\ eventId' = [eventId EXCEPT ![q] = e]
    BY <1>1 DEF FirstVacant
  <1>3. /\ waitingTid'[q] = Tid(t) /\ eventId'[q] = e
        /\ \A p \in Queries : p # q => /\ waitingTid'[p] = waitingTid[p]
                                       /\ eventId'[p] = eventId[p]
    BY <1>2 DEF QueueInv, TypeOK
  <1>4. Tid(t) # NoTid
    BY Running DEF AwaitEvent, Tid, NoTid, IdentifiersOK, QueueInv, isTdAvailable
  <1>5. /\ Pending(e)' = Pending(e) \cup {q}
        /\ \A x \in EventTypes : x # e => /\ Pending(x)' = Pending(x)
                                          /\ Pending(x) \cap Pending(e) = {}
        /\ \A x \in EventTypes : q \notin Pending(x)
    BY <1>2, <1>3, <1>4 DEF Pending, Vacant
  <1>6. Linked(Pending(e), eventQueueHead[e], eventQueueTail[e], nextQuery)
    BY DEF EventQueueOK, QueueInv
  <1>7. /\ eventQueueTail'[e] = q
        /\ eventQueueHead'[e] = IF eventQueueHead[e] = Null
                                THEN q ELSE eventQueueHead[e]
        /\ \A x \in EventTypes : x # e =>
             /\ eventQueueHead'[x] = eventQueueHead[x]
             /\ eventQueueTail'[x] = eventQueueTail[x]
    BY <1>2 DEF pushEvent, QueueInv, TypeOK
  <1>8. eventQueueHead[e] # Null => eventQueueTail[e] \in Pending(e)
    BY <1>6, Finite, ListEnds
  <1>9. /\ nextQuery'[q] = Null
        /\ eventQueueHead[e] # Null => nextQuery'[eventQueueTail[e]] = q
        /\ \A p \in Queries : \/ p = q
                              \/ p = eventQueueTail[e] /\ eventQueueHead[e] # Null
                              \/ nextQuery'[p] = nextQuery[p]
    <2>1. eventQueueHead[e] # Null =>
            eventQueueTail[e] \in Queries /\ eventQueueTail[e] # q
      BY <1>5, <1>8 DEF Pending
    <2> QED BY <1>2, <2>1 DEF pushEvent, QueueInv, TypeOK
  <1>10. \A p \in Pending(e) : \/ p = eventQueueTail[e]
                               \/ nextQuery'[p] = nextQuery[p]
    BY <1>5, <1>9 DEF Pending
  <1>11. \A x \in EventTypes : \A p \in Pending(x) : waitingTid'[p] = waitingTid[p]
    BY <1>3, <1>5 DEF Pending
  <1>12. ASSUME NEW x \in EventTypes \ {e}
         PROVE  EventKept(x)
    <2>1. \A p \in Pending(x) : nextQuery'[p] = nextQuery[p]
      BY <1>5, <1>8, <1>9 DEF Pending
    <2> QED BY <1>5, <1>7, <1>11, <2>1 DEF EventKept
  <1>13. QueryEnqueued(q, e)
    BY <1>5, <1>7, <1>9, <1>10, <1>11, <1>12 DEF QueryEnqueued, Appends
  <1> QED BY <1>2, <1>4, <1>13

LEMMA AwaitEventKeeps ==
  ASSUME QueueInv, NEW t \in Slots, AwaitEvent(t)
  PROVE  IdentifiersOK' /\ SendQueueOK' /\ ReceiverQueueEmpty' /\ EventQueueOK'
  <1>1. PICK q \in Queries, e \in EventTypes :
          /\ Vacant(q) /\ Tid(t) # NoTid
          /\ waitingTid' = [waitingTid EXCEPT ![q] = Tid(t)]
          /\ QueryEnqueued(q, e)
    BY AwaitEventChanges
  <1>2. Vacant(q)
    BY <1>1
  <1>3. /\ state[t] \in {"RUNNING", "HWINT"} /\ state'[t] = "EVT_BLK"
        /\ \A i \in Slots : i # t => state'[i] = state[i]
        /\ UNCHANGED <<gen, call>>
    BY Running DEF AwaitEvent, QueueInv, TypeOK
  <1>4. SendQueueOK' /\ ReceiverQueueEmpty'
    <2>1. UNCHANGED <<sendQueueHead, sendQueueTail, sendQueueNext>>
      BY DEF AwaitEvent, sendQueue
    <2>2. \A r \in Slots : state'[r] = "SEND_BLK" => sendQueueHead[r] = Null
      BY <1>3 DEF ReceiverQueueEmpty, QueueInv
    <2> QED BY <1>3, <2>1, <2>2, SendQueueKept DEF QueueInv
  <1>5. IdentifiersOK'
    BY <1>3 DEF IdentifiersOK, QueueInv, isTdAvailable
  <1>6. /\ waitingTid'[q] = Tid(t)
        /\ \A p \in Queries : p # q => waitingTid'[p] = waitingTid[p]
    BY <1>1 DEF QueueInv, TypeOK
  <1>7. Tid(t) # NoTid
    BY <1>1
  <1>8. EventWaiters'
    <2>1. EventWaiters
      BY DEF EventQueueOK, QueueInv
    <2>2. \A p \in Queries : ~Vacant(p)' <=> p = q \/ ~Vacant(p)
      BY <1>6, <1>7 DEF Vacant
    <2>3. ASSUME NEW p \in Queries
          PROVE  waitingTid[p] # Tid(t)
      <3>1. CASE Vacant(p)
        BY <1>7, <3>1 DEF Vacant
      <3>2. CASE ~Vacant(p)
        BY <1>3, <2>1, <3>2 DEF EventWaiters, IsWaiting, Tid
      <3> QED BY <3>1, <3>2
    <2>4. \A i \in Slots, p \in Queries :
            IsWaiting(i, p)' <=> IsWaiting(i, p) \/ (i = t /\ p = q)
      <3> SUFFICES ASSUME NEW i \in Slots, NEW p \in Queries
                   PROVE  IsWaiting(i, p)' <=>
                            IsWaiting(i, p) \/ (i = t /\ p = q)
        OBVIOUS
      <3>1. ~IsWaiting(i, q)
        BY <1>2 DEF IsWaiting, Vacant, IdentifiersOK, QueueInv, Tid, NoTid,
                    isTdAvailable
      <3>2. Tid(i)' = Tid(i) /\ (Tid(i) = Tid(t) => i = t)
        BY <1>3 DEF Tid
      <3> QED BY <1>3, <1>6, <2>3, <3>1, <3>2 DEF IsWaiting
    <2>5. \A i, p \in Queries :
            waitingTid'[i] = waitingTid'[p] /\ ~Vacant(i)' => i = p
      BY <1>6, <2>1, <2>2, <2>3 DEF EventWaiters, Vacant
    <2> QED BY <1>3, <2>1, <2>2, <2>4, <2>5 DEF EventWaiters
  <1>9. ASSUME NEW x \in EventTypes
        PROVE  Linked(Pending(x)', eventQueueHead'[x], eventQueueTail'[x],
                      nextQuery')
    <2>1. CASE x = e
      <3>1. /\ IsFiniteSet(Pending(e)) /\ Null \notin Pending(e)
            /\ Linked(Pending(e), eventQueueHead[e], eventQueueTail[e], nextQuery)
        BY Finite DEF EventQueueOK, QueueInv
      <3>2. Linked(Pending(e) \cup {q}, eventQueueHead'[e], q, nextQuery')
        BY <1>1, <3>1, ListPush DEF QueryEnqueued
      <3> QED BY <1>1, <2>1, <3>2 DEF QueryEnqueued
    <2>2. CASE x # e
      BY <1>1, <2>2, EventStaysLinked DEF QueueInv, QueryEnqueued
    <2> QED BY <2>1, <2>2
  <1> QED BY <1>4, <1>5, <1>8, <1>9 DEF EventQueueOK

\* sys_eventHappened uses what findTd returns for the first query without a
\* look at it: the query always names a task, and one that waits for it.
LEMMA WokenTaskWaits ==
  ASSUME QueueInv, NEW e \in EventTypes, eventQueueHead[e] # Null
  PROVE  /\ eventQueueHead[e] \in Pending(e)
         /\ findTd(waitingTid[eventQueueHead[e]]) \in Slots
         /\ IsWaiting(findTd(waitingTid[eventQueueHead[e]]), eventQueueHead[e])
  <1>1. eventQueueHead[e] \in Pending(e)
    BY Finite, ListEnds DEF EventQueueOK, QueueInv
  <1>2. PICK i \in Slots : IsWaiting(i, eventQueueHead[e])
    BY <1>1 DEF Pending, EventQueueOK, EventWaiters, QueueInv
  <1>3. findTd(waitingTid[eventQueueHead[e]]) = i
    BY <1>2 DEF IsWaiting, findTd, Tid
  <1> QED BY <1>1, <1>2, <1>3

\* q leaves the head of the queue of e, and no other one.
QueryDequeued(q, e) ==
  /\ q = eventQueueHead[e] /\ q # Null /\ q \in Pending(e)
  /\ Pending(e)' = Pending(e) \ {q}
  /\ eventQueueHead'[e] = nextQuery[q] /\ eventQueueTail'[e] = eventQueueTail[e]
  /\ \A p \in Pending(e) : p = q \/ /\ nextQuery'[p] = nextQuery[p]
                                    /\ waitingTid'[p] = waitingTid[p]
  /\ \A x \in EventTypes \ {e} : EventKept(x)

\* A device interrupt takes the first query of its event out of use and
\* stops one task while it makes another ready.
LEMMA DeviceInterruptChanges ==
  ASSUME QueueInv, NEW t \in Slots, NEW e \in Devices, DeviceInterrupt(t, e)
  PROVE  \E q \in Queries, w \in Slots :
           /\ IsWaiting(w, q) /\ QueryDequeued(q, e)
           /\ state[t] \in {"RUNNING", "HWINT"} /\ t # w
           /\ state' = [state EXCEPT ![t] = "HWINT", ![w] = "RUNNING"]
           /\ waitingTid' = [waitingTid EXCEPT ![q] = NoTid]
           /\ ret' = [ret EXCEPT ![w] = Only("VOLATILE")]
  <1>1. e \in EventTypes
    BY KernelAssumption DEF KernelAssumption
  <1>2. PICK q \in Queries, w \in Slots :
          /\ q = eventQueueHead[e] /\ w = findTd(waitingTid[q])
          /\ q \in Pending(e) /\ IsWaiting(w, q)
    <2>1. eventQueueHead[e] # Null
      BY DEF DeviceInterrupt
    <2> QED BY <1>1, <2>1, WokenTaskWaits DEF Pending
  <1>3. /\ eventQueueHead' = [eventQueueHead EXCEPT ![e] = nextQuery[q]]
        /\ nextQuery' = [nextQuery EXCEPT ![q] = Null]
        /\ waitingTid' = [waitingTid EXCEPT ![q] = NoTid]
        /\ state' = [state EXCEPT ![t] = "HWINT", ![w] = "RUNNING"]
        /\ ret' = [ret EXCEPT ![w] = Only("VOLATILE")]
        /\ UNCHANGED <<eventId, eventQueueTail>>
    BY <1>2 DEF DeviceInterrupt
  <1>4. state[t] \in {"RUNNING", "HWINT"} /\ state[w] = "EVT_BLK" /\ t # w
    BY <1>2, SlotFacts
    DEF DeviceInterrupt, QueueInv, TypeOK, isTaskReady, IsWaiting
  <1>5. /\ Vacant(q)' /\ ~Vacant(q)
        /\ \A p \in Queries : p # q => waitingTid'[p] = waitingTid[p]
    BY <1>2, <1>3 DEF Vacant, Pending, QueueInv, TypeOK
  <1>6. /\ Pending(e)' = Pending(e) \ {q}
        /\ \A x \in EventTypes : x # e => /\ Pending(x)' = Pending(x)
                                          /\ q \notin Pending(x)
    BY <1>2, <1>3, <1>5 DEF Pending, Vacant
  <1>7. \A x \in EventTypes : \A p \in Pending(x) :
          p = q \/ (nextQuery'[p] = nextQuery[p] /\ waitingTid'[p] = waitingTid[p])
    BY <1>3, <1>5 DEF QueueInv, TypeOK, Pending
  <1>8. /\ eventQueueHead'[e] = nextQuery[q]
        /\ \A x \in EventTypes : x # e => eventQueueHead'[x] = eventQueueHead[x]
    BY <1>1, <1>3 DEF QueueInv, TypeOK
  <1>9. \A x \in EventTypes \ {e} : EventKept(x)
    BY <1>3, <1>6, <1>7, <1>8 DEF EventKept
  <1>10. QueryDequeued(q, e)
    BY <1>2, <1>3, <1>6, <1>7, <1>8, <1>9, SlotFacts DEF QueryDequeued
  <1> QED BY <1>2, <1>3, <1>4, <1>10

LEMMA DeviceInterruptKeeps ==
  ASSUME QueueInv, NEW t \in Slots, NEW e \in Devices, DeviceInterrupt(t, e)
  PROVE  IdentifiersOK' /\ SendQueueOK' /\ ReceiverQueueEmpty' /\ EventQueueOK'
  <1>1. e \in EventTypes
    BY KernelAssumption DEF KernelAssumption
  <1>2. PICK q \in Queries, w \in Slots :
          /\ IsWaiting(w, q) /\ QueryDequeued(q, e)
          /\ state[t] \in {"RUNNING", "HWINT"} /\ t # w
          /\ state' = [state EXCEPT ![t] = "HWINT", ![w] = "RUNNING"]
          /\ waitingTid' = [waitingTid EXCEPT ![q] = NoTid]
    BY DeviceInterruptChanges
  <1>3. /\ UNCHANGED <<gen, call>>
        /\ UNCHANGED <<sendQueueHead, sendQueueTail, sendQueueNext>>
    BY DEF DeviceInterrupt, sendQueue
  <1>4. state[t] \in {"RUNNING", "HWINT"} /\ state[w] = "EVT_BLK" /\ t # w
    BY <1>2 DEF IsWaiting
  <1>5. /\ state'[t] = "HWINT" /\ state'[w] = "RUNNING"
        /\ \A i \in Slots : i = t \/ i = w \/ state'[i] = state[i]
    BY <1>2 DEF QueueInv, TypeOK
  <1>6. SendQueueOK' /\ ReceiverQueueEmpty'
    <2>1. \A r \in Slots : state'[r] = "SEND_BLK" => sendQueueHead[r] = Null
      BY <1>5 DEF ReceiverQueueEmpty, QueueInv
    <2>2. \A s \in Slots : state'[s] = "RCVD_BLK" <=> state[s] = "RCVD_BLK"
      BY <1>2, <1>4, <1>5
    <2> QED BY <1>3, <2>1, <2>2, SendQueueKept DEF QueueInv
  <1>7. IdentifiersOK'
    <2>1. \A i \in Slots : ~isTdAvailable(i)' => ~isTdAvailable(i)
      BY <1>2, <1>4, <1>5 DEF isTdAvailable
    <2> QED BY <1>3, <2>1 DEF IdentifiersOK, QueueInv
  <1>8. /\ Vacant(q)' /\ ~Vacant(q)
        /\ \A p \in Queries : p # q => waitingTid'[p] = waitingTid[p]
    BY <1>2 DEF Vacant, QueryDequeued, Pending, QueueInv, TypeOK
  <1>9. EventWaiters'
    <2>1. EventWaiters
      BY DEF EventQueueOK, QueueInv
    <2>2. \A p \in Queries : ~Vacant(p)' <=> p # q /\ ~Vacant(p)
      BY <1>8 DEF Vacant
    <2>3. \A i \in Slots, p \in Queries : i # w /\ p # q =>
            (IsWaiting(i, p)' <=> IsWaiting(i, p))
      BY <1>3, <1>4, <1>5, <1>8 DEF IsWaiting, Tid
    <2>4. /\ \A p \in Queries : IsWaiting(w, p) => p = q
          /\ \A i \in Slots : IsWaiting(i, q) => i = w
      <3>1. \A p \in Queries : waitingTid[p] = waitingTid[q] => p = q
        BY <1>8, <2>1 DEF EventWaiters
      <3>2. \A i \in Slots : Tid(i) = Tid(w) => i = w
        BY DEF Tid
      <3> QED BY <1>2, <3>1, <3>2 DEF IsWaiting
    <2>5. \A p \in Queries : ~Vacant(p)' =>
            \E i \in Slots : IsWaiting(i, p)'
      BY <2>1, <2>2, <2>3, <2>4 DEF EventWaiters
    <2>6. \A i \in Slots : state'[i] = "EVT_BLK" =>
            \E p \in Queries : IsWaiting(i, p)'
      BY <1>5, <2>1, <2>3, <2>4 DEF EventWaiters
    <2>7. \A o, p \in Queries :
            waitingTid'[o] = waitingTid'[p] /\ ~Vacant(o)' => o = p
      BY <1>8, <2>1, <2>2 DEF EventWaiters, Vacant
    <2> QED BY <2>5, <2>6, <2>7 DEF EventWaiters
  <1>10. ASSUME NEW x \in EventTypes
         PROVE  Linked(Pending(x)', eventQueueHead'[x], eventQueueTail'[x],
                       nextQuery')
    <2>1. CASE x = e
      <3>1. Linked(Pending(e), eventQueueHead[e], eventQueueTail[e], nextQuery)
        BY <1>1 DEF EventQueueOK, QueueInv
      <3>2. Linked(Pending(e) \ {q}, nextQuery[q], eventQueueTail[e], nextQuery')
        BY <1>1, <1>2, <3>1, Finite, ListPop DEF QueryDequeued
      <3> QED BY <1>2, <2>1, <3>2 DEF QueryDequeued
    <2>2. CASE x # e
      BY <1>2, <2>2, EventStaysLinked DEF QueueInv, QueryDequeued
    <2> QED BY <2>1, <2>2
  <1> QED BY <1>6, <1>7, <1>9, <1>10 DEF EventQueueOK

-----------------------------------------------------------------------------
(* The invariant.                                                          *)

\* A Create either fails and sticks its caller or makes a task.
LEMMA CreateInKeeps ==
  ASSUME QueueInv, NEW t \in Slots, current = t,
         NEW R \in SUBSET Slots, NEW p, CreateIn(t, R, p)
  PROVE  IdentifiersOK' /\ SendQueueOK' /\ ReceiverQueueEmpty' /\ EventQueueOK'
  <1>1. ASSUME NEW code, CreateFails(t, code)
        PROVE  Quiet
    BY <1>1, StopQuiet DEF CreateFails
  <1>2. ASSUME NEW n \in R, FirstFree(n, R), createTask(t, n, p)
        PROVE  /\ IdentifiersOK' /\ SendQueueOK'
               /\ ReceiverQueueEmpty' /\ EventQueueOK'
    BY <1>2, CreateKeeps DEF FirstFree
  <1> QED BY <1>1, <1>2, QuietKeeps DEF CreateIn

LEMMA NextQueueInv == QueueInv /\ [Next]_vars => QueueInv'
  <1> SUFFICES ASSUME QueueInv, [Next]_vars
               PROVE  IdentifiersOK' /\ SendQueueOK' /\ ReceiverQueueEmpty'
                        /\ EventQueueOK'
    BY NextTypeOK DEF QueueInv
  <1>1. ASSUME NEW t \in Slots, Dispatch(t)
        PROVE  Quiet
    BY <1>1 DEF Dispatch, Quiet, sendQueue, eventQueue, isTdAvailable,
                ReceiverQueueEmpty, QueueInv
  <1>2. ASSUME NEW t \in Slots, Yield(t)
        PROVE  Quiet
    BY <1>2, ReturnQuiet DEF Yield
  <1>3. ASSUME NEW t \in Slots, Exit(t) \/ Overflow(t)
        PROVE  Quiet
    BY <1>3, StopQuiet DEF Exit, Overflow, Trap, Leave
  <1>4. ASSUME NEW t \in Slots, ChangePriority(t)
        PROVE  Quiet
    BY <1>4, ReturnQuiet DEF ChangePriority
  <1>5. ASSUME NEW t \in Slots, Create(t) \/ CreateMicroTask(t)
        PROVE  /\ IdentifiersOK' /\ SendQueueOK'
               /\ ReceiverQueueEmpty' /\ EventQueueOK'
    BY <1>5, SlotFacts, CreateInKeeps DEF Create, CreateMicroTask, Trap
  <1>6. ASSUME NEW t \in Slots, SendRefused(t)
        PROVE  Quiet
    BY <1>6, ReturnQuiet DEF SendRefused
  <1>7. ASSUME NEW t \in Slots, NEW op, ReceiveRefused(t, op)
        PROVE  Quiet
    BY <1>7, StopQuiet DEF ReceiveRefused, Trap
  <1>8. ASSUME NEW t \in Slots, ReceiveNothing(t)
        PROVE  Quiet
    BY <1>8, ReturnQuiet DEF ReceiveNothing
  <1>9. ASSUME NEW t \in Slots, ReplyRefused(t)
        PROVE  Quiet
    BY <1>9, ReturnQuiet DEF ReplyRefused
  <1>10. ASSUME NEW t \in Slots, AwaitEventRefused(t)
         PROVE  Quiet
    BY <1>10, ReturnQuiet DEF AwaitEventRefused
  <1>11. ASSUME NEW t \in Slots, Preempt(t)
         PROVE  Quiet
    BY <1>11, StopQuiet DEF Preempt
  <1>12. CASE UNCHANGED vars
    BY <1>12, QuietKeeps
    DEF vars, Quiet, sendQueue, eventQueue, isTdAvailable, ReceiverQueueEmpty,
        QueueInv
  <1>13. ASSUME NEW t \in Slots, Syscall(t)
         PROVE  /\ IdentifiersOK' /\ SendQueueOK'
                /\ ReceiverQueueEmpty' /\ EventQueueOK'
    BY <1>2, <1>3, <1>4, <1>5, <1>6, <1>7, <1>8, <1>9, <1>10, <1>13,
       SendDirectQuiet, ReceiveBlocksQuiet, ReplyQuiet, QuietKeeps,
       SendQueuedKeeps, ReceiveQueuedKeeps, AwaitEventKeeps
    DEF Syscall
  <1> QED
    BY <1>1, <1>3, <1>11, <1>12, <1>13, QuietKeeps, DeviceInterruptKeeps
    DEF Next, Interrupt

LEMMA InitQueueInv == Init => QueueInv
  <1> SUFFICES ASSUME Init PROVE QueueInv
    OBVIOUS
  <1>1. TypeOK
    BY InitTypeOK
  <1>2. \A r \in Slots : Senders(r) = {}
    BY DEF Init, Senders, IsSender
  <1>3. \A e \in EventTypes : Pending(e) = {}
    BY DEF Init, Pending, Vacant
  <1>4. SendQueueOK
    BY <1>2, ListEmpty DEF Init, SendQueueOK
  <1>5. ReceiverQueueEmpty
    BY DEF Init, ReceiverQueueEmpty
  <1>6. EventQueueOK
    BY <1>3, ListEmpty DEF Init, EventQueueOK, EventWaiters, Vacant
  <1>7. IdentifiersOK
    BY SlotFacts DEF Init, IdentifiersOK, isTdAvailable, NoCall, NoTid
  <1> QED BY <1>1, <1>4, <1>5, <1>6, <1>7 DEF QueueInv

\* The inductive invariant holds in every behaviour of the kernel.
THEOREM QueuesCorrect == Spec => []QueueInv
  <1> QED BY InitQueueInv, NextQueueInv, PTL DEF Spec

\* Every task that is blocked on a Send is linked, once, in the queue of the
\* task it sends to (push and pop of send.c and receive.c, createTask).
THEOREM SendQueuesCorrect == Spec => []SendQueueOK
  <1>1. QueueInv => SendQueueOK
    BY DEF QueueInv
  <1> QED BY <1>1, QueuesCorrect, PTL

\* sys_send may reset the head of the queue of a task that waits in Receive.
THEOREM ReceiverQueuesEmpty == Spec => []ReceiverQueueEmpty
  <1>1. QueueInv => ReceiverQueueEmpty
    BY DEF QueueInv
  <1> QED BY <1>1, QueuesCorrect, PTL

\* Every task that is blocked in AwaitEvent has one query, linked once in the
\* queue of its event, and every query in use has such a task
\* (pushEvent, popEvent, sys_eventHappened).
THEOREM EventQueuesCorrect == Spec => []EventQueueOK
  <1>1. QueueInv => EventQueueOK
    BY DEF QueueInv
  <1> QED BY <1>1, QueuesCorrect, PTL

\* A blocked call never names an identifier that is yet to be handed out, so
\* no call reaches a task that was created after it (createTask, findTd).
THEOREM IdentifiersCorrect == Spec => []IdentifiersOK
  <1>1. QueueInv => IdentifiersOK
    BY DEF QueueInv
  <1> QED BY <1>1, QueuesCorrect, PTL

-----------------------------------------------------------------------------
(* Delivery.                                                               *)

\* A quiet step receives no message.
LEMMA QuietReceivesNothing ==
  ASSUME Quiet, NEW s \in Slots, state[s] = "RCVD_BLK"
  PROVE  state'[s] # "RPLY_BLK"
BY DEF Quiet

\* Only a Receive of the addressee takes a sender out of its queue.
LEMMA ReceivedByAddressee ==
  ASSUME QueueInv, [Next]_vars,
         NEW s \in Slots, state[s] = "RCVD_BLK", state'[s] = "RPLY_BLK"
  PROVE  current \in Slots /\ call[s].tid = Tid(current)
  <1>1. ASSUME NEW t \in Slots, NEW op, ReceiveQueued(t, op)
        PROVE  current \in Slots /\ call[s].tid = Tid(current)
    <2> DEFINE h == sendQueueHead[t]
    <2>1. h \in Slots /\ IsSender(h, t)
      BY <1>1, Finite, ListEnds
      DEF ReceiveQueued, QueueInv, SendQueueOK, Senders
    <2>2. current = t
      BY <1>1 DEF ReceiveQueued, Trap
    <2>3. s = h
      BY <1>1, <2>1 DEF ReceiveQueued, QueueInv, TypeOK
    <2> QED BY <2>1, <2>2, <2>3 DEF IsSender
  <1>2. ASSUME NEW t \in Slots, NEW R \in SUBSET Slots, NEW p,
               CreateIn(t, R, p), current = t
        PROVE  FALSE
    <2>1. state'[s] \in {"RCVD_BLK", "RUNNING", "SYSCALL_BLK"}
      BY <1>2 DEF CreateIn, CreateFails, createTask, QueueInv, TypeOK
    <2> QED BY <2>1
  <1>3. ASSUME NEW t \in Slots, SendQueued(t) \/ AwaitEvent(t)
        PROVE  FALSE
    BY <1>3 DEF SendQueued, AwaitEvent, QueueInv, TypeOK
  <1>4. ASSUME NEW t \in Slots, NEW e \in Devices, DeviceInterrupt(t, e)
        PROVE  FALSE
    BY <1>4 DEF DeviceInterrupt, QueueInv, TypeOK
  <1>5. ASSUME Quiet
        PROVE  FALSE
    BY <1>5, QuietReceivesNothing
  <1>6. CASE UNCHANGED vars
    BY <1>6 DEF vars
  <1>7. CASE \E t \in Slots : Dispatch(t)
    BY <1>7 DEF Dispatch
  <1>8. ASSUME NEW t \in Slots, Syscall(t) \/ Overflow(t) \/ Interrupt(t)
        PROVE  current \in Slots /\ call[s].tid = Tid(current)
    <2>1. CASE \/ Yield(t) \/ ChangePriority(t) \/ SendRefused(t)
               \/ ReceiveNothing(t) \/ ReplyRefused(t) \/ AwaitEventRefused(t)
      BY <1>5, <2>1, ReturnQuiet
      DEF Yield, ChangePriority, SendRefused, ReceiveNothing, ReplyRefused,
          AwaitEventRefused
    <2>2. CASE Exit(t) \/ Overflow(t) \/ Preempt(t)
      BY <1>5, <2>2, StopQuiet DEF Exit, Overflow, Preempt, Leave, Trap
    <2>3. CASE Create(t) \/ CreateMicroTask(t)
      BY <1>2, <2>3, SlotFacts DEF Create, CreateMicroTask, Trap
    <2>4. ASSUME NEW op, ReceiveRefused(t, op)
          PROVE  FALSE
      BY <1>5, <2>4, StopQuiet DEF ReceiveRefused, Trap
    <2> QED
      BY <1>1, <1>3, <1>4, <1>5, <1>8, <2>1, <2>2, <2>3, <2>4,
         SendDirectQuiet, ReceiveBlocksQuiet, ReplyQuiet
      DEF Syscall, Interrupt
  <1> QED BY <1>6, <1>7, <1>8 DEF Next

\* A message is received by the task it was sent to, never by one that was
\* given the slot later, although a dead task keeps its queue until then.
THEOREM MessagesReachAddressee == Spec => DeliveredToAddressee
  <1>1. QueueInv /\ [Next]_vars =>
          [\A s \in Slots : state[s] = "RCVD_BLK" /\ state'[s] = "RPLY_BLK" =>
             current \in Slots /\ call[s].tid = Tid(current)]_vars
    BY ReceivedByAddressee
  <1> QED BY <1>1, QueuesCorrect, PTL DEF Spec, DeliveredToAddressee
-----------------------------------------------------------------------------
(* What a call hands back is neither lost nor early.  The tasks that a     *)
(* step makes ready besides the one that trapped are heads of queues, and  *)
(* by QueueInv a head is a task that is blocked in the very call the step  *)
(* completes.                                                              *)


\* The outcome is given to the task when it is dispatched, so none is left
\* while the task runs and none can be there when it is preempted.
OutcomeInv ==
  /\ NoOutcomeForPreempted
  /\ \A t \in Slots : current = t => ret[t] = Only("PENDING")

\* What a step of the running task t may do to the others and to itself.
Considerate(t) ==
  /\ current = t /\ current' = Nobody
  /\ \A i \in Slots : i # t => ServedOnly(i)
  /\ \A i \in Slots : i # t /\ state'[i] = "HWINT" =>
       state[i] = "HWINT" /\ ret'[i] = ret[i]
  /\ state'[t] = "HWINT" => ret'[t] = ret[t]

-----------------------------------------------------------------------------
\* A step that changes no other task is considerate.
LEMMA AloneConsiderate ==
  ASSUME TypeOK, NEW t \in Slots, current = t, current' = Nobody,
         \A i \in Slots : i # t => state'[i] = state[i] /\ ret'[i] = ret[i],
         state'[t] # "HWINT" \/ ret' = ret
  PROVE  Considerate(t)
BY DEF Considerate, ServedOnly

LEMMA ReturnConsiderate ==
  ASSUME TypeOK, NEW t \in Slots, NEW op, Trap(t, op), NEW r, Return(t, r)
  PROVE  Considerate(t)
  <1>1. /\ state'[t] = "RUNNING"
        /\ \A i \in Slots : i # t => state'[i] = state[i] /\ ret'[i] = ret[i]
    BY DEF Return, TypeOK
  <1> QED BY <1>1, AloneConsiderate DEF Trap

\* The tasks that a Create changes are its caller and a task that is dead.
LEMMA CreateConsiderate ==
  ASSUME TypeOK, NEW t \in Slots, current = t, current' = Nobody,
         NEW R \in SUBSET Slots, NEW p, CreateIn(t, R, p)
  PROVE  Considerate(t)
  <1>1. ASSUME NEW code, CreateFails(t, code)
        PROVE  Considerate(t)
    <2>1. /\ state'[t] = "SYSCALL_BLK"
          /\ \A i \in Slots : i # t => state'[i] = state[i] /\ ret'[i] = ret[i]
      BY <1>1 DEF CreateFails, TypeOK
    <2> QED BY <2>1, AloneConsiderate
  <1>2. ASSUME NEW n \in R, FirstFree(n, R), createTask(t, n, p)
        PROVE  Considerate(t)
    <2>1. /\ state'[t] = "RUNNING" /\ state'[n] = "RUNNING"
          /\ state[n] \in {"INVALID", "EXITED", "KILLED"}
          /\ \A i \in Slots : i # t /\ i # n =>
               state'[i] = state[i] /\ ret'[i] = ret[i]
      BY <1>2 DEF createTask, FirstFree, isTdAvailable, TypeOK
    <2> QED BY <2>1 DEF Considerate, ServedOnly
  <1> QED BY <1>1, <1>2 DEF CreateIn

\* The Send that completes a Receive.
LEMMA SendDirectConsiderate ==
  ASSUME TypeOK, NEW t \in Slots, SendDirect(t)
  PROVE  Considerate(t)
  <1>1. PICK id \in KnownTids, len \in Lens, rlen \in Lens \ {0} :
          SendDirect(t)!2!(id, len, rlen)
    BY DEF SendDirect
  <1>2. PICK r \in Slots : r = findTd(id) /\ state[r] = "SEND_BLK"
    BY <1>1, TidFacts
  <1>3. r # t
    BY <1>2, Running DEF SendDirect
  <1>4. /\ state'[r] = "RUNNING" /\ state'[t] = "RPLY_BLK"
        /\ ret'[r].code \in {"OK", "TOO_SMALL"} /\ ret'[r].tid = Tid(t)
        /\ \A i \in Slots : i # t /\ i # r =>
             state'[i] = state[i] /\ ret'[i] = ret[i]
    BY <1>1, <1>2, <1>3 DEF TypeOK, With
  <1>5. ServedOnly(r)
    BY <1>2, <1>4 DEF ServedOnly, Tid
  <1> QED BY <1>4, <1>5 DEF SendDirect, Trap, Considerate, ServedOnly

\* The Receive that takes a queued message.
LEMMA ReceiveQueuedConsiderate ==
  ASSUME QueueInv, NEW t \in Slots, NEW op, ReceiveQueued(t, op)
  PROVE  Considerate(t)
  <1>1. PICK s \in Slots : s = sendQueueHead[t] /\ state[s] = "RCVD_BLK"
    BY Finite, ListEnds
    DEF ReceiveQueued, QueueInv, SendQueueOK, Senders, IsSender
  <1>2. /\ state'[t] = "RUNNING" /\ state'[s] = "RPLY_BLK"
        /\ \A i \in Slots : i # t /\ i # s =>
             state'[i] = state[i] /\ ret'[i] = ret[i]
    BY <1>1, Running DEF ReceiveQueued, QueueInv, TypeOK
  <1>3. current = t /\ current' = Nobody
    BY DEF ReceiveQueued, Trap
  <1> QED BY <1>1, <1>2, <1>3 DEF Considerate, ServedOnly

\* The Reply that completes a Send.
LEMMA ReplyConsiderate ==
  ASSUME TypeOK, NEW t \in Slots, ReplyDelivers(t)
  PROVE  Considerate(t)
  <1>1. PICK id \in KnownTids, len \in Lens : ReplyDelivers(t)!2!(id, len)
    BY DEF ReplyDelivers
  <1>2. PICK s \in Slots : s = findTd(id) /\ state[s] = "RPLY_BLK"
    BY <1>1, TidFacts DEF AwaitsReply
  <1>3. s # t
    BY <1>2, Running DEF ReplyDelivers
  <1>4. /\ state'[s] = "RUNNING" /\ state'[t] = "RUNNING"
        /\ ret'[s].code \in {"OK", "INCOMPLETE"}
        /\ \A i \in Slots : i # t /\ i # s =>
             state'[i] = state[i] /\ ret'[i] = ret[i]
    BY <1>1, <1>2, <1>3 DEF TypeOK, Only
  <1> QED BY <1>2, <1>4 DEF ReplyDelivers, Trap, Considerate, ServedOnly

\* The interrupt that completes an AwaitEvent and stops the running task.
LEMMA DeviceInterruptConsiderate ==
  ASSUME QueueInv, NEW t \in Slots, NEW e \in Devices, DeviceInterrupt(t, e)
  PROVE  Considerate(t)
  <1>1. PICK w \in Slots : /\ w = findTd(waitingTid[eventQueueHead[e]])
                           /\ state[w] = "EVT_BLK"
    BY KernelAssumption, WokenTaskWaits
    DEF KernelAssumption, DeviceInterrupt, IsWaiting
  <1>2. w # t
    BY <1>1, SlotFacts DEF DeviceInterrupt, QueueInv, TypeOK, isTaskReady
  <1>3. /\ state'[w] = "RUNNING" /\ ret'[w].code = "VOLATILE"
        /\ \A i \in Slots : i # t /\ i # w => state'[i] = state[i]
        /\ \A i \in Slots : i # w => ret'[i] = ret[i]
    BY <1>1, <1>2 DEF DeviceInterrupt, QueueInv, TypeOK, Only
  <1> QED BY <1>1, <1>2, <1>3 DEF DeviceInterrupt, Considerate, ServedOnly

\* Every step in user mode is considerate.
LEMMA UserStepConsiderate ==
  ASSUME QueueInv, NEW t \in Slots,
         Syscall(t) \/ Overflow(t) \/ Interrupt(t)
  PROVE  Considerate(t)
  <1>0. TypeOK
    BY DEF QueueInv
  <1>1. CASE \/ Yield(t) \/ ChangePriority(t) \/ SendRefused(t)
             \/ ReceiveNothing(t) \/ ReplyRefused(t) \/ AwaitEventRefused(t)
    BY <1>0, <1>1, ReturnConsiderate
    DEF Yield, ChangePriority, SendRefused, ReceiveNothing, ReplyRefused,
        AwaitEventRefused
  <1>2. CASE Exit(t) \/ Overflow(t)
    <2>1. /\ state'[t] \in {"EXITED", "KILLED"} /\ ret' = ret
          /\ \A i \in Slots : i # t => state'[i] = state[i]
      BY <1>0, <1>2 DEF Exit, Overflow, Leave, TypeOK
    <2> QED BY <1>0, <1>2, <2>1, AloneConsiderate DEF Exit, Overflow, Trap
  <1>3. CASE Preempt(t)
    <2>1. ret' = ret /\ \A i \in Slots : i # t => state'[i] = state[i]
      BY <1>0, <1>3 DEF Preempt, TypeOK
    <2> QED BY <1>0, <1>3, <2>1, AloneConsiderate DEF Preempt
  <1>4. CASE Create(t) \/ CreateMicroTask(t)
    BY <1>0, <1>4, SlotFacts, CreateConsiderate DEF Create, CreateMicroTask, Trap
  <1>5. CASE SendQueued(t) \/ ReceiveBlocks(t) \/ AwaitEvent(t)
    <2>1. /\ state'[t] \in {"RCVD_BLK", "SEND_BLK", "EVT_BLK"}
          /\ \A i \in Slots : i # t => state'[i] = state[i] /\ ret'[i] = ret[i]
      BY <1>0, <1>5 DEF SendQueued, ReceiveBlocks, AwaitEvent, TypeOK
    <2> QED
      BY <1>0, <1>5, <2>1, AloneConsiderate
      DEF SendQueued, ReceiveBlocks, AwaitEvent, Trap
  <1>6. ASSUME NEW op, ReceiveRefused(t, op)
        PROVE  Considerate(t)
    <2>1. /\ state'[t] = "SYSCALL_BLK"
          /\ \A i \in Slots : i # t => state'[i] = state[i] /\ ret'[i] = ret[i]
      BY <1>0, <1>6 DEF ReceiveRefused, TypeOK
    <2> QED BY <1>0, <1>6, <2>1, AloneConsiderate DEF ReceiveRefused, Trap
  <1> QED
    BY <1>0, <1>1, <1>2, <1>3, <1>4, <1>5, <1>6, SendDirectConsiderate,
       ReceiveQueuedConsiderate, ReplyConsiderate, DeviceInterruptConsiderate
    DEF Syscall, Interrupt

-----------------------------------------------------------------------------
LEMMA NextOutcomeInv ==
  ASSUME QueueInv, OutcomeInv, [Next]_vars
  PROVE  OutcomeInv'
  <1>1. ASSUME NEW t \in Slots, Dispatch(t)
        PROVE  OutcomeInv'
    BY <1>1, SlotFacts
    DEF Dispatch, OutcomeInv, NoOutcomeForPreempted, QueueInv, TypeOK
  <1>2. ASSUME NEW t \in Slots, Considerate(t)
        PROVE  OutcomeInv'
    BY <1>2, SlotFacts DEF Considerate, OutcomeInv, NoOutcomeForPreempted
  <1>3. CASE UNCHANGED vars
    BY <1>3 DEF vars, OutcomeInv, NoOutcomeForPreempted
  <1> QED BY <1>1, <1>2, <1>3, UserStepConsiderate DEF Next

LEMMA InitOutcomeInv == Init => OutcomeInv
BY SlotFacts DEF Init, OutcomeInv, NoOutcomeForPreempted

\* A task that an interrupt stopped has no outcome waiting in its descriptor,
\* so kernelToTask, which gives it its own registers back, drops none.
THEOREM OutcomesDelivered == Spec => []NoOutcomeForPreempted
  <1>1. OutcomeInv => NoOutcomeForPreempted
    BY DEF OutcomeInv
  <1> QED
    BY <1>1, InitOutcomeInv, NextOutcomeInv, QueuesCorrect, PTL DEF Spec

-----------------------------------------------------------------------------
\* Of a task that a step does not run, only the awaited event changes the
\* state; the running task is not blocked.
LEMMA NextServedOnly ==
  ASSUME QueueInv, [Next]_vars, NEW i \in Slots
  PROVE  ServedOnly(i)
  <1>1. ASSUME NEW t \in Slots, Considerate(t)
        PROVE  ServedOnly(i)
    <2>1. CASE i = t
      BY <1>1, <2>1, SlotFacts
      DEF Considerate, ServedOnly, QueueInv, TypeOK, isTaskReady
    <2>2. CASE i # t
      BY <1>1, <2>2 DEF Considerate
    <2> QED BY <2>1, <2>2
  <1>2. CASE state' = state
    BY <1>2 DEF ServedOnly
  <1>3. ASSUME NEW t \in Slots, Dispatch(t)
        PROVE  ServedOnly(i)
    BY <1>2, <1>3 DEF Dispatch
  <1>4. CASE UNCHANGED vars
    BY <1>2, <1>4 DEF vars
  <1> QED BY <1>1, <1>3, <1>4, UserStepConsiderate DEF Next

\* A blocked Send, Receive, Reply or AwaitEvent ends with the event it waits
\* for and with an outcome that says so (send.c, receive.c, reply.c,
\* awaitevent.c), and a preempted task is left alone until it runs again.
THEOREM CallsAreServed == Spec => BlockedUntilServed
  <1>1. QueueInv /\ [Next]_vars => [\A t \in Slots : ServedOnly(t)]_vars
    BY NextServedOnly
  <1> QED BY <1>1, QueuesCorrect, PTL DEF Spec, BlockedUntilServed
=============================================================================
