-------------------------- MODULE RefinementProofs --------------------------
(***************************************************************************)
(* The kernel loop implements Kernel, and Kernel implements BlockingCalls: *)
(* what is proved of Kernel holds under the real scheduler, and what a     *)
(* program may expect of the blocking calls is what the kernel does.  Then *)
(* the ready lists of the loop: they hold exactly the tasks that they      *)
(* should, and the most urgent one runs, if no slot is reused after an     *)
(* exit and every priority has a list.                                     *)
(***************************************************************************)
EXTENDS PrjOS, KernelProofs, KernelRefinement, SequenceTheorems

-----------------------------------------------------------------------------
(* The elements that a chain of links goes through.                        *)

\* Every set of naturals has a least member: the first numbers are a chain of
\* finite sets, and inclusion of those is well-founded.
LEMMA LeastMember ==
  ASSUME NEW T, T \subseteq Nat, T # {}
  PROVE  \E m \in T : \A k \in T : m <= k
  <1> DEFINE R == StrictSubsetOrdering(Nat)
             I == {1 .. k : k \in T}
  <1>1. \A k \in T : 1 .. k \in FiniteSubsetsOf(Nat)
    <2> SUFFICES ASSUME NEW k \in T PROVE 1 .. k \in FiniteSubsetsOf(Nat)
      OBVIOUS
    <2>1. IsFiniteSet(1 .. k) /\ 1 .. k \subseteq Nat
      BY FS_Interval
    <2> QED BY <2>1 DEF FiniteSubsetsOf
  <1>2. I \subseteq FiniteSubsetsOf(Nat) /\ I # {}
    <2> HIDE DEF R
    <2> QED BY <1>1
  <1>3. IsWellFoundedOn(R, FiniteSubsetsOf(Nat))
    BY FS_StrictSubsetOrderingWellFounded
  <1>4. \E x \in I : \A y \in I : ~ (<<y, x>> \in R)
    <2> HIDE DEF R, I
    <2> QED BY <1>2, <1>3, WFMin
  <1>5. PICK m \in T : \A k \in T : ~ (<<1 .. k, 1 .. m>> \in R)
    BY <1>4
  <1>6. ASSUME NEW k \in T, k < m
        PROVE  FALSE
    <2>1. k \in Nat /\ m \in Nat
      OBVIOUS
    <2>2. 1 .. k \subseteq 1 .. m /\ m \in 1 .. m /\ m \notin 1 .. k
      BY <1>6, <2>1
    <2>3. 1 .. k \in SUBSET Nat /\ 1 .. m \in SUBSET Nat /\ 1 .. k # 1 .. m
      BY <2>1, <2>2
    <2>4. <<1 .. k, 1 .. m>> \in R
      BY <2>2, <2>3 DEF StrictSubsetOrdering
    <2> QED BY <1>5, <2>4
  <1> QED BY <1>6

\* v[k] is the k-th element behind head, if there is one.
Behind(v, head, link, m) ==
  v = [k \in 1 .. m + 1 |->
         IF k = 1 THEN head ELSE IF v[k - 1] = Null THEN Null ELSE link[v[k - 1]]]

\* There is one such v: two could not differ at a first place.
LEMMA BehindUnique ==
  ASSUME NEW head, NEW link, NEW m \in Nat,
         NEW v, NEW w, Behind(v, head, link, m), Behind(w, head, link, m)
  PROVE  v = w
  <1> DEFINE D == {k \in 1 .. m + 1 : v[k] # w[k]}
  <1>1. /\ DOMAIN v = 1 .. m + 1 /\ DOMAIN w = 1 .. m + 1
        /\ v = [k \in DOMAIN v |-> v[k]] /\ w = [k \in DOMAIN w |-> w[k]]
    BY DEF Behind
  <1>2. ASSUME D # {}
        PROVE  FALSE
    <2>1. D \subseteq Nat
      OBVIOUS
    <2>2. PICK k \in D : \A i \in D : k <= i
      BY <1>2, <2>1, LeastMember
    <2>3. k # 1
      BY DEF Behind
    <2>4. k - 1 \in 1 .. m + 1 /\ k - 1 \notin D
      BY <2>2, <2>3
    <2>5. v[k] = IF v[k - 1] = Null THEN Null ELSE link[v[k - 1]]
      BY <2>3 DEF Behind
    <2>6. w[k] = IF w[k - 1] = Null THEN Null ELSE link[w[k - 1]]
      BY <2>3 DEF Behind
    <2> QED BY <2>4, <2>5, <2>6
  <1> QED BY <1>1, <1>2

\* Chain cuts it where the elements end.
LEMMA ChainBehind ==
  ASSUME NEW head, NEW link, NEW S, Cardinality(S) \in Nat,
         NEW w, Behind(w, head, link, Cardinality(S)),
         NEW n \in Nat, n = Cardinality({k \in 1 .. Cardinality(S) + 1 : w[k] # Null}),
         NEW f, f = [k \in 1 .. n |-> w[k]]
  PROVE  Chain(head, link, S) = f
  <1> DEFINE at[k \in 1 .. Cardinality(S) + 1] ==
               IF k = 1 THEN head
               ELSE IF at[k - 1] = Null THEN Null ELSE link[at[k - 1]]
  <1>1. \E v : Behind(v, head, link, Cardinality(S))
    OBVIOUS
  <1>2. Behind(at, head, link, Cardinality(S))
    BY <1>1 DEF Behind
  <1>3. Chain(head, link, S) =
          [k \in 1 .. Cardinality({k \in DOMAIN at : at[k] # Null}) |-> at[k]]
    BY DEF Chain
  <1> HIDE DEF at
  <1>4. at = w
    BY <1>2, BehindUnique
  <1>5. DOMAIN w = 1 .. Cardinality(S) + 1
    BY DEF Behind
  <1> QED BY <1>3, <1>4, <1>5

\* The chain of a linked list is the one way in which it runs.
LEMMA ChainRuns ==
  ASSUME NEW S, IsFiniteSet(S), Null \notin S, NEW T, T \subseteq S,
         NEW head, NEW tail, NEW next, NEW f, NEW n,
         Runs(f, n, T, head, tail, next)
  PROVE  Chain(head, next, S) = f
  <1> DEFINE m == Cardinality(S)
             w == [k \in 1 .. m + 1 |-> IF k <= n THEN f[k] ELSE Null]
  <1>1. m \in Nat /\ n \in Nat /\ n <= m
    BY FS_CardinalityType, FS_Subset DEF Runs
  <1> HIDE DEF m
  <1>2. \A k \in 1 .. n : f[k] # Null
    BY DEF Runs
  <1>3. Behind(w, head, next, m)
    <2>1. ASSUME NEW k \in 1 .. m + 1
          PROVE  w[k] = IF k = 1 THEN head
                        ELSE IF w[k - 1] = Null THEN Null ELSE next[w[k - 1]]
      <3>1. CASE k = 1
        BY <1>1, <3>1 DEF Runs
      <3>2. CASE k # 1 /\ k - 1 <= n
        <4>1. k - 1 \in 1 .. n /\ k - 1 \in 1 .. m + 1
          BY <1>1, <3>2
        <4>2. w[k - 1] = f[k - 1] /\ f[k - 1] # Null
          BY <1>2, <4>1
        <4>3. (k - 1) + 1 = k /\ (k - 1 = n <=> ~(k <= n))
          BY <1>1, <3>2
        <4>4. next[f[k - 1]] = IF k <= n THEN f[k] ELSE Null
          BY <4>1, <4>3 DEF Runs
        <4> QED BY <1>1, <3>2, <4>2, <4>4
      <3>3. CASE k # 1 /\ k - 1 > n
        BY <1>1, <3>3
      <3> QED BY <1>1, <3>1, <3>2, <3>3
    <2>2. w = [k \in 1 .. m + 1 |-> w[k]]
      OBVIOUS
    <2> HIDE DEF w
    <2> QED BY <2>1, <2>2 DEF Behind
  <1>4. n = Cardinality({k \in 1 .. m + 1 : w[k] # Null})
    <2>1. {k \in 1 .. m + 1 : w[k] # Null} = 1 .. n
      BY <1>1, <1>2
    <2>2. Cardinality(1 .. n) = n
      BY <1>1, FS_Interval
    <2> QED BY <2>1, <2>2
  <1>5. f = [k \in 1 .. n |-> w[k]]
    <2>1. f = [k \in 1 .. n |-> f[k]]
      BY DEF Runs
    <2>2. \A k \in 1 .. n : w[k] = f[k]
      BY <1>1
    <2> HIDE DEF w
    <2> QED BY <2>1, <2>2
  <1> HIDE DEF w
  <1> QED BY <1>1, <1>3, <1>4, <1>5, ChainBehind DEF m

\* So the chain lists the members of a linked set, each once.
LEMMA ChainLists ==
  ASSUME NEW S, IsFiniteSet(S), Null \notin S, NEW T, T \subseteq S,
         NEW head, NEW tail, NEW next, Linked(T, head, tail, next)
  PROVE  /\ Chain(head, next, S) \in Seq(T)
         /\ \A x \in T : \E k \in DOMAIN Chain(head, next, S) :
              Chain(head, next, S)[k] = x
         /\ Chain(head, next, S) = <<>> <=> head = Null
         /\ head # Null => Head(Chain(head, next, S)) = head
  <1>1. IsFiniteSet(T) /\ Null \notin T
    BY FS_Subset
  <1>2. PICK f, n : Runs(f, n, T, head, tail, next)
    BY <1>1, LinkedRuns
  <1>3. Chain(head, next, S) = f
    BY <1>2, ChainRuns
  <1>4. n \in Nat /\ f \in [1 .. n -> T]
    BY <1>2 DEF Runs
  <1>5. f \in Seq(T) /\ Len(f) = n /\ DOMAIN f = 1 .. n
    BY <1>4
  <1>6. \A x \in T : \E k \in DOMAIN f : f[k] = x
    BY <1>2, <1>5 DEF Runs
  <1>7. f = <<>> <=> n = 0
    BY <1>5
  <1>8. n # 0 => f[1] \in T /\ Head(f) = f[1]
    BY <1>4, <1>5, <1>7
  <1>9. head = IF n = 0 THEN Null ELSE f[1]
    BY <1>2 DEF Runs
  <1> QED BY <1>1, <1>3, <1>5, <1>6, <1>7, <1>8, <1>9

\* The chain of a linked set repeats no element.
LEMMA ChainOnce ==
  ASSUME NEW S, IsFiniteSet(S), Null \notin S, NEW T, T \subseteq S,
         NEW head, NEW tail, NEW next, Linked(T, head, tail, next),
         NEW c, c = Chain(head, next, S)
  PROVE  \A i, j \in DOMAIN c : c[i] = c[j] => i = j
  <1>1. IsFiniteSet(T)
    BY FS_Subset
  <1>2. PICK f, n : Runs(f, n, T, head, tail, next)
    BY <1>1, LinkedRuns
  <1>3. c = f
    BY <1>2, ChainRuns
  <1> QED BY <1>2, <1>3 DEF Runs

\* What a push and a pop make of the sequence c.  They are names of their own so
\* that the lemmas about them can be instantiated.
Longer(d, c, x) == d = Append(c, x)

Shorter(d, c) == d = Tail(c)

\* Links of others do not matter.
LEMMA ChainKept ==
  ASSUME NEW S, IsFiniteSet(S), Null \notin S, NEW T, T \subseteq S,
         NEW head, NEW tail, NEW next, Linked(T, head, tail, next),
         NEW next2, \A x \in T : next2[x] = next[x]
  PROVE  Chain(head, next2, S) = Chain(head, next, S)
  <1>1. IsFiniteSet(T) /\ Null \notin T
    BY FS_Subset
  <1>2. PICK f, n : Runs(f, n, T, head, tail, next)
    BY <1>1, LinkedRuns
  <1>3. \A i \in 1 .. n : f[i] \in T
    BY <1>2 DEF Runs
  <1>4. Runs(f, n, T, head, tail, next2)
    BY <1>2, <1>3 DEF Runs
  <1>5. Chain(head, next, S) = f
    BY <1>2, ChainRuns
  <1>6. Chain(head, next2, S) = f
    BY <1>4, ChainRuns
  <1> QED BY <1>5, <1>6

\* Pushing appends, popping removes the first.
LEMMA ChainPush ==
  ASSUME NEW S, IsFiniteSet(S), Null \notin S, NEW T, T \subseteq S,
         NEW head, NEW tail, NEW next, Linked(T, head, tail, next),
         NEW x \in S, x \notin T, NEW head2, NEW next2,
         Appends(x, T, head, tail, next, head2, next2)
  PROVE  Longer(Chain(head2, next2, S), Chain(head, next, S), x)
  <1>1. IsFiniteSet(T) /\ Null \notin T
    BY FS_Subset
  <1>2. PICK f, n : Runs(f, n, T, head, tail, next)
    BY <1>1, LinkedRuns
  <1>3. PICK g : g = [i \in 1 .. n + 1 |-> IF i = n + 1 THEN x ELSE f[i]]
    OBVIOUS
  <1>4. Runs(g, n + 1, T \cup {x}, head2, x, next2)
    BY <1>1, <1>2, <1>3, RunsPush
  <1>5. Chain(head, next, S) = f
    BY <1>2, ChainRuns
  <1>6. T \cup {x} \subseteq S
    OBVIOUS
  <1>7. Chain(head2, next2, S) = g
    BY <1>4, <1>6, ChainRuns
  <1>8. f \in Seq(S) /\ Len(f) = n /\ n \in Nat
    BY <1>2 DEF Runs
  <1>9. g \in Seq(S) /\ Len(g) = n + 1
    BY <1>4, <1>6, <1>8 DEF Runs
  <1>10. g = Append(f, x)
    <2>1. Append(f, x) \in Seq(S) /\ Len(Append(f, x)) = n + 1
      BY <1>8, AppendProperties
    <2>2. \A i \in 1 .. n + 1 : Append(f, x)[i] = g[i]
      BY <1>3, <1>8, AppendProperties
    <2> QED BY <1>9, <2>1, <2>2, SeqEqual
  <1> QED BY <1>5, <1>7, <1>10 DEF Longer

LEMMA ChainPop ==
  ASSUME NEW S, IsFiniteSet(S), Null \notin S, NEW T, T \subseteq S,
         NEW head, NEW tail, NEW next, Linked(T, head, tail, next),
         head # Null,
         NEW next2, \A y \in T : y = head \/ next2[y] = next[y]
  PROVE  Shorter(Chain(next[head], next2, S), Chain(head, next, S))
  <1>1. IsFiniteSet(T) /\ Null \notin T
    BY FS_Subset
  <1>2. PICK f, n : Runs(f, n, T, head, tail, next)
    BY <1>1, LinkedRuns
  <1>3. PICK g : g = [i \in 1 .. n - 1 |-> f[i + 1]]
    OBVIOUS
  <1>4. Runs(g, n - 1, T \ {head}, next[head], tail, next2)
    BY <1>1, <1>2, <1>3, RunsPop
  <1>5. Chain(head, next, S) = f
    BY <1>2, ChainRuns
  <1>6. T \ {head} \subseteq S
    OBVIOUS
  <1>7. Chain(next[head], next2, S) = g
    BY <1>4, <1>6, ChainRuns
  <1>8. f \in Seq(S) /\ Len(f) = n /\ n \in Nat /\ n # 0
    BY <1>2 DEF Runs
  <1>9. g \in Seq(S) /\ Len(g) = n - 1
    BY <1>4, <1>6, <1>8 DEF Runs
  <1>10. g = Tail(f)
    <2>1. f # <<>>
      BY <1>8
    <2>2. Tail(f) \in Seq(S) /\ Len(Tail(f)) = n - 1
      BY <1>8, <2>1, HeadTailProperties
    <2>3. \A i \in 1 .. n - 1 : Tail(f)[i] = g[i]
      BY <1>3, <1>8, <2>1, <2>2, HeadTailProperties
    <2> QED BY <1>9, <2>2, <2>3, SeqEqual
  <1> QED BY <1>5, <1>7, <1>10 DEF Shorter

-----------------------------------------------------------------------------
(* The mailboxes and the lines are what the queues link.                   *)

\* What each mailbox and each line holds.
ListsRead ==
  /\ \A r \in Slots :
       /\ Mail[r] = <<>> <=> sendQueueHead[r] = Null
       /\ sendQueueHead[r] # Null => Head(Mail[r]) = sendQueueHead[r]
       /\ \A i \in Slots : IsSender(i, r) <=> \E k \in DOMAIN Mail[r] : Mail[r][k] = i
  /\ \A e \in EventTypes :
       /\ Line[e] = <<>> <=> eventQueueHead[e] = Null
       /\ eventQueueHead[e] # Null =>
            Head(Line[e]) = waitingTid[eventQueueHead[e]][1]

\* The sets that the queues are made of.
LEMMA Bounded ==
  /\ IsFiniteSet(Slots) /\ Null \notin Slots
  /\ IsFiniteSet(Queries) /\ Null \notin Queries
  /\ \A r \in Slots : Senders(r) \subseteq Slots
  /\ \A e \in EventTypes : Pending(e) \subseteq Queries
  <1>1. IsFiniteSet(Slots) /\ IsFiniteSet(Queries)
    BY KernelAssumption, FS_Interval DEF KernelAssumption, Slots, Queries
  <1> QED BY <1>1, SlotFacts DEF Senders, Pending

\* The tasks of a line are those of its queries.
TasksOf(queries) == [k \in DOMAIN queries |-> waitingTid[queries[k]][1]]

LEMMA LineOf ==
  ASSUME NEW e \in EventTypes
  PROVE  Line[e] = TasksOf(Chain(eventQueueHead[e], nextQuery, Queries))
BY DEF Line, TasksOf

LEMMA ReadLists ==
  ASSUME QueueInv
  PROVE  ListsRead
  <1>1. ASSUME NEW r \in Slots
        PROVE  /\ Mail[r] = <<>> <=> sendQueueHead[r] = Null
               /\ sendQueueHead[r] # Null => Head(Mail[r]) = sendQueueHead[r]
               /\ \A i \in Slots : IsSender(i, r) <=>
                    \E k \in DOMAIN Mail[r] : Mail[r][k] = i
    <2> DEFINE c == Chain(sendQueueHead[r], sendQueueNext, Slots)
    <2>1. Mail[r] = c
      BY DEF Mail
    <2>2. Linked(Senders(r), sendQueueHead[r], sendQueueTail[r], sendQueueNext)
      BY DEF QueueInv, SendQueueOK
    <2>3. /\ c \in Seq(Senders(r))
          /\ \A x \in Senders(r) : \E k \in DOMAIN c : c[k] = x
          /\ c = <<>> <=> sendQueueHead[r] = Null
          /\ sendQueueHead[r] # Null => Head(c) = sendQueueHead[r]
      BY <2>2, Bounded, ChainLists
    <2> HIDE DEF c
    <2>4. \A k \in DOMAIN c : c[k] \in Senders(r)
      BY <2>3, LenProperties
    <2>5. \A i \in Slots : IsSender(i, r) <=> i \in Senders(r)
      BY DEF Senders
    <2> QED BY <2>1, <2>3, <2>4, <2>5
  <1>2. ASSUME NEW e \in EventTypes
        PROVE  /\ Line[e] = <<>> <=> eventQueueHead[e] = Null
               /\ eventQueueHead[e] # Null =>
                    Head(Line[e]) = waitingTid[eventQueueHead[e]][1]
    <2> DEFINE c == Chain(eventQueueHead[e], nextQuery, Queries)
    <2>1. Line[e] = [k \in DOMAIN c |-> waitingTid[c[k]][1]]
      BY LineOf DEF TasksOf
    <2>2. Linked(Pending(e), eventQueueHead[e], eventQueueTail[e], nextQuery)
      BY DEF QueueInv, EventQueueOK
    <2>3. /\ c \in Seq(Pending(e))
          /\ c = <<>> <=> eventQueueHead[e] = Null
          /\ eventQueueHead[e] # Null => Head(c) = eventQueueHead[e]
      BY <2>2, Bounded, ChainLists
    <2> HIDE DEF c
    <2>4. DOMAIN c = 1 .. Len(c) /\ Len(c) \in Nat
      BY <2>3, LenProperties
    <2>5. CASE c = <<>>
      BY <2>1, <2>3, <2>5
    <2>6. CASE c # <<>>
      <3>1. Len(c) # 0 /\ Head(c) = c[1]
        BY <2>3, <2>6, EmptySeq
      <3>2. 1 \in DOMAIN c /\ Line[e][1] = waitingTid[Head(c)][1]
        BY <2>1, <2>4, <3>1
      <3>3. DOMAIN Line[e] = 1 .. Len(c)
        BY <2>1, <2>4
      <3>4. Line[e] # <<>> /\ Head(Line[e]) = Line[e][1]
        BY <2>4, <3>1, <3>3
      <3> QED BY <2>3, <2>6, <3>2, <3>4
    <2> QED BY <2>5, <2>6
  <1> QED BY <1>1, <1>2 DEF ListsRead

\* What the changes of the send queues do to the mailboxes.
LEMMA MailKept ==
  ASSUME QueueInv, NEW x \in Slots, MailboxKept(x)
  PROVE  Mail'[x] = Mail[x]
  <1>1. Linked(Senders(x), sendQueueHead[x], sendQueueTail[x], sendQueueNext)
    BY DEF QueueInv, SendQueueOK
  <1>2. Chain(sendQueueHead[x], sendQueueNext', Slots)
          = Chain(sendQueueHead[x], sendQueueNext, Slots)
    BY <1>1, Bounded, ChainKept DEF MailboxKept
  <1> QED BY <1>2 DEF Mail, MailboxKept

LEMMA MailPush ==
  ASSUME QueueInv, NEW t \in Slots, NEW r \in Slots, Enqueued(t, r)
  PROVE  Mail' = [Mail EXCEPT ![r] = Append(@, t)]
  <1>1. Linked(Senders(r), sendQueueHead[r], sendQueueTail[r], sendQueueNext)
    BY DEF QueueInv, SendQueueOK
  <1>2. Longer(Chain(sendQueueHead'[r], sendQueueNext', Slots),
               Chain(sendQueueHead[r], sendQueueNext, Slots), t)
    <2>1. /\ IsFiniteSet(Slots) /\ Null \notin Slots /\ Senders(r) \subseteq Slots
          /\ t \notin Senders(r)
          /\ Appends(t, Senders(r), sendQueueHead[r], sendQueueTail[r],
                     sendQueueNext, sendQueueHead'[r], sendQueueNext')
      BY Bounded DEF Enqueued
    <2> QED BY <1>1, <2>1, ChainPush
  <1>3. Mail'[r] = Append(Mail[r], t)
    BY <1>2 DEF Mail, Longer
  <1>4. \A x \in Slots \ {r} : Mail'[x] = Mail[x]
    BY MailKept DEF Enqueued
  <1> QED BY <1>3, <1>4 DEF Mail

LEMMA MailPop ==
  ASSUME QueueInv, NEW s \in Slots, NEW r \in Slots, Dequeued(s, r)
  PROVE  Mail' = [Mail EXCEPT ![r] = Tail(@)]
  <1>1. Linked(Senders(r), sendQueueHead[r], sendQueueTail[r], sendQueueNext)
    BY DEF QueueInv, SendQueueOK
  <1>2. Shorter(Chain(sendQueueNext[s], sendQueueNext', Slots),
                Chain(sendQueueHead[r], sendQueueNext, Slots))
    <2>1. /\ s = sendQueueHead[r] /\ s # Null /\ Senders(r) \subseteq Slots
          /\ \A y \in Senders(r) : y = s \/ sendQueueNext'[y] = sendQueueNext[y]
      BY Bounded DEF Dequeued
    <2>2. Linked(Senders(r), s, sendQueueTail[r], sendQueueNext)
      BY <1>1, <2>1
    <2> QED BY <2>1, <2>2, Bounded, ChainPop
  <1>3. Mail'[r] = Tail(Mail[r])
    BY <1>2 DEF Mail, Dequeued, Shorter
  <1>4. \A x \in Slots \ {r} : Mail'[x] = Mail[x]
    BY MailKept DEF Dequeued
  <1> QED BY <1>3, <1>4 DEF Mail

LEMMA MailEmptied ==
  ASSUME QueueInv, NEW n \in Slots, Emptied(n)
  PROVE  Mail' = [Mail EXCEPT ![n] = <<>>]
  <1>1. Linked({}, Null, Null, sendQueueNext')
    BY ListEmpty
  <1>2. Chain(Null, sendQueueNext', Slots) = <<>>
    BY <1>1, Bounded, ChainLists
  <1>3. Mail'[n] = <<>>
    BY <1>2 DEF Mail, Emptied
  <1>4. \A x \in Slots \ {n} : Mail'[x] = Mail[x]
    BY MailKept DEF Emptied
  <1> QED BY <1>3, <1>4 DEF Mail

\* And those of the event queues to the lines.
LEMMA LineStays ==
  ASSUME QueueInv, NEW x \in EventTypes, EventKept(x)
  PROVE  Line'[x] = Line[x]
  <1> DEFINE c == Chain(eventQueueHead[x], nextQuery, Queries)
  <1>1. Linked(Pending(x), eventQueueHead[x], eventQueueTail[x], nextQuery)
    BY DEF QueueInv, EventQueueOK
  <1>2. Chain(eventQueueHead'[x], nextQuery', Queries) = c
    BY <1>1, Bounded, ChainKept DEF EventKept
  <1>3. c \in Seq(Pending(x))
    BY <1>1, Bounded, ChainLists
  <1>4. Line[x] = [k \in DOMAIN c |-> waitingTid[c[k]][1]]
    BY DEF Line
  <1>5. Line'[x] = [k \in DOMAIN c |-> waitingTid'[c[k]][1]]
    BY <1>2 DEF Line
  <1> HIDE DEF c
  <1>6. \A k \in DOMAIN c : waitingTid'[c[k]] = waitingTid[c[k]]
    BY <1>3, LenProperties DEF EventKept
  <1> QED BY <1>4, <1>5, <1>6

\* The tasks of the queries in c.
TasksFrom(v, c, tid) == v = [k \in DOMAIN c |-> tid[c[k]][1]]

LEMMA TasksPush ==
  ASSUME NEW T, NEW c \in Seq(T), NEW x, x \notin T, NEW d, Longer(d, c, x),
         NEW a, NEW b, \A y \in T : b[y] = a[y],
         NEW v, TasksFrom(v, c, a), NEW w, TasksFrom(w, d, b)
  PROVE  Longer(w, v, b[x][1])
  <1> DEFINE n == Len(c)
             U == {b[y][1] : y \in T \cup {x}}
             u == Append(v, b[x][1])
  <1>1. n \in Nat /\ DOMAIN c = 1 .. n /\ \A k \in 1 .. n : c[k] \in T
    BY LenProperties, ElementOfSeq
  <1>2. c \in Seq(T \cup {x})
    BY SeqMonotonic
  <1>3. /\ d \in Seq(T \cup {x}) /\ Len(d) = n + 1
        /\ \A k \in 1 .. n : d[k] = c[k]
        /\ d[n + 1] = x
    BY <1>2, AppendProperties DEF Longer
  <1>4. DOMAIN d = 1 .. n + 1 /\ \A k \in 1 .. n + 1 : d[k] \in T \cup {x}
    BY <1>3, LenProperties, ElementOfSeq
  <1> HIDE DEF n
  <1>5. /\ v = [k \in 1 .. n |-> a[c[k]][1]]
        /\ w = [k \in 1 .. n + 1 |-> b[d[k]][1]]
    BY <1>1, <1>4 DEF TasksFrom
  <1>6. \A k \in 1 .. n : a[c[k]][1] = b[d[k]][1]
    BY <1>1, <1>3
  <1>7. v \in Seq(U) /\ Len(v) = n
    <2>1. \A k \in 1 .. n : v[k] \in U
      BY <1>1, <1>3, <1>5, <1>6
    <2> HIDE DEF U
    <2>2. v \in [1 .. n -> U]
      BY <1>5, <2>1
    <2> QED BY <1>1, <2>2
  <1>8. w \in Seq(U) /\ Len(w) = n + 1
    <2>1. \A k \in 1 .. n + 1 : w[k] \in U
      BY <1>4, <1>5
    <2>2. n + 1 \in Nat /\ DOMAIN w = 1 .. n + 1
      BY <1>1, <1>5
    <2> HIDE DEF U
    <2>3. w \in [1 .. n + 1 -> U]
      BY <1>5, <2>1
    <2> QED BY <2>2, <2>3
  <1>9. /\ u \in Seq(U) /\ Len(u) = n + 1
        /\ \A k \in 1 .. n : u[k] = v[k]
        /\ u[n + 1] = b[x][1]
    <2>1. b[x][1] \in U
      OBVIOUS
    <2> HIDE DEF U
    <2> QED BY <1>7, <2>1, AppendProperties
  <1> HIDE DEF u, U
  <1>10. \A k \in 1 .. n + 1 : w[k] = u[k]
    <2>1. \A k \in 1 .. n : k \in 1 .. n + 1 /\ w[k] = v[k]
      BY <1>1, <1>5, <1>6
    <2>2. n + 1 \in 1 .. n + 1 /\ w[n + 1] = b[x][1]
      BY <1>1, <1>3, <1>5
    <2>3. \A k \in 1 .. n + 1 : k \in 1 .. n \/ k = n + 1
      BY <1>1
    <2> QED BY <1>9, <2>1, <2>2, <2>3
  <1>11. w = u
    BY <1>8, <1>9, <1>10, SeqEqual
  <1> QED BY <1>11 DEF u, Longer

LEMMA TasksPop ==
  ASSUME NEW T, NEW c \in Seq(T), c # <<>>, NEW d, Shorter(d, c),
         NEW a, NEW b, \A k \in DOMAIN c : k = 1 \/ b[c[k]] = a[c[k]],
         NEW v, TasksFrom(v, c, a), NEW w, TasksFrom(w, d, b)
  PROVE  Shorter(w, v)
  <1> DEFINE n == Len(c)
             U == {a[y][1] : y \in T}
             u == Tail(v)
  <1>1. /\ n \in Nat \ {0} /\ DOMAIN c = 1 .. n
        /\ \A k \in 1 .. n : c[k] \in T
    BY EmptySeq, LenProperties, ElementOfSeq
  <1>2. /\ d \in Seq(T) /\ Len(d) = n - 1
        /\ \A k \in 1 .. n - 1 : d[k] = c[k + 1]
    BY HeadTailProperties DEF Shorter
  <1>3. DOMAIN d = 1 .. n - 1
    BY <1>2, LenProperties
  <1> HIDE DEF n
  <1>4. /\ v = [k \in 1 .. n |-> a[c[k]][1]]
        /\ w = [k \in 1 .. n - 1 |-> b[d[k]][1]]
    BY <1>1, <1>3 DEF TasksFrom
  <1>5. \A k \in 1 .. n - 1 : k + 1 \in 1 .. n /\ k + 1 # 1
    BY <1>1
  <1>6. \A k \in 1 .. n - 1 : w[k] = v[k + 1]
    BY <1>1, <1>2, <1>4, <1>5
  <1>7. v \in Seq(U) /\ Len(v) = n /\ v # <<>>
    <2>1. \A k \in 1 .. n : v[k] \in U
      BY <1>1, <1>4
    <2> HIDE DEF U
    <2>2. v \in [1 .. n -> U] /\ DOMAIN v = 1 .. n
      BY <1>4, <2>1
    <2>3. v \in Seq(U) /\ Len(v) = n
      BY <1>1, <2>2
    <2> QED BY <1>1, <2>3
  <1>8. w \in Seq(U) /\ Len(w) = n - 1
    <2>1. \A k \in 1 .. n - 1 : w[k] \in U
      BY <1>5, <1>6, <1>7, ElementOfSeq
    <2> HIDE DEF U
    <2>2. w \in [1 .. n - 1 -> U] /\ n - 1 \in Nat
      BY <1>1, <1>4, <2>1
    <2> QED BY <2>2
  <1>9. /\ u \in Seq(U) /\ Len(u) = n - 1
        /\ \A k \in 1 .. n - 1 : u[k] = v[k + 1]
    <2> HIDE DEF U
    <2> QED BY <1>7, HeadTailProperties
  <1> HIDE DEF u, U
  <1>10. w = u
    BY <1>6, <1>8, <1>9, SeqEqual
  <1> QED BY <1>10 DEF u, Shorter

LEMMA LinePush ==
  ASSUME QueueInv, NEW q \in Queries, NEW e \in EventTypes, QueryEnqueued(q, e)
  PROVE  Line' = [Line EXCEPT ![e] = Append(@, waitingTid'[q][1])]
  <1> DEFINE c == Chain(eventQueueHead[e], nextQuery, Queries)
             d == Chain(eventQueueHead'[e], nextQuery', Queries)
  <1>1. Linked(Pending(e), eventQueueHead[e], eventQueueTail[e], nextQuery)
    BY DEF QueueInv, EventQueueOK
  <1>2. Longer(d, c, q)
    <2>1. /\ Pending(e) \subseteq Queries /\ q \notin Pending(e)
          /\ Appends(q, Pending(e), eventQueueHead[e], eventQueueTail[e],
                     nextQuery, eventQueueHead'[e], nextQuery')
      BY Bounded DEF QueryEnqueued
    <2> QED BY <1>1, <2>1, Bounded, ChainPush
  <1>3. c \in Seq(Pending(e))
    BY <1>1, Bounded, ChainLists
  <1>4. TasksFrom(Line[e], c, waitingTid) /\ TasksFrom(Line'[e], d, waitingTid')
    BY DEF TasksFrom, Line
  <1> HIDE DEF c, d
  <1>5. Longer(Line'[e], Line[e], waitingTid'[q][1])
    BY <1>2, <1>3, <1>4, TasksPush DEF QueryEnqueued
  <1>6. \A x \in EventTypes \ {e} : Line'[x] = Line[x]
    BY LineStays DEF QueryEnqueued
  <1> QED BY <1>5, <1>6 DEF Line, Longer

LEMMA LinePop ==
  ASSUME QueueInv, NEW q \in Queries, NEW e \in EventTypes, QueryDequeued(q, e)
  PROVE  Line' = [Line EXCEPT ![e] = Tail(@)]
  <1> DEFINE c == Chain(eventQueueHead[e], nextQuery, Queries)
             d == Chain(eventQueueHead'[e], nextQuery', Queries)
  <1>1. Linked(Pending(e), eventQueueHead[e], eventQueueTail[e], nextQuery)
    BY DEF QueueInv, EventQueueOK
  <1>2. Shorter(d, c)
    <2>1. /\ q = eventQueueHead[e] /\ q # Null
          /\ eventQueueHead'[e] = nextQuery[q]
          /\ Pending(e) \subseteq Queries
          /\ \A p \in Pending(e) : p = q \/ nextQuery'[p] = nextQuery[p]
      BY Bounded DEF QueryDequeued
    <2>2. Linked(Pending(e), q, eventQueueTail[e], nextQuery)
      BY <1>1, <2>1
    <2>3. Shorter(Chain(nextQuery[q], nextQuery', Queries),
                  Chain(q, nextQuery, Queries))
      BY <2>1, <2>2, Bounded, ChainPop
    <2> QED BY <2>1, <2>3
  <1>3. c \in Seq(Pending(e)) /\ c # <<>> /\ Head(c) = q
    BY <1>1, Bounded, ChainLists DEF QueryDequeued
  <1>4. TasksFrom(Line[e], c, waitingTid) /\ TasksFrom(Line'[e], d, waitingTid')
    BY DEF TasksFrom, Line
  <1>5. \A i, j \in DOMAIN c : c[i] = c[j] => i = j
    BY <1>1, Bounded, ChainOnce
  <1> HIDE DEF c, d
  <1>6. \A k \in DOMAIN c : k = 1 \/ waitingTid'[c[k]] = waitingTid[c[k]]
    <2> SUFFICES ASSUME NEW k \in DOMAIN c, k # 1
                 PROVE  waitingTid'[c[k]] = waitingTid[c[k]]
      OBVIOUS
    <2>1. DOMAIN c = 1 .. Len(c) /\ Len(c) \in Nat \ {0} /\ c[k] \in Pending(e)
      BY <1>3, EmptySeq, LenProperties
    <2>2. c[1] = q /\ 1 \in DOMAIN c
      BY <1>3, <2>1
    <2>3. c[k] # q
      BY <1>5, <2>2
    <2> QED BY <2>1, <2>3 DEF QueryDequeued
  <1>7. Shorter(Line'[e], Line[e])
    BY <1>2, <1>3, <1>4, <1>6, TasksPop
  <1>8. \A x \in EventTypes \ {e} : Line'[x] = Line[x]
    BY LineStays DEF QueryDequeued
  <1> QED BY <1>7, <1>8 DEF Line, Shorter

-----------------------------------------------------------------------------
(* Phases and outcomes.                                                    *)

\* The phase of each state.
PhaseFacts(i) ==
  /\ isTdAvailable(i) => Phase[i] = "absent"
  /\ isTaskReady(i) => Phase[i] = "ready"
  /\ state[i] = "RCVD_BLK" =>
       Phase[i] = IF findTd(call[i].tid) = Null THEN "orphaned" ELSE "sending"
  /\ state[i] = "SEND_BLK" => Phase[i] = "receiving"
  /\ state[i] = "RPLY_BLK" => Phase[i] = "awaitingReply"
  /\ state[i] = "EVT_BLK" => Phase[i] = "awaitingEvent"
  /\ state[i] = "SYSCALL_BLK" => Phase[i] = "stuck"

LEMMA PhaseIs ==
  /\ \A i \in Slots : PhaseFacts(i)
  /\ (\A i \in Slots : PhaseFacts(i))'
  <1>1. \A i \in Slots : PhaseFacts(i)
    BY DEF PhaseFacts, Phase, isTdAvailable, isTaskReady
  <1>2. (\A i \in Slots : PhaseFacts(i))'
    BY DEF PhaseFacts, Phase, isTdAvailable, isTaskReady
  <1> QED BY <1>1, <1>2

\* A task whose state is kept is in the phase it was in, unless it is a sender
\* whose addressee has come or gone.
LEMMA PhaseKept ==
  ASSUME TypeOK, NEW i \in Slots, state'[i] = state[i],
         state[i] = "RCVD_BLK" =>
           (findTd(call[i].tid) = Null <=> findTd(call[i].tid)' = Null)
  PROVE  Phase'[i] = Phase[i]
  <1>1. state[i] \in States
    BY DEF TypeOK
  <1>2. PhaseFacts(i) /\ PhaseFacts(i)'
    BY PhaseIs
  <1> QED BY <1>1, <1>2 DEF PhaseFacts, States, isTdAvailable, isTaskReady

LEMMA PhaseFunction ==
  /\ Phase = [i \in Slots |-> Phase[i]]
  /\ Phase' = [i \in Slots |-> Phase'[i]]
  <1>1. Phase \in [Slots -> {Phase[i] : i \in Slots}]
    BY DEF Phase
  <1>2. Phase' \in [Slots -> {Phase'[i] : i \in Slots}]
    BY DEF Phase
  <1> QED BY <1>1, <1>2

\* The running task is ready and its last outcome has been handed over.
LEMMA ActorReady ==
  ASSUME QueueInv, OutcomeInv, NEW t \in Slots, current = t
  PROVE  /\ state[t] \in {"RUNNING", "HWINT"}
         /\ Phase[t] = "ready" /\ Handed[t] = Promise!Nothing
  <1>1. isTaskReady(t)
    BY SlotFacts DEF QueueInv, TypeOK
  <1>2. Handed[t] = Promise!Nothing
    BY DEF OutcomeInv, Handed, Only, NoTid, Promise!Nothing
  <1> QED BY <1>1, <1>2, PhaseIs DEF PhaseFacts, isTaskReady

\* A quiet step changes no mailbox and no line, and a phase with the state.
LEMMA QuietReads ==
  ASSUME TypeOK, Quiet
  PROVE  /\ Mail' = Mail /\ Line' = Line /\ gen' = gen
         /\ \A i \in Slots : state'[i] = state[i] => Phase'[i] = Phase[i]
  <1>1. Mail' = Mail
    BY DEF Quiet, Mail
  <1>2. Line' = Line
    BY DEF Quiet, Line
  <1>3. \A i \in Slots : state[i] = "RCVD_BLK" =>
          findTd(call[i].tid)' = findTd(call[i].tid)
    BY DEF Quiet, findTd
  <1>4. \A i \in Slots : state'[i] = state[i] => Phase'[i] = Phase[i]
    BY <1>3, PhaseKept
  <1> QED BY <1>1, <1>2, <1>4 DEF Quiet

-----------------------------------------------------------------------------
(* Every step of the kernel is a promised one.                             *)

Stutters == UNCHANGED <<Phase, gen, Mail, Line, call, Handed>>

\* A dispatched task takes its outcome along; a preempted one has none.
LEMMA DispatchCollects ==
  ASSUME QueueInv, OutcomeInv, NEW t \in Slots, Dispatch(t)
  PROVE  Promise!Next \/ Stutters
  <1>1. Quiet
    BY DEF Dispatch, Quiet, sendQueue, eventQueue, isTdAvailable,
           ReceiverQueueEmpty, QueueInv
  <1>2. /\ Mail' = Mail /\ Line' = Line /\ gen' = gen
        /\ \A i \in Slots : Phase'[i] = Phase[i]
    BY <1>1, QuietReads DEF Dispatch, QueueInv
  <1>3. Phase' = Phase
    BY <1>2 DEF Phase
  <1>4. Phase[t] = "ready"
    BY PhaseIs DEF Dispatch, PhaseFacts
  <1>5. CASE state[t] = "HWINT"
    <2>1. Handed' = Handed
      BY <1>5 DEF Dispatch, Handed
    <2> QED BY <1>2, <1>3, <2>1 DEF Stutters, Dispatch
  <1>6. CASE state[t] # "HWINT"
    <2>1. ret' = [ret EXCEPT ![t] = Only("PENDING")] /\ state' = state /\ call' = call
      BY <1>6 DEF Dispatch
    <2>2. Handed' = [Handed EXCEPT ![t] = Promise!Nothing]
      BY <2>1 DEF Handed, QueueInv, TypeOK, Only, NoTid, Promise!Nothing
    <2>3. Promise!Collect(t)
      BY <1>2, <1>3, <1>4, <2>1, <2>2 DEF Promise!Collect
    <2> QED BY <2>3 DEF Promise!Next
  <1> QED BY <1>5, <1>6

\* BlockingCalls counts as the prover does.
LEMMA SameCardinality ==
  Cardinality(Promise!Waiting) = Promise!Cardinality(Promise!Waiting)
BY DEF Cardinality, Promise!Cardinality

\* A call that returns at once is answered.
LEMMA ReturnAnswers ==
  ASSUME QueueInv, OutcomeInv, NEW t \in Slots, NEW op, Trap(t, op),
         NEW c \in Promise!Answers, Return(t, Only(c)),
         c = "TOO_SMALL" => Cardinality(Promise!Waiting) = NumEvents,
         c = "NOSEND" => sendQueueHead[t] = Null
  PROVE  Promise!Next
  <1>1. Quiet
    BY ReturnQuiet
  <1>2. current = t /\ state[t] \in {"RUNNING", "HWINT"}
    BY ActorReady DEF Trap
  <1>3. /\ state' = [state EXCEPT ![t] = "RUNNING"]
        /\ ret' = [ret EXCEPT ![t] = Only(c)]
        /\ call' = call
    BY DEF Return
  <1>4. Phase' = Phase
    <2>1. \A i \in Slots : i # t => Phase'[i] = Phase[i]
      BY <1>1, <1>3, QuietReads DEF QueueInv, TypeOK
    <2>2. isTaskReady(t)'
      BY <1>3 DEF isTaskReady, QueueInv, TypeOK
    <2>3. Phase'[t] = "ready"
      BY <2>2, PhaseIs DEF PhaseFacts
    <2> QED BY <1>2, <2>1, <2>3, ActorReady DEF Phase
  <1>5. Handed' = [Handed EXCEPT ![t] = Promise!Told(c)]
    BY <1>3 DEF Handed, QueueInv, TypeOK, Only, NoTid, Promise!Told
  <1>6. c = "NOSEND" => Mail[t] = <<>>
    BY ReadLists DEF ListsRead
  <1>7. Promise!Answer(t, c)
    <2>1. Mail' = Mail /\ Line' = Line /\ gen' = gen
      BY <1>1, QuietReads DEF QueueInv
    <2>2. Phase[t] = "ready" /\ Handed[t] = Promise!Nothing
      BY <1>2, ActorReady
    <2> QED
      BY <1>3, <1>4, <1>5, <1>6, <2>1, <2>2, SameCardinality DEF Promise!Answer
  <1> QED BY <1>7 DEF Promise!Next

\* A task that exits, is killed or is stuck in its call leaves.
LEMMA StopLeaves ==
  ASSUME QueueInv, OutcomeInv, NEW t \in Slots, current = t,
         NEW b \in {"EXITED", "KILLED", "SYSCALL_BLK"},
         state' = [state EXCEPT ![t] = b],
         \A i \in Slots : i # t => ret'[i] = ret[i],
         UNCHANGED <<gen, call, sendQueue, eventQueue>>
  PROVE  Promise!Next
  <1>1. Quiet
    BY StopQuiet
  <1>2. Mail' = Mail /\ Line' = Line /\ gen' = gen /\ call' = call
    BY <1>1, QuietReads DEF QueueInv
  <1>3. /\ state[t] \in {"RUNNING", "HWINT"}
        /\ Phase[t] = "ready" /\ Handed[t] = Promise!Nothing
    BY ActorReady
  <1>4. Handed' = Handed
    BY <1>3 DEF Handed, QueueInv, TypeOK, Only, NoTid, Promise!Nothing
  <1>5. \A i \in Slots : i # t => Phase'[i] = Phase[i]
    BY <1>1, QuietReads DEF QueueInv, TypeOK
  <1>6. PhaseFacts(t)' /\ state'[t] = b
    BY PhaseIs DEF QueueInv, TypeOK
  <1>7. CASE b = "SYSCALL_BLK"
    <2>1. Phase'[t] = "stuck"
      BY <1>6, <1>7 DEF PhaseFacts
    <2>2. Phase' = [Phase EXCEPT ![t] = "stuck"]
      BY <1>5, <2>1, PhaseFunction
    <2>3. Promise!Leave(t, "stuck")
      BY <1>2, <1>3, <1>4, <2>2 DEF Promise!Leave
    <2> QED BY <2>3 DEF Promise!Next
  <1>8. CASE b # "SYSCALL_BLK"
    <2>1. Phase'[t] = "absent"
      BY <1>6, <1>8 DEF PhaseFacts, isTdAvailable
    <2>2. Phase' = [Phase EXCEPT ![t] = "absent"]
      BY <1>5, <2>1, PhaseFunction
    <2>3. Promise!Leave(t, "absent")
      BY <1>2, <1>3, <1>4, <2>2 DEF Promise!Leave
    <2> QED BY <2>3 DEF Promise!Next
  <1> QED BY <1>7, <1>8

\* Of a preemption the others see nothing.
LEMMA PreemptStutters ==
  ASSUME QueueInv, OutcomeInv, NEW t \in Slots, Preempt(t)
  PROVE  Stutters
  <1>1. Quiet
    BY StopQuiet DEF Preempt
  <1>2. Mail' = Mail /\ Line' = Line /\ gen' = gen /\ call' = call
    BY <1>1, QuietReads DEF QueueInv, Preempt
  <1>3. /\ state[t] \in {"RUNNING", "HWINT"}
        /\ Phase[t] = "ready" /\ Handed[t] = Promise!Nothing
    BY ActorReady DEF Preempt
  <1>4. /\ state'[t] = "HWINT" /\ ret' = ret
        /\ \A i \in Slots : i # t => state'[i] = state[i]
    BY DEF Preempt, QueueInv, TypeOK
  <1>5. Handed' = Handed
    BY <1>3, <1>4 DEF Handed, Only, NoTid, Promise!Nothing
  <1>6. \A i \in Slots : i # t => Phase'[i] = Phase[i]
    BY <1>1, <1>4, QuietReads DEF QueueInv
  <1>7. Phase'[t] = "ready"
    BY <1>4, PhaseIs DEF PhaseFacts, isTaskReady
  <1>8. Phase' = Phase
    BY <1>3, <1>6, <1>7 DEF Phase
  <1> QED BY <1>2, <1>5, <1>8 DEF Stutters

\* A message is cut when it is longer than the buffer.
LEMMA FitsArrives ==
  ASSUME NEW n \in Nat, NEW cap \in Nat, NEW whole, NEW cut
  PROVE  Promise!Arrives(n, cap, whole, cut) = IF Fits(n, cap) THEN whole ELSE cut
BY DEF Promise!Arrives, Fits

LEMMA LengthFacts ==
  ASSUME TypeOK
  PROVE  /\ Lens \subseteq Nat
         /\ \A i \in Slots : call[i].len \in Nat /\ call[i].rlen \in Nat
  <1>1. Lens \subseteq Nat /\ Lens \cup {0} \subseteq Nat
    BY KernelAssumption DEF KernelAssumption
  <1>2. \A i \in Slots : call[i] \in Call
    BY DEF TypeOK
  <1>3. \A c \in Call : c.len \in Lens \cup {0} /\ c.rlen \in Lens \cup {0}
    BY DEF Call
  <1> QED BY <1>1, <1>2, <1>3

\* The two ways of Send, the two of Receive, and Reply.
LEMMA SendDirectSends ==
  ASSUME QueueInv, OutcomeInv, NEW t \in Slots, SendDirect(t)
  PROVE  Promise!Next
  <1>1. PICK id \in KnownTids, len \in Lens, rlen \in Lens \ {0} :
          SendDirect(t)!2!(id, len, rlen)
    BY DEF SendDirect
  <1>2. PICK r \in Slots : r = findTd(id) /\ id = Tid(r) /\ state[r] = "SEND_BLK"
    BY <1>1, TidFacts DEF QueueInv
  <1>3. current = t
    BY DEF SendDirect, Trap
  <1>4. /\ state[t] \in {"RUNNING", "HWINT"} /\ r # t
        /\ Phase[t] = "ready" /\ Handed[t] = Promise!Nothing
    BY <1>2, <1>3, ActorReady
  <1>5. Quiet
    BY SendDirectQuiet
  <1>6. Mail' = Mail /\ Line' = Line /\ gen' = gen
    BY <1>5, QuietReads DEF QueueInv
  <1>7. /\ state' = [state EXCEPT ![r] = "RUNNING", ![t] = "RPLY_BLK"]
        /\ call' = [call EXCEPT
                      ![t] = [tid |-> id, len |-> len, rlen |-> rlen],
                      ![r] = NoCall]
        /\ ret' = [ret EXCEPT
                     ![r] = With(IF Fits(len, call[r].len) THEN "OK"
                                 ELSE "TOO_SMALL", Tid(t)),
                     ![t] = Only("OK")]
        /\ gen[r] > 0
    BY <1>1, <1>2 DEF Possible, Tid, QueueInv, TypeOK
  <1>8. /\ state'[r] = "RUNNING" /\ state'[t] = "RPLY_BLK"
        /\ \A i \in Slots : i # r /\ i # t => state'[i] = state[i]
    BY <1>4, <1>7 DEF QueueInv, TypeOK
  <1>9. Phase[r] = "receiving"
    BY <1>2, PhaseIs DEF PhaseFacts
  <1>10. Phase' = [Phase EXCEPT ![t] = "awaitingReply", ![r] = "ready"]
    <2>1. \A i \in Slots : i # r /\ i # t => Phase'[i] = Phase[i]
      BY <1>5, <1>8, QuietReads DEF QueueInv
    <2>2. Phase'[r] = "ready" /\ Phase'[t] = "awaitingReply"
      BY <1>8, PhaseIs DEF PhaseFacts, isTaskReady
    <2> QED BY <1>4, <2>1, <2>2, PhaseFunction
  <1>11. call' = [call EXCEPT
                    ![t] = [tid |-> <<r, gen[r]>>, len |-> len, rlen |-> rlen],
                    ![r] = Promise!Idle]
    BY <1>2, <1>7 DEF Tid, NoCall, NoTid, Promise!Idle
  <1>12. Handed' = [Handed EXCEPT
           ![r] = Promise!From(Promise!Arrives(len, call[r].len, "OK", "TOO_SMALL"), t)]
    <2>1. ret'[r] = Promise!From(
                      Promise!Arrives(len, call[r].len, "OK", "TOO_SMALL"), t)
      BY <1>4, <1>7, FitsArrives, LengthFacts
      DEF With, Tid, Promise!From, QueueInv, TypeOK
    <2>2. \A i \in Slots : i # r /\ i # t => ret'[i] = ret[i]
      BY <1>7 DEF QueueInv, TypeOK
    <2>3. /\ Handed'[r] = ret'[r] /\ Handed'[t] = Handed[t]
          /\ \A i \in Slots : i # r /\ i # t => Handed'[i] = Handed[i]
      BY <1>4, <1>8, <2>2 DEF Handed, Only, NoTid, Promise!Nothing
    <2> QED BY <2>1, <2>3 DEF Handed
  <1>13. Promise!Send(t, r, len, rlen)
    BY <1>4, <1>6, <1>7, <1>9, <1>10, <1>11, <1>12 DEF Promise!Send
  <1> QED BY <1>13 DEF Promise!Next

LEMMA SendQueuedSends ==
  ASSUME QueueInv, OutcomeInv, NEW t \in Slots, SendQueued(t)
  PROVE  Promise!Next
  <1>1. PICK r \in Slots, len \in Lens, rlen \in Lens \ {0} :
          /\ gen[r] # 0 /\ state[r] # "SEND_BLK"
          /\ call' = [call EXCEPT
                        ![t] = [tid |-> Tid(r), len |-> len, rlen |-> rlen]]
          /\ Enqueued(t, r)
    BY SendQueuedChanges
  <1>2. current = t /\ gen' = gen /\ gen[r] > 0
    BY <1>1 DEF SendQueued, Trap, QueueInv, TypeOK
  <1>3. /\ state[t] \in {"RUNNING", "HWINT"}
        /\ Phase[t] = "ready" /\ Handed[t] = Promise!Nothing
    BY <1>2, ActorReady
  <1>4. Mail' = [Mail EXCEPT ![r] = Append(@, t)]
    BY <1>1, MailPush
  <1>5. Line' = Line
    BY DEF SendQueued, eventQueue, Line
  <1>6. /\ state'[t] = "RCVD_BLK" /\ ret'[t] = Only("PENDING")
        /\ call'[t].tid = Tid(r)
        /\ \A i \in Slots : i # t => /\ state'[i] = state[i] /\ ret'[i] = ret[i]
                                     /\ call'[i] = call[i]
    BY <1>1 DEF SendQueued, QueueInv, TypeOK
  <1>7. Handed' = Handed
    BY <1>3, <1>6 DEF Handed, Only, NoTid, Promise!Nothing
  <1>8. Phase[r] # "receiving"
    BY <1>1, PhaseIs DEF PhaseFacts, QueueInv, TypeOK, States, isTdAvailable, isTaskReady
  <1>9. Phase' = [Phase EXCEPT ![t] = "sending"]
    <2>1. ASSUME NEW i \in Slots, i # t
          PROVE  Phase'[i] = Phase[i]
      <3>1. findTd(call[i].tid)' = findTd(call[i].tid)
        BY <1>2, <1>6, <2>1 DEF findTd
      <3> QED BY <1>6, <2>1, <3>1, PhaseKept DEF QueueInv
    <2>2. findTd(call[t].tid)' # Null
      BY <1>2, <1>6, SlotFacts DEF findTd, Tid
    <2>3. Phase'[t] = "sending"
      BY <1>6, <2>2, PhaseIs DEF PhaseFacts
    <2> QED BY <2>1, <2>3, PhaseFunction
  <1>10. call' = [call EXCEPT
                    ![t] = [tid |-> <<r, gen[r]>>, len |-> len, rlen |-> rlen]]
    BY <1>1 DEF Tid
  <1>11. Promise!Send(t, r, len, rlen)
    BY <1>2, <1>3, <1>4, <1>5, <1>7, <1>8, <1>9, <1>10 DEF Promise!Send
  <1> QED BY <1>11 DEF Promise!Next

LEMMA ReceiveQueuedReceives ==
  ASSUME QueueInv, OutcomeInv, NEW t \in Slots, NEW op, ReceiveQueued(t, op)
  PROVE  Promise!Next
  <1>1. PICK s \in Slots :
          /\ state[t] \in {"RUNNING", "HWINT"} /\ s # t /\ IsSender(s, t)
          /\ state' = [state EXCEPT ![s] = "RPLY_BLK", ![t] = "RUNNING"]
          /\ Dequeued(s, t)
    BY ReceiveQueuedChanges
  <1>2. s = sendQueueHead[t] /\ s # Null /\ Mail' = [Mail EXCEPT ![t] = Tail(@)]
    BY <1>1, MailPop DEF Dequeued
  <1>3. PICK cap \in Lens :
          ret' = [ret EXCEPT
                    ![s] = Only(IF Fits(call[s].len, cap) THEN "OK" ELSE "INCOMPLETE"),
                    ![t] = With(IF Fits(call[s].len, cap) THEN "OK"
                                ELSE "TOO_SMALL", Tid(s))]
    BY <1>2 DEF ReceiveQueued
  <1>4. current = t /\ gen' = gen /\ call' = call
    BY DEF ReceiveQueued, Trap
  <1>5. Phase[t] = "ready" /\ Handed[t] = Promise!Nothing
    BY <1>4, ActorReady
  <1>6. Mail[t] # <<>> /\ Head(Mail[t]) = s
    BY <1>2, ReadLists DEF ListsRead
  <1>7. Line' = Line
    BY DEF ReceiveQueued, eventQueue, Line
  <1>8. /\ state[s] = "RCVD_BLK" /\ state'[s] = "RPLY_BLK" /\ state'[t] = "RUNNING"
        /\ \A i \in Slots : i # s /\ i # t => state'[i] = state[i]
    BY <1>1 DEF IsSender, QueueInv, TypeOK
  <1>9. Phase' = [Phase EXCEPT ![s] = "awaitingReply"]
    <2>1. ASSUME NEW i \in Slots, i # s, i # t
          PROVE  Phase'[i] = Phase[i]
      <3>1. findTd(call[i].tid)' = findTd(call[i].tid)
        BY <1>4 DEF findTd
      <3> QED BY <1>8, <2>1, <3>1, PhaseKept DEF QueueInv
    <2>2. Phase'[t] = "ready" /\ Phase'[s] = "awaitingReply"
      BY <1>8, PhaseIs DEF PhaseFacts, isTaskReady
    <2> QED BY <1>5, <2>1, <2>2, PhaseFunction
  <1>10. Handed' = [Handed EXCEPT ![t] =
           Promise!From(Promise!Arrives(call[s].len, cap, "OK", "TOO_SMALL"), s)]
    <2>1. ret'[t] = Promise!From(
                      Promise!Arrives(call[s].len, cap, "OK", "TOO_SMALL"), s)
      <3>1. cap \in Nat /\ call[s].len \in Nat
        BY LengthFacts DEF QueueInv
      <3>2. ret'[t] = With(IF Fits(call[s].len, cap) THEN "OK" ELSE "TOO_SMALL", Tid(s))
        <4>1. t \in DOMAIN ret
          BY DEF QueueInv, TypeOK
        <4> QED BY <1>3, <4>1
      <3>3. Promise!Arrives(call[s].len, cap, "OK", "TOO_SMALL") =
              IF Fits(call[s].len, cap) THEN "OK" ELSE "TOO_SMALL"
        BY <3>1, FitsArrives
      <3> QED BY <3>2, <3>3 DEF With, Tid, Promise!From
    <2>2. \A i \in Slots : i # s /\ i # t => ret'[i] = ret[i]
      BY <1>3 DEF QueueInv, TypeOK
    <2>3. /\ Handed'[t] = ret'[t] /\ Handed'[s] = Handed[s]
          /\ \A i \in Slots : i # s /\ i # t => Handed'[i] = Handed[i]
      BY <1>8, <2>2 DEF Handed
    <2> QED BY <2>1, <2>3 DEF Handed
  <1>11. Promise!Receive(t, cap)
    BY <1>2, <1>4, <1>5, <1>6, <1>7, <1>9, <1>10 DEF Promise!Receive
  <1> QED BY <1>11 DEF Promise!Next

LEMMA ReceiveBlocksReceives ==
  ASSUME QueueInv, OutcomeInv, NEW t \in Slots, ReceiveBlocks(t)
  PROVE  Promise!Next
  <1>1. PICK cap \in Lens :
          call' = [call EXCEPT ![t] = [NoCall EXCEPT !.len = cap]]
    BY DEF ReceiveBlocks
  <1>2. Quiet
    BY ReceiveBlocksQuiet
  <1>3. Mail' = Mail /\ Line' = Line /\ gen' = gen
    BY <1>2, QuietReads DEF QueueInv
  <1>4. /\ state[t] \in {"RUNNING", "HWINT"}
        /\ Phase[t] = "ready" /\ Handed[t] = Promise!Nothing
    BY ActorReady DEF ReceiveBlocks, Trap
  <1>5. /\ state'[t] = "SEND_BLK"
        /\ \A i \in Slots : i # t => state'[i] = state[i] /\ ret'[i] = ret[i]
    BY DEF ReceiveBlocks, QueueInv, TypeOK
  <1>6. Handed' = Handed
    BY <1>4, <1>5 DEF Handed, Only, NoTid, Promise!Nothing
  <1>7. Phase' = [Phase EXCEPT ![t] = "receiving"]
    <2>1. \A i \in Slots : i # t => Phase'[i] = Phase[i]
      BY <1>2, <1>5, QuietReads DEF QueueInv
    <2>2. Phase'[t] = "receiving"
      BY <1>5, PhaseIs DEF PhaseFacts
    <2> QED BY <2>1, <2>2, PhaseFunction
  <1>8. Mail[t] = <<>>
    BY ReadLists DEF ReceiveBlocks, ListsRead
  <1>9. call' = [call EXCEPT ![t] = [Promise!Idle EXCEPT !.len = cap]]
    BY <1>1 DEF NoCall, NoTid, Promise!Idle
  <1>10. Promise!Receive(t, cap)
    BY <1>3, <1>4, <1>6, <1>7, <1>8, <1>9 DEF Promise!Receive
  <1> QED BY <1>10 DEF Promise!Next

LEMMA ReplyReplies ==
  ASSUME QueueInv, OutcomeInv, NEW t \in Slots, ReplyDelivers(t)
  PROVE  Promise!Next
  <1>1. PICK id \in KnownTids, len \in Lens : ReplyDelivers(t)!2!(id, len)
    BY DEF ReplyDelivers
  <1>2. PICK s \in Slots : s = findTd(id) /\ state[s] = "RPLY_BLK"
    BY <1>1, TidFacts DEF AwaitsReply, QueueInv
  <1>3. current = t
    BY DEF ReplyDelivers, Trap
  <1>4. /\ state[t] \in {"RUNNING", "HWINT"} /\ s # t
        /\ Phase[t] = "ready" /\ Handed[t] = Promise!Nothing
    BY <1>2, <1>3, ActorReady
  <1>5. Quiet
    BY ReplyQuiet
  <1>6. Mail' = Mail /\ Line' = Line /\ gen' = gen
    BY <1>5, QuietReads DEF QueueInv
  <1> DEFINE fit == Fits(len, call[s].rlen)
  <1>7. /\ state' = [state EXCEPT ![s] = "RUNNING", ![t] = "RUNNING"]
        /\ call' = [call EXCEPT ![s] = NoCall]
        /\ ret' = [ret EXCEPT ![s] = Only(IF fit THEN "OK" ELSE "INCOMPLETE"),
                              ![t] = Only(IF fit THEN "OK" ELSE "ERROR")]
    BY <1>1, <1>2
  <1>8. /\ state'[s] = "RUNNING" /\ state'[t] = "RUNNING"
        /\ \A i \in Slots : i # s /\ i # t => state'[i] = state[i]
    BY <1>4, <1>7 DEF QueueInv, TypeOK
  <1>9. Phase' = [Phase EXCEPT ![s] = "ready"]
    <2>1. \A i \in Slots : i # s /\ i # t => Phase'[i] = Phase[i]
      BY <1>5, <1>8, QuietReads DEF QueueInv
    <2>2. Phase'[s] = "ready" /\ Phase'[t] = "ready"
      BY <1>8, PhaseIs DEF PhaseFacts, isTaskReady
    <2> QED BY <1>4, <2>1, <2>2, PhaseFunction
  <1>10. Handed' = [Handed EXCEPT
           ![s] = Promise!Told(Promise!Arrives(len, call[s].rlen, "OK", "INCOMPLETE")),
           ![t] = Promise!Told(Promise!Arrives(len, call[s].rlen, "OK", "ERROR"))]
    <2>1. len \in Nat /\ call[s].rlen \in Nat
      BY LengthFacts DEF QueueInv
    <2>2. /\ ret'[s] = Promise!Told(
                         Promise!Arrives(len, call[s].rlen, "OK", "INCOMPLETE"))
          /\ ret'[t] = Promise!Told(
                         Promise!Arrives(len, call[s].rlen, "OK", "ERROR"))
      <3>1. /\ Promise!Arrives(len, call[s].rlen, "OK", "INCOMPLETE")
                 = IF fit THEN "OK" ELSE "INCOMPLETE"
            /\ Promise!Arrives(len, call[s].rlen, "OK", "ERROR")
                 = IF fit THEN "OK" ELSE "ERROR"
        BY <2>1, FitsArrives
      <3> HIDE DEF fit
      <3>2. /\ ret'[s] = Only(IF fit THEN "OK" ELSE "INCOMPLETE")
            /\ ret'[t] = Only(IF fit THEN "OK" ELSE "ERROR")
        BY <1>4, <1>7 DEF QueueInv, TypeOK
      <3> QED BY <3>1, <3>2 DEF Only, NoTid, Promise!Told
    <2>3. \A i \in Slots : i # s /\ i # t => ret'[i] = ret[i]
      BY <1>7 DEF QueueInv, TypeOK
    <2>4. /\ Handed'[s] = ret'[s] /\ Handed'[t] = ret'[t]
          /\ \A i \in Slots : i # s /\ i # t => Handed'[i] = Handed[i]
      BY <1>8, <2>3 DEF Handed
    <2> QED BY <1>4, <2>2, <2>4 DEF Handed
  <1>11. call' = [call EXCEPT ![s] = Promise!Idle]
    BY <1>7 DEF NoCall, NoTid, Promise!Idle
  <1>12. Phase[s] = "awaitingReply"
    BY <1>2, PhaseIs DEF PhaseFacts
  <1>13. Promise!Reply(t, s, len)
    BY <1>4, <1>6, <1>9, <1>10, <1>11, <1>12 DEF Promise!Reply
  <1> QED BY <1>13 DEF Promise!Next

\* AwaitEvent, and the interrupt that ends it.
LEMMA AwaitEventAwaits ==
  ASSUME QueueInv, OutcomeInv, NEW t \in Slots, AwaitEvent(t)
  PROVE  Promise!Next
  <1>1. PICK q \in Queries, e \in EventTypes :
          /\ waitingTid' = [waitingTid EXCEPT ![q] = Tid(t)]
          /\ QueryEnqueued(q, e)
    BY AwaitEventChanges
  <1>2. Line' = [Line EXCEPT ![e] = Append(@, t)]
    <2>1. waitingTid'[q][1] = t
      BY <1>1 DEF Tid, QueueInv, TypeOK
    <2> QED BY <1>1, <2>1, LinePush
  <1>3. /\ current = t /\ gen' = gen /\ call' = call
        /\ state' = [state EXCEPT ![t] = "EVT_BLK"]
        /\ ret' = [ret EXCEPT ![t] = Only("PENDING")]
    BY DEF AwaitEvent, Trap
  <1>4. /\ state[t] \in {"RUNNING", "HWINT"}
        /\ Phase[t] = "ready" /\ Handed[t] = Promise!Nothing
    BY <1>3, ActorReady
  <1>5. Mail' = Mail
    BY DEF AwaitEvent, sendQueue, Mail
  <1>6. /\ state'[t] = "EVT_BLK"
        /\ \A i \in Slots : i # t => state'[i] = state[i] /\ ret'[i] = ret[i]
    BY <1>3 DEF QueueInv, TypeOK
  <1>7. Handed' = Handed
    BY <1>4, <1>6 DEF Handed, Only, NoTid, Promise!Nothing
  <1>8. Phase' = [Phase EXCEPT ![t] = "awaitingEvent"]
    <2>1. ASSUME NEW i \in Slots, i # t
          PROVE  Phase'[i] = Phase[i]
      <3>1. findTd(call[i].tid)' = findTd(call[i].tid)
        BY <1>3 DEF findTd
      <3> QED BY <1>6, <2>1, <3>1, PhaseKept DEF QueueInv
    <2>2. Phase'[t] = "awaitingEvent"
      BY <1>6, PhaseIs DEF PhaseFacts
    <2> QED BY <2>1, <2>2, PhaseFunction
  <1>9. Promise!AwaitEvent(t, e)
    BY <1>2, <1>3, <1>4, <1>5, <1>7, <1>8 DEF Promise!AwaitEvent
  <1> QED BY <1>9 DEF Promise!Next

LEMMA InterruptHappens ==
  ASSUME QueueInv, OutcomeInv, NEW t \in Slots, NEW e \in Devices,
         DeviceInterrupt(t, e)
  PROVE  Promise!Next
  <1>1. e \in EventTypes
    BY KernelAssumption DEF KernelAssumption
  <1>2. PICK q \in Queries, w \in Slots :
          /\ IsWaiting(w, q) /\ QueryDequeued(q, e)
          /\ state[t] \in {"RUNNING", "HWINT"} /\ t # w
          /\ state' = [state EXCEPT ![t] = "HWINT", ![w] = "RUNNING"]
          /\ ret' = [ret EXCEPT ![w] = Only("VOLATILE")]
    BY DeviceInterruptChanges
  <1>3. Line' = [Line EXCEPT ![e] = Tail(@)]
    BY <1>1, <1>2, LinePop
  <1>4. Line[e] # <<>> /\ Head(Line[e]) = w
    BY <1>1, <1>2, ReadLists DEF ListsRead, QueryDequeued, IsWaiting, Tid
  <1>5. gen' = gen /\ call' = call /\ Mail' = Mail /\ current = t
    BY DEF DeviceInterrupt, sendQueue, Mail
  <1>6. Phase[t] = "ready" /\ Handed[t] = Promise!Nothing
    BY <1>5, ActorReady
  <1>7. /\ state'[t] = "HWINT" /\ state'[w] = "RUNNING"
        /\ \A i \in Slots : i # t /\ i # w => state'[i] = state[i]
        /\ ret'[w] = Promise!Told("VOLATILE")
        /\ \A i \in Slots : i # w => ret'[i] = ret[i]
    BY <1>2 DEF QueueInv, TypeOK, Only, NoTid, Promise!Told
  <1>8. Handed' = [Handed EXCEPT ![w] = Promise!Told("VOLATILE")]
    <2>1. Handed'[t] = Handed[t] /\ Handed'[w] = ret'[w]
      BY <1>6, <1>7 DEF Handed, Only, NoTid, Promise!Nothing
    <2>2. \A i \in Slots : i # t /\ i # w => Handed'[i] = Handed[i]
      BY <1>7 DEF Handed
    <2> QED BY <1>7, <2>1, <2>2 DEF Handed
  <1>9. Phase' = [Phase EXCEPT ![w] = "ready"]
    <2>1. ASSUME NEW i \in Slots, i # t, i # w
          PROVE  Phase'[i] = Phase[i]
      <3>1. findTd(call[i].tid)' = findTd(call[i].tid)
        BY <1>5 DEF findTd
      <3> QED BY <1>7, <2>1, <3>1, PhaseKept DEF QueueInv
    <2>2. Phase'[t] = "ready" /\ Phase'[w] = "ready"
      BY <1>7, PhaseIs DEF PhaseFacts, isTaskReady
    <2> QED BY <1>6, <2>1, <2>2, PhaseFunction
  <1>10. Promise!EventHappens(e)
    BY <1>3, <1>4, <1>5, <1>8, <1>9 DEF Promise!EventHappens
  <1> QED BY <1>1, <1>10 DEF Promise!Next

\* The call of a sender to the occupant of n names nobody when n gets a new
\* occupant; the other calls name whom they named.
LEMMA CreateOrphans ==
  ASSUME QueueInv, NEW n \in Slots, gen'[n] = gen[n] + 1,
         \A j \in Slots : j = n \/ gen'[j] = gen[j],
         NEW i \in Slots, call'[i] = call[i], state[i] = "RCVD_BLK"
  PROVE  /\ IsSender(i, n) => findTd(call[i].tid)' = Null
         /\ ~IsSender(i, n) =>
              (findTd(call[i].tid) = Null <=> findTd(call[i].tid)' = Null)
  <1>1. call[i].tid \in TidSet /\ gen[n] \in Nat
    BY DEF QueueInv, TypeOK, Call
  <1>2. call[i].tid[1] = n => call[i].tid[2] <= gen[n]
    BY DEF QueueInv, IdentifiersOK
  <1>3. call[i].tid = <<call[i].tid[1], call[i].tid[2]>> /\ call[i].tid[2] \in Nat
    BY <1>1 DEF TidSet
  <1>4. IsSender(i, n) <=> call[i].tid[1] = n /\ call[i].tid[2] = gen[n]
    BY <1>3 DEF IsSender, Tid
  <1>5. call[i].tid[1] = n => findTd(call[i].tid)' = Null
    BY <1>1, <1>2, <1>3 DEF findTd
  <1>6. call[i].tid[1] # n => findTd(call[i].tid)' = findTd(call[i].tid)
    BY DEF findTd
  <1>7. ~IsSender(i, n) /\ call[i].tid[1] = n => findTd(call[i].tid) = Null
    BY <1>4 DEF findTd
  <1> QED BY <1>4, <1>5, <1>6, <1>7

\* A new task starts in a slot that nobody lives in.
LEMMA CreateStarts ==
  ASSUME QueueInv, OutcomeInv, NEW t \in Slots, current = t,
         NEW n \in Slots, isTdAvailable(n), NEW p, createTask(t, n, p)
  PROVE  Promise!Next
  <1>1. /\ state[t] \in {"RUNNING", "HWINT"} /\ t # n
        /\ gen'[n] = gen[n] + 1 /\ \A i \in Slots : i = n \/ gen'[i] = gen[i]
        /\ state'[n] = "RUNNING" /\ state'[t] = "RUNNING"
        /\ \A i \in Slots : i = n \/ i = t \/ state'[i] = state[i]
        /\ call'[n] = NoCall /\ \A i \in Slots : i = n \/ call'[i] = call[i]
        /\ Emptied(n)
    BY CreateChanges
  <1>2. Phase[t] = "ready" /\ Handed[t] = Promise!Nothing
    BY ActorReady
  <1>3. Phase[n] = "absent"
    BY PhaseIs DEF PhaseFacts
  <1>4. /\ gen[n] < GenLimit[n]
        /\ gen' = [gen EXCEPT ![n] = @ + 1]
        /\ call' = [call EXCEPT ![n] = Promise!Idle]
    BY DEF createTask, newGeneration, NoCall, NoTid, Promise!Idle
  <1>5. Mail' = [Mail EXCEPT ![n] = <<>>]
    BY <1>1, MailEmptied
  <1>6. Line' = Line
    BY DEF createTask, eventQueue, Line
  <1>7. Handed' = [Handed EXCEPT ![n] = Promise!Nothing,
                                 ![t] = [code |-> "OK", tid |-> <<n, gen'[n]>>]]
    <2>1. /\ ret'[n] = Promise!Nothing
          /\ ret'[t] = [code |-> "OK", tid |-> <<n, gen'[n]>>]
          /\ \A i \in Slots : i # n /\ i # t => ret'[i] = ret[i]
      BY <1>1
      DEF createTask, newGeneration, With, Only, NoTid, Promise!Nothing,
          QueueInv, TypeOK
    <2>2. /\ Handed'[n] = ret'[n] /\ Handed'[t] = ret'[t]
          /\ \A i \in Slots : i # n /\ i # t => Handed'[i] = Handed[i]
      BY <1>1, <2>1 DEF Handed
    <2> QED BY <1>1, <2>1, <2>2 DEF Handed
  <1>8. Phase' = [i \in Slots |->
                    IF i = n THEN "ready"
                    ELSE IF \E k \in DOMAIN Mail[n] : Mail[n][k] = i
                         THEN "orphaned" ELSE Phase[i]]
    <2>1. \A i \in Slots : IsSender(i, n) <=>
            \E k \in DOMAIN Mail[n] : Mail[n][k] = i
      BY ReadLists DEF ListsRead
    <2>2. Phase'[n] = "ready" /\ Phase'[t] = "ready"
      BY <1>1, PhaseIs DEF PhaseFacts, isTaskReady
    <2>3. ~IsSender(t, n) /\ ~IsSender(n, n)
      BY <1>1 DEF IsSender, isTdAvailable
    <2>4. ASSUME NEW i \in Slots, i # n, i # t
          PROVE  Phase'[i] = IF IsSender(i, n) THEN "orphaned" ELSE Phase[i]
      <3>1. state'[i] = state[i] /\ call'[i] = call[i]
        BY <1>1, <2>4
      <3>2. CASE IsSender(i, n)
        <4>1. findTd(call[i].tid)' = Null /\ state'[i] = "RCVD_BLK"
          BY <1>1, <3>1, <3>2, CreateOrphans DEF IsSender
        <4> QED BY <3>2, <4>1, PhaseIs DEF PhaseFacts
      <3>3. CASE ~IsSender(i, n)
        <4>1. state[i] = "RCVD_BLK" =>
                (findTd(call[i].tid) = Null <=> findTd(call[i].tid)' = Null)
          BY <1>1, <3>1, <3>3, CreateOrphans
        <4> QED BY <3>1, <3>3, <4>1, PhaseKept DEF QueueInv
      <3> QED BY <3>2, <3>3
    <2>5. \A i \in Slots :
            Phase'[i] = IF i = n THEN "ready"
                        ELSE IF \E k \in DOMAIN Mail[n] : Mail[n][k] = i
                             THEN "orphaned" ELSE Phase[i]
      BY <1>2, <2>1, <2>2, <2>3, <2>4
    <2> QED BY <2>5, PhaseFunction
  <1>9. Promise!Start(t, n)
    BY <1>2, <1>3, <1>4, <1>5, <1>6, <1>7, <1>8 DEF Promise!Start
  <1> QED BY <1>9 DEF Promise!Next

LEMMA CreateKeepsPromise ==
  ASSUME QueueInv, OutcomeInv, NEW t \in Slots, current = t,
         NEW R \in SUBSET Slots, NEW p, CreateIn(t, R, p)
  PROVE  Promise!Next
  <1>1. ASSUME NEW code, CreateFails(t, code)
        PROVE  Promise!Next
    <2>1. /\ state' = [state EXCEPT ![t] = "SYSCALL_BLK"]
          /\ \A i \in Slots : i # t => ret'[i] = ret[i]
          /\ UNCHANGED <<gen, call, sendQueue, eventQueue>>
      BY <1>1 DEF CreateFails, QueueInv, TypeOK
    <2> QED BY <2>1, StopLeaves
  <1>2. ASSUME NEW n \in R, FirstFree(n, R), createTask(t, n, p)
        PROVE  Promise!Next
    BY <1>2, CreateStarts DEF FirstFree
  <1> QED BY <1>1, <1>2 DEF CreateIn

\* There is a query for every task that waits: when all are in use, NumEvents
\* tasks wait.
LEMMA QueriesAreTasks ==
  ASSUME QueueInv, \A q \in Queries : ~Vacant(q)
  PROVE  Cardinality(Promise!Waiting) = NumEvents
  <1> DEFINE W == {t \in Slots : state[t] = "EVT_BLK"}
             of == [q \in Queries |-> waitingTid[q][1]]
  <1>1. Promise!Waiting = W
    <2>1. \A i \in Slots : Phase[i] = "awaitingEvent" <=> state[i] = "EVT_BLK"
      <3>1. \A i \in Slots : PhaseFacts(i) /\ state[i] \in States
        BY PhaseIs DEF QueueInv, TypeOK
      <3> QED BY <3>1 DEF PhaseFacts, States, isTdAvailable, isTaskReady
    <2> QED BY <2>1 DEF Promise!Waiting
  <1>2. \A q \in Queries : of[q] \in W /\ waitingTid[q] = Tid(of[q])
    BY DEF QueueInv, EventQueueOK, EventWaiters, IsWaiting, Tid
  <1>3. \A p, q \in Queries : of[p] = of[q] => p = q
    BY <1>2 DEF QueueInv, EventQueueOK, EventWaiters
  <1>4. \A w \in W : \E q \in Queries : of[q] = w
    BY DEF QueueInv, EventQueueOK, EventWaiters, IsWaiting, Tid
  <1>5. of \in Bijection(Queries, W)
    <2>1. of \in [Queries -> W]
      BY <1>2
    <2> HIDE DEF of, W
    <2> QED BY <1>3, <1>4, <2>1 DEF Bijection, Injection, Surjection, IsInjective
  <1>6. Cardinality(Queries) = NumEvents /\ IsFiniteSet(Queries)
    BY KernelAssumption, FS_Interval DEF KernelAssumption, Queries
  <1>7. Cardinality(W) = Cardinality(Queries)
    <2> HIDE DEF of, W
    <2> QED BY <1>5, <1>6, FS_Bijection DEF ExistsBijection
  <1> QED BY <1>1, <1>6, <1>7

LEMMA UserStepKeepsPromise ==
  ASSUME QueueInv, OutcomeInv, NEW t \in Slots,
         Syscall(t) \/ Overflow(t) \/ Interrupt(t)
  PROVE  Promise!Next \/ Stutters
  <1>1. ASSUME NEW op, Trap(t, op), NEW c \in Promise!Answers,
               c \notin {"TOO_SMALL", "NOSEND"}, Return(t, Only(c))
        PROVE  Promise!Next
    BY <1>1, ReturnAnswers
  <1>2. CASE Yield(t) \/ ChangePriority(t)
    <2>1. "OK" \in Promise!Answers
      BY DEF Promise!Answers
    <2> QED BY <1>1, <1>2, <2>1 DEF Yield, ChangePriority
  <1>3. CASE SendRefused(t)
    <2>1. \E c \in {"DNE", "NOTFOUND", "BAD_BUFFER"} : Return(t, Only(c))
      BY <1>3 DEF SendRefused
    <2>2. {"DNE", "NOTFOUND", "BAD_BUFFER"} \subseteq Promise!Answers
      BY DEF Promise!Answers
    <2> QED BY <1>1, <1>3, <2>1, <2>2 DEF SendRefused
  <1>4. CASE ReplyRefused(t)
    <2>1. \E c \in {"DNE", "NOTFOUND", "ERROR", "NOT_REPLY_BLOCKED"} :
            Return(t, Only(c))
      BY <1>4 DEF ReplyRefused
    <2>2. {"DNE", "NOTFOUND", "ERROR", "NOT_REPLY_BLOCKED"} \subseteq Promise!Answers
      BY DEF Promise!Answers
    <2> QED BY <1>1, <1>4, <2>1, <2>2 DEF ReplyRefused
  <1>5. CASE ReceiveNothing(t)
    <2>1. "NOSEND" \in Promise!Answers
      BY DEF Promise!Answers
    <2> QED BY <1>5, <2>1, ReturnAnswers DEF ReceiveNothing
  <1>6. CASE AwaitEventRefused(t)
    <2>1. {"BAD_EVENT_ID", "TOO_SMALL"} \subseteq Promise!Answers
      BY DEF Promise!Answers
    <2>2. CASE Return(t, Only("BAD_EVENT_ID"))
      BY <1>1, <1>6, <2>1, <2>2 DEF AwaitEventRefused
    <2>3. CASE (\A q \in Queries : ~Vacant(q)) /\ Return(t, Only("TOO_SMALL"))
      BY <1>6, <2>1, <2>3, QueriesAreTasks, ReturnAnswers DEF AwaitEventRefused
    <2> QED BY <1>6, <2>2, <2>3 DEF AwaitEventRefused
  <1>7. CASE Exit(t) \/ Overflow(t)
    BY <1>7, StopLeaves DEF Exit, Overflow, Trap, Leave
  <1>8. ASSUME NEW op, ReceiveRefused(t, op)
        PROVE  Promise!Next
    <2>1. \A i \in Slots : i # t => ret'[i] = ret[i]
      BY <1>8 DEF ReceiveRefused, QueueInv, TypeOK
    <2> QED BY <1>8, <2>1, StopLeaves DEF ReceiveRefused, Trap
  <1>9. CASE Create(t) \/ CreateMicroTask(t)
    BY <1>9, SlotFacts, CreateKeepsPromise DEF Create, CreateMicroTask, Trap
  <1> QED
    BY <1>2, <1>3, <1>4, <1>5, <1>6, <1>7, <1>8, <1>9, SendDirectSends,
       SendQueuedSends, ReceiveQueuedReceives, ReceiveBlocksReceives,
       ReplyReplies, AwaitEventAwaits, PreemptStutters, InterruptHappens
    DEF Syscall, Interrupt

LEMMA NextKeepsPromise ==
  ASSUME QueueInv, OutcomeInv, [Next]_vars
  PROVE  [Promise!Next]_(Promise!vars)
  <1>1. CASE UNCHANGED vars
    <2>1. /\ UNCHANGED <<state, gen, call, ret>>
          /\ UNCHANGED <<sendQueueHead, sendQueueTail, sendQueueNext>>
          /\ UNCHANGED <<waitingTid, eventId, nextQuery, eventQueueHead,
                        eventQueueTail>>
      BY <1>1 DEF vars, sendQueue, eventQueue
    <2>2. Mail' = Mail
      BY <2>1 DEF Mail
    <2>3. Line' = Line
      BY <2>1 DEF Line
    <2>4. Handed' = Handed
      BY <2>1 DEF Handed
    <2>5. \A i \in Slots : findTd(call[i].tid)' = findTd(call[i].tid)
      BY <2>1 DEF findTd
    <2>6. \A i \in Slots : Phase'[i] = Phase[i]
      BY <2>1, <2>5, PhaseKept DEF QueueInv
    <2>7. Phase' = Phase
      BY <2>6, PhaseFunction
    <2> QED BY <2>1, <2>2, <2>3, <2>4, <2>7 DEF Promise!vars
  <1>2. ASSUME NEW t \in Slots, Dispatch(t)
        PROVE  Promise!Next \/ Stutters
    BY <1>2, DispatchCollects
  <1>3. Stutters <=> UNCHANGED Promise!vars
    BY DEF Stutters, Promise!vars
  <1>4. CASE Next
    BY <1>2, <1>3, <1>4, UserStepKeepsPromise DEF Next
  <1> QED BY <1>1, <1>3, <1>4

LEMMA InitKeepsPromise == Init => Promise!Init
  <1> SUFFICES ASSUME Init PROVE Promise!Init
    OBVIOUS
  <1>1. QueueInv
    BY InitQueueInv
  <1>2. \A r \in Slots : Mail[r] = <<>>
    BY <1>1, ReadLists DEF Init, ListsRead
  <1>3. \A e \in EventTypes : Line[e] = <<>>
    BY <1>1, ReadLists DEF Init, ListsRead
  <1>4. Phase = [i \in Slots |-> IF i = 0 THEN "ready" ELSE "absent"]
    <2>1. \A i \in Slots : Phase[i] = IF i = 0 THEN "ready" ELSE "absent"
      BY PhaseIs DEF Init, PhaseFacts, isTaskReady, isTdAvailable
    <2> QED BY <2>1, PhaseFunction
  <1>5. Handed = [i \in Slots |-> Promise!Nothing]
    BY DEF Init, Handed, Only, NoTid, Promise!Nothing
  <1>6. Mail = [i \in Slots |-> <<>>] /\ Line = [e \in EventTypes |-> <<>>]
    BY <1>2, <1>3 DEF Mail, Line
  <1> QED
    BY <1>4, <1>5, <1>6 DEF Init, NoCall, NoTid, Promise!Idle, Promise!Init

LEMMA OutcomesKept == Spec => []OutcomeInv
BY InitOutcomeInv, NextOutcomeInv, QueuesCorrect, PTL DEF Spec

\* The kernel implements the calls as BlockingCalls describes them: senders are
\* received and waiters woken first come first served, a message reaches the
\* task it names or nobody, and each call ends with the outcome it promises,
\* for any number of tasks and events and whatever the tasks do.
THEOREM KernelKeepsPromise == Spec => KeepsPromise
  <1>1. QueueInv /\ OutcomeInv /\ [Next]_vars => [Promise!Next]_(Promise!vars)
    BY NextKeepsPromise
  <1> QED
    BY <1>1, InitKeepsPromise, QueuesCorrect, OutcomesKept, PTL
    DEF Spec, KeepsPromise, Promise!Spec

-----------------------------------------------------------------------------
(* The kernel with its scheduler is the kernel with any scheduler that     *)
(* picks a ready task: what is proved of Kernel holds of PrjOS.            *)

\* Each turn of the kernel loop is a step of Kernel, whatever the lists are.
LEMMA TurnIsKernelStep == [PrjNext]_allVars => [Next]_vars
  <1> SUFFICES ASSUME [PrjNext]_allVars PROVE [Next]_vars
    OBVIOUS
  <1>1. ASSUME NEW t \in Slots, Schedule(t)
        PROVE  Next
    BY <1>1 DEF Schedule, Next
  <1>2. ASSUME NEW t \in Slots, RunKernel(t)
        PROVE  Next
    BY <1>2 DEF RunKernel, Next
  <1>3. ASSUME NEW t \in Slots, KillTask(t)
        PROVE  Next
    BY <1>3 DEF KillTask, Next
  <1>4. CASE UNCHANGED allVars
    BY <1>4 DEF allVars
  <1> QED BY <1>1, <1>2, <1>3, <1>4 DEF PrjNext

\* rtos_main, with schedule() and schedulerAdd(), implements Kernel.
THEOREM LoopImplementsKernel == PrjSpec => Spec
  <1>1. PrjInit => Init
    BY DEF PrjInit
  <1> QED BY <1>1, TurnIsKernelStep, PTL DEF PrjSpec, Spec

\* So the queues and the outcomes are in order under the real scheduler too,
\* even after a list of the scheduler was damaged.
THEOREM LoopKeepsQueues ==
  PrjSpec => /\ [](SendQueueOK /\ ReceiverQueueEmpty /\ EventQueueOK)
             /\ []NoOutcomeForPreempted
BY LoopImplementsKernel, SendQueuesCorrect, ReceiverQueuesEmpty,
   EventQueuesCorrect, OutcomesDelivered, PTL

\* Under the real scheduler the calls keep their promises too.
THEOREM LoopKeepsPromise == PrjSpec => KeepsPromise
BY LoopImplementsKernel, KernelKeepsPromise, PTL

-----------------------------------------------------------------------------
(* The ready lists.  The invariant ReadyInv says what each list holds: the *)
(* tasks of its level that are not running, with those that exited.  That  *)
(* schedulerAdd() and schedule() keep to it is shown for any lists, and    *)
(* then for the turns of the loop.                                         *)

Structures == [heads : [Levels -> Slots \cup {Null}],
               tails : [Levels -> Slots \cup {Null}],
               next  : [Slots -> Slots \cup {Null}]]

\* The list of each level p links exactly the slots of M[p].
Holds(q, M) ==
  /\ q \in Structures
  /\ \A p \in Levels : Linked(M[p], q.heads[p], q.tails[p], q.next)
  /\ \A p \in Levels : q.heads[p] = Null => q.tails[p] = Null

Apart(M) == /\ M \in [Levels -> SUBSET Slots]
            /\ \A p, l \in Levels : p # l => M[p] \cap M[l] = {}

LEMMA ApartFinite ==
  ASSUME NEW M, Apart(M)
  PROVE  \A p \in Levels : IsFiniteSet(M[p]) /\ Null \notin M[p] /\ M[p] \subseteq Slots
  <1>1. IsFiniteSet(Slots)
    BY KernelAssumption, FS_Interval DEF KernelAssumption, Slots
  <1>2. \A p \in Levels : M[p] \subseteq Slots
    BY DEF Apart
  <1> QED BY <1>1, <1>2, FS_Subset, SlotFacts

\* What schedulerAdd leaves in the structure.
LEMMA AddFields ==
  ASSUME NEW q \in Structures, NEW i \in Slots, NEW p \in Levels,
         NEW r, r = RQ!schedulerAdd(q, i, p)
  PROVE  /\ r \in Structures
         /\ r.tails = [q.tails EXCEPT ![p] = i]
         /\ q.tails[p] = Null => /\ r.heads = [q.heads EXCEPT ![p] = i]
                                 /\ r.next = [q.next EXCEPT ![i] = Null]
         /\ q.tails[p] # Null =>
              /\ r.heads = q.heads
              /\ r.next = [[q.next EXCEPT ![i] = Null] EXCEPT ![q.tails[p]] = i]
  <1>1. CASE q.tails[p] = Null
    <2>1. r = [q EXCEPT !.next[i] = Null, !.heads[p] = i, !.tails[p] = i]
      BY <1>1 DEF RQ!schedulerAdd
    <2>2. q = [heads |-> q.heads, tails |-> q.tails, next |-> q.next]
      BY DEF Structures
    <2>3. /\ r.heads = [q.heads EXCEPT ![p] = i]
          /\ r.tails = [q.tails EXCEPT ![p] = i]
          /\ r.next = [q.next EXCEPT ![i] = Null]
          /\ r = [heads |-> r.heads, tails |-> r.tails, next |-> r.next]
      BY <2>1, <2>2
    <2>4. r \in Structures
      BY <2>3 DEF Structures
    <2> QED BY <1>1, <2>3, <2>4
  <1>2. CASE q.tails[p] # Null
    <2>1. r = [q EXCEPT !.next = [[@ EXCEPT ![i] = Null] EXCEPT ![q.tails[p]] = i],
                        !.tails[p] = i]
      BY <1>2 DEF RQ!schedulerAdd
    <2>2. q.tails[p] \in Slots
      BY <1>2 DEF Structures
    <2>3. q = [heads |-> q.heads, tails |-> q.tails, next |-> q.next]
      BY DEF Structures
    <2>4. /\ r.heads = q.heads
          /\ r.tails = [q.tails EXCEPT ![p] = i]
          /\ r.next = [[q.next EXCEPT ![i] = Null] EXCEPT ![q.tails[p]] = i]
          /\ r = [heads |-> r.heads, tails |-> r.tails, next |-> r.next]
      BY <2>1, <2>3
    <2>5. r \in Structures
      BY <2>2, <2>4 DEF Structures
    <2> QED BY <1>2, <2>4, <2>5
  <1> QED BY <1>1, <1>2

\* schedulerAdd puts a task that is in no list into that of level p.
LEMMA AddHolds ==
  ASSUME NEW q, NEW M, Holds(q, M), Apart(M),
         NEW i \in Slots, \A p \in Levels : i \notin M[p], NEW p \in Levels
  PROVE  Holds(RQ!schedulerAdd(q, i, p), [M EXCEPT ![p] = @ \cup {i}])
  <1> DEFINE r == RQ!schedulerAdd(q, i, p)
             R == [M EXCEPT ![p] = @ \cup {i}]
  <1>1. q \in Structures
    BY DEF Holds
  <1>2. /\ r \in Structures
        /\ r.tails = [q.tails EXCEPT ![p] = i]
        /\ q.tails[p] = Null => /\ r.heads = [q.heads EXCEPT ![p] = i]
                                /\ r.next = [q.next EXCEPT ![i] = Null]
        /\ q.tails[p] # Null =>
             /\ r.heads = q.heads
             /\ r.next = [[q.next EXCEPT ![i] = Null] EXCEPT ![q.tails[p]] = i]
    BY <1>1, AddFields
  <1> HIDE DEF r
  <1>3. /\ IsFiniteSet(M[p]) /\ Null \notin M[p]
        /\ Linked(M[p], q.heads[p], q.tails[p], q.next)
        /\ q.heads[p] = Null <=> q.tails[p] = Null
        /\ q.tails[p] # Null => q.tails[p] \in M[p]
    <2>1. /\ IsFiniteSet(M[p]) /\ Null \notin M[p]
          /\ Linked(M[p], q.heads[p], q.tails[p], q.next)
          /\ q.heads[p] = Null => q.tails[p] = Null
      BY ApartFinite DEF Holds
    <2>2. q.heads[p] # Null => q.tails[p] \in M[p]
      BY <2>1, ListEnds
    <2> QED BY <2>1, <2>2
  <1>4. Appends(i, M[p], q.heads[p], q.tails[p], q.next, r.heads[p], r.next)
    <2> DEFINE t == q.tails[p]
    <2>1. CASE t = Null
      <3>1. /\ r.heads[p] = i /\ r.next[i] = Null
            /\ \A y \in Slots : y # i => r.next[y] = q.next[y]
        BY <1>1, <1>2, <2>1 DEF Structures
      <3>2. \A y \in M[p] : y \in Slots /\ y # i
        BY DEF Apart
      <3> QED BY <1>3, <2>1, <3>1, <3>2 DEF Appends
    <2>2. CASE t # Null
      <3>1. t \in Slots /\ t # i
        BY <1>3, <2>2 DEF Apart
      <3>2. /\ r.heads[p] = q.heads[p] /\ r.next[i] = Null /\ r.next[t] = i
            /\ \A y \in Slots : y # i /\ y # t => r.next[y] = q.next[y]
        BY <1>1, <1>2, <2>2, <3>1 DEF Structures
      <3>3. \A y \in M[p] : y \in Slots /\ y # i
        BY DEF Apart
      <3> QED BY <1>3, <2>2, <3>2, <3>3 DEF Appends
    <2> QED BY <2>1, <2>2
  <1>5. Linked(M[p] \cup {i}, r.heads[p], r.tails[p], r.next)
    <2>1. Linked(M[p] \cup {i}, r.heads[p], i, r.next)
      BY <1>3, <1>4, ListPush
    <2>2. r.tails[p] = i
      BY <1>1, <1>2 DEF Structures
    <2> QED BY <2>1, <2>2
  <1>6. ASSUME NEW l \in Levels, l # p
        PROVE  /\ Linked(M[l], r.heads[l], r.tails[l], r.next)
               /\ r.heads[l] = q.heads[l] /\ r.tails[l] = q.tails[l]
    <2>1. r.heads[l] = q.heads[l] /\ r.tails[l] = q.tails[l]
      BY <1>1, <1>2, <1>6 DEF Structures
    <2>2. IsFiniteSet(M[l]) /\ Linked(M[l], q.heads[l], q.tails[l], q.next)
      BY ApartFinite DEF Holds
    <2>3. \A x \in M[l] : x \in Slots /\ x # i /\ x # q.tails[p]
      <3>1. M[l] \subseteq Slots /\ M[l] \cap M[p] = {}
        BY <1>6 DEF Apart
      <3> QED BY <1>3, <3>1, SlotFacts
    <2>4. \A x \in M[l] : r.next[x] = q.next[x]
      BY <1>1, <1>2, <2>3 DEF Structures
    <2>5. Linked(M[l], q.heads[l], q.tails[l], r.next)
      BY <2>2, <2>4, ListKept
    <2> QED BY <2>1, <2>5
  <1>7. /\ R[p] = M[p] \cup {i}
        /\ \A l \in Levels : l # p => R[l] = M[l]
    BY DEF Apart
  <1>8. r.heads[p] # Null
    BY <1>1, <1>2, <1>3, SlotFacts DEF Structures
  <1> HIDE DEF R
  <1>9. \A l \in Levels : /\ Linked(R[l], r.heads[l], r.tails[l], r.next)
                          /\ r.heads[l] = Null => r.tails[l] = Null
    <2> SUFFICES ASSUME NEW l \in Levels
                 PROVE  /\ Linked(R[l], r.heads[l], r.tails[l], r.next)
                        /\ r.heads[l] = Null => r.tails[l] = Null
      OBVIOUS
    <2>1. CASE l = p
      BY <1>5, <1>7, <1>8, <2>1
    <2>2. CASE l # p
      BY <1>6, <1>7, <2>2 DEF Holds
    <2> QED BY <2>1, <2>2
  <1>10. Holds(r, R)
    BY <1>2, <1>9 DEF Holds
  <1> QED BY <1>10 DEF r, R
-----------------------------------------------------------------------------
\* v[k] is what a walk from head meets after k links.
Walks(v, head, link) ==
  v = [k \in Slots |->
         IF k = 0 THEN head ELSE IF v[k - 1] = Null THEN Null ELSE link[v[k - 1]]]

LEMMA WalksUnique ==
  ASSUME NEW head, NEW link, NEW v, NEW w, Walks(v, head, link), Walks(w, head, link)
  PROVE  v = w
  <1> DEFINE D == {k \in Slots : v[k] # w[k]}
  <1>1. /\ DOMAIN v = Slots /\ DOMAIN w = Slots
        /\ v = [k \in DOMAIN v |-> v[k]] /\ w = [k \in DOMAIN w |-> w[k]]
    BY DEF Walks
  <1>2. ASSUME D # {}
        PROVE  FALSE
    <2>1. D \subseteq Nat
      BY SlotFacts
    <2>2. PICK k \in D : \A i \in D : k <= i
      <3> HIDE DEF D
      <3> QED BY <1>2, <2>1, LeastMember
    <2>3. k # 0 /\ k \in Nat
      BY <2>1 DEF Walks
    <2>4. k - 1 \in Slots /\ k - 1 \notin D
      BY <2>2, <2>3, KernelAssumption DEF KernelAssumption, Slots
    <2>5. v[k] = IF v[k - 1] = Null THEN Null ELSE link[v[k - 1]]
      BY <2>3 DEF Walks
    <2>6. w[k] = IF w[k - 1] = Null THEN Null ELSE link[w[k - 1]]
      BY <2>3 DEF Walks
    <2> QED BY <2>4, <2>5, <2>6
  <1> QED BY <1>1, <1>2

\* A walk along a linked list meets its members, then nothing.
LEMMA WalkRuns ==
  ASSUME NEW q, NEW p, NEW S \in SUBSET Slots, NEW f, NEW n,
         Runs(f, n, S, q.heads[p], q.tails[p], q.next)
  PROVE  /\ n \in Nat /\ n <= Cardinality(Slots)
         /\ \A k \in Slots : RQ!Walk(q, p)[k] = IF k < n THEN f[k + 1] ELSE Null
  <1> DEFINE w == [k \in Slots |-> IF k < n THEN f[k + 1] ELSE Null]
             at[k \in Slots] ==
               IF k = 0 THEN q.heads[p]
               ELSE IF at[k - 1] = Null THEN Null ELSE q.next[at[k - 1]]
  <1>1. IsFiniteSet(Slots)
    BY KernelAssumption, FS_Interval DEF KernelAssumption, Slots
  <1>2. n \in Nat /\ n <= Cardinality(Slots)
    BY <1>1, FS_CardinalityType, FS_Subset DEF Runs
  <1>3. \A k \in 1 .. n : f[k] # Null
    BY SlotFacts DEF Runs
  <1>4. Walks(w, q.heads[p], q.next)
    <2>1. ASSUME NEW k \in Slots
          PROVE  w[k] = IF k = 0 THEN q.heads[p]
                        ELSE IF w[k - 1] = Null THEN Null ELSE q.next[w[k - 1]]
      <3>1. k \in Nat
        BY SlotFacts
      <3>2. CASE k = 0
        BY <1>2, <3>2 DEF Runs
      <3>3. CASE k # 0 /\ k <= n
        <4>1. k \in 1 .. n /\ k - 1 \in Slots
          BY <1>2, <3>1, <3>3, KernelAssumption DEF KernelAssumption, Slots
        <4>2. w[k - 1] = f[k] /\ f[k] # Null
          BY <1>2, <1>3, <3>1, <3>3, <4>1
        <4>3. q.next[f[k]] = IF k = n THEN Null ELSE f[k + 1]
          BY <4>1 DEF Runs
        <4> QED BY <1>2, <3>1, <3>3, <4>2, <4>3
      <3>4. CASE k # 0 /\ k > n
        <4>1. k - 1 \in Slots /\ ~(k - 1 < n) /\ ~(k < n)
          BY <1>2, <3>1, <3>4, KernelAssumption DEF KernelAssumption, Slots
        <4> QED BY <3>4, <4>1
      <3> QED BY <1>2, <3>1, <3>2, <3>3, <3>4
    <2>2. w = [k \in Slots |-> w[k]]
      OBVIOUS
    <2> HIDE DEF w
    <2> QED BY <2>1, <2>2 DEF Walks
  <1>5. \E v : Walks(v, q.heads[p], q.next)
    BY <1>4
  <1>6. Walks(at, q.heads[p], q.next)
    BY <1>5 DEF Walks
  <1>7. RQ!Walk(q, p) = at
    BY DEF RQ!Walk
  <1> HIDE DEF at
  <1>8. at = w
    BY <1>4, <1>6, WalksUnique
  <1> QED BY <1>2, <1>7, <1>8

\* So it meets every member, in a place among the first Cardinality(Slots), and
\* comes to an end.
LEMMA WalkMeets ==
  ASSUME NEW q, NEW p, NEW S \in SUBSET Slots,
         Linked(S, q.heads[p], q.tails[p], q.next)
  PROVE  /\ RQ!Listed(q, p) = S
         /\ ~RQ!Loops(q, p)
         /\ S # {} => q.tails[p] \in S /\ q.next[q.tails[p]] = Null
  <1>1. IsFiniteSet(Slots) /\ IsFiniteSet(S)
    <2>1. IsFiniteSet(Slots)
      BY KernelAssumption, FS_Interval DEF KernelAssumption, Slots
    <2> QED BY <2>1, FS_Subset
  <1>2. PICK f, n : Runs(f, n, S, q.heads[p], q.tails[p], q.next)
    BY <1>1, LinkedRuns
  <1>3. /\ n \in Nat /\ n <= Cardinality(Slots)
        /\ \A k \in Slots : RQ!Walk(q, p)[k] = IF k < n THEN f[k + 1] ELSE Null
    BY <1>2, WalkRuns
  <1>4. Cardinality(Slots) = NTasks + NMicro /\ 0 \in Slots
    <2>1. NTasks \in Nat \ {0} /\ NMicro \in Nat
      BY KernelAssumption DEF KernelAssumption
    <2>2. NTasks + NMicro - 1 \in Int /\ 0 <= NTasks + NMicro - 1
      BY <2>1
    <2>3. Cardinality(0 .. NTasks + NMicro - 1) = (NTasks + NMicro - 1) - 0 + 1
      BY <2>2, FS_Interval
    <2> QED BY <2>1, <2>3 DEF Slots
  <1>5. \A k \in 1 .. n : k - 1 \in Slots /\ k - 1 < n /\ RQ!Walk(q, p)[k - 1] = f[k]
    <2> SUFFICES ASSUME NEW k \in 1 .. n
                 PROVE  k - 1 \in Slots /\ k - 1 < n /\ RQ!Walk(q, p)[k - 1] = f[k]
      OBVIOUS
    <2>1. k - 1 \in Slots /\ k - 1 < n /\ (k - 1) + 1 = k
      BY <1>3, <1>4, KernelAssumption DEF KernelAssumption, Slots
    <2> QED BY <1>3, <2>1
  <1>6. \A x \in S : \E k \in 1 .. n : f[k] = x
    BY <1>2 DEF Runs
  <1>7. \A k \in 1 .. n : f[k] \in S /\ f[k] # Null
    <2>1. \A x \in S : x # Null
      BY SlotFacts
    <2>2. \A k \in 1 .. n : f[k] \in S
      BY <1>2 DEF Runs
    <2> QED BY <2>1, <2>2
  <1>8. RQ!Listed(q, p) = S
    <2>1. \A x \in S : x \in RQ!Listed(q, p)
      BY <1>5, <1>6, <1>7 DEF RQ!Listed
    <2>2. ASSUME NEW k \in Slots, RQ!Walk(q, p)[k] # Null
          PROVE  RQ!Walk(q, p)[k] \in S
      <3>1. k \in Nat /\ k < n /\ k + 1 \in 1 .. n /\ RQ!Walk(q, p)[k] = f[k + 1]
        BY <1>3, <2>2, SlotFacts
      <3> QED BY <1>7, <3>1
    <2>3. RQ!Listed(q, p) \subseteq S
      BY <2>2 DEF RQ!Listed
    <2> QED BY <2>1, <2>3
  <1>9. ~RQ!Loops(q, p)
    <2>1. CASE n = 0
      BY <1>3, <1>4, <2>1 DEF RQ!Loops
    <2>2. CASE n # 0
      <3>1. n \in 1 .. n
        BY <1>3, <2>2
      <3>2. q.next[f[n]] = Null
        BY <1>2, <3>1 DEF Runs
      <3> QED BY <1>5, <3>1, <3>2 DEF RQ!Loops
    <2> QED BY <2>1, <2>2
  <1>10. S # {} => q.tails[p] \in S /\ q.next[q.tails[p]] = Null
    <2> SUFFICES ASSUME S # {} PROVE q.tails[p] \in S /\ q.next[q.tails[p]] = Null
      OBVIOUS
    <2>1. n \in 1 .. n
      BY <1>3, <1>6
    <2>2. q.tails[p] = f[n] /\ q.next[f[n]] = Null
      BY <1>2, <1>3, <2>1 DEF Runs
    <2> QED BY <1>7, <2>1, <2>2
  <1> QED BY <1>8, <1>9, <1>10
-----------------------------------------------------------------------------
\* Taking the j-th member out.
TakesOut(j, f, S, head, tail, next, head2, tail2, next2) ==
  /\ head2 = IF j = 1 THEN next[f[j]] ELSE head
  /\ tail2 = IF next[f[j]] # Null THEN tail ELSE IF j = 1 THEN Null ELSE f[j - 1]
  /\ \A y \in S \ {f[j]} :
       next2[y] = IF j # 1 /\ y = f[j - 1] THEN next[f[j]] ELSE next[y]

LEMMA RunsOut ==
  ASSUME NEW S, IsFiniteSet(S), Null \notin S, NEW head, NEW tail, NEW next,
         NEW f, NEW n, Runs(f, n, S, head, tail, next), NEW j \in 1 .. n,
         NEW head2, NEW tail2, NEW next2,
         TakesOut(j, f, S, head, tail, next, head2, tail2, next2),
         NEW g, g = [i \in 1 .. n - 1 |-> IF i < j THEN f[i] ELSE f[i + 1]]
  PROVE  Runs(g, n - 1, S \ {f[j]}, head2, tail2, next2)
  <1> DEFINE R == S \ {f[j]}
  <1>1. n \in Nat \ {0} /\ f[j] \in S
    BY DEF Runs
  <1>2. /\ \A i \in 1 .. n : f[i] \in S /\ f[i] # Null
        /\ \A i, k \in 1 .. n : f[i] = f[k] => i = k
        /\ \A i \in 1 .. n : next[f[i]] = IF i = n THEN Null ELSE f[i + 1]
    <2>1. \A i \in 1 .. n : f[i] \in S
      BY DEF Runs
    <2> QED BY <2>1 DEF Runs
  <1>3. IsFiniteSet(R) /\ Cardinality(R) = n - 1
    BY <1>1, FS_RemoveElement DEF Runs
  <1>4. \A i \in 1 .. n - 1 :
          /\ i < j => i \in 1 .. n /\ i # j /\ g[i] = f[i]
          /\ ~(i < j) => i + 1 \in 1 .. n /\ i + 1 # j /\ g[i] = f[i + 1]
    BY <1>1
  <1>5. \A i \in 1 .. n - 1 : g[i] \in R
    BY <1>2, <1>4
  <1>6. \A y \in R : \E i \in 1 .. n - 1 : g[i] = y
    <2> SUFFICES ASSUME NEW y \in R PROVE \E i \in 1 .. n - 1 : g[i] = y
      OBVIOUS
    <2>1. PICK i \in 1 .. n : f[i] = y
      BY DEF Runs
    <2>2. i # j
      BY <2>1
    <2>3. CASE i < j
      <3>1. i \in 1 .. n - 1 /\ g[i] = y
        BY <1>1, <2>1, <2>3
      <3> QED BY <3>1
    <2>4. CASE i > j
      <3>1. i - 1 \in 1 .. n - 1 /\ ~(i - 1 < j) /\ (i - 1) + 1 = i
        BY <1>1, <2>4
      <3> QED BY <1>4, <2>1, <3>1
    <2> QED BY <2>2, <2>3, <2>4
  <1>7. ASSUME NEW i \in 1 .. n - 1, NEW k \in 1 .. n - 1, g[i] = g[k]
        PROVE  i = k
    <2>1. CASE i < j /\ k < j
      BY <1>2, <1>4, <1>7, <2>1
    <2>2. CASE ~(i < j) /\ ~(k < j)
      <3>1. i + 1 = k + 1
        BY <1>2, <1>4, <1>7, <2>2
      <3> QED BY <3>1
    <2>3. CASE i < j /\ ~(k < j)
      <3>1. i = k + 1
        BY <1>2, <1>4, <1>7, <2>3
      <3> QED BY <2>3, <3>1
    <2>4. CASE ~(i < j) /\ k < j
      <3>1. k = i + 1
        BY <1>2, <1>4, <1>7, <2>4
      <3> QED BY <2>4, <3>1
    <2> QED BY <2>1, <2>2, <2>3, <2>4
  <1>8. head2 = IF n - 1 = 0 THEN Null ELSE g[1]
    <2>1. CASE n = 1
      BY <1>2, <2>1 DEF TakesOut
    <2>2. CASE n # 1 /\ j = 1
      <3>1. head2 = f[2] /\ g[1] = f[2]
        BY <1>1, <1>2, <2>2 DEF TakesOut
      <3> QED BY <1>1, <2>2, <3>1
    <2>3. CASE n # 1 /\ j # 1
      <3>1. head2 = f[1] /\ g[1] = f[1]
        BY <1>1, <2>3 DEF TakesOut, Runs
      <3> QED BY <1>1, <2>3, <3>1
    <2> QED BY <2>1, <2>2, <2>3
  <1>9. ASSUME NEW i \in 1 .. n - 1
        PROVE  next2[g[i]] = IF i = n - 1 THEN Null ELSE g[i + 1]
    <2>1. next2[g[i]] = IF j # 1 /\ g[i] = f[j - 1] THEN next[f[j]] ELSE next[g[i]]
      BY <1>5 DEF TakesOut
    <2>2. CASE i = j - 1
      <3>1. i < j /\ j # 1 /\ g[i] = f[j - 1]
        BY <1>4, <2>2
      <3>2. next2[g[i]] = IF j = n THEN Null ELSE f[j + 1]
        BY <1>2, <2>1, <3>1
      <3>3. i # n - 1 => i + 1 \in 1 .. n - 1 /\ ~(i + 1 < j) /\ (i + 1) + 1 = j + 1
        BY <1>1, <2>2
      <3>4. i # n - 1 => g[i + 1] = f[j + 1]
        BY <1>4, <3>3
      <3>5. j = n <=> i = n - 1
        BY <1>1, <2>2
      <3> QED BY <3>2, <3>4, <3>5
    <2>3. CASE i # j - 1 /\ i < j
      <3>1. i + 1 < j /\ i \in 1 .. n /\ i # n /\ g[i] = f[i] /\ i + 1 \in 1 .. n - 1
        BY <1>1, <1>4, <2>3
      <3>2. g[i + 1] = f[i + 1]
        BY <1>4, <3>1
      <3>3. j # 1 => g[i] # f[j - 1]
        <4>1. j # 1 => j - 1 \in 1 .. n
          BY <1>1
        <4> QED BY <1>2, <2>3, <3>1, <4>1
      <3>4. i # n - 1
        BY <3>1
      <3> QED BY <1>2, <2>1, <3>1, <3>2, <3>3, <3>4
    <2>4. CASE ~(i < j)
      <3>1. i + 1 \in 1 .. n /\ g[i] = f[i + 1]
        BY <1>4, <2>4
      <3>2. j # 1 => g[i] # f[j - 1]
        <4>1. j # 1 => j - 1 \in 1 .. n /\ j - 1 # i + 1
          BY <1>1, <2>4
        <4> QED BY <1>2, <3>1, <4>1
      <3>3. next2[g[i]] = IF i + 1 = n THEN Null ELSE f[(i + 1) + 1]
        BY <1>2, <2>1, <3>1, <3>2
      <3>4. i # n - 1 => i + 1 \in 1 .. n - 1 /\ ~(i + 1 < j)
        BY <1>1, <2>4
      <3>5. i # n - 1 => g[i + 1] = f[(i + 1) + 1]
        BY <1>4, <3>4
      <3>6. i + 1 = n <=> i = n - 1
        BY <1>1
      <3> QED BY <3>3, <3>5, <3>6
    <2> QED BY <1>1, <2>2, <2>3, <2>4
  <1>10. n - 1 > 0 => tail2 = g[n - 1]
    <2> SUFFICES ASSUME n - 1 > 0 PROVE tail2 = g[n - 1]
      OBVIOUS
    <2>1. CASE j = n
      <3>1. tail2 = f[n - 1]
        BY <1>1, <1>2, <2>1 DEF TakesOut
      <3>2. n - 1 \in 1 .. n - 1 /\ n - 1 < j
        BY <1>1, <2>1
      <3> QED BY <1>4, <3>1, <3>2
    <2>2. CASE j # n
      <3>1. next[f[j]] # Null
        <4>1. j + 1 \in 1 .. n
          BY <1>1, <2>2
        <4> QED BY <1>2, <2>2, <4>1
      <3>2. tail2 = f[n]
        BY <1>1, <3>1 DEF TakesOut, Runs
      <3>3. n - 1 \in 1 .. n - 1 /\ ~(n - 1 < j) /\ (n - 1) + 1 = n
        BY <1>1, <2>2
      <3>4. g[n - 1] = f[(n - 1) + 1]
        BY <1>4, <3>3
      <3> QED BY <3>2, <3>3, <3>4
    <2> QED BY <2>1, <2>2
  <1>11. n - 1 \in Nat /\ g \in [1 .. n - 1 -> R]
    BY <1>1, <1>5
  <1>12. Runs(g, n - 1, R, head2, tail2, next2)
    <2> HIDE DEF R
    <2> QED BY <1>3, <1>6, <1>7, <1>8, <1>9, <1>10, <1>11 DEF Runs
  <1> QED BY <1>12
\* What schedule() leaves in the structure.
LEMMA UnlinkFields ==
  ASSUME NEW q \in Structures, NEW p \in Levels, NEW k \in Slots,
         NEW i \in Slots, i = RQ!Walk(q, p)[k],
         NEW last \in Slots \cup {Null}, k # 0 => last = RQ!Walk(q, p)[k - 1] /\ last # Null,
         NEW r, r = RQ!Unlink(q, p, k)
  PROVE  /\ r \in Structures
         /\ r.heads = IF k = 0 THEN [q.heads EXCEPT ![p] = q.next[i]] ELSE q.heads
         /\ r.next = IF k = 0 THEN q.next ELSE [q.next EXCEPT ![last] = q.next[i]]
         /\ r.tails = [q.tails EXCEPT
                         ![p] = IF q.next[i] # Null THEN q.tails[p]
                                ELSE IF k = 0 THEN Null ELSE last]
  <1> DEFINE rest == q.next[i]
  <1>1. /\ q = [heads |-> q.heads, tails |-> q.tails, next |-> q.next]
        /\ q.heads \in [Levels -> Slots \cup {Null}]
        /\ q.tails \in [Levels -> Slots \cup {Null}]
        /\ q.next \in [Slots -> Slots \cup {Null}]
    BY DEF Structures
  <1>2. rest \in Slots \cup {Null}
    BY <1>1
  <1> HIDE DEF rest
  <1>3. CASE k = 0
    <2>1. r = [q EXCEPT !.heads[p] = rest,
                        !.tails[p] = IF rest = Null THEN Null ELSE @]
      BY <1>3 DEF RQ!Unlink, rest
    <2>2. /\ r.heads = [q.heads EXCEPT ![p] = rest]
          /\ r.tails = [q.tails EXCEPT ![p] = IF rest = Null THEN Null ELSE @]
          /\ r.next = q.next
          /\ r = [heads |-> r.heads, tails |-> r.tails, next |-> r.next]
      BY <1>1, <2>1
    <2>3. r.tails = [q.tails EXCEPT ![p] = IF rest # Null THEN q.tails[p] ELSE Null]
      BY <2>2
    <2>4. /\ r.heads \in [Levels -> Slots \cup {Null}]
          /\ r.tails \in [Levels -> Slots \cup {Null}]
          /\ r.next \in [Slots -> Slots \cup {Null}]
      BY <1>1, <1>2, <2>2
    <2>5. r \in Structures
      BY <2>2, <2>4 DEF Structures
    <2> QED BY <1>3, <2>2, <2>3, <2>5 DEF rest
  <1>4. CASE k # 0
    <2>1. r = [q EXCEPT !.next[last] = rest,
                        !.tails[p] = IF rest = Null THEN last ELSE @]
      BY <1>4 DEF RQ!Unlink, rest
    <2>2. /\ r.heads = q.heads
          /\ r.tails = [q.tails EXCEPT ![p] = IF rest = Null THEN last ELSE @]
          /\ r.next = [q.next EXCEPT ![last] = rest]
          /\ r = [heads |-> r.heads, tails |-> r.tails, next |-> r.next]
      BY <1>1, <2>1
    <2>3. r.tails = [q.tails EXCEPT ![p] = IF rest # Null THEN q.tails[p] ELSE last]
      BY <2>2
    <2>4. /\ r.heads \in [Levels -> Slots \cup {Null}]
          /\ r.tails \in [Levels -> Slots \cup {Null}]
          /\ r.next \in [Slots -> Slots \cup {Null}]
      BY <1>1, <1>2, <2>2
    <2>5. r \in Structures
      BY <2>2, <2>4 DEF Structures
    <2> QED BY <1>4, <2>2, <2>3, <2>5 DEF rest
  <1> QED BY <1>3, <1>4

\* schedule() takes a task out of the list of its level, and out of no other.
LEMMA UnlinkHolds ==
  ASSUME NEW q, NEW M, Holds(q, M), Apart(M), NEW p \in Levels, NEW k \in Slots,
         NEW i \in M[p], i = RQ!Walk(q, p)[k]
  PROVE  Holds(RQ!Unlink(q, p, k), [M EXCEPT ![p] = @ \ {i}])
  <1> DEFINE r == RQ!Unlink(q, p, k)
             R == [M EXCEPT ![p] = @ \ {i}]
             j == k + 1
             rest == q.next[i]
  <1>1. q \in Structures
    BY DEF Holds
  <1>2. /\ IsFiniteSet(M[p]) /\ Null \notin M[p] /\ M[p] \in SUBSET Slots
        /\ Linked(M[p], q.heads[p], q.tails[p], q.next)
    BY ApartFinite DEF Holds
  <1>3. PICK f, n : Runs(f, n, M[p], q.heads[p], q.tails[p], q.next)
    BY <1>2, LinkedRuns
  <1>4. /\ n \in Nat
        /\ \A x \in Slots : RQ!Walk(q, p)[x] = IF x < n THEN f[x + 1] ELSE Null
    <2>1. PICK S \in SUBSET Slots : S = M[p]
      BY <1>2
    <2>2. Runs(f, n, S, q.heads[p], q.tails[p], q.next)
      BY <1>3, <2>1
    <2> QED BY <2>2, WalkRuns
  <1>5. k \in Nat /\ k < n /\ j \in 1 .. n /\ i = f[j] /\ i \in Slots
    BY <1>2, <1>4, SlotFacts
  <1>6. PICK last \in Slots \cup {Null} :
          k # 0 => /\ last = RQ!Walk(q, p)[k - 1] /\ last # Null
                   /\ last = f[j - 1] /\ last \in M[p] /\ last # i
    <2>1. CASE k = 0
      BY <2>1
    <2>2. CASE k # 0
      <3>1. k - 1 \in Slots /\ k - 1 < n /\ (k - 1) + 1 = j - 1 /\ j - 1 \in 1 .. n
        BY <1>4, <1>5, <2>2, KernelAssumption DEF KernelAssumption, Slots
      <3>2. RQ!Walk(q, p)[k - 1] = f[j - 1]
        BY <1>4, <3>1
      <3>3. f[j - 1] \in M[p] /\ f[j - 1] # f[j]
        BY <1>3, <1>5, <3>1 DEF Runs
      <3> QED BY <1>2, <1>5, <3>2, <3>3
    <2> QED BY <2>1, <2>2
  <1>7. /\ r \in Structures
        /\ r.heads = IF k = 0 THEN [q.heads EXCEPT ![p] = rest] ELSE q.heads
        /\ r.next = IF k = 0 THEN q.next ELSE [q.next EXCEPT ![last] = rest]
        /\ r.tails = [q.tails EXCEPT ![p] = IF rest # Null THEN q.tails[p]
                                            ELSE IF k = 0 THEN Null ELSE last]
    <2>1. k # 0 => last = RQ!Walk(q, p)[k - 1] /\ last # Null
      BY <1>6
    <2>2. r = RQ!Unlink(q, p, k) /\ i = RQ!Walk(q, p)[k]
      OBVIOUS
    <2>3. last \in Slots \cup {Null} /\ i \in Slots
      BY <1>5, <1>6
    <2> HIDE DEF j, r
    <2> QED BY <1>1, <2>1, <2>2, <2>3, UnlinkFields
  <1> HIDE DEF r, rest, R
  <1>8. /\ r.heads[p] = IF k = 0 THEN rest ELSE q.heads[p]
        /\ r.tails[p] = IF rest # Null THEN q.tails[p] ELSE IF k = 0 THEN Null ELSE last
        /\ \A l \in Levels : l # p => r.heads[l] = q.heads[l] /\ r.tails[l] = q.tails[l]
        /\ \A x \in Slots : r.next[x] = IF k # 0 /\ x = last THEN rest ELSE q.next[x]
    BY <1>1, <1>7 DEF Structures
  <1>9. TakesOut(j, f, M[p], q.heads[p], q.tails[p], q.next,
                 r.heads[p], r.tails[p], r.next)
    <2>1. k = 0 <=> j = 1
      BY <1>5
    <2> HIDE DEF j
    <2> QED BY <1>2, <1>5, <1>6, <1>8, <2>1 DEF TakesOut, rest
  <1>10. Linked(M[p] \ {i}, r.heads[p], r.tails[p], r.next)
    <2>1. PICK g : g = [x \in 1 .. n - 1 |-> IF x < j THEN f[x] ELSE f[x + 1]]
      OBVIOUS
    <2>2. Runs(g, n - 1, M[p] \ {f[j]}, r.heads[p], r.tails[p], r.next)
      BY <1>2, <1>3, <1>5, <1>9, <2>1, RunsOut
    <2>3. IsFiniteSet(M[p] \ {i})
      BY <1>2, FS_RemoveElement
    <2> QED BY <1>5, <2>2, <2>3, LinkedRuns
  <1>11. r.heads[p] = Null => r.tails[p] = Null
    <2>1. CASE k = 0
      BY <1>8, <2>1
    <2>2. CASE k # 0
      <3>1. M[p] # {} => q.heads[p] # Null
        BY <1>2, ListEnds
      <3> QED BY <1>8, <2>2, <3>1
    <2> QED BY <2>1, <2>2
  <1>12. ASSUME NEW l \in Levels, l # p
         PROVE  Linked(M[l], r.heads[l], r.tails[l], r.next)
    <2>1. IsFiniteSet(M[l]) /\ Linked(M[l], q.heads[l], q.tails[l], q.next)
      BY ApartFinite DEF Holds
    <2>2. M[l] \subseteq Slots /\ M[l] \cap M[p] = {}
      BY <1>12 DEF Apart
    <2>3. \A x \in M[l] : r.next[x] = q.next[x]
      BY <1>6, <1>8, <2>2
    <2>4. Linked(M[l], q.heads[l], q.tails[l], r.next)
      BY <2>1, <2>3, ListKept
    <2> QED BY <1>8, <1>12, <2>4
  <1>13. /\ R[p] = M[p] \ {i}
         /\ \A l \in Levels : l # p => R[l] = M[l]
    BY DEF Apart, R
  <1>14. \A l \in Levels : /\ Linked(R[l], r.heads[l], r.tails[l], r.next)
                           /\ r.heads[l] = Null => r.tails[l] = Null
    <2> SUFFICES ASSUME NEW l \in Levels
                 PROVE  /\ Linked(R[l], r.heads[l], r.tails[l], r.next)
                        /\ r.heads[l] = Null => r.tails[l] = Null
      OBVIOUS
    <2>1. CASE l = p
      BY <1>10, <1>11, <1>13, <2>1
    <2>2. CASE l # p
      BY <1>8, <1>12, <1>13, <2>2 DEF Holds
    <2> QED BY <2>1, <2>2
  <1>15. Holds(r, R)
    BY <1>7, <1>14 DEF Holds
  <1> QED BY <1>15 DEF r, R
-----------------------------------------------------------------------------
(* What a turn of the loop does to states and priorities.                  *)

\* A step of t that creates no task.
Alone(t) ==
  /\ gen' = gen
  /\ state'[t] \notin {"INVALID", "KILLED"}
  /\ state'[t] = "EXITED" => "exit" \in Ops[t]
  /\ priority'[t] \in {priority[t]} \cup {p \in PriorityArgs : p < MaxPriority}
  /\ \A i \in Slots \ {t} :
       /\ priority'[i] = priority[i]
       /\ state'[i] = state[i] \/ (~isTdAvailable(i) /\ ~isTdAvailable(i)')

Creates(t, n, p) ==
  /\ n \in Slots \ {t} /\ isTdAvailable(n) /\ gen[n] < GenLimit[n]
  /\ gen' = [gen EXCEPT ![n] = newGeneration(n)]
  /\ priority' = [priority EXCEPT ![n] = p]
  /\ state' = [state EXCEPT ![n] = "RUNNING", ![t] = "RUNNING"]

\* A step that changes the state of t, and the state of one live task besides.
LEMMA TwoAlone ==
  ASSUME TypeOK, NEW t \in Slots, NEW w \in Slots, ~isTdAvailable(w),
         state'[w] \in {"RUNNING", "RPLY_BLK"},
         state'[t] \in {"RUNNING", "RPLY_BLK", "HWINT"},
         \A i \in Slots \ {t, w} : state'[i] = state[i],
         UNCHANGED <<gen, priority>>
  PROVE  Alone(t)
  <1>1. ~isTdAvailable(w)'
    BY DEF isTdAvailable
  <1> QED BY <1>1 DEF Alone

LEMMA OneAlone ==
  ASSUME TypeOK, NEW t \in Slots,
         state'[t] \notin {"INVALID", "KILLED"},
         state'[t] = "EXITED" => "exit" \in Ops[t],
         \A i \in Slots \ {t} : state'[i] = state[i], gen' = gen,
         \/ priority' = priority
         \/ \E p \in PriorityArgs :
              p < MaxPriority /\ priority' = [priority EXCEPT ![t] = p]
  PROVE  Alone(t)
  <1>1. /\ priority'[t] \in {priority[t]} \cup {p \in PriorityArgs : p < MaxPriority}
        /\ \A i \in Slots \ {t} : priority'[i] = priority[i]
    BY DEF TypeOK
  <1> QED BY <1>1 DEF Alone

LEMMA ReturnAlone ==
  ASSUME TypeOK, NEW t \in Slots, NEW r, Return(t, r),
         priority' = priority \/ \E p \in PriorityArgs :
                                   p < MaxPriority /\ priority' = [priority EXCEPT ![t] = p]
  PROVE  Alone(t)
  <1>1. /\ state'[t] = "RUNNING" /\ gen' = gen
        /\ \A i \in Slots \ {t} : state'[i] = state[i]
    BY DEF Return, TypeOK
  <1> QED BY <1>1, OneAlone

LEMMA CreateInCreates ==
  ASSUME TypeOK, NEW t \in Slots, current = t, NEW R \in SUBSET Slots, NEW p,
         CreateIn(t, R, p)
  PROVE  Alone(t) \/ \E n \in Slots : Creates(t, n, p)
  <1>1. ASSUME NEW code, CreateFails(t, code)
        PROVE  Alone(t)
    <2>1. /\ state'[t] = "SYSCALL_BLK" /\ UNCHANGED <<gen, priority>>
          /\ \A i \in Slots \ {t} : state'[i] = state[i]
      BY <1>1 DEF CreateFails, TypeOK
    <2> QED BY <2>1, OneAlone
  <1>2. ASSUME NEW n \in R, FirstFree(n, R), createTask(t, n, p)
        PROVE  Creates(t, n, p)
    <2>1. n # t
      BY <1>2, SlotFacts DEF FirstFree, isTdAvailable, isTaskReady, TypeOK
    <2> QED BY <1>2, <2>1 DEF FirstFree, createTask, Creates
  <1> QED BY <1>1, <1>2 DEF CreateIn

LEMMA TurnEffect ==
  ASSUME QueueInv, NEW t \in Slots, Syscall(t) \/ Interrupt(t)
  PROVE  /\ current = t /\ current' = Nobody
         /\ Alone(t) \/ \E n \in Slots, p \in {priority[t]} \cup PriorityArgs :
                          Creates(t, n, p)
  <1>0. TypeOK
    BY DEF QueueInv
  <1>1. current = t /\ current' = Nobody
    BY UserStepConsiderate DEF Considerate
  <1> SUFFICES Alone(t) \/ \E n \in Slots, p \in {priority[t]} \cup PriorityArgs :
                            Creates(t, n, p)
    BY <1>1
  <1>2. state[t] \in {"RUNNING", "HWINT"}
    BY <1>0, <1>1, SlotFacts DEF TypeOK, isTaskReady
  <1>3. CASE \/ Yield(t) \/ SendRefused(t) \/ ReceiveNothing(t)
             \/ ReplyRefused(t) \/ AwaitEventRefused(t)
    BY <1>0, <1>3, ReturnAlone
    DEF Yield, SendRefused, ReceiveNothing, ReplyRefused, AwaitEventRefused
  <1>4. CASE ChangePriority(t)
    BY <1>0, <1>4, ReturnAlone DEF ChangePriority
  <1>5. CASE Exit(t)
    <2>1. /\ state'[t] = "EXITED" /\ UNCHANGED <<gen, priority>> /\ "exit" \in Ops[t]
          /\ \A i \in Slots \ {t} : state'[i] = state[i]
      BY <1>0, <1>5 DEF Exit, Leave, Trap, TypeOK
    <2> QED BY <1>0, <2>1, OneAlone
  <1>6. CASE Preempt(t)
    <2>1. /\ state'[t] = "HWINT" /\ UNCHANGED <<gen, priority>>
          /\ \A i \in Slots \ {t} : state'[i] = state[i]
      BY <1>0, <1>6 DEF Preempt, TypeOK
    <2> QED BY <1>0, <2>1, OneAlone
  <1>7. CASE SendQueued(t) \/ ReceiveBlocks(t) \/ AwaitEvent(t)
    <2>1. /\ state'[t] \in {"RCVD_BLK", "SEND_BLK", "EVT_BLK"}
          /\ UNCHANGED <<gen, priority>>
          /\ \A i \in Slots \ {t} : state'[i] = state[i]
      BY <1>0, <1>7 DEF SendQueued, ReceiveBlocks, AwaitEvent, TypeOK
    <2> QED BY <1>0, <2>1, OneAlone
  <1>8. ASSUME NEW op, ReceiveRefused(t, op)
        PROVE  Alone(t)
    <2>1. /\ state'[t] = "SYSCALL_BLK" /\ UNCHANGED <<gen, priority>>
          /\ \A i \in Slots \ {t} : state'[i] = state[i]
      BY <1>0, <1>8 DEF ReceiveRefused, TypeOK
    <2> QED BY <1>0, <2>1, OneAlone
  <1>9. CASE SendDirect(t)
    <2>1. PICK id \in KnownTids, len \in Lens, rlen \in Lens \ {0} :
            SendDirect(t)!2!(id, len, rlen)
      BY <1>9 DEF SendDirect
    <2>2. PICK r \in Slots : r = findTd(id) /\ state[r] = "SEND_BLK"
      BY <1>0, <2>1, TidFacts
    <2>3. state' = [state EXCEPT ![r] = "RUNNING", ![t] = "RPLY_BLK"]
      BY <2>1, <2>2
    <2>4. r # t /\ ~isTdAvailable(r) /\ UNCHANGED <<gen, priority>>
      BY <1>2, <1>9, <2>2 DEF SendDirect, isTdAvailable
    <2>5. /\ state'[r] = "RUNNING" /\ state'[t] = "RPLY_BLK"
          /\ \A i \in Slots \ {t, r} : state'[i] = state[i]
      BY <1>0, <2>3, <2>4 DEF TypeOK
    <2> QED BY <1>0, <2>4, <2>5, TwoAlone
  <1>10. ASSUME NEW op, ReceiveQueued(t, op)
         PROVE  Alone(t)
    <2>1. PICK s \in Slots : s = sendQueueHead[t] /\ state[s] = "RCVD_BLK"
      BY <1>10, Finite, ListEnds
      DEF ReceiveQueued, QueueInv, SendQueueOK, Senders, IsSender
    <2>2. state' = [state EXCEPT ![s] = "RPLY_BLK", ![t] = "RUNNING"]
      BY <1>10, <2>1 DEF ReceiveQueued
    <2>3. s # t /\ ~isTdAvailable(s) /\ UNCHANGED <<gen, priority>>
      BY <1>2, <1>10, <2>1 DEF ReceiveQueued, isTdAvailable
    <2>4. /\ state'[s] = "RPLY_BLK" /\ state'[t] = "RUNNING"
          /\ \A i \in Slots \ {t, s} : state'[i] = state[i]
      BY <1>0, <2>2, <2>3 DEF TypeOK
    <2> QED BY <1>0, <2>3, <2>4, TwoAlone
  <1>11. CASE ReplyDelivers(t)
    <2>1. PICK id \in KnownTids, len \in Lens : ReplyDelivers(t)!2!(id, len)
      BY <1>11 DEF ReplyDelivers
    <2>2. PICK s \in Slots : s = findTd(id) /\ state[s] = "RPLY_BLK"
      BY <1>0, <2>1, TidFacts DEF AwaitsReply
    <2>3. state' = [state EXCEPT ![s] = "RUNNING", ![t] = "RUNNING"]
      BY <2>1, <2>2
    <2>4. s # t /\ ~isTdAvailable(s) /\ UNCHANGED <<gen, priority>>
      BY <1>2, <1>11, <2>2 DEF ReplyDelivers, isTdAvailable
    <2>5. /\ state'[s] = "RUNNING" /\ state'[t] = "RUNNING"
          /\ \A i \in Slots \ {t, s} : state'[i] = state[i]
      BY <1>0, <2>3, <2>4 DEF TypeOK
    <2> QED BY <1>0, <2>4, <2>5, TwoAlone
  <1>12. ASSUME NEW e \in Devices, DeviceInterrupt(t, e)
         PROVE  Alone(t)
    <2>1. PICK w \in Slots : /\ w = findTd(waitingTid[eventQueueHead[e]])
                             /\ state[w] = "EVT_BLK"
      BY <1>12, KernelAssumption, WokenTaskWaits
      DEF KernelAssumption, DeviceInterrupt, IsWaiting
    <2>2. w # t /\ ~isTdAvailable(w)
      BY <1>2, <2>1 DEF isTdAvailable
    <2>3. state' = [state EXCEPT ![t] = "HWINT", ![w] = "RUNNING"]
      BY <1>12, <2>1 DEF DeviceInterrupt
    <2>4. /\ state'[w] = "RUNNING" /\ state'[t] = "HWINT"
          /\ \A i \in Slots \ {t, w} : state'[i] = state[i]
      BY <1>0, <2>2, <2>3 DEF TypeOK
    <2>5. UNCHANGED <<gen, priority>>
      BY <1>12 DEF DeviceInterrupt
    <2> QED BY <1>0, <2>2, <2>4, <2>5, TwoAlone
  <1>13. CASE Create(t)
    <2>1. PICK p \in PriorityArgs : CreateIn(t, Regular, p)
      BY <1>13 DEF Create
    <2> QED BY <1>0, <1>1, <2>1, SlotFacts, CreateInCreates
  <1>14. CASE CreateMicroTask(t)
    <2>1. CreateIn(t, Micro, priority[t])
      BY <1>14 DEF CreateMicroTask
    <2> QED BY <1>0, <1>1, <2>1, SlotFacts, CreateInCreates
  <1> QED
    BY <1>1, <1>3, <1>4, <1>5, <1>6, <1>7, <1>8, <1>9, <1>10, <1>11, <1>12,
       <1>13, <1>14
    DEF Syscall, Interrupt
-----------------------------------------------------------------------------
(* The invariant.                                                          *)

Present(i) == state[i] \notin {"INVALID", "KILLED"}

\* A task that exits is put back once more and stays; one that is killed is not.
Lists == [p \in Levels |-> {i \in Slots : Present(i) /\ i # current /\ priority[i] = p}]

ReadyInv ==
  /\ QueueInv
  /\ \A i \in Slots : state[i] = "EXITED" => "exit" \in Ops[i] /\ gen[i] > 0
  /\ priority \in [Slots -> Levels]
  /\ Holds(ready, Lists)

LEMMA ListsApart == Apart(Lists)
BY DEF Apart, Lists

LEMMA LevelsAre ==
  ASSUME PrioritiesExist
  PROVE  /\ 0 \in Levels
         /\ PriorityArgs \subseteq Levels
BY KernelAssumption DEF KernelAssumption, Levels, PrioritiesExist

\* The turn of a task that creates none.
LEMMA AloneKeeps ==
  ASSUME ReadyInv, PrioritiesExist, NEW t \in Slots, current = t, current' = Nobody,
         Alone(t), QueueInv', BackInList(t)
  PROVE  ReadyInv'
  <1> USE DEF ReadyInv
  <1>1. priority' \in [Slots -> Levels]
    <2>1. priority'[t] \in Levels /\ \A i \in Slots \ {t} : priority'[i] = priority[i]
      BY LevelsAre DEF Alone
    <2>2. priority' \in [Slots -> Nat]
      BY DEF QueueInv, TypeOK
    <2> QED BY <2>1, <2>2
  <1>2. \A i \in Slots : state'[i] = "EXITED" => "exit" \in Ops[i] /\ gen'[i] > 0
    <2> SUFFICES ASSUME NEW i \in Slots, state'[i] = "EXITED"
                 PROVE  "exit" \in Ops[i] /\ gen[i] > 0
      BY DEF Alone
    <2>1. CASE i = t
      <3>1. gen[t] > 0
        <4>1. ~isTdAvailable(t)
          BY SlotFacts DEF QueueInv, TypeOK, isTaskReady, isTdAvailable
        <4> QED BY <4>1 DEF QueueInv, IdentifiersOK
      <3> QED BY <2>1, <3>1 DEF Alone
    <2>2. CASE i # t
      <3>1. isTdAvailable(i)'
        BY DEF isTdAvailable
      <3>2. state'[i] = state[i]
        BY <2>2, <3>1 DEF Alone
      <3> QED BY <3>2
    <2> QED BY <2>1, <2>2
  <1>3. ready' = RQ!schedulerAdd(ready, t, priority'[t])
    <2>1. Created = {}
      BY DEF Created, Alone
    <2> QED BY <2>1 DEF BackInList
  <1>4. Lists' = [Lists EXCEPT ![priority'[t]] = @ \cup {t}]
    <2>1. \A i \in Slots : i # t =>
            (Present(i)' <=> Present(i)) /\ priority'[i] = priority[i]
      BY DEF Alone, Present, isTdAvailable
    <2>2. Present(t)' /\ t # current' /\ \A i \in Slots : i # current'
      BY SlotFacts DEF Alone, Present
    <2>3. ASSUME NEW p \in Levels
          PROVE  Lists'[p] = IF p = priority'[t] THEN Lists[p] \cup {t} ELSE Lists[p]
      BY <2>1, <2>2 DEF Lists
    <2>4. /\ Lists' = [p \in Levels |-> Lists'[p]]
          /\ Lists = [p \in Levels |-> Lists[p]]
      BY DEF Lists
    <2> HIDE DEF ReadyInv
    <2> QED BY <1>1, <2>3, <2>4
  <1>5. \A p \in Levels : t \notin Lists[p]
    BY DEF Lists
  <1>6. Holds(ready', Lists')
    BY <1>1, <1>3, <1>4, <1>5, ListsApart, AddHolds
  <1> QED BY <1>1, <1>2, <1>6 DEF Holds

\* The turn of a task that creates one: the slot of the new task is in no list,
\* for its last task did not exit.
LEMMA CreatesKeeps ==
  ASSUME ReadyInv, SlotsRetired, PrioritiesExist,
         NEW t \in Slots, current = t, current' = Nobody,
         NEW n \in Slots, NEW p \in Levels, Creates(t, n, p), QueueInv', BackInList(t)
  PROVE  ReadyInv'
  <1> USE DEF ReadyInv
  <1>1. n # t /\ Created = {n} /\ priority'[n] = p /\ priority'[t] = priority[t]
    <2>1. \A i \in Slots : gen[i] \in Nat
      BY DEF QueueInv, TypeOK
    <2>2. \A i \in Slots : gen'[i] # gen[i] <=> i = n
      BY <2>1 DEF Creates, newGeneration, QueueInv, TypeOK
    <2> QED BY <2>2 DEF Created, Creates
  <1>2. priority' \in [Slots -> Levels] /\ priority[t] \in Levels
    BY DEF Creates
  <1>3. ~Present(n)
    <2>1. gen[n] \in Nat /\ GenLimit[n] \in Nat /\ gen[n] < GenLimit[n]
      BY KernelAssumption DEF KernelAssumption, Creates, QueueInv, TypeOK
    <2>2. state[n] # "EXITED"
      BY <2>1 DEF SlotsRetired
    <2> QED BY <2>2 DEF Creates, isTdAvailable, Present
  <1>4. \A i \in Slots : state'[i] = "EXITED" => "exit" \in Ops[i] /\ gen'[i] > 0
    <2>1. \A i \in Slots : state'[i] = "EXITED" => state[i] = "EXITED" /\ i # n
      BY DEF Creates, QueueInv, TypeOK
    <2>2. \A i \in Slots \ {n} : gen'[i] = gen[i]
      BY DEF Creates, QueueInv, TypeOK
    <2> QED BY <2>1, <2>2
  <1>5. PICK q : q = RQ!schedulerAdd(ready, n, p)
    OBVIOUS
  <1>6. ready' = RQ!schedulerAdd(q, t, priority[t])
    <2>1. (CHOOSE x \in Created : TRUE) = n
      BY <1>1
    <2> QED BY <1>1, <1>5, <2>1 DEF BackInList
  <1>7. PICK M : M = [Lists EXCEPT ![p] = @ \cup {n}]
    OBVIOUS
  <1>8. \A l \in Levels : n \notin Lists[l] /\ t \notin Lists[l]
    BY <1>3 DEF Lists
  <1>9. Holds(q, M)
    BY <1>5, <1>7, <1>8, ListsApart, AddHolds
  <1>10. \A l \in Levels : M[l] = IF l = p THEN Lists[l] \cup {n} ELSE Lists[l]
    BY <1>7 DEF Lists
  <1>11. M = [l \in Levels |-> M[l]]
    BY <1>7 DEF Lists
  <1>12. Apart(M)
    <2>1. \A l \in Levels : M[l] \subseteq Slots
      BY <1>10 DEF Lists
    <2>2. \A l, k \in Levels : l # k => M[l] \cap M[k] = {}
      <3>1. \A l, k \in Levels : l # k => Lists[l] \cap Lists[k] = {}
        BY ListsApart DEF Apart
      <3> QED BY <1>8, <1>10, <3>1
    <2> QED BY <1>11, <2>1, <2>2 DEF Apart
  <1>13. Lists' = [M EXCEPT ![priority[t]] = @ \cup {t}]
    <2>1. \A i \in Slots : i # t /\ i # n =>
            (Present(i)' <=> Present(i)) /\ priority'[i] = priority[i]
      BY DEF Creates, Present, QueueInv, TypeOK
    <2>2. /\ Present(t)' /\ Present(n)' /\ \A i \in Slots : i # current'
      BY <1>1, SlotFacts DEF Creates, Present, QueueInv, TypeOK
    <2>3. ASSUME NEW l \in Levels
          PROVE  Lists'[l] = IF l = priority[t] THEN M[l] \cup {t} ELSE M[l]
      <3>1. \A i \in Slots : i \in Lists'[l] <=> Present(i)' /\ priority'[i] = l
        BY <2>2 DEF Lists
      <3>2. \A i \in Slots : i \in Lists[l] <=> Present(i) /\ i # t /\ priority[i] = l
        BY DEF Lists
      <3>3. Lists'[l] \subseteq Slots /\ Lists[l] \subseteq Slots
        BY DEF Lists
      <3>4. \A i \in Slots : i \in Lists'[l] <=>
              \/ i = t /\ priority[t] = l
              \/ i = n /\ p = l
              \/ i \in Lists[l]
        BY <1>1, <1>3, <2>1, <2>2, <3>1, <3>2
      <3> QED BY <1>10, <3>3, <3>4
    <2>4. Lists' = [l \in Levels |-> Lists'[l]]
      BY DEF Lists
    <2> HIDE DEF ReadyInv
    <2> QED BY <1>11, <2>3, <2>4
  <1>14. \A l \in Levels : t \notin M[l]
    BY <1>1, <1>8, <1>10
  <1>15. Holds(ready', Lists')
    BY <1>2, <1>6, <1>9, <1>12, <1>13, <1>14, AddHolds
  <1> QED BY <1>2, <1>4, <1>15 DEF Holds
\* What schedule() finds: the first ready task of the list of level p, and none
\* in the lists that are more urgent.
LEMMA ScheduleFinds ==
  ASSUME ReadyInv, NEW t \in Slots, NEW p \in Levels, NEW Ready, NEW q,
         Ready \subseteq Slots, RQ!Schedules(ready, p, t, Ready, q)
  PROVE  /\ t \in Ready /\ t \in Lists[p]
         /\ \E k \in Slots : t = RQ!Walk(ready, p)[k] /\ q = RQ!Unlink(ready, p, k)
         /\ \A l \in Levels : l < p => Lists[l] \cap Ready = {}
  <1>1. PICK k : k = RQ!FirstReady(ready, p, Ready)
    OBVIOUS
  <1>2. k \in Slots /\ RQ!Walk(ready, p)[k] \in Ready
    <2>1. RQ!Places(ready, p, Ready) # {} /\ RQ!Places(ready, p, Ready) \subseteq Nat
      BY SlotFacts DEF RQ!Schedules, RQ!Places
    <2>2. \E x \in RQ!Places(ready, p, Ready) :
            \A j \in RQ!Places(ready, p, Ready) : x <= j
      BY <2>1, LeastMember
    <2>3. k \in RQ!Places(ready, p, Ready)
      BY <1>1, <2>2 DEF RQ!FirstReady
    <2> QED BY <2>3 DEF RQ!Places
  <1>3. t = RQ!Walk(ready, p)[k] /\ q = RQ!Unlink(ready, p, k)
    BY <1>1 DEF RQ!Schedules
  <1>4. \A l \in Levels : RQ!Listed(ready, l) = Lists[l]
    <2> SUFFICES ASSUME NEW l \in Levels PROVE RQ!Listed(ready, l) = Lists[l]
      OBVIOUS
    <2>1. PICK S \in SUBSET Slots : S = Lists[l]
      BY DEF Lists
    <2>2. Linked(S, ready.heads[l], ready.tails[l], ready.next)
      BY <2>1 DEF ReadyInv, Holds
    <2> QED BY <2>1, <2>2, WalkMeets
  <1>5. t \in Lists[p]
    BY <1>2, <1>3, <1>4, SlotFacts DEF RQ!Listed
  <1>6. ASSUME NEW l \in Levels, l < p
        PROVE  Lists[l] \cap Ready = {}
    <2>1. RQ!Places(ready, l, Ready) = {}
      BY <1>6 DEF RQ!Schedules, RQ!StopsAt
    <2> QED BY <1>4, <2>1 DEF RQ!Places, RQ!Listed
  <1> QED BY <1>2, <1>3, <1>5, <1>6

\* schedule() takes the task that will run out of its list.
LEMMA ScheduleKeeps ==
  ASSUME ReadyInv, NEW t \in Slots, Schedule(t), QueueInv'
  PROVE  ReadyInv'
  <1> USE DEF ReadyInv
  <1>1. /\ current = Nobody /\ current' = t
        /\ UNCHANGED <<state, gen, priority>>
    BY DEF Schedule, Dispatch
  <1>2. PICK p \in Levels :
          RQ!Schedules(ready, p, t, {i \in Slots : isTaskReady(i)}, ready')
    BY DEF Schedule
  <1>3. PICK Ready \in SUBSET Slots : Ready = {i \in Slots : isTaskReady(i)}
    OBVIOUS
  <1>4. /\ t \in Lists[p]
        /\ \E k \in Slots : t = RQ!Walk(ready, p)[k] /\ ready' = RQ!Unlink(ready, p, k)
    BY <1>2, <1>3, ScheduleFinds
  <1>5. PICK k \in Slots : t = RQ!Walk(ready, p)[k] /\ ready' = RQ!Unlink(ready, p, k)
    BY <1>4
  <1>6. Holds(ready', [Lists EXCEPT ![p] = @ \ {t}])
    BY <1>4, <1>5, ListsApart, UnlinkHolds
  <1>7. Lists' = [Lists EXCEPT ![p] = @ \ {t}]
    <2>1. \A i \in Slots : (Present(i)' <=> Present(i)) /\ i # current
      BY <1>1, SlotFacts DEF Present
    <2>2. priority[t] = p
      BY <1>4 DEF Lists
    <2>3. ASSUME NEW l \in Levels
          PROVE  Lists'[l] = IF l = p THEN Lists[l] \ {t} ELSE Lists[l]
      BY <1>1, <2>1, <2>2 DEF Lists
    <2>4. Lists' = [l \in Levels |-> Lists'[l]] /\ Lists = [l \in Levels |-> Lists[l]]
      BY DEF Lists
    <2> HIDE DEF ReadyInv
    <2> QED BY <2>3, <2>4
  <1>8. Holds(ready', Lists')
    BY <1>6, <1>7
  <1> QED BY <1>1, <1>8 DEF Holds

\* The killed task was running, so it is in no list.
LEMMA KillKeeps ==
  ASSUME ReadyInv, NEW t \in Slots, KillTask(t), QueueInv'
  PROVE  ReadyInv'
  <1> USE DEF ReadyInv
  <1>1. /\ current = t /\ current' = Nobody /\ state' = [state EXCEPT ![t] = "KILLED"]
        /\ UNCHANGED <<gen, priority, ready>>
    BY DEF KillTask, Overflow, Trap, Leave
  <1>2. state'[t] = "KILLED" /\ \A i \in Slots \ {t} : state'[i] = state[i]
    BY <1>1 DEF QueueInv, TypeOK
  <1>3. Lists' = Lists
    <2>1. \A i \in Slots :
            Present(i)' /\ i # current' <=> Present(i) /\ i # current
      BY <1>1, <1>2, SlotFacts DEF Present
    <2>2. \A p \in Levels : Lists'[p] = Lists[p]
      BY <1>1, <2>1 DEF Lists
    <2>3. Lists' = [l \in Levels |-> Lists'[l]] /\ Lists = [l \in Levels |-> Lists[l]]
      BY DEF Lists
    <2> HIDE DEF ReadyInv
    <2> QED BY <2>2, <2>3
  <1>4. Holds(ready', Lists')
    BY <1>1, <1>3 DEF Holds
  <1> QED BY <1>1, <1>2, <1>4 DEF Holds

LEMMA NextReadyInv ==
  ASSUME ReadyInv, SlotsRetired, PrioritiesExist, [PrjNext]_allVars
  PROVE  ReadyInv'
  <1>1. QueueInv'
    BY TurnIsKernelStep, NextQueueInv DEF ReadyInv
  <1>2. ASSUME NEW t \in Slots, RunKernel(t)
        PROVE  ReadyInv'
    <2>1. /\ current = t /\ current' = Nobody
          /\ Alone(t) \/ \E n \in Slots, p \in {priority[t]} \cup PriorityArgs :
                           Creates(t, n, p)
      BY <1>2, TurnEffect DEF RunKernel, ReadyInv
    <2>2. BackInList(t)
      BY <1>2 DEF RunKernel
    <2>3. CASE Alone(t)
      BY <1>1, <2>1, <2>2, <2>3, AloneKeeps
    <2>4. ASSUME NEW n \in Slots, NEW p \in {priority[t]} \cup PriorityArgs,
                 Creates(t, n, p)
          PROVE  ReadyInv'
      <3>1. p \in Levels
        BY LevelsAre DEF ReadyInv
      <3> QED BY <1>1, <2>1, <2>2, <2>4, <3>1, CreatesKeeps
    <2> QED BY <2>1, <2>3, <2>4
  <1>3. CASE UNCHANGED allVars
    <2>1. UNCHANGED <<current, state, gen, priority, ready>>
      BY <1>3 DEF allVars, vars
    <2>2. Lists' = Lists
      BY <2>1 DEF Lists, Present
    <2> QED BY <1>1, <2>1, <2>2 DEF ReadyInv, Holds
  <1> QED BY <1>1, <1>2, <1>3, ScheduleKeeps, KillKeeps DEF PrjNext

LEMMA InitReadyInv ==
  ASSUME PrioritiesExist, PrjInit
  PROVE  ReadyInv
  <1>1. QueueInv
    BY InitQueueInv DEF PrjInit
  <1>2. /\ \A i \in Slots : state[i] # "EXITED" /\ priority[i] = 0
        /\ \A i \in Slots : Present(i) <=> i = 0
        /\ \A i \in Slots : i # current
        /\ priority \in [Slots -> Levels]
    BY SlotFacts, LevelsAre DEF PrjInit, Init, Present
  <1>3. PICK M : M = [p \in Levels |-> {}]
    OBVIOUS
  <1>4. Apart(M) /\ \A p \in Levels : 0 \notin M[p]
    BY <1>3 DEF Apart
  <1>5. Holds(RQ!EmptyLists, M)
    <2>1. RQ!EmptyLists \in Structures
      BY DEF RQ!EmptyLists, Structures
    <2>2. \A p \in Levels : RQ!EmptyLists.heads[p] = Null /\ RQ!EmptyLists.tails[p] = Null
      BY DEF RQ!EmptyLists
    <2>3. \A p \in Levels : Linked(M[p], RQ!EmptyLists.heads[p],
                                   RQ!EmptyLists.tails[p], RQ!EmptyLists.next)
      BY <1>3, <2>2, ListEmpty
    <2> QED BY <2>1, <2>2, <2>3 DEF Holds
  <1>6. Holds(ready, [M EXCEPT ![0] = @ \cup {0}])
    BY <1>4, <1>5, SlotFacts, LevelsAre, AddHolds DEF PrjInit
  <1>7. Lists = [M EXCEPT ![0] = @ \cup {0}]
    <2>1. \A p \in Levels : Lists[p] = IF p = 0 THEN {0} ELSE {}
      BY <1>2, SlotFacts DEF Lists
    <2>2. Lists = [p \in Levels |-> Lists[p]]
      BY DEF Lists
    <2> QED BY <1>3, <2>1, <2>2
  <1> QED BY <1>1, <1>2, <1>6, <1>7 DEF ReadyInv

\* Each list holds the tasks of its level that are not running, whatever the
\* programs do, if no slot is reused after its task exited and every task is
\* created at a priority that has a list (schedule, schedulerAdd, rtos_main).
THEOREM ReadyListsCorrect ==
  ASSUME SlotsRetired, PrioritiesExist
  PROVE  PrjSpec => []ReadyInv
BY InitReadyInv, NextReadyInv, PTL DEF PrjSpec
-----------------------------------------------------------------------------
(* What the invariant gives.                                               *)

\* What a walk along a list meets is what the list should hold.
LEMMA ListsRight ==
  ASSUME ReadyInv, NEW p \in Levels
  PROVE  /\ RQ!Listed(ready, p) = Lists[p]
         /\ ~RQ!Loops(ready, p)
         /\ ready.tails[p] = Null <=> ready.heads[p] = Null
         /\ ready.tails[p] # Null => /\ ready.tails[p] \in Lists[p]
                                     /\ ready.next[ready.tails[p]] = Null
  <1>1. PICK S \in SUBSET Slots : S = Lists[p]
    BY DEF Lists
  <1>2. /\ Linked(S, ready.heads[p], ready.tails[p], ready.next)
        /\ ready.heads[p] = Null => ready.tails[p] = Null
    BY <1>1 DEF ReadyInv, Holds
  <1>3. /\ RQ!Listed(ready, p) = S /\ ~RQ!Loops(ready, p)
        /\ S # {} => ready.tails[p] \in S /\ ready.next[ready.tails[p]] = Null
    BY <1>2, WalkMeets
  <1>4. S = {} <=> ready.heads[p] = Null
    <2>1. IsFiniteSet(S) /\ Null \notin S
      BY <1>1, ListsApart, ApartFinite
    <2> QED BY <1>2, <2>1, ListEnds
  <1> QED BY <1>1, <1>2, <1>3, <1>4, SlotFacts

\* No list of the scheduler has a loop and each tail is the last node of its
\* list (scheduler.c), as long as no slot is reused after its task exited.
THEOREM ListsStayWellFormed ==
  ASSUME SlotsRetired, PrioritiesExist
  PROVE  PrjSpec => []ListsWellFormed
  <1>1. ReadyInv => ListsWellFormed
    BY ListsRight DEF ListsWellFormed
  <1> QED BY <1>1, ReadyListsCorrect, PTL

\* Every live task but the running one is in the list of its priority and in no
\* other, blocked or not.
THEOREM TasksStayListed ==
  ASSUME SlotsRetired, PrioritiesExist
  PROVE  PrjSpec => []LiveTasksListed
  <1>1. ReadyInv => LiveTasksListed
    <2> SUFFICES ASSUME ReadyInv, NEW t \in Slots, NEW p \in Levels, ~isTdAvailable(t)
                 PROVE  t \in RQ!Listed(ready, p) <=> t # current /\ p = priority[t]
      BY DEF LiveTasksListed
    <2>1. Present(t)
      BY DEF Present, isTdAvailable
    <2>2. t \in Lists[p] <=> t # current /\ p = priority[t]
      BY <2>1 DEF Lists
    <2> QED BY <2>2, ListsRight
  <1> QED BY <1>1, ReadyListsCorrect, PTL

\* The task that schedule() returns is one of the most urgent ready ones.
THEOREM UrgentTasksFirst ==
  ASSUME SlotsRetired, PrioritiesExist
  PROVE  PrjSpec => MostUrgentFirst
  <1>1. ASSUME ReadyInv, [PrjNext]_allVars, NEW t \in Slots, NEW u \in Slots,
               current # t, current' = t, isTaskReady(u)
        PROVE  priority[t] <= priority[u]
    <2>1. Schedule(t)
      <3>1. CASE UNCHANGED allVars
        BY <1>1, <3>1 DEF allVars, vars
      <3>2. ASSUME NEW i \in Slots, RunKernel(i)
            PROVE  FALSE
        BY <1>1, <3>2, TurnEffect, SlotFacts DEF RunKernel, ReadyInv
      <3>3. ASSUME NEW i \in Slots, KillTask(i)
            PROVE  FALSE
        BY <1>1, <3>3, SlotFacts DEF KillTask, Overflow, Trap
      <3>4. ASSUME NEW i \in Slots, Schedule(i)
            PROVE  i = t
        BY <1>1, <3>4 DEF Schedule, Dispatch
      <3> QED BY <1>1, <3>1, <3>2, <3>3, <3>4 DEF PrjNext
    <2>2. PICK p \in Levels :
            RQ!Schedules(ready, p, t, {i \in Slots : isTaskReady(i)}, ready')
      BY <2>1 DEF Schedule
    <2>3. PICK Ready \in SUBSET Slots : Ready = {i \in Slots : isTaskReady(i)}
      OBVIOUS
    <2>4. t \in Lists[p] /\ \A l \in Levels : l < p => Lists[l] \cap Ready = {}
      BY <1>1, <2>2, <2>3, ScheduleFinds
    <2>5. priority[t] = p /\ priority[u] \in Levels
      BY <1>1, <2>4 DEF Lists, ReadyInv
    <2>6. u \in Lists[priority[u]] /\ u \in Ready
      <3>1. current = Nobody
        BY <2>1 DEF Schedule, Dispatch
      <3>2. Present(u)
        BY <1>1 DEF Present, isTaskReady
      <3> QED BY <1>1, <2>3, <2>5, <3>1, <3>2, SlotFacts DEF Lists
    <2>7. ~(priority[u] < p)
      BY <2>4, <2>5, <2>6
    <2> QED BY <2>5, <2>7 DEF Levels
  <1>2. ReadyInv /\ [PrjNext]_allVars =>
          [\A t, u \in Slots : current # t /\ current' = t /\ isTaskReady(u)
             => priority[t] <= priority[u]]_allVars
    BY <1>1
  <1> QED BY <1>2, ReadyListsCorrect, PTL DEF PrjSpec, MostUrgentFirst

\* As the comment on schedule() says, it comes back with a task when one is
\* ready: what the run with a reused slot refutes holds when none is.
THEOREM ScheduleReturnsTask ==
  ASSUME SlotsRetired, PrioritiesExist
  PROVE  PrjSpec => []ScheduleFindsReady
  <1>1. ASSUME ReadyInv, current = Nobody,
               NEW Ready, Ready = {t \in Slots : isTaskReady(t)}, Ready # {}
        PROVE  \E p \in Levels : /\ RQ!StopsAt(ready, p, Ready)
                                 /\ RQ!Places(ready, p, Ready) # {}
    <2> DEFINE T == {priority[i] : i \in Ready}
    <2>1. T \subseteq Levels /\ T # {}
      BY <1>1 DEF ReadyInv
    <2>2. T \subseteq Nat
      BY <2>1 DEF Levels
    <2>3. PICK p \in T : \A l \in T : p <= l
      <3> HIDE DEF T
      <3> QED BY <2>1, <2>2, LeastMember
    <2>4. p \in Levels
      BY <2>1, <2>3
    <2>5. PICK i \in Ready : priority[i] = p
      BY <2>3
    <2>6. \A l \in Levels : RQ!Listed(ready, l) = Lists[l] /\ ~RQ!Loops(ready, l)
      BY <1>1, ListsRight
    <2>7. i \in Lists[p]
      BY <1>1, <2>4, <2>5, SlotFacts DEF Lists, Present, isTaskReady
    <2>8. RQ!Places(ready, p, Ready) # {}
      BY <2>4, <2>5, <2>6, <2>7 DEF RQ!Listed, RQ!Places
    <2>9. ASSUME NEW l \in Levels, l < p
          PROVE  RQ!Places(ready, l, Ready) = {}
      <3>1. \A j \in Ready : priority[j] # l
        <4>1. l \notin T
          <5>1. l \in Nat /\ p \in Nat /\ ~(p <= l)
            BY <2>4, <2>9 DEF Levels
          <5> HIDE DEF T
          <5> QED BY <2>3, <5>1
        <4> QED BY <4>1
      <3>2. Lists[l] \cap Ready = {}
        BY <3>1 DEF Lists
      <3>3. Ready \subseteq Slots
        BY <1>1
      <3> QED BY <2>6, <3>2, <3>3, SlotFacts DEF RQ!Listed, RQ!Places
    <2> QED BY <2>4, <2>6, <2>8, <2>9 DEF RQ!StopsAt
  <1>2. ReadyInv => ScheduleFindsReady
    BY <1>1 DEF ScheduleFindsReady
  <1> QED BY <1>2, ReadyListsCorrect, PTL


=============================================================================
