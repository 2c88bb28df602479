----------------------------- MODULE ReadyQueue -----------------------------
(***************************************************************************)
(* scheduler.c: one singly linked list of tasks per priority, each task    *)
(* having one node.  A list structure is a record of                       *)
(*   heads, tails : a slot or Null for each priority (queueHeads, -Tails)  *)
(*   next         : a slot or Null for each slot     (allTasks[i].next)    *)
(* As in the code, a node does not know whether it is in a list.           *)
(***************************************************************************)
EXTENDS Integers

CONSTANTS Nodes,        \* the slots, 0 .. n - 1
          Levels,       \* the priorities, 0 being the most urgent one
          Nil           \* the null pointer

EmptyLists == [heads |-> [p \in Levels |-> Nil],
               tails |-> [p \in Levels |-> Nil],
               next  |-> [i \in Nodes |-> Nil]]

\* Broken variant: node i goes to the front.
schedulerAddFirst(q, i, p) ==
  [q EXCEPT !.next[i] = q.heads[p], !.heads[p] = i,
            !.tails[p] = IF q.tails[p] = Nil THEN i ELSE @]

\* Append node i to the list of level p; the old link of i is overwritten.
schedulerAdd(q, i, p) ==
  IF q.tails[p] = Nil
  THEN [q EXCEPT !.next[i] = Nil, !.heads[p] = i, !.tails[p] = i]
  ELSE [q EXCEPT !.next = [[@ EXCEPT ![i] = Nil] EXCEPT ![q.tails[p]] = i],
                 !.tails[p] = i]

\* The node that a walk along level p meets after k links.
Walk(q, p) ==
  LET at[k \in Nodes] ==
        IF k = 0 THEN q.heads[p]
        ELSE IF at[k - 1] = Nil THEN Nil ELSE q.next[at[k - 1]]
  IN  at

\* A list without an end goes on after as many nodes as there are.
Loops(q, p) ==
  \A k \in Nodes : Walk(q, p)[k] # Nil /\ q.next[Walk(q, p)[k]] # Nil

Listed(q, p) == {Walk(q, p)[k] : k \in Nodes} \ {Nil}

\* The place of the first ready node of level p.
Places(q, p, Ready)    == {k \in Nodes : Walk(q, p)[k] \in Ready}
FirstReady(q, p, Ready) ==
  CHOOSE k \in Places(q, p, Ready) : \A j \in Places(q, p, Ready) : k <= j

\* Broken variant: the levels are searched from the least urgent one.
StopsAtLeastUrgent(q, p, Ready) ==
  /\ Places(q, p, Ready) # {} \/ Loops(q, p)
  /\ \A l \in Levels : l > p => Places(q, l, Ready) = {} /\ ~Loops(q, l)

\* schedule() stops at level p: there it finds a ready node, or never returns.
StopsAt(q, p, Ready) ==
  /\ Places(q, p, Ready) # {} \/ Loops(q, p)
  /\ \A l \in Levels : l < p => Places(q, l, Ready) = {} /\ ~Loops(q, l)

\* Broken variant: the tail stays when the last node goes.
UnlinkKeepsTail(q, p, k) ==
  LET i == Walk(q, p)[k] IN
  IF k = 0 THEN [q EXCEPT !.heads[p] = q.next[i]]
           ELSE [q EXCEPT !.next[Walk(q, p)[k - 1]] = q.next[i]]

\* The lists after the k-th node of level p is taken out.
Unlink(q, p, k) ==
  LET i    == Walk(q, p)[k]
      rest == q.next[i]
  IN  IF k = 0
      THEN [q EXCEPT !.heads[p] = rest,
                     !.tails[p] = IF rest = Nil THEN Nil ELSE @]
      ELSE LET last == Walk(q, p)[k - 1] IN
           [q EXCEPT !.next[last] = rest,
                     !.tails[p] = IF rest = Nil THEN last ELSE @]

\* schedule() returns node i of level p, having unlinked it to give q2.
Schedules(q, p, i, Ready, q2) ==
  /\ StopsAt(q, p, Ready)
  /\ Places(q, p, Ready) # {}
  /\ i = Walk(q, p)[FirstReady(q, p, Ready)]
  /\ q2 = Unlink(q, p, FirstReady(q, p, Ready))
=============================================================================
