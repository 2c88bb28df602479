-------------------------- MODULE KernelRefinement --------------------------
(***************************************************************************)
(* The kernel implements BlockingCalls: read as the lists they link, the   *)
(* pointers of sys_send, sys_receive, pushEvent and popEvent are first-in  *)
(* first-out queues, and nothing but the promised steps happens to a task. *)
(***************************************************************************)
EXTENDS Kernel, Sequences

\* The elements of S that the chain of links from h goes through, in order.
\* A chain with a loop repeats its elements.
Chain(h, link, S) ==
  LET at[k \in 1 .. Cardinality(S) + 1] ==
        IF k = 1 THEN h ELSE IF at[k - 1] = Null THEN Null ELSE link[at[k - 1]]
      n == Cardinality({k \in DOMAIN at : at[k] # Null})
  IN  [k \in 1 .. n |-> at[k]]

Mail == [r \in Slots |-> Chain(sendQueueHead[r], sendQueueNext, Slots)]

Line == [e \in EventTypes |->
           LET queries == Chain(eventQueueHead[e], nextQuery, Queries)
           IN  [k \in DOMAIN queries |-> waitingTid[queries[k]][1]]]

Phase == [t \in Slots |->
  CASE state[t] \in {"INVALID", "EXITED", "KILLED"} -> "absent"
    [] state[t] \in {"RUNNING", "HWINT"} -> "ready"
    [] state[t] = "RCVD_BLK" ->
         IF findTd(call[t].tid) = Null THEN "orphaned" ELSE "sending"
    [] state[t] = "SEND_BLK" -> "receiving"
    [] state[t] = "RPLY_BLK" -> "awaitingReply"
    [] state[t] = "EVT_BLK" -> "awaitingEvent"
    [] state[t] = "SYSCALL_BLK" -> "stuck"]

\* returnValue means something once the task is ready.
Handed == [t \in Slots |-> IF state[t] = "RUNNING" THEN ret[t]
                                                   ELSE Only("PENDING")]

Promise == INSTANCE BlockingCalls
             WITH phase <- Phase, mail <- Mail, line <- Line,
                  request <- call, outcome <- Handed

\* Send, Receive, Reply, AwaitEvent, task creation and interrupts, as the code
\* does them with linked descriptors, do what BlockingCalls says and no more.
KeepsPromise == Promise!Spec
=============================================================================
