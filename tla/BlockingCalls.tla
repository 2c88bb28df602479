---------------------------- MODULE BlockingCalls ----------------------------
(***************************************************************************)
(* What the blocking calls of prjOS promise, without pointers, descriptors *)
(* or a running task: each task has a mailbox in which senders wait in the *)
(* order of their Sends, each event has a line of tasks that wait for it.  *)
(* Module KernelRefinement shows that Kernel implements this.              *)
(***************************************************************************)
EXTENDS Integers, FiniteSets, Sequences

CONSTANTS
  Slots,        \* where tasks live
  EventTypes,   \* the events a task can wait for
  NumEvents,    \* how many tasks can wait for events at the same time
  GenLimit,     \* bound: how many tasks slot i hosts, one after the other
  Lens          \* sizes of messages, replies and buffers

VARIABLES
  phase,     \* what the occupant of a slot is doing
  gen,       \* how many tasks the slot has hosted
  mail,      \* mail[r]: the tasks whose message to r is not yet received
  line,      \* line[e]: the tasks that wait for event e
  request,   \* the open request of a task: partner and sizes
  outcome    \* what its last call hands to a task that has not yet run

vars == <<phase, gen, mail, line, request, outcome>>

Phases == {"absent", "ready", "sending", "receiving", "awaitingReply",
           "awaitingEvent", "stuck", "orphaned"}

Idle    == [tid |-> <<0, 0>>, len |-> 0, rlen |-> 0]
Nothing == [code |-> "PENDING", tid |-> <<0, 0>>]
Told(c) == [code |-> c, tid |-> <<0, 0>>]
From(c, s) == [code |-> c, tid |-> <<s, gen[s]>>]

\* A task addressed by an identifier is the one that has it now.
Is(id, r) == id = <<r, gen[r]>> /\ gen[r] > 0

Waiting == {t \in Slots : phase[t] = "awaitingEvent"}

Init ==
  /\ phase = [i \in Slots |-> IF i = 0 THEN "ready" ELSE "absent"]
  /\ gen = [i \in Slots |-> IF i = 0 THEN 1 ELSE 0]
  /\ mail = [i \in Slots |-> <<>>]
  /\ line = [e \in EventTypes |-> <<>>]
  /\ request = [i \in Slots |-> Idle]
  /\ outcome = [i \in Slots |-> Nothing]
-----------------------------------------------------------------------------
\* The task goes on: its outcome, if it had one, has been handed over.
Collect(t) ==
  /\ phase[t] = "ready"
  /\ outcome' = [outcome EXCEPT ![t] = Nothing]
  /\ UNCHANGED <<phase, gen, mail, line, request>>

\* A call that is answered at once.  AwaitEvent is refused for want of space
\* only when NumEvents tasks are waiting, Receive only when nobody has sent.
Answer(t, c) ==
  /\ phase[t] = "ready" /\ outcome[t] = Nothing
  /\ c = "TOO_SMALL" => Cardinality(Waiting) = NumEvents
  /\ c = "NOSEND" => mail[t] = <<>>
  /\ outcome' = [outcome EXCEPT ![t] = Told(c)]
  /\ UNCHANGED <<phase, gen, mail, line, request>>

Answers == {"OK", "DNE", "NOTFOUND", "BAD_BUFFER", "NOSEND", "ERROR",
            "NOT_REPLY_BLOCKED", "BAD_EVENT_ID", "TOO_SMALL"}

Leave(t, p) ==
  /\ phase[t] = "ready" /\ outcome[t] = Nothing
  /\ phase' = [phase EXCEPT ![t] = p]
  /\ UNCHANGED <<gen, mail, line, request, outcome>>

\* A new task in slot n.  Whoever waits in the mailbox of the one before it is
\* never heard of again.
Start(t, n) ==
  /\ phase[t] = "ready" /\ outcome[t] = Nothing
  /\ phase[n] = "absent" /\ gen[n] < GenLimit[n]
  /\ gen' = [gen EXCEPT ![n] = @ + 1]
  /\ phase' = [i \in Slots |->
                 IF i = n THEN "ready"
                 ELSE IF \E k \in DOMAIN mail[n] : mail[n][k] = i
                      THEN "orphaned" ELSE phase[i]]
  /\ mail' = [mail EXCEPT ![n] = <<>>]
  /\ request' = [request EXCEPT ![n] = Idle]
  /\ outcome' = [outcome EXCEPT ![n] = Nothing,
                                ![t] = [code |-> "OK", tid |-> <<n, gen'[n]>>]]
  /\ UNCHANGED line
-----------------------------------------------------------------------------
\* The message of size n arrives whole or is reported as cut.
Arrives(n, cap, whole, cut) == IF n > cap THEN cut ELSE whole

Send(t, r, len, rlen) ==
  /\ phase[t] = "ready" /\ outcome[t] = Nothing
  /\ gen[r] > 0
  /\ LET req == [tid |-> <<r, gen[r]>>, len |-> len, rlen |-> rlen] IN
     \/ /\ phase[r] = "receiving"
        /\ phase' = [phase EXCEPT ![t] = "awaitingReply", ![r] = "ready"]
        /\ request' = [request EXCEPT ![t] = req, ![r] = Idle]
        /\ outcome' = [outcome EXCEPT
             ![r] = From(Arrives(len, request[r].len, "OK", "TOO_SMALL"), t)]
        /\ UNCHANGED mail
     \/ /\ phase[r] # "receiving"
        /\ phase' = [phase EXCEPT ![t] = "sending"]
        /\ request' = [request EXCEPT ![t] = req]
        /\ mail' = [mail EXCEPT ![r] = Append(@, t)]
        /\ UNCHANGED outcome
  /\ UNCHANGED <<gen, line>>

Receive(t, cap) ==
  /\ phase[t] = "ready" /\ outcome[t] = Nothing
  /\ \/ /\ mail[t] # <<>>
        /\ LET s == Head(mail[t]) IN
           /\ phase' = [phase EXCEPT ![s] = "awaitingReply"]
           /\ outcome' = [outcome EXCEPT
                ![t] = From(Arrives(request[s].len, cap, "OK", "TOO_SMALL"), s)]
        /\ mail' = [mail EXCEPT ![t] = Tail(@)]
        /\ UNCHANGED request
     \/ /\ mail[t] = <<>>
        /\ phase' = [phase EXCEPT ![t] = "receiving"]
        /\ request' = [request EXCEPT ![t] = [Idle EXCEPT !.len = cap]]
        /\ UNCHANGED <<mail, outcome>>
  /\ UNCHANGED <<gen, line>>

Reply(t, s, len) ==
  /\ phase[t] = "ready" /\ outcome[t] = Nothing
  /\ phase[s] = "awaitingReply"
  /\ phase' = [phase EXCEPT ![s] = "ready"]
  /\ outcome' = [outcome EXCEPT
       ![s] = Told(Arrives(len, request[s].rlen, "OK", "INCOMPLETE")),
       ![t] = Told(Arrives(len, request[s].rlen, "OK", "ERROR"))]
  /\ request' = [request EXCEPT ![s] = Idle]
  /\ UNCHANGED <<gen, mail, line>>

AwaitEvent(t, e) ==
  /\ phase[t] = "ready" /\ outcome[t] = Nothing
  /\ phase' = [phase EXCEPT ![t] = "awaitingEvent"]
  /\ line' = [line EXCEPT ![e] = Append(@, t)]
  /\ UNCHANGED <<gen, mail, request, outcome>>

EventHappens(e) ==
  /\ line[e] # <<>>
  /\ phase' = [phase EXCEPT ![Head(line[e])] = "ready"]
  /\ outcome' = [outcome EXCEPT ![Head(line[e])] = Told("VOLATILE")]
  /\ line' = [line EXCEPT ![e] = Tail(@)]
  /\ UNCHANGED <<gen, mail, request>>
-----------------------------------------------------------------------------
Next ==
  \/ \E t \in Slots :
       \/ Collect(t)
       \/ \E c \in Answers : Answer(t, c)
       \/ Leave(t, "absent") \/ Leave(t, "stuck")
       \/ \E n \in Slots : Start(t, n)
       \/ \E r \in Slots, len, rlen \in Lens : Send(t, r, len, rlen)
       \/ \E cap \in Lens : Receive(t, cap)
       \/ \E s \in Slots, len \in Lens : Reply(t, s, len)
       \/ \E e \in EventTypes : AwaitEvent(t, e)
  \/ \E e \in EventTypes : EventHappens(e)

Spec == Init /\ [][Next]_vars
=============================================================================
