------------------------------- MODULE Registry -------------------------------
(***************************************************************************)
(* What prjRegisterAs and prjWhoIs promise: a map from names to tasks with *)
(* room for so many names, on which every call takes effect at one instant *)
(* between its start and its return.  A name that is too long is refused   *)
(* but costs a place.                                                      *)
(***************************************************************************)
EXTENDS Integers, FiniteSets

CONSTANTS Tasks, Names, LongNames, Room

VARIABLES
  owner,    \* the task that has each name
  lost,     \* the places that names too long have cost
  call      \* the open call of each task

registryVars == <<owner, lost, call>>

Nobody == -1
Answer(code, t) == [code |-> code, task |-> t]
Pending == Answer("PENDING", Nobody)
Unknown == Answer("UNKNOWN", Nobody)
NoCall == [op |-> "NONE", name |-> "", answer |-> Pending]

Known == {n \in Names : owner[n] # Nobody}
Full == Cardinality(Known) + lost = Room

Init ==
  /\ owner = [n \in Names |-> Nobody] /\ lost = 0
  /\ call = [t \in Tasks |-> NoCall]

Ask(t, op, n) ==
  /\ call[t] = NoCall
  /\ call' = [call EXCEPT ![t] = [op |-> op, name |-> n, answer |-> Pending]]
  /\ UNCHANGED <<owner, lost>>

TakesEffect(t, op, a) ==
  /\ call[t].op = op /\ call[t].answer = Pending
  /\ call' = [call EXCEPT ![t].answer = a]

Register(t, n) ==
  /\ call[t].name = n
  /\ \/ /\ TakesEffect(t, "REGISTER", Answer("OK", Nobody))
        /\ n \notin LongNames /\ (n \in Known \/ ~Full)
        /\ owner' = [owner EXCEPT ![n] = t] /\ UNCHANGED lost
     \/ /\ TakesEffect(t, "REGISTER", Answer("TOO_LONG", Nobody))
        /\ n \in LongNames /\ ~Full
        /\ lost' = lost + 1 /\ UNCHANGED owner
     \/ /\ TakesEffect(t, "REGISTER", Answer("NO_SPACE", Nobody))
        /\ Full /\ n \notin Known
        /\ UNCHANGED <<owner, lost>>

WhoIs(t, n) ==
  /\ call[t].name = n
  /\ TakesEffect(t, "WHOIS",
       IF n \in Known THEN Answer("IS", owner[n]) ELSE Unknown)
  /\ UNCHANGED <<owner, lost>>

Return(t) ==
  /\ call[t].answer # Pending
  /\ call' = [call EXCEPT ![t] = NoCall]
  /\ UNCHANGED <<owner, lost>>

Next ==
  \E t \in Tasks :
    \/ \E op \in {"REGISTER", "WHOIS"}, n \in Names : Ask(t, op, n)
    \/ \E n \in Names : Register(t, n) \/ WhoIs(t, n)
    \/ Return(t)

Spec == Init /\ [][Next]_registryVars
=============================================================================
