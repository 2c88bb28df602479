------------------------------ MODULE NameServer ------------------------------
(***************************************************************************)
(* The init task, the name server and the two library calls that ask it    *)
(* (init.c, nameserver.c, whois.c, registerAs.c, registerNameserver.c).    *)
(* The application, which is not in src/, is a set of clients: the first   *)
(* one is started by the init task and starts the others.                  *)
(***************************************************************************)
EXTENDS Programs

CONSTANTS
  Init0,          \* the slot of the init task
  Server,         \* the slot of the name server
  First,          \* the slot of the first task of the application
  Clients,        \* the slots of its tasks
  Names,          \* the names that are used
  LongNames,      \* those longer than NAMESERVER_MAX_NAME_LENGTH
  MaxNames,       \* NAMESERVER_MAX_NAMES
  Queries         \* Queries[c]: what task c may ask

Operations == {"INVALID", "REGISTER", "WHOIS", "EXIT"}
QueryLen == 40      \* sizeof(NameserverQuery)
PingLen == 1
NoName == ""        \* the name of an entry that was never written

ASSUME NameServerAssumption ==
  /\ {Init0, Server} \cup Clients \subseteq Slots /\ Slots \subseteq Nat
  /\ Init0 = 0 /\ Server # Init0 /\ Clients \cap {Init0, Server} = {}
  /\ First \in Clients
  /\ LongNames \subseteq Names /\ NoName \notin Names
  /\ MaxNames \in Nat
  /\ {QueryLen, PingLen} \subseteq Lens
  /\ Queries \in [Clients -> SUBSET [op : Operations, name : Names, size : Lens]]

Entries == 1 .. MaxNames
NoTid    == <<0, 0>>
MinusOne == <<-1, -1>>
Garbage  == <<-2, -2>>      \* what an uninitialised returnValue holds

VARIABLES
  nameserverTid,      \* of the kernel
  nameEntries,        \* of the server: identifiers and names
  sender, replyOperation, returnValue,    \* locals of the server
  query,              \* the query of the open call of each client
  reply               \* what is in its reply buffer

locals  == <<sender, replyOperation, returnValue>>
clients == <<query, reply>>
serverVars == <<calls, pc, nameserverTid, nameEntries, locals, clients>>

NoQuery == [op |-> "INVALID", name |-> NoName, size |-> PingLen]
NoReply == [op |-> "NONE", value |-> NoTid]
Gave(c, v) == [code |-> c, tid |-> v]

ServerInit ==
  /\ Init
  /\ pc = [t \in Slots |-> CASE t = Init0 -> "create" [] t = Server -> "start"
                             [] t = First -> "others" [] OTHER -> "idle"]
  /\ nameserverTid = NoTid
  /\ nameEntries = [i \in Entries |-> [tid |-> NoTid, name |-> NoName]]
  /\ sender = NoTid /\ replyOperation = "INVALID" /\ returnValue = Garbage
  /\ query = [c \in Clients |-> NoQuery]
  /\ reply = [c \in Clients |-> NoReply]

Plain == UNCHANGED <<nameserverTid, nameEntries, locals, clients>>

\* A task goes on after a call whose outcome it does not use.
Resume(t) == pc[t] \notin {"handle", "answered"} /\ Ignores(t) /\ Plain
-----------------------------------------------------------------------------
(* The init task waits until the server answers before it starts the       *)
(* application; then it only yields.                                       *)

\* Broken variant: it starts the application at once.
BootEagerly ==
  \/ At(Init0, "create", "send") /\ Start(Init0, Server) /\ Plain
  \/ At(Init0, "send", "first") /\ Start(Init0, First) /\ Plain
  \/ At(Init0, "first", "idle") /\ Send(Init0, Server, PingLen, PingLen) /\ Plain

BootStep ==
  \/ At(Init0, "create", "send") /\ Start(Init0, Server) /\ Plain
  \/ At(Init0, "send", "first") /\ Send(Init0, Server, PingLen, PingLen) /\ Plain
  \/ At(Init0, "first", "idle") /\ Start(Init0, First) /\ Plain

Unborn == {c \in Clients : gen[c] = 0}

FirstTask ==
  \/ \E c \in Unborn :
       At(First, "others", "others") /\ Start(First, c) /\ Plain
  \/ /\ Unborn = {} /\ outcome[First] = Nothing
     /\ At(First, "others", "idle") /\ UNCHANGED calls /\ Plain
-----------------------------------------------------------------------------
(* The server.                                                             *)

\* prjRegisterNameserver comes before the first Receive.
ServerStarts ==
  /\ At(Server, "start", "receive")
  /\ phase[Server] = "ready"
  /\ nameserverTid' = <<Server, gen[Server]>>
  /\ UNCHANGED <<calls, nameEntries, locals, clients>>

ReceiveQuery ==
  At(Server, "receive", "handle") /\ Receive(Server, QueryLen) /\ Plain

Sender == outcome[Server].tid

\* The size of what was received: the ping of the init task or a query.
Size(t) == IF t = Init0 THEN PingLen ELSE query[t].size

\* Any other message is echoed; it tells the sender that the server runs.
Ping ==
  /\ At(Server, "handle", "echo")
  /\ Returns(Server)
  /\ Size(Sender[1]) # QueryLen
  /\ sender' = Sender
  /\ UNCHANGED <<nameserverTid, nameEntries, replyOperation, returnValue, clients>>

\* Broken variant: the server forgets to reply.
EchoDropped ==
  /\ At(Server, "echo", "receive")
  /\ sender' = NoTid
  /\ UNCHANGED calls
  /\ UNCHANGED <<nameserverTid, nameEntries, replyOperation, returnValue, clients>>

Echo ==
  /\ At(Server, "echo", "receive")
  /\ Reply(Server, sender[1], Size(sender[1]))
  /\ sender' = NoTid
  /\ UNCHANGED <<nameserverTid, nameEntries, replyOperation, returnValue, clients>>

\* The server has a query with operation op from task s, which is not 0, and
\* goes to label l to reply with operation rop.
Handles(s, op, rop, l) ==
  /\ At(Server, "handle", l)
  /\ Returns(Server)
  /\ s = Sender[1] /\ Sender # NoTid
  /\ Size(s) = QueryLen /\ query[s].op = op
  /\ sender' = Sender /\ replyOperation' = rop
  /\ UNCHANGED <<nameserverTid, clients>>

\* No statement sets returnValue: it is what an earlier request left, or not.
ReturnsAnything == returnValue' \in {returnValue, Garbage}

Named(i, n) == nameEntries[i].name = n
Empty(i) == nameEntries[i].tid = NoTid

\* Broken variant: an empty entry goes before one that has the name.
StopsAtEmpty(i, n) ==
  \/ Empty(i) /\ \A j \in 1 .. (i - 1) : ~Empty(j)
  \/ Named(i, n) /\ \A j \in Entries : ~Empty(j)

\* The loop of REGISTER stops at the first entry that is empty or has the name.
StopsAt(i, n) ==
  /\ Empty(i) \/ Named(i, n)
  /\ \A j \in 1 .. (i - 1) : ~Empty(j) /\ ~Named(j, n)

RegisterNew(s) ==
  \E i \in Entries :
    /\ Handles(s, "REGISTER", "REGISTER", "reply")
    /\ StopsAt(i, query[s].name) /\ Empty(i)
    /\ query[s].name \notin LongNames
    /\ nameEntries' = [nameEntries EXCEPT
                         ![i] = [tid |-> Sender, name |-> query[s].name]]
    /\ ReturnsAnything

\* The entry is taken before the length of the name is looked at.
RegisterTooLong(s) ==
  \E i \in Entries :
    /\ Handles(s, "REGISTER", "TOO_LONG", "reply")
    /\ StopsAt(i, query[s].name) /\ Empty(i)
    /\ query[s].name \in LongNames
    /\ nameEntries' = [nameEntries EXCEPT ![i].tid = Sender]
    /\ ReturnsAnything

RegisterAgain(s) ==
  \E i \in Entries :
    /\ Handles(s, "REGISTER", "REGISTER", "reply")
    /\ StopsAt(i, query[s].name) /\ ~Empty(i)
    /\ nameEntries' = [nameEntries EXCEPT ![i].tid = Sender]
    /\ ReturnsAnything

RegisterNoSpace(s) ==
  /\ Handles(s, "REGISTER", "NO_SPACE", "reply")
  /\ \A i \in Entries : ~Empty(i) /\ ~Named(i, query[s].name)
  /\ ReturnsAnything
  /\ UNCHANGED nameEntries

WhoIsFound(s) ==
  \E i \in Entries :
    /\ Handles(s, "WHOIS", "WHOIS", "reply")
    /\ Named(i, query[s].name)
    /\ \A j \in 1 .. (i - 1) : ~Named(j, query[s].name)
    /\ returnValue' = nameEntries[i].tid
    /\ UNCHANGED nameEntries

\* Broken variant: an unknown name is answered with what an earlier one left.
WhoIsNotFoundStale(s) ==
  /\ Handles(s, "WHOIS", "WHOIS", "reply")
  /\ \A i \in Entries : ~Named(i, query[s].name)
  /\ UNCHANGED <<nameEntries, returnValue>>

WhoIsNotFound(s) ==
  /\ Handles(s, "WHOIS", "WHOIS", "reply")
  /\ \A i \in Entries : ~Named(i, query[s].name)
  /\ returnValue' = MinusOne
  /\ UNCHANGED nameEntries

Quit(s) ==
  Handles(s, "EXIT", "WHOIS", "lastReply") /\ ReturnsAnything /\ UNCHANGED nameEntries

\* Broken variant: no reply to an operation that does not exist.
InvalidDropped(s) ==
  Handles(s, "INVALID", "INVALID", "receive") /\ ReturnsAnything
  /\ UNCHANGED nameEntries

Invalid(s) ==
  Handles(s, "INVALID", "INVALID", "reply") /\ ReturnsAnything
  /\ UNCHANGED nameEntries

Handle ==
  \E s \in Clients :
    \/ RegisterNew(s) \/ RegisterTooLong(s) \/ RegisterAgain(s)
    \/ RegisterNoSpace(s) \/ WhoIsFound(s) \/ WhoIsNotFound(s)
    \/ Quit(s) \/ Invalid(s)

\* The reply carries the locals of the server.
Replies ==
  /\ At(Server, "reply", "receive") \/ At(Server, "lastReply", "exit")
  /\ Reply(Server, sender[1], QueryLen)
  /\ reply' = [reply EXCEPT
       ![sender[1]] = [op |-> replyOperation, value |-> returnValue]]
  /\ sender' = NoTid /\ replyOperation' = "INVALID"
  /\ UNCHANGED <<nameserverTid, nameEntries, returnValue, query>>

ServerExits == At(Server, "exit", "gone") /\ Leave(Server, "absent") /\ Plain

ServerStep ==
  \/ ServerStarts \/ ReceiveQuery \/ Ping \/ Echo \/ Handle \/ Replies
  \/ ServerExits
-----------------------------------------------------------------------------
(* prjWhoIs and prjRegisterAs; other queries are sent as they are.         *)

\* Both calls look the name server up first; without one they fail at once.
Locate(c) ==
  /\ At(c, "idle", "send")
  /\ phase[c] = "ready" /\ outcome[c] = Nothing
  /\ nameserverTid # NoTid
  /\ UNCHANGED calls /\ Plain

\* The two calls of the library; other queries have no result that counts.
IsCall(q) == q.op \in {"REGISTER", "WHOIS"} /\ q.size = QueryLen

SendQuery(c, q) ==
  /\ At(c, "send", "answered")
  /\ Send(c, nameserverTid[1], q.size, q.size)
  /\ query' = [query EXCEPT ![c] = q]
  /\ UNCHANGED <<nameserverTid, nameEntries, locals, reply>>

\* The name server's -1 is greater than 0, and is ERR_WHOIS_INVALID_TID.
WhoIsResult(r) ==
  IF r.op # "WHOIS" THEN Gave("ERROR", NoTid)
  ELSE IF r.value = MinusOne THEN Gave("INVALID_TID", NoTid)
  ELSE IF r.value = NoTid THEN Gave("NOT_FOUND", NoTid)
  ELSE Gave("OK", r.value)

RegisterAsResult(r) ==
  IF r.op \in {"TOO_LONG", "NO_SPACE"} THEN Gave(r.op, NoTid)
  ELSE IF r.op = "REGISTER" THEN Gave("OK", NoTid)
  ELSE Gave("ERROR", NoTid)

Result(q, r) == IF q.op = "WHOIS" THEN WhoIsResult(r) ELSE RegisterAsResult(r)

Answered(c) ==
  /\ At(c, "answered", "idle")
  /\ Returns(c)
  /\ query' = [query EXCEPT ![c] = NoQuery]
  /\ reply' = [reply EXCEPT ![c] = NoReply]
  /\ UNCHANGED <<nameserverTid, nameEntries, locals>>
-----------------------------------------------------------------------------
ServerNext ==
  \/ BootStep \/ FirstTask \/ ServerStep
  \/ \E t \in Slots : Resume(t)
  \/ \E c \in Clients :
       Locate(c) \/ (\E q \in Queries[c] : SendQuery(c, q)) \/ Answered(c)

\* A task that can go on does (priority 0, and the init task yields to all).
\* Clients need not ask.
ServerFairness ==
  /\ WF_serverVars(BootStep) /\ WF_serverVars(FirstTask)
  /\ WF_serverVars(ServerStep)
  /\ \A t \in Slots : WF_serverVars(Resume(t))
  /\ \A c \in Clients : WF_serverVars(Answered(c))

ServerSpec == ServerInit /\ [][ServerNext]_serverVars /\ ServerFairness
-----------------------------------------------------------------------------
\* No task of the application runs before the kernel knows the name server,
\* because the init task waits for the echo of its ping (init.c).
ServerKnown ==
  \A c \in Clients : gen[c] > 0 => nameserverTid = <<Server, gen[Server]>>

\* Some task is always ready, so that the kernel never looks for one with the
\* interrupts masked: rtos_main would call schedule() for ever.  It is the init
\* task once the server has answered its ping, and until then one of the two.
SomebodyReady == \E t \in Slots : phase[t] = "ready"

\* The entries in use come first, each name is in one of them, and a name too
\* long is in none (nameserver.c): the loops of REGISTER and WHOIS, which stop
\* at the first entry that fits, then find what a search of all would find.
RegistryOK ==
  /\ \A i, j \in Entries : i < j /\ ~Empty(j) => ~Empty(i)
  /\ \A i, j \in Entries :
       nameEntries[i].name = nameEntries[j].name => i = j \/ Named(i, NoName)
  /\ \A i \in Entries :
       (Empty(i) => Named(i, NoName)) /\ nameEntries[i].name \notin LongNames

\* How the registry looks from outside.
EntriesOf(n) == {i \in Entries : Named(i, n)}
Owner(n) == IF EntriesOf(n) = {} THEN -1
            ELSE nameEntries[CHOOSE i \in EntriesOf(n) : TRUE].tid[1]

\* What a result says; ERR_WHOIS_INVALID_TID and ERR_WHOIS_NOT_FOUND are both
\* read as an unknown name.
Says(r) ==
  [code |-> IF r.tid # NoTid THEN "IS"
            ELSE IF r.code \in {"INVALID_TID", "NOT_FOUND"} THEN "UNKNOWN"
            ELSE r.code,
   task |-> IF r.tid = NoTid THEN -1 ELSE r.tid[1]]

\* What the server has decided for client c, whether it has told it or not.
Decided(c) ==
  IF pc[Server] \in {"reply", "lastReply"} /\ sender[1] = c
  THEN [op |-> replyOperation, value |-> returnValue] ELSE reply[c]

Asking(c) == pc[c] = "answered" /\ IsCall(query[c])

CallOf(c) ==
  [op     |-> IF Asking(c) THEN query[c].op ELSE "NONE",
   name   |-> IF Asking(c) THEN query[c].name ELSE NoName,
   answer |-> Says(IF Asking(c) /\ Decided(c) # NoReply
                   THEN Result(query[c], Decided(c)) ELSE Gave("PENDING", NoTid))]

R == INSTANCE Registry WITH
  Tasks <- Clients, Room <- MaxNames,
  owner <- [n \in Names |-> Owner(n)],
  lost  <- Cardinality({i \in Entries : ~Empty(i) /\ Named(i, NoName)}),
  call  <- [c \in Clients |-> CallOf(c)]

\* The library calls and the server together are the atomic map of Registry:
\* whatever the order of the calls, each returns what was true of the registry
\* at one instant while it was open (nameserver.c, whois.c, registerAs.c).
KeepsRegistry == R!Spec

\* While the server runs every call returns: each kind of query, and each
\* failure, is answered (the paths of nameserverEntry).
CallsReturn ==
  \A c \in Clients :
    pc[c] = "answered" ~> pc[c] = "idle" \/ phase[Server] = "absent"
=============================================================================
