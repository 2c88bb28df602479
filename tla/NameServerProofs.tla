--------------------------- MODULE NameServerProofs ---------------------------
(***************************************************************************)
(* For any number of entries, clients and names: the registry of the name  *)
(* server is sound, its clients run when it is known, some task is always  *)
(* ready, and server and calls together implement Registry.                *)
(***************************************************************************)
EXTENDS NameServer, FiniteSetTheorems, TLAPS

\* The entries are records of an identifier and a name.
Shape ==
  /\ nameEntries = [i \in Entries |-> nameEntries[i]]
  /\ \A i \in Entries : nameEntries[i] =
       [tid |-> nameEntries[i].tid, name |-> nameEntries[i].name]

\* A message as long as a query names something.
QueriesOK ==
  /\ query \in [Clients -> [op : Operations, name : Names \cup {NoName}, size : Lens]]
  /\ \A c \in Clients : query[c].size = QueryLen => query[c].name \in Names

RegistryInv == Shape /\ QueriesOK /\ RegistryOK

LEMMA RegistryInit == ServerInit => RegistryInv
<1> SUFFICES ASSUME ServerInit PROVE RegistryInv
  OBVIOUS
<1>1. \A i \in Entries : nameEntries[i] = [tid |-> NoTid, name |-> NoName]
  BY DEF ServerInit
<1>2. Shape
  BY <1>1 DEF Shape, ServerInit
<1>3. QueriesOK
  BY NameServerAssumption DEF QueriesOK, ServerInit, NoQuery, Operations, QueryLen, PingLen
<1>4. RegistryOK
  BY <1>1, NameServerAssumption DEF RegistryOK, Empty, Named
<1> QED
  BY <1>2, <1>3, <1>4 DEF RegistryInv

\* What a step does that is neither a REGISTER nor the sending of a query.
LEMMA OtherSteps ==
  ASSUME RegistryInv, UNCHANGED nameEntries,
         QueriesOK'
  PROVE  RegistryInv'
BY DEF RegistryInv, Shape, RegistryOK, Empty, Named

\* An entry is given to an identifier and a name, or keeps its name.
LEMMA EntryTaken ==
  ASSUME RegistryInv, NEW i \in Entries, NEW id, NEW n,
         nameEntries' = [nameEntries EXCEPT ![i] = [tid |-> id, name |-> n]],
         UNCHANGED query
  PROVE  /\ Shape' /\ QueriesOK'
         /\ nameEntries'[i] = [tid |-> id, name |-> n]
         /\ \A j \in Entries : j # i => nameEntries'[j] = nameEntries[j]
BY DEF RegistryInv, Shape, QueriesOK

LEMMA RegisterNewKeeps ==
  ASSUME RegistryInv, NEW s \in Clients, RegisterNew(s)
  PROVE  RegistryInv'
<1> DEFINE n == query[s].name
<1>1. PICK i \in Entries :
        /\ Handles(s, "REGISTER", "REGISTER", "reply")
        /\ StopsAt(i, n) /\ Empty(i) /\ n \notin LongNames
        /\ nameEntries' = [nameEntries EXCEPT ![i] = [tid |-> Sender, name |-> n]]
  BY DEF RegisterNew
<1>2. n \in Names /\ n # NoName /\ Sender # NoTid /\ UNCHANGED query
  <2>1. Size(s) = QueryLen
    BY <1>1 DEF Handles
  <2>2. query[s].size = QueryLen
    BY <2>1, NameServerAssumption DEF Size, QueryLen, PingLen
  <2> QED
    BY <1>1, <2>2, NameServerAssumption DEF Handles, clients, RegistryInv, QueriesOK
<1>3. /\ Shape' /\ QueriesOK'
      /\ nameEntries'[i] = [tid |-> Sender, name |-> n]
      /\ \A j \in Entries : j # i => nameEntries'[j] = nameEntries[j]
  <2> HIDE DEF n
  <2> QED
    BY <1>1, <1>2, EntryTaken
<1>4. \A j \in Entries : j # i => ~Named(j, n)
  <2> SUFFICES ASSUME NEW j \in Entries, j # i PROVE ~Named(j, n)
    OBVIOUS
  <2>1. CASE j < i
    BY <1>1, <2>1, NameServerAssumption DEF StopsAt, Entries
  <2>2. CASE i < j
    <3>1. Empty(j)
      BY <1>1, <2>2 DEF RegistryInv, RegistryOK
    <3> QED
      BY <1>2, <3>1 DEF RegistryInv, RegistryOK, Named
  <2> QED
    BY <2>1, <2>2, NameServerAssumption DEF Entries
<1>5. \A j \in Entries : j < i => ~Empty(j)
  BY <1>1, NameServerAssumption DEF StopsAt, Entries
<1>6. RegistryOK'
  <2> HIDE DEF n
  <2>1. \A j, k \in Entries : j < k /\ ~Empty(k)' => ~Empty(j)'
    BY <1>1, <1>2, <1>3, <1>5, NameServerAssumption
    DEF RegistryInv, RegistryOK, Empty, Entries
  <2>2. \A j, k \in Entries :
          nameEntries'[j].name = nameEntries'[k].name => j = k \/ Named(j, NoName)'
    BY <1>3, <1>4 DEF RegistryInv, RegistryOK, Named
  <2>3. \A j \in Entries :
          (Empty(j)' => Named(j, NoName)') /\ nameEntries'[j].name \notin LongNames
    BY <1>1, <1>2, <1>3 DEF RegistryInv, RegistryOK, Empty, Named
  <2> QED
    BY <2>1, <2>2, <2>3 DEF RegistryOK, Entries
<1> QED
  BY <1>3, <1>6 DEF RegistryInv

\* To change the identifier of an entry is to write the entry with its name.
LEMMA OnlyTid ==
  ASSUME Shape, NEW i \in Entries, NEW id
  PROVE  [nameEntries EXCEPT ![i].tid = id] =
           [nameEntries EXCEPT ![i] = [tid |-> id, name |-> nameEntries[i].name]]
<1>1. PICK n : nameEntries[i] = [tid |-> nameEntries[i].tid, name |-> n]
  BY DEF Shape
<1>2. [nameEntries[i] EXCEPT !.tid = id] = [tid |-> id, name |-> n]
  BY <1>1
<1>3. nameEntries[i].name = n
  BY <1>1
<1> QED
  BY <1>2, <1>3

\* The identifier of an entry changes and nothing else.
LEMMA EntryGoesTo ==
  ASSUME RegistryInv, NEW i \in Entries, NEW id, id # NoTid,
         NEW n, n = nameEntries[i].name,
         nameEntries' = [nameEntries EXCEPT ![i] = [tid |-> id, name |-> n]],
         UNCHANGED query,
         \A j \in Entries : j < i => ~Empty(j)
  PROVE  RegistryInv'
<1>2. /\ Shape' /\ QueriesOK'
      /\ nameEntries'[i] = [tid |-> id, name |-> n]
      /\ \A j \in Entries : j # i => nameEntries'[j] = nameEntries[j]
  BY EntryTaken
<1>3. RegistryOK'
  <2>1. \A j, k \in Entries : j < k /\ ~Empty(k)' => ~Empty(j)'
    BY <1>2, NameServerAssumption DEF RegistryInv, RegistryOK, Empty, Entries
  <2>2. \A j \in Entries : nameEntries'[j].name = nameEntries[j].name
    BY <1>2
  <2>3. \A j \in Entries : Empty(j)' => Empty(j)
    BY <1>2 DEF Empty
  <2> QED
    BY <2>1, <2>2, <2>3 DEF RegistryInv, RegistryOK, Named, Entries
<1> QED
  BY <1>2, <1>3 DEF RegistryInv

LEMMA RegisterTooLongKeeps ==
  ASSUME RegistryInv, NEW s \in Clients, RegisterTooLong(s)
  PROVE  RegistryInv'
<1>1. PICK i \in Entries :
        /\ Handles(s, "REGISTER", "TOO_LONG", "reply")
        /\ StopsAt(i, query[s].name)
        /\ nameEntries' = [nameEntries EXCEPT ![i].tid = Sender]
  BY DEF RegisterTooLong
<1>2. PICK id : id = Sender
  OBVIOUS
<1>3. PICK n : n = nameEntries[i].name
  OBVIOUS
<1>4. nameEntries' = [nameEntries EXCEPT ![i] = [tid |-> id, name |-> n]]
  BY <1>1, <1>2, <1>3, OnlyTid DEF RegistryInv
<1>5. id # NoTid /\ UNCHANGED query
  BY <1>1, <1>2 DEF Handles, clients
<1>6. \A j \in Entries : j < i => ~Empty(j)
  BY <1>1, NameServerAssumption DEF StopsAt, Entries
<1> QED
  BY <1>3, <1>4, <1>5, <1>6, EntryGoesTo

LEMMA RegisterAgainKeeps ==
  ASSUME RegistryInv, NEW s \in Clients, RegisterAgain(s)
  PROVE  RegistryInv'
<1>1. PICK i \in Entries :
        /\ Handles(s, "REGISTER", "REGISTER", "reply")
        /\ StopsAt(i, query[s].name)
        /\ nameEntries' = [nameEntries EXCEPT ![i].tid = Sender]
  BY DEF RegisterAgain
<1>2. PICK id : id = Sender
  OBVIOUS
<1>3. PICK n : n = nameEntries[i].name
  OBVIOUS
<1>4. nameEntries' = [nameEntries EXCEPT ![i] = [tid |-> id, name |-> n]]
  BY <1>1, <1>2, <1>3, OnlyTid DEF RegistryInv
<1>5. id # NoTid /\ UNCHANGED query
  BY <1>1, <1>2 DEF Handles, clients
<1>6. \A j \in Entries : j < i => ~Empty(j)
  BY <1>1, NameServerAssumption DEF StopsAt, Entries
<1> QED
  BY <1>3, <1>4, <1>5, <1>6, EntryGoesTo

LEMMA HandleKeeps == RegistryInv /\ Handle => RegistryInv'
<1> SUFFICES ASSUME RegistryInv, Handle PROVE RegistryInv'
  OBVIOUS
<1>1. PICK s \in Clients :
        \/ RegisterNew(s) \/ RegisterTooLong(s) \/ RegisterAgain(s)
        \/ RegisterNoSpace(s) \/ WhoIsFound(s) \/ WhoIsNotFound(s)
        \/ Quit(s) \/ Invalid(s)
  BY DEF Handle
<1>2. CASE RegisterNew(s)
  BY <1>2, RegisterNewKeeps
<1>3. CASE RegisterTooLong(s)
  BY <1>3, RegisterTooLongKeeps
<1>4. CASE RegisterAgain(s)
  BY <1>4, RegisterAgainKeeps
<1>5. CASE RegisterNoSpace(s) \/ WhoIsFound(s) \/ WhoIsNotFound(s) \/ Quit(s) \/ Invalid(s)
  <2>1. UNCHANGED <<nameEntries, query>>
    BY <1>5 DEF RegisterNoSpace, WhoIsFound, WhoIsNotFound, Quit, Invalid,
                Handles, clients
  <2> QED
    BY <2>1, OtherSteps DEF RegistryInv, QueriesOK
<1> QED
  BY <1>1, <1>2, <1>3, <1>4, <1>5

LEMMA SendQueryKeeps ==
  ASSUME RegistryInv, NEW c \in Clients, NEW q \in Queries[c], SendQuery(c, q)
  PROVE  RegistryInv'
<1>1. q \in [op : Operations, name : Names, size : Lens]
  BY NameServerAssumption
<1>2. UNCHANGED nameEntries /\ query' = [query EXCEPT ![c] = q]
  BY DEF SendQuery
<1>3. QueriesOK'
  BY <1>1, <1>2 DEF RegistryInv, QueriesOK
<1> QED
  BY <1>2, <1>3, OtherSteps

LEMMA AnsweredKeeps ==
  ASSUME RegistryInv, NEW c \in Clients, Answered(c)
  PROVE  RegistryInv'
<1>1. UNCHANGED nameEntries /\ query' = [query EXCEPT ![c] = NoQuery]
  BY DEF Answered
<1>2. QueriesOK'
  BY <1>1, NameServerAssumption
  DEF RegistryInv, QueriesOK, NoQuery, Operations, QueryLen, PingLen
<1> QED
  BY <1>1, <1>2, OtherSteps

LEMMA RegistryStep == RegistryInv /\ [ServerNext]_serverVars => RegistryInv'
<1> SUFFICES ASSUME RegistryInv, [ServerNext]_serverVars PROVE RegistryInv'
  OBVIOUS
<1> DEFINE Quiet == UNCHANGED <<nameEntries, query>>
<1>1. Quiet => RegistryInv'
  BY OtherSteps DEF RegistryInv, QueriesOK
<1>2. CASE BootStep \/ FirstTask \/ \E t \in Slots : Resume(t)
  BY <1>1, <1>2 DEF BootStep, FirstTask, Resume, Plain, clients
<1>3. CASE ServerStep /\ ~Handle
  BY <1>1, <1>3 DEF ServerStep, ServerStarts, ReceiveQuery, Ping, Echo, Replies,
                    ServerExits, Plain, clients
<1>4. CASE Handle
  BY <1>4, HandleKeeps
<1>5. ASSUME NEW c \in Clients, Locate(c) PROVE RegistryInv'
  BY <1>1, <1>5 DEF Locate, Plain, clients
<1>6. CASE UNCHANGED serverVars
  BY <1>1, <1>6 DEF serverVars, clients
<1> QED
  BY <1>2, <1>3, <1>4, <1>5, <1>6, SendQueryKeeps, AnsweredKeeps DEF ServerNext

\* The entries in use come first and each name is in one of them, whatever the
\* clients ask and in whatever order (nameserver.c).
THEOREM RegistryIsSound == ServerSpec => []RegistryOK
<1>1. ServerInit => RegistryInv
  BY RegistryInit
<1>2. RegistryInv /\ [ServerNext]_serverVars => RegistryInv'
  BY RegistryStep
<1>3. RegistryInv => RegistryOK
  BY DEF RegistryInv
<1> QED
  BY <1>1, <1>2, <1>3, PTL DEF ServerSpec
-----------------------------------------------------------------------------
(* The order in which the system boots.  Until the server has announced    *)
(* itself the init task is busy with it and no client runs.                *)

Domains == DOMAIN pc = Slots /\ DOMAIN phase = Slots /\ DOMAIN gen = Slots

Booting ==
  pc[Server] = "start" =>
    /\ \/ pc[Init0] = "create" /\ phase[Server] = "absent"
       \/ pc[Init0] = "send"
       \/ pc[Init0] = "first" /\ phase[Init0] = "sending"
    /\ phase[Server] # "receiving"
    /\ \A c \in Clients : gen[c] = 0 /\ phase[c] # "ready"

Announced ==
  pc[Server] # "start" =>
    pc[Init0] # "create" /\ nameserverTid = <<Server, gen[Server]>>

BootInv == Domains /\ Booting /\ Announced

LEMMA BootSlots ==
  /\ Init0 \in Slots /\ Server \in Slots /\ First \in Slots /\ First \in Clients
  /\ Init0 # Server /\ Clients \subseteq Slots
  /\ \A c \in Clients : c # Server /\ c # Init0
BY NameServerAssumption

LEMMA BootInit == ServerInit => BootInv
BY NameServerAssumption
DEF ServerInit, Init, BootInv, Domains, Booting, Announced

\* After the announcement only a restart of the server could do harm.
LEMMA AfterAnnounced ==
  ASSUME BootInv, pc[Server] # "start", Domains',
         pc'[Server] # "start", pc'[Init0] # "create",
         UNCHANGED nameserverTid, gen'[Server] = gen[Server]
  PROVE  BootInv'
BY DEF BootInv, Booting, Announced

LEMMA BootStepKeeps == BootInv /\ BootStep => BootInv'
<1> SUFFICES ASSUME BootInv, BootStep PROVE BootInv'
  OBVIOUS
<1> USE BootSlots
<1>1. CASE At(Init0, "create", "send") /\ Start(Init0, Server)
  <2>1. /\ pc[Server] = "start" /\ pc'[Server] = "start" /\ pc'[Init0] = "send"
        /\ Domains'
    BY <1>1 DEF BootInv, Domains, Announced, Start, At
  <2>2. \A c \in Clients : gen'[c] = 0 /\ phase'[c] # "ready"
    BY <1>1, <2>1 DEF BootInv, Domains, Booting, Start
  <2>3. phase'[Server] = "ready"
    BY <1>1 DEF Start
  <2> QED
    BY <2>1, <2>2, <2>3 DEF BootInv, Booting, Announced
<1>2. CASE At(Init0, "send", "first") /\ Send(Init0, Server, PingLen, PingLen) /\ Plain
  <2>1. /\ pc'[Server] = pc[Server] /\ pc'[Init0] = "first"
        /\ UNCHANGED <<nameserverTid, gen>> /\ Domains'
    BY <1>2 DEF BootInv, Domains, Send, At, Plain
  <2>2. CASE pc[Server] # "start"
    BY <2>1, <2>2, AfterAnnounced
  <2>3. CASE pc[Server] = "start"
    <3>1. phase' = [phase EXCEPT ![Init0] = "sending"]
      BY <1>2, <2>3 DEF BootInv, Booting, Send
    <3> QED
      BY <2>1, <2>3, <3>1 DEF BootInv, Booting, Announced, Domains
  <2> QED
    BY <2>2, <2>3
<1>3. CASE At(Init0, "first", "idle") /\ Start(Init0, First) /\ Plain
  <2>1. pc[Server] # "start"
    BY <1>3 DEF BootInv, Booting, Start, At
  <2>2. /\ Domains' /\ pc'[Server] # "start" /\ pc'[Init0] # "create"
        /\ gen'[Server] = gen[Server] /\ UNCHANGED nameserverTid
    BY <1>3, <2>1 DEF BootInv, Domains, Start, At, Plain
  <2> QED
    BY <2>1, <2>2, AfterAnnounced
<1> QED
  BY <1>1, <1>2, <1>3 DEF BootStep

\* A step that touches nothing the boot depends on.
LEMMA QuietBoot ==
  ASSUME BootInv, UNCHANGED <<pc, phase, gen, nameserverTid>>
  PROVE  BootInv'
BY DEF BootInv, Domains, Booting, Announced

\* A step after the announcement, of a task other than the init task.
LEMMA LateStep ==
  ASSUME BootInv, NEW t \in Slots, t # Init0, pc[Server] # "start",
         NEW l, pc' = [pc EXCEPT ![t] = l], l # "start",
         DOMAIN phase' = Slots, UNCHANGED <<gen, nameserverTid>>
  PROVE  BootInv'
<1>1. Domains' /\ pc'[Server] # "start" /\ pc'[Init0] # "create"
  BY BootSlots DEF BootInv, Domains, Announced
<1> QED
  BY <1>1, AfterAnnounced

LEMMA FirstTaskKeeps == BootInv /\ FirstTask => BootInv'
<1> SUFFICES ASSUME BootInv, FirstTask PROVE BootInv'
  OBVIOUS
<1> USE BootSlots
<1>1. ASSUME NEW c \in Unborn,
             At(First, "others", "others") /\ Start(First, c) /\ Plain
      PROVE  BootInv'
  <2>1. pc[Server] # "start"
    BY <1>1 DEF BootInv, Booting, Start
  <2>2. /\ Domains' /\ pc'[Server] # "start" /\ pc'[Init0] # "create"
        /\ gen'[Server] = gen[Server] /\ UNCHANGED nameserverTid
    BY <1>1, <2>1 DEF BootInv, Domains, Announced, Unborn, Start, At, Plain
  <2> QED
    BY <2>1, <2>2, AfterAnnounced
<1>2. CASE Unborn = {} /\ At(First, "others", "idle") /\ UNCHANGED calls /\ Plain
  <2>1. pc[Server] # "start"
    BY <1>2 DEF BootInv, Booting, Unborn
  <2> QED
    BY <1>2, <2>1, LateStep DEF BootInv, Domains, At, calls, Plain
<1> QED
  BY <1>1, <1>2 DEF FirstTask

LEMMA ServerStepKeeps == BootInv /\ ServerStep => BootInv'
<1> SUFFICES ASSUME BootInv, ServerStep PROVE BootInv'
  OBVIOUS
<1> USE BootSlots
<1>1. CASE ServerStarts
  <2>1. Domains' /\ pc'[Server] = "receive" /\ pc'[Init0] = pc[Init0]
    BY <1>1 DEF ServerStarts, At, calls, BootInv, Domains
  <2>2. pc[Init0] # "create"
    BY <1>1 DEF ServerStarts, At, BootInv, Booting
  <2>3. nameserverTid' = <<Server, gen'[Server]>>
    BY <1>1 DEF ServerStarts, calls
  <2> QED
    BY <2>1, <2>2, <2>3 DEF BootInv, Booting, Announced
<1>2. CASE ServerStep /\ ~ServerStarts
  <2>1. \E l \in {"receive", "handle", "echo", "reply", "lastReply", "exit", "gone"} :
          pc' = [pc EXCEPT ![Server] = l]
    BY <1>2 DEF ServerStep, ReceiveQuery, Ping, Echo, Handle, Replies, ServerExits,
      RegisterNew, RegisterTooLong, RegisterAgain, RegisterNoSpace, WhoIsFound,
      WhoIsNotFound, Quit, Invalid, Handles, At
  <2>2. pc[Server] # "start"
    BY <1>2 DEF ServerStep, ReceiveQuery, Ping, Echo, Handle, Replies, ServerExits,
      RegisterNew, RegisterTooLong, RegisterAgain, RegisterNoSpace, WhoIsFound,
      WhoIsNotFound, Quit, Invalid, Handles, At
  <2>3. UNCHANGED <<gen, nameserverTid>>
    BY <1>2 DEF ServerStep, ReceiveQuery, Ping, Echo, Handle, Replies, ServerExits,
      RegisterNew, RegisterTooLong, RegisterAgain, RegisterNoSpace, WhoIsFound,
      WhoIsNotFound, Quit, Invalid, Handles, Returns, Collect, Receive, Reply,
      Leave, Plain
  <2>4. DOMAIN phase' = Slots
    BY <1>2 DEF ServerStep, ReceiveQuery, Ping, Echo, Handle, Replies, ServerExits,
      RegisterNew, RegisterTooLong, RegisterAgain, RegisterNoSpace, WhoIsFound,
      WhoIsNotFound, Quit, Invalid, Handles, Returns, Collect, Receive, Reply,
      Leave, BootInv, Domains
  <2> QED
    BY <2>1, <2>2, <2>3, <2>4, LateStep
<1> QED
  BY <1>1, <1>2

LEMMA ClientKeeps ==
  ASSUME BootInv, NEW c \in Clients,
         Locate(c) \/ (\E q \in Queries[c] : SendQuery(c, q)) \/ Answered(c)
  PROVE  BootInv'
<1> USE BootSlots
<1>1. phase[c] = "ready"
  BY DEF Locate, SendQuery, Answered, Send, Returns, Collect
<1>2. pc[Server] # "start"
  BY <1>1 DEF BootInv, Booting
<1>3. \E l \in {"idle", "send", "answered"} : pc' = [pc EXCEPT ![c] = l]
  BY DEF Locate, SendQuery, Answered, At
<1>4. UNCHANGED <<gen, nameserverTid>> /\ DOMAIN phase' = Slots
  BY DEF Locate, SendQuery, Answered, Send, Returns, Collect, calls, Plain,
         BootInv, Domains
<1> QED
  BY <1>2, <1>3, <1>4, LateStep

LEMMA BootNext == BootInv /\ [ServerNext]_serverVars => BootInv'
<1> SUFFICES ASSUME BootInv, [ServerNext]_serverVars PROVE BootInv'
  OBVIOUS
<1>1. ASSUME NEW t \in Slots, Resume(t) PROVE BootInv'
  BY <1>1, QuietBoot DEF Resume, Ignores, Returns, Collect, Plain
<1>2. CASE UNCHANGED serverVars
  BY <1>2, QuietBoot DEF serverVars, calls
<1> QED
  BY <1>1, <1>2, BootStepKeeps, FirstTaskKeeps, ServerStepKeeps, ClientKeeps
  DEF ServerNext

\* No client runs before the kernel knows the name server (init.c): the init
\* task starts the application only when its ping has come back.
THEOREM ServerIsKnown == ServerSpec => []ServerKnown
<1>1. ServerInit => BootInv
  BY BootInit
<1>2. BootInv /\ [ServerNext]_serverVars => BootInv'
  BY BootNext
<1>3. BootInv => ServerKnown
  BY DEF BootInv, Booting, Announced, ServerKnown
<1> QED
  BY <1>1, <1>2, <1>3, PTL DEF ServerSpec
-----------------------------------------------------------------------------
(* Somebody is ready: the init task, but while its ping is under way, and  *)
(* then the server.                                                        *)

\* Before the application is started the server has nothing to do.
ServerIdle ==
  \/ pc[Server] \in {"start", "receive"} /\ phase[Server] = "ready"
  \/ pc[Server] = "handle" /\ phase[Server] = "receiving"

InitReady ==
  /\ phase[Init0] = "ready" /\ mail[Server] \in Seq(Slots \ {Init0})
  /\ pc[Init0] # "idle" => mail[Server] = <<>>
  /\ pc[Init0] = "create" => pc[Server] = "start" /\ phase[Server] = "absent"
  /\ pc[Init0] = "send" => ServerIdle

PingSent ==
  /\ pc[Init0] = "first" /\ phase[Init0] = "sending" /\ mail[Server] = <<Init0>>
  /\ pc[Server] \in {"start", "receive"} /\ phase[Server] = "ready"

PingReceived ==
  /\ pc[Init0] = "first" /\ phase[Init0] = "awaitingReply" /\ mail[Server] = <<>>
  /\ phase[Server] = "ready"
  /\ \/ pc[Server] = "handle" /\ outcome[Server].tid[1] = Init0
     \/ pc[Server] = "echo" /\ sender[1] = Init0

\* The server is the only one that is sent to.
Mailboxes ==
  /\ DOMAIN mail = Slots /\ DOMAIN outcome = Slots
  /\ \A r \in Slots \ {Server} : mail[r] = <<>>

ClientsLater == pc[Init0] # "idle" => \A c \in Clients : phase[c] = "absent"

Stages == InitReady \/ PingSent \/ PingReceived

ReadyInv ==
  BootInv /\ Mailboxes /\ pc[Init0] \in {"create", "send", "first", "idle"}
    /\ ClientsLater /\ Stages

LEMMA ReadyAtFirst == ServerInit => ReadyInv
<1> SUFFICES ASSUME ServerInit PROVE ReadyInv
  OBVIOUS
<1>1. /\ Mailboxes /\ pc[Init0] = "create" /\ mail[Server] = <<>>
      /\ phase[Init0] = "ready" /\ pc[Server] = "start" /\ phase[Server] = "absent"
      /\ \A c \in Clients : phase[c] = "absent"
  BY BootSlots, NameServerAssumption DEF ServerInit, Init, Mailboxes
<1>2. mail[Server] \in Seq(Slots \ {Init0})
  BY <1>1
<1> QED
  BY <1>1, <1>2, BootInit DEF ReadyInv, ClientsLater, Stages, InitReady

\* What a step does that is of no concern.
LEMMA ReadyQuiet ==
  ASSUME ReadyInv, BootInv', UNCHANGED <<phase, mail, sender>>,
         pc'[Init0] = pc[Init0], pc'[Server] = pc[Server], DOMAIN outcome' = Slots,
         outcome'[Server] = outcome[Server] \/ pc[Server] # "handle"
  PROVE  ReadyInv'
BY DEF ReadyInv, Mailboxes, ClientsLater, Stages, InitReady, PingSent, PingReceived,
       ServerIdle

\* Once the application is started nobody has anything to do with the init task.
LEMMA ReadyLate ==
  ASSUME ReadyInv, BootInv', pc'[Init0] = "idle", phase'[Init0] = "ready", Mailboxes',
         mail'[Server] \in Seq(Slots \ {Init0})
  PROVE  ReadyInv'
BY DEF ReadyInv, ClientsLater, Stages, InitReady

LEMMA BootStepReady == ReadyInv /\ BootStep => ReadyInv'
<1> SUFFICES ASSUME ReadyInv, BootStep PROVE ReadyInv'
  OBVIOUS
<1> USE BootSlots DEF ReadyInv
<1>0. BootInv'
  BY BootStepKeeps
<1>1. CASE At(Init0, "create", "send") /\ Start(Init0, Server) /\ Plain
  <2>1. /\ pc[Init0] = "create" /\ pc'[Init0] = "send" /\ pc'[Server] = pc[Server]
        /\ InitReady
    BY <1>1 DEF At, BootInv, Domains, Stages, PingSent, PingReceived
  <2>2. /\ phase'[Server] = "ready" /\ phase'[Init0] = "ready"
        /\ \A c \in Clients : phase'[c] = "absent"
    BY <1>1, <2>1 DEF Start, InitReady, ClientsLater
  <2>3. Mailboxes' /\ mail'[Server] = <<>>
    BY <1>1 DEF Start, Mailboxes
  <2>4. mail'[Server] \in Seq(Slots \ {Init0})
    BY <2>3
  <2> QED
    BY <1>0, <2>1, <2>2, <2>3, <2>4 DEF Stages, InitReady, ServerIdle, ClientsLater
<1>2. CASE At(Init0, "send", "first") /\ Send(Init0, Server, PingLen, PingLen) /\ Plain
  <2>1. /\ pc[Init0] = "send" /\ pc'[Init0] = "first" /\ pc'[Server] = pc[Server]
        /\ InitReady /\ ServerIdle /\ mail[Server] = <<>>
    BY <1>2 DEF At, BootInv, Domains, Stages, InitReady, PingSent, PingReceived
  <2>2. Mailboxes'
    BY <1>2 DEF Send, Mailboxes
  <2>3. CASE phase[Server] = "receiving"
    <3>1. /\ pc'[Server] = "handle" /\ mail'[Server] = <<>>
          /\ phase' = [phase EXCEPT ![Init0] = "awaitingReply", ![Server] = "ready"]
      BY <1>2, <2>1, <2>3 DEF Send, ServerIdle
    <3>2. outcome'[Server].tid = <<Init0, gen[Init0]>>
      BY <1>2, <2>3 DEF Send, From, Mailboxes
    <3>3. PingReceived' /\ ClientsLater'
      BY <2>1, <3>1, <3>2 DEF PingReceived, ClientsLater, BootInv, Domains
    <3> QED
      BY <1>0, <2>1, <2>2, <3>3 DEF Stages
  <2>4. CASE phase[Server] # "receiving"
    <3>1. /\ mail'[Server] = Append(<<>>, Init0)
          /\ phase' = [phase EXCEPT ![Init0] = "sending"]
      BY <1>2, <2>1, <2>4 DEF Send, Mailboxes
    <3>2. mail'[Server] = <<Init0>>
      BY <3>1
    <3>3. PingSent' /\ ClientsLater'
      BY <2>1, <2>4, <3>1, <3>2 DEF PingSent, ClientsLater, BootInv, Domains, ServerIdle
    <3> QED
      BY <1>0, <2>1, <2>2, <3>3 DEF Stages
  <2> QED
    BY <2>3, <2>4
<1>3. CASE At(Init0, "first", "idle") /\ Start(Init0, First) /\ Plain
  <2>1. pc'[Init0] = "idle" /\ phase[Init0] = "ready" /\ InitReady
    BY <1>3 DEF At, Start, BootInv, Domains, Stages, PingSent, PingReceived
  <2>2. Mailboxes' /\ mail'[Server] = mail[Server] /\ mail[First] = <<>>
    BY <1>3 DEF Start, Mailboxes
  <2>3. phase'[Init0] = "ready"
    BY <1>3, <2>1, <2>2 DEF Start, BootInv, Domains
  <2> QED
    BY <1>0, <2>1, <2>2, <2>3, ReadyLate DEF InitReady
<1> QED
  BY <1>1, <1>2, <1>3 DEF BootStep

LEMMA FirstTaskReady == ReadyInv /\ FirstTask => ReadyInv'
<1> SUFFICES ASSUME ReadyInv, FirstTask PROVE ReadyInv'
  OBVIOUS
<1> USE BootSlots DEF ReadyInv
<1>0. BootInv'
  BY FirstTaskKeeps
<1>1. ASSUME NEW c \in Unborn,
             At(First, "others", "others") /\ Start(First, c) /\ Plain
      PROVE  ReadyInv'
  <2>1. c \in Clients /\ pc[Init0] = "idle" /\ InitReady
    BY <1>1 DEF Unborn, Start, ClientsLater, Stages, PingSent, PingReceived
  <2>2. pc'[Init0] = "idle" /\ Mailboxes' /\ mail'[Server] = mail[Server]
    BY <1>1, <2>1 DEF At, Start, Mailboxes, BootInv, Domains
  <2>3. phase'[Init0] = "ready"
    BY <1>1, <2>1 DEF Start, InitReady, Mailboxes
  <2> QED
    BY <1>0, <2>1, <2>2, <2>3, ReadyLate DEF InitReady
<1>2. CASE Unborn = {} /\ At(First, "others", "idle") /\ UNCHANGED calls /\ Plain
  BY <1>0, <1>2, ReadyQuiet DEF At, calls, Plain, locals, BootInv, Domains, Mailboxes
<1> QED
  BY <1>1, <1>2 DEF FirstTask

\* A step of a client comes after the boot.
LEMMA ClientReady ==
  ASSUME ReadyInv, NEW c \in Clients,
         Locate(c) \/ (\E q \in Queries[c] : SendQuery(c, q)) \/ Answered(c)
  PROVE  ReadyInv'
<1> USE BootSlots DEF ReadyInv
<1>0. BootInv'
  BY ClientKeeps
<1>1. phase[c] = "ready"
  BY DEF Locate, SendQuery, Answered, Send, Returns, Collect
<1>2. pc[Init0] = "idle" /\ InitReady
  BY <1>1 DEF ClientsLater, Stages, PingSent, PingReceived
<1>3. pc'[Init0] = "idle"
  BY <1>2 DEF Locate, SendQuery, Answered, At, BootInv, Domains
<1>4. CASE Locate(c) \/ Answered(c)
  <2>1. UNCHANGED <<phase, mail>> /\ DOMAIN outcome' = Slots
    BY <1>4 DEF Locate, Answered, Returns, Collect, calls, Mailboxes
  <2> QED
    BY <1>0, <1>2, <1>3, <2>1, ReadyLate DEF InitReady, Mailboxes
<1>5. ASSUME NEW q \in Queries[c], SendQuery(c, q) PROVE ReadyInv'
  <2>1. nameserverTid[1] = Server
    BY <1>1 DEF BootInv, Booting, Announced
  <2>2. Send(c, Server, q.size, q.size)
    BY <1>5, <2>1 DEF SendQuery
  <2>3. Mailboxes' /\ phase'[Init0] = "ready"
    BY <1>2, <2>2 DEF Send, Mailboxes, InitReady, BootInv, Domains
  <2>4. mail'[Server] = mail[Server] \/ mail'[Server] = Append(mail[Server], c)
    BY <2>2 DEF Send, Mailboxes
  <2>5. mail'[Server] \in Seq(Slots \ {Init0})
    BY <1>2, <2>4 DEF InitReady
  <2> QED
    BY <1>0, <1>3, <2>3, <2>5, ReadyLate
<1> QED
  BY <1>4, <1>5

\* The steps of the server that handle a query take one of a client.
LEMMA HandleSteps ==
  ASSUME ReadyInv, Handle
  PROVE  /\ UNCHANGED <<phase, mail>> /\ DOMAIN outcome' = Slots
         /\ InitReady /\ pc[Init0] \in {"first", "idle"}
         /\ pc'[Init0] = pc[Init0]
<1> USE BootSlots DEF ReadyInv
<1>1. PICK s, op, rop, l : s \in Clients /\ Handles(s, op, rop, l)
  BY DEF Handle, RegisterNew, RegisterTooLong, RegisterAgain, RegisterNoSpace,
         WhoIsFound, WhoIsNotFound, Quit, Invalid
<1>2. /\ s \in Clients /\ UNCHANGED <<phase, mail>>
      /\ DOMAIN outcome' = Slots /\ phase[Server] = "ready"
      /\ pc[Server] = "handle" /\ outcome[Server].tid[1] = s /\ pc'[Init0] = pc[Init0]
  BY <1>1 DEF Handles, At, Returns, Collect, Sender, Mailboxes, BootInv, Domains
<1> QED
  BY <1>2 DEF Stages, PingSent, PingReceived, InitReady, ServerIdle

LEMMA ServerStepReady == ReadyInv /\ ServerStep => ReadyInv'
<1> SUFFICES ASSUME ReadyInv, ServerStep PROVE ReadyInv'
  OBVIOUS
<1> USE BootSlots DEF ReadyInv
<1>0. BootInv' /\ Domains
  BY ServerStepKeeps DEF BootInv
<1>1. CASE ServerStarts
  BY <1>0, <1>1 DEF ServerStarts, At, calls, locals, clients, Domains, Mailboxes,
     ClientsLater, Stages, InitReady, PingSent, PingReceived, ServerIdle
<1>2. CASE ReceiveQuery
  <2>1. /\ pc[Server] = "receive" /\ pc'[Server] = "handle" /\ pc'[Init0] = pc[Init0]
        /\ Receive(Server, QueryLen) /\ UNCHANGED sender
    BY <1>0, <1>2 DEF ReceiveQuery, At, Domains, Plain, locals
  <2>2. Mailboxes'
    BY <2>1 DEF Receive, Mailboxes
  <2>3. CASE InitReady /\ mail[Server] = <<>>
    <3>1. phase' = [phase EXCEPT ![Server] = "receiving"] /\ UNCHANGED mail
      BY <2>1, <2>3 DEF Receive
    <3> QED
      BY <1>0, <2>1, <2>2, <2>3, <3>1
      DEF Domains, ClientsLater, Stages, InitReady, ServerIdle
  <2>4. CASE InitReady /\ mail[Server] # <<>>
    <3>1. /\ Head(mail[Server]) \in Slots \ {Init0}
          /\ Tail(mail[Server]) \in Seq(Slots \ {Init0})
      BY <2>4 DEF InitReady
    <3>2. /\ phase' = [phase EXCEPT ![Head(mail[Server])] = "awaitingReply"]
          /\ mail'[Server] = Tail(mail[Server])
      BY <2>1, <2>4 DEF Receive, Mailboxes
    <3> QED
      BY <1>0, <2>1, <2>2, <2>4, <3>1, <3>2, ReadyLate DEF Domains, InitReady
  <2>5. CASE PingSent
    <3>1. mail[Server] # <<>> /\ Head(mail[Server]) = Init0 /\ Tail(mail[Server]) = <<>>
      BY <2>5 DEF PingSent
    <3>2. /\ phase' = [phase EXCEPT ![Init0] = "awaitingReply"]
          /\ mail'[Server] = <<>>
      BY <2>1, <3>1 DEF Receive, Mailboxes
    <3>3. outcome'[Server].tid = <<Init0, gen[Init0]>>
      BY <2>1, <3>1 DEF Receive, From, Mailboxes
    <3>4. PingReceived' /\ ClientsLater'
      BY <1>0, <2>1, <2>5, <3>2, <3>3 DEF PingReceived, PingSent, ClientsLater, Domains
    <3> QED
      BY <1>0, <2>1, <2>2, <3>4 DEF Stages
  <2> QED
    BY <2>1, <2>3, <2>4, <2>5 DEF Stages, PingReceived
<1>3. CASE Ping
  <2>1. /\ pc[Server] = "handle" /\ pc'[Server] = "echo" /\ pc'[Init0] = pc[Init0]
        /\ UNCHANGED <<phase, mail>> /\ DOMAIN outcome' = Slots
        /\ phase[Server] = "ready" /\ sender' = outcome[Server].tid
    BY <1>0, <1>3 DEF Ping, At, Domains, Returns, Collect, Sender, Mailboxes
  <2> QED
    BY <1>0, <2>1 DEF Mailboxes, ClientsLater, Stages, InitReady, PingSent,
       PingReceived, ServerIdle
<1>4. CASE Handle
  BY <1>0, <1>4, HandleSteps DEF Mailboxes, ClientsLater, Stages, InitReady
<1>5. CASE Echo \/ Replies
  <2>1. /\ pc[Server] \in {"echo", "reply", "lastReply"} /\ pc'[Init0] = pc[Init0]
        /\ pc[Server] # "echo" => Replies
        /\ phase' = [phase EXCEPT ![sender[1]] = "ready"] /\ UNCHANGED mail
        /\ DOMAIN outcome' = Slots /\ phase[sender[1]] = "awaitingReply"
    BY <1>0, <1>5 DEF Echo, Replies, Reply, At, Domains, Mailboxes
  <2>2. phase'[Init0] = "ready"
    BY <1>0, <2>1 DEF Stages, InitReady, PingSent, PingReceived, Domains
  <2>3. pc[Init0] \in {"first", "idle"} /\ mail[Server] \in Seq(Slots \ {Init0})
        /\ (pc[Init0] # "idle" => mail[Server] = <<>>)
    <3>1. <<>> \in Seq(Slots \ {Init0})
      OBVIOUS
    <3>2. CASE InitReady
      BY <2>1, <3>2 DEF InitReady, ServerIdle
    <3> QED
      BY <2>1, <3>1, <3>2 DEF Stages, PingSent, PingReceived
  <2>4. ClientsLater'
    BY <1>0, <2>1 DEF ClientsLater, Domains
  <2> QED
    BY <1>0, <2>1, <2>2, <2>3, <2>4 DEF Mailboxes, Stages, InitReady
<1>6. CASE ServerExits
  <2>1. /\ pc[Server] = "exit" /\ pc'[Init0] = pc[Init0] /\ UNCHANGED <<mail, outcome>>
        /\ phase' = [phase EXCEPT ![Server] = "absent"]
    BY <1>0, <1>6 DEF ServerExits, At, Leave, Domains
  <2>2. InitReady /\ pc[Init0] \in {"first", "idle"}
    BY <2>1 DEF Stages, InitReady, PingSent, PingReceived, ServerIdle
  <2> QED
    BY <1>0, <2>1, <2>2 DEF Domains, Mailboxes, ClientsLater, Stages, InitReady
<1> QED
  BY <1>1, <1>2, <1>3, <1>4, <1>5, <1>6 DEF ServerStep

LEMMA ReadyStep == ReadyInv /\ [ServerNext]_serverVars => ReadyInv'
<1> SUFFICES ASSUME ReadyInv, [ServerNext]_serverVars PROVE ReadyInv'
  OBVIOUS
<1>0. BootInv'
  BY BootNext DEF ReadyInv
<1>1. ASSUME NEW t \in Slots, Resume(t) PROVE ReadyInv'
  BY <1>0, <1>1, BootSlots, ReadyQuiet
  DEF Resume, Ignores, Returns, Collect, Plain, locals, ReadyInv, Mailboxes
<1>2. CASE UNCHANGED serverVars
  BY <1>0, <1>2, ReadyQuiet DEF serverVars, calls, locals, ReadyInv, Mailboxes
<1> QED
  BY <1>1, <1>2, BootStepReady, FirstTaskReady, ServerStepReady, ClientReady
  DEF ServerNext

\* Some task is ready at every point of the boot and after it (init.c), so that
\* rtos_main does not look for one for ever.
THEOREM SomebodyIsReady == ServerSpec => []SomebodyReady
<1>1. ServerInit => ReadyInv
  BY ReadyAtFirst
<1>2. ReadyInv /\ [ServerNext]_serverVars => ReadyInv'
  BY ReadyStep
<1>3. ReadyInv => SomebodyReady
  BY BootSlots DEF ReadyInv, Stages, InitReady, PingSent, PingReceived, SomebodyReady
<1> QED
  BY <1>1, <1>2, <1>3, PTL DEF ServerSpec
-----------------------------------------------------------------------------
(* A query on its way: from the mailbox of the server to its hands and back *)
(* as a reply.                                                             *)

\* Whoever is in the mailbox of the server waits there, once.
MailOK ==
  /\ mail[Server] \in Seq(Slots)
  /\ \A k \in 1 .. Len(mail[Server]) : phase[mail[Server][k]] = "sending"
  /\ \A j, k \in 1 .. Len(mail[Server]) :
       mail[Server][j] = mail[Server][k] => j = k

\* The server has the message of task s and has not replied to it.
InHand(s) ==
  \/ pc[Server] = "handle" /\ outcome[Server] # Nothing /\ outcome[Server].tid[1] = s
  \/ pc[Server] \in {"echo", "reply", "lastReply"} /\ sender[1] = s

HandOK ==
  /\ \A s \in Slots : InHand(s) => phase[s] = "awaitingReply"
  /\ pc[Server] \in {"reply", "lastReply"} => replyOperation # "NONE"
  /\ pc[Server] = "echo" => Size(sender[1]) # QueryLen

\* A client has a reply from the moment in which its query is replied to until
\* it looks at it; a message that is echoed has none.
ClientOK(c) ==
  /\ pc[c] # "answered" => reply[c] = NoReply
  /\ phase[c] \in {"sending", "awaitingReply"} => pc[c] = "answered" /\ reply[c] = NoReply
  /\ pc[c] = "answered" => phase[c] # "absent"
  /\ pc[c] = "answered" /\ phase[c] = "ready" /\ query[c].size = QueryLen =>
       reply[c] # NoReply

\* Entries belong to clients.
EntriesOK ==
  \A i \in Entries :
    /\ ~Empty(i) => nameEntries[i].tid[1] \in Clients
    /\ nameEntries[i].name \in Names \cup {NoName}

AnswerInv ==
  /\ MailOK /\ HandOK /\ EntriesOK
  /\ DOMAIN reply = Clients /\ \A c \in Clients : ClientOK(c)


LEMMA AnswersAtFirst == ServerInit => AnswerInv
<1> SUFFICES ASSUME ServerInit PROVE AnswerInv
  OBVIOUS
<1> USE BootSlots
<1>1. MailOK
  <2>1. mail[Server] = <<>>
    BY DEF ServerInit, Init
  <2> QED
    BY <2>1 DEF MailOK
<1>2. HandOK
  BY DEF ServerInit, HandOK, InHand
<1>3. EntriesOK
  BY DEF ServerInit, EntriesOK, Empty
<1>4. ASSUME NEW c \in Clients PROVE ClientOK(c)
  <2>1. reply[c] = NoReply /\ pc[c] # "answered" /\ phase[c] = "absent"
    BY NameServerAssumption DEF ServerInit, Init
  <2> QED
    BY <2>1 DEF ClientOK
<1> QED
  BY <1>1, <1>2, <1>3, <1>4 DEF ServerInit, AnswerInv

\* What a step does that sends, receives and replies nothing.
LEMMA AnswersQuiet ==
  ASSUME AnswerInv, UNCHANGED <<phase, mail, reply, query, nameEntries, sender, replyOperation>>,
         \A c \in Clients : pc'[c] = "answered" <=> pc[c] = "answered",
         \/ /\ pc'[Server] = pc[Server]
            /\ outcome'[Server] = outcome[Server] \/ pc[Server] # "handle"
         \/ pc'[Server] \notin {"handle", "echo", "reply", "lastReply"}
  PROVE  AnswerInv'
<1>1. MailOK' /\ EntriesOK'
  BY DEF AnswerInv, MailOK, EntriesOK, Empty
<1>2. HandOK'
  BY DEF AnswerInv, HandOK, InHand, Size
<1>3. \A c \in Clients : ClientOK(c)'
  BY DEF AnswerInv, ClientOK
<1> QED
  BY <1>1, <1>2, <1>3 DEF AnswerInv

\* A task is started by another one than the server.
LEMMA StartAnswers ==
  ASSUME AnswerInv, Mailboxes, Domains, NEW t \in Slots \ {Server}, NEW n \in Slots,
         Start(t, n), UNCHANGED <<reply, query, nameEntries, sender, replyOperation>>,
         \A c \in Clients : pc'[c] = "answered" <=> pc[c] = "answered",
         pc'[Server] = pc[Server]
  PROVE  AnswerInv'
<1> USE BootSlots
<1>1. phase[n] = "absent"
  BY DEF Start
<1>2. \A x \in Slots :
        phase'[x] = IF x = n THEN "ready"
                    ELSE IF \E k \in DOMAIN mail[n] : mail[n][k] = x THEN "orphaned"
                    ELSE phase[x]
  BY DEF Start
<1>3. \A x \in Slots, k \in DOMAIN mail[n] :
        mail[n][k] = x => n = Server /\ phase[x] = "sending"
  BY DEF Mailboxes, AnswerInv, MailOK
<1>4. /\ outcome'[Server] = IF n = Server THEN Nothing ELSE outcome[Server]
      /\ mail'[Server] = IF n = Server THEN <<>> ELSE mail[Server]
  BY DEF Start, Mailboxes
<1>5. MailOK'
  <2>1. CASE n = Server
    BY <1>4, <2>1 DEF MailOK
  <2>2. CASE n # Server
    <3>1. ASSUME NEW k \in 1 .. Len(mail[Server]) PROVE phase'[mail[Server][k]] = "sending"
      <4>1. mail[Server][k] \in Slots /\ phase[mail[Server][k]] = "sending"
        BY DEF AnswerInv, MailOK
      <4> QED
        BY <1>1, <1>2, <1>3, <2>2, <4>1
    <3> QED
      BY <1>4, <2>2, <3>1 DEF AnswerInv, MailOK
  <2> QED
    BY <2>1, <2>2
<1>6. \A x \in Slots : phase[x] = "awaitingReply" => phase'[x] = "awaitingReply"
  BY <1>1, <1>2, <1>3
<1>7. HandOK'
  BY <1>4, <1>6 DEF AnswerInv, HandOK, InHand, Size
<1>8. ASSUME NEW c \in Clients PROVE ClientOK(c)'
  BY <1>1, <1>2, <1>3 DEF AnswerInv, ClientOK
<1> QED
  BY <1>5, <1>7, <1>8 DEF AnswerInv, EntriesOK, Empty

\* A number up to n + 1 is n + 1 or one up to n.
LEMMA LastOrBefore ==
  ASSUME NEW n \in Nat, NEW k \in 1 .. (n + 1), k # n + 1
  PROVE  k \in 1 .. n
OBVIOUS

\* A message goes to the server, into its hands or into its mailbox.
LEMMA SendAnswers ==
  ASSUME AnswerInv, Mailboxes, Domains, NEW t \in Slots \ {Server}, NEW len, NEW rlen,
         Send(t, Server, len, rlen), UNCHANGED <<sender, replyOperation>>,
         pc'[Server] = pc[Server]
  PROVE  /\ MailOK'
         /\ phase[t] = "ready" /\ phase'[t] \in {"sending", "awaitingReply"}
         /\ \A x \in Slots \ {t, Server} : phase'[x] = phase[x]
         /\ \A s \in Slots : InHand(s)' => phase'[s] = "awaitingReply"
<1> USE BootSlots
<1> DEFINE box == mail[Server]
<1>1. phase[t] = "ready"
  BY DEF Send
<1>2. CASE phase[Server] = "receiving"
  <2>1. /\ phase' = [phase EXCEPT ![t] = "awaitingReply", ![Server] = "ready"]
        /\ mail' = mail /\ outcome'[Server].tid[1] = t
    BY <1>2 DEF Send, From, Mailboxes
  <2>2. MailOK'
    BY <1>1, <1>2, <2>1 DEF AnswerInv, MailOK, Domains
  <2>3. ASSUME NEW s \in Slots, InHand(s)' PROVE phase'[s] = "awaitingReply"
    <3>1. CASE pc[Server] = "handle"
      BY <2>1, <2>3, <3>1 DEF InHand, Domains
    <3>2. CASE pc[Server] # "handle"
      <4>1. phase[s] = "awaitingReply"
        BY <2>3, <3>2 DEF InHand, AnswerInv, HandOK
      <4> QED
        BY <1>1, <1>2, <2>1, <4>1 DEF Domains
    <3> QED
      BY <3>1, <3>2
  <2> QED
    BY <1>1, <2>1, <2>2, <2>3 DEF Domains
<1>3. CASE phase[Server] # "receiving"
  <2>1. /\ phase' = [phase EXCEPT ![t] = "sending"]
        /\ mail'[Server] = Append(box, t) /\ outcome' = outcome
    BY <1>3 DEF Send, Mailboxes
  <2>2. box \in Seq(Slots) /\ Len(box) \in Nat
    BY DEF AnswerInv, MailOK
  <2>3. /\ mail'[Server] \in Seq(Slots) /\ Len(mail'[Server]) = Len(box) + 1
        /\ mail'[Server][Len(box) + 1] = t
        /\ \A k \in 1 .. Len(box) : mail'[Server][k] = box[k]
    BY <2>1, <2>2
  <2>4. \A k \in 1 .. Len(box) : box[k] # t /\ phase[box[k]] = "sending" /\ box[k] \in Slots
    BY <1>1, <2>2 DEF AnswerInv, MailOK
  <2>5. \A j, k \in 1 .. Len(box) : box[j] = box[k] => j = k
    BY DEF AnswerInv, MailOK
  <2> HIDE DEF box
  <2>6. \A k \in 1 .. (Len(box) + 1) :
          k = Len(box) + 1 \/ k \in 1 .. Len(box)
    BY <2>2, LastOrBefore
  <2>7. MailOK'
    <3>1. \A k \in 1 .. (Len(box) + 1) : phase'[mail'[Server][k]] = "sending"
      BY <2>1, <2>3, <2>4, <2>6 DEF Domains
    <3>2. \A j, k \in 1 .. (Len(box) + 1) : mail'[Server][j] = mail'[Server][k] => j = k
      BY <2>3, <2>4, <2>5, <2>6
    <3> QED
      BY <2>3, <3>1, <3>2 DEF MailOK
  <2>8. ASSUME NEW s \in Slots, InHand(s)' PROVE phase'[s] = "awaitingReply"
    <3>1. phase[s] = "awaitingReply"
      BY <2>1, <2>8 DEF InHand, AnswerInv, HandOK
    <3> QED
      BY <1>1, <2>1, <3>1 DEF Domains
  <2> QED
    BY <1>1, <2>1, <2>7, <2>8 DEF Domains
<1> QED
  BY <1>2, <1>3

LEMMA ReceiveAnswers ==
  ASSUME AnswerInv, Mailboxes, Domains, ReceiveQuery
  PROVE  AnswerInv'
<1> USE BootSlots
<1> DEFINE box == mail[Server]
<1>0. /\ Receive(Server, QueryLen) /\ phase[Server] = "ready" /\ outcome[Server] = Nothing
      /\ pc'[Server] = "handle" /\ \A c \in Clients : pc'[c] = pc[c]
      /\ UNCHANGED <<reply, query, nameEntries, sender, replyOperation>>
  BY DEF ReceiveQuery, At, Receive, Domains, Plain, locals, clients
<1>1. CASE box = <<>>
  <2>1. phase' = [phase EXCEPT ![Server] = "receiving"] /\ UNCHANGED <<mail, outcome>>
    BY <1>0, <1>1 DEF Receive
  <2>2. HandOK'
    BY <1>0, <2>1 DEF HandOK, InHand
  <2>3. MailOK'
    <3>1. mail'[Server] = <<>>
      BY <1>1, <2>1
    <3> QED
      BY <3>1 DEF MailOK
  <2>4. \A c \in Clients : ClientOK(c)'
    BY <1>0, <2>1 DEF AnswerInv, ClientOK, Domains
  <2> QED
    BY <1>0, <2>2, <2>3, <2>4 DEF AnswerInv, EntriesOK, Empty
<1>2. CASE box # <<>>
  <2> DEFINE s == Head(box)
  <2>1. /\ phase' = [phase EXCEPT ![s] = "awaitingReply"]
        /\ mail'[Server] = Tail(box) /\ outcome'[Server].tid[1] = s
    <3>1. /\ phase' = [phase EXCEPT ![s] = "awaitingReply"]
          /\ mail'[Server] = Tail(box)
      BY <1>0, <1>2 DEF Receive, Mailboxes
    <3>2. outcome'[Server].tid = <<s, gen[s]>>
      BY <1>0, <1>2 DEF Receive, Mailboxes, From
    <3> QED
      BY <3>1, <3>2
  <2>2. box \in Seq(Slots) /\ Len(box) \in Nat
    BY DEF AnswerInv, MailOK
  <2>3. /\ s = box[1] /\ 1 \in 1 .. Len(box) /\ s \in Slots
        /\ Tail(box) \in Seq(Slots) /\ Len(Tail(box)) = Len(box) - 1
        /\ \A k \in 1 .. (Len(box) - 1) :
             Tail(box)[k] = box[k + 1] /\ k + 1 \in 1 .. Len(box) /\ k + 1 # 1
    BY <1>2, <2>2
  <2>4. \A k \in 1 .. Len(box) : phase[box[k]] = "sending" /\ box[k] \in Slots
    BY <2>2 DEF AnswerInv, MailOK
  <2>5. \A j, k \in 1 .. Len(box) : box[j] = box[k] => j = k
    BY DEF AnswerInv, MailOK
  <2>6. phase[s] = "sending"
    BY <2>3, <2>4
  <2> HIDE DEF box, s
  <2>7. MailOK'
    <3>1. \A k \in 1 .. (Len(box) - 1) : phase'[Tail(box)[k]] = "sending"
      <4> SUFFICES ASSUME NEW k \in 1 .. (Len(box) - 1)
                   PROVE  phase'[Tail(box)[k]] = "sending"
        OBVIOUS
      <4>1. Tail(box)[k] = box[k + 1] /\ k + 1 \in 1 .. Len(box) /\ k + 1 # 1
        BY <2>3
      <4>2. box[k + 1] # s
        BY <2>3, <2>5, <4>1
      <4> QED
        BY <2>1, <2>4, <4>1, <4>2 DEF Domains
    <3>2. \A j, k \in 1 .. (Len(box) - 1) : Tail(box)[j] = Tail(box)[k] => j = k
      <4> SUFFICES ASSUME NEW j \in 1 .. (Len(box) - 1), NEW k \in 1 .. (Len(box) - 1),
                          Tail(box)[j] = Tail(box)[k]
                   PROVE  j = k
        OBVIOUS
      <4>1. j + 1 = k + 1
        BY <2>3, <2>5
      <4> QED
        BY <2>2, <4>1
    <3> QED
      BY <2>1, <2>3, <3>1, <3>2 DEF MailOK
  <2>8. HandOK'
    BY <1>0, <2>1, <2>3 DEF HandOK, InHand, Domains
  <2>9. ASSUME NEW c \in Clients PROVE ClientOK(c)'
    BY <1>0, <2>1, <2>3, <2>6 DEF AnswerInv, ClientOK, Domains
  <2> QED
    BY <1>0, <2>7, <2>8, <2>9 DEF AnswerInv, EntriesOK, Empty
<1> QED
  BY <1>1, <1>2

\* The server answers the message in its hands.
LEMMA ReplyAnswers ==
  ASSUME AnswerInv, Mailboxes, Domains, Echo \/ Replies
  PROVE  AnswerInv'
<1> USE BootSlots
<1>1. /\ pc[Server] \in {"echo", "reply", "lastReply"}
      /\ pc'[Server] \in {"receive", "exit"} /\ \A c \in Clients : pc'[c] = pc[c]
      /\ phase[sender[1]] = "awaitingReply"
      /\ phase' = [phase EXCEPT ![sender[1]] = "ready"]
      /\ UNCHANGED <<mail, query, nameEntries>>
      /\ Echo => pc[Server] = "echo" /\ UNCHANGED reply
      /\ Replies => /\ pc[Server] # "echo"
                    /\ reply' = [reply EXCEPT ![sender[1]] =
                                   [op |-> replyOperation, value |-> returnValue]]
  BY DEF Echo, Replies, Reply, At, Domains, clients
<1>2. MailOK'
  BY <1>1 DEF AnswerInv, MailOK, Domains
<1>3. HandOK'
  BY <1>1 DEF HandOK, InHand
<1>4. ASSUME NEW c \in Clients PROVE ClientOK(c)'
  <2>1. CASE c # sender[1]
    <3>1. phase'[c] = phase[c] /\ reply'[c] = reply[c]
      BY <1>1, <2>1 DEF AnswerInv, Domains
    <3> QED
      BY <1>1, <3>1 DEF AnswerInv, ClientOK
  <2>2. CASE c = sender[1]
    <3>1. phase'[c] = "ready" /\ pc[c] = "answered" /\ reply[c] = NoReply
      BY <1>1, <2>2 DEF AnswerInv, ClientOK, Domains
    <3>2. CASE Echo
      <4>1. query[c].size # QueryLen
        BY <1>1, <2>2, <3>2 DEF AnswerInv, HandOK, Size
      <4> QED
        BY <1>1, <3>1, <3>2, <4>1 DEF ClientOK
    <3>3. CASE Replies
      <4>1. reply'[c] = [op |-> replyOperation, value |-> returnValue]
        BY <1>1, <2>2, <3>3 DEF AnswerInv
      <4>2. replyOperation # "NONE"
        BY <1>1, <3>3 DEF AnswerInv, HandOK
      <4>3. reply'[c] # NoReply
        BY <4>1, <4>2 DEF NoReply
      <4> QED
        BY <1>1, <3>1, <4>3 DEF ClientOK
    <3> QED
      BY <3>2, <3>3
  <2> QED
    BY <2>1, <2>2
<1>5. DOMAIN reply' = Clients
  BY <1>1 DEF AnswerInv
<1> QED
  BY <1>1, <1>2, <1>3, <1>4, <1>5 DEF AnswerInv, EntriesOK, Empty

\* The server takes the outcome of its Receive, which was in its hands.
LEMMA TakenAnswers ==
  ASSUME AnswerInv, Mailboxes, Domains, NEW l, At(Server, "handle", l), Returns(Server),
         sender' = Sender, UNCHANGED <<query, reply>>,
         l \in {"echo", "reply", "lastReply"},
         l = "echo" => Size(Sender[1]) # QueryLen,
         l # "echo" => replyOperation' # "NONE",
         EntriesOK'
  PROVE  AnswerInv'
<1> USE BootSlots
<1>1. /\ pc[Server] = "handle" /\ pc'[Server] = l /\ \A c \in Clients : pc'[c] = pc[c]
      /\ outcome[Server] # Nothing /\ UNCHANGED <<phase, mail>>
  BY DEF At, Domains, Returns, Collect
<1>2. \A s \in Slots : InHand(s)' => InHand(s)
  BY <1>1 DEF InHand, Sender
<1>3. HandOK'
  BY <1>1, <1>2 DEF AnswerInv, HandOK, Size, Sender
<1>4. \A c \in Clients : ClientOK(c)'
  BY <1>1 DEF AnswerInv, ClientOK
<1> QED
  BY <1>1, <1>3, <1>4 DEF AnswerInv, MailOK

\* An entry that is given to a client belongs to one.
LEMMA EntryAnswers ==
  ASSUME AnswerInv, RegistryInv, NEW i \in Entries, NEW id, NEW n,
         id[1] \in Clients, n \in Names \cup {NoName},
         nameEntries' = [nameEntries EXCEPT ![i] = [tid |-> id, name |-> n]]
  PROVE  EntriesOK'
<1>1. /\ nameEntries'[i] = [tid |-> id, name |-> n]
      /\ \A j \in Entries : j # i => nameEntries'[j] = nameEntries[j]
  BY DEF RegistryInv, Shape
<1> QED
  BY <1>1 DEF AnswerInv, EntriesOK, Empty

LEMMA HandleAnswers ==
  ASSUME AnswerInv, RegistryInv, Mailboxes, Domains, Handle
  PROVE  AnswerInv'
<1> USE BootSlots
<1>1. PICK s \in Clients :
        \/ RegisterNew(s) \/ RegisterTooLong(s) \/ RegisterAgain(s)
        \/ RegisterNoSpace(s) \/ WhoIsFound(s) \/ WhoIsNotFound(s)
        \/ Quit(s) \/ Invalid(s)
  BY DEF Handle
<1>2. \E op, rop, l : /\ Handles(s, op, rop, l) /\ rop # "NONE"
                      /\ l \in {"reply", "lastReply"}
  BY <1>1 DEF RegisterNew, RegisterTooLong, RegisterAgain, RegisterNoSpace, WhoIsFound,
              WhoIsNotFound, Quit, Invalid
<1>3. Sender[1] = s /\ query[s].name \in Names
  <2>1. Sender[1] = s /\ Size(s) = QueryLen
    BY <1>2 DEF Handles
  <2> QED
    BY <2>1, NameServerAssumption DEF Size, QueryLen, PingLen, RegistryInv, QueriesOK
<1>4. EntriesOK'
  <2>1. CASE UNCHANGED nameEntries
    BY <2>1 DEF AnswerInv, EntriesOK, Empty
  <2>2. ASSUME NEW i \in Entries,
               nameEntries' = [nameEntries EXCEPT ![i] =
                                 [tid |-> Sender, name |-> query[s].name]]
        PROVE  EntriesOK'
    BY <1>3, <2>2, EntryAnswers
  <2>3. ASSUME NEW i \in Entries, nameEntries' = [nameEntries EXCEPT ![i].tid = Sender]
        PROVE  EntriesOK'
    <3>1. PICK id : id = Sender
      OBVIOUS
    <3>2. PICK n : n = nameEntries[i].name
      OBVIOUS
    <3>3. nameEntries' = [nameEntries EXCEPT ![i] = [tid |-> id, name |-> n]]
      BY <2>3, <3>1, <3>2, OnlyTid DEF RegistryInv
    <3>4. n \in Names \cup {NoName} /\ id[1] \in Clients
      BY <1>3, <3>1, <3>2 DEF AnswerInv, EntriesOK
    <3> QED
      BY <3>3, <3>4, EntryAnswers
  <2> QED
    BY <1>1, <2>1, <2>2, <2>3
    DEF RegisterNew, RegisterTooLong, RegisterAgain, RegisterNoSpace, WhoIsFound,
        WhoIsNotFound, Quit, Invalid
<1>5. PICK op, rop, l : /\ Handles(s, op, rop, l) /\ rop # "NONE"
                        /\ l \in {"reply", "lastReply"}
  BY <1>2
<1>6. /\ At(Server, "handle", l) /\ Returns(Server) /\ sender' = Sender
      /\ UNCHANGED <<query, reply>> /\ replyOperation' # "NONE"
  BY <1>5 DEF Handles, clients
<1> QED
  BY <1>4, <1>5, <1>6, TakenAnswers

LEMMA ServerStepAnswers ==
  ASSUME AnswerInv, RegistryInv, Mailboxes, Domains, ServerStep
  PROVE  AnswerInv'
<1> USE BootSlots
<1>1. CASE ServerStarts
  BY <1>1, AnswersQuiet DEF ServerStarts, At, calls, locals, clients, Domains
<1>2. CASE Ping
  <2>1. EntriesOK'
    BY <1>2 DEF Ping, AnswerInv, EntriesOK, Empty
  <2> QED
    BY <1>2, <2>1, TakenAnswers DEF Ping, clients
<1>3. CASE ServerExits
  <2>1. /\ pc[Server] = "exit" /\ pc'[Server] = "gone" /\ \A c \in Clients : pc'[c] = pc[c]
        /\ phase[Server] = "ready" /\ phase' = [phase EXCEPT ![Server] = "absent"]
        /\ UNCHANGED <<mail, outcome, reply, query, nameEntries, sender, replyOperation>>
    BY <1>3 DEF ServerExits, At, Leave, Domains, Plain, locals, clients
  <2>2. MailOK'
    BY <2>1 DEF AnswerInv, MailOK, Domains
  <2>3. HandOK' /\ \A c \in Clients : ClientOK(c)'
    BY <2>1 DEF AnswerInv, HandOK, InHand, ClientOK, Domains
  <2> QED
    BY <2>1, <2>2, <2>3 DEF AnswerInv, EntriesOK, Empty
<1> QED
  BY <1>1, <1>2, <1>3, ReceiveAnswers, ReplyAnswers, HandleAnswers DEF ServerStep

LEMMA ClientAnswers ==
  ASSUME AnswerInv, ReadyInv, NEW c \in Clients,
         Locate(c) \/ (\E q \in Queries[c] : SendQuery(c, q)) \/ Answered(c)
  PROVE  AnswerInv'
<1> USE BootSlots
<1>0. Domains /\ Mailboxes /\ phase[c] = "ready"
  BY DEF ReadyInv, BootInv, Locate, SendQuery, Answered, Send, Returns, Collect
<1>1. CASE Locate(c)
  BY <1>0, <1>1, AnswersQuiet DEF Locate, At, calls, Plain, locals, clients, Domains
<1>2. ASSUME NEW q \in Queries[c], SendQuery(c, q) PROVE AnswerInv'
  <2>1. nameserverTid[1] = Server
    BY <1>0 DEF ReadyInv, BootInv, Booting, Announced
  <2>2. /\ Send(c, Server, q.size, q.size)
        /\ pc' = [pc EXCEPT ![c] = "answered"] /\ pc[c] = "send"
        /\ query' = [query EXCEPT ![c] = q]
        /\ UNCHANGED <<nameEntries, sender, replyOperation, reply>>
    BY <1>2, <2>1 DEF SendQuery, At, locals
  <2>3. pc'[c] = "answered" /\ \A x \in Slots \ {c} : pc'[x] = pc[x]
    BY <1>0, <2>2 DEF Domains
  <2>4. /\ MailOK' /\ phase'[c] \in {"sending", "awaitingReply"}
        /\ \A x \in Slots \ {c, Server} : phase'[x] = phase[x]
        /\ \A s \in Slots : InHand(s)' => phase'[s] = "awaitingReply"
    BY <1>0, <2>2, <2>3, SendAnswers
  <2>5. \A x \in Clients \ {c} : query'[x] = query[x]
    BY <2>2 DEF ReadyInv
  <2>6. HandOK'
    <3>1. pc[Server] = "echo" => sender[1] # c /\ Size(sender[1]) # QueryLen
      BY <1>0 DEF AnswerInv, HandOK, InHand
    <3>2. pc[Server] = "echo" => Size(sender[1])' # QueryLen
      BY <2>2, <3>1 DEF Size
    <3> QED
      BY <2>2, <2>3, <2>4, <3>2 DEF AnswerInv, HandOK
  <2>7. ASSUME NEW x \in Clients PROVE ClientOK(x)'
    <3>1. CASE x = c
      BY <2>2, <2>3, <2>4, <3>1 DEF AnswerInv, ClientOK
    <3>2. CASE x # c
      BY <2>2, <2>3, <2>4, <2>5, <3>2 DEF AnswerInv, ClientOK
    <3> QED
      BY <3>1, <3>2
  <2> QED
    BY <2>2, <2>4, <2>6, <2>7 DEF AnswerInv, EntriesOK, Empty
<1>3. CASE Answered(c)
  <2>1. /\ pc[c] = "answered" /\ pc'[c] = "idle" /\ \A x \in Slots \ {c} : pc'[x] = pc[x]
        /\ outcome' = [outcome EXCEPT ![c] = Nothing]
        /\ query' = [query EXCEPT ![c] = NoQuery]
        /\ reply' = [reply EXCEPT ![c] = NoReply]
        /\ UNCHANGED <<phase, mail, nameEntries, sender, replyOperation>>
    BY <1>0, <1>3 DEF Answered, At, Returns, Collect, locals, Domains
  <2>2. outcome'[Server] = outcome[Server]
    BY <1>0, <2>1 DEF Mailboxes
  <2>3. HandOK'
    <3>1. pc[Server] = "echo" => sender[1] # c /\ Size(sender[1]) # QueryLen
      BY <1>0 DEF AnswerInv, HandOK, InHand
    <3>2. pc[Server] = "echo" => Size(sender[1])' # QueryLen
      BY <2>1, <3>1 DEF Size
    <3> QED
      BY <2>1, <2>2, <3>2 DEF AnswerInv, HandOK, InHand
  <2>4. ASSUME NEW x \in Clients PROVE ClientOK(x)'
    <3>1. CASE x = c
      BY <1>0, <2>1, <3>1 DEF AnswerInv, ClientOK
    <3>2. CASE x # c
      BY <2>1, <3>2 DEF AnswerInv, ClientOK
    <3> QED
      BY <3>1, <3>2
  <2>5. DOMAIN reply' = Clients
    BY <2>1 DEF AnswerInv
  <2> QED
    BY <2>1, <2>3, <2>4, <2>5 DEF AnswerInv, EntriesOK, Empty, MailOK
<1> QED
  BY <1>1, <1>2, <1>3

LEMMA BootStepAnswers ==
  ASSUME AnswerInv, ReadyInv, BootStep
  PROVE  AnswerInv'
<1> USE BootSlots
<1>0. Domains /\ Mailboxes
  BY DEF ReadyInv, BootInv
<1>1. CASE At(Init0, "send", "first") /\ Send(Init0, Server, PingLen, PingLen) /\ Plain
  <2>1. /\ \A x \in Slots \ {Init0} : pc'[x] = pc[x]
        /\ UNCHANGED <<reply, query, nameEntries, sender, replyOperation>>
    BY <1>0, <1>1 DEF At, Plain, locals, clients, Domains
  <2>2. /\ MailOK'
        /\ \A x \in Slots \ {Init0, Server} : phase'[x] = phase[x]
        /\ \A s \in Slots : InHand(s)' => phase'[s] = "awaitingReply"
    BY <1>0, <1>1, <2>1, SendAnswers
  <2>3. HandOK'
    BY <2>1, <2>2 DEF AnswerInv, HandOK, Size
  <2>4. \A c \in Clients : ClientOK(c)'
    BY <2>1, <2>2 DEF AnswerInv, ClientOK
  <2> QED
    BY <2>1, <2>2, <2>3, <2>4 DEF AnswerInv, EntriesOK, Empty
<1>2. CASE \/ At(Init0, "create", "send") /\ Start(Init0, Server) /\ Plain
           \/ At(Init0, "first", "idle") /\ Start(Init0, First) /\ Plain
  <2>1. /\ \A x \in Slots \ {Init0} : pc'[x] = pc[x]
        /\ UNCHANGED <<reply, query, nameEntries, sender, replyOperation>>
    BY <1>0, <1>2 DEF At, Plain, locals, clients, Domains
  <2> QED
    BY <1>0, <1>2, <2>1, StartAnswers
<1> QED
  BY <1>1, <1>2 DEF BootStep

LEMMA FirstTaskAnswers ==
  ASSUME AnswerInv, ReadyInv, FirstTask
  PROVE  AnswerInv'
<1> USE BootSlots
<1>0. Domains /\ Mailboxes
  BY DEF ReadyInv, BootInv
<1>1. ASSUME NEW c \in Unborn,
             At(First, "others", "others") /\ Start(First, c) /\ Plain
      PROVE  AnswerInv'
  <2>1. (\A x \in Slots : pc'[x] = pc[x])
        /\ UNCHANGED <<reply, query, nameEntries, sender, replyOperation>>
        /\ c \in Slots
    BY <1>0, <1>1 DEF At, Plain, locals, clients, Domains, Unborn
  <2> QED
    BY <1>0, <1>1, <2>1, StartAnswers
<1>2. CASE Unborn = {} /\ At(First, "others", "idle") /\ UNCHANGED calls /\ Plain
  BY <1>0, <1>2, AnswersQuiet DEF At, calls, Plain, locals, clients, Domains
<1> QED
  BY <1>1, <1>2 DEF FirstTask

LEMMA AnswersStep ==
  ASSUME AnswerInv, ReadyInv, RegistryInv, [ServerNext]_serverVars
  PROVE  AnswerInv'
<1> USE BootSlots
<1>0. Domains /\ Mailboxes
  BY DEF ReadyInv, BootInv
<1>1. ASSUME NEW t \in Slots, Resume(t) PROVE AnswerInv'
  BY <1>0, <1>1, AnswersQuiet
  DEF Resume, Ignores, Returns, Collect, Plain, locals, clients, Mailboxes
<1>2. CASE UNCHANGED serverVars
  BY <1>2, AnswersQuiet DEF serverVars, calls, locals, clients
<1> QED
  BY <1>0, <1>1, <1>2, BootStepAnswers, FirstTaskAnswers, ServerStepAnswers, ClientAnswers
  DEF ServerNext

-----------------------------------------------------------------------------
(* The registry as Registry sees it.                                       *)

\* A name is owned by the task in the one entry that has it.
OwnersKnown ==
  \A n \in Names :
    /\ (\A i \in Entries : ~Named(i, n)) => Owner(n) = -1
    /\ \A i \in Entries :
         Named(i, n) => ~Empty(i) /\ Owner(n) = nameEntries[i].tid[1]

LEMMA Owners == RegistryInv => OwnersKnown
<1> SUFFICES ASSUME RegistryInv, NEW n \in Names
             PROVE  /\ (\A i \in Entries : ~Named(i, n)) => Owner(n) = -1
                    /\ \A i \in Entries :
                         Named(i, n) => ~Empty(i) /\ Owner(n) = nameEntries[i].tid[1]
  BY DEF OwnersKnown
<1>1. n # NoName
  BY NameServerAssumption
<1>2. (\A i \in Entries : ~Named(i, n)) => Owner(n) = -1
  BY DEF Owner, EntriesOf
<1>3. ASSUME NEW i \in Entries, Named(i, n)
      PROVE  ~Empty(i) /\ Owner(n) = nameEntries[i].tid[1]
  <2>1. EntriesOf(n) = {i}
    BY <1>1, <1>3 DEF EntriesOf, RegistryInv, RegistryOK, Named
  <2>2. (CHOOSE j \in EntriesOf(n) : TRUE) = i
    BY <2>1
  <2> QED
    BY <1>1, <1>3, <2>1, <2>2 DEF Owner, RegistryInv, RegistryOK, Named
<1> QED
  BY <1>2, <1>3

\* The tasks that own something are clients, so that none of them is nobody.
LEMMA OwnersAreClients ==
  ASSUME RegistryInv, EntriesOK, NEW n \in Names, NEW i \in Entries, Named(i, n)
  PROVE  Owner(n) \in Clients /\ Owner(n) # -1 /\ nameEntries[i].tid # NoTid
           /\ nameEntries[i].tid # MinusOne
<1>1. ~Empty(i) /\ Owner(n) = nameEntries[i].tid[1]
  BY Owners DEF OwnersKnown
<1>2. nameEntries[i].tid[1] \in Clients
  BY <1>1 DEF EntriesOK
<1>3. -1 \notin Clients
  BY NameServerAssumption
<1> QED
  BY <1>1, <1>2, <1>3 DEF Empty, MinusOne

LEMMA KnownNames ==
  ASSUME RegistryInv, EntriesOK, NEW n \in Names
  PROVE  n \in R!Known <=> \E i \in Entries : Named(i, n)
<1>1. n \in R!Known <=> Owner(n) # -1
  BY DEF R!Known, R!Nobody
<1> QED
  BY <1>1, Owners, OwnersAreClients DEF OwnersKnown

LostEntries  == {i \in Entries : ~Empty(i) /\ Named(i, NoName)}
NamedEntries == {i \in Entries : ~Named(i, NoName)}

\* Registry counts as FiniteSets does.
LEMMA SameCount == ASSUME NEW S PROVE R!Cardinality(S) = Cardinality(S)
BY DEF R!Cardinality, Cardinality

\* There are as many entries with a name as names that somebody owns.
LEMMA AsManyNames ==
  ASSUME RegistryInv, EntriesOK
  PROVE  Cardinality(R!Known) = Cardinality(NamedEntries)
<1> DEFINE f == [i \in NamedEntries |-> nameEntries[i].name]
<1>1. \A i \in NamedEntries : nameEntries[i].name \in Names
  BY DEF NamedEntries, EntriesOK, Named
<1>2. f \in [NamedEntries -> R!Known]
  <2>1. \A i \in NamedEntries : nameEntries[i].name \in R!Known
    BY <1>1, KnownNames DEF NamedEntries, Named
  <2> QED
    BY <2>1
<1>3. \A i, j \in NamedEntries : f[i] = f[j] => i = j
  BY DEF NamedEntries, RegistryInv, RegistryOK, Named
<1>4. \A n \in R!Known : \E i \in NamedEntries : f[i] = n
  <2> SUFFICES ASSUME NEW n \in R!Known PROVE \E i \in NamedEntries : f[i] = n
    OBVIOUS
  <2>1. n \in Names
    BY DEF R!Known
  <2>2. PICK i \in Entries : Named(i, n)
    BY <2>1, KnownNames
  <2>3. i \in NamedEntries
    BY <2>1, <2>2, NameServerAssumption DEF NamedEntries, Named
  <2> QED
    BY <2>2, <2>3 DEF Named
<1>5. f \in Bijection(NamedEntries, R!Known)
  BY <1>2, <1>3, <1>4 DEF Bijection, Injection, IsInjective, Surjection
<1>6. IsFiniteSet(NamedEntries)
  <2>1. IsFiniteSet(Entries)
    BY FS_Interval, NameServerAssumption DEF Entries
  <2>2. NamedEntries \in SUBSET Entries
    BY DEF NamedEntries
  <2> QED
    BY <2>1, <2>2, FS_Subset
<1> QED
  BY <1>5, <1>6, FS_Bijection DEF ExistsBijection

\* The registry is full when no entry is empty.
LEMMA FullMeansNoneEmpty ==
  ASSUME RegistryInv, EntriesOK
  PROVE  R!Full <=> \A i \in Entries : ~Empty(i)
<1> DEFINE Used == {i \in Entries : ~Empty(i)}
<1>1. /\ IsFiniteSet(Entries) /\ Cardinality(Entries) = MaxNames
  BY FS_Interval, NameServerAssumption DEF Entries
<1>2. Used = NamedEntries \cup LostEntries /\ NamedEntries \cap LostEntries = {}
  BY DEF NamedEntries, LostEntries, RegistryInv, RegistryOK
<1>3. /\ IsFiniteSet(NamedEntries) /\ IsFiniteSet(LostEntries) /\ IsFiniteSet(Used)
      /\ Cardinality(Used) = MaxNames => Used = Entries
  BY <1>1, FS_Subset DEF NamedEntries, LostEntries
<1>4. Cardinality(Used) = Cardinality(NamedEntries) + Cardinality(LostEntries)
  <2>1. Cardinality(Used) = Cardinality(NamedEntries) + Cardinality(LostEntries)
                              - Cardinality(NamedEntries \cap LostEntries)
    BY <1>2, <1>3, FS_Union
  <2>2. Cardinality(NamedEntries \cap LostEntries) = 0
    BY <1>2, FS_EmptySet
  <2>3. Cardinality(NamedEntries) \in Nat /\ Cardinality(LostEntries) \in Nat
    BY <1>3, FS_CardinalityType
  <2> QED
    BY <2>1, <2>2, <2>3
<1>5. R!Full <=> Cardinality(Used) = MaxNames
  <2> HIDE DEF Used
  <2>1. R!Full <=> R!Cardinality(R!Known) + Cardinality(LostEntries) = MaxNames
    BY DEF R!Full, LostEntries
  <2> QED
    BY <1>4, <2>1, AsManyNames, SameCount
<1>6. (\A i \in Entries : ~Empty(i)) <=> Used = Entries
  OBVIOUS
<1> QED
  BY <1>1, <1>3, <1>5, <1>6

-----------------------------------------------------------------------------
(* Each step of the name server and its clients is one of Registry or none. *)

LEMMA SameCall ==
  ASSUME NEW c, Asking(c)' <=> Asking(c),
         Asking(c) => query'[c] = query[c] /\ Decided(c)' = Decided(c)
  PROVE  CallOf(c)' = CallOf(c)
BY DEF CallOf

LEMMA SameRegistry ==
  ASSUME UNCHANGED nameEntries, \A c \in Clients : CallOf(c)' = CallOf(c)
  PROVE  UNCHANGED R!registryVars
<1>1. \A n \in Names : Owner(n)' = Owner(n)
  BY DEF Owner, EntriesOf, Named
<1>2. [n \in Names |-> Owner(n)]' = [n \in Names |-> Owner(n)]
  BY <1>1
<1>3. [c \in Clients |-> CallOf(c)]' = [c \in Clients |-> CallOf(c)]
  OBVIOUS
<1>4. Cardinality({i \in Entries : ~Empty(i) /\ Named(i, NoName)})' =
        Cardinality({i \in Entries : ~Empty(i) /\ Named(i, NoName)})
  BY DEF Empty, Named
<1> QED
  BY <1>2, <1>3, <1>4 DEF R!registryVars

\* A step between whose ends nothing is decided, sent or taken.
LEMMA QuietRegistry ==
  ASSUME UNCHANGED <<nameEntries, reply, query>>,
         \A c \in Clients : pc'[c] = "answered" <=> pc[c] = "answered",
         \/ pc'[Server] = pc[Server] /\ UNCHANGED <<sender, replyOperation, returnValue>>
         \/ /\ pc[Server] \notin {"reply", "lastReply"}
            /\ pc'[Server] \notin {"reply", "lastReply"}
  PROVE  UNCHANGED R!registryVars
<1>1. \A c \in Clients : Asking(c)' <=> Asking(c)
  BY DEF Asking, IsCall
<1>2. \A c \in Clients : Decided(c)' = Decided(c)
  BY DEF Decided
<1>3. \A c \in Clients : CallOf(c)' = CallOf(c)
  BY <1>1, <1>2, SameCall
<1> QED
  BY <1>3, SameRegistry

\* Nothing new is decided for a client that is not awaiting a reply.
LEMMA NothingNew ==
  ASSUME AnswerInv, NEW c \in Slots, phase[c] # "awaitingReply"
  PROVE  Decided(c) = reply[c]
BY DEF AnswerInv, HandOK, InHand, Decided

LEMMA RepliesMaps ==
  ASSUME AnswerInv, Domains, Replies
  PROVE  UNCHANGED R!registryVars
<1> USE BootSlots
<1>1. /\ pc[Server] \in {"reply", "lastReply"} /\ pc'[Server] \in {"receive", "exit"}
      /\ \A c \in Clients : pc'[c] = pc[c]
      /\ reply' = [reply EXCEPT
           ![sender[1]] = [op |-> replyOperation, value |-> returnValue]]
      /\ UNCHANGED <<nameEntries, query>>
  BY DEF Replies, At, Domains
<1>2. ASSUME NEW c \in Clients PROVE CallOf(c)' = CallOf(c)
  <2>1. Asking(c)' <=> Asking(c)
    BY <1>1 DEF Asking, IsCall
  <2>2. Decided(c)' = Decided(c)
    BY <1>1 DEF Decided, AnswerInv
  <2> QED
    BY <1>1, <2>1, <2>2, SameCall
<1> QED
  BY <1>1, <1>2, SameRegistry

LEMMA SendQueryMaps ==
  ASSUME AnswerInv, ReadyInv, RegistryInv, AnswerInv',
         NEW c \in Clients, NEW q \in Queries[c], SendQuery(c, q)
  PROVE  [R!Next]_(R!registryVars)
<1> USE BootSlots
<1>1. /\ pc[c] = "send" /\ pc'[c] = "answered" /\ phase[c] = "ready"
      /\ \A x \in Slots \ {c} : pc'[x] = pc[x]
      /\ query'[c] = q /\ \A x \in Clients \ {c} : query'[x] = query[x]
      /\ UNCHANGED <<nameEntries, reply, sender, replyOperation, returnValue>>
  BY DEF SendQuery, Send, At, ReadyInv, BootInv, Domains, RegistryInv, QueriesOK, locals
<1>2. q.name \in Names
  BY NameServerAssumption
<1>3. ASSUME NEW x \in Clients \ {c} PROVE CallOf(x)' = CallOf(x)
  <2>1. Asking(x)' <=> Asking(x)
    BY <1>1, <1>3 DEF Asking, IsCall
  <2>2. Decided(x)' = Decided(x)
    BY <1>1 DEF Decided
  <2> QED
    BY <1>1, <1>3, <2>1, <2>2, SameCall
<1>4. reply[c] = NoReply /\ Decided(c) = NoReply /\ Decided(c)' = NoReply
  <2>1. reply[c] = NoReply
    BY <1>1 DEF AnswerInv, ClientOK
  <2>2. Decided(c) = reply[c]
    BY <1>1, NothingNew
  <2>3. Decided(c)' = Decided(c)
    BY <1>1 DEF Decided
  <2> QED
    BY <2>1, <2>2, <2>3
<1>5. ~Asking(c) /\ CallOf(c) = R!NoCall
  BY <1>1 DEF Asking, CallOf, Says, Gave, NoName, R!NoCall, R!Pending, R!Answer, R!Nobody
<1>6. CASE ~IsCall(q)
  <2>1. ~Asking(c)'
    BY <1>1, <1>6 DEF Asking, IsCall
  <2>2. CallOf(c)' = CallOf(c)
    BY <1>5, <2>1, SameCall
  <2> QED
    BY <1>1, <1>3, <2>2, SameRegistry
<1>7. CASE IsCall(q)
  <2>1. Asking(c)'
    BY <1>1, <1>7 DEF Asking, IsCall
  <2>2. CallOf(c)' = [op |-> q.op, name |-> q.name, answer |-> R!Pending]
    BY <1>1, <1>4, <2>1 DEF CallOf, Says, Gave, R!Pending, R!Answer, R!Nobody
  <2>3. [x \in Clients |-> CallOf(x)]' =
          [[x \in Clients |-> CallOf(x)] EXCEPT ![c] =
             [op |-> q.op, name |-> q.name, answer |-> R!Pending]]
    BY <1>3, <2>2
  <2>4. /\ [n \in Names |-> Owner(n)]' = [n \in Names |-> Owner(n)]
        /\ Cardinality({i \in Entries : ~Empty(i) /\ Named(i, NoName)})' =
             Cardinality({i \in Entries : ~Empty(i) /\ Named(i, NoName)})
    BY <1>1 DEF Owner, EntriesOf, Named, Empty
  <2>5. R!Ask(c, q.op, q.name)
    BY <1>5, <2>3, <2>4 DEF R!Ask
  <2>6. q.op \in {"REGISTER", "WHOIS"}
    BY <1>7 DEF IsCall
  <2> QED
    BY <1>2, <2>5, <2>6 DEF R!Next
<1> QED
  BY <1>6, <1>7

LEMMA AnsweredMaps ==
  ASSUME AnswerInv, ReadyInv, RegistryInv, NEW c \in Clients, Answered(c)
  PROVE  [R!Next]_(R!registryVars)
<1> USE BootSlots
<1>1. /\ pc[c] = "answered" /\ pc'[c] = "idle" /\ phase[c] = "ready"
      /\ \A x \in Slots \ {c} : pc'[x] = pc[x]
      /\ \A x \in Clients \ {c} : query'[x] = query[x] /\ reply'[x] = reply[x]
      /\ UNCHANGED <<nameEntries, sender, replyOperation, returnValue>>
  BY DEF Answered, Returns, Collect, At, ReadyInv, BootInv, Domains, RegistryInv, QueriesOK,
         AnswerInv, locals
<1>2. ASSUME NEW x \in Clients \ {c} PROVE CallOf(x)' = CallOf(x)
  <2>1. Asking(x)' <=> Asking(x)
    BY <1>1, <1>2 DEF Asking, IsCall
  <2>2. Decided(x)' = Decided(x)
    BY <1>1, <1>2 DEF Decided
  <2> QED
    BY <1>1, <1>2, <2>1, <2>2, SameCall
<1>3. ~Asking(c)' /\ CallOf(c)' = R!NoCall
  BY <1>1 DEF Asking, CallOf, Says, Gave, NoName, R!NoCall, R!Pending, R!Answer, R!Nobody
<1>4. CASE ~Asking(c)
  <2>1. CallOf(c)' = CallOf(c)
    BY <1>3, <1>4, SameCall
  <2> QED
    BY <1>1, <1>2, <2>1, SameRegistry
<1>5. CASE Asking(c)
  <2>1. Decided(c) = reply[c] /\ reply[c] # NoReply
    BY <1>1, <1>5, NothingNew DEF Asking, IsCall, AnswerInv, ClientOK
  <2>2. Says(Result(query[c], reply[c])) # R!Pending
    BY DEF Says, Result, WhoIsResult, RegisterAsResult, Gave, R!Pending, R!Answer, R!Nobody
  <2>3. CallOf(c).answer # R!Pending
    BY <1>5, <2>1, <2>2 DEF CallOf
  <2>4. [x \in Clients |-> CallOf(x)]' =
          [[x \in Clients |-> CallOf(x)] EXCEPT ![c] = R!NoCall]
    BY <1>2, <1>3
  <2>5. /\ [n \in Names |-> Owner(n)]' = [n \in Names |-> Owner(n)]
        /\ Cardinality({i \in Entries : ~Empty(i) /\ Named(i, NoName)})' =
             Cardinality({i \in Entries : ~Empty(i) /\ Named(i, NoName)})
    BY <1>1 DEF Owner, EntriesOf, Named, Empty
  <2>6. R!Return(c)
    BY <2>3, <2>4, <2>5 DEF R!Return
  <2> QED
    BY <2>6 DEF R!Next
<1> QED
  BY <1>4, <1>5

\* The server decides about the query of one client.
LEMMA HandledCall ==
  ASSUME AnswerInv, ReadyInv, NEW s \in Clients, NEW op, NEW rop,
         NEW l \in {"reply", "lastReply"}, Handles(s, op, rop, l), rop # "NONE"
  PROVE  /\ \A c \in Clients \ {s} : CallOf(c)' = CallOf(c)
         /\ op \notin {"REGISTER", "WHOIS"} => CallOf(s)' = CallOf(s)
         /\ op \in {"REGISTER", "WHOIS"} =>
              /\ CallOf(s) = [op |-> op, name |-> query[s].name, answer |-> R!Pending]
              /\ CallOf(s)' = [op |-> op, name |-> query[s].name, answer |->
                   Says(Result(query[s], [op |-> rop, value |-> returnValue']))]
         /\ query[s].op = op
<1> USE BootSlots
<1>1. /\ pc[Server] = "handle" /\ pc'[Server] = l /\ \A c \in Clients : pc'[c] = pc[c]
      /\ sender'[1] = s /\ replyOperation' = rop /\ UNCHANGED <<query, reply>>
      /\ query[s].op = op /\ query[s].size = QueryLen /\ InHand(s)
  <2>1. query[s].size = QueryLen
    BY NameServerAssumption DEF Handles, Size, QueryLen, PingLen
  <2> QED
    BY <2>1 DEF Handles, At, ReadyInv, BootInv, Domains, Sender, clients, InHand, Returns
<1>2. pc[s] = "answered" /\ reply[s] = NoReply
  BY <1>1 DEF AnswerInv, HandOK, ClientOK
<1>3. \A c \in Clients : Asking(c)' <=> Asking(c)
  BY <1>1 DEF Asking, IsCall
<1>4. Asking(s) <=> op \in {"REGISTER", "WHOIS"}
  BY <1>1, <1>2 DEF Asking, IsCall
<1>5. ASSUME NEW c \in Clients \ {s} PROVE CallOf(c)' = CallOf(c)
  <2>1. Decided(c)' = Decided(c)
    BY <1>1, <1>5 DEF Decided
  <2> QED
    BY <1>1, <1>3, <1>5, <2>1, SameCall
<1>6. op \notin {"REGISTER", "WHOIS"} => CallOf(s)' = CallOf(s)
  BY <1>3, <1>4, SameCall
<1>7. /\ Decided(s) = NoReply
      /\ Decided(s)' = [op |-> rop, value |-> returnValue'] /\ Decided(s)' # NoReply
  <2>1. Decided(s) = NoReply
    BY <1>1, <1>2 DEF Decided
  <2>2. Decided(s)' = [op |-> rop, value |-> returnValue']
    BY <1>1 DEF Decided
  <2>3. [op |-> rop, value |-> returnValue'] # NoReply
    BY DEF NoReply
  <2> QED
    BY <2>1, <2>2, <2>3
<1>8. ASSUME op \in {"REGISTER", "WHOIS"}
      PROVE  /\ CallOf(s) = [op |-> op, name |-> query[s].name, answer |-> R!Pending]
             /\ CallOf(s)' = [op |-> op, name |-> query[s].name, answer |->
                   Says(Result(query[s], [op |-> rop, value |-> returnValue']))]
  <2>1. Asking(s) /\ Asking(s)'
    BY <1>3, <1>4, <1>8
  <2>2. CallOf(s) = [op |-> op, name |-> query[s].name, answer |-> R!Pending]
    BY <1>1, <1>7, <2>1 DEF CallOf, Says, Gave, R!Pending, R!Answer, R!Nobody
  <2>3. query'[s] = query[s]
    BY <1>1
  <2>4. CallOf(s)' = [op |-> query'[s].op, name |-> query'[s].name, answer |->
                        Says(Result(query'[s], Decided(s)'))]
    BY <1>7, <2>1 DEF CallOf, Says, Result, WhoIsResult, RegisterAsResult, Gave
  <2> QED
    BY <1>1, <1>7, <2>2, <2>3, <2>4
<1> QED
  BY <1>1, <1>5, <1>6, <1>8

LEMMA Effect ==
  ASSUME NEW s \in Clients, NEW op, NEW n, NEW a,
         \A c \in Clients \ {s} : CallOf(c)' = CallOf(c),
         CallOf(s) = [op |-> op, name |-> n, answer |-> R!Pending],
         CallOf(s)' = [op |-> op, name |-> n, answer |-> a]
  PROVE  R!TakesEffect(s, op, a)
<1>1. [CallOf(s) EXCEPT !.answer = a] = CallOf(s)'
  OBVIOUS
<1>2. [c \in Clients |-> CallOf(c)]' =
        [[c \in Clients |-> CallOf(c)] EXCEPT ![s] = CallOf(s)']
  OBVIOUS
<1>3. [c \in Clients |-> CallOf(c)][s] = CallOf(s)
  OBVIOUS
<1>4. [c \in Clients |-> CallOf(c)]' =
        [[c \in Clients |-> CallOf(c)] EXCEPT ![s].answer = a]
  BY <1>1, <1>2, <1>3
<1> QED
  BY <1>4 DEF R!TakesEffect

\* What the calls of REGISTER say.
LEMMA RegisterSays ==
  ASSUME NEW q, q.op = "REGISTER", NEW v
  PROVE  /\ Says(Result(q, [op |-> "REGISTER", value |-> v])) = R!Answer("OK", R!Nobody)
         /\ Says(Result(q, [op |-> "TOO_LONG", value |-> v])) = R!Answer("TOO_LONG", R!Nobody)
         /\ Says(Result(q, [op |-> "NO_SPACE", value |-> v])) = R!Answer("NO_SPACE", R!Nobody)
BY DEF Says, Result, RegisterAsResult, Gave, R!Answer, R!Nobody

LEMMA RegisterCall ==
  ASSUME AnswerInv, ReadyInv, NEW s \in Clients, NEW rop,
         Handles(s, "REGISTER", rop, "reply"), rop # "NONE",
         NEW a, \A v : Says(Result(query[s], [op |-> rop, value |-> v])) = a
  PROVE  /\ R!TakesEffect(s, "REGISTER", a)
         /\ [c \in Clients |-> CallOf(c)][s].name = query[s].name
<1>1. PICK op : op = "REGISTER"
  OBVIOUS
<1>2. PICK l \in {"reply", "lastReply"} : l = "reply"
  OBVIOUS
<1>3. PICK n : n = query[s].name
  OBVIOUS
<1>4. Handles(s, op, rop, l)
  BY <1>1, <1>2
<1>5. /\ \A c \in Clients \ {s} : CallOf(c)' = CallOf(c)
      /\ op \in {"REGISTER", "WHOIS"} =>
           /\ CallOf(s) = [op |-> op, name |-> query[s].name, answer |-> R!Pending]
           /\ CallOf(s)' = [op |-> op, name |-> query[s].name, answer |->
                Says(Result(query[s], [op |-> rop, value |-> returnValue']))]
  BY <1>4, HandledCall
<1>6. /\ CallOf(s) = [op |-> op, name |-> n, answer |-> R!Pending]
      /\ CallOf(s)' = [op |-> op, name |-> n, answer |-> a]
  BY <1>1, <1>3, <1>5
<1>7. R!TakesEffect(s, op, a)
  BY <1>5, <1>6, Effect
<1> QED
  BY <1>1, <1>3, <1>6, <1>7

LEMMA WhoIsSays ==
  ASSUME NEW q, q.op = "WHOIS", NEW v
  PROVE  /\ v = MinusOne => Says(Result(q, [op |-> "WHOIS", value |-> v])) = R!Unknown
         /\ v # MinusOne /\ v # NoTid =>
              Says(Result(q, [op |-> "WHOIS", value |-> v])) = R!Answer("IS", v[1])
BY DEF Says, Result, WhoIsResult, Gave, R!Answer, R!Nobody, R!Unknown

OwnerMap == [n \in Names |-> Owner(n)]

\* The entry i goes to s with name n; no other entry had the name.
LEMMA OwnerChanges ==
  ASSUME RegistryInv, RegistryInv', NEW s \in Clients, NEW i \in Entries, NEW n \in Names,
         nameEntries'[i].name = n, nameEntries'[i].tid[1] = s,
         \A j \in Entries : j # i => nameEntries'[j] = nameEntries[j],
         nameEntries[i].name \in {NoName, n}
  PROVE  OwnerMap' = [OwnerMap EXCEPT ![n] = s]
<1>1. OwnersKnown /\ OwnersKnown'
  BY Owners, PTL
<1>2. Owner(n)' = s
  BY <1>1 DEF OwnersKnown, Named
<1>3. ASSUME NEW m \in Names, m # n PROVE Owner(m)' = Owner(m)
  <2>1. nameEntries[i].name # m /\ nameEntries'[i].name # m
    BY <1>3, NameServerAssumption
  <2>2. CASE \E j \in Entries : Named(j, m)
    <3>1. PICK j \in Entries : Named(j, m)
      BY <2>2
    <3>2. j # i /\ nameEntries'[j] = nameEntries[j]
      BY <2>1, <3>1 DEF Named
    <3> QED
      BY <1>1, <3>1, <3>2 DEF OwnersKnown, Named
  <2>3. CASE \A j \in Entries : ~Named(j, m)
    <3>1. \A j \in Entries : ~Named(j, m)'
      BY <2>1, <2>3 DEF Named
    <3> QED
      BY <1>1, <2>3, <3>1 DEF OwnersKnown
  <2> QED
    BY <2>2, <2>3
<1> QED
  BY <1>2, <1>3 DEF OwnerMap

LEMMA RegisterNewMaps ==
  ASSUME AnswerInv, ReadyInv, RegistryInv, RegistryInv', NEW s \in Clients, RegisterNew(s)
  PROVE  \E n \in Names : R!Register(s, n)
<1>1. PICK i \in Entries :
        /\ Handles(s, "REGISTER", "REGISTER", "reply")
        /\ StopsAt(i, query[s].name) /\ Empty(i) /\ query[s].name \notin LongNames
        /\ nameEntries' = [nameEntries EXCEPT
                             ![i] = [tid |-> Sender, name |-> query[s].name]]
  BY DEF RegisterNew
<1>2. PICK n : n = query[s].name
  OBVIOUS
<1>3. query[s].op = "REGISTER" /\ Sender[1] = s /\ Sender # NoTid
  BY <1>1 DEF Handles
<1>4. /\ R!TakesEffect(s, "REGISTER", R!Answer("OK", R!Nobody))
      /\ [c \in Clients |-> CallOf(c)][s].name = n
  <2>1. \A v : Says(Result(query[s], [op |-> "REGISTER", value |-> v])) =
                 R!Answer("OK", R!Nobody)
    BY <1>3, RegisterSays
  <2>2. PICK a : a = R!Answer("OK", R!Nobody)
    OBVIOUS
  <2>3. /\ R!TakesEffect(s, "REGISTER", a)
        /\ [c \in Clients |-> CallOf(c)][s].name = query[s].name
    BY <1>1, <2>1, <2>2, RegisterCall
  <2> QED
    BY <1>2, <2>2, <2>3
<1>5. n \in Names /\ n # NoName
  BY <1>1, <1>2, NameServerAssumption
  DEF Handles, Size, QueryLen, PingLen, RegistryInv, QueriesOK
<1>6. /\ nameEntries'[i].name = n /\ nameEntries'[i].tid = Sender
      /\ \A j \in Entries : j # i => nameEntries'[j] = nameEntries[j]
      /\ nameEntries[i].name = NoName
  BY <1>1, <1>2 DEF RegistryInv, Shape, RegistryOK, Named
<1>7. OwnerMap' = [OwnerMap EXCEPT ![n] = s]
  BY <1>3, <1>5, <1>6, OwnerChanges
<1>8. LostEntries' = LostEntries
  BY <1>1, <1>5, <1>6 DEF LostEntries, Empty, Named
<1>9. ~R!Full
  BY <1>1, FullMeansNoneEmpty DEF AnswerInv
<1>10. R!Register(s, n)
  BY <1>1, <1>2, <1>3, <1>4, <1>7, <1>8, <1>9 DEF R!Register, OwnerMap, LostEntries
<1> QED
  BY <1>5, <1>10

LEMMA RegisterTooLongMaps ==
  ASSUME AnswerInv, ReadyInv, RegistryInv, RegistryInv', NEW s \in Clients,
         RegisterTooLong(s)
  PROVE  \E n \in Names : R!Register(s, n)
<1>1. PICK i \in Entries :
        /\ Handles(s, "REGISTER", "TOO_LONG", "reply")
        /\ StopsAt(i, query[s].name) /\ Empty(i) /\ query[s].name \in LongNames
        /\ nameEntries' = [nameEntries EXCEPT ![i].tid = Sender]
  BY DEF RegisterTooLong
<1>2. PICK n : n = query[s].name
  OBVIOUS
<1>3. query[s].op = "REGISTER" /\ Sender # NoTid
  BY <1>1 DEF Handles
<1>4. /\ R!TakesEffect(s, "REGISTER", R!Answer("TOO_LONG", R!Nobody))
      /\ [c \in Clients |-> CallOf(c)][s].name = n
  <2>1. \A v : Says(Result(query[s], [op |-> "TOO_LONG", value |-> v])) =
                 R!Answer("TOO_LONG", R!Nobody)
    BY <1>3, RegisterSays
  <2>2. PICK a : a = R!Answer("TOO_LONG", R!Nobody)
    OBVIOUS
  <2>3. /\ R!TakesEffect(s, "REGISTER", a)
        /\ [c \in Clients |-> CallOf(c)][s].name = query[s].name
    BY <1>1, <2>1, <2>2, RegisterCall
  <2> QED
    BY <1>2, <2>2, <2>3
<1>5. n \in Names
  BY <1>1, <1>2, NameServerAssumption
<1>6. /\ nameEntries'[i].name = NoName /\ nameEntries'[i].tid = Sender
      /\ \A j \in Entries : j # i => nameEntries'[j] = nameEntries[j]
      /\ nameEntries[i].name = NoName
  <2>1. PICK id : id = Sender
    OBVIOUS
  <2>2. PICK m : m = nameEntries[i].name
    OBVIOUS
  <2>3. nameEntries' = [nameEntries EXCEPT ![i] = [tid |-> id, name |-> m]]
    BY <1>1, <2>1, <2>2, OnlyTid DEF RegistryInv
  <2>4. m = NoName
    BY <1>1, <2>2 DEF RegistryInv, RegistryOK, Named
  <2> QED
    BY <2>1, <2>2, <2>3, <2>4 DEF RegistryInv, Shape
<1>7. \A m \in Names : Owner(m)' = Owner(m)
  <2>1. OwnersKnown /\ OwnersKnown'
    BY Owners, PTL
  <2>2. \A m \in Names, j \in Entries : Named(j, m)' <=> Named(j, m)
    BY <1>6 DEF Named
  <2>3. \A m \in Names, j \in Entries :
          Named(j, m) => nameEntries'[j] = nameEntries[j]
    BY <1>6, NameServerAssumption DEF Named
  <2> QED
    BY <2>1, <2>2, <2>3 DEF OwnersKnown
<1>8. OwnerMap' = OwnerMap
  BY <1>7 DEF OwnerMap
<1>9. Cardinality(LostEntries') = Cardinality(LostEntries) + 1
  <2>1. i \notin LostEntries /\ LostEntries' = LostEntries \cup {i}
    BY <1>1, <1>3, <1>6 DEF LostEntries, Empty, Named
  <2>2. IsFiniteSet(Entries) /\ LostEntries \in SUBSET Entries
    BY FS_Interval, NameServerAssumption DEF LostEntries, Entries
  <2>3. IsFiniteSet(LostEntries)
    BY <2>2, FS_Subset
  <2> QED
    BY <2>1, <2>3, FS_AddElement
<1>10. ~R!Full
  BY <1>1, FullMeansNoneEmpty DEF AnswerInv
<1>11. R!Register(s, n)
  BY <1>1, <1>2, <1>3, <1>4, <1>8, <1>9, <1>10 DEF R!Register, OwnerMap, LostEntries
<1> QED
  BY <1>5, <1>11

LEMMA RegisterAgainMaps ==
  ASSUME AnswerInv, ReadyInv, RegistryInv, RegistryInv', NEW s \in Clients,
         RegisterAgain(s)
  PROVE  \E n \in Names : R!Register(s, n)
<1>1. PICK i \in Entries :
        /\ Handles(s, "REGISTER", "REGISTER", "reply")
        /\ StopsAt(i, query[s].name) /\ ~Empty(i)
        /\ nameEntries' = [nameEntries EXCEPT ![i].tid = Sender]
  BY DEF RegisterAgain
<1>2. PICK n : n = query[s].name
  OBVIOUS
<1>3. query[s].op = "REGISTER" /\ Sender[1] = s /\ Sender # NoTid
  BY <1>1 DEF Handles
<1>4. /\ R!TakesEffect(s, "REGISTER", R!Answer("OK", R!Nobody))
      /\ [c \in Clients |-> CallOf(c)][s].name = n
  <2>1. \A v : Says(Result(query[s], [op |-> "REGISTER", value |-> v])) =
                 R!Answer("OK", R!Nobody)
    BY <1>3, RegisterSays
  <2>2. PICK a : a = R!Answer("OK", R!Nobody)
    OBVIOUS
  <2>3. /\ R!TakesEffect(s, "REGISTER", a)
        /\ [c \in Clients |-> CallOf(c)][s].name = query[s].name
    BY <1>1, <2>1, <2>2, RegisterCall
  <2> QED
    BY <1>2, <2>2, <2>3
<1>5. n \in Names /\ n # NoName /\ Named(i, n)
  BY <1>1, <1>2, NameServerAssumption
  DEF Handles, Size, QueryLen, PingLen, RegistryInv, QueriesOK, StopsAt
<1>6. /\ nameEntries'[i].name = n /\ nameEntries'[i].tid = Sender
      /\ \A j \in Entries : j # i => nameEntries'[j] = nameEntries[j]
      /\ nameEntries[i].name = n
  <2>1. PICK id : id = Sender
    OBVIOUS
  <2>2. nameEntries' = [nameEntries EXCEPT ![i] = [tid |-> id, name |-> n]]
    BY <1>1, <1>5, <2>1, OnlyTid DEF RegistryInv, Named
  <2> QED
    BY <1>5, <2>1, <2>2 DEF RegistryInv, Shape, Named
<1>7. OwnerMap' = [OwnerMap EXCEPT ![n] = s]
  BY <1>3, <1>5, <1>6, OwnerChanges
<1>8. LostEntries' = LostEntries
  BY <1>1, <1>5, <1>6 DEF LostEntries, Empty, Named
<1>9. n \in R!Known /\ n \notin LongNames
  BY <1>5, KnownNames DEF AnswerInv, RegistryInv, RegistryOK, Named
<1>10. R!Register(s, n)
  BY <1>3, <1>4, <1>7, <1>8, <1>9 DEF R!Register, OwnerMap, LostEntries
<1> QED
  BY <1>5, <1>10

\* The entries stay as they are.
LEMMA SameEntries ==
  ASSUME UNCHANGED nameEntries
  PROVE  OwnerMap' = OwnerMap /\ LostEntries' = LostEntries
BY DEF OwnerMap, Owner, EntriesOf, Named, LostEntries, Empty

LEMMA RegisterNoSpaceMaps ==
  ASSUME AnswerInv, ReadyInv, RegistryInv, NEW s \in Clients, RegisterNoSpace(s)
  PROVE  \E n \in Names : R!Register(s, n)
<1>1. /\ Handles(s, "REGISTER", "NO_SPACE", "reply") /\ UNCHANGED nameEntries
      /\ \A i \in Entries : ~Empty(i) /\ ~Named(i, query[s].name)
  BY DEF RegisterNoSpace
<1>2. PICK n : n = query[s].name
  OBVIOUS
<1>3. query[s].op = "REGISTER"
  BY <1>1 DEF Handles
<1>4. /\ R!TakesEffect(s, "REGISTER", R!Answer("NO_SPACE", R!Nobody))
      /\ [c \in Clients |-> CallOf(c)][s].name = n
  <2>1. \A v : Says(Result(query[s], [op |-> "NO_SPACE", value |-> v])) =
                 R!Answer("NO_SPACE", R!Nobody)
    BY <1>3, RegisterSays
  <2>2. PICK a : a = R!Answer("NO_SPACE", R!Nobody)
    OBVIOUS
  <2>3. /\ R!TakesEffect(s, "REGISTER", a)
        /\ [c \in Clients |-> CallOf(c)][s].name = query[s].name
    BY <1>1, <2>1, <2>2, RegisterCall
  <2> QED
    BY <1>2, <2>2, <2>3
<1>5. n \in Names
  BY <1>1, <1>2, NameServerAssumption
  DEF Handles, Size, QueryLen, PingLen, RegistryInv, QueriesOK
<1>6. R!Full /\ n \notin R!Known
  BY <1>1, <1>2, <1>5, FullMeansNoneEmpty, KnownNames DEF AnswerInv
<1>7. R!Register(s, n)
  BY <1>1, <1>3, <1>4, <1>6, SameEntries DEF R!Register, OwnerMap, LostEntries
<1> QED
  BY <1>5, <1>7

LEMMA WhoIsMaps ==
  ASSUME AnswerInv, ReadyInv, RegistryInv, NEW s \in Clients,
         WhoIsFound(s) \/ WhoIsNotFound(s)
  PROVE  \E n \in Names : R!WhoIs(s, n)
<1>1. Handles(s, "WHOIS", "WHOIS", "reply") /\ UNCHANGED nameEntries
  BY DEF WhoIsFound, WhoIsNotFound
<1>2. PICK n : n = query[s].name
  OBVIOUS
<1>3. n \in Names /\ query[s].op = "WHOIS"
  BY <1>1, <1>2, NameServerAssumption
  DEF Handles, Size, QueryLen, PingLen, RegistryInv, QueriesOK
<1>4. PICK a : a = IF n \in R!Known THEN R!Answer("IS", Owner(n)) ELSE R!Unknown
  OBVIOUS
<1>5. Says(Result(query[s], [op |-> "WHOIS", value |-> returnValue'])) = a
  <2>1. PICK v : v = returnValue'
    OBVIOUS
  <2>2. CASE WhoIsFound(s)
    <3>1. PICK i \in Entries : Named(i, n) /\ v = nameEntries[i].tid
      BY <1>2, <2>1, <2>2 DEF WhoIsFound
    <3>2. /\ v # NoTid /\ v # MinusOne /\ Owner(n) = v[1] /\ n \in R!Known
      BY <1>3, <3>1, Owners, OwnersAreClients, KnownNames DEF OwnersKnown, AnswerInv
    <3> QED
      BY <1>3, <1>4, <2>1, <3>2, WhoIsSays
  <2>3. CASE WhoIsNotFound(s)
    <3>1. v = MinusOne /\ n \notin R!Known
      BY <1>2, <1>3, <2>1, <2>3, KnownNames DEF WhoIsNotFound, AnswerInv
    <3> QED
      BY <1>3, <1>4, <2>1, <3>1, WhoIsSays
  <2> QED
    BY <2>2, <2>3
<1>6. /\ \A c \in Clients \ {s} : CallOf(c)' = CallOf(c)
      /\ CallOf(s) = [op |-> "WHOIS", name |-> n, answer |-> R!Pending]
      /\ CallOf(s)' = [op |-> "WHOIS", name |-> n, answer |-> a]
  BY <1>1, <1>2, <1>5, HandledCall
<1>7. R!TakesEffect(s, "WHOIS", a)
  BY <1>6, Effect
<1>8. R!WhoIs(s, n)
  BY <1>1, <1>3, <1>4, <1>6, <1>7, SameEntries DEF R!WhoIs, OwnerMap, LostEntries
<1> QED
  BY <1>3, <1>8

LEMMA HandleMaps ==
  ASSUME AnswerInv, ReadyInv, RegistryInv, RegistryInv', Handle
  PROVE  [R!Next]_(R!registryVars)
<1>1. PICK s \in Clients :
        \/ RegisterNew(s) \/ RegisterTooLong(s) \/ RegisterAgain(s)
        \/ RegisterNoSpace(s) \/ WhoIsFound(s) \/ WhoIsNotFound(s)
        \/ Quit(s) \/ Invalid(s)
  BY DEF Handle
<1>2. CASE Quit(s) \/ Invalid(s)
  <2>1. PICK op, rop : /\ op \in {"EXIT", "INVALID"} /\ rop # "NONE"
                       /\ \/ Handles(s, op, rop, "reply")
                          \/ Handles(s, op, rop, "lastReply")
    BY <1>2 DEF Quit, Invalid
  <2>2. PICK l \in {"reply", "lastReply"} : Handles(s, op, rop, l)
    BY <2>1
  <2>3. /\ \A c \in Clients \ {s} : CallOf(c)' = CallOf(c)
        /\ op \notin {"REGISTER", "WHOIS"} => CallOf(s)' = CallOf(s)
    BY <2>1, <2>2, HandledCall
  <2>4. \A c \in Clients : CallOf(c)' = CallOf(c)
    BY <2>1, <2>3
  <2> QED
    BY <1>2, <2>4, SameRegistry DEF Quit, Invalid
<1>3. CASE ~(Quit(s) \/ Invalid(s))
  <2>1. \E n \in Names : R!Register(s, n) \/ R!WhoIs(s, n)
    BY <1>1, <1>3, RegisterNewMaps, RegisterTooLongMaps, RegisterAgainMaps,
       RegisterNoSpaceMaps, WhoIsMaps
  <2> QED
    BY <2>1 DEF R!Next
<1> QED
  BY <1>2, <1>3

LEMMA StepMaps ==
  ASSUME AnswerInv, ReadyInv, RegistryInv, AnswerInv', RegistryInv',
         [ServerNext]_serverVars
  PROVE  [R!Next]_(R!registryVars)
<1> USE BootSlots
<1>0. Domains
  BY DEF ReadyInv, BootInv
<1>1. CASE BootStep \/ FirstTask
  BY <1>0, <1>1, QuietRegistry
  DEF BootStep, FirstTask, At, Plain, locals, clients, Domains
<1>2. CASE ServerStarts \/ ReceiveQuery \/ Ping \/ Echo \/ ServerExits
  BY <1>0, <1>2, QuietRegistry
  DEF ServerStarts, ReceiveQuery, Ping, Echo, ServerExits, At, Plain, locals, clients,
      Domains
<1>3. ASSUME NEW t \in Slots, Resume(t) PROVE [R!Next]_(R!registryVars)
  BY <1>3, QuietRegistry DEF Resume, Ignores, Plain, locals, clients
<1>4. ASSUME NEW c \in Clients, Locate(c) PROVE [R!Next]_(R!registryVars)
  BY <1>0, <1>4, QuietRegistry DEF Locate, At, Plain, locals, clients, Domains
<1>5. CASE UNCHANGED serverVars
  BY <1>5, QuietRegistry DEF serverVars, locals, clients
<1>6. CASE Replies
  BY <1>0, <1>6, RepliesMaps
<1> QED
  BY <1>1, <1>2, <1>3, <1>4, <1>5, <1>6, HandleMaps, SendQueryMaps, AnsweredMaps
  DEF ServerNext, ServerStep

LEMMA FirstMaps == ServerInit => R!Init
<1> SUFFICES ASSUME ServerInit PROVE R!Init
  OBVIOUS
<1> USE BootSlots
<1>1. \A i \in Entries : Empty(i) /\ Named(i, NoName)
  BY DEF ServerInit, Empty, Named
<1>2. OwnersKnown
  BY RegistryInit, Owners
<1>3. [n \in Names |-> Owner(n)] = [n \in Names |-> R!Nobody]
  BY <1>1, <1>2 DEF OwnersKnown, R!Nobody
<1>4. Cardinality({i \in Entries : ~Empty(i) /\ Named(i, NoName)}) = 0
  BY <1>1, FS_EmptySet
<1>5. ASSUME NEW c \in Clients PROVE CallOf(c) = R!NoCall
  <2>1. pc[c] # "answered"
    BY NameServerAssumption DEF ServerInit
  <2> QED
    BY <2>1 DEF Asking, CallOf, Says, Gave, NoName, R!NoCall, R!Pending, R!Answer, R!Nobody
<1> QED
  BY <1>3, <1>4, <1>5 DEF R!Init

\* The name server is an atomic map from names to tasks, for any number of
\* clients, names and entries: whatever the order of the calls, each takes
\* effect at one instant while it is open, and says what was true then.
THEOREM RegistryIsKept == ServerSpec => KeepsRegistry
<1> DEFINE Inv == ReadyInv /\ RegistryInv /\ AnswerInv
<1>1. ServerInit => Inv
  BY ReadyAtFirst, RegistryInit, AnswersAtFirst
<1>2. Inv /\ [ServerNext]_serverVars => Inv'
  BY ReadyStep, RegistryStep, AnswersStep
<1>3. Inv /\ Inv' /\ [ServerNext]_serverVars => [R!Next]_(R!registryVars)
  BY StepMaps
<1>4. ServerInit => R!Init
  BY FirstMaps
<1> QED
  BY <1>1, <1>2, <1>3, <1>4, PTL DEF ServerSpec, KeepsRegistry, R!Spec
=============================================================================
