---------------------------- MODULE SerialDriver ----------------------------
(***************************************************************************)
(* The serial driver (serialDriver.c, getch.c, putbuf.c): a driver task, a *)
(* polling task that turns UART interrupts into messages, and the clients  *)
(* that read and write.                                                    *)
(*                                                                         *)
(* The UART and the application that starts everything are not in src/;    *)
(* they are modelled from how the driver uses them.                        *)
(***************************************************************************)
EXTENDS Programs

CONSTANTS
  Boot, Driver, Poller,   \* the slots of the tasks
  Clients,                \* the slots of the tasks that use the driver
  Uart,                   \* receiveAwaitEventId
  Letters,                \* Letters[c]: the messages that client c may send
  MaxChars,               \* bound: how many characters arrive
  FifoSize                \* depth of the receive FIFO of the UART

MessageTypes == {"CHARACTER_RECEIVED", "GET_CHAR", "GET_CHAR_NONBLOCKING",
                 "SEND_MESSAGE", "QUIT", "OTHER"}

MAX_MESSAGE_LEN == 512
DataLen == 20       \* sizeof(SerialDriverData)
WordLen == 4        \* sizeof(uint32_t): a request, a character, an event id
HalfLen == 2        \* the reply to SEND_MESSAGE

ASSUME SerialAssumption ==
  /\ {Boot, Driver, Poller} \cup Clients \subseteq Slots /\ Slots \subseteq Nat
  /\ Boot = 0 /\ Driver # Poller /\ Boot \notin {Driver, Poller}
  /\ Boot \in Clients /\ Clients \cap {Driver, Poller} = {}
  /\ Uart \in EventTypes
  /\ Letters \in [Clients -> SUBSET [type : MessageTypes, size : Lens]]
  /\ {MAX_MESSAGE_LEN, DataLen, WordLen, HalfLen} \subseteq Lens
  /\ MaxChars \in Nat /\ FifoSize \in Nat \ {0}

NoTask == -1
None   == 0                    \* getCharNonBlocking's -1
Chars  == 1 .. MaxChars        \* the characters, numbered as they arrive

VARIABLES
  letter,      \* the message of the open Send of a task
  answer,      \* the character in its reply buffer
  got,         \* the characters that prjGetCh* handed to each client
  other, blocked, ch,     \* locals of the driver; blocked is blockedCharTid
  fifo,        \* characters in the UART
  overrun,     \* characters that found it full
  arrived,     \* how many have arrived
  irq,         \* the UART interrupt is pending
  missed       \* the last interrupt came while nobody waited for it

locals  == <<other, blocked, ch>>
uart    == <<fifo, overrun, arrived, irq, missed>>
clients == <<letter, answer, got>>
serialVars == <<calls, pc, clients, locals, uart>>

Poll == [type |-> "CHARACTER_RECEIVED", size |-> WordLen]

SerialInit ==
  /\ Init
  /\ pc = [t \in Slots |->
             CASE t = Boot -> "create" [] t = Driver -> "init"
               [] t = Poller -> "init" [] OTHER -> "idle"]
  /\ letter = [t \in Slots |-> Poll]
  /\ answer = [t \in Slots |-> None]
  /\ got = [t \in Clients |-> <<>>]
  /\ other = NoTask /\ blocked = NoTask /\ ch = None
  /\ fifo = <<>> /\ overrun = {} /\ arrived = 0
  /\ irq = FALSE /\ missed = FALSE

\* A call that touches nothing of the driver or the UART.
Plain == UNCHANGED <<clients, locals, uart>>

\* Labels at which the outcome of a call is looked at.
Looks(t) == pc[t] \in {"handle", "look", "answered"}

\* A task goes on after a call whose outcome it does not use.
Resume(t) ==
  /\ ~Looks(t)
  /\ Ignores(t) /\ Plain

-----------------------------------------------------------------------------
(* The application: initializeSerialDriver, then it starts the other       *)
(* clients and becomes one itself.                                         *)

StartDriver ==
  \/ At(Boot, "create", "send") /\ Start(Boot, Driver) /\ Plain
  \/ At(Boot, "send", "clients") /\ Send(Boot, Driver, DataLen, WordLen) /\ Plain

Unborn == {c \in Clients : gen[c] = 0}

StartClients ==
  \E c \in Unborn :
    /\ At(Boot, "clients", IF Unborn = {c} THEN "idle" ELSE "clients")
    /\ Start(Boot, c) /\ Plain

-----------------------------------------------------------------------------
(* The UART.                                                               *)

Arrive ==
  /\ arrived < MaxChars
  /\ arrived' = arrived + 1
  /\ IF Len(fifo) < FifoSize
     THEN fifo' = Append(fifo, arrived') /\ UNCHANGED overrun
     ELSE overrun' = overrun \cup {arrived'} /\ UNCHANGED fifo
  /\ irq' = TRUE
  /\ UNCHANGED <<calls, pc, clients, locals, missed>>

\* handleInterrupt clears the interrupt and reports the event, once.
Interrupt ==
  /\ irq /\ irq' = FALSE
  /\ \/ EventHappens(Uart) /\ missed' = FALSE
     \/ line[Uart] = <<>> /\ missed' = TRUE /\ UNCHANGED calls
  /\ UNCHANGED <<pc, clients, locals, fifo, overrun, arrived>>

\* getCharNonBlocking: c is the next character, None when there is none.
GetChar(c) ==
  /\ \/ fifo = <<>> /\ c = None /\ UNCHANGED fifo
     \/ fifo # <<>> /\ c = Head(fifo) /\ fifo' = Tail(fifo)
  /\ UNCHANGED <<overrun, arrived, irq, missed>>

-----------------------------------------------------------------------------
(* The polling task.                                                       *)

PollerStep ==
  \/ At(Poller, "init", "ack") /\ Receive(Poller, WordLen) /\ Plain
  \/ At(Poller, "ack", "await") /\ Reply(Poller, Driver, WordLen) /\ Plain
  \/ At(Poller, "await", "tell") /\ AwaitEvent(Poller, Uart) /\ Plain
  \/ At(Poller, "tell", "await") /\ Send(Poller, Driver, WordLen, WordLen)
     /\ Plain

-----------------------------------------------------------------------------
(* The driver.                                                             *)

DriverStart ==
  \/ At(Driver, "init", "poller") /\ Receive(Driver, DataLen) /\ Plain
  \/ At(Driver, "poller", "config") /\ Start(Driver, Poller) /\ Plain
  \/ /\ At(Driver, "config", "ready")
     /\ Send(Driver, Poller, WordLen, WordLen) /\ Plain
  \/ At(Driver, "ready", "receive") /\ Reply(Driver, Boot, WordLen) /\ Plain

ReceiveRequest ==
  At(Driver, "receive", "handle") /\ Receive(Driver, MAX_MESSAGE_LEN) /\ Plain

\* Broken variant: the length is taken for a signed number.
KindSigned(m) == IF m.size \in {0} \cup {n \in Lens : n > MAX_MESSAGE_LEN}
                 THEN "EMPTY" ELSE IF m.size < 4 THEN "SHORT" ELSE m.type

Sender == outcome[Driver].tid[1]

\* The driver has a request of one of the given kinds from task `other'.  One
\* too long for the buffer comes with a negative length, a large one unsigned.
Kind(m) == IF m.size = 0 THEN "EMPTY" ELSE IF m.size < 4 THEN "SHORT" ELSE m.type

Takes(kinds, l) ==
  /\ At(Driver, "handle", l)
  /\ Returns(Driver)
  /\ Kind(letter[Sender]) \in kinds
  /\ other' = IF l \in {"receive", "exit"} THEN NoTask ELSE Sender
  /\ UNCHANGED clients

\* A reply of the driver with c in its buffer; the request is then done with.
Gives(t, c, len) ==
  /\ Reply(Driver, t, len)
  /\ answer' = [answer EXCEPT ![t] = c]
  /\ other' = NoTask
  /\ UNCHANGED <<letter, got, uart>>

CharacterReceived ==
  Takes({"CHARACTER_RECEIVED"}, "acknowledge") /\ UNCHANGED <<blocked, ch, uart>>

GetCharWaits ==
  /\ Takes({"GET_CHAR"}, "receive")
  /\ GetChar(None) /\ blocked = NoTask
  /\ blocked' = Sender /\ UNCHANGED ch

GetCharAnswers ==
  /\ Takes({"GET_CHAR"}, "reply")
  /\ GetChar(ch')
  /\ ch' = None => blocked # NoTask
  /\ UNCHANGED blocked

GetCharNonBlocking ==
  Takes({"GET_CHAR_NONBLOCKING"}, "reply") /\ GetChar(ch') /\ UNCHANGED blocked

\* The characters go out one by one; the reply says how many.
SendMessage ==
  /\ Takes({"SEND_MESSAGE"}, "replyCount")
  /\ letter[Sender].size >= 7
  /\ UNCHANGED <<blocked, ch, uart>>

\* No reply: an empty message, a SEND_MESSAGE without text.
Dropped ==
  /\ \/ Takes({"EMPTY"}, "receive")
     \/ Takes({"SEND_MESSAGE"}, "receive") /\ letter[Sender].size < 7
  /\ UNCHANGED <<blocked, ch, uart>>

Echo == Takes({"SHORT", "OTHER"}, "echo") /\ UNCHANGED <<blocked, ch, uart>>

Quit == Takes({"QUIT"}, "exit") /\ UNCHANGED <<blocked, ch, uart>>

Handle ==
  \/ CharacterReceived \/ GetCharWaits \/ GetCharAnswers \/ GetCharNonBlocking
  \/ SendMessage \/ Dropped \/ Echo \/ Quit

\* The polling task is answered before the subscriber is looked after.
Acknowledge ==
  /\ At(Driver, "acknowledge", "look")
  /\ Gives(other, None, WordLen) /\ UNCHANGED <<blocked, ch>>

\* Broken variants: the character is read before the driver knows for whom;
\* the driver does not read for its subscriber.
LookEagerly ==
  /\ Returns(Driver)
  /\ GetChar(ch')
  /\ IF blocked # NoTask /\ fifo # <<>> THEN At(Driver, "look", "serve")
                                       ELSE At(Driver, "look", "receive")
  /\ UNCHANGED <<other, blocked, clients>>

LookAway ==
  /\ At(Driver, "look", "receive")
  /\ Returns(Driver)
  /\ UNCHANGED <<other, blocked, ch, clients, uart>>

Look ==
  /\ Returns(Driver)
  /\ \/ /\ At(Driver, "look", "receive")
        /\ blocked = NoTask \/ fifo = <<>>
        /\ UNCHANGED <<ch, uart>>
     \/ /\ At(Driver, "look", "serve")
        /\ blocked # NoTask /\ fifo # <<>> /\ GetChar(ch')
  /\ UNCHANGED <<other, blocked, clients>>

\* Broken variant: the subscriber is not forgotten when it is served.
ServeAgain ==
  /\ At(Driver, "serve", "receive")
  /\ Gives(blocked, ch, WordLen)
  /\ ch' = None /\ UNCHANGED blocked

Serve ==
  /\ At(Driver, "serve", "receive")
  /\ Gives(blocked, ch, WordLen)
  /\ ch' = None /\ blocked' = NoTask

Replies ==
  \/ /\ At(Driver, "reply", "receive") /\ Gives(other, ch, WordLen)
     /\ ch' = None /\ UNCHANGED blocked
  \/ /\ At(Driver, "replyCount", "receive") /\ Gives(other, None, HalfLen)
     /\ UNCHANGED <<blocked, ch>>
  \/ /\ At(Driver, "echo", "receive")
     /\ Gives(other, None, letter[other].size)
     /\ UNCHANGED <<blocked, ch>>

DriverExits == At(Driver, "exit", "gone") /\ Leave(Driver, "absent") /\ Plain

DriverStep ==
  \/ DriverStart \/ ReceiveRequest \/ Handle \/ Acknowledge \/ Look \/ Serve
  \/ Replies \/ DriverExits

-----------------------------------------------------------------------------
(* The clients: prjGetCh, prjGetChNonBlocking, prjPutBuf, other messages.  *)

Ask(c) ==
  /\ At(c, "idle", "answered")
  /\ \E m \in Letters[c] :
       /\ letter' = [letter EXCEPT ![c] = m]
       /\ Send(c, Driver, m.size,
               IF m.type = "SEND_MESSAGE" THEN HalfLen ELSE WordLen)
  /\ UNCHANGED <<answer, got, locals, uart>>

\* The call returns; a reader has the character, or -1, as *charOut.
Answered(c) ==
  /\ At(c, "answered", "idle")
  /\ Returns(c)
  /\ got' = IF answer[c] = None THEN got
            ELSE [got EXCEPT ![c] = Append(@, answer[c])]
  /\ answer' = [answer EXCEPT ![c] = None]
  /\ letter' = [letter EXCEPT ![c] = Poll]
  /\ UNCHANGED <<locals, uart>>

-----------------------------------------------------------------------------
SerialNext ==
  \/ StartDriver \/ StartClients \/ PollerStep \/ DriverStep \/ Arrive \/ Interrupt
  \/ \E t \in Slots : Resume(t)
  \/ \E c \in Clients : Ask(c) \/ Answered(c)

\* Every task has priority 0, so one that can go on does; a pending interrupt
\* is taken.  Characters need not come and clients need not ask.
SerialFairness ==
  /\ WF_serialVars(StartDriver) /\ WF_serialVars(StartClients)
  /\ WF_serialVars(PollerStep)
  /\ WF_serialVars(DriverStep) /\ WF_serialVars(Interrupt)
  /\ \A t \in Slots : WF_serialVars(Resume(t))
  /\ \A c \in Clients : WF_serialVars(Answered(c))

SerialSpec == SerialInit /\ [][SerialNext]_serialVars /\ SerialFairness
-----------------------------------------------------------------------------
\* Where character x is: in the FIFO, with the driver, in a reply buffer, with
\* a reader, or lost.
InFifo(x) == {<<"fifo", i, 0>> : i \in {j \in DOMAIN fifo : fifo[j] = x}}
InHands(x) == {<<"driver", 0, 0>> : z \in {ch} \cap {x}}
InBuffer(x) == {<<"answer", t, 0>> : t \in {u \in Slots : answer[u] = x}}
ReadBy(x, c) == {<<"got", c, i>> : i \in {j \in DOMAIN got[c] : got[c][j] = x}}
Read(x) == UNION {ReadBy(x, c) : c \in Clients}
Overrun(x) == {<<"overrun", 0, 0>> : z \in overrun \cap {x}}

Holders(x) == InFifo(x) \cup InHands(x) \cup InBuffer(x)
                \cup Read(x) \cup Overrun(x)

\* No character is lost or doubled between the FIFO and the readers, whichever
\* reader asks or waits and whenever characters and their interrupts come, and
\* each reader gets its characters in the order in which they came.
CharactersKept ==
  /\ \A x \in 1 .. arrived : Cardinality(Holders(x)) = 1
  /\ \A c \in Clients : \A i, j \in DOMAIN got[c] :
       i < j => got[c][i] < got[c][j]

\* Requests that the driver does not answer.
Unanswered(m) ==
  m.size = 0 \/ m.type = "QUIT" \/ (m.type = "SEND_MESSAGE" /\ m.size < 7)

\* The driver has taken t's request and has still to answer it.
InHand(t) ==
  \/ pc[Driver] = "handle" /\ outcome[Driver].tid = <<t, gen[t]>>
  \/ pc[Driver] \in {"acknowledge", "reply", "replyCount", "echo"} /\ other = t

\* Once the driver is set up it forgets none of the tasks that wait for its
\* answer: each is the one in hand or the subscriber, and the subscriber is a
\* task that waits.
NobodyForgotten ==
  /\ \A t \in Clients \cup {Poller} :
       phase[t] = "awaitingReply" /\ pc[t] # "clients" =>
         t = blocked \/ InHand(t) \/ Unanswered(letter[t])
  /\ blocked # NoTask => /\ phase[blocked] = "awaitingReply"
                         /\ letter[blocked].type = "GET_CHAR"
                         /\ ~InHand(blocked)

\* A waiting reader gets a character that is there, unless somebody else reads
\* it or the interrupt that announced it came before the polling task was back
\* in AwaitEvent.
ReaderServed ==
  \A c \in Clients :
    (blocked = c /\ fifo # <<>> /\ ~missed)
      ~> (blocked # c \/ fifo = <<>> \/ missed \/ phase[Driver] = "absent")

\* Every other request is answered while the driver runs: driver and polling
\* task, each sending to or answering the other, never block each other.
RequestsAnswered ==
  \A c \in Clients :
    pc[c] = "answered"
      ~> \/ pc[c] = "idle" \/ blocked = c \/ Unanswered(letter[c])
         \/ phase[Driver] = "absent"
=============================================================================
