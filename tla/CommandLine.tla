----------------------------- MODULE CommandLine -----------------------------
(***************************************************************************)
(* The command line (serialUI.c, commandExecutor.c and the output of       *)
(* baseCli.c): the UI task with its line, the courier that fetches         *)
(* characters for it, and the executors that wait for a line.              *)
(*                                                                         *)
(* The serial driver is here only what its clients see of it: it answers   *)
(* everybody but keeps one reader waiting until a character comes.  When   *)
(* one comes is left open; SerialDriver has the details.                   *)
(***************************************************************************)
EXTENDS Programs

CONSTANTS
  Boot, Driver, Poller,   \* the slots of the application's first task and of
                          \* the two tasks of the serial driver
  Ui, Courier,            \* of the UI task and its courier
  Executors,              \* of the tasks that wait for commands
  MaxLine,                \* MAX_LINE_LENGTH
  Letter                  \* the characters 32 .. 126

MAX_MESSAGE_LEN == 512
WordLen == 4        \* sizeof(uint32_t), sizeof(SerialUIData)
CliDataLen == 8     \* sizeof(CommandExecutorData), sizeof(serialUIMessage)
TextLen == 7        \* a text to put out, with its header
HalfLen == 2        \* the reply to it

\* The characters that are no letters here.
NUL == "NUL"
Blank == "blank"
Prompt == "prompt"

ASSUME CommandLineAssumption ==
  /\ Slots = {Boot, Driver, Poller, Ui, Courier} \cup Executors
  /\ Boot = 0 /\ Driver # Boot /\ Poller \notin {Boot, Driver}
  /\ Ui \notin {Boot, Driver, Poller} /\ Courier \notin {Boot, Driver, Poller, Ui}
  /\ Executors \cap {Boot, Driver, Poller, Ui, Courier} = {}
  /\ MaxLine \in Nat /\ MaxLine > 2
  /\ {MAX_MESSAGE_LEN, WordLen, CliDataLen, TextLen, HalfLen} \subseteq Lens
  /\ 0 .. MaxLine \subseteq Lens
  /\ Letter \cap {NUL, Blank, Prompt} = {}

NoTask == -1
Columns == 0 .. (MaxLine - 1)

VARIABLES
  owed, reader,         \* of the driver: whom it has to answer, blockedCharTid
  line_, cursor,        \* of the UI task: the line
  command,              \* the text of the line that was entered last
  commandExecutorTid,   \* who waits for it
  from,                 \* whose message the UI task handles
  todo,                 \* what it still has to do about that message
  typed                 \* the text of the line, by the keys alone

driverVars == <<owed, reader>>
lineVars == <<line_, cursor, typed>>
uiVars == <<lineVars, command, commandExecutorTid, from, todo>>
cliVars == <<calls, pc, driverVars, uiVars>>

Plain == UNCHANGED <<driverVars, uiVars>>

\* What the line operations do to a line l with cursor c.
clearLine == [i \in Columns |-> IF i = 0 THEN Prompt ELSE NUL]
shortenLine(l, c) == [i \in Columns |-> IF i >= c THEN NUL ELSE l[i]]
addchar(l, c, k) == [l EXCEPT ![c] = k, ![c + 1] = NUL]
backspace(l, c) == [l EXCEPT ![c - 1] = Blank, ![c] = NUL]
CanAdd(c) == c < MaxLine - 1

\* Broken variant: the prompt can be wiped out.
CanWipePrompt(c) == c > 0
CanBackspace(c) == c > 1

\* The text of a line ends before the first NUL.
getCommand(l) ==
  LET end == CHOOSE e \in 1 .. MaxLine :
               (e = MaxLine \/ l[e] = NUL) /\ \A i \in 1 .. (e - 1) : l[i] # NUL
  IN  [i \in 1 .. (end - 1) |-> l[i]]

\* initializeSerialDriver has returned.
CommandInit ==
  /\ phase = [t \in Slots |-> IF t \in {Boot, Driver, Poller} THEN "ready"
                                                            ELSE "absent"]
  /\ gen = [t \in Slots |-> IF t \in {Boot, Driver, Poller} THEN 1 ELSE 0]
  /\ mail = [t \in Slots |-> <<>>]
  /\ line = [e \in EventTypes |-> <<>>]
  /\ request = [t \in Slots |-> Idle]
  /\ outcome = [t \in Slots |-> Nothing]
  /\ pc = [t \in Slots |-> CASE t = Boot -> "ui" [] t = Driver -> "receive"
                             [] t = Poller -> "await" [] OTHER -> "start"]
  /\ owed = <<>> /\ reader = NoTask
  /\ line_ = clearLine /\ cursor = 1 /\ command = <<>> /\ typed = <<>>
  /\ commandExecutorTid = NoTask /\ from = NoTask /\ todo = <<>>

\* prjPutStr of task t.
Puts(t) == Send(t, Driver, TextLen, HalfLen) /\ UNCHANGED driverVars
-----------------------------------------------------------------------------
(* The serial driver and its polling task.                                 *)

UartInterrupt == At(Poller, "await", "await") /\ Send(Poller, Driver, WordLen, WordLen)
                   /\ Plain

DriverReceives ==
  /\ owed = <<>>
  /\ At(Driver, "receive", "handle") /\ Receive(Driver, MAX_MESSAGE_LEN) /\ Plain

\* A reader is answered at once if there is a character; one that waits is
\* answered after the polling task, unless somebody else has read it.
DriverHandles ==
  /\ At(Driver, "handle", "receive") /\ Returns(Driver)
  /\ LET t == outcome[Driver].tid[1] IN
     \/ pc[t] # "reading" /\ owed' = <<t>> /\ UNCHANGED reader
     \/ pc[t] = "reading" /\ owed' = <<t>> /\ UNCHANGED reader
     \/ pc[t] = "reading" /\ reader = NoTask /\ owed' = <<>> /\ reader' = t
     \/ t = Poller /\ reader # NoTask /\ owed' = <<t, reader>> /\ reader' = NoTask
  /\ UNCHANGED uiVars

DriverReplies ==
  /\ owed # <<>>
  /\ At(Driver, "receive", "receive") /\ Reply(Driver, Head(owed), HalfLen)
  /\ owed' = Tail(owed) /\ UNCHANGED <<reader, uiVars>>
-----------------------------------------------------------------------------
(* initializeSerialUI, and cliInit for each executor.                      *)

InitApplication ==
  /\ \/ At(Boot, "ui", "configure") /\ Start(Boot, Ui)
     \/ At(Boot, "configure", "cli") /\ Send(Boot, Ui, WordLen, WordLen)
     \/ \E e \in Executors :
          /\ gen[e] = 0
          /\ At(Boot, "cli", "executor") /\ Start(Boot, e)
     \/ \E e \in Executors :
          /\ gen[e] = 1 /\ pc[e] = "start"
          /\ At(Boot, "executor", "cli") /\ Send(Boot, e, CliDataLen, WordLen)
  /\ Plain
-----------------------------------------------------------------------------
(* The courier.                                                            *)

CourierStarts ==
  /\ \/ At(Courier, "start", "ready") /\ Receive(Courier, WordLen)
     \/ At(Courier, "ready", "read") /\ Reply(Courier, Ui, WordLen)
  /\ Plain

\* prjGetCh.
CourierReads ==
  At(Courier, "read", "reading") /\ Send(Courier, Driver, WordLen, WordLen) /\ Plain

\* A character that is not positive as an int8_t is dropped.
CourierHas ==
  /\ At(Courier, "reading", "tell") \/ At(Courier, "reading", "read")
  /\ Returns(Courier) /\ Plain

CourierTells ==
  At(Courier, "tell", "told") /\ Send(Courier, Ui, CliDataLen, WordLen) /\ Plain

CourierGoesOn ==
  At(Courier, "told", "read") /\ Returns(Courier) /\ Plain

CourierStep ==
  \/ CourierStarts \/ CourierReads \/ CourierHas \/ CourierTells \/ CourierGoesOn
-----------------------------------------------------------------------------
(* The UI task.                                                            *)

UiStarts ==
  /\ \/ At(Ui, "start", "courier") /\ Receive(Ui, WordLen)
     \/ At(Ui, "courier", "configure") /\ Start(Ui, Courier)
     \/ At(Ui, "configure", "ready") /\ Send(Ui, Courier, WordLen, WordLen)
     \/ At(Ui, "ready", "prompt") /\ Reply(Ui, Boot, WordLen)
     \/ At(Ui, "prompt", "work") /\ Puts(Ui)
  /\ Plain

UiReceives ==
  /\ todo = <<>>
  /\ At(Ui, "work", "message") /\ Receive(Ui, CliDataLen) /\ Plain

\* The UI task has a message from t and list is what it does about it.
Handles(t, list) ==
  /\ At(Ui, "message", "work")
  /\ Returns(Ui)
  /\ outcome[Ui].tid[1] = t
  /\ todo' = list /\ from' = IF list = <<>> THEN NoTask ELSE t
  /\ UNCHANGED <<driverVars, lineVars, command>>

\* COMMAND_SUBSCRIBE; a second subscriber is sent away with an empty text.
Subscribe ==
  \E e \in Executors :
    /\ pc[e] = "waiting"
    /\ IF commandExecutorTid = NoTask
       THEN Handles(e, <<>>) /\ commandExecutorTid' = e
       ELSE Handles(e, <<"answer">>) /\ UNCHANGED commandExecutorTid

\* Broken variant: a redraw is not answered.
RedrawSilent ==
  \E e \in Executors :
    /\ pc[e] = "redrawing"
    /\ Handles(e, <<"put", "put">>)
    /\ UNCHANGED commandExecutorTid

Redraw ==
  \E e \in Executors :
    /\ pc[e] = "redrawing"
    /\ Handles(e, <<"put", "put", "answer">>)
    /\ UNCHANGED commandExecutorTid

CharacterForUi ==
  Handles(Courier, <<"answer", "edit">>) /\ UNCHANGED commandExecutorTid

\* The next thing the UI task does is op, a call.
Does(op) ==
  /\ pc[Ui] = "work" /\ todo # <<>> /\ Head(todo) = op
  /\ UNCHANGED <<pc, lineVars>>

UiPuts ==
  /\ Does("put") /\ Puts(Ui)
  /\ todo' = Tail(todo)
  /\ UNCHANGED <<command, commandExecutorTid, from>>

UiAnswers ==
  /\ Does("answer") /\ Reply(Ui, from, 1)
  /\ todo' = Tail(todo) /\ from' = NoTask
  /\ UNCHANGED <<driverVars, command, commandExecutorTid>>

\* The next thing the UI task does is op, between two calls.
Computes(op) ==
  /\ pc[Ui] = "work" /\ todo # <<>> /\ Head(todo) = op
  /\ phase[Ui] = "ready" /\ outcome[Ui] = Nothing
  /\ UNCHANGED <<calls, pc, driverVars, commandExecutorTid, from>>

\* A key: a character that is printed.
EditLetter ==
  /\ Computes("edit")
  /\ \E k \in Letter :
       IF CanAdd(cursor)
       THEN /\ line_' = addchar(line_, cursor, k) /\ cursor' = cursor + 1
            /\ typed' = Append(typed, k)
       ELSE UNCHANGED <<line_, cursor, typed>>
  /\ todo' = <<"put", "put">>
  /\ UNCHANGED command

EditBackspace ==
  /\ Computes("edit")
  /\ IF CanBackspace(cursor)
     THEN line_' = backspace(line_, cursor) /\ cursor' = cursor - 1
     ELSE UNCHANGED <<line_, cursor>>
  /\ typed' = IF typed = <<>> THEN typed ELSE SubSeq(typed, 1, Len(typed) - 1)
  /\ todo' = <<"put", "put", "shorten", "put", "put">>
  /\ UNCHANGED command

Shorten ==
  /\ Computes("shorten")
  /\ line_' = shortenLine(line_, cursor)
  /\ todo' = Tail(todo)
  /\ UNCHANGED <<cursor, command, typed>>

EditEnter ==
  /\ Computes("edit")
  /\ command' = getCommand(line_)
  /\ todo' = <<"put", "clear", "handOver">>
  /\ UNCHANGED <<line_, cursor, typed>>

EditOther ==
  Computes("edit") /\ todo' = <<>> /\ UNCHANGED <<lineVars, command>>

ClearLine ==
  /\ Computes("clear")
  /\ line_' = clearLine /\ cursor' = 1 /\ typed' = <<>>
  /\ todo' = Tail(todo)
  /\ UNCHANGED command

\* Broken variant: the command is sent to the executor.
HandOverBySend ==
  /\ Does("handOver") /\ commandExecutorTid # NoTask
  /\ Send(Ui, commandExecutorTid, Len(command) + 1, 1)
  /\ todo' = <<>> /\ commandExecutorTid' = NoTask /\ command' = <<>>
  /\ UNCHANGED <<driverVars, from>>

\* The command goes to the executor as the reply it waits for; the UI task does
\* not look at it again.
HandOver ==
  /\ Does("handOver") /\ commandExecutorTid # NoTask
  /\ Reply(Ui, commandExecutorTid, Len(command) + 1)
  /\ todo' = <<>> /\ commandExecutorTid' = NoTask /\ command' = <<>>
  /\ UNCHANGED <<driverVars, from>>

\* Nobody waits for a command: it is dropped and the prompt comes back.
DropCommand ==
  /\ Computes("handOver") /\ commandExecutorTid = NoTask
  /\ todo' = <<"put">> /\ command' = <<>>
  /\ UNCHANGED lineVars

UiStep ==
  \/ UiStarts \/ UiReceives \/ Subscribe \/ Redraw \/ CharacterForUi
  \/ UiPuts \/ UiAnswers \/ EditLetter \/ EditBackspace \/ Shorten
  \/ EditEnter \/ EditOther \/ ClearLine \/ HandOver \/ DropCommand
-----------------------------------------------------------------------------
(* An executor.                                                            *)

ExecutorStarts(e) ==
  /\ \/ At(e, "start", "ready") /\ Receive(e, CliDataLen)
     \/ At(e, "ready", "subscribe") /\ Reply(e, Boot, 0)
  /\ Plain

\* It waits for a command in the Send of its subscription.
Subscribes(e) ==
  /\ At(e, "subscribe", "waiting") \/ At(e, "redrawing", "waiting")
  /\ Send(e, Ui, CliDataLen, MaxLine) /\ Plain

\* Every command ends in cliredraw; it may put out texts before.
Executes(e) ==
  \/ /\ At(e, "waiting", "printed") \/ At(e, "printed", "printed")
     /\ Puts(e) /\ UNCHANGED uiVars
  \/ /\ At(e, "waiting", "redrawing") \/ At(e, "printed", "redrawing")
     /\ Send(e, Ui, CliDataLen, 1) /\ Plain

ExecutorStep(e) == ExecutorStarts(e) \/ Subscribes(e) \/ Executes(e)
-----------------------------------------------------------------------------
\* A call returns whose outcome the task does not look at.
Resume(t) ==
  /\ pc[t] \notin {"handle", "reading", "told", "message"}
  /\ Ignores(t) /\ Plain

DriverStep == DriverReceives \/ DriverHandles \/ DriverReplies

CommandNext ==
  \/ UartInterrupt \/ DriverStep \/ InitApplication \/ CourierStep \/ UiStep
  \/ \E e \in Executors : ExecutorStep(e)
  \/ \E t \in Slots : Resume(t)

\* Every task has priority 0, so one that can go on does; keys need not come.
CommandFairness ==
  /\ WF_cliVars(DriverStep) /\ WF_cliVars(InitApplication)
  /\ WF_cliVars(CourierStep) /\ WF_cliVars(UiStep)
  /\ \A e \in Executors : WF_cliVars(ExecutorStep(e))
  /\ \A t \in Slots : WF_cliVars(Resume(t))

CommandSpec == CommandInit /\ [][CommandNext]_cliVars /\ CommandFairness
-----------------------------------------------------------------------------
\* Between two keys the line is the prompt and the text that the keys have
\* typed, closed by a NUL, and what is handed over is that text (serialUI.c):
\* whatever the order of letters, backspaces and Enters, at its end too.
LineKept ==
  /\ todo = <<>> =>
       /\ cursor = Len(typed) + 1 /\ cursor < MaxLine
       /\ line_ = [i \in Columns |-> IF i = 0 THEN Prompt
                     ELSE IF i \in DOMAIN typed THEN typed[i] ELSE NUL]
  /\ \A i \in DOMAIN todo : todo[i] = "clear" => command = typed

\* Whom each task waits for in a Send.
WaitsFor ==
  {<<t, request[t].tid[1]>> :
     t \in {t \in Slots : phase[t] \in {"sending", "awaitingReply"}}}

\* UI task, courier, executors, driver and polling task never wait for one
\* another in a circle (the order of the Sends in serialUI.c, serialDriver.c
\* and baseCli.c), so that one of them can always go on.
NoCircle ==
  \A S \in SUBSET Slots :
    S # {} => \E t \in S : \A u \in S : <<t, u>> \notin WaitsFor

\* Each character that the courier has is taken over by the UI task, and each
\* executor comes back from the redraw that ends its command to wait for the
\* next one.
EverybodyReturns ==
  /\ pc[Courier] = "told" ~> pc[Courier] = "read"
  /\ \A e \in Executors : pc[e] = "redrawing" ~> pc[e] = "waiting"
=============================================================================
