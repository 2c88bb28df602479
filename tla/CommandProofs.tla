---------------------------- MODULE CommandProofs ----------------------------
(***************************************************************************)
(* Theorems about the command line and the command tree.                   *)
(*                                                                         *)
(* For any number of executors and any length of the line: the line is     *)
(* what was typed, and the tasks never wait for one another in a circle.   *)
(*                                                                         *)
(* The links of the command tree keep the entries, and every name that is  *)
(* typed and every listing is answered as the promised directory does:     *)
(* proofs of LinksKept and LookupsKept, and of KeepsDirectory for as long  *)
(* as no directory has two entries of the same name.                       *)
(* What a walk meets is a least set, so it lies in every set that has its  *)
(* start and is closed under the links: the proofs name such sets.         *)
(***************************************************************************)
EXTENDS CommandLine, CommandTree, TLAPS

-----------------------------------------------------------------------------
(* The tasks of the command line.                                          *)

\* The tasks are different ones.
LEMMA TasksDiffer ==
  /\ Slots = {Boot, Driver, Poller, Ui, Courier} \cup Executors
  /\ Driver # Boot /\ Poller \notin {Boot, Driver} /\ Ui \notin {Boot, Driver, Poller}
  /\ Courier \notin {Boot, Driver, Poller, Ui}
  /\ Executors \cap {Boot, Driver, Poller, Ui, Courier} = {}
BY CommandLineAssumption
-----------------------------------------------------------------------------
(* The line.                                                               *)

\* A prompt, the text and NULs.
LineOf(s) ==
  [i \in Columns |-> IF i = 0 THEN Prompt ELSE IF i \in DOMAIN s THEN s[i] ELSE NUL]

\* What the UI task may have to do: things that leave the line alone until the
\* next key, the end of a backspace, the end of an Enter.
Chores == {<<>>, <<"put">>, <<"put", "put">>, <<"answer">>, <<"put", "answer">>,
           <<"put", "put", "answer">>, <<"edit">>, <<"answer", "edit">>, <<"handOver">>}
Wiping == {<<"put", "put", "shorten", "put", "put">>, <<"put", "shorten", "put", "put">>,
           <<"shorten", "put", "put">>}
Closing == {<<"put", "clear", "handOver">>, <<"clear", "handOver">>}

Clean == line_ = LineOf(typed)

\* The line is right before the cursor.
Wiped == \A i \in Columns : i < cursor => line_[i] = LineOf(typed)[i]

LineInv ==
  /\ DOMAIN pc = Slots
  /\ typed \in Seq(Letter) /\ cursor = Len(typed) + 1 /\ cursor < MaxLine
  /\ todo \in Chores \cup Wiping \cup Closing
  /\ pc[Ui] = "message" => todo = <<>>
  /\ todo \in Chores => Clean
  /\ todo \in Wiping => Wiped
  /\ todo \in Closing => Clean /\ command = typed

\* What is left after the first thing is done.
LEMMA Rests ==
  ASSUME NEW l, l # <<>>
  PROVE  /\ l \in Chores => Tail(l) \in Chores
         /\ l \in Chores => Head(l) \notin {"shorten", "clear"}
         /\ l \in Wiping => \/ Head(l) = "put" /\ Tail(l) \in Wiping
                            \/ Head(l) = "shorten" /\ Tail(l) = <<"put", "put">>
         /\ l \in Closing => \/ Head(l) = "put" /\ Tail(l) \in Closing
                             \/ Head(l) = "clear" /\ Tail(l) = <<"handOver">>
<1>1. ASSUME l \in Chores PROVE Tail(l) \in Chores /\ Head(l) \notin {"shorten", "clear"}
  <2>1. ASSUME NEW a, l = <<a>> PROVE Tail(l) = <<>> /\ Head(l) = a
    BY <2>1
  <2>2. ASSUME NEW a, NEW b, l = <<a, b>> PROVE Tail(l) = <<b>> /\ Head(l) = a
    BY <2>2
  <2>3. CASE l \in {<<"put">>, <<"answer">>, <<"edit">>, <<"handOver">>}
    BY <2>1, <2>3 DEF Chores
  <2>4. CASE l \in {<<"put", "put">>, <<"put", "answer">>, <<"answer", "edit">>}
    BY <2>2, <2>4 DEF Chores
  <2>5. CASE l = <<"put", "put", "answer">>
    <3>1. Tail(l) = <<"put", "answer">> /\ Head(l) = "put"
      BY <2>5
    <3> QED
      BY <3>1 DEF Chores
  <2> QED
    BY <1>1, <2>3, <2>4, <2>5 DEF Chores
<1>2. ASSUME l \in Wiping
      PROVE  \/ Head(l) = "put" /\ Tail(l) \in Wiping
             \/ Head(l) = "shorten" /\ Tail(l) = <<"put", "put">>
  <2>1. CASE l = <<"put", "put", "shorten", "put", "put">>
    <3>1. Head(l) = "put" /\ Tail(l) = <<"put", "shorten", "put", "put">>
      BY <2>1
    <3> QED
      BY <3>1 DEF Wiping
  <2>2. CASE l = <<"put", "shorten", "put", "put">>
    <3>1. Head(l) = "put" /\ Tail(l) = <<"shorten", "put", "put">>
      BY <2>2
    <3> QED
      BY <3>1 DEF Wiping
  <2>3. CASE l = <<"shorten", "put", "put">>
    BY <2>3
  <2> QED
    BY <1>2, <2>1, <2>2, <2>3 DEF Wiping
<1>3. ASSUME l \in Closing
      PROVE  \/ Head(l) = "put" /\ Tail(l) \in Closing
             \/ Head(l) = "clear" /\ Tail(l) = <<"handOver">>
  <2>1. CASE l = <<"put", "clear", "handOver">>
    <3>1. Head(l) = "put" /\ Tail(l) = <<"clear", "handOver">>
      BY <2>1
    <3> QED
      BY <3>1 DEF Closing
  <2>2. CASE l = <<"clear", "handOver">>
    BY <2>2
  <2> QED
    BY <1>3, <2>1, <2>2 DEF Closing
<1> QED
  BY <1>1, <1>2, <1>3

\* The three kinds do not mix.
LEMMA KindsDiffer ==
  /\ Chores \cap (Wiping \cup Closing) = {} /\ Wiping \cap Closing = {}
  /\ <<>> \in Chores
BY DEF Chores, Wiping, Closing

LEMMA EmptyLine == clearLine = LineOf(<<>>) /\ <<>> \in Seq(Letter) /\ Len(<<>>) = 0
<1>1. DOMAIN <<>> = {}
  OBVIOUS
<1> QED
  BY <1>1 DEF clearLine, LineOf

LEMMA LineAtFirst == CommandInit => LineInv
<1> SUFFICES ASSUME CommandInit PROVE LineInv
  OBVIOUS
<1>1. pc[Ui] = "start" /\ DOMAIN pc = Slots
  BY TasksDiffer DEF CommandInit
<1>2. typed = <<>> /\ cursor = 1 /\ todo = <<>> /\ line_ = clearLine
  BY DEF CommandInit
<1> QED
  BY <1>1, <1>2, EmptyLine, KindsDiffer, CommandLineAssumption DEF LineInv, Clean

\* A step of another task.
LEMMA LineUntouched ==
  ASSUME LineInv, UNCHANGED uiVars, DOMAIN pc' = Slots,
         pc'[Ui] = "message" => pc[Ui] = "message" \/ todo = <<>>
  PROVE  LineInv'
BY DEF LineInv, uiVars, lineVars, Clean, Wiped

\* A letter more.
LEMMA LetterAdded ==
  ASSUME LineInv, Clean, NEW k \in Letter, CanAdd(cursor),
         line_' = addchar(line_, cursor, k), typed' = Append(typed, k)
  PROVE  line_' = LineOf(typed')
<1>1. /\ Len(typed') = Len(typed) + 1 /\ typed'[Len(typed) + 1] = k
      /\ \A i \in 1 .. Len(typed) : typed'[i] = typed[i]
      /\ DOMAIN typed' = 1 .. Len(typed) + 1 /\ DOMAIN typed = 1 .. Len(typed)
  BY DEF LineInv
<1>2. cursor = Len(typed) + 1 /\ cursor + 1 \in Columns /\ Len(typed) \in Nat
      /\ cursor \in Columns
  BY CommandLineAssumption DEF LineInv, CanAdd, Columns
<1>3. line_' = [i \in Columns |-> IF i = cursor + 1 THEN NUL
                                  ELSE IF i = cursor THEN k ELSE line_[i]]
  BY <1>2 DEF Clean, LineOf, addchar, Columns
<1>4. \A i \in Columns : line_'[i] = LineOf(typed')[i]
  <2> SUFFICES ASSUME NEW i \in Columns PROVE line_'[i] = LineOf(typed')[i]
    OBVIOUS
  <2>1. i \in Int /\ i >= 0
    BY DEF Columns
  <2>2. CASE i = cursor
    BY <1>1, <1>2, <1>3, <2>1, <2>2 DEF LineOf
  <2>3. CASE i > cursor
    BY <1>1, <1>2, <1>3, <2>1, <2>3 DEF Clean, LineOf
  <2>4. CASE i < cursor
    BY <1>1, <1>2, <1>3, <2>1, <2>4 DEF Clean, LineOf
  <2> QED
    BY <1>2, <2>1, <2>2, <2>3, <2>4
<1> QED
  BY <1>3, <1>4 DEF LineOf

\* A letter less: what is before the cursor is right.
LEMMA LetterWiped ==
  ASSUME LineInv, Clean, CanBackspace(cursor),
         line_' = backspace(line_, cursor), cursor' = cursor - 1,
         typed' = SubSeq(typed, 1, Len(typed) - 1)
  PROVE  Wiped' /\ typed' \in Seq(Letter) /\ cursor' = Len(typed') + 1
<1>1. cursor = Len(typed) + 1 /\ Len(typed) \in Nat /\ Len(typed) > 0
  BY CommandLineAssumption DEF LineInv, CanBackspace
<1>2. /\ typed' \in Seq(Letter) /\ Len(typed') = Len(typed) - 1
      /\ \A i \in 1 .. Len(typed) - 1 : typed'[i] = typed[i]
  BY <1>1 DEF LineInv
<1>3. DOMAIN typed' = 1 .. Len(typed) - 1 /\ DOMAIN typed = 1 .. Len(typed)
  BY <1>1, <1>2 DEF LineInv
<1>4. \A i \in Columns : i < cursor - 1 => line_'[i] = line_[i]
  <2> SUFFICES ASSUME NEW i \in Columns, i < cursor - 1 PROVE line_'[i] = line_[i]
    OBVIOUS
  <2>1. i # cursor - 1 /\ i # cursor
    BY <1>1 DEF Columns
  <2> QED
    BY <2>1 DEF backspace, Clean, LineOf
<1>5. \A i \in Columns : i < cursor - 1 => line_'[i] = LineOf(typed')[i]
  BY <1>1, <1>2, <1>3, <1>4 DEF Clean, LineOf, Columns
<1> QED
  BY <1>1, <1>2, <1>5 DEF Wiped

\* The text of the line is what was typed.
LEMMA TextIsTyped ==
  ASSUME LineInv, Clean
  PROVE  getCommand(line_) = typed
<1> DEFINE Ends(e) == (e = MaxLine \/ line_[e] = NUL)
                        /\ \A i \in 1 .. (e - 1) : line_[i] # NUL
<1>1. /\ cursor = Len(typed) + 1 /\ Len(typed) \in Nat /\ cursor \in Columns
      /\ DOMAIN typed = 1 .. Len(typed)
  BY CommandLineAssumption DEF LineInv, Columns
<1>0. \A i \in 1 .. Len(typed) : typed[i] # NUL
  <2>1. \A i \in 1 .. Len(typed) : typed[i] \in Letter
    BY DEF LineInv
  <2> QED
    BY <2>1, CommandLineAssumption
<1>2. line_[cursor] = NUL /\ \A i \in 1 .. Len(typed) : line_[i] = typed[i]
  BY <1>1, CommandLineAssumption DEF Clean, LineOf, Columns
<1>3. cursor \in 1 .. MaxLine /\ Ends(cursor)
  BY <1>0, <1>1, <1>2, CommandLineAssumption DEF Columns
<1>4. \A e \in 1 .. MaxLine : Ends(e) => e = cursor
  <2> SUFFICES ASSUME NEW e \in 1 .. MaxLine, Ends(e) PROVE e = cursor
    OBVIOUS
  <2>1. ~(e < cursor)
    BY <1>0, <1>1, <1>2, CommandLineAssumption DEF Columns
  <2>2. ~(cursor < e)
    BY <1>0, <1>1, <1>2, CommandLineAssumption DEF Columns
  <2> QED
    BY <1>1, <2>1, <2>2, CommandLineAssumption DEF Columns
<1> DEFINE end == CHOOSE e \in 1 .. MaxLine : Ends(e)
<1>5. getCommand(line_) = [i \in 1 .. (end - 1) |-> line_[i]]
  BY Zenon DEF getCommand
<1>6. end = cursor
  <2> HIDE DEF Ends
  <2>1. end \in 1 .. MaxLine /\ Ends(end)
    BY <1>3, Zenon
  <2> HIDE DEF end
  <2> QED
    BY <1>4, <2>1
<1> HIDE DEF end
<1>7. end - 1 = Len(typed)
  BY <1>1, <1>6
<1>8. typed = [i \in 1 .. Len(typed) |-> typed[i]]
  BY <1>1 DEF LineInv
<1> QED
  BY <1>2, <1>5, <1>7, <1>8

\* The keys, and what the UI task computes for them later.
LEMMA EditKeeps ==
  ASSUME LineInv,
         EditLetter \/ EditBackspace \/ EditEnter \/ EditOther \/ Shorten \/ ClearLine
           \/ DropCommand
  PROVE  LineInv'
<1> USE KindsDiffer
<1>1. UNCHANGED pc /\ pc[Ui] = "work" /\ todo # <<>>
  BY DEF EditLetter, EditBackspace, EditEnter, EditOther, Shorten, ClearLine,
         DropCommand, Computes
<1>2. Head(todo) = "edit" => Clean
  BY <1>1, Rests DEF LineInv
<1>3. CASE EditLetter
  <2>1. PICK k \in Letter :
          IF CanAdd(cursor)
          THEN /\ line_' = addchar(line_, cursor, k) /\ cursor' = cursor + 1
               /\ typed' = Append(typed, k)
          ELSE UNCHANGED <<line_, cursor, typed>>
    BY <1>3 DEF EditLetter
  <2>2. Clean /\ todo' \in Chores
    BY <1>2, <1>3 DEF EditLetter, Computes, Chores
  <2>3. Clean'
    BY <2>1, <2>2, LetterAdded DEF Clean
  <2>4. typed' \in Seq(Letter) /\ cursor' = Len(typed') + 1 /\ cursor' < MaxLine
    BY <2>1, CommandLineAssumption DEF LineInv, CanAdd
  <2> QED
    BY <1>1, <2>2, <2>3, <2>4 DEF LineInv
<1>4. CASE EditBackspace
  <2>1. Clean /\ todo' \in Wiping
    BY <1>2, <1>4 DEF EditBackspace, Computes, Wiping
  <2>2. CASE CanBackspace(cursor)
    <3>1. typed # <<>>
      BY <2>2 DEF CanBackspace, LineInv
    <3>2. Wiped' /\ typed' \in Seq(Letter) /\ cursor' = Len(typed') + 1 /\ cursor' < MaxLine
      BY <1>4, <2>1, <2>2, <3>1, LetterWiped, CommandLineAssumption
      DEF EditBackspace, LineInv
    <3> QED
      BY <1>1, <2>1, <3>2 DEF LineInv
  <2>3. CASE ~CanBackspace(cursor)
    <3>1. typed = <<>>
      BY <2>3 DEF CanBackspace, LineInv
    <3>2. UNCHANGED <<line_, cursor, typed>>
      BY <1>4, <2>3, <3>1 DEF EditBackspace
    <3> QED
      BY <1>1, <2>1, <3>2 DEF LineInv, Clean, Wiped
  <2> QED
    BY <2>2, <2>3
<1>5. CASE EditEnter
  BY <1>1, <1>2, <1>5, TextIsTyped DEF EditEnter, Computes, Closing, LineInv, Clean
<1>6. CASE EditOther
  BY <1>1, <1>2, <1>6 DEF EditOther, Computes, lineVars, LineInv, Clean
<1>7. CASE Shorten
  <2>1. todo \in Wiping /\ todo' = <<"put", "put">> /\ todo' \in Chores
    BY <1>1, <1>7, Rests DEF Shorten, Computes, LineInv, Chores
  <2>2. line_' = LineOf(typed)
    BY <1>7, <2>1 DEF Shorten, shortenLine, LineInv, Wiped, LineOf, Columns
  <2> QED
    BY <1>1, <1>7, <2>1, <2>2 DEF Shorten, LineInv, Clean
<1>8. CASE ClearLine
  <2>1. todo' = <<"handOver">> /\ todo' \in Chores
    BY <1>1, <1>8, Rests DEF ClearLine, Computes, LineInv, Chores
  <2> QED
    BY <1>1, <1>8, <2>1, EmptyLine, CommandLineAssumption DEF ClearLine, LineInv, Clean
<1>9. CASE DropCommand
  <2>1. todo' \in Chores /\ Clean
    BY <1>1, <1>9, Rests DEF DropCommand, Computes, LineInv, Chores
  <2> QED
    BY <1>1, <1>9, <2>1 DEF DropCommand, lineVars, LineInv, Clean
<1> QED
  BY <1>3, <1>4, <1>5, <1>6, <1>7, <1>8, <1>9

\* The calls that the UI task makes between two messages.
LEMMA CallKeepsLine ==
  ASSUME LineInv, UiPuts \/ UiAnswers \/ HandOver
  PROVE  LineInv'
<1> USE KindsDiffer
<1>1. UNCHANGED <<pc, lineVars>> /\ pc[Ui] = "work" /\ todo # <<>>
  BY DEF UiPuts, UiAnswers, HandOver, Does
<1>2. CASE UiPuts \/ UiAnswers
  <2>1. todo' = Tail(todo) /\ UNCHANGED command /\ Head(todo) \in {"put", "answer"}
    BY <1>2 DEF UiPuts, UiAnswers, Does
  <2>2. /\ todo \in Chores => todo' \in Chores
        /\ todo \in Wiping => todo' \in Wiping
        /\ todo \in Closing => todo' \in Closing
    BY <1>1, <2>1, Rests
  <2> QED
    BY <1>1, <2>1, <2>2 DEF LineInv, lineVars, Clean, Wiped
<1>3. CASE HandOver
  <2>1. todo' = <<>> /\ todo \in Chores
    BY <1>1, <1>3, Rests DEF HandOver, Does, LineInv
  <2> QED
    BY <1>1, <2>1 DEF LineInv, lineVars, Clean
<1> QED
  BY <1>2, <1>3

\* The UI task takes a message.
LEMMA MessageKeepsLine ==
  ASSUME LineInv, Subscribe \/ Redraw \/ CharacterForUi
  PROVE  LineInv'
<1>0. Courier \in Slots /\ Executors \subseteq Slots
  BY TasksDiffer
<1>1. PICK t \in Slots,
           steps \in {<<>>, <<"answer">>, <<"put", "put", "answer">>, <<"answer", "edit">>} :
        Handles(t, steps)
  <2>1. CASE Subscribe
    BY <1>0, <2>1 DEF Subscribe
  <2>2. CASE Redraw
    BY <1>0, <2>2 DEF Redraw
  <2>3. CASE CharacterForUi
    BY <1>0, <2>3 DEF CharacterForUi
  <2> QED
    BY <2>1, <2>2, <2>3
<1>2. steps \in Chores /\ todo \in Chores
  BY <1>1 DEF Handles, At, LineInv, Chores
<1> QED
  BY <1>1, <1>2, KindsDiffer, TasksDiffer DEF Handles, At, lineVars, LineInv, Clean

LEMMA LineStep == LineInv /\ [CommandNext]_cliVars => LineInv'
<1> SUFFICES ASSUME LineInv, [CommandNext]_cliVars PROVE LineInv'
  OBVIOUS
<1> USE TasksDiffer
<1>1. ASSUME NEW t \in Slots \ {Ui}, NEW l, pc' = [pc EXCEPT ![t] = l], UNCHANGED uiVars
      PROVE  LineInv'
  BY <1>1, LineUntouched DEF LineInv
<1>2. CASE UartInterrupt
  BY <1>1, <1>2 DEF UartInterrupt, At, Plain
<1>3. CASE DriverStep
  BY <1>1, <1>3
  DEF DriverStep, DriverReceives, DriverHandles, DriverReplies, At, Plain
<1>4. CASE InitApplication
  BY <1>1, <1>4 DEF InitApplication, At, Plain
<1>5. CASE CourierStep
  BY <1>1, <1>5
  DEF CourierStep, CourierStarts, CourierReads, CourierHas, CourierTells,
      CourierGoesOn, At, Plain
<1>6. CASE UiStarts \/ UiReceives
  <2>1. \E l : pc' = [pc EXCEPT ![Ui] = l] /\ (l = "message" => todo = <<>>)
    BY <1>6 DEF UiStarts, UiReceives, At
  <2>2. UNCHANGED uiVars
    BY <1>6 DEF UiStarts, UiReceives, Plain
  <2> QED
    BY <2>1, <2>2, LineUntouched DEF LineInv
<1>7. CASE UiStep /\ ~UiStarts /\ ~UiReceives
  BY <1>7, EditKeeps, CallKeepsLine, MessageKeepsLine DEF UiStep
<1>8. ASSUME NEW e \in Executors, ExecutorStep(e) PROVE LineInv'
  BY <1>1, <1>8 DEF ExecutorStep, ExecutorStarts, Subscribes, Executes, Puts, At, Plain
<1>9. ASSUME NEW t \in Slots, Resume(t) PROVE LineInv'
  BY <1>9, LineUntouched DEF Resume, Ignores, Plain, LineInv
<1>10. CASE UNCHANGED cliVars
  BY <1>10, LineUntouched DEF cliVars, LineInv
<1> QED
  BY <1>2, <1>3, <1>4, <1>5, <1>6, <1>7, <1>8, <1>9, <1>10 DEF CommandNext

\* Between two keys the line is what was typed and what is handed over is that
\* text (serialUI.c), for a line of any length.
THEOREM LineIsKept == CommandSpec => []LineKept
<1>1. CommandInit => LineInv
  BY LineAtFirst
<1>2. LineInv /\ [CommandNext]_cliVars => LineInv'
  BY LineStep
<1>3. LineInv => LineKept
  <2> SUFFICES ASSUME LineInv PROVE LineKept
    OBVIOUS
  <2>1. todo = <<>> => Clean
    BY KindsDiffer DEF LineInv
  <2>2. \A i \in DOMAIN todo : todo[i] = "clear" => todo \in Closing
    BY DEF LineInv, Chores, Wiping, Closing
  <2> QED
    BY <2>1, <2>2 DEF LineInv, LineKept, Clean, LineOf
<1> QED
  BY <1>1, <1>2, <1>3, PTL DEF CommandSpec
-----------------------------------------------------------------------------
(* Who waits for whom.  First what the calls do, whatever the programs are. *)

\* Task x is in a Send to task y, received or not.
Waits(x, y) == phase[x] \in {"sending", "awaitingReply"} /\ request[x].tid[1] = y

Idles(x) == phase[x] \notin {"sending", "awaitingReply"}

\* The tasks in a mailbox are in a Send to its owner, each once.
MailInv ==
  /\ DOMAIN phase = Slots /\ DOMAIN request = Slots /\ mail \in [Slots -> Seq(Slots)]
  /\ \A r \in Slots : \A i \in 1 .. Len(mail[r]) :
       phase[mail[r][i]] = "sending" /\ request[mail[r][i]].tid[1] = r
  /\ \A r \in Slots : \A i, j \in 1 .. Len(mail[r]) : mail[r][i] = mail[r][j] => i = j

\* Task t does something that makes nobody wait, and does not wait itself.
Frees(t) ==
  /\ MailInv'
  /\ \A x, y \in Slots : Waits(x, y)' => Waits(x, y)
  /\ \A x \in Slots : Idles(x) => Idles(x)'
  /\ Idles(t) /\ Idles(t)'

LEMMA CollectFrees ==
  ASSUME MailInv, NEW t \in Slots, Collect(t)
  PROVE  Frees(t)
<1>1. phase' = phase /\ mail' = mail /\ request' = request /\ phase[t] = "ready"
  BY DEF Collect
<1>2. MailInv'
  <2>1. DOMAIN phase' = Slots /\ DOMAIN request' = Slots /\ mail' \in [Slots -> Seq(Slots)]
    BY <1>1 DEF MailInv
  <2>2. \A r \in Slots : \A i \in 1 .. Len(mail'[r]) :
          phase'[mail'[r][i]] = "sending" /\ request'[mail'[r][i]].tid[1] = r
    BY <1>1 DEF MailInv
  <2>3. \A r \in Slots : \A i, j \in 1 .. Len(mail'[r]) : mail'[r][i] = mail'[r][j] => i = j
    BY <1>1 DEF MailInv
  <2> QED
    BY <2>1, <2>2, <2>3 DEF MailInv
<1>3. \A x, y \in Slots : (Waits(x, y)' <=> Waits(x, y)) /\ (Idles(x)' <=> Idles(x))
  BY <1>1 DEF Waits, Idles
<1> QED
  BY <1>1, <1>2, <1>3 DEF Frees, Idles

LEMMA StartFrees ==
  ASSUME MailInv, NEW t \in Slots, NEW n \in Slots, Start(t, n)
  PROVE  Frees(t) /\ Idles(n)'
<1>1. /\ phase[t] = "ready" /\ phase[n] = "absent" /\ t # n
      /\ phase' = [i \in Slots |->
                     IF i = n THEN "ready"
                     ELSE IF \E k \in DOMAIN mail[n] : mail[n][k] = i
                          THEN "orphaned" ELSE phase[i]]
      /\ mail' = [mail EXCEPT ![n] = <<>>]
      /\ request' = [request EXCEPT ![n] = Idle]
  BY DEF Start
<1>2. \A i \in Slots : phase'[i] \in {"ready", "orphaned", phase[i]}
  BY <1>1
<1>3. phase'[t] \in {"ready", "orphaned"} /\ phase'[n] = "ready"
  BY <1>1
<1>4. \A x, y \in Slots : Waits(x, y)' => Waits(x, y)
  BY <1>1, <1>2, <1>3 DEF Waits, MailInv
<1>5. \A x \in Slots : Idles(x) => Idles(x)'
  BY <1>2 DEF Idles
<1>6. MailInv'
  <2>1. DOMAIN phase' = Slots /\ DOMAIN request' = Slots
    BY <1>1 DEF MailInv
  <2>2. mail' \in [Slots -> Seq(Slots)] /\ Len(mail'[n]) = 0
    <3>1. <<>> \in Seq(Slots) /\ Len(<<>>) = 0
      OBVIOUS
    <3> QED
      BY <1>1, <3>1 DEF MailInv
  <2>3. \A r \in Slots \ {n} : mail'[r] = mail[r]
    BY <1>1 DEF MailInv
  <2>4. ASSUME NEW r \in Slots \ {n}, NEW i \in 1 .. Len(mail[r])
        PROVE  phase'[mail[r][i]] = "sending" /\ request'[mail[r][i]].tid[1] = r
    <3>1. /\ mail[r][i] \in Slots /\ phase[mail[r][i]] = "sending"
          /\ request[mail[r][i]].tid[1] = r
      BY DEF MailInv
    <3>2. mail[r][i] # n
      BY <1>1, <3>1
    <3>3. \A k \in DOMAIN mail[n] : mail[n][k] # mail[r][i]
      BY <3>1 DEF MailInv
    <3> QED
      BY <1>1, <3>1, <3>2, <3>3 DEF MailInv
  <2>5. ASSUME NEW r \in Slots, NEW i \in 1 .. Len(mail'[r])
        PROVE  phase'[mail'[r][i]] = "sending" /\ request'[mail'[r][i]].tid[1] = r
    <3>1. r # n
      BY <2>2
    <3>2. mail'[r] = mail[r]
      BY <2>3, <3>1
    <3> QED
      BY <2>4, <3>1, <3>2
  <2>6. ASSUME NEW r \in Slots, NEW i \in 1 .. Len(mail'[r]), NEW j \in 1 .. Len(mail'[r]),
               mail'[r][i] = mail'[r][j]
        PROVE  i = j
    <3>1. r # n
      BY <2>2
    <3>2. mail'[r] = mail[r]
      BY <2>3, <3>1
    <3> QED
      BY <2>6, <3>2 DEF MailInv
  <2> QED
    BY <2>1, <2>2, <2>5, <2>6 DEF MailInv
<1> QED
  BY <1>1, <1>3, <1>4, <1>5, <1>6 DEF Frees, Idles

LEMMA ReceiveFrees ==
  ASSUME MailInv, NEW t \in Slots, NEW cap, Receive(t, cap)
  PROVE  Frees(t)
<1>1. phase[t] = "ready"
  BY DEF Receive
<1>2. CASE mail[t] = <<>>
  <2>1. /\ phase' = [phase EXCEPT ![t] = "receiving"] /\ UNCHANGED mail
        /\ request' = [request EXCEPT ![t] = [Idle EXCEPT !.len = cap]]
    BY <1>2 DEF Receive
  <2>2. \A r \in Slots : \A i \in 1 .. Len(mail[r]) : mail[r][i] # t
    BY <1>1 DEF MailInv
  <2> QED
    BY <1>1, <2>1, <2>2 DEF Frees, MailInv, Waits, Idles
<1>3. CASE mail[t] # <<>>
  <2> DEFINE s == mail[t][1]
  <2>1. /\ s \in Slots /\ phase[s] = "sending" /\ request[s].tid[1] = t
        /\ 1 \in 1 .. Len(mail[t])
    BY <1>3 DEF MailInv
  <2>2. /\ phase' = [phase EXCEPT ![s] = "awaitingReply"]
        /\ mail' = [mail EXCEPT ![t] = Tail(@)] /\ UNCHANGED request
    BY <1>3 DEF Receive
  <2>3. \A r \in Slots : \A i \in 1 .. Len(mail[r]) : mail[r][i] = s => r = t /\ i = 1
    BY <2>1 DEF MailInv
  <2>4. /\ mail' \in [Slots -> Seq(Slots)] /\ \A r \in Slots \ {t} : mail'[r] = mail[r]
        /\ Len(mail'[t]) = Len(mail[t]) - 1
        /\ \A i \in 1 .. Len(mail[t]) - 1 : mail'[t][i] = mail[t][i + 1]
    BY <1>3, <2>2 DEF MailInv
  <2> HIDE DEF s
  <2>5. ASSUME NEW r \in Slots, NEW i \in 1 .. Len(mail'[r])
        PROVE  phase'[mail'[r][i]] = "sending" /\ request'[mail'[r][i]].tid[1] = r
    <3>1. CASE r # t
      BY <2>1, <2>2, <2>3, <2>4, <3>1 DEF MailInv
    <3>2. CASE r = t
      <4>1. i + 1 \in 1 .. Len(mail[t]) /\ mail'[t][i] = mail[t][i + 1] /\ i + 1 # 1
        BY <2>1, <2>4, <3>2
      <4>2. mail[t][i + 1] # s
        BY <2>3, <4>1
      <4> QED
        BY <2>1, <2>2, <3>2, <4>1, <4>2 DEF MailInv
    <3> QED
      BY <3>1, <3>2
  <2>6. ASSUME NEW r \in Slots, NEW i \in 1 .. Len(mail'[r]), NEW j \in 1 .. Len(mail'[r]),
               mail'[r][i] = mail'[r][j]
        PROVE  i = j
    <3>1. CASE r # t
      BY <2>4, <2>6, <3>1 DEF MailInv
    <3>2. CASE r = t
      <4>1. /\ i + 1 \in 1 .. Len(mail[t]) /\ mail'[t][i] = mail[t][i + 1]
            /\ j + 1 \in 1 .. Len(mail[t]) /\ mail'[t][j] = mail[t][j + 1]
        BY <2>1, <2>4, <3>2
      <4>2. i + 1 = j + 1
        BY <2>6, <3>2, <4>1 DEF MailInv
      <4> QED
        BY <4>2
    <3> QED
      BY <3>1, <3>2
  <2>7. MailInv'
    BY <2>2, <2>4, <2>5, <2>6 DEF MailInv
  <2> QED
    BY <1>1, <2>1, <2>2, <2>7 DEF Frees, Waits, Idles, MailInv
<1> QED
  BY <1>2, <1>3

LEMMA ReplyFrees ==
  ASSUME MailInv, NEW t \in Slots, NEW s, NEW len, Reply(t, s, len)
  PROVE  Frees(t) /\ phase[s] = "awaitingReply" /\ (s \in Slots => Idles(s)')
<1>1. /\ phase[t] = "ready" /\ phase[s] = "awaitingReply"
      /\ phase' = [phase EXCEPT ![s] = "ready"] /\ UNCHANGED mail
      /\ request' = [request EXCEPT ![s] = Idle]
  BY DEF Reply
<1>2. \A r \in Slots : \A i \in 1 .. Len(mail[r]) : mail[r][i] # s
  BY <1>1 DEF MailInv
<1> QED
  BY <1>1, <1>2 DEF Frees, MailInv, Waits, Idles

\* Task t begins to wait for r, and nobody else begins to wait.
Begins(t, r) ==
  /\ MailInv'
  /\ \A x, y \in Slots : Waits(x, y)' => (x = t /\ y = r) \/ (x # t /\ Waits(x, y))
  /\ \A x \in Slots \ {t} : Idles(x) => Idles(x)'
  /\ Idles(t)

LEMMA UpTo ==
  ASSUME NEW n \in Nat, NEW k \in 1 .. (n + 1), k # n + 1
  PROVE  k \in 1 .. n
OBVIOUS

LEMMA SendBegins ==
  ASSUME MailInv, NEW t \in Slots, NEW r \in Slots, NEW len, NEW rlen,
         Send(t, r, len, rlen)
  PROVE  Begins(t, r)
<1> DEFINE req == [tid |-> <<r, gen[r]>>, len |-> len, rlen |-> rlen]
<1>1. phase[t] = "ready" /\ req.tid[1] = r
  BY DEF Send
<1>2. \A q \in Slots : \A i \in 1 .. Len(mail[q]) :
        mail[q][i] # t /\ (phase[r] = "receiving" => mail[q][i] # r)
  BY <1>1 DEF MailInv
<1>3. CASE phase[r] = "receiving"
  <2>1. /\ phase' = [phase EXCEPT ![t] = "awaitingReply", ![r] = "ready"]
        /\ request' = [request EXCEPT ![t] = req, ![r] = Idle] /\ UNCHANGED mail
    BY <1>3 DEF Send
  <2> HIDE DEF req
  <2>2. MailInv'
    <3>1. DOMAIN phase' = Slots /\ DOMAIN request' = Slots
      BY <2>1 DEF MailInv
    <3>2. ASSUME NEW q \in Slots, NEW i \in 1 .. Len(mail[q])
          PROVE  phase'[mail[q][i]] = "sending" /\ request'[mail[q][i]].tid[1] = q
      <4>1. mail[q][i] \in Slots /\ mail[q][i] # t /\ mail[q][i] # r
        BY <1>2, <1>3 DEF MailInv
      <4> QED
        BY <2>1, <4>1 DEF MailInv
    <3>3. mail' = mail
      BY <2>1
    <3> QED
      BY <3>1, <3>2, <3>3, Zenon DEF MailInv
  <2>3. \A x, y \in Slots : Waits(x, y)' => (x = t /\ y = r) \/ (x # t /\ Waits(x, y))
    BY <1>1, <1>3, <2>1 DEF MailInv, Waits
  <2> QED
    BY <1>1, <2>1, <2>2, <2>3 DEF Begins, MailInv, Idles
<1>4. CASE phase[r] # "receiving"
  <2>1. /\ phase' = [phase EXCEPT ![t] = "sending"]
        /\ request' = [request EXCEPT ![t] = req]
        /\ mail' = [mail EXCEPT ![r] = Append(@, t)]
    BY <1>4 DEF Send
  <2> HIDE DEF req
  <2>2. /\ mail' \in [Slots -> Seq(Slots)] /\ \A q \in Slots \ {r} : mail'[q] = mail[q]
        /\ Len(mail'[r]) = Len(mail[r]) + 1 /\ mail'[r][Len(mail[r]) + 1] = t
        /\ \A i \in 1 .. Len(mail[r]) : mail'[r][i] = mail[r][i]
        /\ Len(mail[r]) \in Nat
    BY <2>1 DEF MailInv
  <2>0. Len(mail[r]) \in Nat
    BY <2>2
  <2>3. ASSUME NEW q \in Slots, NEW i \in 1 .. Len(mail'[q])
        PROVE  phase'[mail'[q][i]] = "sending" /\ request'[mail'[q][i]].tid[1] = q
    <3>1. CASE q = r /\ i = Len(mail[r]) + 1
      BY <1>1, <2>1, <2>2, <3>1 DEF MailInv
    <3>2. CASE ~(q = r /\ i = Len(mail[r]) + 1)
      <4>1. i \in 1 .. Len(mail[q]) /\ mail'[q][i] = mail[q][i]
        BY <2>2, <3>2
      <4> QED
        BY <1>2, <2>1, <4>1 DEF MailInv
    <3> QED
      BY <3>1, <3>2
  <2>4. ASSUME NEW q \in Slots, NEW i \in 1 .. Len(mail'[q]), NEW j \in 1 .. Len(mail'[q]),
               mail'[q][i] = mail'[q][j]
        PROVE  i = j
    <3>1. CASE q # r
      BY <2>2, <2>4, <3>1 DEF MailInv
    <3>2. CASE q = r
      <4>1. \A k \in 1 .. Len(mail'[q]) : k = Len(mail[r]) + 1 <=> mail'[q][k] = t
        <5> SUFFICES ASSUME NEW k \in 1 .. (Len(mail[r]) + 1)
                     PROVE  k = Len(mail[r]) + 1 <=> mail'[r][k] = t
          BY <2>2, <3>2
        <5>1. k # Len(mail[r]) + 1 => k \in 1 .. Len(mail[r])
          BY <2>0, UpTo
        <5> QED
          BY <1>2, <2>2, <5>1
      <4>2. CASE i = Len(mail[r]) + 1
        BY <2>4, <4>1, <4>2
      <4>3. CASE i # Len(mail[r]) + 1
        <5>1. j # Len(mail[r]) + 1
          BY <2>4, <4>1, <4>3
        <5>2. i \in 1 .. Len(mail[r]) /\ j \in 1 .. Len(mail[r])
          <6>1. i \in 1 .. (Len(mail[r]) + 1) /\ j \in 1 .. (Len(mail[r]) + 1)
            BY <2>2, <3>2
          <6> QED
            BY <2>0, <4>3, <5>1, <6>1, UpTo
        <5>3. mail[r][i] = mail[r][j]
          BY <2>2, <2>4, <3>2, <5>2
        <5> QED
          BY <5>2, <5>3 DEF MailInv
      <4> QED
        BY <4>2, <4>3
    <3> QED
      BY <3>1, <3>2
  <2>5. MailInv'
    BY <2>1, <2>2, <2>3, <2>4 DEF MailInv
  <2>6. \A x, y \in Slots : Waits(x, y)' => (x = t /\ y = r) \/ (x # t /\ Waits(x, y))
    BY <1>1, <2>1 DEF MailInv, Waits
  <2> QED
    BY <1>1, <2>1, <2>5, <2>6 DEF Begins, Idles, MailInv
<1> QED
  BY <1>3, <1>4

(* Then who sends to whom in these programs.                               *)

Targets(x) ==
  CASE x = Poller  -> {Driver}
    [] x = Courier -> {Driver, Ui}
    [] x = Ui      -> {Driver, Courier}
    [] x = Boot    -> {Ui} \cup Executors
    [] x \in Executors -> {Driver, Ui}
    [] OTHER       -> {}

\* The UI task sends to its courier before that sends to anybody.
Early == {"start", "courier", "configure"}
Fresh == {"start", "ready"}

CircleInv ==
  /\ MailInv /\ DOMAIN pc = Slots
  /\ Idles(Driver)
  /\ \A x, y \in Slots : Waits(x, y) => y \in Targets(x)
  /\ pc[Courier] \in Fresh => Idles(Courier)
  /\ pc[Ui] \in Early => Idles(Ui) /\ pc[Courier] \in Fresh
  /\ Waits(Ui, Courier) => pc[Courier] \in Fresh

LEMMA CircleAtFirst == CommandInit => CircleInv
<1> SUFFICES ASSUME CommandInit PROVE CircleInv
  OBVIOUS
<1> USE TasksDiffer
<1>1. \A x \in Slots : Idles(x)
  BY DEF CommandInit, Idles
<1>2. DOMAIN pc = Slots /\ pc[Courier] = "start" /\ pc[Ui] = "start"
  BY DEF CommandInit
<1>3. <<>> \in Seq(Slots) /\ Len(<<>>) = 0
  OBVIOUS
<1>4. MailInv
  BY <1>3 DEF CommandInit, MailInv
<1>5. \A x, y \in Slots : ~Waits(x, y)
  BY <1>1 DEF Idles, Waits
<1> QED
  BY <1>1, <1>2, <1>4, <1>5 DEF CircleInv, Fresh

\* Steps that make nobody wait: of a task that is not the UI task or its courier,
\* or of one of the two.
LEMMA FreeStep ==
  ASSUME CircleInv, NEW t \in Slots, Frees(t), DOMAIN pc' = Slots,
         pc'[Courier] = pc[Courier], pc'[Ui] = pc[Ui] \/ pc'[Ui] \notin Early
  PROVE  CircleInv'
BY TasksDiffer DEF CircleInv, Frees

\* Nothing that matters changes.
LEMMA NoStep ==
  ASSUME CircleInv, UNCHANGED <<phase, mail, request, pc>>
  PROVE  CircleInv'
BY DEF CircleInv, MailInv, Waits, Idles

\* A Send to one of a task's targets.
LEMMA SendStep ==
  ASSUME CircleInv, NEW t \in Slots, NEW r \in Slots, NEW len, NEW rlen,
         Send(t, r, len, rlen), r \in Targets(t), t # Driver, DOMAIN pc' = Slots,
         t # Ui => pc'[Ui] = pc[Ui],
         t = Ui => pc'[Ui] \notin Early,
         t # Courier => pc'[Courier] = pc[Courier],
         t = Courier => pc[Courier] \notin Fresh /\ pc'[Courier] \notin Fresh,
         t = Ui /\ r = Courier => pc[Ui] \in Early
  PROVE  CircleInv'
<1>1. Begins(t, r)
  BY SendBegins DEF CircleInv
<1>2. \A x, y \in Slots : Waits(x, y)' => y \in Targets(x)
  BY <1>1 DEF CircleInv, Begins
<1>3. pc'[Courier] \in Fresh => Idles(Courier)'
  BY <1>1, TasksDiffer DEF CircleInv, Begins
<1>4. pc'[Ui] \in Early => Idles(Ui)' /\ pc'[Courier] \in Fresh
  BY <1>1, TasksDiffer DEF CircleInv, Begins
<1>5. Waits(Ui, Courier)' => pc'[Courier] \in Fresh
  BY <1>1, TasksDiffer DEF CircleInv, Begins
<1>6. Idles(Driver)'
  BY <1>1, TasksDiffer DEF CircleInv, Begins
<1>7. MailInv'
  BY <1>1 DEF Begins
<1> QED
  BY <1>2, <1>3, <1>4, <1>5, <1>6, <1>7 DEF CircleInv, Targets

LEMMA CourierCircle == CircleInv /\ CourierStep => CircleInv'
<1> SUFFICES ASSUME CircleInv, CourierStep PROVE CircleInv'
  OBVIOUS
<1> USE TasksDiffer
<1>1. CASE At(Courier, "start", "ready") /\ Receive(Courier, WordLen)
  <2>1. Frees(Courier)
    BY <1>1, ReceiveFrees DEF CircleInv
  <2> QED
    BY <1>1, <2>1 DEF At, CircleInv, Frees, Fresh
<1>2. CASE At(Courier, "ready", "read") /\ Reply(Courier, Ui, WordLen)
  <2>1. Frees(Courier) /\ phase[Ui] = "awaitingReply" /\ Idles(Ui)'
    BY <1>2, ReplyFrees DEF CircleInv
  <2>2. pc[Ui] \notin Early
    BY <2>1 DEF CircleInv, Idles
  <2>3. ~Waits(Ui, Courier)'
    BY <2>1 DEF Waits, Idles
  <2> QED
    BY <1>2, <2>1, <2>2, <2>3 DEF At, CircleInv, Frees, Fresh
<1>3. CASE CourierReads
  BY <1>3, SendStep DEF CourierReads, At, CircleInv, Targets, Fresh
<1>4. CASE CourierHas \/ CourierGoesOn
  <2>1. Frees(Courier)
    BY <1>4, CollectFrees DEF CourierHas, CourierGoesOn, Returns, CircleInv
  <2> QED
    BY <1>4, <2>1 DEF CourierHas, CourierGoesOn, At, CircleInv, Frees, Fresh
<1>5. CASE CourierTells
  BY <1>5, SendStep DEF CourierTells, At, CircleInv, Targets, Fresh
<1> QED
  BY <1>1, <1>2, <1>3, <1>4, <1>5 DEF CourierStep, CourierStarts

LEMMA UiCircle == CircleInv /\ UiStep => CircleInv'
<1> SUFFICES ASSUME CircleInv, UiStep PROVE CircleInv'
  OBVIOUS
<1> USE TasksDiffer
<1>1. CASE At(Ui, "start", "courier") /\ Receive(Ui, WordLen)
  <2>1. Frees(Ui)
    BY <1>1, ReceiveFrees DEF CircleInv
  <2> QED
    BY <1>1, <2>1 DEF At, CircleInv, Frees, Early
<1>2. CASE At(Ui, "courier", "configure") /\ Start(Ui, Courier)
  <2>1. Frees(Ui)
    BY <1>2, StartFrees DEF CircleInv
  <2> QED
    BY <1>2, <2>1 DEF At, CircleInv, Frees, Early
<1>3. CASE At(Ui, "configure", "ready") /\ Send(Ui, Courier, WordLen, WordLen)
  BY <1>3, SendStep DEF At, CircleInv, Targets, Early
<1>4. CASE At(Ui, "ready", "prompt") /\ Reply(Ui, Boot, WordLen)
  <2>1. Frees(Ui)
    BY <1>4, ReplyFrees DEF CircleInv
  <2> QED
    BY <1>4, <2>1, FreeStep DEF At, CircleInv, Early
<1>5. CASE At(Ui, "prompt", "work") /\ Puts(Ui)
  BY <1>5, SendStep DEF At, Puts, CircleInv, Targets, Early
<1>6. CASE UiReceives
  <2>1. Frees(Ui)
    BY <1>6, ReceiveFrees DEF UiReceives, CircleInv
  <2> QED
    BY <1>6, <2>1, FreeStep DEF UiReceives, At, CircleInv, Early
<1>7. CASE Subscribe \/ Redraw \/ CharacterForUi
  <2>1. At(Ui, "message", "work") /\ Returns(Ui)
    BY <1>7 DEF Subscribe, Redraw, CharacterForUi, Handles
  <2>2. Frees(Ui)
    BY <2>1, CollectFrees DEF Returns, CircleInv
  <2> QED
    BY <2>1, <2>2, FreeStep DEF At, CircleInv, Early
<1>8. CASE UiPuts
  BY <1>8, SendStep DEF UiPuts, Does, Puts, CircleInv, Targets, Early
<1>9. CASE UiAnswers \/ HandOver
  <2>1. Frees(Ui)
    BY <1>9, ReplyFrees DEF UiAnswers, HandOver, CircleInv
  <2> QED
    BY <1>9, <2>1, FreeStep DEF UiAnswers, HandOver, Does, CircleInv
<1>10. CASE EditLetter \/ EditBackspace \/ EditEnter \/ EditOther \/ Shorten
              \/ ClearLine \/ DropCommand
  BY <1>10, NoStep
  DEF EditLetter, EditBackspace, EditEnter, EditOther, Shorten, ClearLine, DropCommand,
      Computes, calls
<1> QED
  BY <1>1, <1>2, <1>3, <1>4, <1>5, <1>6, <1>7, <1>8, <1>9, <1>10 DEF UiStep, UiStarts

LEMMA CircleStep == CircleInv /\ [CommandNext]_cliVars => CircleInv'
<1> SUFFICES ASSUME CircleInv, [CommandNext]_cliVars PROVE CircleInv'
  OBVIOUS
<1> USE TasksDiffer
<1>1. ASSUME NEW t \in Slots \ {Ui, Courier}, NEW l, pc' = [pc EXCEPT ![t] = l], Frees(t)
      PROVE  CircleInv'
  BY <1>1, FreeStep DEF CircleInv
<1>2. ASSUME NEW t \in Slots \ {Ui, Courier, Driver}, NEW l, pc' = [pc EXCEPT ![t] = l],
             NEW r \in Targets(t), NEW len, NEW rlen, r \in Slots, Send(t, r, len, rlen)
      PROVE  CircleInv'
  BY <1>2, SendStep DEF CircleInv
<1>3. CASE UartInterrupt
  BY <1>2, <1>3 DEF UartInterrupt, At, Targets
<1>4. CASE DriverStep
  <2>1. Frees(Driver)
    BY <1>4, ReceiveFrees, CollectFrees, ReplyFrees
    DEF DriverStep, DriverReceives, DriverHandles, DriverReplies, Returns, CircleInv
  <2> QED
    BY <1>1, <1>4, <2>1 DEF DriverStep, DriverReceives, DriverHandles, DriverReplies, At
<1>5. CASE InitApplication
  <2>1. CASE At(Boot, "ui", "configure") /\ Start(Boot, Ui)
    BY <1>1, <2>1, StartFrees DEF At, CircleInv
  <2>2. CASE At(Boot, "configure", "cli") /\ Send(Boot, Ui, WordLen, WordLen)
    BY <1>2, <2>2 DEF At, Targets
  <2>3. ASSUME NEW e \in Executors, At(Boot, "cli", "executor"), Start(Boot, e)
        PROVE  CircleInv'
    BY <1>1, <2>3, StartFrees DEF At, CircleInv
  <2>4. ASSUME NEW e \in Executors, At(Boot, "executor", "cli"),
               Send(Boot, e, CliDataLen, WordLen)
        PROVE  CircleInv'
    BY <1>2, <2>4 DEF At, Targets
  <2> QED
    BY <1>5, <2>1, <2>2, <2>3, <2>4 DEF InitApplication
<1>6. ASSUME NEW e \in Executors, ExecutorStep(e) PROVE CircleInv'
  <2>1. e \in Slots \ {Ui, Courier, Driver} /\ Driver \in Targets(e) /\ Ui \in Targets(e)
    BY DEF Targets
  <2>2. CASE ExecutorStarts(e)
    <3>1. Frees(e)
      BY <2>1, <2>2, ReceiveFrees, ReplyFrees DEF ExecutorStarts, CircleInv
    <3> QED
      BY <1>1, <2>1, <2>2, <3>1 DEF ExecutorStarts, At
  <2>3. CASE Subscribes(e)
    BY <1>2, <2>1, <2>3 DEF Subscribes, At
  <2>4. CASE Executes(e)
    BY <1>2, <2>1, <2>4 DEF Executes, Puts, At
  <2> QED
    BY <1>6, <2>2, <2>3, <2>4 DEF ExecutorStep
<1>7. ASSUME NEW t \in Slots, Resume(t) PROVE CircleInv'
  <2>1. Frees(t) /\ UNCHANGED pc
    BY <1>7, CollectFrees DEF Resume, Ignores, Returns, CircleInv
  <2> QED
    BY <2>1, FreeStep DEF CircleInv
<1>8. CASE UNCHANGED cliVars
  BY <1>8, NoStep DEF cliVars, calls
<1> QED
  BY <1>3, <1>4, <1>5, <1>6, <1>7, <1>8, CourierCircle, UiCircle DEF CommandNext

\* In no set of tasks does each wait in a Send for one of the set (serialUI.c,
\* serialDriver.c, baseCli.c), for any number of executors.
THEOREM NobodyInACircle == CommandSpec => []NoCircle
<1>1. CommandInit => CircleInv
  BY CircleAtFirst
<1>2. CircleInv /\ [CommandNext]_cliVars => CircleInv'
  BY CircleStep
<1>3. CircleInv => NoCircle
  <2> SUFFICES ASSUME CircleInv, NEW S \in SUBSET Slots, S # {}
               PROVE  \E t \in S : \A u \in S : <<t, u>> \notin WaitsFor
    BY DEF NoCircle
  <2> USE TasksDiffer
  <2>1. \A t, u \in Slots : <<t, u>> \in WaitsFor => Waits(t, u)
    BY DEF WaitsFor, Waits
  <2>2. SUFFICES \E t \in S : \A u \in S : ~Waits(t, u)
    BY <2>1
  <2>3. \A t, u \in Slots : Waits(t, u) => ~Idles(t) /\ u \in Targets(t)
    BY DEF CircleInv, Waits, Idles
  <2>4. CASE Driver \in S
    BY <2>3, <2>4 DEF CircleInv
  <2>5. CASE Driver \notin S /\ Poller \in S
    BY <2>3, <2>5 DEF Targets
  <2>6. CASE Driver \notin S /\ Ui \in S
    <3>1. \A u \in S : Waits(Ui, u) => u = Courier
      BY <2>3, <2>6 DEF Targets
    <3>2. CASE Courier \in S /\ Waits(Ui, Courier)
      BY <2>3, <3>2 DEF CircleInv
    <3> QED
      BY <2>6, <3>1, <3>2
  <2>7. CASE Driver \notin S /\ Ui \notin S /\ Courier \in S
    BY <2>3, <2>7 DEF Targets
  <2>8. ASSUME Driver \notin S, Ui \notin S, NEW e \in Executors, e \in S
        PROVE  \A u \in S : ~Waits(e, u)
    BY <2>3, <2>8 DEF Targets
  <2>9. CASE S = {Boot}
    BY <2>3, <2>9 DEF Targets
  <2> QED
    BY <2>4, <2>5, <2>6, <2>7, <2>8, <2>9
<1> QED
  BY <1>1, <1>2, <1>3, PTL DEF CommandSpec

-----------------------------------------------------------------------------
(* The command tree.                                                       *)

\* What a field can hold.
Values == Pointers \cup Functions \cup STRING \cup {Garbage}

TreeInv == TypeOK /\ RecordsKept /\ LinksKept

\* The root, the null pointer and the records are different things, and so are
\* records that are bound and others.
LEMMA TreeFacts ==
  /\ Root \notin Records /\ Null \notin Nodes /\ Null \notin Functions
  /\ Null \notin Names
  /\ Nodes = Records \cup {Root} /\ Pointers = Nodes \cup {Null}
  BY DirectoryAssumption DEF Nodes, Pointers

\* What the type invariant says of the entries.
LEMMA EntryFacts ==
  ASSUME TypeOK
  PROVE  /\ Ages = 1 .. Len(bound) /\ Len(bound) \in Nat
         /\ \A i \in Ages :
              /\ bound[i].rec \in Records /\ bound[i].rec # Root /\ bound[i].rec # Null
              /\ bound[i].name \in STRING /\ bound[i].fv \in Functions \cup {Null}
              /\ bound[i].dir \in Directories
         /\ Directories \subseteq Nodes
         /\ \A d : In(d) \subseteq Ages
         /\ Commands \subseteq Ages
  <1>1. /\ Ages = 1 .. Len(bound) /\ Len(bound) \in Nat
        /\ \A i \in Ages : bound[i] \in [rec : Records, name : STRING,
                                        fv : Functions \cup {Null}, dir : Nodes]
    <2> DEFINE T == [rec : Records, name : STRING, fv : Functions \cup {Null},
                     dir : Nodes]
    <2>1. bound \in Seq(T)
      BY DEF TypeOK
    <2> HIDE DEF T
    <2>2. /\ Ages = 1 .. Len(bound) /\ Len(bound) \in Nat
          /\ \A i \in Ages : bound[i] \in T
      BY <2>1 DEF Ages
    <2> QED BY <2>2 DEF T
  <1>2. \A i \in Ages : bound[i].rec \in Records
    BY <1>1
  <1>3. Directories \subseteq Nodes
    BY <1>2, TreeFacts DEF Directories
  <1>4. \A i \in Ages : bound[i].dir \in Directories
    BY DEF TypeOK
  <1>5. \A d : In(d) \subseteq Ages
    BY DEF In
  <1> QED BY <1>1, <1>2, <1>3, <1>4, <1>5, TreeFacts DEF Commands

\* Every set that has the start of a walk and is closed under its links has all
\* that the walk meets.
LEMMA MetInClosed ==
  ASSUME NEW x, NEW next, NEW M, NEW S \in SUBSET Pointers,
         x \in S, \A z \in S \ M : z = Null \/ next[z] \in S
  PROVE  Met(x, next, M) \subseteq S
  BY DEF Met

\* The entries of d and the null pointer are closed under next_entry.
LEMMA EntriesClosed ==
  ASSUME TypeOK, LinksKept, NEW d \in Directories, NEW M
  PROVE  Met(link2subdir[d], next_entry, M) \subseteq
           {bound[i].rec : i \in In(d)} \cup {Null}
  <1> DEFINE S == {bound[i].rec : i \in In(d)} \cup {Null}
  <1>1. S \in SUBSET Pointers
    BY EntryFacts, TreeFacts DEF In
  <1>2. link2subdir[d] \in S
    BY DEF LinksKept, Follows
  <1>3. \A z \in S \ M : z = Null \/ next_entry[z] \in S
    BY DEF LinksKept, Follows, In
  <1>4. Met(link2subdir[d], next_entry, M) \subseteq S
    <2> HIDE DEF S
    <2> QED BY <1>1, <1>2, <1>3, MetInClosed
  <1> QED BY <1>4

\* The commands and the null pointer are closed under cmd_list.
LEMMA CommandsClosed ==
  ASSUME TypeOK, LinksKept, NEW M
  PROVE  Met(list, cmd_list, M) \subseteq {bound[i].rec : i \in Commands} \cup {Null}
  <1> DEFINE S == {bound[i].rec : i \in Commands} \cup {Null}
  <1>1. S \in SUBSET Pointers
    BY EntryFacts, TreeFacts
  <1>2. list \in S
    BY DEF LinksKept, Precedes
  <1>3. \A z \in S \ M : z = Null \/ cmd_list[z] \in S
    BY DEF LinksKept, Precedes, Commands
  <1>4. Met(list, cmd_list, M) \subseteq S
    <2> HIDE DEF S
    <2> QED BY <1>1, <1>2, <1>3, MetInClosed
  <1> QED BY <1>4

\* A walk through d that ends at an entry with no successor ends at its youngest.
LEMMA EndIsYoungest ==
  ASSUME TypeOK, LinksKept, NEW d \in Directories, NEW M \in SUBSET Nodes,
         NEW e \in Hit(link2subdir[d], next_entry, M), next_entry[e] = Null
  PROVE  \E i \in In(d) : e = bound[i].rec /\ \A j \in In(d) : j <= i
  <1>1. PICK i \in In(d) : e = bound[i].rec
    BY EntriesClosed, TreeFacts DEF Hit
  <1>2. Follows(Null, i, d)
    BY <1>1 DEF LinksKept, In
  <1>3. \A j \in In(d) : bound[j].rec # Null
    BY EntryFacts
  <1> QED BY <1>1, <1>2, <1>3 DEF Follows

-----------------------------------------------------------------------------
(* A bind keeps the invariant.                                             *)

\* Record r, which is not bound, becomes an entry of directory d.
Binding(n, f, d, r) ==
  /\ n \in Names /\ f \in Functions \cup {Null} /\ d \in Directories
  /\ r \in Records \ Bound
  /\ FillRecord(n, f, d, r)
  /\ {next_entry', link2subdir'} \subseteq [Nodes -> Values]

\* Record r becomes the youngest entry; the older ones stay as they are.
LEMMA BoundGrows ==
  ASSUME TypeOK, NEW n, NEW f, NEW d, NEW r, Binding(n, f, d, r),
         NEW l, l = Len(bound) + 1
  PROVE  /\ l \in Nat /\ Len(bound') = l
         /\ Ages' = Ages \cup {l} /\ \A i \in Ages : i < l /\ 0 < i
         /\ \A i \in Ages : bound'[i] = bound[i]
         /\ bound'[l] = [rec |-> r, name |-> Stored[n], fv |-> f, dir |-> d]
         /\ \A x \in Directories : In(x)' = IF x = d THEN In(x) \cup {l} ELSE In(x)
         /\ In(r) = {} /\ In(r)' = {}
         /\ Commands' = IF f = Null THEN Commands ELSE Commands \cup {l}
         /\ Directories' = IF f = Null THEN Directories \cup {r} ELSE Directories
         /\ r \notin Directories
         /\ TypeOK'
  <1> /\ n \in Names /\ f \in Functions \cup {Null} /\ d \in Directories
      /\ r \in Records /\ r \notin Bound /\ FillRecord(n, f, d, r)
      /\ {next_entry', link2subdir'} \subseteq [Nodes -> Values]
    BY DEF Binding
  <1> DEFINE x == [rec |-> r, name |-> Stored[n], fv |-> f, dir |-> d]
             T == [rec : Records, name : STRING, fv : Functions \cup {Null}, dir : Nodes]
  <1>1. bound' = Append(bound, x)
    BY DEF FillRecord
  <1>2. bound \in Seq(T) /\ x \in T
    BY EntryFacts, DirectoryAssumption DEF TypeOK
  <1>3. /\ bound' \in Seq(T) /\ l \in Nat /\ Len(bound') = l
        /\ Ages = 1 .. Len(bound) /\ Ages' = 1 .. l /\ bound'[l] = x
        /\ \A i \in Ages : bound'[i] = bound[i]
    <2> HIDE DEF T, x
    <2> QED BY <1>1, <1>2 DEF Ages
  <1>4. Ages' = Ages \cup {l} /\ \A i \in Ages : i < l /\ 0 < i
    BY <1>3
  <1>5. \A y : In(y)' = {i \in Ages' : bound'[i].dir = y}
    BY DEF In
  <1>6. \A y : In(y)' = IF y = d THEN In(y) \cup {l} ELSE In(y)
    BY <1>3, <1>4, <1>5 DEF In
  <1>7. r \notin Directories
    BY TreeFacts DEF Directories, Bound
  <1>8. In(r) = {} /\ r # d
    BY <1>7, EntryFacts DEF In
  <1>9. Commands' = IF f = Null THEN Commands ELSE Commands \cup {l}
    BY <1>3, <1>4 DEF Commands
  <1>10. Ages' \ Commands' = IF f = Null THEN (Ages \ Commands) \cup {l} ELSE Ages \ Commands
    BY <1>4, <1>9, <1>3 DEF Commands
  <1>11. Directories' = IF f = Null THEN Directories \cup {r} ELSE Directories
    BY <1>3, <1>10 DEF Directories
  <1>12. \A i, j \in Ages' : bound'[i].rec = bound'[j].rec => i = j
    BY <1>3, <1>4 DEF TypeOK, Bound
  <1>13. \A i \in Ages' : bound'[i].dir \in Directories'
    BY <1>3, <1>4, <1>11, EntryFacts
  <1>14. list' \in Pointers /\ current_directory' \in Directories'
    BY <1>11, TreeFacts DEF TypeOK, FillRecord
  <1>15. /\ {name, fv, parent_dir, cmd_list} \subseteq [Nodes -> Values]
         /\ r \in Nodes /\ {Stored[n], f, d, list} \subseteq Values
    BY TreeFacts, EntryFacts, DirectoryAssumption DEF TypeOK, Values
  <1>16. {name', fv', parent_dir', cmd_list'} \subseteq [Nodes -> Values]
    BY <1>15 DEF FillRecord, PutName, PutParent
  <1>17. TypeOK'
    BY <1>3, <1>12, <1>13, <1>14, <1>16 DEF TypeOK, Values
  <1> QED BY <1>3, <1>4, <1>6, <1>7, <1>8, <1>9, <1>11, <1>17

\* The fields of the older records and of the root stay as they are.
LEMMA RecordsGrow ==
  ASSUME TypeOK, RecordsKept, NEW n, NEW f, NEW d, NEW r, Binding(n, f, d, r)
  PROVE  RecordsKept'
  <1> /\ n \in Names /\ f \in Functions \cup {Null} /\ d \in Directories
      /\ r \in Records /\ r \notin Bound /\ FillRecord(n, f, d, r)
      /\ {next_entry', link2subdir'} \subseteq [Nodes -> Values]
    BY DEF Binding
  <1> DEFINE l == Len(bound) + 1
  <1>1. /\ Ages' = Ages \cup {l} /\ \A i \in Ages : bound'[i] = bound[i]
        /\ bound'[l] = [rec |-> r, name |-> Stored[n], fv |-> f, dir |-> d]
    BY BoundGrows
  <1>2. \A x \in Nodes : x # r =>
          name'[x] = name[x] /\ fv'[x] = fv[x] /\ parent_dir'[x] = parent_dir[x]
    BY DEF FillRecord, PutName, PutParent, TypeOK
  <1>3. name'[r] = Stored[n] /\ fv'[r] = f /\ parent_dir'[r] = d
    BY TreeFacts DEF FillRecord, PutName, PutParent, TypeOK
  <1>4. Root # r /\ Root \in Nodes /\ \A i \in Ages : bound[i].rec # r /\ bound[i].rec \in Nodes
    BY TreeFacts, EntryFacts DEF Bound
  <1> HIDE DEF l
  <1> QED BY <1>1, <1>2, <1>3, <1>4 DEF RecordsKept

\* So do the links of the other directories and of the older commands.
LEMMA CommandsGrow ==
  ASSUME TypeOK, LinksKept, NEW n, NEW f, NEW d, NEW r, Binding(n, f, d, r)
  PROVE  /\ Precedes(list, Len(bound) + 1)'
         /\ \A i \in Commands' : Precedes(cmd_list[bound[i].rec], i)'
  <1> /\ n \in Names /\ f \in Functions \cup {Null} /\ d \in Directories
      /\ r \in Records /\ r \notin Bound /\ FillRecord(n, f, d, r)
      /\ {next_entry', link2subdir'} \subseteq [Nodes -> Values]
    BY DEF Binding
  <1> DEFINE l == Len(bound) + 1
  <1>0. /\ l \in Nat /\ Len(bound') = l
        /\ Ages' = Ages \cup {l} /\ \A i \in Ages : i < l /\ 0 < i
        /\ \A i \in Ages : bound'[i] = bound[i]
        /\ bound'[l] = [rec |-> r, name |-> Stored[n], fv |-> f, dir |-> d]
        /\ Commands' = IF f = Null THEN Commands ELSE Commands \cup {l}
    BY BoundGrows
  <1>1. /\ Ages' = Ages \cup {l} /\ \A i \in Ages : bound'[i] = bound[i] /\ i < l
        /\ l \in Nat /\ Len(bound') = l /\ bound'[l].rec = r
        /\ Commands' = IF f = Null THEN Commands ELSE Commands \cup {l}
    BY <1>0
  <1>2. Commands \subseteq Ages /\ Ages \subseteq Nat
    BY EntryFacts
  <1>3. /\ \A i \in Ages : bound[i].rec \in Nodes /\ bound[i].rec # r
        /\ f # Null => list' = r /\ cmd_list'[r] = list
        /\ f = Null => list' = list
        /\ \A x \in Nodes : x # r => cmd_list'[x] = cmd_list[x]
    BY EntryFacts, TreeFacts DEF FillRecord, TypeOK, Bound
  <1>4. Precedes(list, l)
    BY DEF LinksKept
  <1> HIDE DEF l
  <1>5. ASSUME NEW i \in Ages, NEW x, Precedes(x, i)
        PROVE  Precedes(x, i)' 
    BY <1>1, <1>2, <1>5 DEF Precedes
  <1>6. Precedes(list, Len(bound) + 1)'
    <2> SUFFICES ASSUME NEW x, x = list', NEW m, m = l + 1
                 PROVE  Precedes(x, m)'
      BY <1>1
    <2>1. CASE f # Null
      BY <1>1, <1>2, <1>3, <2>1 DEF Precedes
    <2>2. CASE f = Null
      <3>1. Precedes(x, l) /\ Commands' = Commands
        BY <1>1, <1>3, <1>4, <2>2
      <3> QED BY <1>1, <1>2, <3>1 DEF Precedes
    <2> QED BY <2>1, <2>2
  <1>7. ASSUME NEW i \in Commands'
        PROVE  Precedes(cmd_list[bound[i].rec], i)'
    <2> SUFFICES ASSUME NEW x, x = cmd_list'[bound'[i].rec]
                 PROVE  Precedes(x, i)'
      OBVIOUS
    <2>1. CASE i \in Commands
      <3>1. x = cmd_list[bound[i].rec]
        BY <1>1, <1>2, <1>3, <2>1
      <3>2. Precedes(x, i)
        BY <2>1, <3>1 DEF LinksKept
      <3> QED BY <1>2, <1>5, <2>1, <3>2
    <2>2. CASE i = l /\ f # Null
      <3>1. Precedes(x, l)
        BY <1>1, <1>3, <1>4, <2>2
      <3>2. CASE x = Null /\ \A j \in Commands : l <= j
        BY <1>1, <1>2, <2>2, <3>2 DEF Precedes
      <3>3. ASSUME NEW j \in Commands, x = bound[j].rec, j < l,
                   \A k \in Commands : k <= j \/ l <= k
            PROVE  Precedes(x, i)'
        <4>1. j \in Commands' /\ x = bound'[j].rec /\ j < i
          BY <1>1, <1>2, <2>2, <3>3
        <4>2. \A k \in Commands' : k <= j \/ i <= k
          BY <1>1, <1>2, <2>2, <3>3
        <4> QED BY <4>1, <4>2 DEF Precedes
      <3> QED BY <3>1, <3>2, <3>3 DEF Precedes
    <2> QED BY <1>1, <2>1, <2>2
  <1> QED BY <1>6, <1>7

\* The three ways in which a pointer comes to follow an entry.
LEMMA FollowsAgain ==
  ASSUME TypeOK, NEW n, NEW f, NEW d, NEW r, Binding(n, f, d, r),
         NEW l, l = Len(bound) + 1
  PROVE  /\ \A x, i : \A y \in Directories :
              Follows(x, i, y) /\ i \in Nat /\ i < l /\ (x # Null \/ y # d)
                => Follows(x, i, y)'
         /\ \A i \in Nat : i < l /\ (\A j \in In(d) : j <= i) => Follows(r, i, d)'
         /\ Follows(Null, l, d)' /\ \A i \in Nat : Follows(Null, i, r)'
  <1> /\ n \in Names /\ f \in Functions \cup {Null} /\ d \in Directories
      /\ r \in Records /\ r \notin Bound /\ FillRecord(n, f, d, r)
      /\ {next_entry', link2subdir'} \subseteq [Nodes -> Values]
    BY DEF Binding
  <1>1. /\ l \in Nat /\ \A i \in Ages : i < l
        /\ \A i \in Ages : bound'[i] = bound[i]
        /\ bound'[l] = [rec |-> r, name |-> Stored[n], fv |-> f, dir |-> d]
        /\ \A x \in Directories : In(x)' = IF x = d THEN In(x) \cup {l} ELSE In(x)
        /\ In(r)' = {}
    BY BoundGrows
  <1>2. \A y : In(y) \subseteq Ages /\ \A i \in In(y) : i \in Nat /\ i < l
    BY <1>1, EntryFacts
  <1>3. ASSUME NEW x, NEW i \in Nat, NEW y \in Directories, Follows(x, i, y), i < l,
               x # Null \/ y # d
        PROVE  Follows(x, i, y)'
    <2>1. CASE x = Null /\ \A j \in In(y) : j <= i
      BY <1>1, <1>3, <2>1 DEF Follows
    <2>2. ASSUME NEW j \in In(y), x = bound[j].rec, i < j,
                 \A k \in In(y) : k <= i \/ j <= k
          PROVE  Follows(x, i, y)'
      <3>1. j \in In(y)' /\ x = bound'[j].rec
        BY <1>1, <1>2, <2>2
      <3>2. \A k \in In(y)' : k \in In(y) \/ k = l
        BY <1>1
      <3>3. \A k \in In(y)' : k <= i \/ j <= k
        BY <1>1, <1>2, <2>2, <3>2
      <3> QED BY <2>2, <3>1, <3>3 DEF Follows
    <2> QED BY <1>3, <2>1, <2>2 DEF Follows
  <1>4. ASSUME NEW i \in Nat, i < l, \A j \in In(d) : j <= i
        PROVE  Follows(r, i, d)'
    <2>1. l \in In(d)' /\ r = bound'[l].rec /\ \A k \in In(d)' : k <= i \/ l <= k
      BY <1>1, <1>4
    <2> QED BY <1>4, <2>1 DEF Follows
  <1>5. Follows(Null, l, d)'
    <2>1. In(d)' = In(d) \cup {l}
      BY <1>1
    <2>2. \A j \in In(d)' : j <= l
      BY <1>1, <1>2, <2>1
    <2> QED BY <2>2 DEF Follows
  <1>6. ASSUME NEW i \in Nat
        PROVE  Follows(Null, i, r)'
    BY <1>1 DEF Follows
  <1> QED BY <1>3, <1>4, <1>5, <1>6

\* An empty directory gets its first entry.
LEMMA FirstEntry ==
  ASSUME TypeOK, LinksKept, NEW n, NEW f, NEW d, NEW r, Binding(n, f, d, r),
         LinkFirst(d, r)
  PROVE  /\ \A x \in Directories' : Follows(link2subdir[x], 0, x)'
         /\ \A i \in Ages' : Follows(next_entry[bound[i].rec], i, bound[i].dir)'
  <1> /\ n \in Names /\ f \in Functions \cup {Null} /\ d \in Directories
      /\ r \in Records /\ r \notin Bound /\ FillRecord(n, f, d, r)
      /\ {next_entry', link2subdir'} \subseteq [Nodes -> Values]
    BY DEF Binding
  <1> DEFINE l == Len(bound) + 1
  <1>1. /\ l \in Nat /\ 0 < l /\ Ages' = Ages \cup {l} /\ \A i \in Ages : i < l /\ i \in Nat
        /\ \A i \in Ages : bound'[i] = bound[i]
        /\ bound'[l] = [rec |-> r, name |-> Stored[n], fv |-> f, dir |-> d]
        /\ Directories' \subseteq Directories \cup {r} /\ r \notin Directories
    BY BoundGrows, EntryFacts
  <1>2. In(d) = {}
    <2>1. Follows(Null, 0, d)
      BY DEF LinksKept, LinkFirst
    <2> QED BY <2>1, EntryFacts DEF Follows
  <1>3. /\ link2subdir'[r] = Null /\ link2subdir'[d] = r /\ next_entry'[r] = Null
        /\ \A x \in Directories : x # d => link2subdir'[x] = link2subdir[x]
        /\ \A i \in Ages : next_entry'[bound[i].rec] = next_entry[bound[i].rec]
    BY <1>1, TreeFacts, EntryFacts DEF LinkFirst, TypeOK, Bound
  <1>4. ASSUME NEW x \in Directories'
        PROVE  Follows(link2subdir[x], 0, x)'
    <2> SUFFICES ASSUME NEW p, p = link2subdir'[x]
                 PROVE  Follows(p, 0, x)'
      OBVIOUS
    <2>1. CASE x = r
      BY <1>1, <1>3, <2>1, FollowsAgain
    <2>2. CASE x = d
      BY <1>1, <1>2, <1>3, <2>2, FollowsAgain
    <2>3. CASE x \in Directories \ {d}
      <3>1. Follows(p, 0, x)
        BY <1>3, <2>3 DEF LinksKept
      <3> QED BY <1>1, <2>3, <3>1, FollowsAgain
    <2> QED BY <1>1, <2>1, <2>2, <2>3
  <1>5. ASSUME NEW i \in Ages'
        PROVE  Follows(next_entry[bound[i].rec], i, bound[i].dir)'
    <2> SUFFICES ASSUME NEW p, p = next_entry'[bound'[i].rec], NEW x, x = bound'[i].dir
                 PROVE  Follows(p, i, x)'
      OBVIOUS
    <2>1. CASE i = l
      <3>1. p = Null /\ x = d
        BY <1>1, <1>3, <2>1
      <3> QED BY <2>1, <3>1, FollowsAgain
    <2>2. CASE i \in Ages
      <3>1. Follows(p, i, x) /\ x = bound[i].dir /\ x \in Directories /\ i \in In(x)
        BY <1>1, <1>3, <2>2, EntryFacts DEF LinksKept, In
      <3> QED BY <1>1, <1>2, <2>2, <3>1, FollowsAgain
    <2> QED BY <1>1, <2>1, <2>2
  <1> QED BY <1>4, <1>5

\* The youngest entry of a directory gets a successor.
LEMMA NextEntry ==
  ASSUME TypeOK, LinksKept, NEW n, NEW f, NEW d, NEW r, Binding(n, f, d, r),
         link2subdir[d] # Null,
         NEW e \in Hit(link2subdir[d], next_entry, StopsBind(n, r)), LinkAfter(e, r),
         NEW l, l = Len(bound) + 1
  PROVE  /\ \A x \in Directories' : Follows(link2subdir[x], 0, x)'
         /\ \A i \in Ages' : Follows(next_entry[bound[i].rec], i, bound[i].dir)'
  <1> /\ n \in Names /\ f \in Functions \cup {Null} /\ d \in Directories
      /\ r \in Records /\ r \notin Bound /\ FillRecord(n, f, d, r)
      /\ {next_entry', link2subdir'} \subseteq [Nodes -> Values]
    BY DEF Binding
  <1>1. /\ l \in Nat /\ 0 < l /\ Ages' = Ages \cup {l} /\ \A i \in Ages : i < l /\ i \in Nat
        /\ \A i \in Ages : bound'[i] = bound[i]
        /\ bound'[l] = [rec |-> r, name |-> Stored[n], fv |-> f, dir |-> d]
        /\ Directories' \subseteq Directories \cup {r} /\ r \notin Directories
    BY BoundGrows, EntryFacts
  <1>2. PICK m \in In(d) : e = bound[m].rec /\ \A j \in In(d) : j <= m
    BY EndIsYoungest DEF StopsBind, LinkAfter
  <1>3. m \in Ages /\ e \in Nodes /\ e # r
    BY <1>2, EntryFacts, TreeFacts DEF Bound
  <1>4. /\ link2subdir'[r] = Null /\ next_entry'[e] = r /\ next_entry'[r] = Null
        /\ \A x \in Directories : link2subdir'[x] = link2subdir[x]
        /\ \A i \in Ages : i # m => next_entry'[bound[i].rec] = next_entry[bound[i].rec]
    BY <1>1, <1>2, <1>3, TreeFacts, EntryFacts DEF LinkAfter, TypeOK, Bound
  <1>5. ASSUME NEW x, NEW i \in Nat, NEW y \in Directories, Follows(x, i, y), i < l,
               x # Null \/ y # d
        PROVE  Follows(x, i, y)'
    <2>1. \A z, k : \A w \in Directories :
            Follows(z, k, w) /\ k \in Nat /\ k < l /\ (z # Null \/ w # d)
              => Follows(z, k, w)'
      BY FollowsAgain
    <2> QED BY <1>5, <2>1
  <1>6. ASSUME NEW i \in Nat, i < l, \A j \in In(d) : j <= i
        PROVE  Follows(r, i, d)'
    BY <1>6, FollowsAgain
  <1>7. Follows(Null, l, d)' /\ \A i \in Nat : Follows(Null, i, r)'
    BY FollowsAgain
  <1>8. ASSUME NEW x \in Directories'
        PROVE  Follows(link2subdir[x], 0, x)'
    <2> SUFFICES ASSUME NEW p, p = link2subdir'[x]
                 PROVE  Follows(p, 0, x)'
      OBVIOUS
    <2>1. CASE x = r
      BY <1>1, <1>4, <2>1, <1>7
    <2>2. CASE x \in Directories
      <3>1. Follows(p, 0, x) /\ (p # Null \/ x # d)
        BY <1>4, <2>2 DEF LinksKept
      <3> QED BY <1>1, <2>2, <3>1, <1>5
    <2> QED BY <1>1, <2>1, <2>2
  <1>9. ASSUME NEW i \in Ages'
        PROVE  Follows(next_entry[bound[i].rec], i, bound[i].dir)'
    <2> SUFFICES ASSUME NEW p, p = next_entry'[bound'[i].rec], NEW x, x = bound'[i].dir
                 PROVE  Follows(p, i, x)'
      OBVIOUS
    <2>1. CASE i = l
      <3>1. p = Null /\ x = d
        BY <1>1, <1>4, <2>1
      <3>2. Follows(Null, l, d)'
        BY <1>7
      <3> QED BY <2>1, <3>1, <3>2
    <2>2. CASE i = m
      <3>1. p = r /\ x = d
        BY <1>1, <1>2, <1>3, <1>4, <2>2 DEF In
      <3> QED BY <1>1, <1>2, <1>3, <2>2, <3>1, <1>6
    <2>3. CASE i \in Ages \ {m}
      <3>1. Follows(p, i, x) /\ x = bound[i].dir /\ x \in Directories /\ i \in In(x)
        BY <1>1, <1>4, <2>3, EntryFacts DEF LinksKept, In
      <3>2. p = Null => x # d
        <4> SUFFICES ASSUME p = Null, x = d PROVE FALSE
          OBVIOUS
        <4>1. \A j \in In(d) : j <= i /\ bound[j].rec # Null
          BY <3>1, EntryFacts DEF Follows
        <4> QED BY <1>1, <1>2, <1>3, <2>3, <3>1, <4>1
      <3> QED BY <1>1, <2>3, <3>1, <3>2, <1>5
    <2> QED BY <1>1, <1>3, <2>1, <2>2, <2>3
  <1> QED BY <1>8, <1>9

\* The two ways to link record r into directory d.
Linking(n, d, r) ==
  \/ LinkFirst(d, r)
  \/ /\ link2subdir[d] # Null
     /\ \E e \in Hit(link2subdir[d], next_entry, StopsBind(n, r)) : LinkAfter(e, r)

\* A call of the application binds a record or is refused.
LEMMA ApplicationCases ==
  ASSUME TypeOK, RecordsKept, Application
  PROVE  \/ \E code \in Refusals : Reports(code)
         \/ \E n, f, d, r : Binding(n, f, d, r) /\ Linking(n, d, r)
  <1>1. PICK n \in Names \cup {Null}, dir \in Bound \cup {Null}, r \in Records \cup {Null} :
          /\ \/ \E f \in Functions \cup {Null} : cli_mkcmd(n, f, dir, r)
             \/ cli_mkdir(n, dir, r)
          /\ r \in Bound => UNCHANGED bound
    BY DEF Application
  <1> DEFINE d == DirectoryOf(dir)
  <1>2. \/ \E code \in Refusals : Reports(code)
        \/ /\ fv[d] = Null
           /\ \E f \in Functions \cup {Null} : cli_bind_entry(n, f, d, r)
    <2>1. {"NULL_FV", "DIR_INVALID"} \subseteq Refusals
      BY DEF Refusals
    <2>2. ASSUME NEW f \in Functions \cup {Null}, cli_mkcmd(n, f, dir, r)
          PROVE  <1>2!1 \/ <1>2!2
      BY <2>1, <2>2 DEF cli_mkcmd
    <2>3. ASSUME cli_mkdir(n, dir, r)
          PROVE  <1>2!1 \/ <1>2!2
      BY <2>1, <2>3 DEF cli_mkdir
    <2> QED BY <1>1, <2>2, <2>3
  <1>3. ASSUME fv[d] = Null
        PROVE  d \in Directories
    <2>1. CASE dir = Null
      BY <2>1 DEF DirectoryOf, Directories
    <2>2. ASSUME NEW i \in Ages, dir = bound[i].rec
          PROVE  d \in Directories
      BY <1>3, <2>2, EntryFacts DEF DirectoryOf, Directories, RecordsKept, Commands
    <2> QED BY <1>1, <2>1, <2>2 DEF Bound
  <1>4. ASSUME NEW f \in Functions \cup {Null}, cli_bind_entry(n, f, d, r), fv[d] = Null
        PROVE  \/ \E code \in Refusals : Reports(code)
               \/ Binding(n, f, d, r) /\ Linking(n, d, r)
    <2>1. {"NULL_NAME", "NULL_CMD", "RECORD_CORRUPT", "DUPLICATE"} \subseteq Refusals
      BY DEF Refusals
    <2>2. CASE \E code \in {"NULL_NAME", "NULL_CMD", "RECORD_CORRUPT", "DUPLICATE"} :
                 Reports(code)
      BY <2>1, <2>2
    <2>3. CASE n # Null /\ r # Null /\ Linking(n, d, r) /\ FillRecord(n, f, d, r)
      <3>1. n \in Names /\ r \in Records /\ d \in Directories
        BY <1>1, <1>3, <1>4, <2>3
      <3>2. bound' # bound
        <4> DEFINE T == [rec : Records, name : STRING, fv : Functions \cup {Null}, dir : Nodes]
                   x == [rec |-> r, name |-> Stored[n], fv |-> f, dir |-> d]
        <4>1. bound \in Seq(T) /\ bound' = Append(bound, x) /\ x \in T
          BY <2>3, <3>1, DirectoryAssumption, EntryFacts DEF FillRecord, TypeOK
        <4> HIDE DEF T, x
        <4>2. Len(bound') = Len(bound) + 1 /\ Len(bound) \in Nat
          BY <4>1
        <4> QED BY <4>2
      <3>3. {next_entry', link2subdir'} \subseteq [Nodes -> Values]
        <4>1. {next_entry, link2subdir} \subseteq [Nodes -> Values] /\ {r, Null} \subseteq Values
          BY <3>1, TreeFacts DEF TypeOK, Values
        <4> QED BY <2>3, <4>1 DEF Linking, LinkFirst, LinkAfter
      <3> QED BY <1>1, <2>3, <3>1, <3>2, <3>3 DEF Binding
    <2> QED BY <1>4, <2>2, <2>3 DEF cli_bind_entry, Linking
  <1> QED BY <1>2, <1>3, <1>4

\* A bind keeps the invariant, and so does everything else.
LEMMA BindKeeps ==
  ASSUME TreeInv, NEW n, NEW f, NEW d, NEW r, Binding(n, f, d, r), Linking(n, d, r)
  PROVE  TreeInv'
  <1>1. TypeOK' /\ RecordsKept'
    BY BoundGrows, RecordsGrow DEF TreeInv
  <1>2. /\ \A x \in Directories' : Follows(link2subdir[x], 0, x)'
        /\ \A i \in Ages' : Follows(next_entry[bound[i].rec], i, bound[i].dir)'
    BY FirstEntry, NextEntry DEF TreeInv, Linking
  <1>3. /\ Precedes(list, Len(bound) + 1)'
        /\ \A i \in Commands' : Precedes(cmd_list[bound[i].rec], i)'
    BY CommandsGrow DEF TreeInv
  <1> QED BY <1>1, <1>2, <1>3 DEF TreeInv, LinksKept

\* The fields stay as they are and the user is in a directory.
LEMMA FieldsStay ==
  ASSUME TreeInv, UNCHANGED <<fields, bound>>, current_directory' \in Directories
  PROVE  TreeInv'
  <1>1. TypeOK' /\ RecordsKept'
    BY DEF TreeInv, TypeOK, RecordsKept, fields, Ages, Directories, Commands
  <1>2. \A x, i, y : Follows(x, i, y)' <=> Follows(x, i, y)
    BY DEF Follows, In, Ages
  <1>3. \A x, i : Precedes(x, i)' <=> Precedes(x, i)
    BY DEF Precedes, Commands, Ages
  <1>4. Directories' = Directories /\ Ages' = Ages /\ Commands' = Commands
    BY DEF Directories, Ages, Commands
  <1>5. LinksKept'
    BY <1>2, <1>3, <1>4 DEF TreeInv, LinksKept, fields
  <1> QED BY <1>1, <1>5 DEF TreeInv

-----------------------------------------------------------------------------
(* What the walks find.                                                    *)

\* In a directory: the oldest entry of the name.
LEMMA HitHere ==
  ASSUME TreeInv, NEW d \in Directories, NEW w,
         NEW r \in Hit(link2subdir[d], next_entry, Match(w))
  PROVE  \E i \in In(d) \cap Named(w) :
           r = bound[i].rec /\ \A j \in In(d) \cap Named(w) : i <= j
  <1> DEFINE I == {i \in In(d) : \A j \in In(d) : j < i => bound[j].name # w}
             S == {bound[i].rec : i \in I} \cup {Null}
  <1>1. /\ Ages \subseteq Nat \ {0} /\ \A i \in In(d) : i \in Ages /\ i \in Nat \ {0}
        /\ \A i \in Ages : name[bound[i].rec] = bound[i].name /\ bound[i].rec \in Nodes
    BY EntryFacts, TreeFacts DEF TreeInv, RecordsKept
  <1>2. S \in SUBSET Pointers
    BY <1>1, TreeFacts
  <1>3. link2subdir[d] \in S
    BY <1>1 DEF TreeInv, LinksKept, Follows
  <1>4. ASSUME NEW i \in I, bound[i].rec \notin Match(w)
        PROVE  next_entry[bound[i].rec] \in S
    <2>1. bound[i].name # w /\ Follows(next_entry[bound[i].rec], i, d)
      BY <1>1, <1>4 DEF Match, TreeInv, LinksKept, In
    <2>2. ASSUME NEW j \in In(d), i < j, \A k \in In(d) : k <= i \/ j <= k
          PROVE  j \in I
      BY <1>1, <2>1, <2>2
    <2> QED BY <2>1, <2>2 DEF Follows
  <1>5. Met(link2subdir[d], next_entry, Match(w)) \subseteq S
    <2>1. \A z \in S \ Match(w) : z = Null \/ next_entry[z] \in S
      BY <1>4
    <2> HIDE DEF S
    <2> QED BY <1>2, <1>3, <2>1, MetInClosed
  <1>6. r \in S /\ name[r] = w /\ r # Null
    BY <1>5, TreeFacts DEF Hit, Match
  <1>7. PICK i \in I : r = bound[i].rec
    BY <1>6
  <1>8. i \in In(d) \cap Named(w)
    BY <1>1, <1>6, <1>7 DEF Named
  <1> QED BY <1>1, <1>7, <1>8 DEF Named

\* A walk that comes to its end met no entry of the name.
LEMMA MissHere ==
  ASSUME TreeInv, NEW d \in Directories, NEW w,
         Missed(link2subdir[d], next_entry, Match(w))
  PROVE  In(d) \cap Named(w) = {}
  <1> SUFFICES ASSUME NEW m \in In(d), bound[m].name = w
               PROVE  FALSE
    BY DEF Named
  <1> DEFINE S == {bound[i].rec : i \in {i \in In(d) : i <= m}}
  <1>1. /\ \A i \in In(d) : i \in Ages /\ i \in Nat \ {0}
        /\ \A i \in Ages : /\ name[bound[i].rec] = bound[i].name
                          /\ bound[i].rec \in Nodes /\ bound[i].rec # Null
    BY EntryFacts, TreeFacts DEF TreeInv, RecordsKept
  <1>2. S \in SUBSET Pointers
    BY <1>1, TreeFacts
  <1>3. link2subdir[d] \in S
    BY <1>1 DEF TreeInv, LinksKept, Follows
  <1>4. ASSUME NEW i \in In(d), i <= m, bound[i].rec \notin Match(w)
        PROVE  next_entry[bound[i].rec] \in S
    <2>1. i < m /\ Follows(next_entry[bound[i].rec], i, d)
      BY <1>1, <1>4 DEF Match, TreeInv, LinksKept, In
    <2> QED BY <1>1, <2>1 DEF Follows
  <1>5. Met(link2subdir[d], next_entry, Match(w)) \subseteq S
    <2>1. \A z \in S \ Match(w) : z = Null \/ next_entry[z] \in S
      BY <1>4
    <2> HIDE DEF S
    <2> QED BY <1>2, <1>3, <2>1, MetInClosed
  <1>6. Null \notin S
    BY <1>1
  <1> HIDE DEF S
  <1> QED BY <1>5, <1>6 DEF Missed

\* A walk that comes to its end has met all entries of the directory.
LEMMA ListHere ==
  ASSUME TreeInv, NEW d \in Directories, Missed(link2subdir[d], next_entry, {})
  PROVE  Met(link2subdir[d], next_entry, {}) \ {Null} = {bound[i].rec : i \in In(d)}
  <1>1. /\ \A i \in In(d) : i \in Ages /\ i \in Nat \ {0}
        /\ \A i \in Ages : bound[i].rec \in Pointers /\ bound[i].rec # Null
    BY EntryFacts, TreeFacts DEF TreeInv
  <1>2. Met(link2subdir[d], next_entry, {}) \subseteq {bound[i].rec : i \in In(d)} \cup {Null}
    BY EntriesClosed DEF TreeInv
  <1>3. ASSUME NEW m \in In(d), NEW C \in SUBSET Pointers, link2subdir[d] \in C,
               \A z \in C \ {} : z = Null \/ next_entry[z] \in C,
               bound[m].rec \notin C
        PROVE  FALSE
    <2> DEFINE S == C \cap {bound[i].rec : i \in {i \in In(d) : i < m}}
    <2>1. link2subdir[d] \in S
      BY <1>1, <1>3 DEF TreeInv, LinksKept, Follows
    <2>2. ASSUME NEW i \in In(d), i < m, bound[i].rec \in C
          PROVE  next_entry[bound[i].rec] \in S
      <3>1. next_entry[bound[i].rec] \in C /\ Follows(next_entry[bound[i].rec], i, d)
        BY <1>1, <1>3, <2>2 DEF TreeInv, LinksKept, In
      <3> QED BY <1>1, <1>3, <2>2, <3>1 DEF Follows
    <2>3. \A z \in S \ {} : z = Null \/ next_entry[z] \in S
      BY <2>2
    <2>4. Null \notin S /\ S \in SUBSET Pointers
      BY <1>1
    <2> HIDE DEF S
    <2>5. Met(link2subdir[d], next_entry, {}) \subseteq S
      BY <2>1, <2>3, <2>4, MetInClosed
    <2> QED BY <2>4, <2>5 DEF Missed
  <1>4. \A m \in In(d) : bound[m].rec \in Met(link2subdir[d], next_entry, {})
    BY <1>1, <1>3 DEF Met
  <1> QED BY <1>1, <1>2, <1>4

\* In the list of all commands: the newest command of the name.
LEMMA HitGlobal ==
  ASSUME TreeInv, NEW w, NEW r \in Hit(list, cmd_list, Match(w))
  PROVE  \E i \in Commands \cap Named(w) :
           r = bound[i].rec /\ \A j \in Commands \cap Named(w) : j <= i
  <1> DEFINE I == {i \in Commands : \A j \in Commands : i < j => bound[j].name # w}
             S == {bound[i].rec : i \in I} \cup {Null}
  <1>1. /\ \A i \in Commands : i \in Ages /\ i \in Nat /\ i < Len(bound) + 1
        /\ \A i \in Ages : name[bound[i].rec] = bound[i].name /\ bound[i].rec \in Nodes
        /\ Len(bound) + 1 \in Nat
    BY EntryFacts, TreeFacts DEF TreeInv, RecordsKept
  <1>2. S \in SUBSET Pointers
    BY <1>1, TreeFacts
  <1>3. list \in S
    BY <1>1 DEF TreeInv, LinksKept, Precedes
  <1>4. ASSUME NEW i \in I, bound[i].rec \notin Match(w)
        PROVE  cmd_list[bound[i].rec] \in S
    <2>1. bound[i].name # w /\ Precedes(cmd_list[bound[i].rec], i)
      BY <1>1, <1>4 DEF Match, TreeInv, LinksKept
    <2>2. ASSUME NEW j \in Commands, j < i, \A k \in Commands : k <= j \/ i <= k
          PROVE  j \in I
      BY <1>1, <2>1, <2>2
    <2> QED BY <2>1, <2>2 DEF Precedes
  <1>5. Met(list, cmd_list, Match(w)) \subseteq S
    <2>1. \A z \in S \ Match(w) : z = Null \/ cmd_list[z] \in S
      BY <1>4
    <2> HIDE DEF S
    <2> QED BY <1>2, <1>3, <2>1, MetInClosed
  <1>6. r \in S /\ name[r] = w /\ r # Null
    BY <1>5, TreeFacts DEF Hit, Match
  <1>7. PICK i \in I : r = bound[i].rec
    BY <1>6
  <1>8. i \in Commands \cap Named(w)
    BY <1>1, <1>6, <1>7 DEF Named
  <1> QED BY <1>1, <1>7, <1>8 DEF Named

\* A walk that comes to its end met no command of the name.
LEMMA MissGlobal ==
  ASSUME TreeInv, NEW w, Missed(list, cmd_list, Match(w))
  PROVE  Commands \cap Named(w) = {}
  <1> SUFFICES ASSUME NEW m \in Commands, bound[m].name = w
               PROVE  FALSE
    BY DEF Named
  <1> DEFINE S == {bound[i].rec : i \in {i \in Commands : m <= i}}
  <1>1. /\ \A i \in Commands : i \in Ages /\ i \in Nat /\ i < Len(bound) + 1
        /\ \A i \in Ages : /\ name[bound[i].rec] = bound[i].name
                          /\ bound[i].rec \in Nodes /\ bound[i].rec # Null
        /\ Len(bound) + 1 \in Nat
    BY EntryFacts, TreeFacts DEF TreeInv, RecordsKept
  <1>2. S \in SUBSET Pointers
    BY <1>1, TreeFacts
  <1>3. list \in S
    BY <1>1 DEF TreeInv, LinksKept, Precedes
  <1>4. ASSUME NEW i \in Commands, m <= i, bound[i].rec \notin Match(w)
        PROVE  cmd_list[bound[i].rec] \in S
    <2>1. m < i /\ Precedes(cmd_list[bound[i].rec], i)
      BY <1>1, <1>4 DEF Match, TreeInv, LinksKept
    <2> QED BY <1>1, <2>1 DEF Precedes
  <1>5. Met(list, cmd_list, Match(w)) \subseteq S
    <2>1. \A z \in S \ Match(w) : z = Null \/ cmd_list[z] \in S
      BY <1>4
    <2> HIDE DEF S
    <2> QED BY <1>2, <1>3, <2>1, MetInClosed
  <1>6. Null \notin S
    BY <1>1
  <1> HIDE DEF S
  <1> QED BY <1>5, <1>6 DEF Missed

\* A walk that comes to its end has met all commands.
LEMMA ListGlobal ==
  ASSUME TreeInv, Missed(list, cmd_list, {})
  PROVE  Met(list, cmd_list, {}) \ {Null} = {bound[i].rec : i \in Commands}
  <1>1. /\ \A i \in Commands : i \in Ages /\ i \in Nat /\ i < Len(bound) + 1
        /\ \A i \in Ages : bound[i].rec \in Pointers /\ bound[i].rec # Null
        /\ Len(bound) + 1 \in Nat
    BY EntryFacts, TreeFacts DEF TreeInv
  <1>2. Met(list, cmd_list, {}) \subseteq {bound[i].rec : i \in Commands} \cup {Null}
    BY CommandsClosed DEF TreeInv
  <1>3. ASSUME NEW m \in Commands, NEW C \in SUBSET Pointers, list \in C,
               \A z \in C \ {} : z = Null \/ cmd_list[z] \in C,
               bound[m].rec \notin C
        PROVE  FALSE
    <2> DEFINE S == C \cap {bound[i].rec : i \in {i \in Commands : m < i}}
    <2>1. list \in S
      BY <1>1, <1>3 DEF TreeInv, LinksKept, Precedes
    <2>2. ASSUME NEW i \in Commands, m < i, bound[i].rec \in C
          PROVE  cmd_list[bound[i].rec] \in S
      <3>1. cmd_list[bound[i].rec] \in C /\ Precedes(cmd_list[bound[i].rec], i)
        BY <1>1, <1>3, <2>2 DEF TreeInv, LinksKept
      <3> QED BY <1>1, <1>3, <2>2, <3>1 DEF Precedes
    <2>3. \A z \in S \ {} : z = Null \/ cmd_list[z] \in S
      BY <2>2
    <2>4. Null \notin S /\ S \in SUBSET Pointers
      BY <1>1
    <2> HIDE DEF S
    <2>5. Met(list, cmd_list, {}) \subseteq S
      BY <2>1, <2>3, <2>4, MetInClosed
    <2> QED BY <2>4, <2>5 DEF Missed
  <1>4. \A m \in Commands : bound[m].rec \in Met(list, cmd_list, {})
    BY <1>1, <1>3 DEF Met
  <1> QED BY <1>1, <1>2, <1>4
-----------------------------------------------------------------------------
(* The tree does what the promised directory does.                         *)

\* Both begin with no entry.
LEMMA Beginning == ASSUME TreeInit PROVE TreeInv /\ DirectoryInit
  <1>1. bound = <<>> /\ current_directory = Root /\ list = Null /\ DirectoryInit
    BY DEF TreeInit, DirectoryInit
  <1>2. Ages = {} /\ Len(bound) = 0
    BY <1>1 DEF Ages
  <1>3. Commands = {} /\ Directories = {Root} /\ \A d : In(d) = {}
    BY <1>2 DEF Commands, Directories, In
  <1>4. bound \in Seq([rec : Records, name : STRING, fv : Functions \cup {Null}, dir : Nodes])
    BY <1>1
  <1>5. {name, fv, parent_dir, next_entry, link2subdir, cmd_list} \subseteq [Nodes -> Values]
    <2>1. \A x \in {Prefix, Null, Root, Garbage} : x \in Values
      BY TreeFacts, TreeAssumption DEF Values
    <2>2. \A x \in Values : [r \in Nodes |-> IF r = Root THEN x ELSE Garbage] \in [Nodes -> Values]
      BY <2>1
    <2>3. [r \in Nodes |-> Garbage] \in [Nodes -> Values]
      BY <2>1
    <2> HIDE DEF Values
    <2> QED BY <2>1, <2>2, <2>3 DEF TreeInit
  <1>6. TypeOK
    BY <1>1, <1>2, <1>3, <1>4, <1>5, TreeFacts DEF TypeOK, Values
  <1>7. fv[Root] = Null /\ parent_dir[Root] = Root /\ link2subdir[Root] = Null
    BY TreeFacts DEF TreeInit
  <1>8. RecordsKept /\ LinksKept
    BY <1>1, <1>2, <1>3, <1>7 DEF RecordsKept, LinksKept, Follows, Precedes
  <1> QED BY <1>1, <1>6, <1>8 DEF TreeInv

\* A bind is one of the promised directory.
LEMMA BindIsBind ==
  ASSUME TypeOK, NEW n, NEW f, NEW d, NEW r, Binding(n, f, d, r), NamesDistinct'
  PROVE  Bind
  <1>1. Holds(r) = {}
    BY DEF Binding, Holds, Bound
  <1>2. In(d) \cap Named(Stored[n]) = {}
    <2>1. ASSUME NEW i \in Ages, bound[i].dir = d, bound[i].name = Stored[n]
          PROVE  FALSE
      <3> DEFINE x == [rec |-> r, name |-> Stored[n], fv |-> f, dir |-> d]
                 k == Len(bound) + 1
      <3>1. Len(bound) \in Nat /\ Ages = 1 .. Len(bound) /\ bound' = Append(bound, x)
        BY DEF TypeOK, Ages, Binding, FillRecord
      <3>2. i \in Ages' /\ k \in Ages' /\ i # k /\ bound'[i] = bound[i] /\ bound'[k] = x
        <4>1. Ages' = 1 .. k
          BY <3>1 DEF Ages
        <4> QED BY <2>1, <3>1, <4>1
      <3> QED BY <2>1, <3>2 DEF NamesDistinct
    <2> QED BY <2>1 DEF In, Named
  <1> QED BY <1>1, <1>2 DEF Binding, Bind, FillRecord

\* The record that holds a directory other than the root has its parent.
LEMMA ParentKept ==
  ASSUME TreeInv, NEW d \in Directories
  PROVE  parent_dir[d] = Parent(d) /\ Parent(d) \in Directories
  <1>1. CASE d = Root
    BY <1>1 DEF Parent, TreeInv, RecordsKept, Directories
  <1>2. CASE d # Root
    <2>1. Holds(d) # {}
      BY <1>2 DEF Directories, Holds
    <2>2. PICK i : i \in Holds(d) /\ i = CHOOSE j \in Holds(d) : TRUE
      BY <2>1
    <2>3. i \in Ages /\ bound[i].rec = d /\ Parent(d) = bound[i].dir
      BY <1>2, <2>2 DEF Parent, Holds
    <2> QED BY <2>3, EntryFacts DEF TreeInv, RecordsKept
  <1> QED BY <1>1, <1>2

\* What is found is answered: entry i is found as its record.
LEMMA TakeAnswers ==
  ASSUME TreeInv, NEW i \in Ages, NEW entered, Take(entered, bound[i].rec)
  PROVE  Found(entered, i) /\ current_directory' \in Directories
  <1>1. fv[bound[i].rec] = bound[i].fv /\ current_directory \in Directories
    BY DEF TreeInv, RecordsKept, TypeOK
  <1>2. i \in Commands <=> bound[i].fv # Null
    BY DEF Commands
  <1> QED BY <1>1, <1>2 DEF Take, Found, Directories

\* A line is entered as the promised directory takes it.
LEMMA EnterIsEnter ==
  ASSUME TreeInv, executeCommand
  PROVE  Enter /\ current_directory' \in Directories
  <1> DEFINE c == current_directory
  <1>1. c \in Directories /\ UNCHANGED bound
    BY DEF TreeInv, TypeOK, executeCommand
  <1>2. ASSUME NEW w \in Words, NEW r \in Hit(link2subdir[c], next_entry, Match(w)),
               Take(<<w>>, r)
        PROVE  Open(w) /\ c' \in Directories
    <2>1. PICK i \in In(c) \cap Named(w) : r = bound[i].rec
      BY <1>1, HitHere
    <2>2. i \in Ages
      BY <2>1 DEF In
    <2> QED BY <1>2, <2>1, <2>2, TakeAnswers DEF Open
  <1>3. ASSUME NEW w \in Words, Missed(link2subdir[c], next_entry, Match(w)),
               FindBuiltIn(w)
        PROVE  In(c) \cap Named(w) = {} /\ BuiltIn(w) /\ c' \in Directories
    <2>1. In(c) \cap Named(w) = {}
      BY <1>1, <1>3, MissHere
    <2>2. CASE w = ".." /\ c' = parent_dir[c] /\ answer' = <<"moved", w>>
      BY <1>1, <2>1, <2>2, ParentKept DEF BuiltIn
    <2>3. CASE w = "ld" /\ Lists(w, link2subdir[c], next_entry)
      BY <1>1, <2>1, <2>3, ListHere DEF BuiltIn, Lists, Stay
    <2>4. CASE w = "ls" /\ Lists(w, list, cmd_list)
      BY <1>1, <2>1, <2>4, ListGlobal DEF BuiltIn, Lists, Stay
    <2>5. CASE w = "~" /\ c' = Root /\ answer' = <<"moved", w>>
      BY <2>1, <2>5 DEF BuiltIn, Directories
    <2>6. CASE w \in {"h", "help", "?"} /\ Stay(<<"help", w>>)
      BY <1>1, <2>1, <2>6 DEF BuiltIn, Stay
    <2>7. CASE w \notin BuiltIns /\ Stay(<<"unknown", <<w>>>>)
      BY <1>1, <2>1, <2>7 DEF BuiltIn, Stay, Unknown
    <2> QED BY <1>3, <2>2, <2>3, <2>4, <2>5, <2>6, <2>7 DEF FindBuiltIn
  <1>4. ASSUME NEW w \in Words, NEW r \in Hit(list, cmd_list, Match(w)),
               Take(<<"!", w>>, r)
        PROVE  Search(w) /\ c' \in Directories
    <2>1. PICK i \in Commands \cap Named(w) :
            r = bound[i].rec /\ \A j \in Commands \cap Named(w) : j <= i
      BY HitGlobal
    <2>2. i \in Ages
      BY <2>1 DEF Commands
    <2> QED BY <1>4, <2>1, <2>2, TakeAnswers DEF Search
  <1>5. ASSUME NEW w \in Words, Missed(list, cmd_list, Match(w)),
               Stay(<<"unknown", <<"!", w>>>>)
        PROVE  Commands \cap Named(w) = {} /\ Unknown(<<"!", w>>) /\ c' \in Directories
    BY <1>1, <1>5, MissGlobal DEF Stay, Unknown
  <1>6. ASSUME Stay(<<"redrawn">>)
        PROVE  answer' = <<"redrawn">> /\ UNCHANGED c /\ c' \in Directories
    BY <1>1, <1>6 DEF Stay
  <1>7. CASE \E w \in Words : FindHere(w)
    BY <1>1, <1>2, <1>3, <1>7 DEF FindHere, Enter
  <1>8. CASE \E w \in Words : FindGlobal(w)
    BY <1>1, <1>4, <1>5, <1>8 DEF FindGlobal, Enter
  <1>9. CASE Stay(<<"redrawn">>)
    BY <1>1, <1>6, <1>9 DEF Enter
  <1> QED BY <1>7, <1>8, <1>9 DEF executeCommand

\* Every step keeps the invariant and, if it leaves no name twice in a directory,
\* is one of the promised directory.
LEMMA Steps ==
  ASSUME TreeInv, [TreeNext]_treeVars
  PROVE  /\ TreeInv'
         /\ [UNCHANGED bound => Refuse \/ Enter]_treeVars
         /\ NamesDistinct' => [DirectoryNext]_<<bound, current_directory, answer>>
  <1>1. CASE Application
    <2>1. ASSUME NEW code \in Refusals, Reports(code)
          PROVE  TreeInv' /\ Refuse
      <3>1. current_directory \in Directories
        BY DEF TreeInv, TypeOK
      <3> QED BY <2>1, <3>1, FieldsStay DEF Reports, Refuse
    <2>2. ASSUME NEW n, NEW f, NEW d, NEW r, Binding(n, f, d, r), Linking(n, d, r)
          PROVE  TreeInv' /\ bound' # bound /\ (NamesDistinct' => Bind)
      <3>1. TypeOK
        BY DEF TreeInv
      <3> DEFINE l == Len(bound) + 1
      <3>2. l \in Nat /\ l \in Ages' /\ \A i \in Ages : i < l
        BY <2>2, <3>1, BoundGrows
      <3> HIDE DEF l
      <3>3. bound' # bound
        BY <3>2 DEF Ages
      <3>4. TreeInv' /\ (NamesDistinct' => Bind)
        BY <2>2, BindKeeps, BindIsBind DEF TreeInv
      <3> QED BY <3>3, <3>4
    <2> QED BY <1>1, <2>1, <2>2, ApplicationCases DEF TreeInv, DirectoryNext
  <1>2. CASE executeCommand
    <2>1. Enter /\ current_directory' \in Directories
      BY <1>2, EnterIsEnter
    <2> QED BY <1>2, <2>1, FieldsStay DEF executeCommand, DirectoryNext
  <1>3. CASE UNCHANGED treeVars
    <2>1. current_directory \in Directories
      BY DEF TreeInv, TypeOK
    <2> QED BY <1>3, <2>1, FieldsStay DEF treeVars
  <1> QED BY <1>1, <1>2, <1>3 DEF TreeNext

LEMMA TreeInvariant == TreeSpec => []TreeInv
  <1>1. TreeInit => TreeInv
    BY Beginning
  <1>2. TreeInv /\ [TreeNext]_treeVars => TreeInv'
    BY Steps
  <1> QED BY <1>1, <1>2, PTL DEF TreeSpec

-----------------------------------------------------------------------------
(* The way home.  A new directory has no entries yet, so no way leads      *)
(* through it but its own.                                                 *)

\* The directories are closed under parent_dir.
LEMMA ParentsAreDirectories ==
  ASSUME TreeInv
  PROVE  /\ \A d \in Directories : parent_dir[d] \in Directories
         /\ Directories \in SUBSET Pointers /\ Root \in Directories /\ Null \notin Directories
  <1>1. \A d \in Directories : parent_dir[d] \in Directories
    BY ParentKept
  <1> QED BY <1>1, EntryFacts, TreeFacts DEF TreeInv, Directories

\* A bind leaves the ways of the directories and gives the new one its own.
LEMMA WayStays ==
  ASSUME TreeInv, WayHome, TreeInv', Root \in Directories',
         NEW r, r \notin Directories, r # Null, NEW c \in Directories,
         Directories' \subseteq Directories \cup {r},
         \A d \in Directories : parent_dir'[d] = parent_dir[d],
         r \in Directories' => parent_dir'[r] = c
  PROVE  WayHome'
  <1>1. /\ \A d \in Directories : parent_dir[d] \in Directories
        /\ Directories \in SUBSET Pointers /\ Root \in Directories /\ Null \notin Directories
    BY ParentsAreDirectories
  <1>2. ASSUME NEW d \in Directories, NEW C \in SUBSET Pointers, d \in C,
               \A z \in C \ {Root} : z = Null \/ parent_dir'[z] \in C
        PROVE  Root \in C
    <2> DEFINE S == C \cap Directories
    <2>1. S \in SUBSET Pointers /\ d \in S
      BY <1>2
    <2>2. \A z \in S \ {Root} : z = Null \/ parent_dir[z] \in S
      BY <1>1, <1>2
    <2>3. Root \in Met(d, parent_dir, {Root})
      BY DEF WayHome
    <2> HIDE DEF S
    <2>4. Root \in S
      BY <2>1, <2>2, <2>3, MetInClosed
    <2> QED BY <2>4 DEF S
  <1>3. ASSUME NEW d \in Directories'
        PROVE  Root \in Met(d, parent_dir', {Root})
    <2>1. ASSUME NEW C \in SUBSET Pointers, d \in C,
                 \A z \in C \ {Root} : z = Null \/ parent_dir'[z] \in C
          PROVE  Root \in C
      <3>1. CASE d \in Directories
        BY <1>2, <2>1, <3>1
      <3>2. CASE d = r
        <4>1. c \in C
          BY <1>1, <2>1, <3>2
        <4> QED BY <1>2, <2>1, <4>1
      <3> QED BY <3>1, <3>2
    <2>2. Root \in Pointers
      BY TreeFacts
    <2> QED BY <2>1, <2>2 DEF Met
  <1>4. ASSUME NEW d \in Directories' \ {Root}
        PROVE  d \notin Met(parent_dir'[d], parent_dir', {Root})
    <2>1. CASE d \in Directories
      <3>1. d \in Pointers /\ d \notin Met(parent_dir[d], parent_dir, {Root})
        BY <1>1, <1>4, <2>1 DEF WayHome
      <3>2. PICK C \in SUBSET Pointers :
              /\ parent_dir[d] \in C /\ d \notin C
              /\ \A z \in C \ {Root} : z = Null \/ parent_dir[z] \in C
        BY <3>1 DEF Met
      <3> DEFINE S == C \cap Directories
      <3>3. /\ S \in SUBSET Pointers /\ parent_dir'[d] \in S /\ d \notin S
            /\ \A z \in S \ {Root} : z = Null \/ parent_dir'[z] \in S
        BY <1>1, <2>1, <3>2
      <3> HIDE DEF S
      <3> QED BY <3>3, MetInClosed
    <2>2. CASE d = r
      <3> DEFINE S == Directories
      <3>1. /\ S \in SUBSET Pointers /\ parent_dir'[d] \in S /\ d \notin S
            /\ \A z \in S \ {Root} : z = Null \/ parent_dir'[z] \in S
        BY <1>1, <1>4, <2>2
      <3> HIDE DEF S
      <3> QED BY <3>1, MetInClosed
    <2> QED BY <2>1, <2>2
  <1> QED BY <1>3, <1>4 DEF WayHome

\* Every step keeps the way home.
LEMMA WaySteps ==
  ASSUME TreeInv, WayHome, [TreeNext]_treeVars
  PROVE  WayHome'
  <1>1. TreeInv' /\ Root \in Directories' /\ Root \in Directories
    BY Steps DEF Directories
  <1>2. CASE UNCHANGED <<fields, bound>>
    <2>1. Directories' = Directories /\ parent_dir' = parent_dir
      BY <1>2 DEF Directories, Commands, Ages, fields
    <2> QED BY <2>1 DEF WayHome
  <1>3. ASSUME NEW n, NEW f, NEW d, NEW r, Binding(n, f, d, r), Linking(n, d, r)
        PROVE  WayHome'
    <2>1. r \notin Directories /\ Directories' \subseteq Directories \cup {r}
      BY <1>3, BoundGrows DEF TreeInv
    <2>2. d \in Directories /\ r \in Nodes /\ Directories \subseteq Nodes
      BY <1>3, TreeFacts, EntryFacts DEF Binding, TreeInv
    <2>3. parent_dir'[r] = d /\ \A x \in Directories : parent_dir'[x] = parent_dir[x]
      BY <1>3, <2>1, <2>2 DEF Binding, FillRecord, PutParent, TreeInv, TypeOK
    <2> QED BY <1>1, <2>1, <2>2, <2>3, TreeFacts, WayStays
  <1>4. CASE Application
    <2>1. ASSUME NEW code, Reports(code)
          PROVE  UNCHANGED <<fields, bound>>
      BY <2>1 DEF Reports
    <2> QED BY <1>2, <1>3, <1>4, <2>1, ApplicationCases DEF TreeInv
  <1> QED BY <1>2, <1>4 DEF TreeNext, executeCommand, treeVars

\* "..", however often the user enters it, leads to the root; no directory is
\* inside itself (parent_dir of cli_record_t).
THEOREM HomeIsReached == TreeSpec => []WayHome
  <1>1. TreeInit => TreeInv /\ WayHome
    <2>1. ASSUME TreeInit
          PROVE  WayHome
      <3>1. Directories = {Root}
        BY <2>1 DEF TreeInit, DirectoryInit, Directories, Ages, Commands
      <3>2. Root \in Met(Root, parent_dir, {Root})
        BY TreeFacts DEF Met
      <3> QED BY <3>1, <3>2 DEF WayHome
    <2> QED BY <2>1, Beginning
  <1>2. TreeInv /\ WayHome /\ [TreeNext]_treeVars => (TreeInv /\ WayHome)'
    BY Steps, WaySteps
  <1>3. TreeInv /\ WayHome => WayHome
    OBVIOUS
  <1> QED BY <1>1, <1>2, <1>3, PTL DEF TreeSpec
-----------------------------------------------------------------------------
\* Every record is unwritten or complete, and the user is in a directory.
THEOREM TypeCorrect == TreeSpec => []TypeOK
  <1>1. TreeInv => TypeOK
    BY DEF TreeInv
  <1> QED BY <1>1, TreeInvariant, PTL

\* cli_bind_entry writes each record once; the fields stay what they were.
THEOREM RecordsStay == TreeSpec => []RecordsKept
  <1>1. TreeInv => RecordsKept
    BY DEF TreeInv
  <1> QED BY <1>1, TreeInvariant, PTL

\* However the application mixes binds of different directories (cli_mkcmd,
\* cli_mkdir), every list keeps its entries in their order and no others.
THEOREM LinksStay == TreeSpec => []LinksKept
  <1>1. TreeInv => LinksKept
    BY DEF TreeInv
  <1> QED BY <1>1, TreeInvariant, PTL

\* cli_engine finds, moves and lists what the promised directory does, for every
\* number of records, every choice of names and whatever was bound.
THEOREM LookupsStay == TreeSpec => LookupsKept
  <1>1. TreeInv /\ [TreeNext]_treeVars => [UNCHANGED bound => Refuse \/ Enter]_treeVars
    BY Steps
  <1> QED BY <1>1, TreeInvariant, PTL DEF TreeSpec, LookupsKept

\* The tree of an application that gives no name twice in a directory is the
\* promised directory: the test of cli_bind_entry that misses the last entry is
\* all that stands between the tree and its promise.
THEOREM TreeKeepsDirectory == TreeSpec /\ []NamesDistinct => KeepsDirectory
  <1>1. TreeInit => DirectoryInit
    BY Beginning
  <1>2. TreeInv /\ [TreeNext]_treeVars /\ NamesDistinct'
          => [DirectoryNext]_<<bound, current_directory, answer>>
    BY Steps
  <1> QED BY <1>1, <1>2, TreeInvariant, PTL DEF TreeSpec, DirectorySpec, KeepsDirectory
=============================================================================
