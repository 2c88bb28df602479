----------------------------- MODULE SerialProofs -----------------------------
(***************************************************************************)
(* The serial driver forgets no task and loses no character, for any       *)
(* number of clients and characters, any messages and any depth of the     *)
(* FIFO.                                                                   *)
(***************************************************************************)
EXTENDS SerialDriver, FiniteSetTheorems, TLAPS

\* What the variables are defined on; the application has begun.
Shapes ==
  /\ DOMAIN pc = Slots /\ DOMAIN phase = Slots /\ DOMAIN gen = Slots
  /\ DOMAIN mail = Slots /\ DOMAIN outcome = Slots /\ DOMAIN line = EventTypes
  /\ DOMAIN letter = Slots /\ DOMAIN answer = Slots /\ DOMAIN got = Clients
  /\ gen[Boot] # 0

Users == Clients \cup {Poller}

\* Whoever is in the mailbox of the driver waits there, once.  Nobody but the
\* driver sends to the polling task.
MailOK ==
  /\ mail[Driver] \in Seq(Users)
  /\ \A k \in 1 .. Len(mail[Driver]) : phase[mail[Driver][k]] = "sending"
  /\ \A j, k \in 1 .. Len(mail[Driver]) :
       mail[Driver][j] = mail[Driver][k] => j = k
  /\ \/ mail[Poller] = <<>>
     \/ mail[Poller] = <<Driver>> /\ phase[Driver] = "sending"
  /\ \A r \in Slots \ {Driver, Poller} : mail[r] = <<>>

\* Until the driver answers the task that started it no client runs, and until
\* it has started the polling task there is none.
SetUp ==
  /\ pc[Boot] = "create" =>
       pc[Driver] = "init" /\ phase[Driver] = "absent" /\ mail[Driver] = <<>>
  /\ pc[Driver] \in {"init", "poller", "config", "ready"} =>
       /\ \A c \in Clients \ {Boot} : phase[c] = "absent"
       /\ \/ pc[Boot] \in {"create", "send"} /\ phase[Boot] = "ready"
          \/ pc[Boot] = "clients" /\ phase[Boot] \in {"sending", "awaitingReply"}
  /\ pc[Driver] \in {"init", "poller"} => phase[Poller] = "absent"
  /\ pc[Driver] \in {"init", "poller", "config"} => mail[Poller] = <<>>

\* The driver is blocked where it receives, and where it configures the polling
\* task; the task whose request it has in hand awaits a reply.
HandOK ==
  /\ phase[Driver] = "receiving" =>
       outcome[Driver] = Nothing /\ pc[Driver] \in {"poller", "handle"}
  /\ phase[Driver] \in {"sending", "awaitingReply"} => pc[Driver] = "ready"
  /\ pc[Driver] = "handle" /\ outcome[Driver] # Nothing =>
       \E s \in Users : outcome[Driver].tid = <<s, gen[s]>> /\ phase[s] = "awaitingReply"
  /\ pc[Driver] \in {"acknowledge", "reply", "replyCount", "echo"} =>
       other \in Users /\ phase[other] = "awaitingReply"
  /\ pc[Driver] = "reply" => letter[other].type # "CHARACTER_RECEIVED"
  /\ blocked \in Users \cup {NoTask}

\* Only the polling task waits for the UART.
LineOK ==
  line[Uart] = IF phase[Poller] = "awaitingEvent" THEN <<Poller>> ELSE <<>>

\* A message other than the polling task's is of a client in a call.
LettersOK ==
  \A t \in Slots :
    /\ letter[t].type \in MessageTypes
    /\ letter[t] # Poll => t \in Clients /\ pc[t] = "answered"

ServedInv ==
  Shapes /\ MailOK /\ SetUp /\ HandOK /\ LineOK /\ LettersOK /\ NobodyForgotten

\* The characters that are on their way to a client or with it.
Old(x) ==
  \/ \E t \in Slots : answer[t] = x
  \/ \E c \in Clients : \E i \in DOMAIN got[c] : got[c][i] = x

\* A client has a character in its reply buffer until it looks at it.
AnswersOK ==
  /\ \A t \in Slots : answer[t] # None =>
       t \in Clients /\ pc[t] = "answered" /\ phase[t] = "ready"
  /\ \A t, u \in Slots : answer[t] = answer[u] /\ answer[t] # None => t = u

\* Each reader has its characters in the order in which they came.
GotOK ==
  /\ \A c \in Clients : got[c] \in Seq(Chars)
  /\ \A c \in Clients : \A i, j \in DOMAIN got[c] : i < j => got[c][i] < got[c][j]
  /\ \A c \in Clients : \A i \in DOMAIN got[c] :
       answer[c] # None => got[c][i] < answer[c]
  /\ \A c \in Clients, t \in Slots : \A i \in DOMAIN got[c] : got[c][i] # answer[t]
  /\ \A c, d \in Clients : \A i \in DOMAIN got[c], j \in DOMAIN got[d] :
       got[c][i] = got[d][j] => c = d

\* The characters that are old came before the one that the driver has, and
\* that one before those in the UART.
OrderOK ==
  /\ arrived \in Nat /\ arrived <= MaxChars
  /\ fifo \in Seq(1 .. arrived)
  /\ \A i, j \in DOMAIN fifo : i < j => fifo[i] < fifo[j]
  /\ ch \in 0 .. arrived
  /\ ch # None => pc[Driver] \in {"reply", "serve"}
  /\ pc[Driver] = "serve" => blocked # NoTask
  /\ ch # None => \A i \in DOMAIN fifo : ch < fifo[i]
  /\ \A t \in Slots : answer[t] \in 0 .. arrived
  /\ \A x \in Chars : Old(x) =>
       /\ x <= arrived
       /\ ch # None => x < ch
       /\ \A i \in DOMAIN fifo : x < fifo[i]

\* A character that found the UART full is nowhere else, and no other is missing.
AllThere ==
  /\ overrun \subseteq 1 .. arrived
  /\ \A x \in overrun : ~Old(x) /\ x # ch /\ \A i \in DOMAIN fifo : x # fifo[i]
  /\ \A x \in 1 .. arrived :
       x \in overrun \/ Old(x) \/ x = ch \/ \E i \in DOMAIN fifo : x = fifo[i]

CharInv == AnswersOK /\ GotOK /\ OrderOK /\ AllThere
-----------------------------------------------------------------------------
LEMMA TheSlots ==
  /\ Boot \in Slots /\ Driver \in Slots /\ Poller \in Slots /\ Users \subseteq Slots
  /\ Boot # Driver /\ Boot # Poller /\ Driver # Poller /\ Driver \notin Users
  /\ Boot \in Clients /\ Poller \notin Clients /\ NoTask \notin Slots
  /\ Clients \subseteq Users /\ Poller \in Users /\ Boot = 0
  /\ Uart \in EventTypes
BY SerialAssumption DEF Users, NoTask

LEMMA ServedAtFirst == SerialInit => ServedInv
<1> SUFFICES ASSUME SerialInit PROVE ServedInv
  OBVIOUS
<1> USE TheSlots
<1>1. /\ \A t \in Slots : phase[t] = IF t = 0 THEN "ready" ELSE "absent"
      /\ \A t \in Slots : mail[t] = <<>>
      /\ line[Uart] = <<>> /\ gen[Boot] = 1
      /\ pc[Boot] = "create" /\ pc[Driver] = "init" /\ pc[Poller] = "init"
      /\ \A t \in Slots : letter[t] = Poll
  BY DEF SerialInit, Init
<1>2. Shapes
  BY <1>1 DEF SerialInit, Init, Shapes
<1>3. MailOK
  <2>1. mail[Driver] = <<>>
    BY <1>1
  <2> QED
    BY <1>1, <2>1 DEF MailOK
<1>4. SetUp /\ LineOK
  BY <1>1 DEF SetUp, LineOK
<1>5. HandOK
  BY <1>1 DEF SerialInit, HandOK
<1>6. LettersOK
  BY <1>1 DEF LettersOK, Poll, MessageTypes
<1>7. NobodyForgotten
  BY <1>1 DEF SerialInit, NobodyForgotten, Users
<1> QED
  BY <1>2, <1>3, <1>4, <1>5, <1>6, <1>7 DEF ServedInv

\* What a step does that neither calls nor returns anything of concern.
LEMMA QuietServed ==
  ASSUME ServedInv, Shapes', UNCHANGED <<phase, gen, mail, line, letter, other, blocked>>,
         \A t \in Slots : pc'[t] = pc[t],
         \/ outcome'[Driver] = outcome[Driver]
         \/ phase[Driver] = "ready" /\ pc[Driver] # "handle"
  PROVE  ServedInv'
<1> USE TheSlots
<1>1. MailOK' /\ LineOK'
  BY DEF ServedInv, MailOK, LineOK
<1>2. SetUp'
  BY DEF ServedInv, SetUp
<1>3. HandOK'
  BY DEF ServedInv, HandOK
<1>4. LettersOK'
  BY DEF ServedInv, LettersOK
<1>5. \A t \in Users : InHand(t)' <=> InHand(t)
  BY DEF InHand
<1>6. NobodyForgotten'
  BY <1>5 DEF ServedInv, NobodyForgotten, HandOK, Users
<1> QED
  BY <1>1, <1>2, <1>3, <1>4, <1>6 DEF ServedInv

\* The driver takes a request.
LEMMA TakesServed ==
  ASSUME ServedInv, NEW kinds, NEW l, Takes(kinds, l),
         l \in {"receive", "exit", "acknowledge", "reply", "replyCount", "echo"},
         \/ blocked' = blocked
         \/ /\ l = "receive" /\ blocked = NoTask /\ blocked' = Sender
            /\ letter[Sender].type = "GET_CHAR",
         l \in {"receive", "exit"} /\ blocked' = blocked => Unanswered(letter[Sender]),
         l = "reply" => letter[Sender].type # "CHARACTER_RECEIVED"
  PROVE  ServedInv'
<1> USE TheSlots
<1>1. /\ pc[Driver] = "handle" /\ pc'[Driver] = l
      /\ \A t \in Slots \ {Driver} : pc'[t] = pc[t]
      /\ phase[Driver] = "ready" /\ outcome[Driver] # Nothing /\ DOMAIN pc' = Slots
      /\ DOMAIN outcome' = Slots /\ UNCHANGED <<phase, gen, mail, line, letter, answer, got>>
      /\ other' = IF l \in {"receive", "exit"} THEN NoTask ELSE Sender
  BY DEF Takes, At, Returns, Collect, ServedInv, Shapes, clients
<1>2. PICK s \in Users : outcome[Driver].tid = <<s, gen[s]>> /\ phase[s] = "awaitingReply"
  BY <1>1 DEF ServedInv, HandOK
<1>3. Sender = s /\ \A t \in Users : InHand(t) <=> t = s
  BY <1>1, <1>2 DEF Sender, InHand
<1>4. Shapes' /\ MailOK' /\ LineOK'
  BY <1>1 DEF ServedInv, Shapes, MailOK, LineOK
<1>5. SetUp'
  BY <1>1 DEF ServedInv, SetUp
<1>6. LettersOK'
  BY <1>1 DEF ServedInv, LettersOK
<1>7. HandOK'
  BY <1>1, <1>2, <1>3 DEF ServedInv, HandOK
<1>8. \A t \in Users : InHand(t)' <=> t = s /\ l \notin {"receive", "exit"}
  BY <1>1, <1>3 DEF InHand
<1>9. NobodyForgotten'
  <2>1. ASSUME NEW t \in Clients \cup {Poller},
               phase'[t] = "awaitingReply", pc'[t] # "clients"
        PROVE  t = blocked' \/ InHand(t)' \/ Unanswered(letter'[t])
    BY <1>1, <1>2, <1>3, <1>8, <2>1 DEF ServedInv, NobodyForgotten, Users
  <2>2. ASSUME blocked' # NoTask
        PROVE  (/\ phase[blocked] = "awaitingReply"
                /\ letter[blocked].type = "GET_CHAR" /\ ~InHand(blocked))'
    BY <1>1, <1>2, <1>3, <1>8, <2>2 DEF ServedInv, NobodyForgotten, HandOK
  <2> QED
    BY <2>1, <2>2 DEF NobodyForgotten
<1> QED
  BY <1>4, <1>5, <1>6, <1>7, <1>9 DEF ServedInv

\* The driver answers the task in hand or its subscriber.
LEMMA GivesServed ==
  ASSUME ServedInv, NEW t, NEW c, NEW len, NEW l, NEW m,
         At(Driver, l, m), Gives(t, c, len), m \in {"look", "receive"},
         \/ /\ t = other /\ l \in {"acknowledge", "reply", "replyCount", "echo"}
            /\ UNCHANGED blocked
         \/ t = blocked /\ l = "serve" /\ blocked' = NoTask
  PROVE  ServedInv'
<1> USE TheSlots
<1>1. /\ pc[Driver] = l /\ pc'[Driver] = m /\ DOMAIN pc' = Slots
      /\ \A u \in Slots \ {Driver} : pc'[u] = pc[u]
      /\ phase[Driver] = "ready" /\ phase[t] = "awaitingReply"
      /\ phase' = [phase EXCEPT ![t] = "ready"] /\ DOMAIN outcome' = Slots
      /\ UNCHANGED <<gen, mail, line, letter, got>> /\ DOMAIN answer' = Slots
      /\ other' = NoTask
  BY DEF At, Gives, Reply, ServedInv, Shapes
<1>2. /\ phase'[Driver] = "ready" /\ t # Driver
      /\ \A u \in Slots \ {t} : phase'[u] = phase[u]
      /\ t \in Slots => phase'[t] = "ready"
  BY <1>1 DEF ServedInv, Shapes
<1>3. Shapes'
  BY <1>1 DEF ServedInv, Shapes
<1>4. MailOK' /\ LineOK'
  BY <1>1, <1>2 DEF ServedInv, MailOK, LineOK
<1>5. SetUp'
  BY <1>1 DEF ServedInv, SetUp
<1>6. LettersOK'
  BY <1>1 DEF ServedInv, LettersOK
<1>7. HandOK'
  BY <1>1, <1>2 DEF ServedInv, HandOK
<1>8. \A u \in Users : ~InHand(u)' /\ (InHand(u) => u = other /\ l # "serve")
  BY <1>1 DEF InHand
<1>9. NobodyForgotten'
  <2>1. ASSUME NEW u \in Clients \cup {Poller},
               phase'[u] = "awaitingReply", pc'[u] # "clients"
        PROVE  u = blocked' \/ InHand(u)' \/ Unanswered(letter'[u])
    <3>1. u \in Users /\ u # t
      BY <1>2, <2>1 DEF Users
    <3> QED
      BY <1>1, <1>2, <1>8, <2>1, <3>1 DEF ServedInv, NobodyForgotten, Users
  <2>2. ASSUME blocked' # NoTask
        PROVE  (/\ phase[blocked] = "awaitingReply"
                /\ letter[blocked].type = "GET_CHAR" /\ ~InHand(blocked))'
    <3>1. blocked' = blocked /\ blocked \in Users /\ t = other
      BY <2>2 DEF ServedInv, HandOK
    <3>2. InHand(other)
      BY <1>1, <2>2 DEF InHand
    <3>3. blocked # t
      BY <2>2, <3>1, <3>2 DEF ServedInv, NobodyForgotten
    <3> QED
      BY <1>1, <1>2, <1>8, <2>2, <3>1, <3>3 DEF ServedInv, NobodyForgotten
  <2> QED
    BY <2>1, <2>2 DEF NobodyForgotten
<1> QED
  BY <1>3, <1>4, <1>5, <1>6, <1>7, <1>9 DEF ServedInv

-----------------------------------------------------------------------------
(* The calls of the driver, the polling task and the clients.              *)

\* A number up to n + 1 is n + 1 or one up to n.
LEMMA LastOrBefore ==
  ASSUME NEW n \in Nat, NEW k \in 1 .. (n + 1), k # n + 1
  PROVE  k \in 1 .. n
OBVIOUS

\* Nobody comes into the mailbox of the driver twice.
LEMMA MailGrows ==
  ASSUME MailOK, NEW t \in Users, phase[t] = "ready",
         mail'[Driver] = Append(mail[Driver], t), phase'[t] = "sending",
         \A u \in Users \ {t} : phase'[u] = phase[u]
  PROVE  /\ mail'[Driver] \in Seq(Users)
         /\ \A k \in 1 .. Len(mail'[Driver]) : phase'[mail'[Driver][k]] = "sending"
         /\ \A j, k \in 1 .. Len(mail'[Driver]) :
              mail'[Driver][j] = mail'[Driver][k] => j = k
<1> DEFINE box == mail[Driver]
<1>1. box \in Seq(Users) /\ Len(box) \in Nat
  BY DEF MailOK
<1>2. /\ mail'[Driver] \in Seq(Users) /\ Len(mail'[Driver]) = Len(box) + 1
      /\ mail'[Driver][Len(box) + 1] = t
      /\ \A k \in 1 .. Len(box) : mail'[Driver][k] = box[k]
  BY <1>1
<1>3. \A k \in 1 .. Len(box) : box[k] # t /\ phase[box[k]] = "sending" /\ box[k] \in Users
  BY <1>1 DEF MailOK
<1>4. \A j, k \in 1 .. Len(box) : box[j] = box[k] => j = k
  BY DEF MailOK
<1> HIDE DEF box
<1>5. \A k \in 1 .. (Len(box) + 1) : k = Len(box) + 1 \/ k \in 1 .. Len(box)
  BY <1>1, LastOrBefore
<1>6. \A k \in 1 .. (Len(box) + 1) : phase'[mail'[Driver][k]] = "sending"
  BY <1>2, <1>3, <1>5
<1>7. \A j, k \in 1 .. (Len(box) + 1) : mail'[Driver][j] = mail'[Driver][k] => j = k
  BY <1>2, <1>3, <1>4, <1>5
<1> QED
  BY <1>2, <1>6, <1>7

LEMMA MailShrinks ==
  ASSUME MailOK, mail[Driver] # <<>>, mail'[Driver] = Tail(mail[Driver]),
         \A u \in Users \ {Head(mail[Driver])} : phase'[u] = phase[u]
  PROVE  /\ Head(mail[Driver]) \in Users /\ phase[Head(mail[Driver])] = "sending"
         /\ mail'[Driver] \in Seq(Users)
         /\ \A k \in 1 .. Len(mail'[Driver]) : phase'[mail'[Driver][k]] = "sending"
         /\ \A j, k \in 1 .. Len(mail'[Driver]) :
              mail'[Driver][j] = mail'[Driver][k] => j = k
<1> DEFINE box == mail[Driver]  s == Head(mail[Driver])
<1>1. box \in Seq(Users) /\ Len(box) \in Nat
  BY DEF MailOK
<1>2. /\ s = box[1] /\ 1 \in 1 .. Len(box) /\ s \in Users
      /\ Tail(box) \in Seq(Users) /\ Len(Tail(box)) = Len(box) - 1
      /\ \A k \in 1 .. (Len(box) - 1) :
           Tail(box)[k] = box[k + 1] /\ k + 1 \in 1 .. Len(box) /\ k + 1 # 1
  BY <1>1
<1>3. \A k \in 1 .. Len(box) : phase[box[k]] = "sending" /\ box[k] \in Users
  BY <1>1 DEF MailOK
<1>4. \A j, k \in 1 .. Len(box) : box[j] = box[k] => j = k
  BY DEF MailOK
<1>5. mail'[Driver] = Tail(box) /\ \A u \in Users \ {s} : phase'[u] = phase[u]
  OBVIOUS
<1> HIDE DEF box, s
<1>6. \A k \in 1 .. (Len(box) - 1) : phase'[Tail(box)[k]] = "sending"
  <2> SUFFICES ASSUME NEW k \in 1 .. (Len(box) - 1) PROVE phase'[Tail(box)[k]] = "sending"
    OBVIOUS
  <2>1. Tail(box)[k] = box[k + 1] /\ k + 1 \in 1 .. Len(box) /\ k + 1 # 1
    BY <1>2
  <2>2. box[k + 1] # s
    BY <1>2, <1>4, <2>1
  <2> QED
    BY <1>3, <1>5, <2>1, <2>2
<1>7. \A j, k \in 1 .. (Len(box) - 1) : Tail(box)[j] = Tail(box)[k] => j = k
  <2> SUFFICES ASSUME NEW j \in 1 .. (Len(box) - 1), NEW k \in 1 .. (Len(box) - 1),
                      Tail(box)[j] = Tail(box)[k]
               PROVE  j = k
    OBVIOUS
  <2>1. j + 1 = k + 1
    BY <1>2, <1>4
  <2> QED
    BY <1>1, <2>1
<1>8. phase[s] = "sending"
  BY <1>2, <1>3
<1> QED
  BY <1>2, <1>5, <1>6, <1>7, <1>8 DEF s

\* A task whose request is in hand awaits the reply.
LEMMA InHandWaits ==
  ASSUME ServedInv, NEW t \in Users, InHand(t)
  PROVE  phase[t] = "awaitingReply" /\ (pc[Driver] = "handle" => outcome[Driver] # Nothing)
<1> USE TheSlots
<1>1. CASE pc[Driver] = "handle"
  <2>1. outcome[Driver] # Nothing
    BY <1>1 DEF InHand, Nothing, ServedInv, Shapes
  <2> QED
    BY <1>1, <2>1 DEF InHand, ServedInv, HandOK
<1>2. CASE pc[Driver] # "handle"
  BY <1>2 DEF InHand, ServedInv, HandOK
<1> QED
  BY <1>1, <1>2

\* A task sends to the driver: at the set-up, as the polling task or as a client.
LEMMA SendServed ==
  ASSUME ServedInv, NEW t \in Users, NEW l, NEW m, NEW len, NEW rlen, NEW x,
         At(t, l, m), Send(t, Driver, len, rlen), UNCHANGED <<other, blocked, answer, got>>,
         letter' = letter \/ letter' = [letter EXCEPT ![t] = x],
         \/ t = Boot /\ l = "send" /\ m = "clients" /\ letter' = letter
         \/ t = Poller /\ m = "await" /\ l = "tell" /\ letter' = letter
         \/ /\ t \in Clients /\ l = "idle" /\ m = "answered" /\ x.type \in MessageTypes
            /\ letter' = [letter EXCEPT ![t] = x]
  PROVE  ServedInv'
<1> USE TheSlots
<1>1. /\ pc[t] = l /\ pc'[t] = m /\ DOMAIN pc' = Slots /\ t # Driver /\ t \in Slots
      /\ \A u \in Slots \ {t} : pc'[u] = pc[u]
      /\ phase[t] = "ready" /\ UNCHANGED <<gen, line>>
      /\ \A u \in Slots \ {t} : letter'[u] = letter[u]
      /\ DOMAIN letter' = Slots
  BY DEF At, Send, ServedInv, Shapes
<1>2. LettersOK'
  BY <1>1 DEF ServedInv, Shapes, LettersOK, Poll
<1>3. pc[Driver] \in {"init", "poller"} => t = Boot
  BY <1>1 DEF Users, ServedInv, SetUp
<1>4. pc[Boot] # "create"
  BY <1>1, <1>3 DEF ServedInv, SetUp
<1>5. ~InHand(t) /\ t # blocked
  BY <1>1, InHandWaits DEF ServedInv, NobodyForgotten, NoTask
<1>6. pc'[Boot] # "create" /\ pc'[Driver] = pc[Driver]
  BY <1>1, <1>4
<1>7. ASSUME phase[Driver] = "receiving" PROVE ServedInv'
  <2>1. /\ phase' = [phase EXCEPT ![t] = "awaitingReply", ![Driver] = "ready"]
        /\ UNCHANGED mail /\ outcome'[Driver].tid = <<t, gen[t]>> /\ DOMAIN outcome' = Slots
    BY <1>7 DEF Send, From, ServedInv, Shapes
  <2>2. /\ phase'[t] = "awaitingReply" /\ phase'[Driver] = "ready"
        /\ \A u \in Slots \ {t, Driver} : phase'[u] = phase[u]
    BY <1>1, <2>1 DEF ServedInv, Shapes
  <2>3. outcome[Driver] = Nothing /\ pc[Driver] \in {"poller", "handle"}
    BY <1>7 DEF ServedInv, HandOK
  <2>4. Shapes'
    <3>1. DOMAIN phase' = Slots /\ DOMAIN mail' = Slots /\ DOMAIN line' = EventTypes
      BY <1>1, <2>1 DEF ServedInv, Shapes
    <3>2. DOMAIN gen' = Slots /\ gen'[Boot] # 0
      BY <1>1 DEF ServedInv, Shapes
    <3>3. DOMAIN answer' = Slots /\ DOMAIN got' = Clients
      BY DEF ServedInv, Shapes
    <3> QED
      BY <1>1, <2>1, <3>1, <3>2, <3>3 DEF Shapes
  <2>5. MailOK' /\ LineOK'
    <3>1. mail[Poller] = <<>>
      BY <1>7 DEF ServedInv, MailOK
    <3>2. \A k \in 1 .. Len(mail[Driver]) :
            mail[Driver][k] \in Slots /\ mail[Driver][k] \notin {t, Driver}
      <4> TAKE k \in 1 .. Len(mail[Driver])
      <4>1. mail[Driver][k] \in Users /\ phase[mail[Driver][k]] = "sending"
        BY DEF ServedInv, MailOK
      <4> QED
        BY <1>1, <1>7, <4>1
    <3>3. MailOK'
      BY <1>1, <2>1, <2>2, <3>1, <3>2 DEF ServedInv, MailOK
    <3>4. LineOK'
      BY <1>1, <2>2 DEF ServedInv, LineOK
    <3> QED
      BY <3>3, <3>4
  <2>6. SetUp'
    <3>1. pc'[Driver] \in {"poller", "handle"}
      BY <1>6, <2>3
    <3>2. CASE pc[Driver] = "poller"
      <4>1. t = Boot /\ pc'[Boot] = "clients"
        BY <1>1, <1>3, <3>2 DEF ServedInv, SetUp
      <4>2. \A c \in Clients \ {Boot} : phase'[c] = "absent"
        BY <2>2, <3>2, <4>1 DEF ServedInv, SetUp
      <4>3. phase'[Poller] = "absent" /\ mail'[Poller] = <<>>
        BY <2>1, <2>2, <3>2, <4>1 DEF ServedInv, SetUp
      <4> QED
        BY <2>2, <4>1, <4>2, <4>3 DEF SetUp
    <3>3. CASE pc[Driver] = "handle"
      BY <1>6, <3>3 DEF SetUp
    <3> QED
      BY <1>6, <3>1, <3>2, <3>3
  <2>7. HandOK'
    BY <1>1, <2>1, <2>2, <2>3 DEF ServedInv, HandOK
  <2>8. \A u \in Users : ~InHand(u) /\ (InHand(u)' <=> pc[Driver] = "handle" /\ u = t)
    <3>1. \A u \in Users : ~InHand(u)
      BY <2>3, InHandWaits DEF InHand
    <3>2. ASSUME NEW u \in Users PROVE InHand(u)' <=> pc[Driver] = "handle" /\ u = t
      <4>1. pc'[Driver] \in {"poller", "handle"}
        BY <1>6, <2>3
      <4>2. InHand(u)' <=> pc'[Driver] = "handle" /\ outcome'[Driver].tid = <<u, gen'[u]>>
        BY <4>1 DEF InHand
      <4>3. <<t, gen[t]>> = <<u, gen'[u]>> <=> u = t
        BY <1>1
      <4> QED
        BY <1>6, <2>1, <4>2, <4>3
    <3> QED
      BY <3>1, <3>2
  <2>9. NobodyForgotten'
    <3>1. ASSUME NEW u \in Clients \cup {Poller},
                 phase'[u] = "awaitingReply", pc'[u] # "clients"
          PROVE  u = blocked' \/ InHand(u)' \/ Unanswered(letter'[u])
      BY <1>1, <1>3, <2>2, <2>3, <2>8, <3>1 DEF ServedInv, NobodyForgotten, Users, SetUp
    <3>2. ASSUME blocked' # NoTask
          PROVE  (/\ phase[blocked] = "awaitingReply"
                  /\ letter[blocked].type = "GET_CHAR" /\ ~InHand(blocked))'
      BY <1>1, <1>5, <1>7, <2>2, <2>8, <3>2 DEF ServedInv, NobodyForgotten, HandOK
    <3> QED
      BY <3>1, <3>2 DEF NobodyForgotten
  <2> QED
    BY <1>2, <2>4, <2>5, <2>6, <2>7, <2>9 DEF ServedInv
<1>8. ASSUME phase[Driver] # "receiving" PROVE ServedInv'
  <2>1. /\ phase' = [phase EXCEPT ![t] = "sending"] /\ UNCHANGED outcome
        /\ mail' = [mail EXCEPT ![Driver] = Append(@, t)]
    BY <1>8 DEF Send
  <2>2. /\ phase'[t] = "sending" /\ \A u \in Slots \ {t} : phase'[u] = phase[u]
        /\ \A r \in Slots \ {Driver} : mail'[r] = mail[r]
        /\ mail'[Driver] = Append(mail[Driver], t)
    BY <1>1, <2>1 DEF ServedInv, Shapes
  <2>4. Shapes'
    BY <1>1, <2>1 DEF ServedInv, Shapes
  <2>5. MailOK' /\ LineOK'
    <3>1. /\ mail'[Driver] \in Seq(Users)
          /\ \A k \in 1 .. Len(mail'[Driver]) : phase'[mail'[Driver][k]] = "sending"
          /\ \A j, k \in 1 .. Len(mail'[Driver]) :
               mail'[Driver][j] = mail'[Driver][k] => j = k
      BY <1>1, <2>2, MailGrows DEF ServedInv
    <3> QED
      BY <1>1, <2>2, <3>1 DEF ServedInv, MailOK, LineOK
  <2>6. SetUp'
    BY <1>1, <1>3, <1>4, <1>6, <2>2 DEF ServedInv, SetUp
  <2>7. HandOK'
    BY <1>1, <2>1, <2>2 DEF ServedInv, HandOK
  <2>8. \A u \in Users : InHand(u)' <=> InHand(u)
    BY <1>6, <2>1, <1>1 DEF InHand
  <2>9. NobodyForgotten'
    <3>1. ASSUME NEW u \in Clients \cup {Poller},
                 phase'[u] = "awaitingReply", pc'[u] # "clients"
          PROVE  u = blocked' \/ InHand(u)' \/ Unanswered(letter'[u])
      BY <1>1, <2>2, <2>8, <3>1 DEF ServedInv, NobodyForgotten, Users
    <3>2. ASSUME blocked' # NoTask
          PROVE  (/\ phase[blocked] = "awaitingReply"
                  /\ letter[blocked].type = "GET_CHAR" /\ ~InHand(blocked))'
      BY <1>1, <1>5, <2>2, <2>8, <3>2 DEF ServedInv, NobodyForgotten, HandOK
    <3> QED
      BY <3>1, <3>2 DEF NobodyForgotten
  <2> QED
    BY <1>2, <2>4, <2>5, <2>6, <2>7, <2>9 DEF ServedInv
<1> QED
  BY <1>7, <1>8

\* A task is started: the driver, the polling task or a client.
LEMMA StartServed ==
  ASSUME ServedInv, NEW t \in Slots, NEW n \in Slots, NEW l, NEW m,
         At(t, l, m), Start(t, n), Plain,
         \/ t = Boot /\ n = Driver /\ l = "create" /\ m = "send"
         \/ t = Driver /\ n = Poller /\ l = "poller" /\ m = "config"
         \/ /\ t = Boot /\ n \in Clients /\ gen[n] = 0 /\ l = "clients"
            /\ m \in {"idle", "clients"}
  PROVE  ServedInv'
<1> USE TheSlots
<1>1. /\ pc[t] = l /\ pc'[t] = m /\ DOMAIN pc' = Slots /\ n # Boot /\ t # n
      /\ \A u \in Slots \ {t} : pc'[u] = pc[u]
      /\ phase[t] = "ready" /\ phase[n] = "absent" /\ UNCHANGED <<letter, other, blocked>>
  BY DEF At, Start, Plain, clients, locals, ServedInv, Shapes
<1>2. mail[n] = <<>>
  BY <1>1 DEF ServedInv, SetUp, MailOK
<1>3. /\ phase'[n] = "ready" /\ \A u \in Slots \ {n} : phase'[u] = phase[u]
      /\ \A u \in Slots \ {n} : gen'[u] = gen[u]
      /\ mail' = mail /\ line' = line
  <2>1. \A i \in Slots : ~(\E k \in DOMAIN mail[n] : mail[n][k] = i)
    BY <1>2
  <2>2. phase' = [i \in Slots |-> IF i = n THEN "ready" ELSE phase[i]]
    BY <2>1 DEF Start
  <2>3. mail' = [mail EXCEPT ![n] = <<>>] /\ gen' = [gen EXCEPT ![n] = @ + 1] /\ line' = line
    BY DEF Start
  <2> QED
    BY <1>2, <2>2, <2>3 DEF ServedInv, Shapes
<1>4. /\ n = Driver => outcome'[Driver] = Nothing
      /\ t # Driver /\ n # Driver => outcome'[Driver] = outcome[Driver]
  BY DEF Start, ServedInv, Shapes
<1>5. Shapes'
  <2>1. DOMAIN phase' = Slots /\ DOMAIN gen' = Slots /\ DOMAIN outcome' = Slots
    BY DEF Start, ServedInv, Shapes
  <2>2. DOMAIN letter' = Slots /\ DOMAIN answer' = Slots /\ DOMAIN got' = Clients
    BY DEF Plain, clients, ServedInv, Shapes
  <2>3. gen'[Boot] # 0 /\ DOMAIN mail' = Slots /\ DOMAIN line' = EventTypes
    BY <1>1, <1>3 DEF ServedInv, Shapes
  <2> QED
    BY <1>1, <2>1, <2>2, <2>3 DEF Shapes
<1>6. MailOK' /\ LineOK'
  <2>1. \A k \in 1 .. Len(mail[Driver]) :
          mail[Driver][k] \in Slots /\ mail[Driver][k] # n
    <3> TAKE k \in 1 .. Len(mail[Driver])
    <3>1. mail[Driver][k] \in Users /\ phase[mail[Driver][k]] = "sending"
      BY DEF ServedInv, MailOK
    <3> QED
      BY <1>1, <3>1
  <2>2. MailOK'
    <3>1. \A k \in 1 .. Len(mail[Driver]) : phase'[mail[Driver][k]] = "sending"
      <4> TAKE k \in 1 .. Len(mail[Driver])
      <4>1. phase[mail[Driver][k]] = "sending"
        BY DEF ServedInv, MailOK
      <4>2. mail[Driver][k] \in Slots \ {n}
        BY <2>1
      <4> QED
        BY <1>3, <4>1, <4>2
    <3>2. mail'[Poller] = <<>> \/ (mail'[Poller] = <<Driver>> /\ phase'[Driver] = "sending")
      <4>1. mail[Poller] = <<>> \/ (mail[Poller] = <<Driver>> /\ phase[Driver] = "sending")
        BY DEF ServedInv, MailOK
      <4>2. phase[Driver] = "sending" => phase'[Driver] = "sending"
        BY <1>1, <1>3
      <4> QED
        BY <1>3, <4>1, <4>2
    <3>3. mail' = mail
      BY <1>3
    <3> QED
      BY <3>1, <3>2, <3>3 DEF ServedInv, MailOK
  <2>3. LineOK'
    BY <1>1, <1>3 DEF ServedInv, LineOK
  <2> QED
    BY <2>2, <2>3
<1>7. SetUp'
  BY <1>1, <1>2, <1>3 DEF ServedInv, SetUp
<1>8. LettersOK'
  BY <1>1 DEF ServedInv, LettersOK, Users
<1>9. HandOK'
  <2>1. \A s \in Users : phase[s] = "awaitingReply" =>
          phase'[s] = "awaitingReply" /\ gen'[s] = gen[s]
    BY <1>1, <1>3
  <2>2. CASE t # Driver /\ n # Driver
    <3>1. UNCHANGED <<pc[Driver], phase[Driver], outcome[Driver]>>
      BY <1>1, <1>3, <1>4, <2>2
    <3> QED
      BY <1>1, <2>1, <3>1 DEF ServedInv, HandOK
  <2>3. CASE t = Driver \/ n = Driver
    <3>1. pc'[Driver] \in {"init", "config"} /\ phase'[Driver] = "ready"
      BY <1>1, <1>3, <2>3 DEF ServedInv, SetUp
    <3> QED
      BY <1>1, <3>1 DEF ServedInv, HandOK
  <2> QED
    BY <2>2, <2>3
<1>10. \A u \in Users \ {n} : InHand(u)' <=> InHand(u)
  BY <1>1, <1>3, <1>4 DEF InHand, ServedInv, SetUp
<1>11. NobodyForgotten'
  <2>1. ASSUME NEW u \in Clients \cup {Poller},
               phase'[u] = "awaitingReply", pc'[u] # "clients"
        PROVE  u = blocked' \/ InHand(u)' \/ Unanswered(letter'[u])
    <3>1. u \in Users \ {n} /\ u # t
      BY <1>1, <1>3, <2>1 DEF Users
    <3> QED
      BY <1>1, <1>3, <1>10, <2>1, <3>1 DEF ServedInv, NobodyForgotten, Users
  <2>2. ASSUME blocked' # NoTask
        PROVE  (/\ phase[blocked] = "awaitingReply"
                /\ letter[blocked].type = "GET_CHAR" /\ ~InHand(blocked))'
    <3>1. blocked \in Users \ {n}
      BY <1>1, <2>2 DEF ServedInv, NobodyForgotten, HandOK
    <3> QED
      BY <1>1, <1>3, <1>10, <2>2, <3>1 DEF ServedInv, NobodyForgotten
  <2> QED
    BY <2>1, <2>2 DEF NobodyForgotten
<1> QED
  BY <1>5, <1>6, <1>7, <1>8, <1>9, <1>11 DEF ServedInv

\* The driver receives: the message of the task that started it, or a request.
LEMMA ReceiveServed ==
  ASSUME ServedInv, NEW l, NEW m, NEW cap,
         At(Driver, l, m), Receive(Driver, cap), Plain,
         \/ l = "init" /\ m = "poller"
         \/ l = "receive" /\ m = "handle"
  PROVE  ServedInv'
<1> USE TheSlots
<1>1. /\ pc[Driver] = l /\ pc'[Driver] = m /\ DOMAIN pc' = Slots
      /\ \A u \in Slots \ {Driver} : pc'[u] = pc[u]
      /\ phase[Driver] = "ready" /\ outcome[Driver] = Nothing
      /\ UNCHANGED <<gen, line, letter, answer, got, other, blocked>>
  BY DEF At, Receive, Plain, clients, locals, ServedInv, Shapes
<1>2. LettersOK'
  BY <1>1 DEF ServedInv, LettersOK
<1>3. \A u \in Users : ~InHand(u)
  BY <1>1 DEF InHand
<1>4. mail[Poller] = <<>>
  BY <1>1 DEF ServedInv, MailOK
<1>5. pc[Boot] # "create"
  BY <1>1 DEF ServedInv, SetUp
<1>6. ASSUME mail[Driver] # <<>> PROVE ServedInv'
  <2> DEFINE s == Head(mail[Driver])
  <2>1. /\ phase' = [phase EXCEPT ![s] = "awaitingReply"]
        /\ mail' = [mail EXCEPT ![Driver] = Tail(mail[Driver])]
        /\ outcome'[Driver].tid = <<s, gen[s]>> /\ outcome'[Driver] # Nothing
        /\ DOMAIN outcome' = Slots
    BY <1>6, <1>1 DEF Receive, From, Arrives, Nothing, ServedInv, Shapes
  <2>2. \A u \in Users \ {s} : phase'[u] = phase[u]
    BY <2>1 DEF ServedInv, Shapes
  <2>3. mail'[Driver] = Tail(mail[Driver]) /\ \A r \in Slots \ {Driver} : mail'[r] = mail[r]
    BY <2>1 DEF ServedInv, Shapes
  <2>4. /\ s \in Users /\ phase[s] = "sending"
        /\ mail'[Driver] \in Seq(Users)
        /\ \A k \in 1 .. Len(mail'[Driver]) : phase'[mail'[Driver][k]] = "sending"
        /\ \A j, k \in 1 .. Len(mail'[Driver]) :
             mail'[Driver][j] = mail'[Driver][k] => j = k
    BY <1>6, <2>2, <2>3, MailShrinks DEF ServedInv
  <2> HIDE DEF s
  <2>5. phase'[s] = "awaitingReply" /\ \A u \in Slots \ {s} : phase'[u] = phase[u]
    BY <2>1, <2>4 DEF ServedInv, Shapes
  <2>6. Shapes'
    <3>1. DOMAIN phase' = Slots /\ DOMAIN mail' = Slots
      BY <2>1 DEF ServedInv, Shapes
    <3> QED
      BY <1>1, <2>1, <3>1 DEF ServedInv, Shapes
  <2>7. MailOK' /\ LineOK'
    BY <1>1, <1>4, <2>3, <2>4, <2>5 DEF ServedInv, MailOK, LineOK
  <2>8. SetUp'
    <3>1. CASE l = "init"
      <4>1. s = Boot
        BY <1>1, <2>4, <3>1 DEF ServedInv, SetUp, Users
      <4> QED
        BY <1>1, <1>4, <1>5, <2>3, <2>4, <2>5, <3>1, <4>1 DEF ServedInv, SetUp
    <3>2. CASE l = "receive"
      BY <1>1, <1>5, <3>2 DEF ServedInv, SetUp
    <3> QED
      BY <3>1, <3>2
  <2>9. HandOK'
    BY <1>1, <2>1, <2>4, <2>5 DEF ServedInv, HandOK
  <2>10. \A u \in Users : InHand(u)' <=> m = "handle" /\ u = s
    <3> TAKE u \in Users
    <3>1. InHand(u)' <=> m = "handle" /\ outcome'[Driver].tid = <<u, gen'[u]>>
      BY <1>1 DEF InHand
    <3>2. <<s, gen[s]>> = <<u, gen'[u]>> <=> u = s
      BY <1>1
    <3> QED
      BY <2>1, <3>1, <3>2
  <2>11. NobodyForgotten'
    <3>1. ASSUME NEW u \in Clients \cup {Poller},
                 phase'[u] = "awaitingReply", pc'[u] # "clients"
          PROVE  u = blocked' \/ InHand(u)' \/ Unanswered(letter'[u])
      <4>0. u \in Users
        BY DEF Users
      <4>1. CASE u = s
        <5>1. m = "handle"
          BY <1>1, <2>4, <3>1, <4>1 DEF ServedInv, SetUp, Users
        <5> QED
          BY <2>10, <4>0, <4>1, <5>1
      <4>2. CASE u # s
        BY <1>1, <1>3, <2>5, <3>1, <4>0, <4>2 DEF ServedInv, NobodyForgotten
      <4> QED
        BY <4>1, <4>2
    <3>2. ASSUME blocked' # NoTask
          PROVE  (/\ phase[blocked] = "awaitingReply"
                  /\ letter[blocked].type = "GET_CHAR" /\ ~InHand(blocked))'
      <4>1. blocked \in Users \ {s} /\ blocked \in Slots
        BY <1>1, <2>4, <3>2 DEF ServedInv, NobodyForgotten, HandOK
      <4> QED
        BY <1>1, <2>5, <2>10, <3>2, <4>1 DEF ServedInv, NobodyForgotten
    <3> QED
      BY <3>1, <3>2 DEF NobodyForgotten
  <2> QED
    BY <1>2, <2>6, <2>7, <2>8, <2>9, <2>11 DEF ServedInv
<1>7. ASSUME mail[Driver] = <<>> PROVE ServedInv'
  <2>1. phase' = [phase EXCEPT ![Driver] = "receiving"] /\ UNCHANGED <<mail, outcome>>
    BY <1>7 DEF Receive
  <2>2. phase'[Driver] = "receiving" /\ \A u \in Slots \ {Driver} : phase'[u] = phase[u]
    BY <2>1 DEF ServedInv, Shapes
  <2>3. Shapes'
    BY <1>1, <2>1 DEF ServedInv, Shapes
  <2>4. MailOK' /\ LineOK'
    <3>1. mail' = mail /\ Len(mail[Driver]) = 0
      BY <1>7, <2>1
    <3>2. MailOK'
      BY <1>4, <3>1 DEF ServedInv, MailOK
    <3>3. LineOK'
      BY <1>1, <2>2 DEF ServedInv, LineOK
    <3> QED
      BY <3>2, <3>3
  <2>5. SetUp'
    BY <1>1, <1>4, <1>5, <2>1, <2>2 DEF ServedInv, SetUp
  <2>6. HandOK'
    BY <1>1, <2>1, <2>2 DEF ServedInv, HandOK
  <2>7. \A u \in Users : ~InHand(u)'
    <3> SUFFICES ASSUME NEW u \in Users, InHand(u)' PROVE FALSE
      OBVIOUS
    <3>1. outcome'[Driver].tid = <<u, gen'[u]>>
      BY <1>1 DEF InHand
    <3>2. outcome'[Driver].tid = <<0, 0>>
      BY <1>1, <2>1 DEF Nothing
    <3> QED
      BY <1>1, <3>1, <3>2 DEF ServedInv, Shapes
  <2>8. NobodyForgotten'
    <3>1. ASSUME NEW u \in Clients \cup {Poller},
                 phase'[u] = "awaitingReply", pc'[u] # "clients"
          PROVE  u = blocked' \/ InHand(u)' \/ Unanswered(letter'[u])
      BY <1>1, <1>3, <2>2, <3>1 DEF ServedInv, NobodyForgotten, Users
    <3>2. ASSUME blocked' # NoTask
          PROVE  (/\ phase[blocked] = "awaitingReply"
                  /\ letter[blocked].type = "GET_CHAR" /\ ~InHand(blocked))'
      BY <1>1, <2>2, <2>7, <3>2 DEF ServedInv, NobodyForgotten, HandOK
    <3> QED
      BY <3>1, <3>2 DEF NobodyForgotten
  <2> QED
    BY <1>2, <2>3, <2>4, <2>5, <2>6, <2>8 DEF ServedInv
<1> QED
  BY <1>6, <1>7

\* The polling task and the driver at the set-up, and the polling task when it
\* waits for the UART: none of it touches a request.
LEMMA PollerReceivesServed ==
  ASSUME ServedInv, NEW cap, At(Poller, "init", "ack"), Receive(Poller, cap), Plain
  PROVE  ServedInv'
<1> USE TheSlots
<1>1. /\ pc[Poller] = "init" /\ pc'[Poller] = "ack" /\ DOMAIN pc' = Slots
      /\ \A u \in Slots \ {Poller} : pc'[u] = pc[u]
      /\ phase[Poller] = "ready"
      /\ UNCHANGED <<gen, line, letter, answer, got, other, blocked>>
      /\ outcome'[Driver] = outcome[Driver]
      /\ DOMAIN outcome' = Slots /\ DOMAIN phase' = Slots /\ DOMAIN mail' = Slots
  BY DEF At, Receive, Plain, clients, locals, ServedInv, Shapes
<1>2. /\ mail'[Poller] = <<>> /\ \A r \in Slots \ {Poller} : mail'[r] = mail[r]
      /\ \A u \in Slots \ {Driver, Poller} : phase'[u] = phase[u]
      /\ \/ phase[Driver] = "sending" /\ phase'[Driver] = "awaitingReply"
            /\ phase'[Poller] = "ready"
         \/ phase'[Driver] = phase[Driver] /\ phase'[Poller] = "receiving"
  <2>1. CASE mail[Poller] = <<>>
    <3>1. phase' = [phase EXCEPT ![Poller] = "receiving"] /\ mail' = mail
      BY <2>1 DEF Receive
    <3> QED
      BY <2>1, <3>1 DEF ServedInv, Shapes
  <2>2. CASE mail[Poller] # <<>>
    <3>1. mail[Poller] = <<Driver>> /\ phase[Driver] = "sending"
      BY <2>2 DEF ServedInv, MailOK
    <3>2. Head(mail[Poller]) = Driver /\ Tail(mail[Poller]) = <<>>
      BY <3>1
    <3>3. /\ phase' = [phase EXCEPT ![Driver] = "awaitingReply"]
          /\ mail' = [mail EXCEPT ![Poller] = <<>>]
      BY <2>2, <3>2 DEF Receive
    <3> QED
      BY <1>1, <3>1, <3>3 DEF ServedInv, Shapes
  <2> QED
    BY <2>1, <2>2
<1>3. Shapes'
  BY <1>1 DEF ServedInv, Shapes
<1>4. MailOK'
  <2>1. \A k \in 1 .. Len(mail[Driver]) : phase'[mail[Driver][k]] = "sending"
    <3> TAKE k \in 1 .. Len(mail[Driver])
    <3>1. mail[Driver][k] \in Users /\ phase[mail[Driver][k]] = "sending"
      BY DEF ServedInv, MailOK
    <3> QED
      BY <1>1, <1>2, <3>1
  <2>2. mail'[Driver] = mail[Driver]
    BY <1>2
  <2> QED
    BY <1>2, <2>1, <2>2 DEF ServedInv, MailOK
<1>5. LineOK'
  BY <1>1, <1>2 DEF ServedInv, LineOK
<1>6. SetUp'
  BY <1>1, <1>2 DEF ServedInv, SetUp
<1>7. HandOK'
  <2>1. \A s \in Users : phase[s] = "awaitingReply" => phase'[s] = "awaitingReply"
    BY <1>1, <1>2
  <2> QED
    BY <1>1, <1>2, <2>1 DEF ServedInv, HandOK
<1>8. LettersOK'
  BY <1>1 DEF ServedInv, LettersOK
<1>9. \A u \in Users : InHand(u)' <=> InHand(u)
  BY <1>1 DEF InHand
<1>10. NobodyForgotten'
  BY <1>1, <1>2, <1>9 DEF ServedInv, NobodyForgotten, HandOK, Users
<1> QED
  BY <1>3, <1>4, <1>5, <1>6, <1>7, <1>8, <1>10 DEF ServedInv

LEMMA PollerRepliesServed ==
  ASSUME ServedInv, NEW len, At(Poller, "ack", "await"), Reply(Poller, Driver, len), Plain
  PROVE  ServedInv'
<1> USE TheSlots
<1>1. /\ pc[Poller] = "ack" /\ pc'[Poller] = "await" /\ DOMAIN pc' = Slots
      /\ \A u \in Slots \ {Poller} : pc'[u] = pc[u]
      /\ phase[Poller] = "ready" /\ phase[Driver] = "awaitingReply"
      /\ UNCHANGED <<gen, mail, line, letter, answer, got, other, blocked>>
      /\ DOMAIN outcome' = Slots /\ DOMAIN phase' = Slots
      /\ phase'[Driver] = "ready" /\ \A u \in Slots \ {Driver} : phase'[u] = phase[u]
  BY DEF At, Reply, Plain, clients, locals, ServedInv, Shapes
<1>2. pc[Driver] = "ready"
  BY <1>1 DEF ServedInv, HandOK
<1>3. Shapes' /\ LineOK' /\ LettersOK'
  BY <1>1 DEF ServedInv, Shapes, LineOK, LettersOK
<1>4. MailOK'
  <2>1. \A k \in 1 .. Len(mail[Driver]) : phase'[mail[Driver][k]] = "sending"
    <3> TAKE k \in 1 .. Len(mail[Driver])
    <3>1. mail[Driver][k] \in Users /\ phase[mail[Driver][k]] = "sending"
      BY DEF ServedInv, MailOK
    <3> QED
      BY <1>1, <3>1
  <2> QED
    BY <1>1, <2>1 DEF ServedInv, MailOK
<1>5. SetUp' /\ HandOK'
  BY <1>1, <1>2 DEF ServedInv, SetUp, HandOK
<1>6. \A u \in Users : ~InHand(u) /\ ~InHand(u)'
  BY <1>1, <1>2 DEF InHand
<1>7. NobodyForgotten'
  BY <1>1, <1>6 DEF ServedInv, NobodyForgotten, HandOK, Users
<1> QED
  BY <1>3, <1>4, <1>5, <1>7 DEF ServedInv

LEMMA PollerAwaitsServed ==
  ASSUME ServedInv, At(Poller, "await", "tell"), AwaitEvent(Poller, Uart), Plain
  PROVE  ServedInv'
<1> USE TheSlots
<1>1. /\ pc[Poller] = "await" /\ pc'[Poller] = "tell" /\ DOMAIN pc' = Slots
      /\ \A u \in Slots \ {Poller} : pc'[u] = pc[u]
      /\ phase[Poller] = "ready"
      /\ UNCHANGED <<gen, mail, outcome, letter, answer, got, other, blocked>>
      /\ DOMAIN line' = EventTypes /\ DOMAIN phase' = Slots
      /\ phase'[Poller] = "awaitingEvent"
      /\ \A u \in Slots \ {Poller} : phase'[u] = phase[u]
      /\ line'[Uart] = Append(line[Uart], Poller)
  BY DEF At, AwaitEvent, Plain, clients, locals, ServedInv, Shapes
<1>2. LineOK'
  <2>1. line[Uart] = <<>>
    BY <1>1 DEF ServedInv, LineOK
  <2> QED
    BY <1>1, <2>1 DEF LineOK
<1>3. Shapes' /\ LettersOK'
  BY <1>1 DEF ServedInv, Shapes, LettersOK
<1>4. MailOK'
  <2>1. \A k \in 1 .. Len(mail[Driver]) : phase'[mail[Driver][k]] = "sending"
    <3> TAKE k \in 1 .. Len(mail[Driver])
    <3>1. mail[Driver][k] \in Users /\ phase[mail[Driver][k]] = "sending"
      BY DEF ServedInv, MailOK
    <3> QED
      BY <1>1, <3>1
  <2> QED
    BY <1>1, <2>1 DEF ServedInv, MailOK
<1>5. SetUp'
  BY <1>1 DEF ServedInv, SetUp
<1>6. HandOK'
  BY <1>1 DEF ServedInv, HandOK
<1>7. \A u \in Users : InHand(u)' <=> InHand(u)
  BY <1>1 DEF InHand
<1>8. NobodyForgotten'
  BY <1>1, <1>7 DEF ServedInv, NobodyForgotten, HandOK, Users
<1> QED
  BY <1>2, <1>3, <1>4, <1>5, <1>6, <1>8 DEF ServedInv

LEMMA ConfigServed ==
  ASSUME ServedInv, NEW len, NEW rlen,
         At(Driver, "config", "ready"), Send(Driver, Poller, len, rlen), Plain
  PROVE  ServedInv'
<1> USE TheSlots
<1>1. /\ pc[Driver] = "config" /\ pc'[Driver] = "ready" /\ DOMAIN pc' = Slots
      /\ \A u \in Slots \ {Driver} : pc'[u] = pc[u]
      /\ phase[Driver] = "ready"
      /\ UNCHANGED <<gen, line, letter, answer, got, other, blocked>>
      /\ DOMAIN outcome' = Slots /\ DOMAIN phase' = Slots /\ DOMAIN mail' = Slots
  BY DEF At, Send, Plain, clients, locals, ServedInv, Shapes
<1>2. mail[Poller] = <<>>
  BY <1>1 DEF ServedInv, SetUp
<1>3. /\ \A u \in Slots \ {Driver, Poller} : phase'[u] = phase[u]
      /\ \A r \in Slots \ {Poller} : mail'[r] = mail[r]
      /\ \/ /\ phase'[Driver] = "sending" /\ phase'[Poller] = phase[Poller]
            /\ mail'[Poller] = <<Driver>>
         \/ /\ phase'[Driver] = "awaitingReply" /\ mail'[Poller] = <<>>
            /\ phase[Poller] = "receiving" /\ phase'[Poller] = "ready"
  <2>1. CASE phase[Poller] = "receiving"
    <3>1. /\ phase' = [phase EXCEPT ![Driver] = "awaitingReply", ![Poller] = "ready"]
          /\ mail' = mail
      BY <2>1 DEF Send
    <3> QED
      BY <1>2, <2>1, <3>1 DEF ServedInv, Shapes
  <2>2. CASE phase[Poller] # "receiving"
    <3>1. /\ phase' = [phase EXCEPT ![Driver] = "sending"]
          /\ mail' = [mail EXCEPT ![Poller] = Append(mail[Poller], Driver)]
      BY <2>2 DEF Send
    <3>2. Append(mail[Poller], Driver) = <<Driver>>
      BY <1>2
    <3> QED
      BY <3>1, <3>2 DEF ServedInv, Shapes
  <2> QED
    BY <2>1, <2>2
<1>4. Shapes' /\ LettersOK'
  BY <1>1 DEF ServedInv, Shapes, LettersOK
<1>5. MailOK'
  <2>1. \A k \in 1 .. Len(mail[Driver]) : phase'[mail[Driver][k]] = "sending"
    <3> TAKE k \in 1 .. Len(mail[Driver])
    <3>1. mail[Driver][k] \in Users /\ phase[mail[Driver][k]] = "sending"
      BY DEF ServedInv, MailOK
    <3> QED
      BY <1>1, <1>3, <3>1
  <2>2. mail'[Driver] = mail[Driver]
    BY <1>3
  <2> QED
    BY <1>3, <2>1, <2>2 DEF ServedInv, MailOK
<1>6. LineOK'
  BY <1>1, <1>3 DEF ServedInv, LineOK
<1>7. SetUp'
  BY <1>1, <1>3 DEF ServedInv, SetUp
<1>8. HandOK'
  BY <1>1, <1>3 DEF ServedInv, HandOK
<1>9. \A u \in Users : ~InHand(u) /\ ~InHand(u)'
  BY <1>1 DEF InHand
<1>10. NobodyForgotten'
  BY <1>1, <1>3, <1>9 DEF ServedInv, NobodyForgotten, HandOK, Users
<1> QED
  BY <1>4, <1>5, <1>6, <1>7, <1>8, <1>10 DEF ServedInv

LEMMA ReadyServed ==
  ASSUME ServedInv, NEW len,
         At(Driver, "ready", "receive"), Reply(Driver, Boot, len), Plain
  PROVE  ServedInv'
<1> USE TheSlots
<1>1. /\ pc[Driver] = "ready" /\ pc'[Driver] = "receive" /\ DOMAIN pc' = Slots
      /\ \A u \in Slots \ {Driver} : pc'[u] = pc[u]
      /\ phase[Driver] = "ready" /\ phase[Boot] = "awaitingReply"
      /\ UNCHANGED <<gen, mail, line, letter, answer, got, other, blocked>>
      /\ DOMAIN outcome' = Slots /\ DOMAIN phase' = Slots
      /\ phase'[Boot] = "ready" /\ \A u \in Slots \ {Boot} : phase'[u] = phase[u]
  BY DEF At, Reply, Plain, clients, locals, ServedInv, Shapes
<1>2. pc[Boot] = "clients"
  BY <1>1 DEF ServedInv, SetUp
<1>3. blocked # Boot
  <2>1. letter[Boot] = Poll
    BY <1>2 DEF ServedInv, LettersOK
  <2> QED
    BY <2>1 DEF ServedInv, NobodyForgotten, NoTask, Poll
<1>4. Shapes' /\ LineOK' /\ LettersOK'
  BY <1>1 DEF ServedInv, Shapes, LineOK, LettersOK
<1>5. MailOK'
  <2>1. \A k \in 1 .. Len(mail[Driver]) : phase'[mail[Driver][k]] = "sending"
    <3> TAKE k \in 1 .. Len(mail[Driver])
    <3>1. mail[Driver][k] \in Users /\ phase[mail[Driver][k]] = "sending"
      BY DEF ServedInv, MailOK
    <3> QED
      BY <1>1, <3>1
  <2> QED
    BY <1>1, <2>1 DEF ServedInv, MailOK
<1>6. SetUp'
  BY <1>1, <1>2 DEF ServedInv, SetUp
<1>7. HandOK'
  BY <1>1 DEF ServedInv, HandOK
<1>8. \A u \in Users : ~InHand(u) /\ ~InHand(u)'
  BY <1>1 DEF InHand
<1>9. NobodyForgotten'
  BY <1>1, <1>3, <1>8 DEF ServedInv, NobodyForgotten, HandOK, Users
<1> QED
  BY <1>4, <1>5, <1>6, <1>7, <1>9 DEF ServedInv

LEMMA InterruptServed ==
  ASSUME ServedInv, Interrupt
  PROVE  ServedInv'
<1> USE TheSlots
<1>1. CASE line[Uart] = <<>>
  <2>1. UNCHANGED <<calls, pc, clients, locals>>
    BY <1>1 DEF Interrupt, EventHappens
  <2>2. Shapes'
    BY <2>1 DEF calls, clients, ServedInv, Shapes
  <2> QED
    BY <2>1, <2>2, QuietServed DEF calls, clients, locals
<1>2. CASE line[Uart] # <<>>
  <2>1. phase[Poller] = "awaitingEvent" /\ line[Uart] = <<Poller>>
    BY <1>2 DEF ServedInv, LineOK
  <2>2. Head(line[Uart]) = Poller /\ Tail(line[Uart]) = <<>>
    BY <2>1
  <2>3. /\ phase' = [phase EXCEPT ![Poller] = "ready"]
        /\ outcome' = [outcome EXCEPT ![Poller] = Told("VOLATILE")]
        /\ line' = [line EXCEPT ![Uart] = <<>>]
        /\ UNCHANGED <<gen, mail, pc, letter, answer, got, other, blocked>>
    BY <1>2, <2>2 DEF Interrupt, EventHappens, clients, locals
  <2>4. /\ phase'[Poller] = "ready" /\ \A u \in Slots \ {Poller} : phase'[u] = phase[u]
        /\ outcome'[Driver] = outcome[Driver] /\ line'[Uart] = <<>>
    BY <2>3 DEF ServedInv, Shapes
  <2>5. Shapes'
    BY <2>3 DEF ServedInv, Shapes
  <2>6. LettersOK' /\ LineOK'
    BY <2>3, <2>4 DEF ServedInv, LettersOK, LineOK
  <2>7. MailOK'
    <3>1. \A k \in 1 .. Len(mail[Driver]) : phase'[mail[Driver][k]] = "sending"
      <4> TAKE k \in 1 .. Len(mail[Driver])
      <4>1. mail[Driver][k] \in Users /\ phase[mail[Driver][k]] = "sending"
        BY DEF ServedInv, MailOK
      <4> QED
        BY <2>1, <2>4, <4>1
    <3> QED
      BY <2>3, <2>4, <3>1 DEF ServedInv, MailOK
  <2>8. SetUp'
    BY <2>1, <2>3, <2>4 DEF ServedInv, SetUp
  <2>9. HandOK'
    <3>1. \A s \in Users : phase[s] = "awaitingReply" => phase'[s] = "awaitingReply"
      BY <2>1, <2>4
    <3> QED
      BY <2>3, <2>4, <3>1 DEF ServedInv, HandOK
  <2>10. \A u \in Users : InHand(u)' <=> InHand(u)
    BY <2>3, <2>4 DEF InHand
  <2>11. NobodyForgotten'
    BY <2>1, <2>3, <2>4, <2>10 DEF ServedInv, NobodyForgotten, HandOK, Users
  <2> QED
    BY <2>5, <2>6, <2>7, <2>8, <2>9, <2>11 DEF ServedInv
<1> QED
  BY <1>1, <1>2

\* The driver turns to the next thing without a call.
LEMMA LookServed ==
  ASSUME ServedInv, Look
  PROVE  ServedInv'
<1> USE TheSlots
<1>1. /\ pc[Driver] = "look" /\ pc'[Driver] \in {"receive", "serve"} /\ DOMAIN pc' = Slots
      /\ \A u \in Slots \ {Driver} : pc'[u] = pc[u]
      /\ phase[Driver] = "ready" /\ DOMAIN outcome' = Slots
      /\ UNCHANGED <<phase, gen, mail, line, letter, answer, got, other, blocked>>
  BY DEF Look, At, Returns, Collect, clients, ServedInv, Shapes
<1>2. Shapes' /\ MailOK' /\ LineOK' /\ LettersOK'
  BY <1>1 DEF ServedInv, Shapes, MailOK, LineOK, LettersOK
<1>3. SetUp' /\ HandOK'
  BY <1>1 DEF ServedInv, SetUp, HandOK
<1>4. \A u \in Users : ~InHand(u) /\ ~InHand(u)'
  BY <1>1 DEF InHand
<1>5. NobodyForgotten'
  BY <1>1, <1>4 DEF ServedInv, NobodyForgotten, HandOK, Users
<1> QED
  BY <1>2, <1>3, <1>5 DEF ServedInv

LEMMA AnsweredServed ==
  ASSUME ServedInv, NEW c \in Clients, Answered(c)
  PROVE  ServedInv'
<1> USE TheSlots
<1>1. /\ pc[c] = "answered" /\ pc'[c] = "idle" /\ DOMAIN pc' = Slots /\ c # Driver
      /\ \A u \in Slots \ {c} : pc'[u] = pc[u]
      /\ phase[c] = "ready" /\ outcome'[Driver] = outcome[Driver]
      /\ UNCHANGED <<phase, gen, mail, line, other, blocked>>
      /\ letter'[c] = Poll /\ \A u \in Slots \ {c} : letter'[u] = letter[u]
  BY DEF Answered, At, Returns, Collect, locals, ServedInv, Shapes
<1>2. Shapes'
  BY <1>1 DEF Answered, At, Returns, Collect, ServedInv, Shapes
<1>3. MailOK' /\ LineOK'
  BY <1>1 DEF ServedInv, MailOK, LineOK
<1>4. LettersOK'
  BY <1>1 DEF ServedInv, LettersOK, Poll, MessageTypes
<1>5. SetUp'
  BY <1>1 DEF ServedInv, SetUp
<1>6. HandOK'
  <2>1. other # c \/ pc[Driver] \notin {"acknowledge", "reply", "replyCount", "echo"}
    BY <1>1 DEF ServedInv, HandOK
  <2>2. \A s \in Users : phase[s] = "awaitingReply" => s # c
    BY <1>1
  <2> QED
    BY <1>1, <2>1, <2>2 DEF ServedInv, HandOK, Users
<1>7. \A u \in Users : InHand(u)' <=> InHand(u)
  BY <1>1 DEF InHand
<1>8. NobodyForgotten'
  <2>1. ASSUME NEW u \in Clients \cup {Poller},
               phase'[u] = "awaitingReply", pc'[u] # "clients"
        PROVE  u = blocked' \/ InHand(u)' \/ Unanswered(letter'[u])
    BY <1>1, <1>7, <2>1 DEF ServedInv, NobodyForgotten, Users
  <2>2. ASSUME blocked' # NoTask
        PROVE  (/\ phase[blocked] = "awaitingReply"
                /\ letter[blocked].type = "GET_CHAR" /\ ~InHand(blocked))'
    <3>1. blocked \in Users \ {c}
      BY <1>1, <2>2 DEF ServedInv, NobodyForgotten, HandOK
    <3> QED
      BY <1>1, <1>7, <2>2, <3>1 DEF ServedInv, NobodyForgotten
  <2> QED
    BY <2>1, <2>2 DEF NobodyForgotten
<1> QED
  BY <1>2, <1>3, <1>4, <1>5, <1>6, <1>8 DEF ServedInv

LEMMA ExitServed ==
  ASSUME ServedInv, DriverExits
  PROVE  ServedInv'
<1> USE TheSlots
<1>1. /\ pc[Driver] = "exit" /\ pc'[Driver] = "gone" /\ DOMAIN pc' = Slots
      /\ \A u \in Slots \ {Driver} : pc'[u] = pc[u]
      /\ phase[Driver] = "ready"
      /\ UNCHANGED <<gen, mail, line, outcome, letter, answer, got, other, blocked>>
      /\ phase'[Driver] = "absent" /\ DOMAIN phase' = Slots
      /\ \A u \in Slots \ {Driver} : phase'[u] = phase[u]
  BY DEF DriverExits, At, Leave, Plain, clients, locals, ServedInv, Shapes
<1>2. Shapes' /\ LineOK' /\ LettersOK'
  BY <1>1 DEF ServedInv, Shapes, LineOK, LettersOK
<1>3. MailOK'
  <2>1. \A k \in 1 .. Len(mail[Driver]) : phase'[mail[Driver][k]] = "sending"
    <3> TAKE k \in 1 .. Len(mail[Driver])
    <3>1. mail[Driver][k] \in Users /\ phase[mail[Driver][k]] = "sending"
      BY DEF ServedInv, MailOK
    <3> QED
      BY <1>1, <3>1
  <2> QED
    BY <1>1, <2>1 DEF ServedInv, MailOK
<1>4. SetUp' /\ HandOK'
  BY <1>1 DEF ServedInv, SetUp, HandOK
<1>5. \A u \in Users : ~InHand(u) /\ ~InHand(u)'
  BY <1>1 DEF InHand
<1>6. NobodyForgotten'
  BY <1>1, <1>5 DEF ServedInv, NobodyForgotten, HandOK, Users
<1> QED
  BY <1>2, <1>3, <1>4, <1>6 DEF ServedInv

LEMMA ServedStep == ServedInv /\ [SerialNext]_serialVars => ServedInv'
<1> SUFFICES ASSUME ServedInv, [SerialNext]_serialVars PROVE ServedInv'
  OBVIOUS
<1> USE TheSlots
<1>1. CASE StartDriver
  <2>1. CASE At(Boot, "create", "send") /\ Start(Boot, Driver) /\ Plain
    BY <2>1, StartServed
  <2>2. CASE At(Boot, "send", "clients") /\ Send(Boot, Driver, DataLen, WordLen) /\ Plain
    BY <2>2, SendServed DEF Plain, clients, locals
  <2> QED
    BY <1>1, <2>1, <2>2 DEF StartDriver
<1>2. CASE StartClients
  <2>1. PICK c \in Unborn :
          /\ At(Boot, "clients", IF Unborn = {c} THEN "idle" ELSE "clients")
          /\ Start(Boot, c) /\ Plain
    BY <1>2 DEF StartClients
  <2> QED
    BY <2>1, StartServed DEF Unborn, Users
<1>3. CASE PollerStep
  <2>1. CASE At(Poller, "tell", "await") /\ Send(Poller, Driver, WordLen, WordLen) /\ Plain
    BY <2>1, SendServed DEF Plain, clients, locals
  <2> QED
    BY <1>3, <2>1, PollerReceivesServed, PollerRepliesServed, PollerAwaitsServed
    DEF PollerStep
<1>4. CASE DriverStart
  BY <1>4, ReceiveServed, StartServed, ConfigServed, ReadyServed DEF DriverStart
<1>5. CASE ReceiveRequest
  BY <1>5, ReceiveServed DEF ReceiveRequest
<1>6. CASE Handle
  <2>1. CASE CharacterReceived
    BY <2>1, TakesServed DEF CharacterReceived
  <2>2. CASE GetCharWaits
    <3>1. letter[Sender].type = "GET_CHAR"
      BY <2>2 DEF GetCharWaits, Takes, Kind
    <3>2. Sender # NoTask
      <4>1. outcome[Driver] # Nothing /\ pc[Driver] = "handle"
        BY <2>2 DEF GetCharWaits, Takes, Returns, At
      <4> QED
        BY <4>1 DEF ServedInv, HandOK, Sender
    <3> QED
      BY <2>2, <3>1, <3>2, TakesServed DEF GetCharWaits
  <2>3. CASE GetCharAnswers \/ GetCharNonBlocking
    <3>1. letter[Sender].type # "CHARACTER_RECEIVED"
      BY <2>3 DEF GetCharAnswers, GetCharNonBlocking, Takes, Kind
    <3> QED
      BY <2>3, <3>1, TakesServed DEF GetCharAnswers, GetCharNonBlocking
  <2>4. CASE SendMessage
    BY <2>4, TakesServed DEF SendMessage
  <2>5. CASE Dropped
    <3>1. letter[Sender].type \in MessageTypes
      <4>1. outcome[Driver] # Nothing /\ pc[Driver] = "handle"
        BY <2>5 DEF Dropped, Takes, Returns, At
      <4> QED
        BY <4>1 DEF ServedInv, HandOK, LettersOK, Sender
    <3>2. \/ Kind(letter[Sender]) = "EMPTY"
          \/ Kind(letter[Sender]) = "SEND_MESSAGE" /\ letter[Sender].size < 7
      BY <2>5 DEF Dropped, Takes
    <3>3. Unanswered(letter[Sender])
      BY <3>1, <3>2 DEF Kind, Unanswered, MessageTypes
    <3> QED
      BY <2>5, <3>3, TakesServed DEF Dropped
  <2>6. CASE Echo
    BY <2>6, TakesServed DEF Echo
  <2>7. CASE Quit
    <3>1. Unanswered(letter[Sender])
      BY <2>7 DEF Quit, Takes, Kind, Unanswered
    <3> QED
      BY <2>7, <3>1, TakesServed DEF Quit
  <2> QED
    BY <1>6, <2>1, <2>2, <2>3, <2>4, <2>5, <2>6, <2>7 DEF Handle
<1>7. CASE Acknowledge \/ Serve \/ Replies
  BY <1>7, GivesServed DEF Acknowledge, Serve, Replies
<1>8. CASE Arrive
  <2>1. Shapes'
    BY <1>8 DEF Arrive, calls, clients, ServedInv, Shapes
  <2> QED
    BY <1>8, <2>1, QuietServed DEF Arrive, calls, clients, locals
<1>9. ASSUME NEW t \in Slots, Resume(t) PROVE ServedInv'
  <2>1. /\ UNCHANGED <<phase, gen, mail, line, pc, letter, answer, got, other, blocked>>
        /\ phase[t] = "ready" /\ outcome' = [outcome EXCEPT ![t] = Nothing]
        /\ pc[t] # "handle"
    BY <1>9 DEF Resume, Looks, Ignores, Returns, Collect, Plain, clients, locals
  <2>2. Shapes'
    BY <2>1 DEF ServedInv, Shapes
  <2>3. \/ outcome'[Driver] = outcome[Driver]
        \/ phase[Driver] = "ready" /\ pc[Driver] # "handle"
    BY <2>1 DEF ServedInv, Shapes
  <2> QED
    BY <2>1, <2>2, <2>3, QuietServed
<1>10. ASSUME NEW c \in Clients, Ask(c) PROVE ServedInv'
  <2>1. PICK m \in Letters[c] :
          /\ letter' = [letter EXCEPT ![c] = m]
          /\ Send(c, Driver, m.size, IF m.type = "SEND_MESSAGE" THEN HalfLen ELSE WordLen)
    BY <1>10 DEF Ask
  <2>2. m.type \in MessageTypes
    BY SerialAssumption
  <2> QED
    BY <1>10, <2>1, <2>2, SendServed DEF Ask, locals
<1>11. CASE UNCHANGED serialVars
  <2>1. Shapes'
    BY <1>11 DEF serialVars, calls, clients, ServedInv, Shapes
  <2> QED
    BY <1>11, <2>1, QuietServed DEF serialVars, calls, clients, locals
<1> QED
  BY <1>1, <1>2, <1>3, <1>4, <1>5, <1>6, <1>7, <1>8, <1>9, <1>10, <1>11,
     InterruptServed, LookServed, AnsweredServed, ExitServed
  DEF SerialNext, DriverStep

\* Once the driver is set up it forgets none of the tasks that wait for its
\* answer, whoever sends what in which order.
THEOREM NobodyIsForgotten == SerialSpec => []NobodyForgotten
<1>1. ServedInv => NobodyForgotten
  BY DEF ServedInv
<1> QED
  BY <1>1, ServedAtFirst, ServedStep, PTL DEF SerialSpec

-----------------------------------------------------------------------------
(* The characters.                                                         *)

LEMMA NoneYet == SerialInit => CharInv
<1> SUFFICES ASSUME SerialInit PROVE CharInv
  OBVIOUS
<1> USE TheSlots
<1>1. /\ \A t \in Slots : answer[t] = None
      /\ \A c \in Clients : got[c] = <<>>
      /\ ch = None /\ fifo = <<>> /\ overrun = {} /\ arrived = 0
      /\ pc[Driver] = "init"
  BY DEF SerialInit
<1>2. AnswersOK
  BY <1>1 DEF AnswersOK
<1>3. GotOK
  <2>1. \A c \in Clients : got[c] \in Seq(Chars) /\ DOMAIN got[c] = {}
    <3> TAKE c \in Clients
    <3>1. got[c] = <<>>
      BY <1>1
    <3> QED
      BY <3>1
  <2> QED
    BY <2>1 DEF GotOK
<1>4. \A x \in Chars : ~Old(x)
  BY <1>1 DEF Old, Chars, None
<1>5. OrderOK
  BY <1>1, <1>4, SerialAssumption DEF OrderOK, None
<1>6. AllThere
  BY <1>1 DEF AllThere
<1> QED
  BY <1>2, <1>3, <1>5, <1>6 DEF CharInv

\* What a client that has its answer does not notice.
Undisturbed ==
  \A t \in Clients : pc[t] = "answered" /\ phase[t] = "ready" =>
                       pc'[t] = pc[t] /\ phase'[t] = phase[t]

\* A step that moves no character.
LEMMA QuietChars ==
  ASSUME CharInv, Undisturbed, \A t \in Slots : answer'[t] = answer[t],
         UNCHANGED <<got, ch, fifo, overrun, arrived>>,
         \/ UNCHANGED <<pc[Driver], blocked>>
         \/ ch = None /\ pc'[Driver] # "serve"
  PROVE  CharInv'
<1> USE TheSlots
<1>1. AnswersOK'
  BY DEF CharInv, AnswersOK, Undisturbed
<1>2. GotOK'
  BY DEF CharInv, GotOK
<1>3. \A x : Old(x)' <=> Old(x)
  BY DEF Old
<1>4. OrderOK'
  BY <1>3 DEF CharInv, OrderOK
<1>5. AllThere'
  BY <1>3 DEF CharInv, AllThere
<1> QED
  BY <1>1, <1>2, <1>4, <1>5 DEF CharInv

\* A character comes: the last one, in the FIFO or lost.
LEMMA ArriveChars ==
  ASSUME CharInv, Arrive
  PROVE  CharInv'
<1> DEFINE n == arrived + 1
<1>1. /\ arrived < MaxChars /\ arrived' = n /\ n \in Chars /\ arrived \in Nat
      /\ UNCHANGED <<phase, pc, answer, got, ch, blocked>>
  BY SerialAssumption DEF Arrive, calls, clients, locals, Chars, CharInv, OrderOK
<1>2. AnswersOK'
  BY <1>1 DEF CharInv, AnswersOK
<1>3. GotOK'
  BY <1>1 DEF CharInv, GotOK
<1>4. \A x : Old(x)' <=> Old(x)
  BY <1>1 DEF Old
<1>5. /\ ~Old(n) /\ ch \in 0 .. arrived /\ fifo \in Seq(1 .. arrived)
      /\ \A i \in DOMAIN fifo : fifo[i] \in 1 .. arrived
      /\ \A x \in Chars : Old(x) => x <= arrived
  BY <1>1 DEF CharInv, OrderOK
<1>6. CASE fifo' = Append(fifo, n) /\ overrun' = overrun
  <2>1. /\ fifo' \in Seq(1 .. n) /\ Len(fifo) \in Nat
        /\ DOMAIN fifo = 1 .. Len(fifo) /\ DOMAIN fifo' = 1 .. (Len(fifo) + 1)
        /\ fifo'[Len(fifo) + 1] = n
        /\ \A i \in DOMAIN fifo : fifo'[i] = fifo[i] /\ i \in DOMAIN fifo'
    BY <1>1, <1>5, <1>6
  <2>2. \A i \in DOMAIN fifo' : i = Len(fifo) + 1 \/ i \in DOMAIN fifo
    BY <2>1
  <2> HIDE DEF n
  <2>3. \A i, j \in DOMAIN fifo' : i < j => fifo'[i] < fifo'[j]
    <3> SUFFICES ASSUME NEW i \in DOMAIN fifo', NEW j \in DOMAIN fifo', i < j
                 PROVE  fifo'[i] < fifo'[j]
      OBVIOUS
    <3>1. i \in DOMAIN fifo
      BY <2>1
    <3>2. CASE j \in DOMAIN fifo
      BY <2>1, <3>1, <3>2 DEF CharInv, OrderOK
    <3>3. CASE j = Len(fifo) + 1
      BY <1>1, <1>5, <2>1, <3>1, <3>3 DEF n
    <3> QED
      BY <2>2, <3>2, <3>3
  <2>4. ch # None => \A i \in DOMAIN fifo' : ch < fifo'[i]
    BY <1>1, <1>5, <2>1, <2>2 DEF CharInv, OrderOK, n
  <2>5. \A x \in Chars : Old(x) => \A i \in DOMAIN fifo' : x < fifo'[i]
    <3> SUFFICES ASSUME NEW x \in Chars, Old(x), NEW i \in DOMAIN fifo' PROVE x < fifo'[i]
      OBVIOUS
    <3>1. x <= arrived /\ x \in Nat
      BY <1>5 DEF Chars
    <3> QED
      BY <1>1, <2>1, <2>2, <3>1 DEF CharInv, OrderOK, n
  <2>6. OrderOK'
    <3>1. arrived' \in Nat /\ arrived' <= MaxChars /\ ch' \in 0 .. arrived'
      BY <1>1, <1>5, SerialAssumption DEF n
    <3>2. \A t \in Slots : answer'[t] \in 0 .. arrived'
      BY <1>1 DEF CharInv, OrderOK, n
    <3>3. \A x \in Chars : Old(x) => x <= arrived' /\ (ch # None => x < ch)
      BY <1>1, <1>5 DEF CharInv, OrderOK, n, Chars
    <3>4. (ch # None => pc[Driver] \in {"reply", "serve"})
          /\ (pc[Driver] = "serve" => blocked # NoTask)
      BY DEF CharInv, OrderOK
    <3>5. fifo' \in Seq(1 .. arrived')
      BY <1>1, <2>1
    <3> QED
      BY <1>1, <1>4, <2>3, <2>4, <2>5, <3>1, <3>2, <3>3, <3>4, <3>5 DEF OrderOK
  <2>7. AllThere'
    <3>1. \A x \in 1 .. arrived' : x = n \/ x \in 1 .. arrived
      BY <1>1 DEF n
    <3>2. overrun' \subseteq 1 .. arrived'
      BY <1>1, <1>6 DEF CharInv, AllThere, n
    <3>3. \A x \in overrun : ~Old(x) /\ x # ch /\ \A i \in DOMAIN fifo' : x # fifo'[i]
      <4> TAKE x \in overrun
      <4>1. x \in 1 .. arrived
        BY DEF CharInv, AllThere
      <4>2. x # n
        BY <1>1, <4>1 DEF n
      <4> QED
        BY <2>1, <2>2, <4>2 DEF CharInv, AllThere
    <3>4. \A x \in 1 .. arrived' :
            x \in overrun \/ Old(x) \/ x = ch \/ \E i \in DOMAIN fifo' : x = fifo'[i]
      <4> TAKE x \in 1 .. arrived'
      <4>1. CASE x = n
        <5>1. Len(fifo) + 1 \in DOMAIN fifo' /\ x = fifo'[Len(fifo) + 1]
          BY <2>1, <4>1
        <5> QED
          BY <5>1
      <4>2. CASE x \in 1 .. arrived
        BY <2>1, <4>2 DEF CharInv, AllThere
      <4> QED
        BY <3>1, <4>1, <4>2
    <3> QED
      BY <1>1, <1>4, <1>6, <3>2, <3>3, <3>4 DEF AllThere
  <2> QED
    BY <1>2, <1>3, <2>6, <2>7 DEF CharInv
<1>7. CASE fifo' = fifo /\ overrun' = overrun \cup {n}
  <2>1. OrderOK'
    <3>1. arrived' \in Nat /\ arrived' <= MaxChars /\ ch' \in 0 .. arrived'
      BY <1>1, <1>5, SerialAssumption
    <3>2. fifo' \in Seq(1 .. arrived')
      BY <1>1, <1>5, <1>7
    <3>3. \A t \in Slots : answer'[t] \in 0 .. arrived'
      BY <1>1 DEF CharInv, OrderOK
    <3>4. \A x \in Chars : Old(x) => x <= arrived'
      BY <1>1, <1>5 DEF Chars
    <3> QED
      BY <1>1, <1>4, <1>7, <3>1, <3>2, <3>3, <3>4 DEF CharInv, OrderOK
  <2>2. \A x \in 1 .. arrived' : x = n \/ x \in 1 .. arrived
    BY <1>1
  <2>3. n \notin 1 .. arrived /\ n # ch /\ \A i \in DOMAIN fifo : n # fifo[i]
    BY <1>1, <1>5
  <2>4. overrun' \subseteq 1 .. arrived'
    BY <1>1, <1>7 DEF CharInv, AllThere
  <2> HIDE DEF n
  <2>5. AllThere'
    BY <1>1, <1>4, <1>5, <1>7, <2>2, <2>3, <2>4 DEF CharInv, AllThere
  <2> QED
    BY <1>2, <1>3, <2>1, <2>5 DEF CharInv
<1> QED
  BY <1>1, <1>6, <1>7 DEF Arrive

\* The driver reads a character, the oldest there is.
LEMMA ReadChars ==
  ASSUME CharInv, ch = None, Undisturbed, GetChar(ch'), UNCHANGED <<answer, got>>,
         ch' # None => pc'[Driver] \in {"reply", "serve"},
         pc'[Driver] = "serve" => blocked' # NoTask
  PROVE  CharInv'
<1>1. /\ UNCHANGED <<overrun, arrived>> /\ arrived \in Nat
      /\ fifo \in Seq(1 .. arrived)
      /\ \A i, j \in DOMAIN fifo : i < j => fifo[i] < fifo[j]
  BY DEF GetChar, CharInv, OrderOK
<1>2. AnswersOK'
  BY DEF CharInv, AnswersOK, Undisturbed
<1>3. GotOK'
  BY DEF CharInv, GotOK
<1>4. \A x : Old(x)' <=> Old(x)
  BY DEF Old
<1>5. CASE fifo = <<>> /\ ch' = None /\ fifo' = fifo
  <2>1. OrderOK'
    BY <1>1, <1>4, <1>5 DEF CharInv, OrderOK
  <2>2. AllThere'
    BY <1>1, <1>4, <1>5 DEF CharInv, AllThere
  <2> QED
    BY <1>2, <1>3, <2>1, <2>2 DEF CharInv
<1>6. CASE fifo # <<>> /\ ch' = Head(fifo) /\ fifo' = Tail(fifo)
  <2>1. /\ Len(fifo) \in Nat /\ 1 \in DOMAIN fifo /\ ch' = fifo[1] /\ ch' \in 1 .. arrived
        /\ DOMAIN fifo = 1 .. Len(fifo) /\ DOMAIN fifo' = 1 .. (Len(fifo) - 1)
        /\ fifo' \in Seq(1 .. arrived)
        /\ \A i \in DOMAIN fifo' : fifo'[i] = fifo[i + 1] /\ i + 1 \in DOMAIN fifo
    BY <1>1, <1>6
  <2>2. \A i \in DOMAIN fifo : i = 1 \/ (i - 1 \in DOMAIN fifo' /\ fifo'[i - 1] = fifo[i])
    BY <2>1
  <2>3. \A i \in DOMAIN fifo' : ch' < fifo'[i]
    <3> TAKE i \in DOMAIN fifo'
    <3>1. 1 < i + 1 /\ i + 1 \in DOMAIN fifo
      BY <2>1
    <3> QED
      BY <1>1, <2>1, <3>1
  <2>4. \A i, j \in DOMAIN fifo' : i < j => fifo'[i] < fifo'[j]
    <3> TAKE i, j \in DOMAIN fifo'
    <3>1. i < j => i + 1 < j + 1
      BY <2>1
    <3> QED
      BY <1>1, <2>1, <3>1
  <2>5. \A x \in Chars : Old(x) => x <= arrived /\ x < ch' /\ \A i \in DOMAIN fifo' : x < fifo'[i]
    BY <2>1 DEF CharInv, OrderOK
  <2>6. OrderOK'
    <3>1. ch' \in 0 .. arrived
      BY <1>1, <2>1
    <3>2. \A t \in Slots : answer[t] \in 0 .. arrived
      BY DEF CharInv, OrderOK
    <3>3. arrived <= MaxChars
      BY DEF CharInv, OrderOK
    <3> QED
      BY <1>1, <1>4, <2>1, <2>3, <2>4, <2>5, <3>1, <3>2, <3>3 DEF OrderOK
  <2>7. AllThere'
    <3>1. \A x \in overrun : ~Old(x) /\ x # ch' /\ \A i \in DOMAIN fifo' : x # fifo'[i]
      BY <2>1 DEF CharInv, AllThere
    <3>2. \A x \in 1 .. arrived :
            x \in overrun \/ Old(x) \/ x = ch' \/ \E i \in DOMAIN fifo' : x = fifo'[i]
      <4> TAKE x \in 1 .. arrived
      <4>1. x # ch
        BY <1>1 DEF None
      <4>2. ASSUME NEW i \in DOMAIN fifo, x = fifo[i]
            PROVE  x = ch' \/ \E k \in DOMAIN fifo' : x = fifo'[k]
        BY <2>1, <2>2, <4>2
      <4> QED
        BY <4>1, <4>2 DEF CharInv, AllThere
    <3> QED
      BY <1>1, <1>4, <3>1, <3>2 DEF CharInv, AllThere
  <2> QED
    BY <1>2, <1>3, <2>6, <2>7 DEF CharInv
<1> QED
  BY <1>5, <1>6 DEF GetChar

\* The driver hands the character that it has to the task that it answers.
LEMMA GiveChars ==
  ASSUME ServedInv, CharInv, NEW t \in Clients, ch # None, ch' = None,
         pc[t] = "answered", phase[t] = "awaitingReply", pc'[t] = pc[t], phase'[t] = "ready",
         answer' = [answer EXCEPT ![t] = ch], Undisturbed, pc'[Driver] = "receive",
         UNCHANGED <<got, fifo, overrun, arrived>>
  PROVE  CharInv'
<1> USE TheSlots
<1>1. /\ answer[t] = None /\ answer'[t] = ch /\ t \in Slots
      /\ \A u \in Slots \ {t} : answer'[u] = answer[u]
  BY DEF CharInv, AnswersOK, ServedInv, Shapes, Users
<1>2. ch \in 1 .. arrived /\ arrived \in Nat /\ arrived <= MaxChars /\ ch \in Chars
  BY SerialAssumption DEF CharInv, OrderOK, None, Chars
<1>3. ~Old(ch)
  BY <1>2 DEF CharInv, OrderOK
<1>4. \A x \in Chars : Old(x)' <=> Old(x) \/ x = ch
  <2> TAKE x \in Chars
  <2>1. ASSUME NEW u \in Slots, answer'[u] = x PROVE Old(x) \/ x = ch
    BY <1>1, <2>1 DEF Old
  <2>2. ASSUME NEW u \in Slots, answer[u] = x PROVE Old(x)'
    <3>1. u # t
      BY <1>1, <2>2 DEF None, Chars
    <3> QED
      BY <1>1, <2>2, <3>1 DEF Old
  <2>3. x = ch => Old(x)'
    BY <1>1 DEF Old
  <2> QED
    BY <2>1, <2>2, <2>3 DEF Old
<1>5. AnswersOK'
  <2>1. \A u \in Slots : answer[u] # ch
    BY <1>3 DEF Old
  <2> QED
    BY <1>1, <1>2, <2>1 DEF CharInv, AnswersOK, Undisturbed
<1>6. GotOK'
  <2>1. \A c \in Clients : \A i \in DOMAIN got[c] :
          got[c][i] \in Chars /\ got[c][i] # ch /\ got[c][i] < ch
    <3> TAKE c \in Clients
    <3> TAKE i \in DOMAIN got[c]
    <3>1. got[c][i] \in Chars
      BY DEF CharInv, GotOK
    <3>2. Old(got[c][i])
      BY DEF Old
    <3> QED
      BY <1>3, <3>1, <3>2 DEF CharInv, OrderOK
  <2>2. \A c \in Clients, u \in Slots : \A i \in DOMAIN got[c] : got[c][i] # answer'[u]
    BY <1>1, <2>1 DEF CharInv, GotOK
  <2>3. \A c \in Clients : \A i \in DOMAIN got[c] :
          answer'[c] # None => got[c][i] < answer'[c]
    BY <1>1, <2>1 DEF CharInv, GotOK, Users
  <2> QED
    BY <2>2, <2>3 DEF CharInv, GotOK
<1>7. \A x \in Chars : Old(x) \/ x = ch =>
        x <= arrived /\ \A i \in DOMAIN fifo : x < fifo[i]
  BY <1>2 DEF CharInv, OrderOK
<1>8. OrderOK'
  <2>1. \A u \in Slots : answer'[u] \in 0 .. arrived
    BY <1>1, <1>2 DEF CharInv, OrderOK
  <2>2. /\ fifo \in Seq(1 .. arrived)
        /\ \A i, j \in DOMAIN fifo : i < j => fifo[i] < fifo[j]
    BY DEF CharInv, OrderOK
  <2>3. ch' \in 0 .. arrived
    BY <1>2 DEF None
  <2> QED
    BY <1>2, <1>4, <1>7, <2>1, <2>2, <2>3 DEF OrderOK
<1>9. AllThere'
  <2>1. \A x \in 1 .. arrived : x \in Chars /\ x # ch'
    BY <1>2, SerialAssumption DEF Chars, None
  <2> QED
    BY <1>4, <2>1 DEF CharInv, AllThere
<1> QED
  BY <1>5, <1>6, <1>8, <1>9 DEF CharInv

\* A client takes its answer.
LEMMA AnsweredChars ==
  ASSUME ServedInv, CharInv, NEW c \in Clients, Answered(c)
  PROVE  CharInv'
<1> USE TheSlots
<1> DEFINE v == answer[c]
<1>1. /\ answer' = [answer EXCEPT ![c] = None] /\ DOMAIN answer = Slots /\ c \in Slots
      /\ answer'[c] = None /\ \A u \in Slots \ {c} : answer'[u] = answer[u]
      /\ UNCHANGED <<phase, ch, blocked, fifo, overrun, arrived>> /\ pc'[Driver] = pc[Driver]
      /\ \A u \in Slots \ {c} : pc'[u] = pc[u]
  BY DEF Answered, At, Returns, Collect, locals, uart, ServedInv, Shapes, Users
<1>2. AnswersOK'
  BY <1>1 DEF CharInv, AnswersOK
<1>3. CASE v = None
  <2>1. got' = got /\ \A u \in Slots : answer'[u] = answer[u]
    BY <1>1, <1>3 DEF Answered
  <2>2. GotOK'
    BY <1>1, <2>1 DEF CharInv, GotOK, Users
  <2>3. \A x : Old(x)' <=> Old(x)
    BY <2>1 DEF Old
  <2>4. OrderOK'
    BY <1>1, <2>1, <2>3 DEF CharInv, OrderOK
  <2>5. AllThere'
    BY <1>1, <2>3 DEF CharInv, AllThere
  <2> QED
    BY <1>2, <2>2, <2>4, <2>5 DEF CharInv
<1>4. CASE v # None
  <2>1. v \in 1 .. arrived /\ v \in Chars /\ arrived \in Nat
    BY <1>1, <1>4, SerialAssumption DEF CharInv, OrderOK, None, Chars
  <2>2. /\ got'[c] = Append(got[c], v) /\ \A d \in Clients \ {c} : got'[d] = got[d]
        /\ got[c] \in Seq(Chars)
    BY <1>4 DEF Answered, ServedInv, Shapes, CharInv, GotOK
  <2> HIDE DEF v
  <2>3. /\ Len(got[c]) \in Nat /\ DOMAIN got[c] = 1 .. Len(got[c])
        /\ DOMAIN got'[c] = 1 .. (Len(got[c]) + 1)
        /\ got'[c][Len(got[c]) + 1] = v /\ got'[c] \in Seq(Chars)
        /\ \A i \in DOMAIN got[c] : got'[c][i] = got[c][i] /\ i \in DOMAIN got'[c]
    BY <2>1, <2>2
  <2>4. \A i \in DOMAIN got'[c] : i = Len(got[c]) + 1 \/ i \in DOMAIN got[c]
    BY <2>3
  <2>5. \A x \in Chars : Old(x)' <=> Old(x)
    <3> TAKE x \in Chars
    <3>1. Old(x) => Old(x)'
      <4>1. x = v => Old(x)'
        <5>1. Len(got[c]) + 1 \in DOMAIN got'[c]
          BY <2>3
        <5> QED
          BY <2>3, <5>1 DEF Old
      <4>2. ASSUME NEW t \in Slots, answer[t] = x, x # v PROVE Old(x)'
        BY <1>1, <4>2 DEF Old, v
      <4>3. ASSUME NEW d \in Clients, NEW i \in DOMAIN got[d], got[d][i] = x PROVE Old(x)'
        BY <2>2, <2>3, <4>3 DEF Old
      <4> QED
        BY <4>1, <4>2, <4>3 DEF Old
    <3>2. Old(x)' => Old(x)
      <4>1. ASSUME NEW t \in Slots, answer'[t] = x PROVE Old(x)
        BY <1>1, <4>1 DEF Old, None, Chars
      <4>2. ASSUME NEW d \in Clients, NEW i \in DOMAIN got'[d], got'[d][i] = x PROVE Old(x)
        BY <1>1, <2>2, <2>3, <2>4, <4>2 DEF Old, v
      <4> QED
        BY <4>1, <4>2 DEF Old
    <3> QED
      BY <3>1, <3>2
  <2>6. \A i \in DOMAIN got[c] : got[c][i] < v
    BY <1>4 DEF CharInv, GotOK, v
  <2>7. \A d \in Clients : \A i \in DOMAIN got[d] : got[d][i] # v
    BY <1>1 DEF CharInv, GotOK, v
  <2>8. \A u \in Slots \ {c} : answer[u] # v
    BY <1>1, <1>4 DEF CharInv, AnswersOK, v
  <2>9. GotOK'
    <3>1. \A d \in Clients : got'[d] \in Seq(Chars)
      BY <2>2, <2>3 DEF CharInv, GotOK
    <3>2. \A d \in Clients : \A i, j \in DOMAIN got'[d] : i < j => got'[d][i] < got'[d][j]
      <4> TAKE d \in Clients
      <4>1. CASE d # c
        BY <2>2, <4>1 DEF CharInv, GotOK
      <4>2. CASE d = c
        <5> SUFFICES ASSUME NEW i \in DOMAIN got'[c], NEW j \in DOMAIN got'[c], i < j
                     PROVE  got'[c][i] < got'[c][j]
          BY <4>2
        <5>1. i \in DOMAIN got[c]
          BY <2>3
        <5>2. CASE j \in DOMAIN got[c]
          BY <2>3, <5>1, <5>2 DEF CharInv, GotOK
        <5>3. CASE j = Len(got[c]) + 1
          BY <2>3, <2>6, <5>1, <5>3
        <5> QED
          BY <2>4, <5>2, <5>3
      <4> QED
        BY <4>1, <4>2
    <3>3. \A d \in Clients : \A i \in DOMAIN got'[d] :
            answer'[d] # None => got'[d][i] < answer'[d]
      BY <1>1, <2>2 DEF CharInv, GotOK, Users
    <3>4. \A d \in Clients, t \in Slots : \A i \in DOMAIN got'[d] : got'[d][i] # answer'[t]
      <4> TAKE d \in Clients, t \in Slots
      <4> TAKE i \in DOMAIN got'[d]
      <4>1. got'[d][i] \in Chars
        BY <3>1
      <4>2. CASE t = c
        BY <1>1, <4>1, <4>2 DEF None, Chars
      <4>3. CASE t # c
        <5>1. answer'[t] = answer[t] /\ answer[t] # v
          BY <1>1, <2>8, <4>3
        <5>2. CASE d # c \/ i \in DOMAIN got[c]
          <6>1. i \in DOMAIN got[d] /\ got'[d][i] = got[d][i]
            BY <2>2, <2>3, <5>2
          <6> QED
            BY <5>1, <6>1 DEF CharInv, GotOK
        <5>3. CASE d = c /\ i = Len(got[c]) + 1
          BY <2>3, <5>1, <5>3
        <5> QED
          BY <2>4, <5>2, <5>3
      <4> QED
        BY <4>2, <4>3
    <3>5. \A d, e \in Clients : \A i \in DOMAIN got'[d], j \in DOMAIN got'[e] :
            got'[d][i] = got'[e][j] => d = e
      <4> SUFFICES ASSUME NEW d \in Clients, NEW e \in Clients, d # e,
                          NEW i \in DOMAIN got'[d], NEW j \in DOMAIN got'[e]
                   PROVE  got'[d][i] # got'[e][j]
        OBVIOUS
      <4>1. \/ i \in DOMAIN got[d] /\ got'[d][i] = got[d][i]
            \/ d = c /\ got'[d][i] = v
        BY <2>2, <2>3, <2>4
      <4>2. \/ j \in DOMAIN got[e] /\ got'[e][j] = got[e][j]
            \/ e = c /\ got'[e][j] = v
        BY <2>2, <2>3, <2>4
      <4> QED
        BY <2>7, <4>1, <4>2 DEF CharInv, GotOK
    <3> QED
      BY <3>1, <3>2, <3>3, <3>4, <3>5 DEF GotOK
  <2>10. OrderOK'
    <3>1. \A t \in Slots : answer'[t] \in 0 .. arrived
      BY <1>1, <2>1 DEF CharInv, OrderOK, None
    <3> QED
      BY <1>1, <2>5, <3>1 DEF CharInv, OrderOK
  <2>11. AllThere'
    <3>1. 1 .. arrived \subseteq Chars
      BY SerialAssumption DEF CharInv, OrderOK, Chars
    <3> QED
      BY <1>1, <2>5, <3>1 DEF CharInv, AllThere
  <2> QED
    BY <1>2, <2>9, <2>10, <2>11 DEF CharInv
<1> QED
  BY <1>3, <1>4

\* No call of another task reaches a client that has its answer.
LEMMA StartLeaves ==
  ASSUME ServedInv, NEW t \in Slots, NEW n \in Slots, NEW l, NEW m,
         At(t, l, m), l # "answered", Start(t, n), mail[n] = <<>>
  PROVE  Undisturbed
<1> USE TheSlots
<1>1. /\ pc[t] = l /\ \A u \in Slots \ {t} : pc'[u] = pc[u]
      /\ phase[n] = "absent"
      /\ \A u \in Slots \ {n} : phase'[u] = phase[u]
  <2>1. \A i \in Slots : ~(\E k \in DOMAIN mail[n] : mail[n][k] = i)
    OBVIOUS
  <2>2. phase' = [i \in Slots |-> IF i = n THEN "ready" ELSE phase[i]]
    BY <2>1 DEF Start
  <2> QED
    BY <2>2 DEF At, Start, ServedInv, Shapes
<1> QED
  BY <1>1 DEF Undisturbed, Users

LEMMA SendLeaves ==
  ASSUME ServedInv, NEW t \in Slots, NEW r \in Slots, NEW l, NEW m, NEW len, NEW rlen,
         At(t, l, m), l # "answered", Send(t, r, len, rlen)
  PROVE  Undisturbed
<1> USE TheSlots
<1>1. /\ pc[t] = l /\ \A u \in Slots \ {t} : pc'[u] = pc[u]
      /\ \A u \in Slots \ {t} : phase[u] = "ready" => phase'[u] = phase[u]
  BY DEF At, Send, ServedInv, Shapes
<1> QED
  BY <1>1 DEF Undisturbed, Users

LEMMA ReceiveLeaves ==
  ASSUME ServedInv, NEW t \in {Driver, Poller}, NEW l, NEW m, NEW cap,
         At(t, l, m), Receive(t, cap)
  PROVE  Undisturbed
<1> USE TheSlots, SerialAssumption
<1>1. /\ t \in Slots \ Clients /\ \A u \in Slots \ {t} : pc'[u] = pc[u]
      /\ \A u \in Slots \ {t} : phase[u] = "ready" => phase'[u] = phase[u]
  <2>1. \A u \in Slots \ {t} : pc'[u] = pc[u]
    BY DEF At, ServedInv, Shapes
  <2>2. mail[t] # <<>> => phase[Head(mail[t])] = "sending"
    <3>1. CASE t = Driver
      <4>1. mail[Driver] # <<>> =>
              1 \in 1 .. Len(mail[Driver]) /\ Head(mail[Driver]) = mail[Driver][1]
        BY DEF ServedInv, MailOK
      <4> QED
        BY <3>1, <4>1 DEF ServedInv, MailOK
    <3>2. CASE t = Poller
      <4>1. mail[Poller] # <<>> => mail[Poller] = <<Driver>> /\ phase[Driver] = "sending"
        BY DEF ServedInv, MailOK
      <4> QED
        BY <3>2, <4>1
    <3> QED
      BY <3>1, <3>2
  <2>3. \A u \in Slots \ {t} : phase[u] = "ready" => phase'[u] = phase[u]
    <3>1. CASE mail[t] # <<>>
      <4>1. phase' = [phase EXCEPT ![Head(mail[t])] = "awaitingReply"]
        BY <3>1 DEF Receive
      <4> QED
        BY <2>2, <3>1, <4>1 DEF ServedInv, Shapes
    <3>2. CASE mail[t] = <<>>
      <4>1. phase' = [phase EXCEPT ![t] = "receiving"]
        BY <3>2 DEF Receive
      <4> QED
        BY <4>1 DEF ServedInv, Shapes
    <3> QED
      BY <3>1, <3>2
  <2> QED
    BY <2>1, <2>3
<1> QED
  BY <1>1 DEF Undisturbed, Users

LEMMA ReplyLeaves ==
  ASSUME ServedInv, NEW t \in {Driver, Poller}, NEW s, NEW l, NEW m, NEW len,
         At(t, l, m), Reply(t, s, len)
  PROVE  Undisturbed
<1> USE TheSlots, SerialAssumption
<1>1. /\ t \in Slots \ Clients /\ \A u \in Slots \ {t} : pc'[u] = pc[u]
      /\ phase[s] = "awaitingReply" /\ \A u \in Slots \ {s} : phase'[u] = phase[u]
  BY DEF At, Reply, ServedInv, Shapes
<1> QED
  BY <1>1 DEF Undisturbed, Users

\* What the driver does with a request that it takes, but for the character.
LEMMA TakesLeaves ==
  ASSUME ServedInv, CharInv, NEW kinds, NEW l, Takes(kinds, l)
  PROVE  Undisturbed /\ ch = None /\ pc'[Driver] = l /\ UNCHANGED <<answer, got>>
<1> USE TheSlots
<1>1. /\ pc[Driver] = "handle" /\ pc'[Driver] = l /\ phase' = phase
      /\ \A u \in Slots \ {Driver} : pc'[u] = pc[u] /\ UNCHANGED <<answer, got>>
  BY DEF Takes, At, Returns, Collect, clients, ServedInv, Shapes
<1>2. ch = None
  BY <1>1 DEF CharInv, OrderOK
<1>3. UNCHANGED <<answer, got>>
  BY DEF Takes, clients
<1> QED
  BY <1>1, <1>2, <1>3 DEF Undisturbed, Users

\* The driver answers: whoever gets a character is a client that waits for it.
LEMMA GivesChars ==
  ASSUME ServedInv, CharInv, NEW t, NEW c, NEW len, NEW l, NEW m,
         At(Driver, l, m), Gives(t, c, len), m \in {"look", "receive"},
         \/ t = other /\ l \in {"acknowledge", "replyCount", "echo"} /\ c = None /\ ch' = ch
         \/ t = other /\ l = "reply" /\ m = "receive" /\ c = ch /\ ch' = None
         \/ t = blocked /\ l = "serve" /\ m = "receive" /\ c = ch /\ ch' = None
  PROVE  CharInv'
<1> USE TheSlots
<1>1. /\ pc[Driver] = l /\ pc'[Driver] = m /\ phase[t] = "awaitingReply"
      /\ \A u \in Slots \ {Driver} : pc'[u] = pc[u]
      /\ phase' = [phase EXCEPT ![t] = "ready"] /\ answer' = [answer EXCEPT ![t] = c]
      /\ UNCHANGED <<got, fifo, overrun, arrived>> /\ DOMAIN phase = Slots
      /\ DOMAIN answer = Slots
  BY DEF At, Gives, Reply, uart, ServedInv, Shapes
<1>2. Undisturbed
  BY ReplyLeaves DEF Gives
<1>3. t \in Slots => answer[t] = None
  BY <1>1 DEF CharInv, AnswersOK
<1>4. CASE c = None
  <2>1. \A u \in Slots : answer'[u] = answer[u]
    BY <1>1, <1>3, <1>4
  <2>2. ch = None /\ ch' = None
    BY <1>1, <1>4 DEF CharInv, OrderOK
  <2> QED
    BY <1>1, <1>2, <2>1, <2>2, QuietChars
<1>5. CASE c # None
  <2>1. c = ch /\ ch' = None /\ l \in {"reply", "serve"} /\ m = "receive"
    BY <1>5
  <2>2. t \in Users /\ letter[t] # Poll
    <3>1. CASE l = "reply"
      BY <1>1, <3>1 DEF ServedInv, HandOK, Poll
    <3>2. CASE l = "serve"
      <4>1. blocked # NoTask /\ t = blocked
        BY <1>1, <3>2 DEF CharInv, OrderOK
      <4> QED
        BY <4>1 DEF ServedInv, HandOK, NobodyForgotten, Poll
    <3> QED
      BY <2>1, <3>1, <3>2
  <2>3. t \in Clients /\ pc[t] = "answered" /\ t \in Slots /\ t # Driver
    BY <2>2 DEF ServedInv, LettersOK
  <2> QED
    BY <1>1, <1>2, <1>5, <2>1, <2>3, GiveChars
<1> QED
  BY <1>4, <1>5

LEMMA CharStep == ServedInv /\ CharInv /\ [SerialNext]_serialVars => CharInv'
<1> SUFFICES ASSUME ServedInv, CharInv, [SerialNext]_serialVars PROVE CharInv'
  OBVIOUS
<1> USE TheSlots
<1>0. ASSUME Plain, Undisturbed,
             pc'[Driver] = pc[Driver] \/ pc[Driver] \notin {"reply", "serve"},
             pc'[Driver] # "serve" \/ pc'[Driver] = pc[Driver]
      PROVE  CharInv'
  <2>1. UNCHANGED <<answer, got, ch, blocked, fifo, overrun, arrived>>
    BY <1>0 DEF Plain, clients, locals, uart
  <2>2. pc[Driver] \notin {"reply", "serve"} => ch = None
    BY DEF CharInv, OrderOK
  <2> QED
    BY <1>0, <2>1, <2>2, QuietChars
<1>1. CASE StartDriver
  <2>1. CASE At(Boot, "create", "send") /\ Start(Boot, Driver) /\ Plain
    <3>1. mail[Driver] = <<>> /\ pc'[Driver] = pc[Driver]
      BY <2>1 DEF At, ServedInv, SetUp, Shapes
    <3> QED
      BY <1>0, <2>1, <3>1, StartLeaves
  <2>2. CASE At(Boot, "send", "clients") /\ Send(Boot, Driver, DataLen, WordLen) /\ Plain
    <3>1. pc'[Driver] = pc[Driver]
      BY <2>2 DEF At, ServedInv, Shapes
    <3> QED
      BY <1>0, <2>2, <3>1, SendLeaves
  <2> QED
    BY <1>1, <2>1, <2>2 DEF StartDriver
<1>2. CASE StartClients
  <2>1. PICK c \in Unborn :
          /\ At(Boot, "clients", IF Unborn = {c} THEN "idle" ELSE "clients")
          /\ Start(Boot, c) /\ Plain
    BY <1>2 DEF StartClients
  <2>2. c \in Slots /\ mail[c] = <<>> /\ pc'[Driver] = pc[Driver]
    BY <2>1 DEF Unborn, Users, At, ServedInv, MailOK, Shapes
  <2> QED
    BY <1>0, <2>1, <2>2, StartLeaves
<1>3. CASE PollerStep
  <2>1. Plain /\ pc'[Driver] = pc[Driver]
    BY <1>3 DEF PollerStep, At, ServedInv, Shapes
  <2>2. Undisturbed
    <3>1. CASE At(Poller, "await", "tell") /\ AwaitEvent(Poller, Uart)
      BY <3>1 DEF At, AwaitEvent, Undisturbed, ServedInv, Shapes, Users
    <3> QED
      BY <1>3, <3>1, ReceiveLeaves, ReplyLeaves, SendLeaves DEF PollerStep
  <2> QED
    BY <1>0, <2>1, <2>2
<1>4. CASE DriverStart \/ ReceiveRequest
  <2>1. Plain /\ pc[Driver] \notin {"reply", "serve"} /\ pc'[Driver] # "serve"
    BY <1>4 DEF DriverStart, ReceiveRequest, At, ServedInv, Shapes
  <2>2. Undisturbed
    <3>1. CASE At(Driver, "poller", "config") /\ Start(Driver, Poller)
      <4>1. mail[Poller] = <<>>
        BY <3>1 DEF At, ServedInv, SetUp
      <4> QED
        BY <3>1, <4>1, StartLeaves
    <3> QED
      BY <1>4, <3>1, ReceiveLeaves, ReplyLeaves, SendLeaves DEF DriverStart, ReceiveRequest
  <2> QED
    BY <1>0, <2>1, <2>2
<1>5. CASE Handle
  <2>1. CASE CharacterReceived \/ SendMessage \/ Dropped \/ Echo \/ Quit
    <3>1. /\ Undisturbed /\ ch = None /\ pc'[Driver] # "serve"
          /\ UNCHANGED <<answer, got, ch, fifo, overrun, arrived>>
      BY <2>1, TakesLeaves DEF CharacterReceived, SendMessage, Dropped, Echo, Quit, uart
    <3> QED
      BY <3>1, QuietChars
  <2>2. CASE GetCharWaits
    <3>1. /\ Undisturbed /\ ch = None /\ pc'[Driver] = "receive"
          /\ UNCHANGED <<answer, got, ch>> /\ GetChar(ch')
      BY <2>2, TakesLeaves DEF GetCharWaits
    <3> QED
      BY <3>1, ReadChars
  <2>3. CASE GetCharAnswers \/ GetCharNonBlocking
    <3>1. /\ Undisturbed /\ ch = None /\ pc'[Driver] = "reply"
          /\ UNCHANGED <<answer, got>> /\ GetChar(ch')
      BY <2>3, TakesLeaves DEF GetCharAnswers, GetCharNonBlocking
    <3> QED
      BY <3>1, ReadChars
  <2> QED
    BY <1>5, <2>1, <2>2, <2>3 DEF Handle
<1>6. CASE Acknowledge \/ Serve \/ Replies
  BY <1>6, GivesChars DEF Acknowledge, Serve, Replies
<1>7. CASE Look
  <2>1. /\ pc[Driver] = "look" /\ phase' = phase /\ \A u \in Slots \ {Driver} : pc'[u] = pc[u]
        /\ UNCHANGED <<answer, got, blocked>>
    BY <1>7 DEF Look, At, Returns, Collect, clients, ServedInv, Shapes
  <2>2. Undisturbed /\ ch = None
    BY <2>1 DEF Undisturbed, CharInv, OrderOK, Users
  <2>3. CASE pc'[Driver] = "receive" /\ UNCHANGED <<ch, uart>>
    BY <2>1, <2>2, <2>3, QuietChars DEF uart
  <2>4. CASE pc'[Driver] = "serve" /\ blocked # NoTask /\ GetChar(ch')
    BY <2>1, <2>2, <2>4, ReadChars
  <2> QED
    BY <1>7, <2>3, <2>4 DEF Look, At, ServedInv, Shapes
<1>8. CASE DriverExits
  <2>1. Plain /\ pc[Driver] = "exit" /\ pc'[Driver] = "gone"
    BY <1>8 DEF DriverExits, At, ServedInv, Shapes
  <2>2. Undisturbed
    BY <1>8 DEF DriverExits, At, Leave, Undisturbed, ServedInv, Shapes, Users
  <2> QED
    BY <1>0, <2>1, <2>2
<1>9. CASE Interrupt
  <2>1. /\ UNCHANGED <<pc, answer, got, ch, blocked, fifo, overrun, arrived>>
    BY <1>9 DEF Interrupt, clients, locals
  <2>2. Undisturbed
    <3>1. CASE line[Uart] = <<>>
      BY <1>9, <3>1 DEF Interrupt, EventHappens, calls, Undisturbed
    <3>2. CASE line[Uart] # <<>>
      <4>1. line[Uart] = <<Poller>>
        BY <3>2 DEF ServedInv, LineOK
      <4>2. Head(line[Uart]) = Poller
        BY <4>1
      <4>3. phase' = [phase EXCEPT ![Poller] = "ready"]
        BY <1>9, <3>2, <4>2 DEF Interrupt, EventHappens
      <4> QED
        BY <2>1, <4>3 DEF Undisturbed, Users, ServedInv, Shapes
    <3> QED
      BY <3>1, <3>2
  <2> QED
    BY <2>1, <2>2, QuietChars
<1>10. ASSUME NEW t \in Slots, Resume(t) PROVE CharInv'
  <2>1. Plain /\ UNCHANGED <<pc, phase>>
    BY <1>10 DEF Resume, Ignores, Returns, Collect
  <2> QED
    BY <1>0, <2>1 DEF Undisturbed
<1>11. ASSUME NEW c \in Clients, Ask(c) PROVE CharInv'
  <2>1. PICK m \in Letters[c] :
          Send(c, Driver, m.size, IF m.type = "SEND_MESSAGE" THEN HalfLen ELSE WordLen)
    BY <1>11 DEF Ask
  <2>2. c \in Slots /\ At(c, "idle", "answered")
    BY <1>11 DEF Ask, Users
  <2>3. Undisturbed
    BY <2>1, <2>2, SendLeaves
  <2>4. UNCHANGED <<pc[Driver], answer, got, ch, blocked, fifo, overrun, arrived>>
    BY <1>11, <2>2 DEF Ask, At, locals, uart, ServedInv, Shapes
  <2> QED
    BY <2>3, <2>4, QuietChars
<1>12. CASE UNCHANGED serialVars
  <2>1. Plain /\ UNCHANGED <<pc, phase>>
    BY <1>12 DEF serialVars, calls, Plain
  <2> QED
    BY <1>0, <2>1 DEF Undisturbed
<1> QED
  BY <1>1, <1>2, <1>3, <1>4, <1>5, <1>6, <1>7, <1>8, <1>9, <1>10, <1>11, <1>12,
     ArriveChars, AnsweredChars
  DEF SerialNext, DriverStep

\* Whoever has a character: two places that have it are one.
LEMMA OneHolder ==
  ASSUME CharInv, NEW x \in 1 .. arrived
  PROVE  Cardinality(Holders(x)) = 1
<1> USE TheSlots
<1>1. x \in Chars /\ x \in Nat /\ x # None
  BY SerialAssumption DEF CharInv, OrderOK, Chars, None
<1>2. ASSUME NEW h
      PROVE  h \in Holders(x) <=>
               \/ \E i \in DOMAIN fifo : fifo[i] = x /\ h = <<"fifo", i, 0>>
               \/ ch = x /\ h = <<"driver", 0, 0>>
               \/ \E t \in Slots : answer[t] = x /\ h = <<"answer", t, 0>>
               \/ \E c \in Clients : \E i \in DOMAIN got[c] :
                    got[c][i] = x /\ h = <<"got", c, i>>
               \/ x \in overrun /\ h = <<"overrun", 0, 0>>
  <2>1. h \in InFifo(x) <=> \E i \in DOMAIN fifo : fifo[i] = x /\ h = <<"fifo", i, 0>>
    BY DEF InFifo
  <2>2. h \in InHands(x) <=> ch = x /\ h = <<"driver", 0, 0>>
    BY DEF InHands
  <2>3. h \in InBuffer(x) <=> \E t \in Slots : answer[t] = x /\ h = <<"answer", t, 0>>
    BY DEF InBuffer
  <2>4. \A c \in Clients : h \in ReadBy(x, c) <=>
          \E i \in DOMAIN got[c] : got[c][i] = x /\ h = <<"got", c, i>>
    BY DEF ReadBy
  <2>5. h \in Overrun(x) <=> x \in overrun /\ h = <<"overrun", 0, 0>>
    BY DEF Overrun
  <2>6. h \in Holders(x) <=>
          \/ h \in InFifo(x) \/ h \in InHands(x) \/ h \in InBuffer(x)
          \/ \E c \in Clients : h \in ReadBy(x, c)
          \/ h \in Overrun(x)
    <3>1. h \in Read(x) <=> \E c \in Clients : h \in ReadBy(x, c)
      BY DEF Read
    <3> QED
      BY <3>1 DEF Holders
  <2> QED
    BY <2>1, <2>2, <2>3, <2>4, <2>5, <2>6
<1>3. \E h : Holders(x) = {h}
  <2>1. CASE x \in overrun
    <3>1. ~Old(x) /\ x # ch /\ \A i \in DOMAIN fifo : x # fifo[i]
      BY <2>1 DEF CharInv, AllThere
    <3>2. Holders(x) = {<<"overrun", 0, 0>>}
      BY <1>2, <2>1, <3>1 DEF Old
    <3> QED
      BY <3>2
  <2>2. CASE x = ch
    <3>1. ~Old(x) /\ x \notin overrun /\ \A i \in DOMAIN fifo : x # fifo[i]
      BY <1>1, <2>2 DEF CharInv, AllThere, OrderOK
    <3>2. Holders(x) = {<<"driver", 0, 0>>}
      BY <1>2, <2>2, <3>1 DEF Old
    <3> QED
      BY <3>2
  <2>3. ASSUME NEW i \in DOMAIN fifo, x = fifo[i] PROVE \E h : Holders(x) = {h}
    <3>1. ~Old(x) /\ x \notin overrun /\ x # ch
      BY <1>1, <2>3 DEF CharInv, AllThere, OrderOK
    <3>2. \A k \in DOMAIN fifo : fifo[k] = x => k = i
      BY <2>3 DEF CharInv, OrderOK
    <3>3. Holders(x) = {<<"fifo", i, 0>>}
      BY <1>2, <2>3, <3>1, <3>2 DEF Old
    <3> QED
      BY <3>3
  <2>4. ASSUME NEW t \in Slots, answer[t] = x PROVE \E h : Holders(x) = {h}
    <3>1. Old(x) /\ \A u \in Slots : answer[u] = x => u = t
      BY <1>1, <2>4 DEF Old, CharInv, AnswersOK
    <3>2. x \notin overrun /\ x # ch /\ \A i \in DOMAIN fifo : fifo[i] # x
      BY <1>1, <3>1 DEF CharInv, AllThere, OrderOK
    <3>3. \A c \in Clients : \A i \in DOMAIN got[c] : got[c][i] # x
      BY <2>4 DEF CharInv, GotOK
    <3>4. Holders(x) = {<<"answer", t, 0>>}
      BY <1>2, <2>4, <3>1, <3>2, <3>3
    <3> QED
      BY <3>4
  <2>5. ASSUME NEW c \in Clients, NEW i \in DOMAIN got[c], got[c][i] = x
        PROVE  \E h : Holders(x) = {h}
    <3>1. Old(x)
      BY <2>5 DEF Old
    <3>2. x \notin overrun /\ x # ch /\ \A k \in DOMAIN fifo : fifo[k] # x
      BY <1>1, <3>1 DEF CharInv, AllThere, OrderOK
    <3>3. \A t \in Slots : answer[t] # x
      BY <2>5 DEF CharInv, GotOK
    <3>4. \A d \in Clients : \A k \in DOMAIN got[d] : got[d][k] = x => d = c /\ k = i
      <4> SUFFICES ASSUME NEW d \in Clients, NEW k \in DOMAIN got[d], got[d][k] = x
                   PROVE  d = c /\ k = i
        OBVIOUS
      <4>1. d = c
        BY <2>5 DEF CharInv, GotOK
      <4>2. got[c] \in Seq(Chars) /\ i \in Nat /\ k \in Nat
        BY <4>1 DEF CharInv, GotOK
      <4>3. ~(i < k) /\ ~(k < i)
        BY <1>1, <2>5, <4>1 DEF CharInv, GotOK
      <4> QED
        BY <4>1, <4>2, <4>3
    <3>5. Holders(x) = {<<"got", c, i>>}
      BY <1>2, <2>5, <3>2, <3>3, <3>4
    <3> QED
      BY <3>5
  <2> QED
    BY <2>1, <2>2, <2>3, <2>4, <2>5 DEF CharInv, AllThere, Old
<1> QED
  BY <1>3, FS_Singleton

\* Between the FIFO and the readers no character is lost or doubled, and each
\* reader gets its characters in the order in which they came.
THEOREM CharactersAreKept == SerialSpec => []CharactersKept
<1>1. SerialInit => ServedInv /\ CharInv
  BY ServedAtFirst, NoneYet
<1>2. ServedInv /\ CharInv /\ [SerialNext]_serialVars => (ServedInv /\ CharInv)'
  BY ServedStep, CharStep
<1>3. CharInv => CharactersKept
  BY OneHolder DEF CharInv, GotOK, CharactersKept
<1> QED
  BY <1>1, <1>2, <1>3, PTL DEF SerialSpec

=============================================================================
