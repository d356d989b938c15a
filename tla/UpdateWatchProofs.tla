------------------------- MODULE UpdateWatchProofs -------------------------
(***************************************************************************)
(* OSUpdate and the D-Bus client, for channels of any capacity and any     *)
(* number of announcements, checks and errors.                             *)
(***************************************************************************)
EXTENDS UpdateWatch, WellFoundedInduction, TLAPS

USE DEF daemonVars, connVars, callVars, rcvVars, mainVars

(* A message at the end of a queue.                                       *)
LEMMA AppendFacts ==
  ASSUME NEW S, NEW s \in Seq(S), NEW e \in S
  PROVE  /\ Append(s, e) \in Seq(S)
         /\ Len(s) \in Nat /\ Len(Append(s, e)) = Len(s) + 1
         /\ \A i \in 1 .. Len(s) : Append(s, e)[i] = s[i]
         /\ Append(s, e)[Len(s) + 1] = e
         /\ ToSet(Append(s, e)) = ToSet(s) \cup {e}
<1> DEFINE t == Append(s, e)
<1>1. /\ t \in Seq(S)
      /\ Len(s) \in Nat /\ Len(t) = Len(s) + 1
      /\ \A i \in 1 .. Len(s) : t[i] = s[i]
      /\ t[Len(s) + 1] = e
  OBVIOUS
<1>2. DOMAIN t = 1 .. Len(s) + 1 /\ DOMAIN s = 1 .. Len(s)
  BY <1>1
<1> HIDE DEF t
<1>3. ToSet(t) = ToSet(s) \cup {e}
  <2>1. ASSUME NEW x \in ToSet(t)
        PROVE  x \in ToSet(s) \cup {e}
    <3>1. PICK i \in 1 .. Len(s) + 1 : x = t[i]
      BY <1>2 DEF ToSet
    <3>2. CASE i = Len(s) + 1
      BY <1>1, <3>1, <3>2
    <3>3. CASE i # Len(s) + 1
      <4>1. i \in 1 .. Len(s)
        BY <1>1, <3>3
      <4> QED
        BY <1>1, <1>2, <3>1, <4>1 DEF ToSet
    <3> QED
      BY <3>2, <3>3
  <2>2. ASSUME NEW x \in ToSet(s)
        PROVE  x \in ToSet(t)
    <3>1. PICK i \in 1 .. Len(s) : x = s[i]
      BY <1>2 DEF ToSet
    <3>2. x = t[i] /\ i \in 1 .. Len(s) + 1
      BY <1>1, <3>1
    <3> QED
      BY <1>2, <3>2 DEF ToSet
  <2>3. e \in ToSet(t)
    BY <1>1, <1>2 DEF ToSet
  <2> QED
    BY <2>1, <2>2, <2>3
<1> QED
  BY <1>1, <1>3 DEF t

(* The message at the head of a queue, and those behind it.               *)
LEMMA TailFacts ==
  ASSUME NEW S, NEW s \in Seq(S), s # <<>>
  PROVE  /\ Head(s) \in S /\ Head(s) = s[1]
         /\ Tail(s) \in Seq(S)
         /\ Len(s) \in Nat \ {0} /\ Len(Tail(s)) = Len(s) - 1
         /\ \A i \in 1 .. Len(s) - 1 : Tail(s)[i] = s[i + 1]
         /\ ToSet(s) = {Head(s)} \cup ToSet(Tail(s))
<1> DEFINE t == Tail(s)
<1>1. /\ Head(s) \in S /\ Head(s) = s[1]
      /\ t \in Seq(S)
      /\ Len(s) \in Nat \ {0} /\ Len(t) = Len(s) - 1
      /\ \A i \in 1 .. Len(s) - 1 : t[i] = s[i + 1]
  OBVIOUS
<1>2. DOMAIN t = 1 .. Len(s) - 1 /\ DOMAIN s = 1 .. Len(s)
  BY <1>1
<1> HIDE DEF t
<1>3. ToSet(s) = {s[1]} \cup ToSet(t)
  <2>1. ASSUME NEW x \in ToSet(s)
        PROVE  x \in {s[1]} \cup ToSet(t)
    <3>1. PICK i \in 1 .. Len(s) : x = s[i]
      BY <1>2 DEF ToSet
    <3>2. CASE i # 1
      <4>1. i - 1 \in 1 .. Len(s) - 1 /\ t[i - 1] = s[i]
        BY <1>1, <3>2
      <4> QED
        BY <1>2, <3>1, <4>1 DEF ToSet
    <3> QED
      BY <3>1, <3>2
  <2>2. ASSUME NEW x \in ToSet(t)
        PROVE  x \in ToSet(s)
    <3>1. PICK i \in 1 .. Len(s) - 1 : x = t[i]
      BY <1>2 DEF ToSet
    <3>2. x = s[i + 1] /\ i + 1 \in 1 .. Len(s)
      BY <1>1, <3>1
    <3> QED
      BY <1>2, <3>2 DEF ToSet
  <2>3. s[1] \in ToSet(s)
    BY <1>1, <1>2 DEF ToSet
  <2> QED
    BY <2>1, <2>2, <2>3
<1> QED
  BY <1>1, <1>3 DEF t

(* A place that holds one message, and an empty one.                      *)
LEMMA OneFacts ==
  ASSUME NEW S, NEW e \in S
  PROVE  /\ <<e>> \in Seq(S) /\ <<e>> # <<>>
         /\ Len(<<e>>) = 1 /\ <<e>>[1] = e
         /\ ToSet(<<e>>) = {e}
  BY DEF ToSet

(* An empty queue or place.                                               *)
LEMMA NoneFacts ==
  ASSUME NEW S
  PROVE  <<>> \in Seq(S) /\ Len(<<>>) = 0 /\ ToSet(<<>>) = {}
  BY DEF ToSet

(* A place that is not empty holds the one message in it.                 *)
LEMMA AtMostOneFacts ==
  ASSUME NEW S, NEW s \in Seq(S), Len(s) <= 1, s # <<>>
  PROVE  /\ s[1] \in S /\ s = <<s[1]>>
         /\ ToSet(s) = {s[1]}
<1>1. Len(s) = 1
  <2>1. Len(s) \in Nat \ {0}
    BY TailFacts
  <2> QED
    BY <2>1
<1>2. s[1] \in S /\ DOMAIN s = {1}
  BY <1>1
<1>3. s = <<s[1]>>
  BY <1>1, <1>2
<1> QED
  BY <1>2, <1>3 DEF ToSet

(* The one status that is held is appended like any other.                *)
LEMMA AppendHeld ==
  ASSUME NEW S, NEW s \in Seq(S), NEW e \in S
  PROVE  s \o <<e>> = Append(s, e)
  OBVIOUS
-----------------------------------------------------------------------------
(* Types, one part for each group of variables.                           *)
Process == {"main", "receiver"}
Request == [from : Process, method : {"AttemptUpdate", "GetStatus"}]

DaemonType ==
  /\ op \in Operation /\ asked \in BOOLEAN /\ wasIdle \in BOOLEAN
  /\ checks \in 0 .. MaxChecks /\ progress \in 0 .. MaxProgress
  /\ errors \in 0 .. MaxErrors

CallType ==
  /\ requests \in Seq(Request)
  /\ answers \in [Process -> Seq(Operation \cup {""})]
  /\ \A p \in Process : Len(answers[p]) <= 1

WireType == wire \in Seq(Message)

HandType ==
  /\ inHand \in Seq(Message) /\ Len(inHand) <= 1
  /\ connOpen \in BOOLEAN /\ locked \in BOOLEAN
  /\ locked => connOpen /\ inHand # <<>> /\ inHand[1].to = "ch"

ChType == ch \in Seq(Status) /\ Len(ch) <= SignalCap

RcvType ==
  /\ held \in Seq(Status) /\ Len(held) <= 1
  /\ rcv \in {"none", "start", "asked", "send", "loop", "done", "panic"}
  /\ rcv = "send" <=> held # <<>>
  /\ wg = (IF rcv \in {"asked", "send", "loop", "panic"} THEN 1 ELSE 0)

StatusType == statusCh \in Seq(Status) /\ Len(statusCh) <= StatusCap

MainType ==
  /\ main \in {"attempt", "attempted", "first", "asked", "loop", "stop",
               "wait", "close", "returned"}
  /\ verdict \in {"none", "reboot", "idle"}
  /\ flushed \in BOOLEAN
  /\ main = "returned" => ~ connOpen
  /\ main \in {"attempt", "attempted"} => rcv = "none"

Types == /\ DaemonType /\ CallType /\ WireType /\ HandType /\ ChType
         /\ RcvType /\ StatusType /\ MainType

(* The kinds of operations that occur.                                    *)
LEMMA Operations ==
  /\ "checking" \in Operation /\ "downloading" \in Operation
  /\ "" \notin Operation
  BY DEF Operation

(* The types hold at the start.                                           *)
LEMMA TypesInit == WatchInit => Types
<1> SUFFICES ASSUME WatchInit PROVE Types
  OBVIOUS
<1>1. DaemonType
  <2>1. op \in Operation /\ asked \in BOOLEAN
    BY InitiallyAssumption DEF WatchInit
  <2>2. wasIdle \in BOOLEAN
    BY Zenon DEF WatchInit
  <2>3. /\ checks \in 0 .. MaxChecks /\ progress \in 0 .. MaxProgress
        /\ errors \in 0 .. MaxErrors
    BY WatchAssumption DEF WatchInit
  <2> QED
    BY <2>1, <2>2, <2>3 DEF DaemonType
<1>2. CallType
  <2>1. answers = [p \in Process |-> <<>>]
    BY DEF WatchInit, Process
  <2> QED
    BY <2>1 DEF WatchInit, CallType
<1>3. WireType /\ HandType
  <2>1. inHand \in Seq(Message) /\ Len(inHand) <= 1 /\ wire \in Seq(Message)
    BY DEF WatchInit
  <2>2. connOpen \in BOOLEAN /\ locked \in BOOLEAN /\ ~ locked
    BY DEF WatchInit
  <2> QED
    BY <2>1, <2>2 DEF WireType, HandType
<1>4. ChType /\ StatusType
  BY WatchAssumption DEF WatchInit, ChType, StatusType
<1>5. RcvType
  BY DEF WatchInit, RcvType
<1>6. MainType
  <2>1. connOpen /\ ~ flushed
    BY DEF WatchInit
  <2>2. /\ main = "attempt" /\ verdict = "none" /\ flushed \in BOOLEAN
        /\ rcv = "none"
    BY DEF WatchInit
  <2> QED
    BY <2>1, <2>2 DEF MainType
<1> QED
  BY <1>1, <1>2, <1>3, <1>4, <1>5, <1>6 DEF Types

(* The daemon alone changes its operation.                                *)
LEMMA DaemonTypeStep ==
  ASSUME Types, [WatchNext]_vars
  PROVE  DaemonType'
<1> USE DEF Types, DaemonType
<1>1. CASE Serve
  <2>1. UNCHANGED <<op, wasIdle, checks, progress>>
    BY <1>1 DEF Serve
  <2>2. errors' \in 0 .. MaxErrors
    <3>1. errors' = errors \/ (errors < MaxErrors /\ errors' = errors + 1)
      BY <1>1 DEF Serve
    <3> QED
      BY <3>1, WatchAssumption
  <2>3. asked' \in BOOLEAN
    <3>1. PICK o : asked' = (\/ asked
                             \/ Head(requests).method = "AttemptUpdate" /\ o = "idle")
      BY <1>1 DEF Serve
    <3> QED
      BY <3>1, Zenon
  <2> QED
    BY <2>1, <2>2, <2>3
<1>2. ASSUME NEW o \in Operation, Announce(o)
      PROVE  op' \in Operation /\ wasIdle' \in BOOLEAN /\ errors' = errors
  <2>1. wasIdle' \in BOOLEAN
    <3>1. wasIdle' = (wasIdle \/ o = "idle")
      BY <1>2 DEF Announce
    <3> QED
      BY <3>1, Zenon
  <2> QED
    BY <1>2, <2>1 DEF Announce
<1>3. CASE BeginCheck
  <2>1. Announce("checking") /\ asked' = FALSE /\ progress' = progress
    BY <1>3 DEF BeginCheck
  <2>2. checks' \in 0 .. MaxChecks
    BY <1>3, WatchAssumption DEF BeginCheck
  <2> QED
    BY <1>2, <2>1, <2>2, Operations
<1>4. CASE Work
  <2>1. PICK o \in Operation : Announce(o)
    BY <1>4 DEF Work
  <2>2. UNCHANGED <<asked, checks, progress>>
    BY <1>4 DEF Work
  <2> QED
    BY <1>2, <2>1, <2>2
<1>9. CASE Download
  <2>1. Announce("downloading") /\ UNCHANGED <<asked, checks>>
    BY <1>9 DEF Download
  <2>2. progress' \in 0 .. MaxProgress
    BY <1>9, WatchAssumption DEF Download
  <2> QED
    BY <1>2, <2>1, <2>2, Operations
<1>5. CASE Worker
  BY <1>5 DEF Worker, Deliver, ReadMessage, DeliverAnswer,
     LockSignals, SendSignal, ReadFails
<1>6. CASE Receiver
  BY <1>6 DEF Receiver, RegisterAndAsk, GotStatus, ForwardStatus,
              StopReceiving, TakeSignal, TakeNilSignal
<1>7. CASE Main
  BY <1>7 DEF Main, AttemptUpdate, AttemptFailed, StartReceiver,
              AskFirstStatus, FirstStatusFailed, SendMarker, ReceiveStatus,
              CloseStopCh, Wait, CloseClient
<1>8. CASE UNCHANGED vars
  BY <1>8 DEF vars
<1> QED
  BY <1>1, <1>3, <1>4, <1>5, <1>6, <1>7, <1>8, <1>9 DEF WatchNext, Daemon

(* At most one answer at a time waits for a goroutine.                    *)
Answer == Operation \cup {""}
WithAnswer(p, a) == [answers EXCEPT ![p] = a]

(* An answer changes what waits for that goroutine alone.                 *)
LEMMA WithAnswerFacts ==
  ASSUME CallType, NEW p \in Process, NEW a \in Seq(Answer), Len(a) <= 1
  PROVE  /\ WithAnswer(p, a) \in [Process -> Seq(Answer)]
         /\ WithAnswer(p, a)[p] = a
         /\ \A q \in Process :
              /\ Len(WithAnswer(p, a)[q]) <= 1
              /\ q # p => WithAnswer(p, a)[q] = answers[q]
<1> DEFINE S == Seq(Answer)
           f == WithAnswer(p, a)
<1>1. answers \in [Process -> S] /\ a \in S
  BY DEF CallType, Answer
<1>2. \A q \in Process : Len(answers[q]) <= 1
  BY DEF CallType
<1> HIDE DEF S
<1>3. f \in [Process -> S] /\ f[p] = a
  BY <1>1 DEF WithAnswer
<1>4. ASSUME NEW q \in Process, q # p
      PROVE  f[q] = answers[q]
  BY <1>1, <1>4 DEF WithAnswer
<1>5. ASSUME NEW q \in Process
      PROVE  Len(f[q]) <= 1
  BY <1>2, <1>3, <1>4
<1> QED
  BY <1>3, <1>4, <1>5 DEF S

(* Requests and answers keep their types.                                 *)
LEMMA CallTypeStep ==
  ASSUME Types, [WatchNext]_vars
  PROVE  CallType'
<1> USE DEF Types
<1>0. CallType
  OBVIOUS
<1>14. ASSUME requests' \in Seq(Request), answers' \in [Process -> Seq(Answer)],
              \A q \in Process : Len(answers'[q]) <= 1
       PROVE  CallType'
  BY <1>14 DEF CallType, Answer
<1>15. requests \in Seq(Request)
  BY DEF CallType
<1>1. CASE Serve
  <2>1. requests' = Tail(requests) /\ requests # <<>> /\ answers' = answers
    BY <1>1 DEF Serve
  <2> QED
    BY <2>1, TailFacts DEF CallType
<1>2. CASE BeginCheck \/ Work \/ Download
  BY <1>2 DEF CallType, BeginCheck, Work, Download, Announce
<1>3. CASE ReadMessage \/ LockSignals \/ SendSignal \/ ReadFails
  BY <1>3 DEF CallType, ReadMessage, LockSignals, SendSignal, ReadFails
<1>4. CASE DeliverAnswer
  <2>1. inHand[1] \in Message /\ inHand[1].to \in Process
    <3>1. inHand \in Seq(Message) /\ Len(inHand) <= 1 /\ inHand # <<>>
      BY <1>4 DEF DeliverAnswer, HandType
    <3>2. inHand[1] \in Message
      BY <3>1, AtMostOneFacts
    <3> QED
      BY <1>4, <3>2 DEF DeliverAnswer, Message, Process
  <2>2. inHand[1].op \in Answer
    BY <2>1 DEF Message, Answer
  <2>3. <<inHand[1].op>> \in Seq(Answer) /\ Len(<<inHand[1].op>>) <= 1
    BY <2>2, OneFacts
  <2>4. /\ requests' = requests
        /\ answers' = WithAnswer(inHand[1].to, <<inHand[1].op>>)
    BY <1>4 DEF DeliverAnswer, WithAnswer
  <2> QED
    BY <1>0, <1>14, <1>15, <2>1, <2>3, <2>4, WithAnswerFacts
<1>5. ASSUME NEW p \in Process, NEW method \in {"AttemptUpdate", "GetStatus"},
             Send(p, method), UNCHANGED answers
      PROVE  CallType'
  <2>1. [from |-> p, method |-> method] \in Request
    BY DEF Request
  <2>2. requests' = Append(requests, [from |-> p, method |-> method])
    BY <1>5 DEF Send
  <2> QED
    BY <1>5, <2>1, <2>2, AppendFacts DEF CallType
<1>6. ASSUME NEW p \in Process, TakeAnswer(p), UNCHANGED requests
      PROVE  CallType'
  <2>1. answers' = WithAnswer(p, <<>>)
    BY <1>6 DEF TakeAnswer, WithAnswer
  <2>2. <<>> \in Seq(Answer) /\ Len(<<>>) <= 1
    BY NoneFacts
  <2> QED
    BY <1>0, <1>6, <1>14, <1>15, <2>1, <2>2, WithAnswerFacts
<1>7. CASE RegisterAndAsk
  <2>1. CASE connOpen
    BY <1>5, <1>7, <2>1 DEF RegisterAndAsk, Process
  <2>2. CASE ~ connOpen
    BY <1>7, <2>2 DEF RegisterAndAsk, CallType
  <2> QED
    BY <2>1, <2>2
<1>8. CASE GotStatus
  <2>1. CASE TakeAnswer("receiver")
    BY <1>6, <1>8, <2>1 DEF GotStatus, Process
  <2>2. CASE UNCHANGED answers
    BY <1>8, <2>2 DEF GotStatus, CallType
  <2> QED
    BY <1>8, <2>1, <2>2 DEF GotStatus
<1>9. CASE ForwardStatus \/ StopReceiving \/ TakeSignal \/ TakeNilSignal
  BY <1>9 DEF CallType, ForwardStatus, StopReceiving, TakeSignal, TakeNilSignal
<1>10. CASE AttemptUpdate \/ AskFirstStatus
  <2>1. CASE connOpen
    BY <1>5, <1>10, <2>1 DEF AttemptUpdate, AskFirstStatus, Call, Process
  <2>2. CASE ~ connOpen
    BY <1>10, <2>2 DEF AttemptUpdate, AskFirstStatus, Call, CallType
  <2> QED
    BY <2>1, <2>2
<1>11. CASE AttemptFailed \/ StartReceiver \/ FirstStatusFailed \/ SendMarker
  <2>1. requests' = requests /\ (TakeAnswer("main") \/ UNCHANGED answers)
    BY <1>11 DEF AttemptFailed, StartReceiver, FirstStatusFailed, SendMarker,
                 CallFails
  <2>2. CASE UNCHANGED answers
    BY <2>1, <2>2 DEF CallType
  <2> QED
    BY <1>6, <2>1, <2>2 DEF Process
<1>12. CASE ReceiveStatus \/ CloseStopCh \/ Wait \/ CloseClient
  BY <1>12 DEF CallType, ReceiveStatus, CloseStopCh, Wait, CloseClient
<1>13. CASE UNCHANGED vars
  BY <1>13 DEF CallType, vars
<1> QED
  BY <1>1, <1>2, <1>3, <1>4, <1>7, <1>8, <1>9, <1>10, <1>11, <1>12, <1>13
  DEF WatchNext, Daemon, Worker, Deliver, Receiver, Main

(* The messages on the wire keep their type.                              *)
LEMMA WireTypeStep ==
  ASSUME Types, [WatchNext]_vars
  PROVE  WireType'
<1> USE DEF Types, WireType
<1>1. ASSUME NEW m \in Message,
             wire' = IF connOpen THEN Append(wire, m) ELSE wire
      PROVE  WireType'
  BY <1>1, AppendFacts
<1>2. CASE Serve
  <2>1. PICK o \in {op, ""} :
          wire' = IF connOpen
                  THEN Append(wire, [to |-> Head(requests).from, op |-> o])
                  ELSE wire
    BY <1>2 DEF Serve
  <2>2. Head(requests) \in Request
    BY <1>2, TailFacts DEF Serve, CallType
  <2>3. [to |-> Head(requests).from, op |-> o] \in Message
    BY <2>2 DEF Request, Process, Message, DaemonType
  <2> QED
    BY <1>1, <2>1, <2>3
<1>3. ASSUME NEW o \in Operation, Announce(o)
      PROVE  WireType'
  <2>1. [to |-> "ch", op |-> o] \in Message
    BY DEF Message
  <2> QED
    BY <1>1, <1>3, <2>1 DEF Announce
<1>4. CASE BeginCheck
  BY <1>3, <1>4, Operations DEF BeginCheck
<1>5. CASE Work
  BY <1>3, <1>5 DEF Work
<1>6. CASE Download
  BY <1>3, <1>6, Operations DEF Download
<1>7. CASE ReadMessage
  BY <1>7, TailFacts DEF ReadMessage
<1>8. CASE DeliverAnswer \/ LockSignals \/ SendSignal \/ ReadFails
  BY <1>8 DEF DeliverAnswer, LockSignals, SendSignal, ReadFails
<1>9. CASE Receiver
  BY <1>9 DEF Receiver, RegisterAndAsk, GotStatus, ForwardStatus,
              StopReceiving, TakeSignal, TakeNilSignal
<1>10. CASE Main
  BY <1>10 DEF Main, AttemptUpdate, AttemptFailed, StartReceiver,
               AskFirstStatus, FirstStatusFailed, SendMarker, ReceiveStatus,
               CloseStopCh, Wait, CloseClient
<1>11. CASE UNCHANGED vars
  BY <1>11 DEF vars
<1> QED
  BY <1>2, <1>4, <1>5, <1>6, <1>7, <1>8, <1>9, <1>10, <1>11
  DEF WatchNext, Daemon, Worker, Deliver

(* The lock is held by an inWorker that has a signal, on an open          *)
(* connection: Close needs it.                                            *)
LEMMA HandTypeStep ==
  ASSUME Types, [WatchNext]_vars
  PROVE  HandType'
<1> USE DEF Types
<1>0. HandType
  OBVIOUS
<1>10. ASSUME UNCHANGED <<inHand, connOpen, locked>>
       PROVE  HandType'
  BY <1>0, <1>10 DEF HandType
<1>1. CASE Daemon
  BY <1>1, <1>10 DEF Daemon, Serve, BeginCheck, Work, Download, Announce
<1>2. CASE ReadMessage
  <2>1. Head(wire) \in Message /\ inHand' = <<Head(wire)>>
    BY <1>2, TailFacts DEF ReadMessage, WireType
  <2>2. inHand' \in Seq(Message) /\ Len(inHand') <= 1
    BY <2>1, OneFacts
  <2>3. UNCHANGED <<connOpen, locked>> /\ ~ locked
    BY <1>0, <1>2 DEF ReadMessage, HandType
  <2> QED
    BY <1>0, <2>2, <2>3 DEF HandType
<1>3. CASE DeliverAnswer
  <2>1. inHand' = <<>> /\ UNCHANGED <<connOpen, locked>> /\ ~ locked
    BY <1>0, <1>3 DEF DeliverAnswer, HandType
  <2> QED
    BY <1>0, <2>1, NoneFacts DEF HandType
<1>4. CASE LockSignals
  <2>1. /\ inHand' = inHand /\ connOpen' = connOpen /\ locked' = connOpen
        /\ inHand # <<>> /\ inHand[1].to = "ch"
    BY <1>4 DEF LockSignals
  <2> QED
    BY <1>0, <2>1 DEF HandType
<1>5. CASE SendSignal
  <2>1. inHand' = <<>> /\ locked' = FALSE /\ connOpen' = connOpen
    BY <1>5 DEF SendSignal
  <2>2. ~ locked' /\ locked' \in BOOLEAN
    BY <2>1
  <2> QED
    BY <1>0, <2>1, <2>2, NoneFacts DEF HandType
<1>6. CASE Receiver
  BY <1>6, <1>10 DEF Receiver, RegisterAndAsk, GotStatus, ForwardStatus,
              StopReceiving, TakeSignal, TakeNilSignal
<1>7. CASE CloseClient
  <2>1. ~ locked /\ connOpen' = FALSE /\ UNCHANGED <<inHand, locked>>
    BY <1>7 DEF CloseClient
  <2> QED
    BY <1>0, <2>1 DEF HandType
<1>11. CASE ReadFails
  <2>1. inHand = <<>> /\ connOpen' = FALSE /\ UNCHANGED <<inHand, locked>>
    BY <1>11 DEF ReadFails
  <2> QED
    BY <1>0, <2>1 DEF HandType
<1>8. CASE Main /\ ~ CloseClient
  BY <1>8, <1>10 DEF Main, AttemptUpdate, AttemptFailed, StartReceiver,
              AskFirstStatus, FirstStatusFailed, SendMarker, ReceiveStatus,
              CloseStopCh, Wait
<1>9. CASE UNCHANGED vars
  BY <1>9, <1>10 DEF vars
<1> QED
  BY <1>1, <1>2, <1>3, <1>4, <1>5, <1>6, <1>7, <1>8, <1>9, <1>11
  DEF WatchNext, Worker, Deliver

(* The channel of signals keeps its type and its capacity.                *)
LEMMA ChTypeStep ==
  ASSUME Types, [WatchNext]_vars
  PROVE  ChType'
<1> USE DEF Types, ChType
<1>1. CASE SendSignal
  <2>1. inHand[1] \in Message
    <3>1. inHand \in Seq(Message) /\ Len(inHand) <= 1 /\ inHand # <<>>
      BY <1>1 DEF SendSignal, HandType
    <3> QED
      BY <3>1, AtMostOneFacts
  <2>2. [kind |-> "signal", op |-> inHand[1].op] \in Status
    BY <2>1 DEF Message, Status
  <2>3. /\ Len(ch) < SignalCap
        /\ ch' = Append(ch, [kind |-> "signal", op |-> inHand[1].op])
    BY <1>1 DEF SendSignal, ChannelTakes
  <2>4. ch' \in Seq(Status) /\ Len(ch) \in Nat /\ Len(ch') = Len(ch) + 1
    BY <2>2, <2>3, AppendFacts
  <2> QED
    BY <2>3, <2>4, WatchAssumption
<1>2. CASE TakeSignal
  <2>1. /\ ch' \in Seq(Status)
        /\ Len(ch) \in Nat \ {0} /\ Len(ch') = Len(ch) - 1
    BY <1>2, TailFacts DEF TakeSignal
  <2> QED
    BY <2>1, WatchAssumption
<1>3. CASE Daemon
  BY <1>3 DEF Daemon, Serve, BeginCheck, Work, Download, Announce
<1>4. CASE ReadMessage \/ DeliverAnswer \/ LockSignals \/ ReadFails
  BY <1>4 DEF ReadMessage, DeliverAnswer, LockSignals, ReadFails
<1>5. CASE RegisterAndAsk \/ GotStatus \/ ForwardStatus \/ StopReceiving \/ TakeNilSignal
  BY <1>5 DEF RegisterAndAsk, GotStatus, ForwardStatus, StopReceiving, TakeNilSignal
<1>6. CASE Main
  BY <1>6 DEF Main, AttemptUpdate, AttemptFailed, StartReceiver,
              AskFirstStatus, FirstStatusFailed, SendMarker, ReceiveStatus,
              CloseStopCh, Wait, CloseClient
<1>7. CASE UNCHANGED vars
  BY <1>7 DEF vars
<1> QED
  BY <1>1, <1>2, <1>3, <1>4, <1>5, <1>6, <1>7
  DEF WatchNext, Worker, Deliver, Receiver

(* The wait group counts the receiver from its first statement to its     *)
(* last; what it holds is what it sends next.                             *)
LEMMA RcvTypeStep ==
  ASSUME Types, [WatchNext]_vars
  PROVE  RcvType'
<1> USE DEF Types
<1>0. RcvType
  OBVIOUS
<1>1. ASSUME NEW s \in Status, held' = <<s>>, rcv' = "send", wg' = 1
      PROVE  RcvType'
  BY <1>1, OneFacts DEF RcvType
<1>2. ASSUME held' = <<>>, wg' = 1, rcv' \in {"asked", "loop", "panic"}
      PROVE  RcvType'
  BY <1>2, NoneFacts DEF RcvType
<1>3. ASSUME UNCHANGED <<held, rcv, wg>>
      PROVE  RcvType'
  BY <1>0, <1>3 DEF RcvType
<1>4. \A a \in Answer : [kind |-> "answer", op |-> a] \in Status
  BY DEF Status, Answer
<1>5. CASE RegisterAndAsk
  <2>0. rcv = "start" /\ wg' = wg + 1
    BY <1>5 DEF RegisterAndAsk
  <2>1. wg' = 1 /\ held = <<>>
    BY <1>0, <2>0 DEF RcvType
  <2>2. CASE connOpen
    BY <1>2, <1>5, <2>1, <2>2 DEF RegisterAndAsk
  <2>3. CASE ~ connOpen
    BY <1>1, <1>4, <1>5, <2>1, <2>3 DEF RegisterAndAsk, Answer
  <2> QED
    BY <2>2, <2>3
<1>6. CASE GotStatus
  <2>1. wg' = 1 /\ rcv' = "send"
    BY <1>0, <1>6 DEF GotStatus, RcvType
  <2>2. CASE /\ Answered("receiver")
             /\ held' = <<[kind |-> "answer", op |-> answers["receiver"][1]]>>
    <3>1. /\ answers["receiver"] \in Seq(Answer)
          /\ Len(answers["receiver"]) <= 1 /\ answers["receiver"] # <<>>
      BY <2>2 DEF CallType, Answer, Answered, Process
    <3>2. answers["receiver"][1] \in Answer
      BY <3>1, AtMostOneFacts
    <3> QED
      BY <1>1, <1>4, <2>1, <2>2, <3>2
  <2>3. CASE held' = <<[kind |-> "answer", op |-> ""]>>
    BY <1>1, <1>4, <2>1, <2>3 DEF Answer
  <2> QED
    BY <1>6, <2>2, <2>3 DEF GotStatus
<1>7. CASE ForwardStatus
  BY <1>0, <1>2, <1>7 DEF ForwardStatus, RcvType
<1>8. CASE StopReceiving
  <2>1. held = <<>> /\ wg' = 0 /\ rcv' = "done" /\ held' = held
    BY <1>0, <1>8 DEF StopReceiving, RcvType
  <2> QED
    BY <2>1, NoneFacts DEF RcvType
<1>9. CASE TakeSignal
  <2>1. Head(ch) \in Status
    BY <1>9, TailFacts DEF TakeSignal, ChType
  <2>2. wg' = 1 /\ rcv' = "send" /\ held' = <<Head(ch)>>
    BY <1>0, <1>9 DEF TakeSignal, RcvType
  <2> QED
    BY <1>1, <2>1, <2>2
<1>10. CASE TakeNilSignal
  BY <1>0, <1>2, <1>10 DEF TakeNilSignal, RcvType
<1>11. CASE StartReceiver
  <2>1. rcv' = "start" /\ UNCHANGED <<held, wg>>
    BY <1>11 DEF StartReceiver
  <2>2. rcv = "none"
    BY <1>11 DEF StartReceiver, MainType
  <2> QED
    BY <1>0, <2>1, <2>2 DEF RcvType
<1>12. CASE Main /\ ~ StartReceiver
  BY <1>3, <1>12
  DEF Main, AttemptUpdate, AttemptFailed, AskFirstStatus, FirstStatusFailed,
      SendMarker, ReceiveStatus, CloseStopCh, Wait, CloseClient
<1>13. CASE Daemon
  BY <1>3, <1>13 DEF Daemon, Serve, BeginCheck, Work, Download, Announce
<1>14. CASE Worker
  BY <1>3, <1>14 DEF Worker, Deliver, ReadMessage, DeliverAnswer,
     LockSignals, SendSignal, ReadFails
<1>15. CASE UNCHANGED vars
  BY <1>3, <1>15 DEF vars
<1> QED
  BY <1>5, <1>6, <1>7, <1>8, <1>9, <1>10, <1>11, <1>12, <1>13, <1>14, <1>15
  DEF WatchNext, Receiver

(* So does the channel of statuses.                                       *)
LEMMA StatusTypeStep ==
  ASSUME Types, [WatchNext]_vars
  PROVE  StatusType'
<1> USE DEF Types
<1>0. StatusType
  OBVIOUS
<1>1. ASSUME NEW s \in Status, Len(statusCh) < StatusCap,
             statusCh' = Append(statusCh, s)
      PROVE  StatusType'
  <2>1. /\ statusCh' \in Seq(Status)
        /\ Len(statusCh) \in Nat /\ Len(statusCh') = Len(statusCh) + 1
    BY <1>0, <1>1, AppendFacts DEF StatusType
  <2> QED
    BY <1>1, <2>1, WatchAssumption DEF StatusType
<1>2. CASE ForwardStatus
  <2>1. held \in Seq(Status) /\ Len(held) <= 1 /\ held # <<>>
    BY <1>2 DEF ForwardStatus, RcvType
  <2>2. held[1] \in Status /\ held = <<held[1]>>
    BY <2>1, AtMostOneFacts
  <2>3. statusCh' = Append(statusCh, held[1])
    <3>1. statusCh' = statusCh \o <<held[1]>>
      BY <1>2, <2>2 DEF ForwardStatus
    <3> QED
      BY <1>0, <2>2, <3>1, AppendHeld DEF StatusType
  <2> QED
    BY <1>1, <1>2, <2>2, <2>3 DEF ForwardStatus
<1>3. CASE SendMarker
  <2>1. /\ answers["main"] \in Seq(Answer)
        /\ Len(answers["main"]) <= 1 /\ answers["main"] # <<>>
    BY <1>3 DEF SendMarker, CallType, Answer, Answered, Process
  <2>2. answers["main"][1] \in Answer
    BY <2>1, AtMostOneFacts
  <2>3. [kind |-> "marker", op |-> answers["main"][1]] \in Status
    BY <2>2 DEF Status, Answer
  <2> QED
    BY <1>1, <1>3, <2>3 DEF SendMarker
<1>4. CASE ReceiveStatus
  <2>1. statusCh' = Tail(statusCh) /\ statusCh # <<>>
    BY <1>4 DEF ReceiveStatus
  <2>2. /\ statusCh' \in Seq(Status)
        /\ Len(statusCh) \in Nat \ {0} /\ Len(statusCh') = Len(statusCh) - 1
    BY <1>0, <2>1, TailFacts DEF StatusType
  <2> QED
    BY <1>0, <2>2, WatchAssumption DEF StatusType
<1>5. ASSUME UNCHANGED statusCh
      PROVE  StatusType'
  BY <1>0, <1>5 DEF StatusType
<1>6. CASE Receiver /\ ~ ForwardStatus
  BY <1>5, <1>6 DEF Receiver, RegisterAndAsk, GotStatus, StopReceiving,
                    TakeSignal, TakeNilSignal
<1>7. CASE Main /\ ~ SendMarker /\ ~ ReceiveStatus
  BY <1>5, <1>7 DEF Main, AttemptUpdate, AttemptFailed, StartReceiver,
                    AskFirstStatus, FirstStatusFailed, CloseStopCh, Wait,
                    CloseClient
<1>8. CASE Daemon
  BY <1>5, <1>8 DEF Daemon, Serve, BeginCheck, Work, Download, Announce
<1>9. CASE Worker
  BY <1>5, <1>9 DEF Worker, Deliver, ReadMessage, DeliverAnswer,
     LockSignals, SendSignal, ReadFails
<1>10. CASE UNCHANGED vars
  BY <1>5, <1>10 DEF vars
<1> QED
  BY <1>2, <1>3, <1>4, <1>6, <1>7, <1>8, <1>9, <1>10 DEF WatchNext

(* Main returns with the connection closed.                               *)
LEMMA MainTypeStep ==
  ASSUME Types, [WatchNext]_vars
  PROVE  MainType'
<1> USE DEF Types
<1>0. MainType
  OBVIOUS
<1>1. ASSUME UNCHANGED <<flushed, verdict>>,
             main' \in {"first", "asked", "loop", "wait", "close"}
      PROVE  MainType'
  BY <1>0, <1>1 DEF MainType
<1>2. ASSUME UNCHANGED <<main, flushed, verdict>>, connOpen' => connOpen,
             rcv' = rcv \/ rcv # "none"
      PROVE  MainType'
  BY <1>0, <1>2 DEF MainType
<1>3. CASE AttemptUpdate
  <2>1. /\ main = "attempt" /\ main' = "attempted" /\ rcv = "none" /\ rcv' = rcv
        /\ UNCHANGED <<flushed, verdict>>
    BY <1>0, <1>3 DEF AttemptUpdate, MainType
  <2> QED
    BY <1>0, <2>1 DEF MainType
<1>4. CASE \/ AttemptFailed \/ StartReceiver \/ AskFirstStatus
           \/ FirstStatusFailed \/ SendMarker \/ CloseStopCh \/ Wait
  BY <1>1, <1>4 DEF AttemptFailed, StartReceiver, AskFirstStatus,
                    FirstStatusFailed, SendMarker, CloseStopCh, Wait
<1>5. CASE ReceiveStatus
  <2>1. main = "loop" /\ main' \in {"loop", "stop"}
    BY <1>5 DEF ReceiveStatus, FlushStatus, ActOnStatus
  <2>3. verdict' \in {"none", "reboot", "idle"} /\ flushed' \in BOOLEAN
    <3>1. CASE FlushStatus
      BY <1>0, <3>1 DEF FlushStatus, MainType
    <3>2. CASE ActOnStatus
      BY <1>0, <3>2 DEF ActOnStatus, Decision, MainType
    <3> QED
      BY <1>5, <3>1, <3>2 DEF ReceiveStatus
  <2> QED
    BY <2>1, <2>3 DEF MainType
<1>6. CASE CloseClient
  <2>1. ~ connOpen' /\ connOpen' \in BOOLEAN /\ main' = "returned"
    BY <1>6 DEF CloseClient
  <2>2. UNCHANGED <<flushed, verdict>>
    BY <1>6 DEF CloseClient
  <2> QED
    BY <1>0, <2>1, <2>2 DEF MainType
<1>7. CASE Receiver
  <2>1. rcv # "none" /\ UNCHANGED <<connOpen, main, flushed, verdict>>
    BY <1>7 DEF Receiver, RegisterAndAsk, GotStatus, ForwardStatus,
                StopReceiving, TakeSignal, TakeNilSignal
  <2> QED
    BY <1>2, <2>1
<1>8. CASE Daemon
  BY <1>2, <1>8 DEF Daemon, Serve, BeginCheck, Work, Download, Announce
<1>9. CASE Worker
  BY <1>2, <1>9 DEF Worker, Deliver, ReadMessage, DeliverAnswer,
     LockSignals, SendSignal, ReadFails
<1>10. CASE UNCHANGED vars
  BY <1>2, <1>10 DEF vars
<1> QED
  BY <1>3, <1>4, <1>5, <1>6, <1>7, <1>8, <1>9, <1>10 DEF WatchNext, Main

(* Every step keeps all types.                                            *)
LEMMA TypesStep == Types /\ [WatchNext]_vars => Types'
<1> SUFFICES ASSUME Types, [WatchNext]_vars
             PROVE  Types'
  OBVIOUS
<1>1. DaemonType' /\ CallType'
  BY DaemonTypeStep, CallTypeStep
<1>2. WireType' /\ HandType' /\ ChType'
  BY WireTypeStep, HandTypeStep, ChTypeStep
<1>3. RcvType' /\ StatusType' /\ MainType'
  BY RcvTypeStep, StatusTypeStep, MainTypeStep
<1> QED
  BY <1>1, <1>2, <1>3 DEF Types

(* So they hold at all times.                                             *)
LEMMA TypesAlways == WatchSpec => []Types
  BY TypesInit, TypesStep, PTL DEF WatchSpec

(* Every variable keeps its type, no channel exceeds its capacity, and    *)
(* the wait group counts the receiver, for all capacities and bounds.     *)
THEOREM WatchTypeCorrect == WatchSpec => []WatchTypeOK
<1>1. Types => WatchTypeOK
  <2> SUFFICES ASSUME Types PROVE WatchTypeOK
    OBVIOUS
  <2>1. /\ op \in Operation
        /\ asked \in BOOLEAN /\ wasIdle \in BOOLEAN
        /\ checks \in 0 .. MaxChecks /\ progress \in 0 .. MaxProgress
        /\ errors \in 0 .. MaxErrors
    BY DEF Types, DaemonType
  <2>2. wire \in Seq(Message)
    BY DEF Types, WireType
  <2>3. /\ Len(ch) <= SignalCap /\ Len(statusCh) <= StatusCap
        /\ statusCh \in Seq(Status) /\ ch \in Seq(Status)
    BY DEF Types, ChType, StatusType
  <2>4. /\ inHand \in Seq(Message) /\ Len(inHand) <= 1
        /\ locked => connOpen /\ inHand # <<>>
    BY DEF Types, HandType
  <2>5. RcvType /\ MainType
    BY DEF Types
  <2> QED
    BY <2>1, <2>2, <2>3, <2>4, <2>5 DEF RcvType, MainType, WatchTypeOK
<1> QED
  BY <1>1, TypesAlways, PTL
-----------------------------------------------------------------------------
(* What is said of the daemon anywhere on its way to main is true: where  *)
(* "needReboot" is, an update is staged, and where "idle" is, the daemon  *)
(* has been idle.                                                         *)
Holds(o) == /\ o = "needReboot" => op = "needReboot"
            /\ o = "idle" => wasIdle

HonestWire  == \A m \in ToSet(wire) \cup ToSet(inHand) : Holds(m.op)
HonestCalls == \A p \in Process : \A a \in ToSet(answers[p]) : Holds(a)
HonestQueue ==
  \A s \in ToSet(ch) \cup ToSet(held) \cup ToSet(statusCh) : Holds(s.op)

Honest ==
  /\ Holds(op) /\ HonestWire /\ HonestCalls /\ HonestQueue
  /\ verdict = "reboot" => op = "needReboot"
  /\ verdict = "idle" => wasIdle

(* Nothing has been said at the start.                                    *)
LEMMA HonestInit == WatchInit => Honest
<1> SUFFICES ASSUME WatchInit PROVE Honest
  OBVIOUS
<1>1. Holds(op)
  BY DEF WatchInit, Holds
<1>2. HonestWire
  BY NoneFacts DEF WatchInit, HonestWire
<1>3. HonestCalls
  <2>1. answers = [p \in Process |-> <<>>]
    BY DEF WatchInit, Process
  <2> QED
    BY <2>1, NoneFacts DEF HonestCalls
<1>4. HonestQueue
  BY NoneFacts DEF WatchInit, HonestQueue
<1> QED
  BY <1>1, <1>2, <1>3, <1>4 DEF WatchInit, Honest

(* The connection is not opened again.                                    *)
LEMMA ConnStaysClosed ==
  ASSUME [WatchNext]_vars, connOpen'
  PROVE  connOpen
<1>1. CASE Daemon
  BY <1>1 DEF Daemon, Serve, BeginCheck, Work, Download, Announce
<1>2. CASE Worker
  BY <1>2 DEF Worker, Deliver, ReadMessage, DeliverAnswer,
     LockSignals, SendSignal, ReadFails
<1>3. CASE Receiver
  BY <1>3 DEF Receiver, RegisterAndAsk, GotStatus, ForwardStatus,
              StopReceiving, TakeSignal, TakeNilSignal
<1>4. CASE Main
  BY <1>4 DEF Main, AttemptUpdate, AttemptFailed, StartReceiver,
     AskFirstStatus, FirstStatusFailed, SendMarker, ReceiveStatus,
     CloseStopCh, Wait, CloseClient
<1>5. CASE UNCHANGED vars
  BY <1>5 DEF vars
<1> QED
  BY <1>1, <1>2, <1>3, <1>4, <1>5 DEF WatchNext

(* What holds goes on holding: nothing unstages an update.                *)
LEMMA StillHolds ==
  ASSUME Types, [WatchNext]_vars
  PROVE  /\ op = "needReboot" => op' = "needReboot"
         /\ wasIdle => wasIdle'
         /\ \A o : Holds(o) => Holds(o)'
<1>1. (op = "needReboot" => op' = "needReboot") /\ (wasIdle => wasIdle')
  <2>1. CASE Serve
    BY <2>1 DEF Serve
  <2>2. CASE BeginCheck
    BY <2>2 DEF BeginCheck, Announce
  <2>3. CASE Work
    BY <2>3 DEF Work, Announce
  <2>4. CASE Download
    BY <2>4 DEF Download, Announce
  <2>5. CASE Worker
    BY <2>5 DEF Worker, Deliver, ReadMessage, DeliverAnswer,
       LockSignals, SendSignal, ReadFails
  <2>6. CASE Receiver
    <3>1. UNCHANGED <<op, wasIdle>>
      BY <2>6 DEF Receiver, RegisterAndAsk, GotStatus, ForwardStatus,
                  StopReceiving, TakeSignal, TakeNilSignal
    <3> QED
      BY <3>1
  <2>7. CASE Main
    <3>1. UNCHANGED <<op, wasIdle>>
      BY <2>7 DEF Main, AttemptUpdate, AttemptFailed, StartReceiver,
                  AskFirstStatus, FirstStatusFailed, SendMarker, ReceiveStatus,
                  CloseStopCh, Wait, CloseClient
    <3> QED
      BY <3>1
  <2>8. CASE UNCHANGED vars
    BY <2>8 DEF vars
  <2> QED
    BY <2>1, <2>2, <2>3, <2>4, <2>5, <2>6, <2>7, <2>8 DEF WatchNext, Daemon
<1> QED
  BY <1>1 DEF Holds

(* An announcement of the daemon is true, and so is its answer.           *)
LEMMA AnnounceHonest ==
  ASSUME Types, Honest, Daemon
  PROVE  Honest'
<1>1. \A o : Holds(o) => Holds(o)'
  BY StillHolds DEF WatchNext
<1>2. /\ ToSet(wire') \subseteq ToSet(wire)
           \cup {m \in Message : Holds(m.op)'}
      /\ Holds(op)'
  <2>1. ASSUME NEW m \in Message, Holds(m.op)',
               wire' = IF connOpen THEN Append(wire, m) ELSE wire
        PROVE  ToSet(wire') \subseteq ToSet(wire) \cup {n \in Message : Holds(n.op)'}
    <3>1. wire \in Seq(Message)
      BY DEF Types, WireType
    <3>2. ToSet(Append(wire, m)) = ToSet(wire) \cup {m}
      BY <3>1, AppendFacts
    <3> QED
      BY <2>1, <3>2
  <2>2. ASSUME NEW o \in Operation, Announce(o)
        PROVE  /\ ToSet(wire') \subseteq ToSet(wire) \cup {n \in Message : Holds(n.op)'}
               /\ Holds(op)'
    <3>1. op' = o /\ (o = "idle" => wasIdle')
      BY <2>2 DEF Announce
    <3>2. Holds(o)' /\ Holds(op)'
      BY <3>1 DEF Holds
    <3>3. [to |-> "ch", op |-> o] \in Message
      BY DEF Message
    <3> QED
      BY <2>1, <2>2, <3>2, <3>3 DEF Announce
  <2>3. CASE Serve
    <3>1. PICK o \in {op, ""} :
            wire' = IF connOpen
                    THEN Append(wire, [to |-> Head(requests).from, op |-> o])
                    ELSE wire
      BY <2>3 DEF Serve
    <3>2. Head(requests) \in Request
      BY <2>3, TailFacts DEF Serve, Types, CallType
    <3>3. [to |-> Head(requests).from, op |-> o] \in Message
      BY <3>2 DEF Request, Process, Message, Types, DaemonType
    <3>4. op' = op /\ wasIdle' = wasIdle
      BY <2>3 DEF Serve
    <3>5. Holds(op)' /\ Holds(o)'
      BY <3>4 DEF Honest, Holds
    <3> QED
      BY <2>1, <3>1, <3>3, <3>5
  <2>4. CASE BeginCheck
    BY <2>2, <2>4, Operations DEF BeginCheck
  <2>5. CASE Work
    BY <2>2, <2>5 DEF Work
  <2>6. CASE Download
    BY <2>2, <2>6, Operations DEF Download
  <2> QED
    BY <2>3, <2>4, <2>5, <2>6 DEF Daemon
<1>3. UNCHANGED <<answers, inHand, ch, held, statusCh, verdict>>
  BY DEF Daemon, Serve, BeginCheck, Work, Download, Announce
<1>4. HonestWire'
  BY <1>1, <1>2, <1>3 DEF Honest, HonestWire
<1>5. HonestCalls' /\ HonestQueue'
  BY <1>1, <1>3 DEF Honest, HonestCalls, HonestQueue
<1>6. (verdict = "reboot" => op = "needReboot")' /\ (verdict = "idle" => wasIdle)'
  <2>1. (op = "needReboot" => op' = "needReboot") /\ (wasIdle => wasIdle')
    BY StillHolds DEF WatchNext
  <2> QED
    BY <1>3, <2>1 DEF Honest
<1> QED
  BY <1>2, <1>4, <1>5, <1>6 DEF Honest

(* Honest is kept where nothing is said that was not said before.         *)
LEMMA NothingNewHonest ==
  ASSUME Types, Honest, WatchNext,
         ToSet(wire') \cup ToSet(inHand') \subseteq ToSet(wire) \cup ToSet(inHand),
         HonestCalls', HonestQueue',
         UNCHANGED <<op, wasIdle, verdict>>
  PROVE  Honest'
<1>1. HonestWire'
  BY StillHolds DEF Honest, HonestWire
<1>2. Holds(op)'
  BY DEF Honest, Holds
<1>3. (verdict = "reboot" => op = "needReboot")' /\ (verdict = "idle" => wasIdle)'
  BY DEF Honest
<1> QED
  BY <1>1, <1>2, <1>3 DEF Honest

(* An answer that is not new still holds.                                 *)
LEMMA CallsHonest ==
  ASSUME Types, Honest, WatchNext, UNCHANGED answers
  PROVE  HonestCalls'
  BY StillHolds DEF Honest, HonestCalls

(* A status that is not new still holds.                                  *)
LEMMA QueueHonest ==
  ASSUME Types, Honest, WatchNext,
         \A s \in ToSet(ch') \cup ToSet(held') \cup ToSet(statusCh') :
           \/ s \in ToSet(ch) \cup ToSet(held) \cup ToSet(statusCh)
           \/ Holds(s.op)
  PROVE  HonestQueue'
<1>1. \A o : Holds(o) => Holds(o)'
  BY StillHolds
<1> QED
  BY <1>1 DEF Honest, HonestQueue

(* Taking an answer leaves those of the other goroutine.                  *)
LEMMA TakenHonest ==
  ASSUME Types, Honest, WatchNext, NEW p \in Process, TakeAnswer(p)
  PROVE  HonestCalls'
<1>1. answers' = WithAnswer(p, <<>>)
  BY DEF TakeAnswer, WithAnswer
<1>2. /\ answers'[p] = <<>>
      /\ \A q \in Process : q # p => answers'[q] = answers[q]
  <2>1. <<>> \in Seq(Answer) /\ Len(<<>>) <= 1
    BY NoneFacts
  <2> QED
    BY <1>1, <2>1, WithAnswerFacts DEF Types
<1>3. ToSet(answers'[p]) = {}
  BY <1>2, NoneFacts
<1>4. \A o : Holds(o) => Holds(o)'
  BY StillHolds
<1> QED
  BY <1>2, <1>3, <1>4 DEF Honest, HonestCalls

(* The connection delivers what the daemon said.                          *)
LEMMA WorkerHonest ==
  ASSUME Types, Honest, Worker
  PROVE  Honest'
<1>0. WatchNext
  BY DEF WatchNext
<1>1. CASE ReadMessage
  <2>1. wire \in Seq(Message) /\ wire # <<>>
    BY <1>1 DEF ReadMessage, Types, WireType
  <2>2. wire' = Tail(wire) /\ inHand' = <<Head(wire)>>
    BY <1>1 DEF ReadMessage
  <2>3. /\ Head(wire) \in Message
        /\ ToSet(wire) = {Head(wire)} \cup ToSet(Tail(wire))
    BY <2>1, TailFacts
  <2>4. ToSet(inHand') = {Head(wire)}
    BY <2>2, <2>3, OneFacts
  <2>5. UNCHANGED <<op, wasIdle, verdict, answers, ch, held, statusCh>>
    BY <1>1 DEF ReadMessage
  <2>6. HonestCalls' /\ HonestQueue'
    BY <1>0, <2>5, CallsHonest, QueueHonest
  <2> QED
    BY <1>0, <2>2, <2>3, <2>4, <2>5, <2>6, NothingNewHonest
<1>2. ASSUME inHand # <<>>
      PROVE  inHand[1] \in Message /\ ToSet(inHand) = {inHand[1]}
  <2>1. inHand \in Seq(Message) /\ Len(inHand) <= 1
    BY DEF Types, HandType
  <2> QED
    BY <1>2, <2>1, AtMostOneFacts
<1>3. CASE DeliverAnswer
  <2>1. inHand[1] \in Message /\ ToSet(inHand) = {inHand[1]}
    BY <1>2, <1>3 DEF DeliverAnswer
  <2> DEFINE p == inHand[1].to
             a == inHand[1].op
  <2>2. p \in Process /\ a \in Answer /\ Holds(a)
    BY <1>3, <2>1 DEF DeliverAnswer, Message, Process, Answer, Honest, HonestWire
  <2>3. answers' = WithAnswer(p, <<a>>)
    BY <1>3 DEF DeliverAnswer, WithAnswer
  <2>4. HonestCalls'
    <3> HIDE DEF p, a
    <3>1. <<a>> \in Seq(Answer) /\ Len(<<a>>) <= 1 /\ ToSet(<<a>>) = {a}
      BY <2>2, OneFacts
    <3>2. /\ answers'[p] = <<a>>
          /\ \A q \in Process : q # p => answers'[q] = answers[q]
      BY <2>2, <2>3, <3>1, WithAnswerFacts DEF Types
    <3>3. \A o : Holds(o) => Holds(o)'
      BY <1>0, StillHolds
    <3> QED
      BY <2>2, <3>1, <3>2, <3>3 DEF Honest, HonestCalls
  <2>5. UNCHANGED <<op, wasIdle, verdict, wire, ch, held, statusCh>>
    BY <1>3 DEF DeliverAnswer
  <2>6. inHand' = <<>> /\ ToSet(inHand') = {}
    BY <1>3, NoneFacts DEF DeliverAnswer
  <2>7. HonestQueue'
    BY <1>0, <2>5, QueueHonest
  <2> QED
    BY <1>0, <2>4, <2>5, <2>6, <2>7, NothingNewHonest
<1>4. CASE LockSignals
  <2>1. UNCHANGED <<op, wasIdle, verdict, wire, inHand, answers, ch, held, statusCh>>
    BY <1>4 DEF LockSignals
  <2>2. HonestCalls' /\ HonestQueue'
    BY <1>0, <2>1, CallsHonest, QueueHonest
  <2> QED
    BY <1>0, <2>1, <2>2, NothingNewHonest
<1>5. CASE SendSignal
  <2>1. inHand[1] \in Message /\ ToSet(inHand) = {inHand[1]}
    BY <1>2, <1>5 DEF SendSignal, Types, HandType
  <2> DEFINE s == [kind |-> "signal", op |-> inHand[1].op]
  <2>2. s \in Status /\ Holds(s.op)
    BY <2>1 DEF Message, Status, Honest, HonestWire
  <2>3. ch' = Append(ch, s)
    BY <1>5 DEF SendSignal, ChannelTakes
  <2>4. ToSet(ch') = ToSet(ch) \cup {s}
    <3> HIDE DEF s
    <3> QED
      BY <2>2, <2>3, AppendFacts DEF Types, ChType
  <2>5. UNCHANGED <<op, wasIdle, verdict, wire, answers, held, statusCh>>
    BY <1>5 DEF SendSignal
  <2>6. inHand' = <<>> /\ ToSet(inHand') = {}
    BY <1>5, NoneFacts DEF SendSignal
  <2> HIDE DEF s
  <2>7. HonestCalls' /\ HonestQueue'
    BY <1>0, <2>2, <2>4, <2>5, CallsHonest, QueueHonest
  <2> QED
    BY <1>0, <2>5, <2>6, <2>7, NothingNewHonest
<1>6. CASE ReadFails
  <2>1. UNCHANGED <<op, wasIdle, verdict, wire, inHand, answers, ch, held,
                    statusCh>>
    BY <1>6 DEF ReadFails
  <2>2. HonestCalls' /\ HonestQueue'
    BY <1>0, <2>1, CallsHonest, QueueHonest
  <2> QED
    BY <1>0, <2>1, <2>2, NothingNewHonest
<1> QED
  BY <1>1, <1>3, <1>4, <1>5, <1>6 DEF Worker, Deliver

(* The receiver passes on what it has got, or an empty status.            *)
LEMMA ReceiverHonest ==
  ASSUME Types, Honest, Receiver
  PROVE  Honest'
<1>0. WatchNext
  BY DEF WatchNext
<1>1. UNCHANGED <<op, wasIdle, verdict, wire, inHand>>
  BY DEF Receiver, RegisterAndAsk, GotStatus, ForwardStatus, StopReceiving,
         TakeSignal, TakeNilSignal
<1>2. SUFFICES HonestCalls' /\ HonestQueue'
  BY <1>0, <1>1, NothingNewHonest
<1>3. ASSUME NEW a \in Answer, Holds(a),
             held' = <<[kind |-> "answer", op |-> a]>>,
             UNCHANGED <<ch, statusCh>>
      PROVE  HonestQueue'
  <2> DEFINE s == [kind |-> "answer", op |-> a]
  <2>1. s \in Status /\ Holds(s.op)
    BY <1>3 DEF Status, Answer
  <2>2. ToSet(held') = {s}
    <3> HIDE DEF s
    <3>1. held' = <<s>>
      BY <1>3 DEF s
    <3> QED
      BY <2>1, <3>1, OneFacts
  <2> HIDE DEF s
  <2> QED
    BY <1>0, <1>3, <2>1, <2>2, QueueHonest
<1>4. "" \in Answer /\ Holds("")
  BY DEF Answer, Holds
<1>5. CASE RegisterAndAsk
  <2>1. UNCHANGED <<answers, ch, statusCh>>
    BY <1>5 DEF RegisterAndAsk
  <2>2. held' = held \/ held' = <<[kind |-> "answer", op |-> ""]>>
    BY <1>5 DEF RegisterAndAsk
  <2>3. CASE held' = held
    BY <1>0, <2>1, <2>3, CallsHonest, QueueHonest
  <2> QED
    BY <1>0, <1>3, <1>4, <2>1, <2>2, <2>3, CallsHonest
<1>6. CASE GotStatus
  <2>1. UNCHANGED <<ch, statusCh>>
    BY <1>6 DEF GotStatus
  <2>2. CASE /\ Answered("receiver") /\ TakeAnswer("receiver")
             /\ held' = <<[kind |-> "answer", op |-> answers["receiver"][1]]>>
    <3>1. /\ answers["receiver"] \in Seq(Answer)
          /\ Len(answers["receiver"]) <= 1 /\ answers["receiver"] # <<>>
      BY <2>2 DEF Types, CallType, Answer, Answered, Process
    <3>2. /\ answers["receiver"][1] \in Answer
          /\ answers["receiver"][1] \in ToSet(answers["receiver"])
      BY <3>1, AtMostOneFacts
    <3>3. Holds(answers["receiver"][1])
      BY <3>2 DEF Honest, HonestCalls, Process
    <3>4. HonestCalls'
      BY <1>0, <2>2, TakenHonest DEF Process
    <3> QED
      BY <1>3, <2>1, <2>2, <3>2, <3>3, <3>4
  <2>3. CASE /\ held' = <<[kind |-> "answer", op |-> ""]>>
             /\ UNCHANGED answers
    BY <1>0, <1>3, <1>4, <2>1, <2>3, CallsHonest
  <2> QED
    BY <1>6, <2>2, <2>3 DEF GotStatus
<1>7. CASE ForwardStatus
  <2>1. UNCHANGED <<answers, ch>> /\ held' = <<>>
    BY <1>7 DEF ForwardStatus
  <2>2. held \in Seq(Status) /\ Len(held) <= 1 /\ held # <<>>
    BY <1>7 DEF ForwardStatus, Types, RcvType
  <2>3. held[1] \in Status /\ held = <<held[1]>> /\ ToSet(held) = {held[1]}
    BY <2>2, AtMostOneFacts
  <2>4. ToSet(statusCh') = ToSet(statusCh) \cup {held[1]}
    <3>1. statusCh \in Seq(Status)
      BY DEF Types, StatusType
    <3>2. statusCh' = statusCh \o <<held[1]>>
      BY <1>7, <2>3 DEF ForwardStatus
    <3>3. statusCh' = Append(statusCh, held[1])
      BY <2>3, <3>1, <3>2, AppendHeld
    <3> QED
      BY <2>3, <3>1, <3>3, AppendFacts
  <2>5. ToSet(held') = {}
    BY <2>1, NoneFacts
  <2> QED
    BY <1>0, <2>1, <2>3, <2>4, <2>5, CallsHonest, QueueHonest
<1>8. CASE TakeSignal
  <2>1. ch \in Seq(Status) /\ ch # <<>>
    BY <1>8 DEF TakeSignal, Types, ChType
  <2>2. /\ Head(ch) \in Status
        /\ ToSet(ch) = {Head(ch)} \cup ToSet(Tail(ch))
    BY <2>1, TailFacts
  <2>3. ch' = Tail(ch) /\ held' = <<Head(ch)>> /\ UNCHANGED <<answers, statusCh>>
    BY <1>8 DEF TakeSignal
  <2>4. ToSet(held') = {Head(ch)}
    BY <2>2, <2>3, OneFacts
  <2> QED
    BY <1>0, <2>2, <2>3, <2>4, CallsHonest, QueueHonest
<1>9. CASE StopReceiving \/ TakeNilSignal
  <2>1. UNCHANGED <<answers, ch, held, statusCh>>
    BY <1>9 DEF StopReceiving, TakeNilSignal
  <2> QED
    BY <1>0, <2>1, CallsHonest, QueueHonest
<1> QED
  BY <1>5, <1>6, <1>7, <1>8, <1>9 DEF Receiver

(* Main decides by a status that is true.                                 *)
LEMMA MainHonest ==
  ASSUME Types, Honest, Main
  PROVE  Honest'
<1>0. WatchNext
  BY DEF WatchNext
<1>1. UNCHANGED <<op, wasIdle, wire, inHand, ch, held>>
  <2>1. CASE AttemptUpdate \/ AttemptFailed \/ StartReceiver \/ AskFirstStatus
    BY <2>1 DEF AttemptUpdate, AttemptFailed, StartReceiver, AskFirstStatus
  <2>2. CASE FirstStatusFailed \/ SendMarker \/ ReceiveStatus
    BY <2>2 DEF FirstStatusFailed, SendMarker, ReceiveStatus
  <2>3. CASE CloseStopCh \/ Wait \/ CloseClient
    BY <2>3 DEF CloseStopCh, Wait, CloseClient
  <2> QED
    BY <2>1, <2>2, <2>3 DEF Main
<1>2. CASE AttemptUpdate \/ AskFirstStatus \/ CloseStopCh \/ Wait \/ CloseClient
  <2>1. UNCHANGED <<verdict, answers, statusCh>>
    BY <1>2 DEF AttemptUpdate, AskFirstStatus, CloseStopCh, Wait, CloseClient
  <2>2. HonestCalls' /\ HonestQueue'
    BY <1>0, <1>1, <2>1, CallsHonest, QueueHonest
  <2> QED
    BY <1>0, <1>1, <2>1, <2>2, NothingNewHonest
<1>3. CASE AttemptFailed \/ StartReceiver \/ FirstStatusFailed
  <2>1. /\ UNCHANGED <<verdict, statusCh>>
        /\ TakeAnswer("main") \/ UNCHANGED answers
    BY <1>3 DEF AttemptFailed, StartReceiver, FirstStatusFailed, CallFails
  <2>2. HonestCalls' /\ HonestQueue'
    BY <1>0, <1>1, <2>1, CallsHonest, TakenHonest, QueueHonest DEF Process
  <2> QED
    BY <1>0, <1>1, <2>1, <2>2, NothingNewHonest
<1>4. CASE SendMarker
  <2>1. UNCHANGED verdict /\ TakeAnswer("main")
    BY <1>4 DEF SendMarker
  <2>2. /\ answers["main"] \in Seq(Answer)
        /\ Len(answers["main"]) <= 1 /\ answers["main"] # <<>>
    BY <1>4 DEF SendMarker, Types, CallType, Answer, Answered, Process
  <2>3. /\ answers["main"][1] \in Answer
        /\ answers["main"][1] \in ToSet(answers["main"])
    BY <2>2, AtMostOneFacts
  <2> DEFINE s == [kind |-> "marker", op |-> answers["main"][1]]
  <2>4. s \in Status /\ Holds(s.op)
    BY <2>3 DEF Status, Answer, Honest, HonestCalls, Process
  <2>5. statusCh' = Append(statusCh, s)
    BY <1>4 DEF SendMarker
  <2> HIDE DEF s
  <2>6. ToSet(statusCh') = ToSet(statusCh) \cup {s}
    BY <2>4, <2>5, AppendFacts DEF Types, StatusType
  <2>7. HonestCalls' /\ HonestQueue'
    BY <1>0, <1>1, <2>1, <2>4, <2>6, TakenHonest, QueueHonest DEF Process
  <2> QED
    BY <1>0, <1>1, <2>1, <2>7, NothingNewHonest
<1>5. CASE ReceiveStatus
  <2>1. statusCh \in Seq(Status) /\ statusCh # <<>>
    BY <1>5 DEF ReceiveStatus, Types, StatusType
  <2>2. ToSet(statusCh) = {Head(statusCh)} \cup ToSet(Tail(statusCh))
    BY <2>1, TailFacts
  <2>3. statusCh' = Tail(statusCh) /\ UNCHANGED answers
    BY <1>5 DEF ReceiveStatus
  <2>4. HonestCalls' /\ HonestQueue'
    BY <1>0, <1>1, <2>2, <2>3, CallsHonest, QueueHonest
  <2>5. Holds(Received.op)
    BY <2>2 DEF Received, Honest, HonestQueue
  <2>6. verdict' = verdict \/ verdict' = Decision(Received.op)
    BY <1>5 DEF ReceiveStatus, FlushStatus, ActOnStatus
  <2>7. /\ verdict' = "reboot" => op = "needReboot"
        /\ verdict' = "idle" => wasIdle
    <3>1. CASE verdict' = verdict
      BY <3>1 DEF Honest
    <3>2. CASE verdict' = Decision(Received.op)
      <4> DEFINE o == Received.op
      <4>1. verdict' = CASE o = "needReboot" -> "reboot"
                         [] o = "idle" -> "idle" [] OTHER -> "none"
        BY <3>2 DEF Decision
      <4>2. Holds(o)
        BY <2>5
      <4> HIDE DEF o
      <4> QED
        BY <4>1, <4>2 DEF Holds
    <3> QED
      BY <2>6, <3>1, <3>2
  <2>8. HonestWire'
    BY <1>0, <1>1, StillHolds DEF Honest, HonestWire
  <2>9. Holds(op)'
    BY <1>1 DEF Honest, Holds
  <2>10. (verdict = "reboot" => op = "needReboot")' /\ (verdict = "idle" => wasIdle)'
    BY <1>1, <2>7
  <2> QED
    BY <2>4, <2>8, <2>9, <2>10 DEF Honest
<1> QED
  BY <1>2, <1>3, <1>4, <1>5 DEF Main

(* So whatever was said holds, at all times.                              *)
LEMMA HonestAlways == WatchSpec => []Honest
<1>1. Types /\ Honest /\ [WatchNext]_vars => Honest'
  <2>1. ASSUME Types, Honest, UNCHANGED vars
        PROVE  Honest'
    BY <2>1 DEF vars, Honest, Holds, HonestWire, HonestCalls, HonestQueue
  <2> QED
    BY <2>1, AnnounceHonest, WorkerHonest, ReceiverHonest, MainHonest DEF WatchNext
<1> QED
  BY <1>1, HonestInit, TypesAlways, PTL DEF WatchSpec

(* A reboot is only required when an update is staged, by whatever status *)
(* main went, however old it was.                                         *)
THEOREM RebootVerdictsTrue == WatchSpec => []RebootVerdictTrue
<1>1. Honest => RebootVerdictTrue
  BY DEF Honest, RebootVerdictTrue
<1> QED
  BY <1>1, HonestAlways, PTL

(* Without an update OSUpdate only goes on if the daemon has been idle.   *)
THEOREM IdleVerdictsTrue == WatchSpec => []IdleVerdictTrue
<1>1. Honest => IdleVerdictTrue
  BY DEF Honest, IdleVerdictTrue
<1> QED
  BY <1>1, HonestAlways, PTL
-----------------------------------------------------------------------------
(* What main has received, and when it closes the client, by what the     *)
(* receiver has done.                                                     *)
Course ==
  /\ rcv \in {"none", "start", "asked"} =>
       ~ flushed /\ \A s \in ToSet(statusCh) : s.kind = "marker"
  /\ verdict # "none" => main \in {"stop", "wait", "close", "returned"}
  /\ flushed /\ verdict # "none" /\ main \in {"close", "returned"}
       => rcv = "done"

(* The course of main and the receiver begins like this.                  *)
LEMMA CourseInit == WatchInit => Course
<1> SUFFICES ASSUME WatchInit PROVE Course
  OBVIOUS
<1>1. ~ flushed /\ ToSet(statusCh) = {} /\ verdict = "none"
  BY NoneFacts DEF WatchInit
<1> QED
  BY <1>1 DEF Course

(* Every step keeps to it.                                                *)
LEMMA CourseStep ==
  ASSUME Types, Course, [WatchNext]_vars
  PROVE  Course'
<1>0. RcvType /\ MainType
  BY DEF Types
<1>1. ASSUME UNCHANGED <<rcv, flushed, statusCh, verdict, main>>
      PROVE  Course'
  BY <1>1 DEF Course
<1>2. CASE Daemon
  BY <1>1, <1>2 DEF Daemon, Serve, BeginCheck, Work, Download, Announce
<1>3. CASE Worker
  BY <1>1, <1>3 DEF Worker, Deliver, ReadMessage, DeliverAnswer,
     LockSignals, SendSignal, ReadFails
<1>4. CASE RegisterAndAsk \/ GotStatus \/ TakeSignal \/ TakeNilSignal \/ StopReceiving
  <2>1. /\ rcv \in {"start", "asked", "loop"}
        /\ rcv = "loop" => rcv' \in {"send", "done", "panic"}
        /\ UNCHANGED <<flushed, statusCh, verdict, main>>
    BY <1>4 DEF RegisterAndAsk, GotStatus, TakeSignal, TakeNilSignal,
                StopReceiving
  <2>2. rcv' \in {"asked", "send", "done", "panic"}
    BY <1>4 DEF RegisterAndAsk, GotStatus, TakeSignal, TakeNilSignal,
                StopReceiving
  <2>3. rcv' = "asked" => rcv = "start"
    BY <1>4 DEF RegisterAndAsk, GotStatus, TakeSignal, TakeNilSignal,
                StopReceiving
  <2> QED
    BY <2>1, <2>2, <2>3 DEF Course
<1>5. CASE ForwardStatus
  <2>1. /\ rcv = "send" /\ rcv' = "loop"
        /\ UNCHANGED <<flushed, verdict, main>>
    BY <1>5 DEF ForwardStatus
  <2> QED
    BY <2>1 DEF Course
<1>6. CASE AttemptUpdate \/ AttemptFailed \/ AskFirstStatus \/ FirstStatusFailed
  <2>1. /\ main \in {"attempt", "attempted", "first", "asked"}
        /\ UNCHANGED <<rcv, flushed, statusCh, verdict>>
    BY <1>6 DEF AttemptUpdate, AttemptFailed, AskFirstStatus, FirstStatusFailed
  <2> QED
    BY <2>1 DEF Course
<1>7. CASE StartReceiver
  <2>1. /\ main = "attempted" /\ main' = "first" /\ rcv' = "start"
        /\ UNCHANGED <<flushed, statusCh, verdict>>
    BY <1>7 DEF StartReceiver
  <2> QED
    BY <1>0, <2>1 DEF Course, MainType
<1>8. CASE SendMarker
  <2>1. /\ main = "asked" /\ main' = "loop"
        /\ UNCHANGED <<rcv, flushed, verdict>>
    BY <1>8 DEF SendMarker
  <2>2. /\ answers["main"] \in Seq(Answer)
        /\ Len(answers["main"]) <= 1 /\ answers["main"] # <<>>
    BY <1>8 DEF SendMarker, Types, CallType, Answer, Answered, Process
  <2>3. answers["main"][1] \in Answer
    BY <2>2, AtMostOneFacts
  <2> DEFINE s == [kind |-> "marker", op |-> answers["main"][1]]
  <2>4. s \in Status /\ s.kind = "marker" /\ statusCh' = Append(statusCh, s)
    BY <1>8, <2>3 DEF Status, Answer, SendMarker
  <2> HIDE DEF s
  <2>5. ToSet(statusCh') = ToSet(statusCh) \cup {s}
    BY <2>4, AppendFacts DEF Types, StatusType
  <2> QED
    BY <2>1, <2>4, <2>5 DEF Course
<1>9. CASE ReceiveStatus
  <2>1. statusCh \in Seq(Status) /\ statusCh # <<>> /\ statusCh' = Tail(statusCh)
    BY <1>9 DEF ReceiveStatus, Types, StatusType
  <2>2. ToSet(statusCh) = {Received} \cup ToSet(statusCh')
    BY <2>1, TailFacts DEF Received
  <2>3. rcv' = rcv /\ main = "loop" /\ verdict = "none"
    BY <1>9 DEF ReceiveStatus, Course
  <2>4. CASE FlushStatus
    <3>1. /\ Received.kind # "marker" /\ verdict' = verdict /\ main' = main
      BY <2>4 DEF FlushStatus, Skipped
    <3>2. rcv \notin {"none", "start", "asked"}
      BY <2>2, <3>1 DEF Course
    <3> QED
      BY <2>3, <3>1, <3>2 DEF Course
  <2>5. CASE ActOnStatus
    <3>1. /\ flushed' = flushed
          /\ main' \in {"loop", "stop"}
          /\ verdict' # "none" => main' = "stop"
      BY <2>5 DEF ActOnStatus
    <3> QED
      BY <2>2, <2>3, <3>1 DEF Course
  <2> QED
    BY <1>9, <2>4, <2>5 DEF ReceiveStatus
<1>10. CASE CloseStopCh
  BY <1>10 DEF CloseStopCh, Course
<1>11. CASE Wait
  <2>1. /\ wg = 0 /\ main = "wait" /\ main' = "close"
        /\ UNCHANGED <<rcv, flushed, statusCh, verdict>>
    BY <1>11 DEF Wait, ReceiverDone
  <2>2. rcv \in {"none", "start", "done"}
    BY <1>0, <2>1 DEF RcvType
  <2> QED
    BY <2>1, <2>2 DEF Course
<1>12. CASE CloseClient
  <2>1. /\ main = "close" /\ main' = "returned"
        /\ UNCHANGED <<rcv, flushed, statusCh, verdict>>
    BY <1>12 DEF CloseClient
  <2> QED
    BY <2>1 DEF Course
<1>13. CASE UNCHANGED vars
  BY <1>1, <1>13 DEF vars
<1> QED
  BY <1>2, <1>3, <1>4, <1>5, <1>6, <1>7, <1>8, <1>9, <1>10, <1>11, <1>12, <1>13
  DEF WatchNext, Receiver, Main

(* So they keep to it at all times.                                       *)
LEMMA CourseAlways == WatchSpec => []Course
<1>1. Types /\ Course /\ [WatchNext]_vars => Course'
  BY CourseStep
<1> QED
  BY <1>1, CourseInit, TypesAlways, PTL DEF WatchSpec

(* Once main has had a status from the receiver, and a verdict, it waits  *)
(* for the receiver: it does not itself close the client under it.        *)
THEOREM ClientAlwaysOutlives == WatchSpec => []ClientOutlivesReceiver
<1>1. Types /\ Course => ClientOutlivesReceiver
  BY DEF Types, MainType, Course, ClientOutlivesReceiver
<1> QED
  BY <1>1, TypesAlways, CourseAlways, PTL
-----------------------------------------------------------------------------
(* The receiver's own answer is in front of all announcements.            *)
HasAnswer == \E j \in 1 .. Len(statusCh) : statusCh[j].kind = "answer"

AnswerFirst ==
  \A i \in 1 .. Len(statusCh) :
    statusCh[i].kind = "signal" => \E j \in 1 .. i - 1 : statusCh[j].kind = "answer"

InOrder ==
  /\ \A s \in ToSet(ch) : s.kind = "signal"
  /\ \A s \in ToSet(held) : s.kind # "marker"
  /\ ~ flushed =>
       /\ AnswerFirst
       /\ rcv \in {"loop", "done", "panic"} => HasAnswer
       /\ (\E s \in ToSet(held) : s.kind = "signal") => HasAnswer

(* The order holds at the start.                                          *)
LEMMA InOrderInit == WatchInit => InOrder
<1> SUFFICES ASSUME WatchInit PROVE InOrder
  OBVIOUS
<1>1. ToSet(ch) = {} /\ ToSet(held) = {} /\ Len(statusCh) = 0 /\ rcv = "none"
  BY NoneFacts DEF WatchInit
<1> QED
  BY <1>1 DEF InOrder, AnswerFirst

(* Every step keeps the order.                                            *)
LEMMA InOrderStep ==
  ASSUME Types, InOrder, [WatchNext]_vars
  PROVE  InOrder'
<1>0. RcvType /\ statusCh \in Seq(Status) /\ Len(statusCh) \in Nat
  BY DEF Types, StatusType
<1>1. ASSUME UNCHANGED <<rcv, held, flushed, statusCh>>,
             \A s \in ToSet(ch') : s.kind = "signal"
      PROVE  InOrder'
  BY <1>1 DEF InOrder, AnswerFirst, HasAnswer
<1>2. CASE Daemon
  <2>1. UNCHANGED <<rcv, held, flushed, statusCh, ch>>
    BY <1>2 DEF Daemon, Serve, BeginCheck, Work, Download, Announce
  <2> QED
    BY <1>1, <2>1 DEF InOrder
<1>3. CASE ReadMessage \/ DeliverAnswer \/ LockSignals \/ ReadFails
  <2>1. UNCHANGED <<rcv, held, flushed, statusCh, ch>>
    BY <1>3 DEF ReadMessage, DeliverAnswer, LockSignals, ReadFails
  <2> QED
    BY <1>1, <2>1 DEF InOrder
<1>4. CASE SendSignal
  <2>1. inHand \in Seq(Message) /\ Len(inHand) <= 1 /\ inHand # <<>>
    BY <1>4 DEF SendSignal, Types, HandType
  <2>2. inHand[1] \in Message
    BY <2>1, AtMostOneFacts
  <2> DEFINE s == [kind |-> "signal", op |-> inHand[1].op]
  <2>3. s \in Status /\ s.kind = "signal" /\ ch' = Append(ch, s)
    BY <1>4, <2>2 DEF Message, Status, SendSignal, ChannelTakes
  <2> HIDE DEF s
  <2>4. ToSet(ch') = ToSet(ch) \cup {s}
    BY <2>3, AppendFacts DEF Types, ChType
  <2>5. UNCHANGED <<rcv, held, flushed, statusCh>>
    BY <1>4 DEF SendSignal
  <2> QED
    BY <1>1, <2>3, <2>4, <2>5 DEF InOrder
<1>5. ASSUME NEW a \in Answer, held' = <<[kind |-> "answer", op |-> a]>>,
             rcv' = "send", UNCHANGED <<ch, flushed, statusCh>>
      PROVE  InOrder'
  <2> DEFINE s == [kind |-> "answer", op |-> a]
  <2>1. s \in Status /\ s.kind = "answer" /\ held' = <<s>>
    BY <1>5 DEF Status, Answer
  <2> HIDE DEF s
  <2>2. ToSet(held') = {s}
    BY <2>1, OneFacts
  <2> QED
    BY <1>5, <2>1, <2>2 DEF InOrder, AnswerFirst, HasAnswer
<1>6. CASE RegisterAndAsk
  <2>1. UNCHANGED <<ch, flushed, statusCh>>
    BY <1>6 DEF RegisterAndAsk
  <2>2. \/ rcv' = "asked" /\ held' = held
        \/ rcv' = "send" /\ held' = <<[kind |-> "answer", op |-> ""]>>
    BY <1>6 DEF RegisterAndAsk
  <2>3. CASE rcv' = "asked" /\ held' = held
    BY <2>1, <2>3 DEF InOrder, AnswerFirst, HasAnswer
  <2> QED
    BY <1>5, <2>1, <2>2, <2>3 DEF Answer
<1>7. CASE GotStatus
  <2>1. rcv' = "send" /\ UNCHANGED <<ch, flushed, statusCh>>
    BY <1>7 DEF GotStatus
  <2>2. CASE /\ Answered("receiver")
             /\ held' = <<[kind |-> "answer", op |-> answers["receiver"][1]]>>
    <3>1. /\ answers["receiver"] \in Seq(Answer)
          /\ Len(answers["receiver"]) <= 1 /\ answers["receiver"] # <<>>
      BY <2>2 DEF Types, CallType, Answer, Answered, Process
    <3>2. answers["receiver"][1] \in Answer
      BY <3>1, AtMostOneFacts
    <3> QED
      BY <1>5, <2>1, <2>2, <3>2
  <2>3. CASE held' = <<[kind |-> "answer", op |-> ""]>>
    BY <1>5, <2>1, <2>3 DEF Answer
  <2> QED
    BY <1>7, <2>2, <2>3 DEF GotStatus
<1>8. CASE ForwardStatus
  <2>1. /\ rcv = "send" /\ rcv' = "loop" /\ held' = <<>>
        /\ UNCHANGED <<ch, flushed>>
    BY <1>8 DEF ForwardStatus
  <2>2. held \in Seq(Status) /\ Len(held) <= 1 /\ held # <<>>
    BY <1>0, <2>1 DEF RcvType
  <2> DEFINE s == held[1]
             n == Len(statusCh)
  <2>3. s \in Status /\ held = <<s>> /\ ToSet(held) = {s}
    BY <2>2, AtMostOneFacts
  <2>4. statusCh' = statusCh \o <<s>>
    BY <1>8, <2>3 DEF ForwardStatus
  <2> HIDE DEF s
  <2>5. statusCh' = Append(statusCh, s)
    BY <1>0, <2>3, <2>4, AppendHeld
  <2>6. /\ Len(statusCh') = n + 1 /\ statusCh'[n + 1] = s
        /\ \A i \in 1 .. n : statusCh'[i] = statusCh[i]
    BY <1>0, <2>3, <2>5, AppendFacts
  <2>7. s.kind \in {"answer", "signal"}
    BY <2>3 DEF InOrder, Status
  <2>8. ToSet(held') = {}
    BY <2>1, NoneFacts
  <2>9. ASSUME ~ flushed
        PROVE  AnswerFirst' /\ HasAnswer'
    <3>1. AnswerFirst /\ (s.kind = "signal" => HasAnswer)
      BY <2>3, <2>9 DEF InOrder
    <3> HIDE DEF n
    <3>2. n \in Nat /\ n = Len(statusCh)
      BY <1>0 DEF n
    <3>3. HasAnswer'
      <4>1. CASE s.kind = "answer"
        <5>1. n + 1 \in 1 .. Len(statusCh') /\ statusCh'[n + 1].kind = "answer"
          BY <2>6, <3>2, <4>1
        <5> QED
          BY <5>1 DEF HasAnswer
      <4>2. CASE s.kind = "signal"
        <5>1. PICK j \in 1 .. n : statusCh[j].kind = "answer"
          BY <3>1, <3>2, <4>2 DEF HasAnswer
        <5>2. j \in 1 .. Len(statusCh') /\ statusCh'[j].kind = "answer"
          BY <2>6, <3>2, <5>1
        <5> QED
          BY <5>2 DEF HasAnswer
      <4> QED
        BY <2>7, <4>1, <4>2
    <3>4. ASSUME NEW i \in 1 .. Len(statusCh'), statusCh'[i].kind = "signal"
          PROVE  \E j \in 1 .. i - 1 : statusCh'[j].kind = "answer"
      <4>1. CASE i = n + 1
        <5>1. PICK j \in 1 .. n : statusCh[j].kind = "answer"
          BY <2>6, <3>1, <3>2, <3>4, <4>1 DEF HasAnswer
        <5>2. j \in 1 .. i - 1 /\ statusCh'[j].kind = "answer"
          BY <2>6, <3>2, <4>1, <5>1
        <5> QED
          BY <5>2
      <4>2. CASE i # n + 1
        <5>1. i \in 1 .. n /\ statusCh[i].kind = "signal"
          BY <2>6, <3>2, <3>4, <4>2
        <5>2. PICK j \in 1 .. i - 1 : statusCh[j].kind = "answer"
          BY <3>1, <3>2, <5>1 DEF AnswerFirst
        <5>3. statusCh'[j].kind = "answer"
          BY <2>6, <3>2, <5>1, <5>2
        <5> QED
          BY <5>3
      <4> QED
        BY <4>1, <4>2
    <3> QED
      BY <3>3, <3>4 DEF AnswerFirst
  <2> QED
    BY <2>1, <2>8, <2>9 DEF InOrder
<1>9. CASE StopReceiving \/ TakeNilSignal
  <2>1. /\ rcv = "loop" /\ rcv' \in {"done", "panic"}
        /\ UNCHANGED <<ch, held, flushed, statusCh>>
    BY <1>9 DEF StopReceiving, TakeNilSignal
  <2> QED
    BY <2>1 DEF InOrder, AnswerFirst, HasAnswer
<1>10. CASE TakeSignal
  <2>1. ch \in Seq(Status) /\ ch # <<>>
    BY <1>10 DEF TakeSignal, Types, ChType
  <2>2. /\ Head(ch) \in Status
        /\ ToSet(ch) = {Head(ch)} \cup ToSet(Tail(ch))
    BY <2>1, TailFacts
  <2>3. /\ rcv = "loop" /\ rcv' = "send" /\ ch' = Tail(ch) /\ held' = <<Head(ch)>>
        /\ UNCHANGED <<flushed, statusCh>>
    BY <1>10 DEF TakeSignal
  <2>4. ToSet(held') = {Head(ch)}
    BY <2>2, <2>3, OneFacts
  <2> QED
    BY <2>2, <2>3, <2>4 DEF InOrder, AnswerFirst, HasAnswer
<1>11. CASE \/ AttemptUpdate \/ AttemptFailed \/ AskFirstStatus
            \/ FirstStatusFailed \/ CloseStopCh \/ Wait \/ CloseClient
  <2>1. UNCHANGED <<rcv, held, flushed, statusCh, ch>>
    BY <1>11 DEF AttemptUpdate, AttemptFailed, AskFirstStatus,
                 FirstStatusFailed, CloseStopCh, Wait, CloseClient
  <2> QED
    BY <1>1, <2>1 DEF InOrder
<1>12. CASE StartReceiver
  <2>1. rcv' = "start" /\ UNCHANGED <<held, flushed, statusCh, ch>>
    BY <1>12 DEF StartReceiver
  <2> QED
    BY <2>1 DEF InOrder, AnswerFirst, HasAnswer
<1>13. CASE SendMarker
  <2>1. /\ answers["main"] \in Seq(Answer)
        /\ Len(answers["main"]) <= 1 /\ answers["main"] # <<>>
    BY <1>13 DEF SendMarker, Types, CallType, Answer, Answered, Process
  <2>2. answers["main"][1] \in Answer
    BY <2>1, AtMostOneFacts
  <2> DEFINE s == [kind |-> "marker", op |-> answers["main"][1]]
             n == Len(statusCh)
  <2>3. s \in Status /\ s.kind = "marker" /\ statusCh' = Append(statusCh, s)
    BY <1>13, <2>2 DEF Status, Answer, SendMarker
  <2> HIDE DEF s
  <2>4. /\ Len(statusCh') = n + 1 /\ statusCh'[n + 1] = s
        /\ \A i \in 1 .. n : statusCh'[i] = statusCh[i]
    BY <1>0, <2>3, AppendFacts
  <2>5. n \in Nat /\ n = Len(statusCh)
    BY <1>0
  <2> HIDE DEF n
  <2>6. UNCHANGED <<rcv, held, flushed, ch>>
    BY <1>13 DEF SendMarker
  <2>7. AnswerFirst => AnswerFirst'
    <3> SUFFICES ASSUME AnswerFirst,
                        NEW i \in 1 .. Len(statusCh'), statusCh'[i].kind = "signal"
                 PROVE  \E j \in 1 .. i - 1 : statusCh'[j].kind = "answer"
      BY DEF AnswerFirst
    <3>1. i \in 1 .. n /\ statusCh[i].kind = "signal"
      BY <2>3, <2>4, <2>5
    <3>2. PICK j \in 1 .. i - 1 : statusCh[j].kind = "answer"
      BY <2>5, <3>1 DEF AnswerFirst
    <3>3. statusCh'[j].kind = "answer"
      BY <2>4, <2>5, <3>1, <3>2
    <3> QED
      BY <3>3
  <2>8. HasAnswer => HasAnswer'
    <3> SUFFICES ASSUME HasAnswer PROVE HasAnswer'
      OBVIOUS
    <3>1. PICK j \in 1 .. n : statusCh[j].kind = "answer"
      BY <2>5 DEF HasAnswer
    <3>2. j \in 1 .. Len(statusCh') /\ statusCh'[j].kind = "answer"
      BY <2>4, <2>5, <3>1
    <3> QED
      BY <3>2 DEF HasAnswer
  <2> QED
    BY <2>6, <2>7, <2>8 DEF InOrder
<1>14. CASE ReceiveStatus
  <2>1. statusCh # <<>> /\ statusCh' = Tail(statusCh) /\ UNCHANGED <<rcv, held, ch>>
    BY <1>14 DEF ReceiveStatus
  <2>2. CASE FlushStatus
    <3>1. flushed'
      BY <2>2 DEF FlushStatus
    <3> QED
      BY <2>1, <3>1 DEF InOrder
  <2>3. CASE ActOnStatus
    <3>1. flushed' = flushed /\ (~ flushed => Received.kind = "marker")
      BY <2>3 DEF ActOnStatus, Skipped
    <3> DEFINE n == Len(statusCh)
    <3>2. /\ n \in Nat \ {0} /\ Len(statusCh') = n - 1
          /\ \A i \in 1 .. n - 1 : statusCh'[i] = statusCh[i + 1]
          /\ Received = statusCh[1]
      BY <1>0, <2>1, TailFacts DEF Received
    <3>3. n = Len(statusCh)
      OBVIOUS
    <3> HIDE DEF n
    <3>4. ASSUME ~ flushed, NEW k \in 1 .. n, statusCh[k].kind # "marker"
          PROVE  k - 1 \in 1 .. n - 1 /\ statusCh'[k - 1] = statusCh[k]
      <4>1. k # 1
        BY <3>1, <3>2, <3>4
      <4> QED
        BY <3>2, <4>1
    <3>5. ~ flushed /\ AnswerFirst => AnswerFirst'
      <4> SUFFICES ASSUME ~ flushed, AnswerFirst,
                          NEW i \in 1 .. Len(statusCh'), statusCh'[i].kind = "signal"
                   PROVE  \E j \in 1 .. i - 1 : statusCh'[j].kind = "answer"
        BY DEF AnswerFirst
      <4>1. i + 1 \in 1 .. n /\ statusCh[i + 1].kind = "signal"
        BY <3>2
      <4>2. PICK j \in 1 .. i : statusCh[j].kind = "answer"
        <5>1. PICK j \in 1 .. (i + 1) - 1 : statusCh[j].kind = "answer"
          BY <3>3, <4>1 DEF AnswerFirst
        <5> QED
          BY <3>2, <5>1
      <4>3. j \in 1 .. n
        BY <3>2, <4>1, <4>2
      <4>4. j - 1 \in 1 .. n - 1 /\ statusCh'[j - 1] = statusCh[j]
        BY <3>4, <4>2, <4>3
      <4>5. j - 1 \in 1 .. i - 1 /\ statusCh'[j - 1].kind = "answer"
        BY <3>2, <4>2, <4>4
      <4> QED
        BY <4>5
    <3>6. ~ flushed /\ HasAnswer => HasAnswer'
      <4> SUFFICES ASSUME ~ flushed, HasAnswer PROVE HasAnswer'
        OBVIOUS
      <4>1. PICK j \in 1 .. n : statusCh[j].kind = "answer"
        BY <3>3 DEF HasAnswer
      <4>2. j - 1 \in 1 .. Len(statusCh') /\ statusCh'[j - 1].kind = "answer"
        BY <3>2, <3>4, <4>1
      <4> QED
        BY <4>2 DEF HasAnswer
    <3> QED
      BY <2>1, <3>1, <3>5, <3>6 DEF InOrder
  <2> QED
    BY <1>14, <2>2, <2>3 DEF ReceiveStatus
<1>15. CASE UNCHANGED vars
  <2>1. UNCHANGED <<rcv, held, flushed, statusCh, ch>>
    BY <1>15 DEF vars
  <2> QED
    BY <1>1, <2>1 DEF InOrder
<1> QED
  BY <1>2, <1>3, <1>4, <1>6, <1>7, <1>8, <1>9, <1>10, <1>11, <1>12, <1>13,
     <1>14, <1>15
  DEF WatchNext, Worker, Deliver, Receiver, Main

(* So it holds at all times.                                              *)
LEMMA InOrderAlways == WatchSpec => []InOrder
<1>1. Types /\ InOrder /\ [WatchNext]_vars => InOrder'
  BY InOrderStep
<1> QED
  BY <1>1, InOrderInit, TypesAlways, PTL DEF WatchSpec
-----------------------------------------------------------------------------
(* Main has one call at a time: a request, an answer on the wire, in the  *)
(* hands of inWorker, or delivered, and as long as the connection is open *)
(* none unless it waits for one.                                          *)
AtMostOne(s, P) ==
  \A i, j \in 1 .. Len(s) : s[i] \in P /\ s[j] \in P => i = j

(* A second one is not appended.                                          *)
LEMMA AtMostOneAppend ==
  ASSUME NEW S, NEW s \in Seq(S), NEW e \in S, NEW P,
         AtMostOne(s, P), e \in P => ToSet(s) \cap P = {}
  PROVE  AtMostOne(Append(s, e), P)
<1> DEFINE t == Append(s, e)
           n == Len(s)
<1>1. /\ n \in Nat /\ Len(t) = n + 1 /\ t[n + 1] = e
      /\ \A i \in 1 .. n : t[i] = s[i]
  BY AppendFacts
<1>2. \A i \in 1 .. n : s[i] \in ToSet(s)
  BY DEF ToSet
<1>3. n = Len(s)
  OBVIOUS
<1> HIDE DEF t, n
<1>4. ASSUME NEW i \in 1 .. Len(t), NEW j \in 1 .. Len(t), t[i] \in P, t[j] \in P
      PROVE  i = j
  <2>1. CASE i # n + 1 /\ j # n + 1
    <3>1. i \in 1 .. n /\ j \in 1 .. n /\ s[i] \in P /\ s[j] \in P
      BY <1>1, <1>4, <2>1
    <3> QED
      BY <1>3, <3>1 DEF AtMostOne
  <2>2. CASE i = n + 1 /\ j # n + 1
    <3>1. j \in 1 .. n /\ s[j] \in P /\ e \in P
      BY <1>1, <1>4, <2>2
    <3> QED
      BY <1>2, <3>1
  <2>3. CASE i # n + 1 /\ j = n + 1
    <3>1. i \in 1 .. n /\ s[i] \in P /\ e \in P
      BY <1>1, <1>4, <2>3
    <3> QED
      BY <1>2, <3>1
  <2> QED
    BY <2>1, <2>2, <2>3
<1> QED
  BY <1>4 DEF AtMostOne, t

(* When the one is taken, none is left.                                   *)
LEMMA AtMostOneTail ==
  ASSUME NEW S, NEW s \in Seq(S), s # <<>>, NEW P, AtMostOne(s, P)
  PROVE  /\ AtMostOne(Tail(s), P)
         /\ Head(s) \in P => ToSet(Tail(s)) \cap P = {}
<1> DEFINE t == Tail(s)
           n == Len(s)
<1>1. /\ n \in Nat \ {0} /\ Len(t) = n - 1 /\ Head(s) = s[1]
      /\ \A i \in 1 .. n - 1 : t[i] = s[i + 1]
      /\ t \in Seq(S)
  BY TailFacts
<1>2. DOMAIN t = 1 .. n - 1
  BY <1>1
<1>3. n = Len(s)
  OBVIOUS
<1> HIDE DEF t, n
<1>4. ASSUME NEW i \in 1 .. Len(t), NEW j \in 1 .. Len(t), t[i] \in P, t[j] \in P
      PROVE  i = j
  <2>1. /\ i + 1 \in 1 .. n /\ j + 1 \in 1 .. n
        /\ s[i + 1] \in P /\ s[j + 1] \in P
    BY <1>1, <1>4
  <2>2. i + 1 = j + 1
    BY <1>3, <2>1 DEF AtMostOne
  <2> QED
    BY <1>1, <2>2
<1>5. ASSUME s[1] \in P, NEW x \in ToSet(t), x \in P
      PROVE  FALSE
  <2>1. PICK i \in 1 .. n - 1 : x = t[i]
    BY <1>2, <1>5 DEF ToSet
  <2>2. i + 1 \in 1 .. n /\ 1 \in 1 .. n /\ s[i + 1] \in P
    BY <1>1, <1>5, <2>1
  <2>3. i + 1 = 1
    BY <1>3, <1>5, <2>2 DEF AtMostOne
  <2> QED
    BY <1>1, <2>3
<1>6. AtMostOne(t, P)
  BY <1>4 DEF AtMostOne
<1>7. s[1] \in P => ToSet(t) \cap P = {}
  BY <1>5
<1> QED
  BY <1>1, <1>6, <1>7 DEF t

MainRequests == {r \in Request : r.from = "main"}
MainMessages == {m \in Message : m.to = "main"}

Requested == ToSet(requests) \cap MainRequests # {}
OnTheWire == ToSet(wire) \cap MainMessages # {}
Read      == ToSet(inHand) \cap MainMessages # {}
Delivered == answers["main"] # <<>>

OneCall ==
  /\ AtMostOne(requests, MainRequests) /\ AtMostOne(wire, MainMessages)
  /\ ~ (Requested /\ OnTheWire) /\ ~ (Requested /\ Read)
  /\ ~ (Requested /\ Delivered) /\ ~ (OnTheWire /\ Read)
  /\ ~ (OnTheWire /\ Delivered) /\ ~ (Read /\ Delivered)
  /\ connOpen /\ (Requested \/ OnTheWire \/ Read \/ Delivered)
       => main \in {"attempted", "asked"}

(* Main has no call at the start.                                         *)
LEMMA OneCallInit == WatchInit => OneCall
<1> SUFFICES ASSUME WatchInit PROVE OneCall
  OBVIOUS
<1>1. /\ Len(requests) = 0 /\ Len(wire) = 0
      /\ ToSet(requests) = {} /\ ToSet(wire) = {} /\ ToSet(inHand) = {}
      /\ answers["main"] = <<>>
  BY NoneFacts DEF WatchInit
<1> QED
  BY <1>1 DEF OneCall, AtMostOne, Requested, OnTheWire, Read, Delivered

(* Every step moves the call, or leaves it where it is.                   *)
LEMMA OneCallStep ==
  ASSUME Types, OneCall, [WatchNext]_vars
  PROVE  OneCall'
<1>0. /\ requests \in Seq(Request) /\ wire \in Seq(Message) /\ CallType
      /\ inHand \in Seq(Message) /\ Len(inHand) <= 1
  BY DEF Types, CallType, WireType, HandType
<1>20. ASSUME NEW e \in Message
       PROVE  ToSet(Append(wire, e)) = ToSet(wire) \cup {e}
  BY <1>0, AppendFacts
<1>1. ASSUME UNCHANGED <<requests, wire, inHand>>,
             answers'["main"] = answers["main"], connOpen' => connOpen,
             main' = main \/ main \notin {"attempted", "asked"}
      PROVE  OneCall'
  BY <1>1 DEF OneCall, Requested, OnTheWire, Read, Delivered
<1>2. ASSUME NEW o \in Operation, Announce(o)
      PROVE  OneCall'
  <2> DEFINE m == [to |-> "ch", op |-> o]
  <2>1. m \in Message /\ m \notin MainMessages
    BY DEF Message, MainMessages
  <2>2. wire' = wire \/ wire' = Append(wire, m)
    BY <1>2 DEF Announce
  <2>3. UNCHANGED <<requests, inHand, answers, main, connOpen>>
    BY <1>2 DEF Announce
  <2> HIDE DEF m
  <2>4. AtMostOne(wire', MainMessages)
    BY <1>0, <2>1, <2>2, AtMostOneAppend DEF OneCall
  <2>5. OnTheWire' <=> OnTheWire
    <3>1. ToSet(Append(wire, m)) = ToSet(wire) \cup {m}
      BY <1>0, <2>1, AppendFacts
    <3> QED
      BY <2>1, <2>2, <3>1 DEF OnTheWire
  <2> QED
    BY <2>3, <2>4, <2>5 DEF OneCall, Requested, Read, Delivered
<1>3. CASE Serve
  <2>1. PICK o \in {op, ""} :
          wire' = IF connOpen
                  THEN Append(wire, [to |-> Head(requests).from, op |-> o])
                  ELSE wire
    BY <1>3 DEF Serve
  <2>2. /\ requests # <<>> /\ requests' = Tail(requests)
        /\ UNCHANGED <<inHand, answers, main, connOpen>>
    BY <1>3 DEF Serve
  <2> DEFINE r == Head(requests)
             m == [to |-> Head(requests).from, op |-> o]
  <2>3. r \in Request /\ ToSet(requests) = {r} \cup ToSet(requests')
    BY <1>0, <2>2, TailFacts
  <2>4. m \in Message /\ (m \in MainMessages <=> r \in MainRequests)
    BY <2>3 DEF Request, Process, Message, MainMessages, MainRequests, Types, DaemonType
  <2>5. wire' = wire \/ wire' = Append(wire, m)
    BY <2>1
  <2> HIDE DEF r, m
  <2>6. /\ AtMostOne(requests', MainRequests)
        /\ r \in MainRequests => ToSet(requests') \cap MainRequests = {}
    BY <1>0, <2>2, AtMostOneTail DEF OneCall, r
  <2>7. ToSet(Append(wire, m)) = ToSet(wire) \cup {m}
    BY <1>20, <2>4
  <2>8. r \in MainRequests => Requested /\ ~ Requested' /\ ~ OnTheWire
    BY <2>3, <2>6 DEF Requested, OneCall
  <2>9. r \notin MainRequests => (Requested' <=> Requested) /\ (OnTheWire' <=> OnTheWire)
    BY <2>3, <2>4, <2>5, <2>7 DEF Requested, OnTheWire
  <2>10. AtMostOne(wire', MainMessages)
    <3>1. m \in MainMessages => ToSet(wire) \cap MainMessages = {}
      BY <2>4, <2>8 DEF OnTheWire
    <3> QED
      BY <1>0, <2>4, <2>5, <3>1, AtMostOneAppend DEF OneCall
  <2>11. (Read' <=> Read) /\ (Delivered' <=> Delivered)
    BY <2>2 DEF Read, Delivered
  <2> QED
    BY <2>2, <2>6, <2>8, <2>9, <2>10, <2>11 DEF OneCall
<1>4. CASE BeginCheck
  BY <1>2, <1>4, Operations DEF BeginCheck
<1>5. CASE Work
  BY <1>2, <1>5 DEF Work
<1>6. CASE Download
  BY <1>2, <1>6, Operations DEF Download
<1>7. CASE ReadMessage
  <2>1. /\ inHand = <<>> /\ wire # <<>>
        /\ inHand' = <<Head(wire)>> /\ wire' = Tail(wire)
        /\ UNCHANGED <<requests, answers, main, connOpen>>
    BY <1>7 DEF ReadMessage
  <2> DEFINE m == Head(wire)
  <2>2. m \in Message /\ ToSet(wire) = {m} \cup ToSet(wire')
    BY <1>0, <2>1, TailFacts
  <2>3. ToSet(inHand') = {m} /\ ToSet(inHand) = {}
    BY <2>1, <2>2, OneFacts, NoneFacts
  <2>4. /\ AtMostOne(wire', MainMessages)
        /\ m \in MainMessages => ToSet(wire') \cap MainMessages = {}
    BY <1>0, <2>1, AtMostOneTail DEF OneCall
  <2> HIDE DEF m
  <2>5. m \in MainMessages => OnTheWire /\ ~ OnTheWire' /\ Read'
    BY <2>2, <2>3, <2>4 DEF OnTheWire, Read
  <2>6. m \notin MainMessages => (OnTheWire' <=> OnTheWire) /\ ~ Read'
    BY <2>2, <2>3 DEF OnTheWire, Read
  <2>7. (Requested' <=> Requested) /\ (Delivered' <=> Delivered)
    BY <2>1 DEF Requested, Delivered
  <2> QED
    BY <2>1, <2>4, <2>5, <2>6, <2>7 DEF OneCall
<1>8. CASE DeliverAnswer
  <2>1. /\ inHand # <<>> /\ inHand' = <<>>
        /\ answers' = WithAnswer(inHand[1].to, <<inHand[1].op>>)
        /\ inHand[1].to # "ch"
        /\ UNCHANGED <<requests, wire, main, connOpen>>
    BY <1>8 DEF DeliverAnswer, WithAnswer
  <2>2. inHand[1] \in Message /\ ToSet(inHand) = {inHand[1]}
    BY <1>0, <2>1, AtMostOneFacts
  <2>3. ToSet(inHand') = {} /\ ~ Read'
    BY <2>1, NoneFacts DEF Read
  <2> DEFINE p == inHand[1].to
             a == inHand[1].op
  <2>4. p \in Process /\ a \in Answer
    BY <2>1, <2>2 DEF Message, Process, Answer
  <2>5. <<a>> \in Seq(Answer) /\ Len(<<a>>) <= 1
    BY <2>4, OneFacts
  <2>6. p # "main" => answers'["main"] = answers["main"]
    <3> HIDE DEF p, a
    <3>1. answers' = WithAnswer(p, <<a>>)
      BY <2>1 DEF p, a
    <3> QED
      BY <1>0, <2>4, <2>5, <3>1, WithAnswerFacts DEF Process
  <2>7. p = "main" => Read
    BY <2>2 DEF Read, MainMessages
  <2>8. (Requested' <=> Requested) /\ (OnTheWire' <=> OnTheWire)
    BY <2>1 DEF Requested, OnTheWire
  <2>9. CASE p = "main"
    BY <2>1, <2>3, <2>7, <2>8, <2>9 DEF OneCall
  <2>10. CASE p # "main"
    <3>1. Delivered' <=> Delivered
      BY <2>6, <2>10 DEF Delivered
    <3> QED
      BY <2>1, <2>3, <2>8, <3>1 DEF OneCall
  <2> QED
    BY <2>9, <2>10
<1>9. CASE LockSignals \/ ReadFails
  BY <1>1, <1>9 DEF LockSignals, ReadFails
<1>10. CASE SendSignal
  <2>1. /\ inHand' = <<>> /\ UNCHANGED <<requests, wire, answers, main, connOpen>>
    BY <1>10 DEF SendSignal
  <2>2. ToSet(inHand') = {} /\ ~ Read'
    BY <2>1, NoneFacts DEF Read
  <2> QED
    BY <2>1, <2>2 DEF OneCall, Requested, OnTheWire, Delivered
<1>11. ASSUME NEW method \in {"AttemptUpdate", "GetStatus"}, Send("receiver", method),
              UNCHANGED <<wire, inHand, answers, main, connOpen>>
       PROVE  OneCall'
  <2> DEFINE r == [from |-> "receiver", method |-> method]
  <2>1. /\ r \in Request /\ r \notin MainRequests
        /\ requests' = Append(requests, r)
    BY <1>11 DEF Request, Process, MainRequests, Send
  <2> HIDE DEF r
  <2>2. ToSet(requests') = ToSet(requests) \cup {r}
    BY <1>0, <2>1, AppendFacts
  <2>3. AtMostOne(requests', MainRequests)
    BY <1>0, <2>1, AtMostOneAppend DEF OneCall
  <2>4. Requested' <=> Requested
    BY <2>1, <2>2 DEF Requested
  <2> QED
    BY <1>11, <2>3, <2>4 DEF OneCall, OnTheWire, Read, Delivered
<1>12. CASE RegisterAndAsk
  <2>1. UNCHANGED <<wire, inHand, answers, main, connOpen>>
    BY <1>12 DEF RegisterAndAsk
  <2>2. Send("receiver", "GetStatus") \/ UNCHANGED requests
    BY <1>12 DEF RegisterAndAsk
  <2> QED
    BY <1>1, <1>11, <2>1, <2>2
<1>13. ASSUME NEW p \in Process, TakeAnswer(p)
       PROVE  /\ p = "main" => ~ Delivered'
              /\ p # "main" => answers'["main"] = answers["main"]
  <2>1. answers' = WithAnswer(p, <<>>)
    BY <1>13 DEF TakeAnswer, WithAnswer
  <2>2. <<>> \in Seq(Answer) /\ Len(<<>>) <= 1
    BY NoneFacts
  <2> QED
    BY <1>0, <2>1, <2>2, WithAnswerFacts DEF Delivered, Process
<1>14. CASE GotStatus
  <2>1. UNCHANGED <<requests, wire, inHand, main, connOpen>>
    BY <1>14 DEF GotStatus
  <2>2. TakeAnswer("receiver") \/ UNCHANGED answers
    BY <1>14 DEF GotStatus
  <2> QED
    BY <1>1, <1>13, <2>1, <2>2 DEF Process
<1>15. CASE ForwardStatus \/ StopReceiving \/ TakeSignal \/ TakeNilSignal
  BY <1>1, <1>15 DEF ForwardStatus, StopReceiving, TakeSignal, TakeNilSignal
<1>16. CASE AttemptUpdate \/ AskFirstStatus
  <2>1. /\ main \in {"attempt", "first"} /\ main' \in {"attempted", "asked"}
        /\ UNCHANGED <<wire, inHand, answers, connOpen>>
    BY <1>16 DEF AttemptUpdate, AskFirstStatus
  <2>2. CASE ~ connOpen
    <3>1. requests' = requests
      BY <1>16, <2>2 DEF AttemptUpdate, AskFirstStatus, Call
    <3> QED
      BY <2>1, <2>2, <3>1 DEF OneCall, Requested, OnTheWire, Read, Delivered
  <2>3. CASE connOpen
    <3>1. PICK method \in {"AttemptUpdate", "GetStatus"} : Send("main", method)
      BY <1>16, <2>3 DEF AttemptUpdate, AskFirstStatus, Call
    <3>2. ~ Requested /\ ~ OnTheWire /\ ~ Read /\ ~ Delivered
      BY <2>1, <2>3 DEF OneCall
    <3> DEFINE r == [from |-> "main", method |-> method]
    <3>3. r \in Request /\ requests' = Append(requests, r)
      BY <3>1 DEF Request, Process, Send
    <3> HIDE DEF r
    <3>4. AtMostOne(requests', MainRequests)
      BY <1>0, <3>2, <3>3, AtMostOneAppend DEF OneCall, Requested
    <3>5. ~ OnTheWire' /\ ~ Read' /\ ~ Delivered'
      BY <2>1, <3>2 DEF OnTheWire, Read, Delivered
    <3>6. AtMostOne(wire', MainMessages)
      BY <2>1 DEF OneCall
    <3> QED
      BY <2>1, <3>4, <3>5, <3>6 DEF OneCall
  <2> QED
    BY <2>2, <2>3
<1>17. CASE AttemptFailed \/ StartReceiver \/ FirstStatusFailed \/ SendMarker
  <2>1. UNCHANGED <<requests, wire, inHand, connOpen>>
    BY <1>17 DEF AttemptFailed, StartReceiver, FirstStatusFailed, SendMarker
  <2>2. CASE TakeAnswer("main") /\ Delivered
    <3>1. ~ Delivered'
      BY <1>13, <2>2 DEF Process
    <3>2. ~ Requested /\ ~ OnTheWire /\ ~ Read
      BY <2>2 DEF OneCall
    <3> QED
      BY <2>1, <3>1, <3>2 DEF OneCall, Requested, OnTheWire, Read
  <2>3. CASE ~ connOpen /\ UNCHANGED answers
    BY <2>1, <2>3 DEF OneCall, Requested, OnTheWire, Read, Delivered
  <2>4. \/ TakeAnswer("main") /\ Delivered
        \/ ~ connOpen /\ UNCHANGED answers
    <3>1. <<"">> # <<>>
      OBVIOUS
    <3> QED
      BY <1>17, <3>1 DEF AttemptFailed, StartReceiver, FirstStatusFailed,
                         SendMarker, CallFails, Failed, Answered, Delivered
  <2> QED
    BY <2>2, <2>3, <2>4
<1>18. CASE ReceiveStatus \/ CloseStopCh \/ Wait \/ CloseClient
  <2>1. /\ main \notin {"attempted", "asked"} /\ (connOpen' => connOpen)
        /\ UNCHANGED <<requests, wire, inHand, answers>>
    BY <1>18 DEF ReceiveStatus, CloseStopCh, Wait, CloseClient
  <2> QED
    BY <1>1, <2>1
<1>19. CASE UNCHANGED vars
  BY <1>1, <1>19 DEF vars
<1> QED
  BY <1>3, <1>4, <1>5, <1>6, <1>7, <1>8, <1>9, <1>10, <1>12, <1>14, <1>15,
     <1>16, <1>17, <1>18, <1>19
  DEF WatchNext, Daemon, Worker, Deliver, Receiver, Main

(* Main's call is in one place at any time.                               *)
LEMMA OneCallAlways == WatchSpec => []OneCall
<1>1. Types /\ OneCall /\ [WatchNext]_vars => OneCall'
  BY OneCallStep
<1> QED
  BY <1>1, OneCallInit, TypesAlways, PTL DEF WatchSpec
-----------------------------------------------------------------------------
(* When the daemon is where main stops waiting, the announcement or the   *)
(* marker that says so is on its way to main, or main's own call is going *)
(* to say so.                                                             *)
Deciding == {"idle", "needReboot"}

UrgentMessages(d) == {m \in Message : m.to = "ch" /\ m.op = d}
UrgentStatuses(d) == {s \in Status : s.kind # "answer" /\ s.op = d}

InMessages(P) == (ToSet(wire) \cup ToSet(inHand)) \cap P # {}
InStatuses(P) == (ToSet(ch) \cup ToSet(held) \cup ToSet(statusCh)) \cap P # {}

Coming(d) == InMessages(UrgentMessages(d)) \/ InStatuses(UrgentStatuses(d))

Telling(d)      == {d, ""}
OwnMessages(d)  == {m \in MainMessages : m.op \in Telling(d)}
OwnDelivered(d) == Delivered /\ answers["main"][1] \in Telling(d)
OwnAnswer(d)    == Requested \/ InMessages(OwnMessages(d)) \/ OwnDelivered(d)

NotMissed ==
  connOpen => \A d \in Deciding :
    op = d /\ main \in {"asked", "loop"} =>
      Coming(d) \/ (main = "asked" /\ OwnAnswer(d))

(* No step but the one that main acts on takes what is coming away.       *)
LEMMA ComingStays ==
  ASSUME NEW d \in Deciding, Types, InOrder, Coming(d), [WatchNext]_vars,
         main' \in {"asked", "loop"}
  PROVE  Coming(d)'
<1>0. /\ wire \in Seq(Message) /\ inHand \in Seq(Message) /\ Len(inHand) <= 1
      /\ ch \in Seq(Status) /\ held \in Seq(Status) /\ Len(held) <= 1
      /\ statusCh \in Seq(Status) /\ op \in Operation
      /\ (rcv = "send" <=> held # <<>>)
      /\ (locked => inHand # <<>> /\ inHand[1].to = "ch")
  BY DEF Types, WireType, HandType, ChType, RcvType, StatusType, DaemonType
<1>1. ASSUME ToSet(wire) \subseteq ToSet(wire'),
             UNCHANGED <<inHand, ch, held, statusCh>>
      PROVE  Coming(d)'
  BY <1>1 DEF Coming, InMessages, InStatuses
<1>2. ASSUME UNCHANGED <<wire, inHand, ch, held, statusCh>>
      PROVE  Coming(d)'
  BY <1>2 DEF Coming, InMessages, InStatuses
<1>3. ASSUME NEW e \in Message, wire' = Append(wire, e)
      PROVE  ToSet(wire) \subseteq ToSet(wire')
  BY <1>0, <1>3, AppendFacts
<1>4. CASE Daemon
  <2>1. UNCHANGED <<inHand, ch, held, statusCh>>
    BY <1>4 DEF Daemon, Serve, BeginCheck, Work, Download, Announce
  <2>2. \/ wire' = wire
        \/ \E e \in Message : wire' = Append(wire, e)
    <3>1. ASSUME NEW o \in Operation, Announce(o)
          PROVE  \/ wire' = wire
                 \/ \E e \in Message : wire' = Append(wire, e)
      <4>1. [to |-> "ch", op |-> o] \in Message
        BY DEF Message
      <4> QED
        BY <3>1, <4>1 DEF Announce
    <3>2. CASE Serve
      <4>1. Head(requests) \in Request
        <5>1. requests \in Seq(Request) /\ requests # <<>>
          BY <3>2 DEF Serve, Types, CallType
        <5> QED
          BY <5>1, TailFacts
      <4>2. PICK o \in Operation \cup {""} :
              wire' = IF connOpen
                      THEN Append(wire, [to |-> Head(requests).from, op |-> o])
                      ELSE wire
        BY <1>0, <3>2 DEF Serve
      <4>3. [to |-> Head(requests).from, op |-> o] \in Message
        BY <4>1, <4>2 DEF Request, Process, Message
      <4> QED
        BY <4>2, <4>3
    <3>3. CASE BeginCheck \/ Download
      <4>1. Announce("checking") \/ Announce("downloading")
        BY <3>3 DEF BeginCheck, Download
      <4> QED
        BY <3>1, <4>1, Operations
    <3>4. CASE Work
      <4>1. PICK o \in Operation : Announce(o)
        BY <3>4 DEF Work
      <4> QED
        BY <3>1, <4>1
    <3> QED
      BY <1>4, <3>2, <3>3, <3>4 DEF Daemon
  <2>3. ToSet(wire) \subseteq ToSet(wire')
    BY <1>3, <2>2
  <2> QED
    BY <1>1, <2>1, <2>3
<1>5. CASE ReadMessage
  <2>1. /\ inHand = <<>> /\ wire # <<>>
        /\ inHand' = <<Head(wire)>> /\ wire' = Tail(wire)
        /\ UNCHANGED <<ch, held, statusCh>>
    BY <1>5 DEF ReadMessage
  <2> DEFINE m == Head(wire)
  <2>2. m \in Message /\ ToSet(wire) = {m} \cup ToSet(wire')
    BY <1>0, <2>1, TailFacts
  <2>3. ToSet(inHand') = {m} /\ ToSet(inHand) = {}
    BY <2>1, <2>2, OneFacts, NoneFacts
  <2> HIDE DEF m
  <2> QED
    BY <2>1, <2>2, <2>3 DEF Coming, InMessages, InStatuses
<1>6. CASE DeliverAnswer
  <2>1. /\ inHand # <<>> /\ inHand[1].to # "ch" /\ inHand' = <<>>
        /\ UNCHANGED <<wire, ch, held, statusCh>>
    BY <1>6 DEF DeliverAnswer
  <2>2. ToSet(inHand) = {inHand[1]}
    BY <1>0, <2>1, AtMostOneFacts
  <2>3. ToSet(inHand) \cap UrgentMessages(d) = {}
    BY <2>1, <2>2 DEF UrgentMessages
  <2> QED
    BY <2>1, <2>3 DEF Coming, InMessages, InStatuses
<1>7. CASE LockSignals \/ ReadFails
  BY <1>2, <1>7 DEF LockSignals, ReadFails
<1>8. CASE SendSignal
  <2>1. /\ locked /\ inHand' = <<>>
        /\ ch' = Append(ch, [kind |-> "signal", op |-> inHand[1].op])
        /\ UNCHANGED <<wire, held, statusCh>>
    BY <1>8 DEF SendSignal, ChannelTakes
  <2>2. inHand[1] \in Message /\ ToSet(inHand) = {inHand[1]}
    BY <1>0, <2>1, AtMostOneFacts
  <2> DEFINE s == [kind |-> "signal", op |-> inHand[1].op]
  <2>3. /\ s \in Status
        /\ inHand[1] \in UrgentMessages(d) => s \in UrgentStatuses(d)
    BY <2>2 DEF Message, Status, UrgentMessages, UrgentStatuses
  <2> HIDE DEF s
  <2>4. ToSet(ch') = ToSet(ch) \cup {s}
    <3>1. ch' = Append(ch, s)
      BY <2>1 DEF s
    <3> QED
      BY <1>0, <2>3, <3>1, AppendFacts
  <2> QED
    BY <2>1, <2>2, <2>3, <2>4 DEF Coming, InMessages, InStatuses
<1>9. CASE RegisterAndAsk \/ GotStatus
  <2>1. UNCHANGED <<wire, inHand, ch, statusCh>> /\ rcv # "send"
    BY <1>9 DEF RegisterAndAsk, GotStatus
  <2>2. ToSet(held) = {}
    BY <1>0, <2>1, NoneFacts
  <2> QED
    BY <2>1, <2>2 DEF Coming, InMessages, InStatuses
<1>10. CASE ForwardStatus
  <2>1. /\ rcv = "send" /\ statusCh' = statusCh \o held /\ held' = <<>>
        /\ UNCHANGED <<wire, inHand, ch>>
    BY <1>10 DEF ForwardStatus
  <2>2. /\ held[1] \in Status /\ held = <<held[1]>>
        /\ ToSet(held) = {held[1]}
    BY <1>0, <2>1, AtMostOneFacts
  <2>3. statusCh' = Append(statusCh, held[1])
    BY <1>0, <2>1, <2>2, AppendHeld
  <2>4. ToSet(statusCh') = ToSet(statusCh) \cup ToSet(held)
    BY <1>0, <2>2, <2>3, AppendFacts
  <2> QED
    BY <2>1, <2>4 DEF Coming, InMessages, InStatuses
<1>11. CASE StopReceiving \/ TakeNilSignal
  BY <1>2, <1>11 DEF StopReceiving, TakeNilSignal
<1>12. CASE TakeSignal
  <2>1. /\ ch # <<>> /\ held' = <<Head(ch)>> /\ ch' = Tail(ch) /\ rcv = "loop"
        /\ UNCHANGED <<wire, inHand, statusCh>>
    BY <1>12 DEF TakeSignal
  <2> DEFINE s == Head(ch)
  <2>2. s \in Status /\ ToSet(ch) = {s} \cup ToSet(ch')
    BY <1>0, <2>1, TailFacts
  <2>3. ToSet(held') = {s} /\ ToSet(held) = {}
    BY <1>0, <2>1, <2>2, OneFacts, NoneFacts
  <2> HIDE DEF s
  <2> QED
    BY <2>1, <2>2, <2>3 DEF Coming, InMessages, InStatuses
<1>13. CASE SendMarker
  <2>1. /\ statusCh' = Append(statusCh, [kind |-> "marker", op |-> answers["main"][1]])
        /\ Answered("main") /\ UNCHANGED <<wire, inHand, ch, held>>
    BY <1>13 DEF SendMarker
  <2> DEFINE s == [kind |-> "marker", op |-> answers["main"][1]]
  <2>2. s \in Status
    <3>1. answers["main"] \in Seq(Answer) /\ answers["main"] # <<>>
      BY <2>1 DEF Types, CallType, Process, Answered, Answer
    <3>2. answers["main"][1] \in Answer
      BY <3>1, TailFacts
    <3> QED
      BY <3>2 DEF Status, Answer
  <2> HIDE DEF s
  <2>3. ToSet(statusCh') = ToSet(statusCh) \cup {s}
    <3>1. statusCh' = Append(statusCh, s)
      BY <2>1 DEF s
    <3> QED
      BY <1>0, <2>2, <3>1, AppendFacts
  <2> QED
    BY <2>1, <2>3 DEF Coming, InMessages, InStatuses
<1>14. CASE ReceiveStatus
  <2>1. /\ statusCh # <<>> /\ statusCh' = Tail(statusCh)
        /\ UNCHANGED <<wire, inHand, ch, held>>
    BY <1>14 DEF ReceiveStatus
  <2>2. /\ Received \in Status /\ Received = statusCh[1] /\ 1 \in 1 .. Len(statusCh)
        /\ ToSet(statusCh) = {Received} \cup ToSet(statusCh')
    BY <1>0, <2>1, TailFacts DEF Received
  <2>3. Received \notin UrgentStatuses(d)
    <3>1. CASE FlushStatus
      <4>1. ~ flushed /\ Received.kind # "marker"
        BY <3>1 DEF FlushStatus, Skipped
      <4>2. Received.kind # "signal"
        BY <2>2, <4>1 DEF InOrder, AnswerFirst
      <4> QED
        BY <2>2, <4>1, <4>2 DEF Status, UrgentStatuses
    <3>2. CASE ActOnStatus
      <4>1. main' # "stop"
        OBVIOUS
      <4>2. Received.op # d
        BY <3>2, <4>1 DEF ActOnStatus, Decision, Deciding
      <4> QED
        BY <4>2 DEF UrgentStatuses
    <3> QED
      BY <1>14, <3>1, <3>2 DEF ReceiveStatus
  <2> QED
    BY <2>1, <2>2, <2>3 DEF Coming, InMessages, InStatuses
<1>15. CASE AttemptUpdate \/ AttemptFailed \/ StartReceiver \/ AskFirstStatus
            \/ FirstStatusFailed \/ CloseStopCh \/ Wait \/ CloseClient
  BY <1>2, <1>15 DEF AttemptUpdate, AttemptFailed, StartReceiver,
     AskFirstStatus, FirstStatusFailed, CloseStopCh, Wait, CloseClient
<1>16. CASE UNCHANGED vars
  BY <1>2, <1>16 DEF vars
<1> QED
  BY <1>4, <1>5, <1>6, <1>7, <1>8, <1>9, <1>10, <1>11, <1>12, <1>13, <1>14,
     <1>15, <1>16
  DEF WatchNext, Worker, Deliver, Receiver, Main

(* While main waits for its own answer, that answer stays on its way, and *)
(* the daemon's part of it is written when the update is already staged.  *)
LEMMA OwnAnswerStays ==
  ASSUME NEW d \in Deciding, Types, OneCall, OwnAnswer(d), op = d, main = "asked",
         connOpen, [WatchNext]_vars, main' = "asked"
  PROVE  OwnAnswer(d)'
<1>0. /\ requests \in Seq(Request) /\ wire \in Seq(Message) /\ CallType
      /\ inHand \in Seq(Message) /\ Len(inHand) <= 1
      /\ (locked => inHand # <<>> /\ inHand[1].to = "ch")
  BY DEF Types, CallType, WireType, HandType
<1>1. ASSUME ToSet(requests) \subseteq ToSet(requests'),
             ToSet(wire) \subseteq ToSet(wire'), inHand' = inHand,
             answers'["main"] = answers["main"]
      PROVE  OwnAnswer(d)'
  BY <1>1 DEF OwnAnswer, Requested, InMessages, OwnDelivered, Delivered
<1>2. ASSUME NEW o \in Operation, Announce(o)
      PROVE  OwnAnswer(d)'
  <2> DEFINE m == [to |-> "ch", op |-> o]
  <2>1. m \in Message
    BY DEF Message
  <2>2. UNCHANGED <<requests, inHand, answers>> /\ wire' = Append(wire, m)
    BY <1>2 DEF Announce
  <2> HIDE DEF m
  <2>3. ToSet(wire) \subseteq ToSet(wire')
    BY <1>0, <2>1, <2>2, AppendFacts
  <2> QED
    BY <1>1, <2>2, <2>3
<1>20. ASSUME NEW e \in Message
       PROVE  ToSet(Append(wire, e)) = ToSet(wire) \cup {e}
  BY <1>0, AppendFacts
<1>21. ASSUME NEW r \in Request
       PROVE  ToSet(Append(requests, r)) = ToSet(requests) \cup {r}
  BY <1>0, AppendFacts
<1>3. CASE Serve
  <2>1. PICK o \in {d, ""} :
          wire' = Append(wire, [to |-> Head(requests).from, op |-> o])
    BY <1>3 DEF Serve
  <2>2. /\ requests # <<>> /\ requests' = Tail(requests)
        /\ UNCHANGED <<inHand, answers>>
    BY <1>3 DEF Serve
  <2> DEFINE r == Head(requests)
             m == [to |-> Head(requests).from, op |-> o]
  <2>3. r \in Request /\ ToSet(requests) = {r} \cup ToSet(requests')
    BY <1>0, <2>2, TailFacts
  <2>4. m \in Message /\ (r \in MainRequests => m \in OwnMessages(d))
    BY <2>3 DEF Request, Process, Message, Operation, MainMessages,
                MainRequests, OwnMessages, Telling, Deciding
  <2>5. wire' = Append(wire, m)
    BY <2>1
  <2> HIDE DEF r, m
  <2>6. ToSet(wire') = ToSet(wire) \cup {m}
    BY <1>20, <2>4, <2>5
  <2>7. CASE Requested
    BY <2>3, <2>4, <2>6, <2>7 DEF OwnAnswer, Requested, InMessages
  <2>8. CASE ~ Requested
    BY <2>2, <2>6, <2>8 DEF OwnAnswer, InMessages, OwnDelivered, Delivered
  <2> QED
    BY <2>7, <2>8
<1>4. CASE BeginCheck \/ Download \/ Work
  <2>1. PICK o \in Operation : Announce(o)
    BY <1>4, Operations DEF BeginCheck, Download, Work
  <2> QED
    BY <1>2, <2>1
<1>5. CASE ReadMessage
  <2>1. /\ inHand = <<>> /\ wire # <<>>
        /\ inHand' = <<Head(wire)>> /\ wire' = Tail(wire)
        /\ UNCHANGED <<requests, answers>>
    BY <1>5 DEF ReadMessage
  <2> DEFINE m == Head(wire)
  <2>2. m \in Message /\ ToSet(wire) = {m} \cup ToSet(wire')
    BY <1>0, <2>1, TailFacts
  <2>3. ToSet(inHand') = {m} /\ ToSet(inHand) = {}
    BY <2>1, <2>2, OneFacts, NoneFacts
  <2> HIDE DEF m
  <2> QED
    BY <2>1, <2>2, <2>3
    DEF OwnAnswer, Requested, InMessages, OwnDelivered, Delivered
<1>6. CASE DeliverAnswer
  <2>1. /\ inHand # <<>> /\ inHand' = <<>>
        /\ answers' = WithAnswer(inHand[1].to, <<inHand[1].op>>)
        /\ inHand[1].to # "ch"
        /\ UNCHANGED <<requests, wire>>
    BY <1>6 DEF DeliverAnswer, WithAnswer
  <2>2. inHand[1] \in Message /\ ToSet(inHand) = {inHand[1]}
    BY <1>0, <2>1, AtMostOneFacts
  <2> DEFINE p == inHand[1].to
             a == inHand[1].op
  <2>3. p \in Process /\ a \in Answer
    BY <2>1, <2>2 DEF Message, Process, Answer
  <2>4. <<a>> \in Seq(Answer) /\ Len(<<a>>) <= 1 /\ <<a>> # <<>> /\ <<a>>[1] = a
    BY <2>3, OneFacts
  <2>5. /\ p = "main" => inHand[1] \in MainMessages
        /\ p # "main" => inHand[1] \notin MainMessages
        /\ inHand[1] \in OwnMessages(d) <=> inHand[1] \in MainMessages /\ a \in Telling(d)
    BY <2>2 DEF MainMessages, OwnMessages
  <2>6. answers' = WithAnswer(p, <<a>>)
    BY <2>1
  <2> HIDE DEF p, a
  <2>7. answers'[p] = <<a>> /\ (p # "main" => answers'["main"] = answers["main"])
    BY <1>0, <2>3, <2>4, <2>6, WithAnswerFacts DEF Process
  <2>8. CASE p = "main"
    <3>1. ~ Requested /\ ~ OnTheWire /\ ~ Delivered
      BY <2>2, <2>5, <2>8 DEF OneCall, Read
    <3>2. a \in Telling(d)
      BY <2>2, <2>5, <3>1
      DEF OwnAnswer, InMessages, OwnDelivered, OnTheWire, OwnMessages
    <3> QED
      BY <2>4, <2>7, <2>8, <3>2 DEF OwnAnswer, OwnDelivered, Delivered
  <2>9. CASE p # "main"
    <3>1. ToSet(inHand) \cap OwnMessages(d) = {}
      BY <2>2, <2>5, <2>9
    <3> QED
      BY <2>1, <2>7, <2>9, <3>1
      DEF OwnAnswer, Requested, InMessages, OwnDelivered, Delivered
  <2> QED
    BY <2>8, <2>9
<1>7. CASE LockSignals \/ ReadFails
  BY <1>1, <1>7 DEF LockSignals, ReadFails
<1>8. CASE SendSignal
  <2>1. /\ locked /\ UNCHANGED <<requests, wire, answers>>
    BY <1>8 DEF SendSignal
  <2>2. ToSet(inHand) = {inHand[1]} /\ inHand[1].to = "ch"
    BY <1>0, <2>1, AtMostOneFacts
  <2>3. ToSet(inHand) \cap OwnMessages(d) = {}
    BY <2>2 DEF OwnMessages, MainMessages
  <2> QED
    BY <2>1, <2>3 DEF OwnAnswer, Requested, InMessages, OwnDelivered, Delivered
<1>9. CASE RegisterAndAsk
  <2>1. UNCHANGED <<wire, inHand, answers>>
    BY <1>9 DEF RegisterAndAsk
  <2> DEFINE r == [from |-> "receiver", method |-> "GetStatus"]
  <2>2. r \in Request
    BY DEF Request, Process
  <2>3. requests' = requests \/ requests' = Append(requests, r)
    BY <1>9 DEF RegisterAndAsk, Send
  <2> HIDE DEF r
  <2>4. ToSet(requests) \subseteq ToSet(requests')
    BY <1>21, <2>2, <2>3
  <2> QED
    BY <1>1, <2>1, <2>4
<1>10. CASE GotStatus
  <2>1. UNCHANGED <<requests, wire, inHand>>
    BY <1>10 DEF GotStatus
  <2>2. answers' = WithAnswer("receiver", <<>>) \/ UNCHANGED answers
    BY <1>10 DEF GotStatus, TakeAnswer, WithAnswer
  <2>3. answers'["main"] = answers["main"]
    <3>1. <<>> \in Seq(Answer) /\ Len(<<>>) <= 1
      BY NoneFacts
    <3> QED
      BY <1>0, <2>2, <3>1, WithAnswerFacts DEF Process
  <2> QED
    BY <1>1, <2>1, <2>3
<1>11. CASE ForwardStatus \/ StopReceiving \/ TakeSignal \/ TakeNilSignal
  BY <1>1, <1>11 DEF ForwardStatus, StopReceiving, TakeSignal, TakeNilSignal
<1>12. CASE Main
  BY <1>12 DEF Main, AttemptUpdate, AttemptFailed, StartReceiver,
     AskFirstStatus, FirstStatusFailed, SendMarker, ReceiveStatus,
     CloseStopCh, Wait, CloseClient
<1>13. CASE UNCHANGED vars
  BY <1>1, <1>13 DEF vars
<1> QED
  BY <1>3, <1>4, <1>5, <1>6, <1>7, <1>8, <1>9, <1>10, <1>11, <1>12, <1>13
  DEF WatchNext, Daemon, Worker, Deliver, Receiver

(* The daemon announces every change of its status.                       *)
LEMMA StagedStep ==
  ASSUME NEW d \in Deciding, Types, connOpen, [WatchNext]_vars, op' = d
  PROVE  op = d \/ Coming(d)'
<1>0. wire \in Seq(Message)
  BY DEF Types, WireType
<1>1. CASE Work
  <2>1. PICK o \in Operation : Announce(o)
    BY <1>1 DEF Work
  <2>2. o = d
    BY <2>1 DEF Announce
  <2> DEFINE m == [to |-> "ch", op |-> d]
  <2>3. m \in UrgentMessages(d) /\ m \in Message
    BY DEF UrgentMessages, Message, Operation, Deciding
  <2>4. wire' = Append(wire, m)
    BY <2>1, <2>2 DEF Announce
  <2> HIDE DEF m
  <2>5. m \in ToSet(wire')
    BY <1>0, <2>3, <2>4, AppendFacts
  <2> QED
    BY <2>3, <2>5 DEF Coming, InMessages
<1>2. CASE Serve \/ BeginCheck \/ Download
  BY <1>2 DEF Serve, BeginCheck, Download, Announce, Deciding
<1>3. CASE Worker
  BY <1>3 DEF Worker, Deliver, ReadMessage, DeliverAnswer,
     LockSignals, SendSignal, ReadFails
<1>4. CASE Receiver
  BY <1>4 DEF Receiver, RegisterAndAsk, GotStatus, ForwardStatus,
              StopReceiving, TakeSignal, TakeNilSignal
<1>5. CASE Main
  BY <1>5 DEF Main, AttemptUpdate, AttemptFailed, StartReceiver,
              AskFirstStatus, FirstStatusFailed, SendMarker, ReceiveStatus,
              CloseStopCh, Wait, CloseClient
<1>6. CASE UNCHANGED vars
  BY <1>6 DEF vars
<1> QED
  BY <1>1, <1>2, <1>3, <1>4, <1>5, <1>6 DEF WatchNext, Daemon

(* Main does not wait at the start.                                       *)
LEMMA NotMissedInit == WatchInit => NotMissed
  BY DEF WatchInit, NotMissed

(* Every step leaves the news on its way.                                 *)
LEMMA NotMissedStep ==
  ASSUME Types, InOrder, OneCall, NotMissed, [WatchNext]_vars
  PROVE  NotMissed'
<1> SUFFICES ASSUME NEW d \in Deciding, op' = d, main' \in {"asked", "loop"},
                    connOpen', ~ Coming(d)'
             PROVE  main' = "asked" /\ OwnAnswer(d)'
  BY DEF NotMissed
<1>0. connOpen
  BY ConnStaysClosed
<1>1. op = d
  BY <1>0, StagedStep
<1>2. ~ Coming(d)
  BY ComingStays
<1>3. main \in {"asked", "loop"} => main = "asked" /\ OwnAnswer(d)
  BY <1>0, <1>1, <1>2 DEF NotMissed
<1>4. CASE main' = main
  BY <1>0, <1>1, <1>3, <1>4, OwnAnswerStays
<1>5. CASE main' # main
  <2>1. AskFirstStatus \/ SendMarker
    <3>1. ~ Daemon
      BY <1>5 DEF Daemon, Serve, BeginCheck, Work, Download, Announce
    <3>2. ~ Worker
      BY <1>5 DEF Worker, Deliver, ReadMessage, DeliverAnswer,
         LockSignals, SendSignal, ReadFails
    <3>3. ~ Receiver
      BY <1>5 DEF Receiver, RegisterAndAsk, GotStatus, ForwardStatus,
                  StopReceiving, TakeSignal, TakeNilSignal
    <3>4. Main
      BY <1>5, <3>1, <3>2, <3>3 DEF WatchNext, vars
    <3> QED
      BY <1>5, <3>4 DEF Main, AttemptUpdate, AttemptFailed, StartReceiver,
         FirstStatusFailed, ReceiveStatus, FlushStatus, ActOnStatus,
         CloseStopCh, Wait, CloseClient
  <2>2. CASE AskFirstStatus
    <3> DEFINE r == [from |-> "main", method |-> "GetStatus"]
    <3>1. r \in Request /\ r \in MainRequests /\ requests' = Append(requests, r)
      BY <1>0, <2>2 DEF AskFirstStatus, Call, Send, Request, Process, MainRequests
    <3>2. main' = "asked" /\ requests \in Seq(Request)
      BY <2>2 DEF AskFirstStatus, Types, CallType
    <3> HIDE DEF r
    <3>3. r \in ToSet(requests')
      BY <3>1, <3>2, AppendFacts
    <3> QED
      BY <3>1, <3>2, <3>3 DEF OwnAnswer, Requested
  <2>3. CASE SendMarker
    <3>1. /\ main = "asked" /\ Delivered /\ answers["main"] # <<"">>
          /\ statusCh' = Append(statusCh, [kind |-> "marker", op |-> answers["main"][1]])
      BY <2>3 DEF SendMarker, Answered, Delivered
    <3>2. ~ Requested /\ ~ OnTheWire /\ ~ Read
      BY <3>1 DEF OneCall
    <3>3. answers["main"][1] \in Telling(d)
      BY <1>3, <3>1, <3>2
      DEF OwnAnswer, InMessages, OnTheWire, Read, OwnMessages, OwnDelivered
    <3>4. answers["main"] = <<answers["main"][1]>>
      <4>1. /\ answers["main"] \in Seq(Answer) /\ Len(answers["main"]) <= 1
            /\ answers["main"] # <<>>
        BY <3>1 DEF Types, CallType, Process, Answer, Delivered
      <4> QED
        BY <4>1, AtMostOneFacts
    <3>5. answers["main"][1] = d
      BY <3>1, <3>3, <3>4 DEF Telling
    <3> DEFINE s == [kind |-> "marker", op |-> d]
    <3>6. s \in Status /\ s \in UrgentStatuses(d)
      BY DEF Status, UrgentStatuses, Operation, Deciding
    <3>7. statusCh' = Append(statusCh, s) /\ statusCh \in Seq(Status)
      BY <3>1, <3>5 DEF Types, StatusType
    <3> HIDE DEF s
    <3>8. s \in ToSet(statusCh')
      BY <3>6, <3>7, AppendFacts
    <3> QED
      BY <3>6, <3>8 DEF Coming, InStatuses
  <2> QED
    BY <2>1, <2>2, <2>3
<1> QED
  BY <1>4, <1>5

(* So it is on its way at all times.                                      *)
LEMMA NotMissedAlways == WatchSpec => []NotMissed
<1>1. Types /\ InOrder /\ OneCall /\ NotMissed /\ [WatchNext]_vars => NotMissed'
  BY NotMissedStep
<1> QED
  BY <1>1, NotMissedInit, TypesAlways, InOrderAlways, OneCallAlways, PTL
  DEF WatchSpec

(* The least member of a set of positions.                                *)
LEMMA LeastPosition ==
  ASSUME NEW I \in SUBSET Nat, I # {}
  PROVE  Min(I) \in I /\ \A i \in I : Min(I) <= i
<1> DEFINE R == {ss \in Nat \X Nat : ss[1] < ss[2]}
<1>1. IsWellFoundedOn(R, Nat)
  BY NatLessThanWellFounded DEF OpToRel
<1>2. PICK x \in I : \A y \in I : ~ (<<y, x>> \in R)
  <2> HIDE DEF R
  <2> QED
    BY <1>1, WFMin
<1>3. ASSUME NEW y \in I
      PROVE  x <= y
  <2>1. y < x => <<y, x>> \in R
    OBVIOUS
  <2> QED
    BY <1>2, <2>1
<1> QED
  BY <1>3 DEF Min

(* What is coming is never the status that main skips.                    *)
LEMMA ComingIsPending ==
  ASSUME NEW d \in Deciding, Types, InOrder, Coming(d)
  PROVE  d \in Pending
<1> DEFINE n    == Len(statusCh)
           I    == {i \in 1 .. n : statusCh[i].kind # "marker"}
           skip == IF flushed THEN 0 ELSE IF I # {} THEN Min(I) ELSE 0
<1>1. Pending = {statusCh[i].op : i \in DOMAIN statusCh \ {skip}}
                  \cup {s.op : s \in ToSet(held) \cup ToSet(ch)}
                  \cup {m.op : m \in {w \in ToSet(inHand) \cup ToSet(wire) :
                                          w.to = "ch"}}
  BY DEF Pending, SelectInSeq
<1>2. n \in Nat /\ DOMAIN statusCh = 1 .. n /\ I \subseteq Nat
  BY DEF Types, StatusType
<1>3. I # {} => Min(I) \in I /\ \A i \in I : Min(I) <= i
  <2> HIDE DEF I
  <2> QED
    BY <1>2, LeastPosition
<1>4. ASSUME NEW i \in 1 .. n, statusCh[i] \in UrgentStatuses(d)
      PROVE  i # skip
  <2>1. CASE flushed \/ I = {}
    BY <1>2, <2>1
  <2>2. CASE ~ flushed /\ I # {}
    <3>1. skip = Min(I) /\ Min(I) \in I /\ \A j \in I : Min(I) <= j
      BY <1>3, <2>2
    <3>2. statusCh[i].kind \in {"marker", "signal"}
      BY <1>4 DEF UrgentStatuses, Status
    <3>3. CASE statusCh[i].kind = "marker"
      BY <3>1, <3>3
    <3>4. CASE statusCh[i].kind = "signal"
      <4>1. PICK j \in 1 .. i - 1 : statusCh[j].kind = "answer"
        BY <2>2, <3>4 DEF InOrder, AnswerFirst
      <4>2. j \in I /\ j < i
        BY <1>2, <4>1
      <4>3. Min(I) \in Nat /\ Min(I) <= j
        BY <1>2, <3>1, <4>2
      <4> QED
        BY <1>2, <3>1, <4>2, <4>3
    <3> QED
      BY <3>2, <3>3, <3>4
  <2> QED
    BY <2>1, <2>2
<1> HIDE DEF skip
<1>5. CASE InMessages(UrgentMessages(d))
  BY <1>1, <1>5 DEF InMessages, UrgentMessages
<1>6. CASE (ToSet(ch) \cup ToSet(held)) \cap UrgentStatuses(d) # {}
  BY <1>1, <1>6 DEF UrgentStatuses
<1>7. CASE ToSet(statusCh) \cap UrgentStatuses(d) # {}
  <2>1. PICK i \in 1 .. n : statusCh[i] \in UrgentStatuses(d)
    BY <1>2, <1>7 DEF ToSet
  <2>2. i \in DOMAIN statusCh \ {skip} /\ statusCh[i].op = d
    BY <1>2, <1>4, <2>1 DEF UrgentStatuses
  <2> QED
    BY <1>1, <2>2
<1> QED
  BY <1>5, <1>6, <1>7 DEF Coming, InStatuses

(* The end of the wait is never missed: while main waits, what tells it   *)
(* of a staged update, or that there is none, is still to come, however   *)
(* the goroutines interleave.                                             *)
THEOREM NoVerdictIsMissed == WatchSpec => []NoVerdictMissed
<1>1. Types /\ InOrder /\ NotMissed => NoVerdictMissed
  BY ComingIsPending DEF NotMissed, NoVerdictMissed, Deciding
<1> QED
  BY <1>1, TypesAlways, InOrderAlways, NotMissedAlways, PTL
-----------------------------------------------------------------------------
(* AttemptUpdate is called once, and asks for one check at most.          *)
AttemptRequests == {r \in Request : r.method = "AttemptUpdate"}

AskedOnce ==
  /\ AtMostOne(requests, AttemptRequests)
  /\ main = "attempt" \/ asked => ToSet(requests) \cap AttemptRequests = {}
  /\ ~ (main = "attempt" /\ asked)

(* It has not been called at the start.                                   *)
LEMMA AskedOnceInit == WatchInit => AskedOnce
<1> SUFFICES ASSUME WatchInit PROVE AskedOnce
  OBVIOUS
<1>1. Len(requests) = 0 /\ ToSet(requests) = {} /\ ~ asked
  BY NoneFacts DEF WatchInit
<1> QED
  BY <1>1 DEF AskedOnce, AtMostOne

(* Only main's first step makes such a request, and only the daemon takes *)
(* it.                                                                    *)
LEMMA AskedOnceStep ==
  ASSUME Types, AskedOnce, [WatchNext]_vars
  PROVE  AskedOnce'
<1>0. requests \in Seq(Request) /\ asked \in BOOLEAN
  BY DEF Types, CallType, DaemonType
<1>1. ASSUME requests' = requests, asked' = asked \/ ~ asked',
             main' = "attempt" => main = "attempt"
      PROVE  AskedOnce'
  BY <1>1 DEF AskedOnce
<1>2. CASE Serve
  <2>1. /\ requests # <<>> /\ requests' = Tail(requests) /\ main' = main
        /\ asked' => asked \/ Head(requests).method = "AttemptUpdate"
    BY <1>2 DEF Serve
  <2> DEFINE r == Head(requests)
  <2>2. r \in Request /\ ToSet(requests) = {r} \cup ToSet(requests')
    BY <1>0, <2>1, TailFacts
  <2>3. /\ AtMostOne(requests', AttemptRequests)
        /\ r \in AttemptRequests => ToSet(requests') \cap AttemptRequests = {}
    BY <1>0, <2>1, AtMostOneTail DEF AskedOnce
  <2>4. asked' => asked \/ r \in AttemptRequests
    BY <2>1, <2>2 DEF AttemptRequests
  <2> HIDE DEF r
  <2>5. main = "attempt" => ~ asked /\ r \notin AttemptRequests
    BY <2>2 DEF AskedOnce
  <2> QED
    BY <2>1, <2>2, <2>3, <2>4, <2>5 DEF AskedOnce
<1>3. CASE BeginCheck \/ Work \/ Download
  <2>1. /\ requests' = requests /\ main' = main
        /\ asked' = asked \/ asked' = FALSE
    BY <1>3 DEF BeginCheck, Work, Download, Announce
  <2> QED
    BY <1>1, <2>1
<1>4. CASE Worker
  BY <1>1, <1>4 DEF Worker, Deliver, ReadMessage, DeliverAnswer,
     LockSignals, SendSignal, ReadFails
<1>5. ASSUME NEW p \in Process, Send(p, "GetStatus"), asked' = asked,
             main' = main \/ main' = "asked"
      PROVE  AskedOnce'
  <2> DEFINE r == [from |-> p, method |-> "GetStatus"]
  <2>1. /\ r \in Request /\ r \notin AttemptRequests
        /\ requests' = Append(requests, r)
    BY <1>5 DEF Request, AttemptRequests, Send
  <2> HIDE DEF r
  <2>2. ToSet(requests') = ToSet(requests) \cup {r}
    BY <1>0, <2>1, AppendFacts
  <2>3. AtMostOne(requests', AttemptRequests)
    BY <1>0, <2>1, AtMostOneAppend DEF AskedOnce
  <2> QED
    BY <1>5, <2>1, <2>2, <2>3 DEF AskedOnce
<1>6. CASE RegisterAndAsk
  <2>1. UNCHANGED <<asked, main>>
    BY <1>6 DEF RegisterAndAsk
  <2>2. Send("receiver", "GetStatus") \/ UNCHANGED requests
    BY <1>6 DEF RegisterAndAsk
  <2> QED
    BY <1>1, <1>5, <2>1, <2>2 DEF Process
<1>7. CASE GotStatus \/ ForwardStatus \/ StopReceiving \/ TakeSignal \/ TakeNilSignal
  BY <1>1, <1>7 DEF GotStatus, ForwardStatus, StopReceiving, TakeSignal,
                    TakeNilSignal
<1>8. CASE AttemptUpdate
  <2> DEFINE r == [from |-> "main", method |-> "AttemptUpdate"]
  <2>1. /\ main = "attempt" /\ main' = "attempted" /\ asked' = asked
        /\ r \in Request
        /\ requests' = requests \/ requests' = Append(requests, r)
    BY <1>8 DEF AttemptUpdate, Call, Send, Request, Process
  <2> HIDE DEF r
  <2>4. CASE requests' = requests
    BY <1>1, <2>1, <2>4
  <2>2. ~ asked' /\ ToSet(requests) \cap AttemptRequests = {}
    BY <2>1 DEF AskedOnce
  <2>3. AtMostOne(requests', AttemptRequests)
    BY <1>0, <2>1, <2>2, AtMostOneAppend DEF AskedOnce
  <2> QED
    BY <2>1, <2>2, <2>3, <2>4 DEF AskedOnce
<1>9. CASE AskFirstStatus
  <2>1. Send("main", "GetStatus") \/ UNCHANGED requests
    BY <1>9 DEF AskFirstStatus, Call
  <2> QED
    BY <1>1, <1>5, <1>9, <2>1 DEF AskFirstStatus, Process
<1>10. CASE AttemptFailed \/ StartReceiver \/ FirstStatusFailed \/ SendMarker
            \/ ReceiveStatus \/ CloseStopCh \/ Wait \/ CloseClient
  <2>1. UNCHANGED <<requests, asked>>
    BY <1>10 DEF AttemptFailed, StartReceiver, FirstStatusFailed, SendMarker,
                 ReceiveStatus, CloseStopCh, Wait, CloseClient
  <2>2. main' # "attempt"
    BY <1>10 DEF AttemptFailed, StartReceiver, FirstStatusFailed, SendMarker,
                 ReceiveStatus, FlushStatus, ActOnStatus, CloseStopCh, Wait,
                 CloseClient
  <2> QED
    BY <1>1, <2>1, <2>2
<1>11. CASE UNCHANGED vars
  BY <1>1, <1>11 DEF vars
<1> QED
  BY <1>2, <1>3, <1>4, <1>6, <1>7, <1>8, <1>9, <1>10, <1>11
  DEF WatchNext, Daemon, Receiver, Main

(* So it holds at all times.                                              *)
LEMMA AskedOnceAlways == WatchSpec => []AskedOnce
<1>1. Types /\ AskedOnce /\ [WatchNext]_vars => AskedOnce'
  BY AskedOnceStep
<1> QED
  BY <1>1, AskedOnceInit, TypesAlways, PTL DEF WatchSpec
-----------------------------------------------------------------------------
(* A call that main or the receiver waits for is still somewhere, as long *)
(* as the connection is open.                                             *)
RequestsOf(p) == {r \in Request : r.from = p}
MessagesTo(p) == {m \in Message : m.to = p}

Placed(p) ==
  \/ ToSet(requests) \cap RequestsOf(p) # {}
  \/ InMessages(MessagesTo(p))
  \/ Answered(p)

CallsPlaced ==
  connOpen => /\ main \in {"attempted", "asked"} => Placed("main")
              /\ rcv = "asked" => Placed("receiver")

(* A request that has been sent is on its way.                            *)
LEMMA SentIsPlaced ==
  ASSUME Types, NEW p \in Process, NEW method \in {"AttemptUpdate", "GetStatus"},
         Send(p, method)
  PROVE  Placed(p)'
<1> DEFINE r == [from |-> p, method |-> method]
<1>1. /\ r \in Request /\ r \in RequestsOf(p)
      /\ requests' = Append(requests, r) /\ requests \in Seq(Request)
  BY DEF Request, RequestsOf, Send, Types, CallType
<1> HIDE DEF r
<1>2. r \in ToSet(requests')
  BY <1>1, AppendFacts
<1> QED
  BY <1>1, <1>2 DEF Placed

(* Only the one that waits for it takes an answer.                        *)
LEMMA OthersAnswerKept ==
  ASSUME CallType, NEW p \in Process, NEW q \in Process, TakeAnswer(q), p # q
  PROVE  answers'[p] = answers[p]
<1>1. answers' = WithAnswer(q, <<>>)
  BY DEF TakeAnswer, WithAnswer
<1>2. <<>> \in Seq(Answer) /\ Len(<<>>) <= 1
  BY NoneFacts
<1> QED
  BY <1>1, <1>2, WithAnswerFacts

(* Until its caller goes on, a call stays on its way.                     *)
LEMMA PlacedStays ==
  ASSUME NEW p \in Process, Types, Placed(p), connOpen, [WatchNext]_vars,
         connOpen', p = "main" => main' = main, p = "receiver" => rcv' = rcv
  PROVE  Placed(p)'
<1>0. /\ requests \in Seq(Request) /\ wire \in Seq(Message) /\ CallType
      /\ inHand \in Seq(Message) /\ Len(inHand) <= 1
      /\ (locked => inHand # <<>> /\ inHand[1].to = "ch")
  BY DEF Types, CallType, WireType, HandType
<1>1. ASSUME ToSet(requests) \subseteq ToSet(requests'),
             ToSet(wire) \subseteq ToSet(wire'), inHand' = inHand,
             answers'[p] = answers[p]
      PROVE  Placed(p)'
  BY <1>1 DEF Placed, InMessages, Answered
<1>20. ASSUME NEW e \in Message
       PROVE  ToSet(Append(wire, e)) = ToSet(wire) \cup {e}
  BY <1>0, AppendFacts
<1>2. ASSUME NEW o \in Operation, Announce(o)
      PROVE  Placed(p)'
  <2> DEFINE m == [to |-> "ch", op |-> o]
  <2>1. m \in Message
    BY DEF Message
  <2>2. UNCHANGED <<requests, inHand, answers>> /\ wire' = Append(wire, m)
    BY <1>2 DEF Announce
  <2> HIDE DEF m
  <2> QED
    BY <1>1, <1>20, <2>1, <2>2
<1>3. CASE Serve
  <2>1. PICK o \in {op, ""} :
          wire' = Append(wire, [to |-> Head(requests).from, op |-> o])
    BY <1>3 DEF Serve
  <2>2. /\ requests # <<>> /\ requests' = Tail(requests)
        /\ UNCHANGED <<inHand, answers>>
    BY <1>3 DEF Serve
  <2> DEFINE r == Head(requests)
             m == [to |-> Head(requests).from, op |-> o]
  <2>3. r \in Request /\ ToSet(requests) = {r} \cup ToSet(requests')
    BY <1>0, <2>2, TailFacts
  <2>4. m \in Message /\ (r \in RequestsOf(p) => m \in MessagesTo(p))
    BY <2>3 DEF Request, Process, Message, MessagesTo, RequestsOf, Types, DaemonType
  <2>5. wire' = Append(wire, m)
    BY <2>1
  <2> HIDE DEF r, m
  <2>6. ToSet(wire') = ToSet(wire) \cup {m}
    BY <1>20, <2>4, <2>5
  <2> QED
    BY <2>2, <2>3, <2>4, <2>6 DEF Placed, InMessages, Answered
<1>4. CASE BeginCheck \/ Download \/ Work
  <2>1. PICK o \in Operation : Announce(o)
    BY <1>4, Operations DEF BeginCheck, Download, Work
  <2> QED
    BY <1>2, <2>1
<1>5. CASE ReadMessage
  <2>1. /\ inHand = <<>> /\ wire # <<>>
        /\ inHand' = <<Head(wire)>> /\ wire' = Tail(wire)
        /\ UNCHANGED <<requests, answers>>
    BY <1>5 DEF ReadMessage
  <2> DEFINE m == Head(wire)
  <2>2. m \in Message /\ ToSet(wire) = {m} \cup ToSet(wire')
    BY <1>0, <2>1, TailFacts
  <2>3. ToSet(inHand') = {m} /\ ToSet(inHand) = {}
    BY <2>1, <2>2, OneFacts, NoneFacts
  <2> HIDE DEF m
  <2> QED
    BY <2>1, <2>2, <2>3 DEF Placed, InMessages, Answered
<1>6. CASE DeliverAnswer
  <2>1. /\ inHand # <<>> /\ inHand' = <<>>
        /\ answers' = WithAnswer(inHand[1].to, <<inHand[1].op>>)
        /\ inHand[1].to # "ch"
        /\ UNCHANGED <<requests, wire>>
    BY <1>6 DEF DeliverAnswer, WithAnswer
  <2>2. inHand[1] \in Message /\ ToSet(inHand) = {inHand[1]}
    BY <1>0, <2>1, AtMostOneFacts
  <2> DEFINE q == inHand[1].to
             a == inHand[1].op
  <2>3. q \in Process /\ a \in Answer
    BY <2>1, <2>2 DEF Message, Process, Answer
  <2>4. <<a>> \in Seq(Answer) /\ Len(<<a>>) <= 1 /\ <<a>> # <<>>
    BY <2>3, OneFacts
  <2>5. q # p => inHand[1] \notin MessagesTo(p)
    BY DEF MessagesTo
  <2>6. answers' = WithAnswer(q, <<a>>)
    BY <2>1
  <2> HIDE DEF q, a
  <2>7. answers'[q] = <<a>> /\ (q # p => answers'[p] = answers[p])
    BY <1>0, <2>3, <2>4, <2>6, WithAnswerFacts
  <2>8. CASE q = p
    BY <2>4, <2>7, <2>8 DEF Placed, Answered
  <2>9. CASE q # p
    <3>1. ToSet(inHand) \cap MessagesTo(p) = {}
      BY <2>2, <2>5, <2>9
    <3> QED
      BY <2>1, <2>7, <2>9, <3>1 DEF Placed, InMessages, Answered
  <2> QED
    BY <2>8, <2>9
<1>7. CASE LockSignals \/ ReadFails
  BY <1>1, <1>7 DEF LockSignals, ReadFails
<1>8. CASE SendSignal
  <2>1. /\ locked /\ UNCHANGED <<requests, wire, answers>>
    BY <1>8 DEF SendSignal
  <2>2. ToSet(inHand) = {inHand[1]} /\ inHand[1].to = "ch"
    BY <1>0, <2>1, AtMostOneFacts
  <2>3. ToSet(inHand) \cap MessagesTo(p) = {}
    BY <2>2 DEF MessagesTo, Process
  <2> QED
    BY <2>1, <2>3 DEF Placed, InMessages, Answered
<1>9. ASSUME NEW q \in Process, NEW method \in {"AttemptUpdate", "GetStatus"},
             Send(q, method), UNCHANGED <<wire, inHand, answers>>
      PROVE  Placed(p)'
  <2> DEFINE r == [from |-> q, method |-> method]
  <2>1. r \in Request /\ requests' = Append(requests, r)
    BY <1>9 DEF Request, Send
  <2> HIDE DEF r
  <2>2. ToSet(requests) \subseteq ToSet(requests')
    BY <1>0, <2>1, AppendFacts
  <2> QED
    BY <1>1, <1>9, <2>2
<1>10. CASE RegisterAndAsk
  BY <1>1, <1>9, <1>10 DEF RegisterAndAsk, Process
<1>11. CASE GotStatus
  <2>1. UNCHANGED <<requests, wire, inHand>> /\ rcv = "asked" /\ rcv' = "send"
    BY <1>11 DEF GotStatus
  <2>2. TakeAnswer("receiver") \/ UNCHANGED answers
    BY <1>11 DEF GotStatus
  <2>3. answers'[p] = answers[p]
    BY <1>0, <2>1, <2>2, OthersAnswerKept DEF Process
  <2> QED
    BY <1>1, <2>1, <2>3
<1>12. CASE ForwardStatus \/ StopReceiving \/ TakeSignal \/ TakeNilSignal
  BY <1>1, <1>12 DEF ForwardStatus, StopReceiving, TakeSignal, TakeNilSignal
<1>13. CASE AttemptUpdate \/ AskFirstStatus
  BY <1>9, <1>13 DEF AttemptUpdate, AskFirstStatus, Call, Process
<1>14. CASE AttemptFailed \/ StartReceiver \/ FirstStatusFailed \/ SendMarker
  <2>1. /\ UNCHANGED <<requests, wire, inHand>> /\ main' # main
        /\ TakeAnswer("main") \/ UNCHANGED answers
    BY <1>14 DEF AttemptFailed, StartReceiver, FirstStatusFailed, SendMarker,
                 CallFails
  <2>2. answers'[p] = answers[p]
    BY <1>0, <2>1, OthersAnswerKept DEF Process
  <2> QED
    BY <1>1, <2>1, <2>2
<1>15. CASE ReceiveStatus \/ CloseStopCh \/ Wait \/ CloseClient
  BY <1>1, <1>15 DEF ReceiveStatus, CloseStopCh, Wait, CloseClient
<1>16. CASE UNCHANGED vars
  BY <1>1, <1>16 DEF vars
<1> QED
  BY <1>3, <1>4, <1>5, <1>6, <1>7, <1>8, <1>10, <1>11, <1>12, <1>13, <1>14,
     <1>15, <1>16
  DEF WatchNext, Daemon, Worker, Deliver, Receiver, Main

(* Nobody has called at the start.                                        *)
LEMMA CallsPlacedInit == WatchInit => CallsPlaced
  BY DEF WatchInit, CallsPlaced

(* Whoever comes to wait has sent a request.                              *)
LEMMA CallsPlacedStep ==
  ASSUME Types, CallsPlaced, [WatchNext]_vars
  PROVE  CallsPlaced'
<1> SUFFICES ASSUME connOpen'
             PROVE  /\ main' \in {"attempted", "asked"} => Placed("main")'
                    /\ rcv' = "asked" => Placed("receiver")'
  BY DEF CallsPlaced
<1>1. connOpen /\ connOpen'
  BY ConnStaysClosed
<1>2. ASSUME main' \in {"attempted", "asked"}
      PROVE  Placed("main")'
  <2>1. CASE main' = main
    BY <1>1, <1>2, <2>1, PlacedStays DEF CallsPlaced, Process
  <2>2. CASE main' # main
    <3>1. ~ Daemon
      BY <2>2 DEF Daemon, Serve, BeginCheck, Work, Download, Announce
    <3>2. ~ Worker
      BY <2>2 DEF Worker, Deliver, ReadMessage, DeliverAnswer,
         LockSignals, SendSignal, ReadFails
    <3>3. ~ Receiver
      BY <2>2 DEF Receiver, RegisterAndAsk, GotStatus, ForwardStatus,
                  StopReceiving, TakeSignal, TakeNilSignal
    <3>4. Main
      BY <2>2, <3>1, <3>2, <3>3 DEF WatchNext, vars
    <3>5. AttemptUpdate \/ AskFirstStatus
      BY <1>2, <2>2, <3>4 DEF Main, AttemptFailed, StartReceiver,
         FirstStatusFailed, SendMarker, ReceiveStatus, FlushStatus,
         ActOnStatus, CloseStopCh, Wait, CloseClient
    <3> QED
      BY <1>1, <3>5, SentIsPlaced DEF AttemptUpdate, AskFirstStatus, Call, Process
  <2> QED
    BY <2>1, <2>2
<1>3. ASSUME rcv' = "asked"
      PROVE  Placed("receiver")'
  <2>1. CASE rcv' = rcv
    BY <1>1, <1>3, <2>1, PlacedStays DEF CallsPlaced, Process
  <2>2. CASE rcv' # rcv
    <3>1. ~ Daemon
      BY <2>2 DEF Daemon, Serve, BeginCheck, Work, Download, Announce
    <3>2. ~ Worker
      BY <2>2 DEF Worker, Deliver, ReadMessage, DeliverAnswer,
         LockSignals, SendSignal, ReadFails
    <3>3. ~ Main
      BY <1>3, <2>2 DEF Main, AttemptUpdate, AttemptFailed, StartReceiver,
         AskFirstStatus, FirstStatusFailed, SendMarker, ReceiveStatus,
         CloseStopCh, Wait, CloseClient
    <3>4. Receiver
      BY <2>2, <3>1, <3>2, <3>3 DEF WatchNext, vars
    <3>5. RegisterAndAsk
      BY <1>3, <3>4 DEF Receiver, GotStatus, ForwardStatus, StopReceiving,
                        TakeSignal, TakeNilSignal
    <3> QED
      BY <1>1, <3>5, SentIsPlaced DEF RegisterAndAsk, Process
  <2> QED
    BY <2>1, <2>2
<1> QED
  BY <1>2, <1>3

(* So no call is ever lost.                                               *)
LEMMA CallsPlacedAlways == WatchSpec => []CallsPlaced
<1>1. Types /\ CallsPlaced /\ [WatchNext]_vars => CallsPlaced'
  BY CallsPlacedStep
<1> QED
  BY <1>1, CallsPlacedInit, TypesAlways, PTL DEF WatchSpec
-----------------------------------------------------------------------------
(* How often the daemon still announces something.                        *)
ChecksAsked == IF MayAsk THEN 1 ELSE 0

(* Nobody asks for a check that was not asked for, and a check that was   *)
(* asked for is begun once.                                               *)
LEMMA MayAskStep ==
  ASSUME Types, AskedOnce, [WatchNext]_vars
  PROVE  /\ MayAsk' => MayAsk
         /\ BeginCheck /\ asked => MayAsk /\ ~ MayAsk'
<1>0. requests \in Seq(Request)
  BY DEF Types, CallType
<1>1. MayAsk <=> \/ main = "attempt" \/ asked
                 \/ ToSet(requests) \cap AttemptRequests # {}
  <2>1. ToSet(requests) \subseteq Request
    BY <1>0 DEF ToSet
  <2> QED
    BY <2>1 DEF MayAsk, AttemptRequests
<1>2. MayAsk' <=> \/ main' = "attempt" \/ asked'
                  \/ ToSet(requests') \cap AttemptRequests # {}
  <2>1. requests' \in Seq(Request)
    BY CallTypeStep DEF CallType
  <2>2. ToSet(requests') \subseteq Request
    BY <2>1 DEF ToSet
  <2> QED
    BY <2>2 DEF MayAsk, AttemptRequests
<1>3. ASSUME UNCHANGED requests, asked' => asked, main' = "attempt" => main = "attempt"
      PROVE  MayAsk' => MayAsk
  BY <1>1, <1>2, <1>3
<1>4. CASE Serve
  <2>1. /\ requests # <<>> /\ requests' = Tail(requests) /\ main' = main
        /\ asked' => asked \/ Head(requests).method = "AttemptUpdate"
    BY <1>4 DEF Serve
  <2>2. Head(requests) \in Request /\ ToSet(requests) = {Head(requests)} \cup ToSet(requests')
    BY <1>0, <2>1, TailFacts
  <2>3. ~ BeginCheck
    <3>1. requests' # requests
      <4> DEFINE n == Len(requests)
                 t == Len(Tail(requests))
      <4>1. n \in Nat \ {0} /\ t = n - 1
        BY <1>0, <2>1, TailFacts
      <4>2. requests' = requests => t = n
        BY <2>1
      <4> HIDE DEF n, t
      <4> QED
        BY <4>1, <4>2
    <3> QED
      BY <3>1 DEF BeginCheck, Announce
  <2> QED
    BY <1>1, <1>2, <2>1, <2>2, <2>3 DEF AttemptRequests
<1>5. CASE BeginCheck
  <2>1. UNCHANGED <<requests, main>> /\ asked' = FALSE
    BY <1>5 DEF BeginCheck, Announce
  <2>2. asked => MayAsk /\ ~ MayAsk'
    BY <1>1, <1>2, <2>1 DEF AskedOnce
  <2> QED
    BY <1>3, <2>1, <2>2
<1>6. CASE ~ BeginCheck /\ ~ Serve
  <2>1. CASE Work \/ Download \/ Worker
    BY <1>3, <1>6, <2>1 DEF Work, Download, Announce,
       Worker, Deliver, ReadMessage, DeliverAnswer, LockSignals, SendSignal,
       ReadFails
  <2>2. ASSUME NEW p \in Process, Send(p, "GetStatus"), asked' = asked,
               main' = "attempt" => main = "attempt"
        PROVE  MayAsk' => MayAsk
    <3> DEFINE r == [from |-> p, method |-> "GetStatus"]
    <3>1. /\ r \in Request /\ r \notin AttemptRequests
          /\ requests' = Append(requests, r)
      BY <2>2 DEF Request, AttemptRequests, Send
    <3> HIDE DEF r
    <3>2. ToSet(requests') = ToSet(requests) \cup {r}
      BY <1>0, <3>1, AppendFacts
    <3> QED
      BY <1>1, <1>2, <2>2, <3>1, <3>2
  <2>3. CASE RegisterAndAsk
    <3>1. UNCHANGED <<asked, main>>
      BY <2>3 DEF RegisterAndAsk
    <3>2. Send("receiver", "GetStatus") \/ UNCHANGED requests
      BY <2>3 DEF RegisterAndAsk
    <3> QED
      BY <1>3, <1>6, <2>2, <3>1, <3>2 DEF Process
  <2>4. CASE GotStatus \/ ForwardStatus \/ StopReceiving \/ TakeSignal \/ TakeNilSignal
    BY <1>3, <1>6, <2>4 DEF GotStatus, ForwardStatus, StopReceiving, TakeSignal,
                            TakeNilSignal
  <2>5. CASE AttemptUpdate
    BY <1>1, <1>6, <2>5 DEF AttemptUpdate
  <2>6. CASE AskFirstStatus
    <3>1. /\ asked' = asked /\ main' = "asked"
          /\ Send("main", "GetStatus") \/ UNCHANGED requests
      BY <2>6 DEF AskFirstStatus, Call
    <3> QED
      BY <1>3, <1>6, <2>2, <3>1 DEF Process
  <2>7. CASE AttemptFailed \/ StartReceiver \/ FirstStatusFailed \/ SendMarker
             \/ ReceiveStatus \/ CloseStopCh \/ Wait \/ CloseClient
    <3>1. UNCHANGED <<requests, asked>>
      BY <2>7 DEF AttemptFailed, StartReceiver, FirstStatusFailed, SendMarker,
                  ReceiveStatus, CloseStopCh, Wait, CloseClient
    <3>2. main' # "attempt"
      BY <2>7 DEF AttemptFailed, StartReceiver, FirstStatusFailed, SendMarker,
                  ReceiveStatus, FlushStatus, ActOnStatus, CloseStopCh, Wait,
                  CloseClient
    <3> QED
      BY <1>3, <1>6, <3>1, <3>2
  <2>8. CASE UNCHANGED vars
    BY <1>3, <1>6, <2>8 DEF vars
  <2> QED
    BY <1>6, <2>1, <2>3, <2>4, <2>5, <2>6, <2>7, <2>8
    DEF WatchNext, Daemon, Receiver, Main
<1> QED
  BY <1>4, <1>5, <1>6

(* What is left to announce, counted.                                     *)
LEMMA Counting ==
  ASSUME NEW c \in 0 .. 3, NEW a \in 0 .. 1, NEW M \in Nat, NEW m \in 0 .. M,
         NEW P \in Nat, NEW p \in 0 .. P,
         NEW c1 \in 0 .. 3, NEW a1 \in 0 .. 1, NEW m1 \in 0 .. M, NEW p1 \in 0 .. P
  PROVE  /\ c + 4 * a + 4 * (M - m) + (P - p) \in Nat
         /\ \/ c1 <= c /\ a1 <= a /\ m1 = m /\ p1 = p
            \/ c1 = 3 /\ a1 < a /\ m1 = m /\ p1 = p
            \/ c1 = 3 /\ a1 <= a /\ m1 = m + 1 /\ p1 = p
            \/ c1 = c /\ a1 <= a /\ m1 = m /\ p1 = p + 1
            => c1 + 4 * a1 + 4 * (M - m1) + (P - p1)
                 <= c + 4 * a + 4 * (M - m) + (P - p)
         /\ \/ c1 < c /\ a1 <= a /\ m1 = m /\ p1 = p
            \/ c1 = 3 /\ a1 < a /\ m1 = m /\ p1 = p
            \/ c1 = 3 /\ a1 <= a /\ m1 = m + 1 /\ p1 = p
            \/ c1 = c /\ a1 <= a /\ m1 = m /\ p1 = p + 1
            => c1 + 4 * a1 + 4 * (M - m1) + (P - p1)
                 < c + 4 * a + 4 * (M - m) + (P - p)
  OBVIOUS

(* What the daemon can announce is a number.                              *)
LEMMA AnnouncementsCount ==
  ASSUME Types
  PROVE  Announcements \in Nat
<1>1. ChangesLeft \in 0 .. 3 /\ ChecksAsked \in 0 .. 1
  BY DEF ChangesLeft, ChecksAsked
<1>2. checks \in 0 .. MaxChecks /\ progress \in 0 .. MaxProgress
  BY DEF Types, DaemonType
<1> QED
  BY <1>1, <1>2, WatchAssumption, Counting DEF Announcements, ChecksAsked

(* Each announcement is one less to come, and only the daemon makes them. *)
LEMMA AnnouncementsStep ==
  ASSUME Types, AskedOnce, [WatchNext]_vars
  PROVE  /\ Announcements \in Nat /\ Announcements' \in Nat
         /\ Announcements' <= Announcements
         /\ BeginCheck \/ Work \/ Download => Announcements' < Announcements
<1>1. /\ checks \in 0 .. MaxChecks /\ progress \in 0 .. MaxProgress
      /\ checks' \in 0 .. MaxChecks /\ progress' \in 0 .. MaxProgress
  BY TypesStep DEF Types, DaemonType
<1>2. /\ ChangesLeft \in 0 .. 3 /\ ChangesLeft' \in 0 .. 3
      /\ ChecksAsked \in 0 .. 1 /\ ChecksAsked' \in 0 .. 1
  BY DEF ChangesLeft, ChecksAsked
<1>3. /\ ChecksAsked' <= ChecksAsked
      /\ BeginCheck /\ asked => ChecksAsked' < ChecksAsked
  BY MayAskStep DEF ChecksAsked
<1>4. /\ Announcements = ChangesLeft + 4 * ChecksAsked
                           + 4 * (MaxChecks - checks) + (MaxProgress - progress)
      /\ Announcements' = ChangesLeft' + 4 * ChecksAsked'
                           + 4 * (MaxChecks - checks') + (MaxProgress - progress')
  BY DEF Announcements, ChecksAsked
<1>5. BeginCheck =>
        /\ ChangesLeft' = 3 /\ progress' = progress
        /\ \/ ChecksAsked' < ChecksAsked /\ checks' = checks
           \/ ChecksAsked' <= ChecksAsked /\ checks' = checks + 1
  BY <1>3 DEF BeginCheck, Announce, ChangesLeft
<1>6. Work => ChangesLeft' < ChangesLeft /\ checks' = checks /\ progress' = progress
  <2> SUFFICES ASSUME Work
               PROVE  /\ ChangesLeft' < ChangesLeft
                      /\ checks' = checks /\ progress' = progress
    OBVIOUS
  <2>1. <<op, op'>> \in {<<"checking", "idle">>, <<"checking", "downloading">>,
                         <<"checking", "error">>, <<"downloading", "finalizing">>,
                         <<"downloading", "error">>, <<"error", "idle">>,
                         <<"finalizing", "needReboot">>}
    BY DEF Work, Announce
  <2>2. ChangesLeft' < ChangesLeft
    BY <2>1 DEF ChangesLeft
  <2> QED
    BY <2>2 DEF Work
<1>7. Download => /\ ChangesLeft' = ChangesLeft /\ checks' = checks
                  /\ progress' = progress + 1
  BY DEF Download, Announce, ChangesLeft
<1>8. ~ (BeginCheck \/ Work \/ Download) =>
        ChangesLeft' = ChangesLeft /\ checks' = checks /\ progress' = progress
  <2> SUFFICES ASSUME ~ (BeginCheck \/ Work \/ Download)
               PROVE  UNCHANGED <<op, checks, progress>>
    BY DEF ChangesLeft
  <2>1. CASE Serve
    BY <2>1 DEF Serve
  <2>2. CASE Worker
    BY <2>2 DEF Worker, Deliver, ReadMessage, DeliverAnswer,
       LockSignals, SendSignal, ReadFails
  <2>3. CASE Receiver
    BY <2>3 DEF Receiver, RegisterAndAsk, GotStatus, ForwardStatus,
                StopReceiving, TakeSignal, TakeNilSignal
  <2>4. CASE Main
    BY <2>4 DEF Main, AttemptUpdate, AttemptFailed, StartReceiver,
       AskFirstStatus, FirstStatusFailed, SendMarker, ReceiveStatus,
       CloseStopCh, Wait, CloseClient
  <2>5. CASE UNCHANGED vars
    BY <2>5 DEF vars
  <2> QED
    BY <2>1, <2>2, <2>3, <2>4, <2>5 DEF WatchNext, Daemon
<1>9. Announcements \in Nat /\ Announcements' \in Nat
  BY <1>1, <1>2, <1>4, WatchAssumption, Counting
<1>10. BeginCheck \/ Work \/ Download => Announcements' < Announcements
  <2> SUFFICES ASSUME BeginCheck \/ Work \/ Download
               PROVE  Announcements' < Announcements
    OBVIOUS
  <2>1. \/ /\ ChangesLeft' < ChangesLeft /\ ChecksAsked' <= ChecksAsked
           /\ checks' = checks /\ progress' = progress
        \/ /\ ChangesLeft' = 3 /\ ChecksAsked' < ChecksAsked
           /\ checks' = checks /\ progress' = progress
        \/ /\ ChangesLeft' = 3 /\ ChecksAsked' <= ChecksAsked
           /\ checks' = checks + 1 /\ progress' = progress
        \/ /\ ChangesLeft' = ChangesLeft /\ ChecksAsked' <= ChecksAsked
           /\ checks' = checks /\ progress' = progress + 1
    BY <1>3, <1>5, <1>6, <1>7
  <2> QED
    BY <1>1, <1>2, <1>4, <2>1, WatchAssumption, Counting
<1>11. ~ (BeginCheck \/ Work \/ Download) => Announcements' <= Announcements
  <2> SUFFICES ASSUME ~ (BeginCheck \/ Work \/ Download)
               PROVE  Announcements' <= Announcements
    OBVIOUS
  <2>1. /\ ChangesLeft' <= ChangesLeft /\ ChecksAsked' <= ChecksAsked
        /\ checks' = checks /\ progress' = progress
    BY <1>2, <1>3, <1>8
  <2> QED
    BY <1>1, <1>2, <1>4, <2>1, WatchAssumption, Counting
<1> QED
  BY <1>9, <1>10, <1>11
-----------------------------------------------------------------------------
(* What fills the queues, and what is still to come: the calls, and the   *)
(* zero status of the receiver's call if the connection is lost.          *)
InFlight ==
  Len(requests) + Len(wire) + Len(inHand) + Len(answers["main"])
    + Len(answers["receiver"]) + Len(ch) + Len(held) + Len(statusCh)

MainCallsLeft     == IF main \in {"attempt", "first"} THEN 1 ELSE 0
ReceiverCallsLeft == CASE rcv \in {"none", "start"} -> 2 [] rcv = "asked" -> 1
                       [] OTHER -> 0

Load == InFlight + MainCallsLeft + ReceiverCallsLeft + Announcements

(* A length is a number.                                                  *)
LEMMA LengthIs ==
  ASSUME NEW S, NEW s \in Seq(S)
  PROVE  Len(s) \in Nat /\ (Len(s) <= 1 => Len(s) \in 0 .. 1)
<1> DEFINE n == Len(s)
<1>1. n \in Nat
  OBVIOUS
<1> HIDE DEF n
<1>2. n <= 1 => n \in 0 .. 1
  BY <1>1
<1> QED
  BY <1>1, <1>2 DEF n

(* The places for one message hold one or none.                           *)
LEMMA Lengths ==
  ASSUME Types
  PROVE  /\ Len(requests) \in Nat /\ Len(wire) \in Nat /\ Len(inHand) \in 0 .. 1
         /\ Len(answers["main"]) \in 0 .. 1 /\ Len(answers["receiver"]) \in 0 .. 1
         /\ Len(ch) \in Nat /\ Len(held) \in 0 .. 1 /\ Len(statusCh) \in Nat
<1>1. /\ requests \in Seq(Request) /\ wire \in Seq(Message)
      /\ inHand \in Seq(Message) /\ Len(inHand) <= 1
      /\ ch \in Seq(Status) /\ statusCh \in Seq(Status)
      /\ held \in Seq(Status) /\ Len(held) <= 1
  BY DEF Types, CallType, WireType, HandType, ChType, RcvType, StatusType
<1>2. \A p \in Process : answers[p] \in Seq(Operation \cup {""}) /\ Len(answers[p]) <= 1
  BY DEF Types, CallType
<1>3. /\ answers["main"] \in Seq(Operation \cup {""}) /\ Len(answers["main"]) <= 1
      /\ answers["receiver"] \in Seq(Operation \cup {""})
      /\ Len(answers["receiver"]) <= 1
  BY <1>2 DEF Process
<1>4. /\ Len(requests) \in Nat /\ Len(wire) \in Nat
      /\ Len(ch) \in Nat /\ Len(statusCh) \in Nat
  BY <1>1, LengthIs
<1>5. Len(inHand) \in 0 .. 1 /\ Len(held) \in 0 .. 1
  BY <1>1, LengthIs
<1>6. Len(answers["main"]) \in 0 .. 1 /\ Len(answers["receiver"]) \in 0 .. 1
  BY <1>3, LengthIs
<1> QED
  BY <1>4, <1>5, <1>6

(* An answer that is taken was there, and it is the only one.             *)
LEMMA TakenLengths ==
  ASSUME Types, NEW p \in Process, TakeAnswer(p), Answered(p)
  PROVE  /\ Len(answers[p]) = 1 /\ Len(answers'[p]) = 0
         /\ \A q \in Process : q # p => answers'[q] = answers[q]
<1>1. /\ CallType /\ answers[p] \in Seq(Operation \cup {""}) /\ Len(answers[p]) <= 1
      /\ answers[p] # <<>>
  BY DEF Types, CallType, Answered
<1>2. Len(answers[p]) = 1
  <2>1. answers[p] = <<answers[p][1]>> /\ answers[p][1] \in Operation \cup {""}
    BY <1>1, AtMostOneFacts
  <2> QED
    BY <2>1, OneFacts
<1>3. answers' = WithAnswer(p, <<>>)
  BY DEF TakeAnswer, WithAnswer
<1>4. <<>> \in Seq(Answer) /\ Len(<<>>) = 0
  OBVIOUS
<1>5. Len(<<>>) <= 1
  BY <1>4
<1>6. answers'[p] = <<>> /\ \A q \in Process : q # p => answers'[q] = answers[q]
  BY <1>1, <1>3, <1>4, <1>5, WithAnswerFacts
<1> QED
  BY <1>2, <1>4, <1>6

(* Every step uses one up, and nothing that fills the queues comes from   *)
(* anywhere but what was still to come.                                   *)
LEMMA StepCost ==
  ASSUME Types, AskedOnce, WatchNext
  PROVE  /\ StepsLeft' \in Nat /\ StepsLeft' < StepsLeft
         /\ Load' <= Load
<1> DEFINE r == Len(requests)
           w == Len(wire)
           h == Len(inHand)
           a == Len(answers["main"])
           b == Len(answers["receiver"])
           c == Len(ch)
           d == Len(held)
           s == Len(statusCh)
           n == Announcements
           x == MainDistance
           y == ReceiverDistance
           z == WorkerDistance
           u == MainCallsLeft
           v == ReceiverCallsLeft
           r1 == Len(requests')
           w1 == Len(wire')
           h1 == Len(inHand')
           a1 == Len(answers'["main"])
           b1 == Len(answers'["receiver"])
           c1 == Len(ch')
           d1 == Len(held')
           s1 == Len(statusCh')
           n1 == Announcements'
           x1 == MainDistance'
           y1 == ReceiverDistance'
           z1 == WorkerDistance'
           u1 == MainCallsLeft'
           v1 == ReceiverCallsLeft'
<1>1. Types'
  BY TypesStep
<1>2. /\ r \in Nat /\ w \in Nat /\ h \in 0 .. 1 /\ a \in 0 .. 1 /\ b \in 0 .. 1
      /\ c \in Nat /\ d \in 0 .. 1 /\ s \in Nat
  BY Lengths
<1>3. /\ r1 \in Nat /\ w1 \in Nat /\ h1 \in 0 .. 1 /\ a1 \in 0 .. 1 /\ b1 \in 0 .. 1
      /\ c1 \in Nat /\ d1 \in 0 .. 1 /\ s1 \in Nat
  <2>1. /\ requests' \in Seq(Request) /\ wire' \in Seq(Message)
        /\ inHand' \in Seq(Message) /\ Len(inHand') <= 1
        /\ ch' \in Seq(Status) /\ statusCh' \in Seq(Status)
        /\ held' \in Seq(Status) /\ Len(held') <= 1
    BY <1>1 DEF Types, CallType, WireType, HandType, ChType, RcvType, StatusType
  <2>2. \A p \in Process : /\ answers'[p] \in Seq(Operation \cup {""})
                           /\ Len(answers'[p]) <= 1
    BY <1>1 DEF Types, CallType
  <2>3. /\ answers'["main"] \in Seq(Operation \cup {""}) /\ Len(answers'["main"]) <= 1
        /\ answers'["receiver"] \in Seq(Operation \cup {""})
        /\ Len(answers'["receiver"]) <= 1
    BY <2>2 DEF Process
  <2>4. r1 \in Nat /\ w1 \in Nat /\ c1 \in Nat /\ s1 \in Nat
    BY <2>1, LengthIs
  <2>5. h1 \in 0 .. 1 /\ d1 \in 0 .. 1
    BY <2>1, LengthIs
  <2>6. a1 \in 0 .. 1 /\ b1 \in 0 .. 1
    BY <2>3, LengthIs
  <2> QED
    BY <2>4, <2>5, <2>6
<1>4. /\ n \in Nat /\ n1 \in Nat /\ n1 <= n
      /\ BeginCheck \/ Work \/ Download => n1 < n
  BY AnnouncementsStep
<1>5. /\ x \in Nat /\ y \in Nat /\ z \in 0 .. 2 /\ u \in 0 .. 1 /\ v \in 0 .. 2
      /\ x1 \in Nat /\ y1 \in Nat /\ z1 \in 0 .. 2 /\ u1 \in 0 .. 1 /\ v1 \in 0 .. 2
  BY DEF MainDistance, ReceiverDistance, WorkerDistance, MainCallsLeft,
         ReceiverCallsLeft
<1>6. /\ StepsLeft = 7 * n + (7 * r + 6 * w + 5 * h + 4 * a + 4 * b + 3 * c
                                + 2 * d + s) + x + y + z
      /\ StepsLeft' = 7 * n1 + (7 * r1 + 6 * w1 + 5 * h1 + 4 * a1 + 4 * b1 + 3 * c1
                                  + 2 * d1 + s1) + x1 + y1 + z1
  BY DEF StepsLeft, Deliveries
<1>7. /\ Load = (r + w + h + a + b + c + d + s) + u + v + n
      /\ Load' = (r1 + w1 + h1 + a1 + b1 + c1 + d1 + s1) + u1 + v1 + n1
  BY DEF Load, InFlight
<1>8. /\ requests' = requests => r1 = r
      /\ wire' = wire => w1 = w
      /\ inHand' = inHand => h1 = h
      /\ answers' = answers => a1 = a /\ b1 = b
      /\ ch' = ch => c1 = c
      /\ held' = held => d1 = d
      /\ statusCh' = statusCh => s1 = s
  OBVIOUS
<1>9. /\ main' = main => x1 = x /\ u1 = u
      /\ rcv' = rcv => y1 = y /\ v1 = v
      /\ UNCHANGED <<locked, workerDied, connOpen>> => z1 = z
  BY DEF MainDistance, ReceiverDistance, WorkerDistance, MainCallsLeft,
         ReceiverCallsLeft
<1>10. /\ requests \in Seq(Request) /\ wire \in Seq(Message)
       /\ inHand \in Seq(Message) /\ Len(inHand) <= 1
       /\ ch \in Seq(Status) /\ statusCh \in Seq(Status)
       /\ held \in Seq(Status) /\ Len(held) <= 1
       /\ (locked => inHand # <<>>) /\ (rcv = "send" <=> held # <<>>) /\ CallType
  BY DEF Types, CallType, WireType, HandType, ChType, RcvType, StatusType
<1>11. /\ inHand = <<>> => h = 0
       /\ inHand # <<>> => h = 1
       /\ held = <<>> => d = 0
       /\ held # <<>> => d = 1
  <2>1. Len(<<>>) = 0
    OBVIOUS
  <2>2. inHand # <<>> => Len(inHand) \in Nat \ {0}
    BY <1>10, TailFacts
  <2>3. held # <<>> => Len(held) \in Nat \ {0}
    BY <1>10, TailFacts
  <2>4. inHand # <<>> => h = 1
    BY <1>2, <2>2
  <2>5. held # <<>> => d = 1
    BY <1>2, <2>3
  <2>6. (inHand = <<>> => h = 0) /\ (held = <<>> => d = 0)
    BY <2>1
  <2> QED
    BY <2>4, <2>5, <2>6
<1>12. /\ inHand' = <<>> => h1 = 0
       /\ \A m : inHand' = <<m>> => h1 = 1
       /\ held' = <<>> => d1 = 0
       /\ \A m : held' = <<m>> => d1 = 1
  OBVIOUS
<1> DEFINE Cost == /\ StepsLeft' \in Nat /\ StepsLeft' < StepsLeft
                   /\ Load' <= Load
<1> SUFFICES Cost
  OBVIOUS
<1> HIDE DEF r, w, h, a, b, c, d, s, n, x, y, z, u, v,
             r1, w1, h1, a1, b1, c1, d1, s1, n1, x1, y1, z1, u1, v1
<1>13. ASSUME n1 <= n,
              7 * n1 + (7 * r1 + 6 * w1 + 5 * h1 + 4 * a1 + 4 * b1 + 3 * c1
                + 2 * d1 + s1) + x1 + y1 + z1
              < 7 * n + (7 * r + 6 * w + 5 * h + 4 * a + 4 * b + 3 * c
                + 2 * d + s) + x + y + z,
              (r1 + w1 + h1 + a1 + b1 + c1 + d1 + s1) + u1 + v1 + n1
                <= (r + w + h + a + b + c + d + s) + u + v + n
       PROVE  Cost
  <2>1. StepsLeft' \in Nat
    BY <1>3, <1>4, <1>5, <1>6
  <2> QED
    BY <1>6, <1>7, <1>13, <2>1
<1>14. CASE Serve
  <2>1. /\ requests # <<>> /\ requests' = Tail(requests)
        /\ \/ wire' = wire
           \/ \E o \in Operation \cup {""} :
                wire' = Append(wire, [to |-> Head(requests).from, op |-> o])
        /\ UNCHANGED <<inHand, answers, ch, held, statusCh, main, rcv, locked,
                       workerDied, connOpen>>
    BY <1>14, <1>10 DEF Serve, Types, DaemonType
  <2>2. r1 = r - 1 /\ Head(requests) \in Request
    BY <1>10, <2>1, TailFacts DEF r, r1
  <2>3. w1 = w \/ w1 = w + 1
    <3>1. ASSUME NEW o \in Operation \cup {""},
                 wire' = Append(wire, [to |-> Head(requests).from, op |-> o])
          PROVE  w1 = w + 1
      <4> DEFINE m == [to |-> Head(requests).from, op |-> o]
      <4>1. m \in Message /\ wire' = Append(wire, m)
        BY <2>2, <3>1 DEF Request, Process, Message
      <4> HIDE DEF m
      <4> QED
        BY <1>10, <4>1, AppendFacts DEF w, w1
    <3> QED
      BY <1>8, <2>1, <3>1
  <2>9. /\ r1 = r - 1 /\ (w1 = w \/ w1 = w + 1)
        /\ h1 = h /\ a1 = a /\ b1 = b /\ c1 = c /\ d1 = d /\ s1 = s
        /\ x1 = x /\ y1 = y /\ z1 = z /\ u1 = u /\ v1 = v
    BY <1>8, <1>9, <1>11, <1>12, <2>1, <2>2, <2>3
  <2> QED
    BY <1>2, <1>3, <1>4, <1>5, <1>13, <2>9
<1>15. CASE BeginCheck \/ Work \/ Download
  <2>1. PICK o \in Operation : Announce(o)
    BY <1>15, Operations DEF BeginCheck, Work, Download
  <2>2. /\ wire' = wire \/ wire' = Append(wire, [to |-> "ch", op |-> o])
        /\ UNCHANGED <<requests, inHand, answers, ch, held, statusCh, main, rcv,
                       locked, workerDied, connOpen>>
    BY <2>1 DEF Announce
  <2>3. w1 = w \/ w1 = w + 1
    <3> DEFINE m == [to |-> "ch", op |-> o]
    <3>1. m \in Message /\ (wire' = wire \/ wire' = Append(wire, m))
      BY <2>2 DEF Message
    <3> HIDE DEF m
    <3> QED
      BY <1>8, <1>10, <3>1, AppendFacts DEF w, w1
  <2>9. /\ n1 < n /\ (w1 = w \/ w1 = w + 1)
        /\ r1 = r /\ h1 = h /\ a1 = a /\ b1 = b /\ c1 = c /\ d1 = d /\ s1 = s
        /\ x1 = x /\ y1 = y /\ z1 = z /\ u1 = u /\ v1 = v
    BY <1>4, <1>8, <1>9, <1>15, <2>2, <2>3
  <2> QED
    BY <1>2, <1>3, <1>4, <1>5, <1>13, <2>9
<1>16. CASE ReadMessage
  <2>1. /\ inHand = <<>> /\ wire # <<>>
        /\ inHand' = <<Head(wire)>> /\ wire' = Tail(wire)
        /\ UNCHANGED <<requests, answers, ch, held, statusCh, main, rcv, locked,
                       workerDied, connOpen>>
    BY <1>16, <1>10 DEF ReadMessage
  <2>2. w1 = w - 1
    BY <1>10, <2>1, TailFacts DEF w, w1
  <2>9. /\ w1 = w - 1 /\ h = 0 /\ h1 = 1
        /\ r1 = r /\ a1 = a /\ b1 = b /\ c1 = c /\ d1 = d /\ s1 = s
        /\ x1 = x /\ y1 = y /\ z1 = z /\ u1 = u /\ v1 = v
    BY <1>8, <1>9, <1>11, <1>12, <2>1, <2>2
  <2> QED
    BY <1>2, <1>3, <1>4, <1>5, <1>13, <2>9
<1>17. CASE DeliverAnswer
  <2>1. /\ inHand # <<>> /\ inHand' = <<>> /\ inHand[1].to # "ch"
        /\ answers' = WithAnswer(inHand[1].to, <<inHand[1].op>>)
        /\ UNCHANGED <<requests, wire, ch, held, statusCh, main, rcv, locked,
                       workerDied, connOpen>>
    BY <1>17, <1>10 DEF DeliverAnswer, WithAnswer
  <2>2. b1 = b \/ a1 = a
    <3>1. inHand[1] \in Message
      BY <1>10, <2>1, AtMostOneFacts
    <3> DEFINE p == inHand[1].to
               o == inHand[1].op
    <3>2. p \in Process /\ o \in Answer /\ answers' = WithAnswer(p, <<o>>)
      BY <2>1, <3>1 DEF Message, Process, Answer
    <3> HIDE DEF p, o
    <3>3. <<o>> \in Seq(Answer) /\ Len(<<o>>) <= 1
      BY <3>2, OneFacts
    <3>4. \A p2 \in Process : p2 # p => answers'[p2] = answers[p2]
      BY <1>10, <3>2, <3>3, WithAnswerFacts
    <3>5. answers'["main"] = answers["main"] \/ answers'["receiver"] = answers["receiver"]
      BY <3>4 DEF Process
    <3> QED
      BY <3>5 DEF a, a1, b, b1
  <2>9. /\ h = 1 /\ h1 = 0
        /\ (a1 <= 1 /\ b1 = b) \/ (b1 <= 1 /\ a1 = a)
        /\ r1 = r /\ w1 = w /\ c1 = c /\ d1 = d /\ s1 = s
        /\ x1 = x /\ y1 = y /\ z1 = z /\ u1 = u /\ v1 = v
    BY <1>8, <1>9, <1>11, <1>12, <2>1, <2>2, <1>3
  <2> QED
    BY <1>2, <1>3, <1>4, <1>5, <1>13, <2>9
<1>18. CASE LockSignals
  <2>1. /\ ~ locked /\ ~ workerDied /\ (locked' \/ workerDied')
        /\ UNCHANGED <<requests, wire, inHand, answers, ch, held, statusCh, main,
                       rcv, connOpen>>
    BY <1>18, <1>10 DEF LockSignals, Alive
  <2>2. z1 = z - 1
    BY <2>1 DEF z, z1, WorkerDistance
  <2>9. /\ z1 = z - 1
        /\ r1 = r /\ w1 = w /\ h1 = h /\ a1 = a /\ b1 = b /\ c1 = c /\ d1 = d /\ s1 = s
        /\ x1 = x /\ y1 = y /\ u1 = u /\ v1 = v
    BY <1>8, <1>9, <1>11, <1>12, <2>1, <2>2
  <2> QED
    BY <1>2, <1>3, <1>4, <1>5, <1>13, <2>9
<1>19. CASE SendSignal
  <2>1. /\ locked /\ inHand # <<>> /\ inHand' = <<>>
        /\ ch' = Append(ch, [kind |-> "signal", op |-> inHand[1].op])
        /\ UNCHANGED <<requests, wire, answers, held, statusCh, main, rcv, connOpen>>
    BY <1>19, <1>10 DEF SendSignal, ChannelTakes
  <2>2. c1 = c + 1
    <3>1. inHand[1] \in Message
      BY <1>10, <2>1, AtMostOneFacts
    <3> DEFINE m == [kind |-> "signal", op |-> inHand[1].op]
    <3>2. m \in Status /\ ch' = Append(ch, m)
      BY <2>1, <3>1 DEF Message, Status
    <3> HIDE DEF m
    <3> QED
      BY <1>10, <3>2, AppendFacts DEF c, c1
  <2>3. z1 <= z + 1
    BY <2>1 DEF z, z1, WorkerDistance
  <2>9. /\ h = 1 /\ h1 = 0 /\ c1 = c + 1 /\ z1 <= z + 1
        /\ r1 = r /\ w1 = w /\ a1 = a /\ b1 = b /\ d1 = d /\ s1 = s
        /\ x1 = x /\ y1 = y /\ u1 = u /\ v1 = v
    BY <1>8, <1>9, <1>11, <1>12, <2>1, <2>2, <2>3
  <2> QED
    BY <1>2, <1>3, <1>4, <1>5, <1>13, <2>9
<1>20. CASE RegisterAndAsk
  <2>1. /\ rcv = "start"
        /\ \/ /\ rcv' = "asked" /\ held' = held
              /\ requests' = Append(requests, [from |-> "receiver", method |-> "GetStatus"])
           \/ rcv' = "send" /\ requests' = requests
        /\ UNCHANGED <<wire, inHand, answers, ch, statusCh, main, locked,
                       workerDied, connOpen>>
    BY <1>20, <1>10 DEF RegisterAndAsk, Send
  <2>2. \/ rcv' = "asked" /\ r1 = r + 1 /\ d1 = d
        \/ rcv' = "send" /\ r1 = r
    <3> DEFINE m == [from |-> "receiver", method |-> "GetStatus"]
    <3>1. m \in Request
      BY DEF Request, Process
    <3>2. \/ rcv' = "asked" /\ held' = held /\ requests' = Append(requests, m)
          \/ rcv' = "send" /\ requests' = requests
      BY <2>1
    <3> HIDE DEF m
    <3>3. Len(Append(requests, m)) = Len(requests) + 1
      BY <1>10, <3>1, AppendFacts
    <3>4. requests' = Append(requests, m) => r1 = r + 1
      BY <3>3 DEF r, r1
    <3> QED
      BY <1>8, <3>2, <3>4
  <2>3. /\ y = 14 /\ v = 2
        /\ rcv' = "asked" => y1 = 5 /\ v1 = 1
        /\ rcv' = "send" => y1 = 2 /\ v1 = 0
    BY <2>1 DEF y, y1, v, v1, ReceiverDistance, ReceiverCallsLeft
  <2>4. d1 <= 1 /\ d1 <= d + 1
    BY <1>2, <1>3
  <2>9. /\ \/ r1 = r + 1 /\ d1 = d /\ y1 = 5 /\ v1 = 1
           \/ r1 = r /\ d1 <= 1 /\ y1 = 2 /\ v1 = 0
        /\ y = 14 /\ v = 2 /\ d1 <= d + 1
        /\ w1 = w /\ h1 = h /\ a1 = a /\ b1 = b /\ c1 = c /\ s1 = s
        /\ x1 = x /\ z1 = z /\ u1 = u
    BY <1>8, <1>9, <1>11, <1>12, <2>1, <2>2, <2>3, <2>4
  <2> QED
    BY <1>2, <1>3, <1>4, <1>5, <1>13, <2>9
<1>21. CASE GotStatus
  <2>1. /\ rcv = "asked" /\ rcv' = "send"
        /\ \/ Answered("receiver") /\ TakeAnswer("receiver")
           \/ answers' = answers
        /\ UNCHANGED <<requests, wire, inHand, ch, statusCh, main, locked,
                       workerDied, connOpen>>
    BY <1>21, <1>10 DEF GotStatus
  <2>2. Answered("receiver") /\ TakeAnswer("receiver") => b = 1 /\ b1 = 0 /\ a1 = a
    <3> SUFFICES ASSUME Answered("receiver"), TakeAnswer("receiver")
                 PROVE  b = 1 /\ b1 = 0 /\ a1 = a
      OBVIOUS
    <3>1. /\ Len(answers["receiver"]) = 1 /\ Len(answers'["receiver"]) = 0
          /\ answers'["main"] = answers["main"]
      BY TakenLengths DEF Process
    <3> QED
      BY <3>1 DEF a, a1, b, b1
  <2>3. y = 5 /\ y1 = 2 /\ v = 1 /\ v1 = 0
    BY <2>1 DEF y, y1, v, v1, ReceiverDistance, ReceiverCallsLeft
  <2>4. d = 0 /\ d1 <= 1
    BY <1>3, <1>10, <1>11, <2>1
  <2>9. /\ (b = 1 /\ b1 = 0 /\ a1 = a) \/ (a1 = a /\ b1 = b)
        /\ d = 0 /\ d1 <= 1 /\ y = 5 /\ y1 = 2 /\ v = 1 /\ v1 = 0
        /\ r1 = r /\ w1 = w /\ h1 = h /\ c1 = c /\ s1 = s
        /\ x1 = x /\ z1 = z /\ u1 = u
    BY <1>8, <1>9, <1>11, <1>12, <2>1, <2>2, <2>3, <2>4
  <2> QED
    BY <1>2, <1>3, <1>4, <1>5, <1>13, <2>9
<1>22. CASE ForwardStatus
  <2>1. /\ rcv = "send" /\ rcv' = "loop" /\ held # <<>> /\ held' = <<>>
        /\ statusCh' = statusCh \o held
        /\ UNCHANGED <<requests, wire, inHand, answers, ch, main, locked,
                       workerDied, connOpen>>
    BY <1>22, <1>10 DEF ForwardStatus
  <2>2. s1 = s + 1
    <3>1. held = <<held[1]>> /\ held[1] \in Status
      BY <1>10, <2>1, AtMostOneFacts
    <3>2. statusCh' = Append(statusCh, held[1])
      BY <1>10, <2>1, <3>1, AppendHeld
    <3> QED
      BY <1>10, <3>1, <3>2, AppendFacts DEF s, s1
  <2>3. y = 2 /\ y1 = 2 /\ v = 0 /\ v1 = 0
    BY <2>1 DEF y, y1, v, v1, ReceiverDistance, ReceiverCallsLeft
  <2>9. /\ d = 1 /\ d1 = 0 /\ s1 = s + 1 /\ y = 2 /\ y1 = 2 /\ v = 0 /\ v1 = 0
        /\ r1 = r /\ w1 = w /\ h1 = h /\ a1 = a /\ b1 = b /\ c1 = c
        /\ x1 = x /\ z1 = z /\ u1 = u
    BY <1>8, <1>9, <1>11, <1>12, <2>1, <2>2, <2>3
  <2> QED
    BY <1>2, <1>3, <1>4, <1>5, <1>13, <2>9
<1>23. CASE StopReceiving \/ TakeNilSignal
  <2>1. /\ rcv = "loop" /\ rcv' \in {"done", "panic"}
        /\ UNCHANGED <<requests, wire, inHand, answers, ch, held, statusCh, main,
                       locked, workerDied, connOpen>>
    BY <1>23, <1>10 DEF StopReceiving, TakeNilSignal
  <2>2. y = 2 /\ y1 = 1 /\ v = 0 /\ v1 = 0
    BY <2>1 DEF y, y1, v, v1, ReceiverDistance, ReceiverCallsLeft
  <2>9. /\ y = 2 /\ y1 = 1 /\ v = 0 /\ v1 = 0
        /\ r1 = r /\ w1 = w /\ h1 = h /\ a1 = a /\ b1 = b /\ c1 = c /\ d1 = d /\ s1 = s
        /\ x1 = x /\ z1 = z /\ u1 = u
    BY <1>8, <1>9, <1>11, <1>12, <2>1, <2>2
  <2> QED
    BY <1>2, <1>3, <1>4, <1>5, <1>13, <2>9
<1>24. CASE TakeSignal
  <2>1. /\ rcv = "loop" /\ rcv' = "send" /\ ch # <<>> /\ ch' = Tail(ch)
        /\ held = <<>> /\ held' = <<Head(ch)>>
        /\ UNCHANGED <<requests, wire, inHand, answers, statusCh, main, locked,
                       workerDied, connOpen>>
    BY <1>24, <1>10 DEF TakeSignal
  <2>2. c1 = c - 1
    BY <1>10, <2>1, TailFacts DEF c, c1
  <2>3. y = 2 /\ y1 = 2 /\ v = 0 /\ v1 = 0
    BY <2>1 DEF y, y1, v, v1, ReceiverDistance, ReceiverCallsLeft
  <2>9. /\ c1 = c - 1 /\ d = 0 /\ d1 = 1 /\ y = 2 /\ y1 = 2 /\ v = 0 /\ v1 = 0
        /\ r1 = r /\ w1 = w /\ h1 = h /\ a1 = a /\ b1 = b /\ s1 = s
        /\ x1 = x /\ z1 = z /\ u1 = u
    BY <1>8, <1>9, <1>11, <1>12, <2>1, <2>2, <2>3
  <2> QED
    BY <1>2, <1>3, <1>4, <1>5, <1>13, <2>9
<1>25. CASE AttemptUpdate \/ AskFirstStatus
  <2>1. /\ \/ main = "attempt" /\ main' = "attempted"
           \/ main = "first" /\ main' = "asked"
        /\ \/ requests' = requests
           \/ \E m \in {"AttemptUpdate", "GetStatus"} :
                requests' = Append(requests, [from |-> "main", method |-> m])
        /\ UNCHANGED <<wire, inHand, answers, ch, held, statusCh, rcv, locked,
                       workerDied, connOpen>>
    BY <1>25, <1>10 DEF AttemptUpdate, AskFirstStatus, Call, Send
  <2>2. ASSUME NEW m \in {"AttemptUpdate", "GetStatus"},
               requests' = Append(requests, [from |-> "main", method |-> m])
        PROVE  r1 = r + 1
    <3> DEFINE e == [from |-> "main", method |-> m]
    <3>1. e \in Request /\ requests' = Append(requests, e)
      BY <2>2 DEF Request, Process
    <3> HIDE DEF e
    <3> QED
      BY <1>10, <3>1, AppendFacts DEF r, r1
  <2>3. r1 = r \/ r1 = r + 1
    BY <1>8, <2>1, <2>2
  <2>4. u = 1 /\ u1 = 0 /\ ((x = 21 /\ x1 = 13) \/ (x = 13 /\ x1 = 5))
    BY <2>1 DEF x, x1, u, u1, MainDistance, MainCallsLeft
  <2>9. /\ (r1 = r \/ r1 = r + 1) /\ u = 1 /\ u1 = 0
        /\ (x = 21 /\ x1 = 13) \/ (x = 13 /\ x1 = 5)
        /\ w1 = w /\ h1 = h /\ a1 = a /\ b1 = b /\ c1 = c /\ d1 = d /\ s1 = s
        /\ y1 = y /\ z1 = z /\ v1 = v
    BY <1>8, <1>9, <1>11, <1>12, <2>1, <2>3, <2>4
  <2> QED
    BY <1>2, <1>3, <1>4, <1>5, <1>13, <2>9
<1>26. ASSUME TakeAnswer("main"), answers["main"] # <<>>
       PROVE  a = 1 /\ a1 = 0 /\ b1 = b
  <2>1. /\ Len(answers["main"]) = 1 /\ Len(answers'["main"]) = 0
        /\ answers'["receiver"] = answers["receiver"]
    BY <1>26, TakenLengths DEF Process, Answered
  <2> QED
    BY <2>1 DEF a, a1, b, b1
<1>27. CASE AttemptFailed \/ FirstStatusFailed
  <2>1. /\ main \in {"attempted", "asked"} /\ main' = "close"
        /\ \/ TakeAnswer("main") /\ answers["main"] = <<"">>
           \/ answers' = answers
        /\ UNCHANGED <<requests, wire, inHand, ch, held, statusCh, rcv, locked,
                       workerDied, connOpen>>
    BY <1>27, <1>10 DEF AttemptFailed, FirstStatusFailed, CallFails
  <2>2. <<"">> # <<>>
    OBVIOUS
  <2>3. b1 = b /\ a1 <= a
    <3>1. TakeAnswer("main") /\ answers["main"] = <<"">>
            => a = 1 /\ a1 = 0 /\ b1 = b
      BY <2>2, <1>26
    <3>2. answers' = answers => a1 = a /\ b1 = b
      BY <1>8
    <3>3. \/ a = 1 /\ a1 = 0 /\ b1 = b
          \/ a1 = a /\ b1 = b
      BY <2>1, <3>1, <3>2
    <3> QED
      BY <1>2, <3>3
  <2>4. main \in {"attempted", "asked"} /\ main' = "close"
    BY <2>1
  <2>5. x >= 5 /\ x1 = 2 /\ u = 0 /\ u1 = 0
    BY <2>4 DEF x, x1, u, u1, MainDistance, MainCallsLeft
  <2>9. /\ a1 <= a /\ b1 = b /\ x >= 5 /\ x1 = 2 /\ u = 0 /\ u1 = 0
        /\ r1 = r /\ w1 = w /\ h1 = h /\ c1 = c /\ d1 = d /\ s1 = s
        /\ y1 = y /\ z1 = z /\ v1 = v
    BY <1>8, <1>9, <1>11, <1>12, <2>1, <2>3, <2>5
  <2> QED
    BY <1>2, <1>3, <1>4, <1>5, <1>13, <2>9
<1>28. CASE StartReceiver
  <2>1. /\ main = "attempted" /\ main' = "first" /\ rcv = "none" /\ rcv' = "start"
        /\ TakeAnswer("main") /\ answers["main"] # <<>>
        /\ UNCHANGED <<requests, wire, inHand, ch, held, statusCh, locked,
                       workerDied, connOpen>>
    BY <1>28, <1>10 DEF StartReceiver, Answered, Types, MainType
  <2>2. x = 13 /\ x1 = 13 /\ u = 0 /\ u1 = 1
    BY <2>1 DEF x, x1, u, u1, MainDistance, MainCallsLeft
  <2>3. y1 = y /\ v1 = v
    BY <2>1 DEF y, y1, v, v1, ReceiverDistance, ReceiverCallsLeft
  <2>9. /\ a = 1 /\ a1 = 0 /\ b1 = b /\ x = 13 /\ x1 = 13 /\ u = 0 /\ u1 = 1
        /\ y1 = y /\ v1 = v
        /\ r1 = r /\ w1 = w /\ h1 = h /\ c1 = c /\ d1 = d /\ s1 = s /\ z1 = z
    BY <1>8, <1>9, <1>11, <1>12, <2>1, <2>2, <2>3, <1>26
  <2> QED
    BY <1>2, <1>3, <1>4, <1>5, <1>13, <2>9
<1>29. CASE SendMarker
  <2>1. /\ main = "asked" /\ main' = "loop"
        /\ TakeAnswer("main") /\ answers["main"] # <<>>
        /\ statusCh' = Append(statusCh, [kind |-> "marker", op |-> answers["main"][1]])
        /\ UNCHANGED <<requests, wire, inHand, ch, held, rcv, locked, workerDied,
                       connOpen>>
    BY <1>29, <1>10 DEF SendMarker, Answered
  <2>2. x = 5 /\ x1 = 5 /\ u = 0 /\ u1 = 0
    BY <2>1 DEF x, x1, u, u1, MainDistance, MainCallsLeft
  <2>3. s1 = s + 1
    <3> DEFINE m == [kind |-> "marker", op |-> answers["main"][1]]
    <3>1. answers["main"] \in Seq(Answer) /\ answers["main"] # <<>>
      BY <2>1 DEF Types, CallType, Process, Answer
    <3>2. answers["main"][1] \in Answer
      BY <3>1, TailFacts
    <3>3. m \in Status /\ statusCh' = Append(statusCh, m)
      BY <2>1, <3>2 DEF Status, Answer
    <3> HIDE DEF m
    <3> QED
      BY <1>10, <3>3, AppendFacts DEF s, s1
  <2>9. /\ a = 1 /\ a1 = 0 /\ b1 = b /\ s1 = s + 1 /\ x = 5 /\ x1 = 5 /\ u = 0 /\ u1 = 0
        /\ r1 = r /\ w1 = w /\ h1 = h /\ c1 = c /\ d1 = d
        /\ y1 = y /\ z1 = z /\ v1 = v
    BY <1>8, <1>9, <1>11, <1>12, <2>1, <2>2, <2>3, <1>26
  <2> QED
    BY <1>2, <1>3, <1>4, <1>5, <1>13, <2>9
<1>30. CASE ReceiveStatus
  <2>1. /\ main = "loop" /\ main' \in {"loop", "stop"}
        /\ statusCh # <<>> /\ statusCh' = Tail(statusCh)
        /\ UNCHANGED <<requests, wire, inHand, answers, ch, held, rcv, locked,
                       workerDied, connOpen>>
    BY <1>30, <1>10 DEF ReceiveStatus, FlushStatus, ActOnStatus
  <2>2. s1 = s - 1
    BY <1>10, <2>1, TailFacts DEF s, s1
  <2>3. x = 5 /\ x1 <= 5 /\ u = 0 /\ u1 = 0
    BY <2>1 DEF x, x1, u, u1, MainDistance, MainCallsLeft
  <2>9. /\ s1 = s - 1 /\ x = 5 /\ x1 <= 5 /\ u = 0 /\ u1 = 0
        /\ r1 = r /\ w1 = w /\ h1 = h /\ a1 = a /\ b1 = b /\ c1 = c /\ d1 = d
        /\ y1 = y /\ z1 = z /\ v1 = v
    BY <1>8, <1>9, <1>11, <1>12, <2>1, <2>2, <2>3
  <2> QED
    BY <1>2, <1>3, <1>4, <1>5, <1>13, <2>9
<1>31. CASE CloseStopCh \/ Wait \/ CloseClient
  <2>1. /\ <<main, main'>> \in {<<"stop", "wait">>, <<"wait", "close">>,
                                <<"close", "returned">>}
        /\ UNCHANGED <<requests, wire, inHand, answers, ch, held, statusCh, rcv,
                       locked, workerDied>>
        /\ connOpen' = connOpen \/ ~ connOpen'
    BY <1>31, <1>10 DEF CloseStopCh, Wait, CloseClient
  <2>2. x1 < x /\ u = 0 /\ u1 = 0
    BY <2>1 DEF x, x1, u, u1, MainDistance, MainCallsLeft
  <2>3. z1 <= z
    BY <2>1 DEF z, z1, WorkerDistance
  <2>9. /\ x1 < x /\ u = 0 /\ u1 = 0 /\ z1 <= z
        /\ r1 = r /\ w1 = w /\ h1 = h /\ a1 = a /\ b1 = b /\ c1 = c /\ d1 = d /\ s1 = s
        /\ y1 = y /\ v1 = v
    BY <1>8, <1>9, <1>11, <1>12, <2>1, <2>2, <2>3
  <2> QED
    BY <1>2, <1>3, <1>4, <1>5, <1>13, <2>9
<1>32. CASE ReadFails
  <2>1. /\ connOpen /\ ~ connOpen'
        /\ UNCHANGED <<requests, wire, inHand, answers, ch, held, statusCh, main, rcv,
                       locked, workerDied>>
    BY <1>32 DEF ReadFails
  <2>2. z1 = z - 1
    BY <2>1 DEF z, z1, WorkerDistance
  <2>9. /\ z1 = z - 1
        /\ r1 = r /\ w1 = w /\ h1 = h /\ a1 = a /\ b1 = b /\ c1 = c /\ d1 = d /\ s1 = s
        /\ x1 = x /\ y1 = y /\ u1 = u /\ v1 = v
    BY <1>8, <1>9, <1>11, <1>12, <2>1, <2>2
  <2> QED
    BY <1>2, <1>3, <1>4, <1>5, <1>13, <2>9
<1> HIDE DEF Cost
<1> QED
  BY <1>14, <1>15, <1>16, <1>17, <1>18, <1>19, <1>20, <1>21, <1>22, <1>23,
     <1>24, <1>25, <1>27, <1>28, <1>29, <1>30, <1>31, <1>32
  DEF WatchNext, Daemon, Worker, Deliver, Receiver, Main

(* No goroutine goes round in circles, whatever the capacities of the     *)
(* channels and however often the daemon announces something.             *)
THEOREM WatchStepsRunOut == WatchSpec => StepsRunOut
<1>1. Types /\ AskedOnce /\ [WatchNext]_vars
        => [StepsLeft' \in Nat /\ StepsLeft' < StepsLeft]_vars
  BY StepCost
<1> QED
  BY <1>1, TypesAlways, AskedOnceAlways, PTL DEF WatchSpec, StepsRunOut
-----------------------------------------------------------------------------
(* When there is a receiver, when stopCh is closed, and what can panic.   *)
Stops ==
  /\ main \in {"first", "asked", "loop", "stop", "wait"} => rcv # "none"
  /\ main = "loop" => ~ stopped
  /\ rcv = "done" => stopped
  /\ main = "wait" => stopped
  /\ stopped => main \in {"wait", "close", "returned"}
  /\ connOpen => Alive

(* There is neither at the start.                                         *)
LEMMA StopsInit == WatchInit => Stops
  BY DEF WatchInit, Stops, Alive

(* Main closes stopCh, and only then does the receiver stop.              *)
LEMMA StopsStep ==
  ASSUME Types, Stops, [WatchNext]_vars
  PROVE  Stops'
<1>0. RcvType /\ MainType
  BY DEF Types
<1>1. ASSUME UNCHANGED <<connOpen, workerDied, rcv, main, stopped>>
      PROVE  Stops'
  BY <1>1 DEF Stops, Alive
<1>2. CASE Daemon
  BY <1>1, <1>2 DEF Daemon, Serve, BeginCheck, Work, Download, Announce
<1>3. CASE ReadMessage \/ DeliverAnswer \/ SendSignal
  BY <1>1, <1>3 DEF ReadMessage, DeliverAnswer, SendSignal
<1>4. CASE LockSignals
  <2>1. /\ UNCHANGED <<connOpen, rcv, main, stopped>>
        /\ connOpen' => ~ workerDied'
    BY <1>4 DEF LockSignals
  <2> QED
    BY <2>1 DEF Stops, Alive
<1>5. CASE RegisterAndAsk \/ GotStatus \/ ForwardStatus \/ TakeSignal
  <2>1. /\ UNCHANGED <<connOpen, workerDied, main, stopped>>
        /\ rcv' \in {"asked", "send", "loop"}
    BY <1>5 DEF RegisterAndAsk, GotStatus, ForwardStatus, TakeSignal
  <2> QED
    BY <2>1 DEF Stops, Alive
<1>6. CASE StopReceiving \/ TakeNilSignal
  <2>1. /\ UNCHANGED <<connOpen, workerDied, main, stopped>>
        /\ (rcv' = "done" /\ stopped) \/ (rcv' = "panic" /\ ~ connOpen)
    BY <1>6 DEF StopReceiving, TakeNilSignal
  <2> QED
    BY <2>1 DEF Stops, Alive
<1>7. CASE AttemptUpdate \/ AttemptFailed \/ AskFirstStatus \/ SendMarker \/ ReceiveStatus
  <2>1. /\ UNCHANGED <<connOpen, workerDied, rcv, stopped>>
        /\ <<main, main'>> \in {<<"attempt", "attempted">>, <<"attempted", "close">>,
                                <<"first", "asked">>, <<"asked", "loop">>,
                                <<"loop", "loop">>, <<"loop", "stop">>}
    BY <1>7 DEF AttemptUpdate, AttemptFailed, AskFirstStatus, SendMarker,
                ReceiveStatus, FlushStatus, ActOnStatus
  <2> QED
    BY <2>1 DEF Stops, Alive
<1>8. CASE StartReceiver
  <2>1. /\ UNCHANGED <<connOpen, workerDied, stopped>>
        /\ main = "attempted" /\ main' = "first" /\ rcv' = "start"
    BY <1>8 DEF StartReceiver
  <2> QED
    BY <2>1 DEF Stops, Alive
<1>9. CASE FirstStatusFailed \/ CloseStopCh
  <2>1. /\ UNCHANGED <<connOpen, workerDied, rcv>> /\ stopped'
        /\ <<main, main'>> \in {<<"asked", "close">>, <<"stop", "wait">>}
    BY <1>9 DEF FirstStatusFailed, CloseStopCh
  <2> QED
    BY <2>1 DEF Stops, Alive
<1>10. CASE Wait \/ CloseClient
  <2>1. /\ UNCHANGED <<workerDied, rcv, stopped>> /\ (connOpen' => connOpen)
        /\ <<main, main'>> \in {<<"wait", "close">>, <<"close", "returned">>}
    BY <1>10 DEF Wait, CloseClient
  <2> QED
    BY <2>1 DEF Stops, Alive
<1>11. CASE ReadFails
  <2>1. /\ UNCHANGED <<workerDied, rcv, main, stopped>> /\ ~ connOpen'
    BY <1>11 DEF ReadFails
  <2> QED
    BY <2>1 DEF Stops, Alive
<1>12. CASE UNCHANGED vars
  BY <1>1, <1>12 DEF vars
<1> QED
  BY <1>2, <1>3, <1>4, <1>5, <1>6, <1>7, <1>8, <1>9, <1>10, <1>11, <1>12
  DEF WatchNext, Worker, Deliver, Receiver, Main

(* So it is at all times.                                                 *)
LEMMA StopsAlways == WatchSpec => []Stops
<1>1. Types /\ Stops /\ [WatchNext]_vars => Stops'
  BY StopsStep
<1> QED
  BY <1>1, StopsInit, TypesAlways, PTL DEF WatchSpec
-----------------------------------------------------------------------------
(* Where nothing is under way no call waits and nothing is to come.       *)
LEMMA NothingUnderWay ==
  ASSUME Types, requests = <<>>, wire = <<>>, inHand = <<>>
  PROVE  /\ \A p \in Process : Placed(p) => Answered(p)
         /\ held = <<>> /\ ch = <<>> /\ statusCh = <<>> => Pending = {}
<1>1. ToSet(<<>>) = {} /\ DOMAIN <<>> = {}
  <2>1. ToSet(<<>>) = {}
    BY NoneFacts
  <2>2. DOMAIN <<>> = {}
    OBVIOUS
  <2> QED
    BY <2>1, <2>2
<1>2. \A p \in Process : Placed(p) => Answered(p)
  BY <1>1 DEF Placed, InMessages
<1>3. ASSUME held = <<>>, ch = <<>>, statusCh = <<>>
      PROVE  Pending = {}
  BY <1>1, <1>3 DEF Pending
<1> QED
  BY <1>2, <1>3

(* Whenever OSUpdate has not returned, someone can go on, or finds a      *)
(* channel full.                                                          *)
LEMMA StuckForRoom ==
  ASSUME Types, Stops, CallsPlaced, NoVerdictMissed
  PROVE  StuckOnlyForRoom
<1> SUFFICES ASSUME main # "returned", Alive,
                    ~ DaemonCanMove, ~ WorkerCanMove, ~ ReceiverCanMove, ~ MainCanMove,
                    ~ WaitsForRoom
             PROVE  FALSE
  BY DEF StuckOnlyForRoom, Stops
<1>0. /\ Len(statusCh) \in Nat /\ StatusCap \in Nat /\ Len(statusCh) <= StatusCap
      /\ Len(ch) \in Nat /\ SignalCap \in Nat /\ Len(ch) <= SignalCap
  BY WatchAssumption, Lengths DEF Types, StatusType, ChType
<1>1. rcv # "panic"
  BY DEF Alive
<1>2. requests = <<>> /\ op \in {"idle", "needReboot"}
  BY DEF DaemonCanMove
<1>3. inHand = <<>> /\ (connOpen => wire = <<>>) /\ ~ locked
  <2>1. inHand = <<>>
    BY <1>0 DEF WorkerCanMove, WaitsForRoom
  <2> QED
    BY <2>1 DEF WorkerCanMove, Types, HandType
<1>4. /\ rcv = "asked" => Answered("receiver") \/ Failed("receiver")
      /\ main \in {"attempted", "asked"} => Answered("main") \/ Failed("main")
  <2>1. CASE connOpen
    <3>1. \A p \in Process : Placed(p) => Answered(p)
      BY <1>2, <1>3, <2>1, NothingUnderWay
    <3> QED
      BY <2>1, <3>1 DEF CallsPlaced, Process
  <2>2. CASE ~ connOpen
    BY <1>3, <2>2 DEF Failed
  <2> QED
    BY <2>1, <2>2
<1>5. /\ rcv \in {"none", "loop", "done"} /\ held = <<>>
      /\ rcv = "loop" => ~ stopped /\ ch = <<>> /\ connOpen
  <2>1. rcv # "send"
    BY <1>0 DEF ReceiverCanMove, WaitsForRoom
  <2>2. rcv # "asked"
    BY <1>4 DEF ReceiverCanMove
  <2>3. rcv # "start" /\ (rcv = "loop" => ~ stopped /\ ch = <<>> /\ connOpen)
    BY DEF ReceiverCanMove
  <2> QED
    BY <1>1, <2>1, <2>2, <2>3 DEF Types, RcvType
<1>6. main \notin {"attempted", "asked"}
  <2>1. main = "asked" /\ Answered("main") => Len(statusCh) < StatusCap
    BY <1>0 DEF WaitsForRoom
  <2> QED
    BY <1>4, <2>1 DEF MainCanMove
<1>7. main # "loop"
  <2> SUFFICES ASSUME main = "loop" PROVE FALSE
    OBVIOUS
  <2>1. statusCh = <<>> /\ rcv = "loop"
    BY <1>5 DEF MainCanMove, Stops
  <2>2. connOpen
    BY <1>5, <2>1
  <2>3. Pending = {}
    BY <1>2, <1>3, <1>5, <2>1, <2>2, NothingUnderWay
  <2> QED
    BY <1>2, <2>2, <2>3 DEF NoVerdictMissed
<1>8. main # "wait"
  <2> SUFFICES ASSUME main = "wait" PROVE FALSE
    OBVIOUS
  <2>1. stopped /\ rcv # "none"
    BY DEF Stops
  <2>2. wg = 0
    BY <1>5, <2>1 DEF Types, RcvType
  <2> QED
    BY <2>2 DEF MainCanMove, ReceiverDone
<1>9. main # "close"
  BY <1>3 DEF MainCanMove
<1> QED
  BY <1>6, <1>7, <1>8, <1>9 DEF Types, MainType, MainCanMove

(* A full channel is all that can make OSUpdate hang: whatever the        *)
(* capacities and the interleaving, and whenever the connection is lost,  *)
(* no goroutine waits for an answer that is lost, for a status that is    *)
(* not to come, for the wait group or for the lock in vain; and no        *)
(* goroutine panics while the connection is open.                         *)
THEOREM WatchStuckOnlyForRoom == WatchSpec => []StuckOnlyForRoom
<1>1. Types /\ Stops /\ CallsPlaced /\ NoVerdictMissed => StuckOnlyForRoom
  BY StuckForRoom
<1> QED
  BY <1>1, TypesAlways, StopsAlways, CallsPlacedAlways, NoVerdictIsMissed, PTL
-----------------------------------------------------------------------------
(* How many messages there can be.                                        *)
MostMessages == 10 + 4 * MaxChecks + MaxProgress

FewMessages == Load <= MostMessages

(* At the start two calls are to come and nothing is under way.           *)
LEMMA FewMessagesInit ==
  ASSUME WatchInit
  PROVE  FewMessages
<1>1. Types
  BY TypesInit
<1>2. InFlight = 0
  <2>1. /\ requests = <<>> /\ wire = <<>> /\ inHand = <<>> /\ ch = <<>>
        /\ held = <<>> /\ statusCh = <<>>
    BY DEF WatchInit
  <2>2. answers["main"] = <<>> /\ answers["receiver"] = <<>>
    BY DEF WatchInit
  <2>3. Len(<<>>) = 0
    OBVIOUS
  <2> QED
    BY <2>1, <2>2, <2>3 DEF InFlight
<1>3. MainCallsLeft = 1 /\ ReceiverCallsLeft = 2
  BY DEF WatchInit, MainCallsLeft, ReceiverCallsLeft
<1>4. Announcements <= 7 + 4 * MaxChecks + MaxProgress /\ Announcements \in Nat
  <2>1. ChangesLeft \in 0 .. 3 /\ ChecksAsked \in 0 .. 1
    BY DEF ChangesLeft, ChecksAsked
  <2>2. Announcements = ChangesLeft + 4 * ChecksAsked + 4 * (MaxChecks - checks)
                          + (MaxProgress - progress)
    BY DEF Announcements, ChecksAsked
  <2>3. checks = 0 /\ progress = 0
    BY DEF WatchInit
  <2>4. Announcements <= 7 + 4 * MaxChecks + MaxProgress
    BY <2>1, <2>2, <2>3, WatchAssumption
  <2> QED
    BY <1>1, <2>4, AnnouncementsCount
<1> QED
  BY <1>2, <1>3, <1>4, WatchAssumption DEF FewMessages, Load, MostMessages

(* What there is to receive is a number.                                  *)
LEMMA LoadCount ==
  ASSUME Types
  PROVE  /\ Load \in Nat
         /\ Len(held) + Len(answers["main"]) + Len(statusCh) <= Load
         /\ Len(inHand) + Len(ch) <= Load
<1>1. MainCallsLeft \in 0 .. 1 /\ ReceiverCallsLeft \in 0 .. 2
  BY DEF MainCallsLeft, ReceiverCallsLeft
<1> DEFINE r == Len(requests)
           w == Len(wire)
           h == Len(inHand)
           a == Len(answers["main"])
           b == Len(answers["receiver"])
           c == Len(ch)
           d == Len(held)
           s == Len(statusCh)
<1>2. /\ r \in Nat /\ w \in Nat /\ h \in 0 .. 1 /\ a \in 0 .. 1 /\ b \in 0 .. 1
      /\ c \in Nat /\ d \in 0 .. 1 /\ s \in Nat
  BY Lengths
<1>3. Load = (r + w + h + a + b + c + d + s) + MainCallsLeft + ReceiverCallsLeft
               + Announcements
  BY DEF Load, InFlight
<1>4. Announcements \in Nat
  BY AnnouncementsCount
<1> HIDE DEF r, w, h, a, b, c, d, s
<1>5. Load \in Nat /\ d + a + s <= Load /\ h + c <= Load
  BY <1>1, <1>2, <1>3, <1>4
<1> QED
  BY <1>5 DEF a, c, d, h, s

(* No step adds a message that was not to come.                           *)
LEMMA FewMessagesStep ==
  ASSUME Types, AskedOnce, FewMessages, [WatchNext]_vars
  PROVE  FewMessages'
<1>1. Types'
  BY TypesStep
<1>2. Load \in Nat /\ Load' \in Nat
  <2>1. Load \in Nat
    BY LoadCount
  <2>2. (Types => Load \in Nat)'
    BY LoadCount, PTL
  <2> QED
    BY <1>1, <2>1, <2>2
<1>3. Load' <= Load
  <2>1. CASE WatchNext
    BY <2>1, StepCost
  <2>2. CASE UNCHANGED vars
    <3>1. Load' = Load
      BY <2>2 DEF vars, Load, InFlight, MainCallsLeft, ReceiverCallsLeft,
         Announcements, ChangesLeft, MayAsk
    <3> QED
      BY <1>2, <3>1
  <2> QED
    BY <2>1, <2>2
<1>4. MostMessages \in Nat /\ MostMessages' = MostMessages
  BY WatchAssumption DEF MostMessages
<1> QED
  BY <1>1, <1>2, <1>3, <1>4 DEF FewMessages

(* So there are never more.                                               *)
LEMMA FewMessagesAlways == WatchSpec => []FewMessages
<1>1. WatchInit => FewMessages
  BY FewMessagesInit
<1>2. Types /\ AskedOnce /\ FewMessages /\ [WatchNext]_vars => FewMessages'
  BY FewMessagesStep
<1> QED
  BY <1>1, <1>2, TypesAlways, AskedOnceAlways, PTL DEF WatchSpec
-----------------------------------------------------------------------------
(* The channels have room for every message there can be.                 *)
RoomEnough == MostMessages <= StatusCap /\ MostMessages <= SignalCap

(* Whoever sends then finds room.                                         *)
LEMMA NobodyWaitsForRoom ==
  ASSUME RoomEnough, Types, FewMessages
  PROVE  /\ rcv = "send" => Len(statusCh) < StatusCap
         /\ answers["main"] # <<>> => Len(statusCh) < StatusCap
         /\ locked => Len(ch) < SignalCap
<1>1. /\ MostMessages \in Nat /\ StatusCap \in Nat /\ SignalCap \in Nat
      /\ MostMessages <= StatusCap /\ MostMessages <= SignalCap
  BY WatchAssumption DEF MostMessages, RoomEnough
<1>2. /\ Len(held) + Len(answers["main"]) + Len(statusCh) <= Load
      /\ Len(inHand) + Len(ch) <= Load
      /\ Load \in Nat /\ Load <= MostMessages
  BY LoadCount DEF FewMessages
<1>3. /\ Len(inHand) \in 0 .. 1 /\ Len(answers["main"]) \in 0 .. 1
      /\ Len(ch) \in Nat /\ Len(held) \in 0 .. 1 /\ Len(statusCh) \in Nat
  BY Lengths
<1>4. rcv = "send" => Len(held) = 1
  <2>1. held \in Seq(Status) /\ (rcv = "send" <=> held # <<>>)
    BY DEF Types, RcvType
  <2>2. held # <<>> => Len(held) \in Nat \ {0}
    BY <2>1, TailFacts
  <2> QED
    BY <1>3, <2>1, <2>2
<1>5. answers["main"] # <<>> => Len(answers["main"]) = 1
  <2>1. answers["main"] \in Seq(Answer)
    BY DEF Types, CallType, Process, Answer
  <2>2. answers["main"] # <<>> => Len(answers["main"]) \in Nat \ {0}
    BY <2>1, TailFacts
  <2> QED
    BY <1>3, <2>2
<1>6. locked => Len(inHand) = 1
  <2>1. inHand \in Seq(Message) /\ (locked => inHand # <<>>)
    BY DEF Types, HandType
  <2>2. inHand # <<>> => Len(inHand) \in Nat \ {0}
    BY <2>1, TailFacts
  <2> QED
    BY <1>3, <2>1, <2>2
<1> QED
  BY <1>1, <1>2, <1>3, <1>4, <1>5, <1>6

(* Until OSUpdate returns, or panics because the connection is lost,      *)
(* someone can go on.                                                     *)
NeverAllWaiting ==
  main # "returned" =>
    \/ Alive /\ (DaemonCanMove \/ WorkerCanMove \/ ReceiverCanMove \/ MainCanMove)
    \/ ~ Alive /\ ~ connOpen

(* If the channels have room for the announcements of one update, the     *)
(* goroutines never all wait for each other, also if the bus is lost.     *)
THEOREM WatchNeverAllWaiting ==
  ASSUME RoomEnough
  PROVE  WatchSpec => []NeverAllWaiting
<1>1. Types /\ FewMessages /\ StuckOnlyForRoom => NeverAllWaiting
  <2> SUFFICES ASSUME Types, FewMessages, StuckOnlyForRoom, main # "returned", Alive
               PROVE  \/ DaemonCanMove \/ WorkerCanMove
                      \/ ReceiverCanMove \/ MainCanMove
    BY DEF NeverAllWaiting, StuckOnlyForRoom
  <2>1. /\ Len(statusCh) \in Nat /\ StatusCap \in Nat
        /\ Len(ch) \in Nat /\ SignalCap \in Nat
    BY WatchAssumption, Lengths
  <2>2. ~ WaitsForRoom
    BY <2>1, NobodyWaitsForRoom DEF WaitsForRoom, Answered
  <2> QED
    BY <2>2 DEF StuckOnlyForRoom
<1> QED
  BY <1>1, TypesAlways, FewMessagesAlways, WatchStuckOnlyForRoom, PTL
=============================================================================
