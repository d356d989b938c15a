----------------------------- MODULE UpdateWatch -----------------------------
(***************************************************************************)
(* App.OSUpdate: ask update_engine for an update and watch until it is     *)
(* done (internal/update_engine.go), through the D-Bus client of CLUO      *)
(* (updateengine.Client) and the connection below it (godbus Conn).        *)
(*                                                                         *)
(* Three goroutines and a daemon:                                          *)
(*   main      OSUpdate and waitForUpdate                                  *)
(*   receiver  the goroutine in which ReceiveStatuses runs                 *)
(*   worker    Conn.inWorker, which delivers what arrives                  *)
(*   daemon    update_engine; it announces every change of its status      *)
(***************************************************************************)
EXTENDS Naturals, Sequences, SequencesExt

CONSTANTS
  StatusCap,     \* capacity of statusCh, 10
  SignalCap,     \* signalBuffer, the capacity of Client.ch, 32
  MaxChecks,     \* update checks the daemon begins by itself
  MaxProgress,   \* progress announcements of downloads
  MaxErrors,     \* calls the daemon answers with an error
  BusFails,      \* the connection to the bus may be lost
  Initially      \* what the daemon may be doing at the start

ASSUME WatchAssumption ==
  /\ StatusCap \in Nat \ {0} /\ SignalCap \in Nat \ {0}
  /\ MaxChecks \in Nat /\ MaxProgress \in Nat /\ MaxErrors \in Nat
  /\ BusFails \in BOOLEAN

(***************************************************************************)
(* Status.CurrentOperation.  "downloading" also stands for "update         *)
(* available" and "verifying", which waitForUpdate treats alike; "" is in  *)
(* the zero Status of a call that failed.                                  *)
(***************************************************************************)
Operation == {"idle", "checking", "downloading", "finalizing", "needReboot",
              "error"}

ASSUME InitiallyAssumption == Initially \subseteq Operation

(* What a Status is told apart by: the marker has NewSize -1; an answer   *)
(* is that of the receiver's own GetStatus.                               *)
Status == [kind : {"marker", "answer", "signal"}, op : Operation \cup {""}]

VARIABLES
  op,          \* the daemon's operation
  asked,       \* AttemptUpdate scheduled a check that has not begun
  checks, progress, errors,   \* how often, up to the bounds above
  wasIdle,     \* history: the daemon has been idle since OSUpdate began
  requests,    \* calls on their way to the daemon
  wire,        \* messages on their way to the client
  connOpen,    \* the connection is open
  inHand,      \* the messages inWorker has read and not delivered: 0 or 1
  locked,      \* inWorker holds signalsLck
  workerDied,  \* inWorker sent on a closed channel
  answers,     \* answers[p]: the answer to p's call that p has not read
  ch,          \* Client.ch
  rcv,         \* where the receiver is
  held,        \* the status the receiver sends next
  wg,          \* the WaitGroup's counter
  statusCh,    \* the statuses for main
  stopped,     \* stopCh is closed
  main,        \* where main is
  flushed,     \* the variable of that name
  verdict      \* "reboot": OSRequiresReboot; "idle": no update available

daemonVars == <<op, asked, checks, progress, errors, wasIdle>>
connVars   == <<connOpen, inHand, locked, workerDied>>
callVars   == <<requests, answers>>
rcvVars    == <<rcv, held, wg>>
mainVars   == <<main, flushed, verdict, stopped>>
vars == <<daemonVars, connVars, callVars, wire, ch, rcvVars, statusCh,
          mainVars>>

WatchInit ==
  /\ op \in Initially
  /\ asked = FALSE
  /\ wasIdle = (op = "idle")
  /\ checks = 0 /\ progress = 0 /\ errors = 0
  /\ requests = <<>> /\ wire = <<>>
  /\ connOpen = TRUE
  /\ inHand = <<>> /\ locked = FALSE /\ workerDied = FALSE
  /\ answers = [p \in {"main", "receiver"} |-> <<>>]
  /\ ch = <<>>
  /\ rcv = "none" /\ held = <<>> /\ wg = 0
  /\ statusCh = <<>> /\ stopped = FALSE
  /\ main = "attempt"
  /\ flushed = FALSE
  /\ verdict = "none"

(* A panic in any goroutine ends the process.                             *)
Alive == ~workerDied /\ rcv # "panic"
-----------------------------------------------------------------------------
(* The daemon *)

Announce(o) ==
  /\ op' = o
  /\ wasIdle' = (wasIdle \/ o = "idle")
  /\ wire' = IF connOpen THEN Append(wire, [to |-> "ch", op |-> o]) ELSE wire
  /\ UNCHANGED <<errors, requests, answers, connVars, ch, rcvVars, statusCh,
                 mainVars>>

(* The daemon answers a call, at the latest with an error.  AttemptUpdate *)
(* only schedules a check, unless one is under way or an update staged,   *)
(* and is answered at once.                                               *)
Serve ==
  /\ requests # <<>>
  /\ requests' = Tail(requests)
  /\ \E o \in {op, ""} :
       /\ IF o = op THEN UNCHANGED errors
                    ELSE errors < MaxErrors /\ errors' = errors + 1
       /\ wire' = IF connOpen
                  THEN Append(wire, [to |-> Head(requests).from, op |-> o])
                  ELSE wire
       /\ asked' = \/ asked
                   \/ Head(requests).method = "AttemptUpdate" /\ o = "idle"
  /\ UNCHANGED <<op, wasIdle, checks, progress, answers, connVars, ch, rcvVars,
                 statusCh, mainVars>>

BeginCheck ==
  /\ op = "idle"
  /\ \/ asked /\ UNCHANGED checks
     \/ ~asked /\ checks < MaxChecks /\ checks' = checks + 1
  /\ asked' = FALSE
  /\ Announce("checking")
  /\ UNCHANGED progress

Work ==
  /\ \E o \in Operation :
       /\ <<op, o>> \in {<<"checking", "idle">>, <<"checking", "downloading">>,
                         <<"checking", "error">>,
                         <<"downloading", "finalizing">>,
                         <<"downloading", "error">>, <<"error", "idle">>,
                         <<"finalizing", "needReboot">>}
       /\ Announce(o)
  /\ UNCHANGED <<asked, checks, progress>>

Download ==
  /\ op = "downloading"
  /\ progress < MaxProgress
  /\ progress' = progress + 1
  /\ Announce("downloading")
  /\ UNCHANGED <<asked, checks>>

Daemon == Serve \/ BeginCheck \/ Work \/ Download
-----------------------------------------------------------------------------
(* Conn.inWorker *)

ReadMessage ==
  /\ Alive /\ connOpen
  /\ inHand = <<>> /\ wire # <<>>
  /\ inHand' = <<Head(wire)>>
  /\ wire' = Tail(wire)
  /\ UNCHANGED <<daemonVars, connOpen, locked, workerDied, callVars, ch,
                 rcvVars, statusCh, mainVars>>

DeliverAnswer ==
  /\ Alive /\ inHand # <<>> /\ inHand[1].to # "ch"
  /\ answers' = [answers EXCEPT ![inHand[1].to] = <<inHand[1].op>>]
  /\ inHand' = <<>>
  /\ UNCHANGED <<daemonVars, connOpen, locked, workerDied, requests, wire, ch,
                 rcvVars, statusCh, mainVars>>

(* Close leaves the closed channel registered: sending on it panics.      *)
LockSignals ==
  /\ Alive /\ inHand # <<>> /\ inHand[1].to = "ch" /\ ~locked
  /\ locked' = connOpen
  /\ workerDied' = ~connOpen
  /\ UNCHANGED <<daemonVars, connOpen, inHand, callVars, wire, ch, rcvVars,
                 statusCh, mainVars>>

(* Mutation of ChannelTakes: a signal that finds the channel full is      *)
(* discarded, as the comment of Conn.Signal has it.                       *)
ChannelTakes_OrDiscards(status) ==
  ch' = IF Len(ch) < SignalCap THEN Append(ch, status) ELSE ch

(* Mutation of ChannelTakes: the channel has no bound.                    *)
ChannelTakes_Unbounded(status) == ch' = Append(ch, status)

(* ch <- signal: inWorker waits for room, holding the lock.               *)
ChannelTakes(status) == Len(ch) < SignalCap /\ ch' = Append(ch, status)

SendSignal ==
  /\ Alive /\ locked
  /\ ChannelTakes([kind |-> "signal", op |-> inHand[1].op])
  /\ inHand' = <<>>
  /\ locked' = FALSE
  /\ UNCHANGED <<daemonVars, connOpen, workerDied, callVars, wire, rcvVars,
                 statusCh, mainVars>>

Deliver == ReadMessage \/ DeliverAnswer \/ LockSignals \/ SendSignal

(* Reading fails while nobody has closed the connection.  inWorker calls  *)
(* Close itself, which closes Client.ch, fails the calls that still wait  *)
(* for an answer (Failed), and returns.                                   *)
ReadFails ==
  /\ BusFails
  /\ Alive /\ connOpen /\ inHand = <<>>
  /\ connOpen' = FALSE
  /\ UNCHANGED <<daemonVars, inHand, locked, workerDied, callVars, wire, ch,
                 rcvVars, statusCh, mainVars>>

Worker == Deliver \/ ReadFails
-----------------------------------------------------------------------------
(* Calls.  On a closed connection a call fails at once; one that waits    *)
(* for an answer is failed by inWorker when reading fails.                *)

Send(p, method) ==
  requests' = Append(requests, [from |-> p, method |-> method])

Call(method) ==
  IF connOpen THEN Send("main", method) ELSE UNCHANGED requests

Answered(p) == answers[p] # <<>>
TakeAnswer(p) == answers' = [answers EXCEPT ![p] = <<>>]

(* There will be no answer any more.                                      *)
Failed(p) == ~Answered(p) /\ ~connOpen /\ inHand = <<>>

(* The call of main returns an error.                                     *)
CallFails ==
  \/ answers["main"] = <<"">> /\ TakeAnswer("main")
  \/ Failed("main") /\ UNCHANGED answers

(* The receiver: wg.Add, ReceiveStatuses, wg.Done                         *)

RegisterAndAsk ==
  /\ Alive /\ rcv = "start"
  /\ wg' = wg + 1
  /\ IF connOpen
     THEN /\ Send("receiver", "GetStatus")
          /\ rcv' = "asked" /\ UNCHANGED held
     ELSE /\ rcv' = "send" /\ held' = <<[kind |-> "answer", op |-> ""]>>
          /\ UNCHANGED requests
  /\ UNCHANGED <<daemonVars, connVars, answers, wire, ch, statusCh, mainVars>>

GotStatus ==
  /\ Alive /\ rcv = "asked"
  /\ \/ /\ Answered("receiver")
        /\ held' = <<[kind |-> "answer", op |-> answers["receiver"][1]]>>
        /\ TakeAnswer("receiver")
     \/ /\ Failed("receiver")
        /\ held' = <<[kind |-> "answer", op |-> ""]>>
        /\ UNCHANGED answers
  /\ rcv' = "send"
  /\ UNCHANGED <<daemonVars, connVars, requests, wire, ch, wg, statusCh,
                 mainVars>>

(* rcvr <- status: waits for room in statusCh, whatever stopCh says.      *)
ForwardStatus ==
  /\ Alive /\ rcv = "send" /\ Len(statusCh) < StatusCap
  /\ statusCh' = statusCh \o held
  /\ held' = <<>>
  /\ rcv' = "loop"
  /\ UNCHANGED <<daemonVars, connVars, callVars, wire, ch, wg, mainVars>>

(* Mutation of StopReceiving: without wg.Done.                            *)
StopReceiving_NoDone ==
  /\ Alive /\ rcv = "loop" /\ stopped
  /\ rcv' = "done"
  /\ UNCHANGED <<daemonVars, connVars, callVars, wire, ch, held, wg, statusCh,
                 mainVars>>

(* The select: stopCh closed, a signal, or a nil signal from a closed     *)
(* and drained channel, on which NewStatus(signal.Body) panics.           *)
StopReceiving ==
  /\ Alive /\ rcv = "loop" /\ stopped
  /\ rcv' = "done"
  /\ wg' = wg - 1
  /\ UNCHANGED <<daemonVars, connVars, callVars, wire, ch, held, statusCh,
                 mainVars>>

TakeSignal ==
  /\ Alive /\ rcv = "loop" /\ ch # <<>>
  /\ held' = <<Head(ch)>>
  /\ ch' = Tail(ch)
  /\ rcv' = "send"
  /\ UNCHANGED <<daemonVars, connVars, callVars, wire, wg, statusCh, mainVars>>

TakeNilSignal ==
  /\ Alive /\ rcv = "loop" /\ ch = <<>> /\ ~connOpen
  /\ rcv' = "panic"
  /\ UNCHANGED <<daemonVars, connVars, callVars, wire, ch, held, wg, statusCh,
                 mainVars>>

Receiver == \/ RegisterAndAsk \/ GotStatus \/ ForwardStatus
            \/ StopReceiving \/ TakeSignal \/ TakeNilSignal
-----------------------------------------------------------------------------
(* OSUpdate and waitForUpdate *)

AttemptUpdate ==
  /\ Alive /\ main = "attempt"
  /\ Call("AttemptUpdate")
  /\ main' = "attempted"
  /\ UNCHANGED <<daemonVars, connVars, answers, wire, ch, rcvVars, statusCh,
                 flushed, verdict, stopped>>

(* Mutation of AttemptFailed: it tries again.                             *)
AttemptFailed_TriesAgain ==
  /\ Alive /\ main = "attempted" /\ CallFails
  /\ main' = "attempt"
  /\ UNCHANGED <<daemonVars, connVars, requests, wire, ch, rcvVars, statusCh,
                 flushed, verdict, stopped>>

AttemptFailed ==
  /\ Alive /\ main = "attempted" /\ CallFails
  /\ main' = "close"
  /\ UNCHANGED <<daemonVars, connVars, requests, wire, ch, rcvVars, statusCh,
                 flushed, verdict, stopped>>

StartReceiver ==
  /\ Alive /\ main = "attempted" /\ Answered("main")
  /\ answers["main"] # <<"">>
  /\ TakeAnswer("main")
  /\ rcv' = "start"
  /\ main' = "first"
  /\ UNCHANGED <<daemonVars, connVars, requests, wire, ch, held, wg, statusCh,
                 flushed, verdict, stopped>>

AskFirstStatus ==
  /\ Alive /\ main = "first"
  /\ Call("GetStatus")
  /\ main' = "asked"
  /\ UNCHANGED <<daemonVars, connVars, answers, wire, ch, rcvVars, statusCh,
                 flushed, verdict, stopped>>

(* close(stopCh) and return, without waiting for the receiver.            *)
FirstStatusFailed ==
  /\ Alive /\ main = "asked" /\ CallFails
  /\ stopped' = TRUE
  /\ main' = "close"
  /\ UNCHANGED <<daemonVars, connVars, requests, wire, ch, rcvVars, statusCh,
                 flushed, verdict>>

SendMarker ==
  /\ Alive /\ main = "asked" /\ Answered("main") /\ answers["main"] # <<"">>
  /\ Len(statusCh) < StatusCap
  /\ statusCh' = Append(statusCh, [kind |-> "marker", op |-> answers["main"][1]])
  /\ TakeAnswer("main")
  /\ main' = "loop"
  /\ UNCHANGED <<daemonVars, connVars, requests, wire, ch, rcvVars, flushed,
                 verdict, stopped>>

Received == Head(statusCh)

(* !flushed && status.NewSize != -1                                       *)
Skipped == ~flushed /\ Received.kind # "marker"

FlushStatus ==
  /\ Skipped
  /\ flushed' = TRUE
  /\ UNCHANGED <<main, verdict>>

(* Mutations of Decision: "finalizing" is taken for the end, "idle" is    *)
(* not, and an error ends the wait like "idle".                           *)
Decision_IgnoresIdle(o) == IF o = "needReboot" THEN "reboot" ELSE "none"
Decision_ErrorIsIdle(o) ==
  CASE o = "needReboot" -> "reboot" [] o \in {"idle", "error"} -> "idle"
    [] OTHER -> "none"
Decision_Early(o) ==
  CASE o \in {"finalizing", "needReboot"} -> "reboot"
    [] o = "idle" -> "idle" [] OTHER -> "none"

(* The switch: whether a status ends the loop, and how.                   *)
Decision(o) ==
  CASE o = "needReboot" -> "reboot" [] o = "idle" -> "idle" [] OTHER -> "none"

ActOnStatus ==
  /\ ~Skipped
  /\ verdict' = Decision(Received.op)
  /\ main' = IF verdict' = "none" THEN "loop" ELSE "stop"
  /\ UNCHANGED flushed

ReceiveStatus ==
  /\ Alive /\ main = "loop" /\ statusCh # <<>>
  /\ statusCh' = Tail(statusCh)
  /\ FlushStatus \/ ActOnStatus
  /\ UNCHANGED <<daemonVars, connVars, callVars, wire, ch, rcvVars, stopped>>

CloseStopCh ==
  /\ Alive /\ main = "stop"
  /\ stopped' = TRUE
  /\ main' = "wait"
  /\ UNCHANGED <<daemonVars, connVars, callVars, wire, ch, rcvVars, statusCh,
                 flushed, verdict>>

(* Mutation of ReceiverDone: main does not wait for the receiver.         *)
ReceiverDone_Anyway == TRUE

(* wg.Wait returns: the counter is 0, also before the receiver's Add.     *)
ReceiverDone == wg = 0

Wait ==
  /\ Alive /\ main = "wait" /\ ReceiverDone
  /\ main' = "close"
  /\ UNCHANGED <<daemonVars, connVars, callVars, wire, ch, rcvVars, statusCh,
                 flushed, verdict, stopped>>

(* The deferred ue.Close, which needs signalsLck, or does nothing if      *)
(* inWorker has closed the connection; then OSUpdate returns.             *)
CloseClient ==
  /\ Alive /\ main = "close" /\ ~locked
  /\ connOpen' = FALSE
  /\ main' = "returned"
  /\ UNCHANGED <<daemonVars, inHand, locked, workerDied, callVars, wire, ch,
                 rcvVars, statusCh, flushed, verdict, stopped>>

Main == \/ AttemptUpdate \/ AttemptFailed \/ StartReceiver \/ AskFirstStatus
        \/ FirstStatusFailed \/ SendMarker \/ ReceiveStatus \/ CloseStopCh
        \/ Wait \/ CloseClient
-----------------------------------------------------------------------------
WatchNext == Daemon \/ Worker \/ Receiver \/ Main

(* Goroutines are scheduled fairly, and the daemon goes on working.       *)
(* Nothing says that the bus ever fails.                                  *)
WatchSpec ==
  /\ WatchInit /\ [][WatchNext]_vars
  /\ WF_vars(Daemon) /\ WF_vars(Deliver) /\ WF_vars(Receiver) /\ WF_vars(Main)
-----------------------------------------------------------------------------
Message == [to : {"ch", "main", "receiver"}, op : Operation \cup {""}]

(* Types, with the channels within their capacities; the lock is held     *)
(* only on an open connection and only with a signal in hand.             *)
WatchTypeOK ==
  /\ op \in Operation
  /\ asked \in BOOLEAN /\ wasIdle \in BOOLEAN
  /\ checks \in 0 .. MaxChecks /\ progress \in 0 .. MaxProgress
  /\ errors \in 0 .. MaxErrors
  /\ wire \in Seq(Message)
  /\ Len(ch) <= SignalCap /\ Len(statusCh) <= StatusCap
  /\ statusCh \in Seq(Status) /\ ch \in Seq(Status)
  /\ held \in Seq(Status) /\ Len(held) <= 1
  /\ inHand \in Seq(Message) /\ Len(inHand) <= 1
  /\ locked => connOpen /\ inHand # <<>>
  /\ rcv \in {"none", "start", "asked", "send", "loop", "done", "panic"}
  /\ rcv = "send" <=> held # <<>>
  /\ wg = (IF rcv \in {"asked", "send", "loop", "panic"} THEN 1 ELSE 0)
  /\ main \in {"attempt", "attempted", "first", "asked", "loop", "stop",
               "wait", "close", "returned"}
  /\ verdict \in {"none", "reboot", "idle"}

(* OSUpdate requires a reboot only when an update really is staged, also  *)
(* if it goes by a status that is out of date.                            *)
RebootVerdictTrue == verdict = "reboot" => op = "needReboot"

(* OSUpdate goes on without an update only if the daemon really has been  *)
(* idle since: an error, a check or a download under way is not taken for *)
(* the absence of updates.  (It may have been idle only before the check  *)
(* that AttemptUpdate asked for.)                                         *)
IdleVerdictTrue == verdict = "idle" => wasIdle

(* The statuses main has still to receive, and will not skip: all of them *)
(* but the first one in statusCh that is not the marker.                  *)
Pending ==
  LET skip == IF flushed THEN 0
              ELSE SelectInSeq(statusCh, LAMBDA s : s.kind # "marker")
  IN  {statusCh[i].op : i \in DOMAIN statusCh \ {skip}}
        \cup {s.op : s \in ToSet(held) \cup ToSet(ch)}
        \cup {m.op : m \in {w \in ToSet(inHand) \cup ToSet(wire) :
                              w.to = "ch"}}

(* While main waits, a staged update, or that there is none, is still     *)
(* going to be reported to it, unless the bus is lost: although one       *)
(* status is skipped and the order of goroutines is open, the             *)
(* announcement or the marker that says so is on its way.                 *)
NoVerdictMissed ==
  main = "loop" /\ connOpen /\ op \in {"idle", "needReboot"} => op \in Pending

(* "Flush the channel until our manual status is received.  This is so we *)
(* ignore any old errors": no verdict goes by a status that stands in     *)
(* front of the marker.                                                   *)
FlushedUntilMarker ==
  verdict # "none" => \A s \in ToSet(statusCh) : s.kind # "marker"

(* "use a waitgroup": once main has had a status from the receiver it     *)
(* does not itself close the client under it.  (inWorker does, if the bus *)
(* is lost.)                                                              *)
ClientOutlivesReceiver ==
  flushed /\ verdict # "none" /\ main = "returned" => rcv = "done"

(* "waits until it seems complete": OSUpdate comes to an end, although    *)
(* its goroutines wait for each other on two channels, a lock and a wait  *)
(* group, and any of them may find the connection closed.  It ends with a *)
(* panic only if the connection has been lost.                            *)
WatchEnds == <>(main = "returned" \/ (~Alive /\ ~connOpen))

(* What each party can do next, and what it waits for.                    *)
DaemonCanMove ==
  \/ requests # <<>>
  \/ op \notin {"idle", "needReboot"}
  \/ op = "idle" /\ (asked \/ checks < MaxChecks)

WorkerCanMove ==
  \/ connOpen /\ inHand = <<>> /\ wire # <<>>
  \/ inHand # <<>> /\ (~locked \/ Len(ch) < SignalCap)

ReceiverCanMove ==
  \/ rcv = "start"
  \/ rcv = "asked" /\ (Answered("receiver") \/ Failed("receiver"))
  \/ rcv = "send" /\ Len(statusCh) < StatusCap
  \/ rcv = "loop" /\ (stopped \/ ch # <<>> \/ ~connOpen)

MainCanMove ==
  \/ main \in {"attempt", "first", "stop"}
  \/ main \in {"attempted", "asked"} /\ Failed("main")
  \/ main = "attempted" /\ Answered("main")
  \/ /\ main = "asked" /\ Answered("main")
     /\ answers["main"] = <<"">> \/ Len(statusCh) < StatusCap
  \/ main = "loop" /\ statusCh # <<>>
  \/ main = "wait" /\ ReceiverDone
  \/ main = "close" /\ ~locked

(* What waits for room in a channel.                                      *)
WaitsForRoom ==
  \/ locked /\ Len(ch) = SignalCap
  \/ /\ rcv = "send" \/ (main = "asked" /\ Answered("main"))
     /\ Len(statusCh) = StatusCap

(* A full channel is all that can make OSUpdate hang: otherwise a         *)
(* goroutine or the daemon can go on until it returns, and nobody waits   *)
(* in vain for an answer, a status, the wait group or the lock, whenever  *)
(* the connection is lost.  And its loss is all that can make a goroutine *)
(* panic before.                                                          *)
StuckOnlyForRoom ==
  main # "returned" =>
    /\ Alive \/ ~connOpen
    /\ \/ ~Alive
       \/ DaemonCanMove \/ WorkerCanMove \/ ReceiverCanMove \/ MainCanMove
       \/ WaitsForRoom

(* How often the daemon is still going to announce a change of its        *)
(* status: a check makes at most four of them, beside those of progress.  *)
ChangesLeft == CASE op = "checking" -> 3 [] op = "downloading" -> 2
                 [] op \in {"finalizing", "error"} -> 1 [] OTHER -> 0

MayAsk == \/ main = "attempt" \/ asked
          \/ \E r \in ToSet(requests) : r.method = "AttemptUpdate"

Announcements == ChangesLeft + 4 * (IF MayAsk THEN 1 ELSE 0)
                   + 4 * (MaxChecks - checks) + (MaxProgress - progress)

(* What is in the queues, weighted by the places it still has to pass.    *)
Deliveries == 7 * Len(requests) + 6 * Len(wire) + 5 * Len(inHand)
                + 4 * Len(answers["main"]) + 4 * Len(answers["receiver"])
                + 3 * Len(ch) + 2 * Len(held) + Len(statusCh)

(* How far the goroutines still have to go, and what they will put there. *)
MainDistance == CASE main = "attempt" -> 21
                  [] main \in {"attempted", "first"} -> 13
                  [] main \in {"asked", "loop"} -> 5
                  [] main = "stop" -> 4 [] main = "wait" -> 3
                  [] main = "close" -> 2 [] OTHER -> 1
ReceiverDistance == CASE rcv \in {"none", "start"} -> 14 [] rcv = "asked" -> 5
                      [] rcv \in {"send", "loop"} -> 2 [] OTHER -> 1
WorkerDistance == (IF locked \/ workerDied THEN 0 ELSE 1)
                    + (IF connOpen THEN 1 ELSE 0)

StepsLeft == 7 * Announcements + Deliveries + MainDistance + ReceiverDistance
               + WorkerDistance

(* No goroutine goes round in circles: every step of any of them, and of  *)
(* the daemon, uses up one of finitely many.                              *)
StepsRunOut == [][StepsLeft' \in Nat /\ StepsLeft' < StepsLeft]_vars

(* "use a waitgroup to fix a fun race condition where both stopch and the *)
(* client are closed, causing a panic".                                   *)
ReceiverNeverPanics == rcv # "panic"
=============================================================================
