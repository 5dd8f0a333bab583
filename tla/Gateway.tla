------------------------------- MODULE Gateway -------------------------------
(***************************************************************************)
(* The process around the hub: the bus connection (internal/bus/redis.go),   *)
(* the consumer that drains it into the hub (internal/consumer), and the      *)
(* lifecycle that starts and stops both (cmd/sidecartunnel/gateway.go).       *)
(*                                                                         *)
(* Redis -> intake -> dispatch workers -> hub, with control messages turned    *)
(* aside to a goroutine of their own.  At a stop the order is everything:      *)
(* stop the consumer and wait for it, close the hub and wait for it,    *)
(* close the bus and wait for it.  Closing the hub is SlowCloser's Close;      *)
(* a worker in Dispatch, the control goroutine in hub.Control and the reader    *)
(* of a live connection are the handlers that may ask it for a close.         *)
(***************************************************************************)
EXTENDS SlowCloser, Sequences

CONSTANTS
  Workers,       \* bus.dispatch_workers
  Controller,    \* the goroutine of consumer.control
  Readers,       \* connections that are open while the gateway serves
  Messages,      \* what Redis may deliver, each once
  IsControl,     \* those on the control key
  IntakeQueue,   \* bus.intake_queue
  ControlQueue,  \* DefaultControlQueue
  SignalBuffer,  \* main's signalBuffer
  None           \* no message

ASSUME GatewayAssumption ==
  /\ Handlers \subseteq Workers \cup Readers \cup {Controller}
  /\ Controller \notin Workers \cup Readers
  /\ Workers \cap Readers = {}
  /\ IsControl \subseteq Messages
  /\ {IntakeQueue, ControlQueue, SignalBuffer} \subseteq Nat \ {0}
  /\ None \notin Messages

VARIABLES
  intake,      \* the bus's out channel
  hands,       \* the message each worker is delivering or handing over
  controlq,    \* c.controlq
  applying,    \* the message the control goroutine is applying
  gone,        \* goroutines of the consumer that have returned
  run,         \* Consumer.Run
  fate,        \* history: what became of each message
  phase,       \* how far serve and close are
  signals,     \* signals waiting in main's channel
  live,        \* connections that are still open
  code,        \* the exit code so far
  sup,         \* where the bus supervisor is
  sock,        \* the subscriber connection it opened last
  reading,     \* the reader goroutine of that connection is alive
  busClose     \* how far RedisBus.Close is

consumerVars == <<intake, hands, controlq, applying, gone, run, fate>>
serveVars    == <<phase, signals, live, code>>
busVars      == <<sup, sock, reading, busClose>>
gatewayVars  == <<closerVars, consumerVars, serveVars, busVars>>

(* consumerCtx is cancelled: stopConsumer has run. *)
Stopped == phase \in {"stopping", "closing", "closing the bus", "exited"}

Goroutines == Workers \cup {Controller}

GatewayInit ==
  /\ Init
  /\ intake = <<>>
  /\ hands = [w \in Workers |-> None]
  /\ controlq = <<>>
  /\ applying = None
  /\ gone = Goroutines
  /\ run = "not started"
  /\ fate = [m \in Messages |-> "unsent"]
  /\ phase = "dialing"
  /\ signals = 0
  /\ live = {}
  /\ code = "ok"
  /\ sup = "opening"
  /\ sock = "none"
  /\ reading = FALSE
  /\ busClose = "open"

Fated(m, what) == fate' = [fate EXCEPT ![m] = what]

-----------------------------------------------------------------------------
(* The bus connection: supervise and read.                                  *)

(* Open and Ping, and the reader that is started before the connection is      *)
(* adopted.                                                                *)
Opens ==
  /\ sup = "opening"
  /\ sup' = "opened"
  /\ sock' = "up"
  /\ reading' = TRUE
  /\ UNCHANGED <<closerVars, consumerVars, serveVars, busClose>>

(* firstAttemptDone: newRedisBus returns, and build goes on. *)
FirstAttemptDone ==
  /\ phase' = IF phase = "dialing" THEN "building" ELSE phase
  /\ UNCHANGED <<signals, live, code>>

OpenFails ==
  /\ sup = "opening"
  /\ sup' = "backoff"
  /\ FirstAttemptDone
  /\ UNCHANGED <<closerVars, consumerVars, sock, reading, busClose>>

(* Mutant: a connection opened while the bus closes is adopted. *)
AdoptBlind ==
  /\ sup = "opened"
  /\ sup' = "adopted"
  /\ FirstAttemptDone
  /\ UNCHANGED <<closerVars, consumerVars, sock, reading, busClose>>

(* adopt, under connMu; a refused connection is closed by the supervisor. *)
Adopt ==
  /\ sup = "opened"
  /\ IF busClose = "open"
     THEN sup' = "adopted" /\ UNCHANGED sock
     ELSE sup' = "refused" /\ sock' = "down"
  /\ FirstAttemptDone
  /\ UNCHANGED <<closerVars, consumerVars, reading, busClose>>

(* The network, or dropConnection after a command that was not confirmed. *)
Disconnects ==
  /\ sock = "up"
  /\ sock' = "down"
  /\ UNCHANGED <<closerVars, consumerVars, serveVars, sup, reading, busClose>>

ReaderLeaves ==
  /\ reading
  /\ sock = "down"
  /\ reading' = FALSE
  /\ UNCHANGED <<closerVars, consumerVars, serveVars, sup, sock, busClose>>

BusCancelled == busClose \in {"waiting", "closed"}

(* <-lost, release, and the two looks at the bus's context. *)
Lost ==
  /\ sup \in {"adopted", "refused"}
  /\ ~reading
  /\ sup' = IF sup = "refused" \/ BusCancelled THEN "returned" ELSE "backoff"
  /\ sock' = "none"
  /\ UNCHANGED <<closerVars, consumerVars, serveVars, reading, busClose>>

(* wait.  A timer that fires in the instant of the cancellation costs one more  *)
(* attempt, which fails.                                                     *)
BackedOff ==
  /\ sup = "backoff"
  /\ sup' = IF BusCancelled THEN "returned" ELSE "opening"
  /\ UNCHANGED <<closerVars, consumerVars, serveVars, sock, reading, busClose>>

(* read.  It never blocks: a message that finds the intake full is dropped and    *)
(* counted, which changes nothing here.  A connection is subscribed to nothing   *)
(* before it is adopted (see Reconciler).                                     *)
Arrives(m) ==
  /\ reading
  /\ sup = "adopted"
  /\ sock = "up"
  /\ fate[m] = "unsent"
  /\ Len(intake) < IntakeQueue
  /\ intake' = Append(intake, m)
  /\ Fated(m, "received")
  /\ UNCHANGED <<closerVars, hands, controlq, applying, gone, run, serveVars, busVars>>

-----------------------------------------------------------------------------
(* The consumer.                                                           *)

AtSelect(w) == w \notin gone /\ hands[w] = None

Receives(w) ==
  /\ AtSelect(w)
  /\ intake # <<>>
  /\ hands' = [hands EXCEPT ![w] = Head(intake)]
  /\ intake' = Tail(intake)
  /\ UNCHANGED <<closerVars, controlq, applying, gone, run, fate, serveVars, busVars>>

(* The blocking send on the control queue. *)
HandsOver(w) ==
  /\ hands[w] \in IsControl
  /\ Len(controlq) < ControlQueue
  /\ controlq' = Append(controlq, hands[w])
  /\ hands' = [hands EXCEPT ![w] = None]
  /\ UNCHANGED <<closerVars, intake, applying, gone, run, fate, serveVars, busVars>>

Inline(h) == \E j \in At("inline") : j[1] = h

(* deliver returns: Hub.Dispatch ran, or the envelope was too long or no envelope.  *)
Dispatched(w) ==
  /\ hands[w] \in Messages \ IsControl
  /\ ~Inline(w)
  /\ Fated(hands[w], "dispatched")
  /\ hands' = [hands EXCEPT ![w] = None]
  /\ UNCHANGED <<closerVars, intake, controlq, applying, gone, run, serveVars, busVars>>

(* Both selects take ctx.Done when it is ready, and may take it though a       *)
(* message is ready too.                                                    *)
WorkerLeaves(w) ==
  /\ w \notin gone
  /\ hands[w] \in IsControl \cup {None}
  /\ \/ Stopped
     \/ hands[w] = None /\ intake = <<>> /\ busClose = "closed"
  /\ gone' = gone \cup {w}
  /\ hands' = [hands EXCEPT ![w] = None]
  /\ UNCHANGED <<closerVars, intake, controlq, applying, run, fate, serveVars, busVars>>

ControlReceives ==
  /\ Controller \notin gone
  /\ applying = None
  /\ controlq # <<>>
  /\ applying' = Head(controlq)
  /\ controlq' = Tail(controlq)
  /\ UNCHANGED <<closerVars, intake, hands, gone, run, fate, serveVars, busVars>>

(* apply returns: Hub.Control ran, and the webhook cache was flushed for a         *)
(* disconnect, or Verify refused the message.                                  *)
Applies ==
  /\ applying # None
  /\ ~Inline(Controller)
  /\ Fated(applying, "judged")
  /\ applying' = None
  /\ UNCHANGED <<closerVars, intake, hands, controlq, gone, run, serveVars, busVars>>

(* Mutant: the control goroutine leaves when it finds nothing to do. *)
ControlLeavesIdle ==
  /\ Controller \notin gone
  /\ applying = None
  /\ Stopped \/ controlq = <<>>
  /\ gone' = gone \cup {Controller}
  /\ UNCHANGED <<closerVars, intake, hands, controlq, applying, run, fate, serveVars, busVars>>

ControlLeaves ==
  /\ Controller \notin gone
  /\ applying = None
  /\ Stopped \/ (controlq = <<>> /\ run = "closed queue")
  /\ gone' = gone \cup {Controller}
  /\ UNCHANGED <<closerVars, intake, hands, controlq, applying, run, fate, serveVars, busVars>>

(* Run: workers.Wait, close(controlq), control.Wait. *)
RunContinues ==
  /\ \/ run = "running" /\ Workers \subseteq gone /\ run' = "closed queue"
     \/ run = "closed queue" /\ Controller \in gone /\ run' = "returned"
  /\ UNCHANGED <<closerVars, intake, hands, controlq, applying, gone, fate, serveVars, busVars>>

-----------------------------------------------------------------------------
(* Who may ask the hub for a close, and when.                                *)

CallsHub(h) ==
  \/ h \in Workers /\ hands[h] \in Messages \ IsControl
  \/ h = Controller /\ applying # None
  \/ h \in Readers /\ h \in live

Asks(j) ==
  /\ CallsHub(j[1])
  /\ EnqueueClose(j)
  /\ UNCHANGED <<consumerVars, serveVars, busVars>>

HubWorks ==
  /\ \/ \E j \in Jobs : Closed(j) \/ LoopTakes(j) \/ Empty(j)
     \/ LoopExits \/ ReconcilerExits
     \/ Announce \/ ClosersWaited \/ Return
  /\ UNCHANGED <<consumerVars, serveVars, busVars>>

-----------------------------------------------------------------------------
(* run, build and serve.                                                    *)

(* Everything after the hub was built, or the first of it that fails. *)
Built ==
  /\ phase = "building"
  /\ phase' = "serving"
  /\ run' = "running"
  /\ gone' = {}
  /\ live' = Readers
  /\ UNCHANGED <<closerVars, intake, hands, controlq, applying, fate,
                 signals, code, busVars>>

BuildFails ==
  /\ phase = "building"
  /\ phase' = "closing"
  /\ code' = "failure"
  /\ UNCHANGED <<closerVars, consumerVars, signals, live, busVars>>

(* The operator.  A signal sent later than these is read by nobody. *)
SignalArrives ==
  /\ phase \in {"dialing", "building", "serving", "draining"}
  /\ signals < SignalBuffer
  /\ signals' = signals + 1
  /\ UNCHANGED <<closerVars, consumerVars, phase, live, code, busVars>>

(* A connection of the server ends, on its own or for the drain. *)
ConnEnds(r) ==
  /\ r \in live
  /\ ~Inline(r)
  /\ live' = live \ {r}
  /\ UNCHANGED <<closerVars, consumerVars, phase, signals, code, busVars>>

(* waitForStop, StopAccepting, and the drain's start: on a signal, since main's    *)
(* context is never cancelled, or because the listener failed.                  *)
BeginStop ==
  /\ phase = "serving"
  /\ signals > 0
  /\ signals' = signals - 1
  /\ phase' = "draining"
  /\ UNCHANGED <<closerVars, consumerVars, live, code, busVars>>

ListenerFails ==
  /\ phase = "serving"
  /\ phase' = "draining"
  /\ code' = "failure"
  /\ UNCHANGED <<closerVars, consumerVars, signals, live, busVars>>

(* Mutant: the consumer is stopped while the drain is still running. *)
StopConsumerFirst ==
  /\ phase = "draining"
  /\ phase' = "stopping"
  /\ UNCHANGED <<closerVars, consumerVars, signals, live, code, busVars>>

(* awaitDrain and stopConsumer.  Drain returns when every connection has gone or  *)
(* after server.drain_timeout; a second signal abandons it.                    *)
StopConsumer ==
  /\ phase = "draining"
  /\ \/ live = {} /\ UNCHANGED <<signals, code>>
     \/ code' = "failure" /\ UNCHANGED signals
     \/ signals > 0 /\ signals' = signals - 1 /\ code' = "failure"
  /\ phase' = "stopping"
  /\ UNCHANGED <<closerVars, consumerVars, live, busVars>>

(* Mutant: serve does not wait for the consumer. *)
ConsumerUnawaited ==
  /\ phase = "stopping"
  /\ phase' = "closing"
  /\ UNCHANGED <<closerVars, consumerVars, signals, live, code, busVars>>

(* <-consumerDone, and serve returns. *)
ConsumerDone ==
  /\ phase = "stopping"
  /\ run = "returned"
  /\ phase' = "closing"
  /\ UNCHANGED <<closerVars, consumerVars, signals, live, code, busVars>>

-----------------------------------------------------------------------------
(* gateway.close: the listener, the hub, the bus.                            *)

CloseHub ==
  /\ phase = "closing"
  /\ Cancel
  /\ UNCHANGED <<consumerVars, serveVars, busVars>>

(* RedisBus.Close: the flag adopt reads, under connMu. *)
CloseBus ==
  /\ phase = "closing"
  /\ shutter = "returned"
  /\ phase' = "closing the bus"
  /\ busClose' = "announced"
  /\ UNCHANGED <<closerVars, consumerVars, signals, live, code,
                 sup, sock, reading>>

(* ... close(done), the adopted connection, the context ... *)
CancelBus ==
  /\ busClose = "announced"
  /\ busClose' = "waiting"
  /\ sock' = IF sup = "adopted" THEN "down" ELSE sock
  /\ UNCHANGED <<closerVars, consumerVars, serveVars, sup, reading>>

(* Mutant: the intake is closed without waiting for the reader. *)
BusClosedEarly ==
  /\ busClose = "waiting"
  /\ busClose' = "closed"
  /\ phase' = "exited"
  /\ UNCHANGED <<closerVars, consumerVars, signals, live, code,
                 sup, sock, reading>>

(* ... wg.Wait, close(out). *)
BusClosed ==
  /\ busClose = "waiting"
  /\ sup = "returned"
  /\ ~reading
  /\ busClose' = "closed"
  /\ phase' = "exited"
  /\ UNCHANGED <<closerVars, consumerVars, signals, live, code,
                 sup, sock, reading>>

-----------------------------------------------------------------------------
BusSteps ==
  \/ Opens \/ OpenFails \/ Adopt \/ Disconnects \/ ReaderLeaves \/ Lost \/ BackedOff
  \/ \E m \in Messages : Arrives(m)

ConsumerSteps ==
  \/ \E w \in Workers : Receives(w) \/ HandsOver(w) \/ Dispatched(w) \/ WorkerLeaves(w)
  \/ ControlReceives \/ Applies \/ ControlLeaves
  \/ RunContinues

HubSteps == (\E j \in Jobs : Asks(j)) \/ HubWorks

ServeSteps ==
  \/ Built \/ BuildFails
  \/ SignalArrives \/ ListenerFails
  \/ \E r \in Readers : ConnEnds(r)
  \/ BeginStop \/ StopConsumer \/ ConsumerDone
  \/ CloseHub \/ CloseBus \/ CancelBus \/ BusClosed

GatewayNext == BusSteps \/ ConsumerSteps \/ HubSteps \/ ServeSteps

GatewaySpec == GatewayInit /\ [][GatewayNext]_gatewayVars

(* Fairness.  Every goroutine of the process is scheduled, closeSlow, Dispatch,   *)
(* Control and Verify return, dials and waits end, the drain has a timeout, and  *)
(* a socket that is down wakes its reader.  Nothing obliges a signal, a caller,   *)
(* a client, a message or a network failure.                                   *)
Closer(A) == A /\ UNCHANGED <<consumerVars, serveVars, busVars>>

CloserFairness ==
  /\ \A j \in Jobs : WF_gatewayVars(Closer(Closed(j)))
  /\ WF_gatewayVars(Closer(LoopExits \/ \E j \in Jobs : LoopTakes(j)))
  /\ WF_gatewayVars(Closer(ReconcilerExits))
  /\ WF_gatewayVars(Closer(Announce \/ ClosersWaited \/ Return \/ \E j \in Jobs : Empty(j)))

BusFairness ==
  /\ WF_gatewayVars(Opens \/ OpenFails \/ Adopt \/ Lost \/ BackedOff)
  /\ WF_gatewayVars(ReaderLeaves)

ConsumerFairness ==
  /\ \A w \in Workers :
       /\ WF_gatewayVars(Receives(w) \/ HandsOver(w) \/ Dispatched(w))
       /\ WF_gatewayVars(WorkerLeaves(w))
  /\ WF_gatewayVars(ControlReceives \/ Applies)
  /\ WF_gatewayVars(ControlLeaves)
  /\ WF_gatewayVars(RunContinues)

ServeFairness ==
  /\ WF_gatewayVars(Built \/ BuildFails \/ BeginStop \/ StopConsumer \/ ConsumerDone
            \/ CloseHub \/ CloseBus \/ CancelBus \/ BusClosed)

GatewayFairSpec ==
  GatewaySpec /\ CloserFairness /\ BusFairness /\ ConsumerFairness /\ ServeFairness

-----------------------------------------------------------------------------
(* Correctness.                                                            *)

GatewayTypeOK ==
  /\ TypeOK
  /\ intake \in Seq(Messages) /\ Len(intake) <= IntakeQueue
  /\ hands \in [Workers -> Messages \cup {None}]
  /\ controlq \in Seq(IsControl) /\ Len(controlq) <= ControlQueue
  /\ applying \in IsControl \cup {None}
  /\ gone \subseteq Goroutines
  /\ run \in {"not started", "running", "closed queue", "returned"}
  /\ fate \in [Messages -> {"unsent", "received", "dispatched", "judged"}]
  /\ phase \in {"dialing", "building", "serving", "draining", "stopping", "closing",
               "closing the bus", "exited"}
  /\ reading \in BOOLEAN
  /\ signals \in 0..SignalBuffer
  /\ live \subseteq Readers
  /\ code \in {"ok", "failure"}
  /\ sup \in {"opening", "opened", "adopted", "refused", "backoff", "returned"}
  /\ sock \in {"none", "up", "down"}
  /\ busClose \in {"open", "announced", "waiting", "closed"}

(* docs/09-internals.md 8 and the comment on Run: Hub.Close does not race a      *)
(* Dispatch or a Control, and the bus is not closed underneath a reconciler     *)
(* that may still call Sync.                                                *)
TearDownOrder ==
  /\ shutter # "idle" => /\ \A w \in Workers : hands[w] = None
                         /\ applying = None
                         /\ Goroutines \subseteq gone
  /\ busClose # "open" => reconciler = "exited"

(* RedisBus.Close: nothing is left that could send on the intake once it is     *)
(* closed, and no connection is left that nobody will ever close.              *)
NoSendOnClosedIntake ==
  busClose = "closed" => ~reading /\ sup = "returned" /\ sock # "up"

(* serve: the consumer outlives the connections.  One that is still open when    *)
(* the consumer stops is one that the drain timed out on or that a second       *)
(* signal abandoned, and the exit code says so.                               *)
DeliversUntilDrained == Stopped /\ live # {} => code = "failure"

(* dispatch: a revocation that got as far as the intake is not lost for a queue   *)
(* that was full, and no handover waits forever, while the gateway runs.        *)
ControlIsJudged ==
  \A m \in IsControl :
    fate[m] = "received" ~> Stopped \/ fate[m] = "judged"

(* A stop ends: whatever started it, and whatever the bus connection,  *)
(* the queues and the closers are doing at the time, the process gets to return   *)
(* an exit code.  A failed build gets there too.                              *)
StopReturns ==
  phase \notin {"dialing", "building", "serving"} ~> phase = "exited"
=============================================================================
