---------------------------- MODULE GatewayProofs ---------------------------
(***************************************************************************)
(* Close of the hub and the life of the gateway, for any number of handlers,  *)
(* workers, connections and messages and every capacity of the queues.       *)
(*                                                                         *)
(* First SlowCloser on its own: the invariant is the order of Close's          *)
(* statements.  closeDone is up from the announcement on, the announcement     *)
(* comes after closeLoop is gone, and each later statement waits for one kind  *)
(* of job.  Then the gateway, each step of which is a step of the closer or     *)
(* leaves it alone, so that what was shown of Close holds of it.  Its tear-     *)
(* down is a chain: a later stage of it implies that every earlier one is      *)
(* over, and GInv says so link by link.                                      *)
(***************************************************************************)
EXTENDS Gateway, TLAPS

-----------------------------------------------------------------------------
(* Close of the hub.                                                        *)

Announced == closeDone <=> HasWaited

LoopGone ==
  /\ HasWaited => loop = "exited"
  /\ loop = "exited" => At("loop") = {}

OverflowGone == shutter \in {"emptying", "returned"} => At("overflow") = {}

ShutterWorks == At("shutter") # {} => shutter = "emptying"

QueueGone == shutter = "returned" => At("queued") = {}

IInv == TypeOK /\ Announced /\ LoopGone /\ OverflowGone /\ ShutterWorks /\ QueueGone

-----------------------------------------------------------------------------
LEMMA InitInv == Init => IInv
BY DEF Init, IInv, TypeOK, Places, Performing, Announced, HasWaited, LoopGone, OverflowGone,
       ShutterWorks, QueueGone, At

(* Moving one job changes who is where by that job alone. *)
LEMMA PutMoves ==
  ASSUME TypeOK, NEW j \in Jobs, NEW place \in Places, Put(j, place)
  PROVE  /\ job' \in [Jobs -> Places]
         /\ \A q \in Places : At(q)' = IF q = place THEN At(q) \cup {j} ELSE At(q) \ {j}
BY DEF TypeOK, Put, At

LEMMA HandOverPlaces ==
  /\ HandOver \in {"inline", "queued", "overflow"}
  /\ closeDone => HandOver = "inline"
BY DEF HandOver

LEMMA NextKeeps == IInv /\ [Next]_closerVars => IInv'
<1> SUFFICES ASSUME IInv, [Next]_closerVars PROVE IInv'
  OBVIOUS
<1> USE DEF IInv, HasWaited, Announced, LoopGone, OverflowGone, ShutterWorks, QueueGone
<1> {"queued", "inline", "overflow", "loop", "shutter", "done"} \subseteq Places
  BY DEF Places, Performing
<1>1. CASE UNCHANGED closerVars
  BY <1>1 DEF closerVars, TypeOK, At
<1>2. ASSUME NEW j \in Jobs, EnqueueClose(j) PROVE IInv'
  <2>1. PICK place \in {"inline", "queued", "overflow"} :
          /\ closeDone => place = "inline"
          /\ Put(j, place)
          /\ UNCHANGED <<loop, reconciler, cancelled, closeDone, shutter>>
    BY <1>2, HandOverPlaces DEF EnqueueClose
  <2> place \in Places
    OBVIOUS
  <2>2. /\ job' \in [Jobs -> Places]
        /\ \A q \in Places : At(q)' = IF q = place THEN At(q) \cup {j} ELSE At(q) \ {j}
    BY <2>1, PutMoves
  <2>3. At("loop")' \subseteq At("loop") /\ At("shutter")' \subseteq At("shutter")
    BY <2>1, <2>2
  <2>4. closeDone => /\ At("overflow")' \subseteq At("overflow")
                     /\ At("queued")' \subseteq At("queued")
    BY <2>1, <2>2
  <2> QED
    BY <2>1, <2>2, <2>3, <2>4 DEF TypeOK
<1>3. ASSUME NEW j \in Jobs, Closed(j) PROVE IInv'
  <2>1. Put(j, "done") /\ UNCHANGED <<loop, reconciler, cancelled, closeDone, shutter>>
    BY <1>3 DEF Closed
  <2>2. /\ job' \in [Jobs -> Places]
        /\ \A q \in Places : At(q)' = IF q = "done" THEN At(q) \cup {j} ELSE At(q) \ {j}
    BY <2>1, PutMoves
  <2> QED
    BY <2>1, <2>2 DEF TypeOK
<1>4. ASSUME NEW j \in Jobs, LoopTakes(j) PROVE IInv'
  <2>1. /\ Put(j, "loop") /\ loop = "running"
        /\ UNCHANGED <<loop, reconciler, cancelled, closeDone, shutter>>
    BY <1>4 DEF LoopTakes
  <2>2. /\ job' \in [Jobs -> Places]
        /\ \A q \in Places : At(q)' = IF q = "loop" THEN At(q) \cup {j} ELSE At(q) \ {j}
    BY <2>1, PutMoves
  <2> QED
    BY <2>1, <2>2 DEF TypeOK
<1>5. CASE LoopExits \/ ReconcilerExits \/ Cancel \/ Announce
           \/ ClosersWaited \/ Return
  <2> job' = job
    BY <1>5 DEF LoopExits, ReconcilerExits, Cancel, Announce, ClosersWaited, Return
  <2> \A q \in Places : At(q)' = At(q)
    BY DEF At
  <2>1. CASE LoopExits
    BY <2>1 DEF LoopExits, TypeOK
  <2>2. CASE ReconcilerExits
    BY <2>2 DEF ReconcilerExits, TypeOK
  <2>3. CASE Cancel
    BY <2>3 DEF Cancel, TypeOK
  <2>4. CASE Announce
    BY <2>4 DEF Announce, TypeOK
  <2>5. CASE ClosersWaited
    BY <2>5 DEF ClosersWaited, TypeOK
  <2>6. CASE Return
    BY <2>6 DEF Return, TypeOK
  <2> QED
    BY <1>5, <2>1, <2>2, <2>3, <2>4, <2>5, <2>6
<1>6. ASSUME NEW j \in Jobs, Empty(j) PROVE IInv'
  <2>1. /\ Put(j, "shutter") /\ shutter = "emptying"
        /\ UNCHANGED <<loop, reconciler, cancelled, closeDone, shutter>>
    BY <1>6 DEF Empty
  <2>2. /\ job' \in [Jobs -> Places]
        /\ \A q \in Places : At(q)' = IF q = "shutter" THEN At(q) \cup {j} ELSE At(q) \ {j}
    BY <2>1, PutMoves
  <2> QED
    BY <2>1, <2>2 DEF TypeOK
<1> QED
  BY <1>1, <1>2, <1>3, <1>4, <1>5, <1>6 DEF Next, Shutdown

(* The three parts of IInv hold in every state of every behaviour.            *)
THEOREM Invariance == Spec => []IInv
BY InitInv, NextKeeps, PTL DEF Spec

-----------------------------------------------------------------------------
(* What the invariant says of the code.                                     *)

(* hub.go, enqueueClose: a close that was asked for is always in one of the places  *)
(* that some goroutine looks at.                                            *)
THEOREM TypeCorrect == Spec => []TypeOK
<1>1. IInv => TypeOK
  BY DEF IInv
<1> QED
  BY <1>1, Invariance, PTL

(* NFR-3: a Close of the hub that has returned leaves closeLoop gone, its      *)
(* queue empty and no goroutine it started closing a connection, for every     *)
(* number of concurrent enqueueClose calls.                                  *)
THEOREM CloseLeaksNothing == Spec => []LeaksNothing
<1>1. IInv => LeaksNothing
  <2> SUFFICES ASSUME IInv, shutter = "returned", NEW j \in Jobs
               PROVE  loop = "exited" /\ job[j] \in {"unasked", "inline", "done"}
    BY DEF LeaksNothing, IInv, LoopGone, HasWaited
  <2>1. /\ loop = "exited" /\ At("loop") = {} /\ At("overflow") = {}
        /\ At("queued") = {} /\ At("shutter") = {}
    BY DEF IInv, LoopGone, HasWaited, OverflowGone, QueueGone, ShutterWorks
  <2> QED
    BY <2>1 DEF IInv, TypeOK, Places, Performing, At
<1> QED
  BY <1>1, Invariance, PTL

(* hub.go, Close: enqueueClose spawns nothing once closers.Wait may have been   *)
(* reached, because closeDone is already announced and read under closeMu.    *)
THEOREM NothingSpawnedLate == Spec => NoLateSpawn
<1>1. IInv /\ [Next]_closerVars =>
        [HasWaited => At("overflow")' \subseteq At("overflow")]_closerVars
  <2> SUFFICES ASSUME IInv, Next, HasWaited, NEW i \in At("overflow")'
               PROVE  i \in At("overflow")
    OBVIOUS
  <2>1. closeDone
    BY DEF IInv, Announced
  <2> USE DEF IInv, TypeOK, At, Put
  <2>2. ASSUME NEW j \in Jobs, EnqueueClose(j) PROVE i \in At("overflow")
    BY <2>1, <2>2, HandOverPlaces DEF EnqueueClose
  <2>3. ASSUME NEW j \in Jobs, Closed(j) \/ LoopTakes(j) \/ Empty(j) PROVE i \in At("overflow")
    BY <2>3 DEF Closed, LoopTakes, Empty
  <2>4. CASE UNCHANGED job
    BY <2>4
  <2> QED
    BY <2>2, <2>3, <2>4
    DEF Next, Shutdown, LoopExits, ReconcilerExits, Cancel, Announce, ClosersWaited, Return
<1> QED
  BY <1>1, Invariance, PTL DEF Spec, NoLateSpawn

-----------------------------------------------------------------------------
(* The gateway around it.                                                   *)

(* Who has left holds nothing, and what Run waited for has left. *)
LeftEmptyHanded ==
  /\ \A w \in Workers \cap gone : hands[w] = None
  /\ Controller \in gone => applying = None

RunWaits ==
  /\ run \in {"closed queue", "returned"} => Workers \subseteq gone
  /\ run \in {"not started", "returned"} => Goroutines \subseteq gone

(* Each stage of a stop comes after the one before it. *)
Chain ==
  /\ phase \in {"dialing", "building"} => run = "not started"
  /\ phase \in {"closing", "closing the bus", "exited"} => run \in {"not started", "returned"}
  /\ shutter # "idle" => phase \in {"closing", "closing the bus", "exited"}
  /\ shutter \notin {"idle", "waiting for both"} => reconciler = "exited"
  /\ busClose # "open" => shutter = "returned"

(* Between two connections the supervisor has neither socket nor reader. *)
Unconnected == sup \in {"opening", "backoff", "returned"} => ~reading /\ sock = "none"

ReturnedFirst == busClose = "closed" => sup = "returned"

HandsAreAFunction == hands = [w \in Workers |-> hands[w]]

GInv == HandsAreAFunction /\ LeftEmptyHanded /\ RunWaits /\ Chain /\ Unconnected /\ ReturnedFirst

-----------------------------------------------------------------------------
(* Only these steps of the gateway move the closer. *)
LEMMA GatewayStep == ASSUME [GatewayNext]_gatewayVars PROVE [Next]_closerVars
<1>1. CASE BusSteps
  BY <1>1 DEF BusSteps, Opens, OpenFails, Adopt, Disconnects, ReaderLeaves, Lost, BackedOff, Arrives
<1>2. CASE ConsumerSteps
  BY <1>2 DEF ConsumerSteps, Receives, HandsOver, Dispatched, WorkerLeaves, ControlReceives,
              Applies, ControlLeaves, RunContinues
<1>3. CASE HubSteps
  BY <1>3 DEF HubSteps, HubWorks, Asks, Next, Shutdown
<1>4. CASE ServeSteps
  BY <1>4 DEF ServeSteps, Built, BuildFails, SignalArrives, ListenerFails, ConnEnds, BeginStop,
              StopConsumer, ConsumerDone, CloseHub, CloseBus, CancelBus, BusClosed, Next, Shutdown
<1>5. CASE UNCHANGED gatewayVars
  BY <1>5 DEF gatewayVars
<1> QED
  BY <1>1, <1>2, <1>3, <1>4, <1>5 DEF GatewayNext

(* The gateway drives the hub's Close as SlowCloser specifies it. *)
THEOREM GatewayImplementsCloser == GatewaySpec => Spec
<1>1. GatewayInit => Init
  BY DEF GatewayInit
<1> QED
  BY <1>1, GatewayStep, PTL DEF GatewaySpec, Spec

(* NFR-3: the process leaks no closer goroutine and no close, whoever was       *)
(* asking the hub for one while the gateway stopped.                           *)
THEOREM GatewayLeaksNothing == GatewaySpec => []LeaksNothing
BY GatewayImplementsCloser, CloseLeaksNothing, PTL

-----------------------------------------------------------------------------
(* Types and capacities, one group of variables at a time. *)

ConsumerTypes ==
  /\ intake \in Seq(Messages) /\ Len(intake) <= IntakeQueue
  /\ hands \in [Workers -> Messages \cup {None}]
  /\ controlq \in Seq(IsControl) /\ Len(controlq) <= ControlQueue
  /\ applying \in IsControl \cup {None}
  /\ gone \subseteq Goroutines
  /\ run \in {"not started", "running", "closed queue", "returned"}
  /\ fate \in [Messages -> {"unsent", "received", "dispatched", "judged"}]

ServeTypes ==
  /\ phase \in {"dialing", "building", "serving", "draining", "stopping", "closing",
               "closing the bus", "exited"}
  /\ signals \in 0..SignalBuffer
  /\ live \subseteq Readers
  /\ code \in {"ok", "failure"}

BusTypes ==
  /\ sup \in {"opening", "opened", "adopted", "refused", "backoff", "returned"}
  /\ sock \in {"none", "up", "down"}
  /\ reading \in BOOLEAN
  /\ busClose \in {"open", "announced", "waiting", "closed"}

Types == ConsumerTypes /\ ServeTypes /\ BusTypes

LEMMA Capacities ==
  /\ IntakeQueue \in Nat /\ IntakeQueue > 0
  /\ ControlQueue \in Nat /\ ControlQueue > 0
  /\ SignalBuffer \in Nat /\ SignalBuffer > 0
BY GatewayAssumption

(* A queue of capacity n takes one more if it is not full, and gives up its head. *)
LEMMA AppendFits ==
  ASSUME NEW S, NEW q \in Seq(S), NEW n \in Nat, NEW x \in S, Len(q) < n
  PROVE  Append(q, x) \in Seq(S) /\ Len(Append(q, x)) <= n
OBVIOUS

LEMMA TailFits ==
  ASSUME NEW S, NEW q \in Seq(S), NEW n \in Nat, q # <<>>, Len(q) <= n
  PROVE  Head(q) \in S /\ Tail(q) \in Seq(S) /\ Len(Tail(q)) <= n
OBVIOUS

LEMMA BufferRoom == \A i : i \in 0..SignalBuffer <=> i \in Nat /\ i <= SignalBuffer
BY Capacities

LEMMA BusTyped == ASSUME Types, [GatewayNext]_gatewayVars PROVE BusTypes'
<1> USE DEF Types, BusTypes
<1>1. CASE UNCHANGED busVars
  BY <1>1 DEF busVars
<1>2. CASE Opens \/ OpenFails \/ Adopt
  BY <1>2 DEF Opens, OpenFails, Adopt
<1>3. CASE Disconnects \/ ReaderLeaves
  BY <1>3 DEF Disconnects, ReaderLeaves
<1>4. CASE Lost \/ BackedOff
  BY <1>4 DEF Lost, BackedOff
<1>5. CASE CloseBus \/ CancelBus \/ BusClosed
  BY <1>5 DEF CloseBus, CancelBus, BusClosed
<1>6. CASE ConsumerSteps \/ HubSteps \/ UNCHANGED gatewayVars
           \/ \E m \in Messages : Arrives(m)
  BY <1>1, <1>6 DEF ConsumerSteps, Receives, HandsOver, Dispatched, WorkerLeaves,
     ControlReceives, Applies, ControlLeaves, RunContinues, HubSteps, Asks, HubWorks, Arrives,
     gatewayVars
<1>7. CASE \/ Built \/ BuildFails \/ SignalArrives \/ ListenerFails \/ BeginStop
           \/ StopConsumer \/ ConsumerDone \/ CloseHub \/ \E r \in Readers : ConnEnds(r)
  BY <1>1, <1>7 DEF Built, BuildFails, SignalArrives, ListenerFails, ConnEnds, BeginStop,
     StopConsumer, ConsumerDone, CloseHub
<1> QED
  BY <1>2, <1>3, <1>4, <1>5, <1>6, <1>7 DEF GatewayNext, BusSteps, ServeSteps

LEMMA ServeTyped == ASSUME Types, [GatewayNext]_gatewayVars PROVE ServeTypes'
<1> USE DEF Types, ServeTypes
<1>1. CASE UNCHANGED serveVars
  BY <1>1 DEF serveVars
<1>2. CASE OpenFails \/ Adopt
  BY <1>2 DEF OpenFails, Adopt, FirstAttemptDone
<1>3. CASE Built \/ BuildFails \/ ListenerFails \/ ConsumerDone
  BY <1>3 DEF Built, BuildFails, ListenerFails, ConsumerDone
<1>4. CASE SignalArrives \/ BeginStop \/ StopConsumer
  <2>1. signals \in Nat /\ signals <= SignalBuffer
    BY BufferRoom
  <2>2. \/ signals' = signals
        \/ signals < SignalBuffer /\ signals' = signals + 1
        \/ signals > 0 /\ signals' = signals - 1
    BY <1>4 DEF SignalArrives, BeginStop, StopConsumer
  <2>3. phase' \in {phase, "draining", "stopping"} /\ live' = live /\ code' \in {code, "failure"}
    BY <1>4 DEF SignalArrives, BeginStop, StopConsumer
  <2>4. signals' \in 0..SignalBuffer
    <3> HIDE DEF Types, ServeTypes
    <3> QED
      BY <2>1, <2>2, Capacities
  <2> QED
    BY <2>3, <2>4
<1>5. ASSUME NEW r \in Readers, ConnEnds(r) PROVE ServeTypes'
  BY <1>5 DEF ConnEnds
<1>6. CASE CloseBus \/ BusClosed
  BY <1>6 DEF CloseBus, BusClosed
<1>7. CASE ConsumerSteps \/ HubSteps \/ UNCHANGED gatewayVars
  BY <1>1, <1>7 DEF ConsumerSteps, Receives, HandsOver, Dispatched, WorkerLeaves,
     ControlReceives, Applies, ControlLeaves, RunContinues, HubSteps, Asks, HubWorks,
     gatewayVars
<1>8. CASE \/ Opens \/ Disconnects \/ ReaderLeaves \/ Lost \/ BackedOff \/ CloseHub \/ CancelBus
           \/ \E m \in Messages : Arrives(m)
  BY <1>1, <1>8 DEF Opens, Disconnects, ReaderLeaves, Lost, BackedOff, CloseHub, CancelBus, Arrives
<1> QED
  BY <1>2, <1>3, <1>4, <1>5, <1>6, <1>7, <1>8 DEF GatewayNext, BusSteps, ServeSteps

LEMMA ConsumerTyped == ASSUME Types, [GatewayNext]_gatewayVars PROVE ConsumerTypes'
<1> USE DEF Types, ConsumerTypes
<1>1. CASE UNCHANGED consumerVars
  BY <1>1 DEF consumerVars
<1>2. ASSUME NEW m \in Messages, Arrives(m) PROVE ConsumerTypes'
  <2>1. intake' \in Seq(Messages) /\ Len(intake') <= IntakeQueue
    BY <1>2, Capacities, AppendFits DEF Arrives
  <2>2. fate' \in [Messages -> {"unsent", "received", "dispatched", "judged"}]
    BY <1>2 DEF Arrives, Fated
  <2> QED
    BY <1>2, <2>1, <2>2 DEF Arrives
<1>3. ASSUME NEW w \in Workers, Receives(w) PROVE ConsumerTypes'
  <2>1. /\ Head(intake) \in Messages
        /\ intake' \in Seq(Messages) /\ Len(intake') <= IntakeQueue
    BY <1>3, Capacities, TailFits DEF Receives
  <2>2. hands' \in [Workers -> Messages \cup {None}]
    BY <1>3, <2>1 DEF Receives
  <2> QED
    BY <1>3, <2>1, <2>2 DEF Receives
<1>4. ASSUME NEW w \in Workers, HandsOver(w) PROVE ConsumerTypes'
  <2>1. controlq' \in Seq(IsControl) /\ Len(controlq') <= ControlQueue
    BY <1>4, Capacities, AppendFits DEF HandsOver
  <2>2. hands' \in [Workers -> Messages \cup {None}]
    BY <1>4 DEF HandsOver
  <2> QED
    BY <1>4, <2>1, <2>2 DEF HandsOver
<1>5. ASSUME NEW w \in Workers, Dispatched(w) PROVE ConsumerTypes'
  <2>1. /\ hands' \in [Workers -> Messages \cup {None}]
        /\ fate' \in [Messages -> {"unsent", "received", "dispatched", "judged"}]
    BY <1>5 DEF Dispatched, Fated
  <2> QED
    BY <1>5, <2>1 DEF Dispatched
<1>6. ASSUME NEW w \in Workers, WorkerLeaves(w) PROVE ConsumerTypes'
  <2>1. hands' \in [Workers -> Messages \cup {None}] /\ gone' \subseteq Goroutines
    BY <1>6 DEF WorkerLeaves, Goroutines
  <2> QED
    BY <1>6, <2>1 DEF WorkerLeaves
<1>7. CASE ControlReceives
  <2>1. /\ Head(controlq) \in IsControl
        /\ controlq' \in Seq(IsControl) /\ Len(controlq') <= ControlQueue
    BY <1>7, Capacities, TailFits DEF ControlReceives
  <2> QED
    BY <1>7, <2>1 DEF ControlReceives
<1>8. CASE Applies
  <2>1. fate' \in [Messages -> {"unsent", "received", "dispatched", "judged"}]
    BY <1>8 DEF Applies, Fated
  <2> QED
    BY <1>8, <2>1 DEF Applies
<1>9. CASE ControlLeaves \/ RunContinues
  BY <1>9 DEF ControlLeaves, RunContinues, Goroutines
<1>10. CASE Built
  BY <1>10 DEF Built
<1>11. CASE HubSteps \/ UNCHANGED gatewayVars
            \/ Opens \/ OpenFails \/ Adopt \/ Disconnects \/ ReaderLeaves \/ Lost \/ BackedOff
  BY <1>1, <1>11 DEF HubSteps, Asks, HubWorks, gatewayVars, Opens, OpenFails, Adopt, Disconnects,
     ReaderLeaves, Lost, BackedOff
<1>12. CASE \/ BuildFails \/ SignalArrives \/ ListenerFails \/ BeginStop \/ StopConsumer
            \/ ConsumerDone \/ CloseHub \/ CloseBus \/ CancelBus \/ BusClosed
            \/ \E r \in Readers : ConnEnds(r)
  BY <1>1, <1>12 DEF BuildFails, SignalArrives, ListenerFails, ConnEnds, BeginStop,
     StopConsumer, ConsumerDone, CloseHub, CloseBus, CancelBus, BusClosed
<1> QED
  BY <1>2, <1>3, <1>4, <1>5, <1>6, <1>7, <1>8, <1>9, <1>10, <1>11, <1>12
  DEF GatewayNext, BusSteps, ConsumerSteps, ServeSteps

(* bus.intake_queue, DefaultControlQueue and signalBuffer: none of the queues is    *)
(* ever longer than it was made, and only control messages reach the control      *)
(* goroutine.                                                                *)
THEOREM GatewayTypeCorrect == GatewaySpec => []GatewayTypeOK
<1>1. GatewayInit => Types
  <2> SUFFICES ASSUME GatewayInit PROVE Types
    OBVIOUS
  <2>0. intake = <<>> /\ controlq = <<>> /\ signals = 0
    BY DEF GatewayInit
  <2>1. intake \in Seq(Messages) /\ Len(intake) <= IntakeQueue
    BY <2>0, Capacities
  <2>2. controlq \in Seq(IsControl) /\ Len(controlq) <= ControlQueue
    BY <2>0, Capacities
  <2>3. ConsumerTypes
    BY <2>1, <2>2 DEF GatewayInit, ConsumerTypes
  <2>4. ServeTypes /\ BusTypes
    <3>1. 0 \in 0..SignalBuffer
      BY Capacities
    <3> QED
      BY <3>1 DEF GatewayInit, ServeTypes, BusTypes
  <2> QED
    BY <2>3, <2>4 DEF Types
<1>2. Types /\ [GatewayNext]_gatewayVars => Types'
  BY BusTyped, ServeTyped, ConsumerTyped DEF Types
<1>3. Types /\ TypeOK => GatewayTypeOK
  BY DEF Types, ConsumerTypes, ServeTypes, BusTypes, GatewayTypeOK
<1> QED
  BY <1>1, <1>2, <1>3, GatewayImplementsCloser, TypeCorrect, PTL DEF GatewaySpec

-----------------------------------------------------------------------------
LEMMA GInit == GatewayInit => GInv
BY DEF GatewayInit, Init, GInv, HandsAreAFunction, LeftEmptyHanded, RunWaits, Chain, Unconnected, ReturnedFirst,
       Goroutines

LEMMA BusKeeps == ASSUME GInv, BusSteps PROVE GInv'
<1> USE DEF GInv, HandsAreAFunction, LeftEmptyHanded, RunWaits, Chain, Unconnected, ReturnedFirst, closerVars,
            consumerVars, serveVars, BusCancelled
<1>1. CASE Opens
  BY <1>1 DEF Opens
<1>2. CASE OpenFails
  BY <1>2 DEF OpenFails, FirstAttemptDone
<1>3. CASE Adopt
  BY <1>3 DEF Adopt, FirstAttemptDone
<1>4. CASE Disconnects
  BY <1>4 DEF Disconnects
<1>5. CASE ReaderLeaves
  BY <1>5 DEF ReaderLeaves
<1>6. CASE Lost
  BY <1>6 DEF Lost
<1>7. CASE BackedOff
  BY <1>7 DEF BackedOff
<1>8. CASE \E m \in Messages : Arrives(m)
  BY <1>8 DEF Arrives, busVars
<1> QED
  BY <1>1, <1>2, <1>3, <1>4, <1>5, <1>6, <1>7, <1>8 DEF BusSteps

LEMMA ConsumerKeeps == ASSUME GInv, ConsumerSteps PROVE GInv'
<1> USE DEF GInv, HandsAreAFunction, LeftEmptyHanded, RunWaits, Chain, Unconnected, ReturnedFirst,
            closerVars, serveVars, busVars, Goroutines
<1>1. ASSUME NEW w \in Workers, Receives(w) PROVE GInv'
  BY <1>1 DEF Receives, AtSelect
<1>2. ASSUME NEW w \in Workers, HandsOver(w) PROVE GInv'
  BY <1>2 DEF HandsOver
<1>3. ASSUME NEW w \in Workers, Dispatched(w) PROVE GInv'
  BY <1>3 DEF Dispatched
<1>4. ASSUME NEW w \in Workers, WorkerLeaves(w) PROVE GInv'
  BY <1>4, GatewayAssumption DEF WorkerLeaves
<1>5. CASE ControlReceives
  BY <1>5 DEF ControlReceives
<1>6. CASE Applies
  BY <1>6 DEF Applies
<1>7. CASE ControlLeaves
  BY <1>7, GatewayAssumption DEF ControlLeaves
<1>8. CASE RunContinues
  BY <1>8 DEF RunContinues
<1> QED
  BY <1>1, <1>2, <1>3, <1>4, <1>5, <1>6, <1>7, <1>8 DEF ConsumerSteps

LEMMA HubKeeps == ASSUME GInv, HubSteps PROVE GInv'
<1> USE DEF GInv, HandsAreAFunction, LeftEmptyHanded, RunWaits, Chain, Unconnected, ReturnedFirst,
            consumerVars, serveVars, busVars
<1>1. ASSUME NEW j \in Jobs, Asks(j) PROVE GInv'
  BY <1>1 DEF Asks, EnqueueClose
<1>2. ASSUME NEW j \in Jobs, Closed(j) \/ LoopTakes(j) \/ Empty(j),
             UNCHANGED <<consumerVars, serveVars, busVars>>
      PROVE  GInv'
  BY <1>2 DEF Closed, LoopTakes, Empty
<1>3. CASE /\ LoopExits \/ ReconcilerExits \/ Announce \/ ClosersWaited \/ Return
           /\ UNCHANGED <<consumerVars, serveVars, busVars>>
  BY <1>3 DEF LoopExits, ReconcilerExits, Announce, ClosersWaited, Return
<1> QED
  BY <1>1, <1>2, <1>3 DEF HubSteps, HubWorks

LEMMA ServeKeeps == ASSUME GInv, ServeSteps PROVE GInv'
<1> USE DEF GInv, HandsAreAFunction, LeftEmptyHanded, RunWaits, Chain, Unconnected, ReturnedFirst,
            closerVars, consumerVars, busVars
<1>1. CASE Built
  BY <1>1 DEF Built
<1>2. CASE BuildFails
  BY <1>2 DEF BuildFails
<1>3. CASE SignalArrives
  BY <1>3 DEF SignalArrives
<1>4. CASE ListenerFails
  BY <1>4 DEF ListenerFails
<1>5. CASE BeginStop
  BY <1>5 DEF BeginStop
<1>6. CASE StopConsumer
  BY <1>6 DEF StopConsumer
<1>7. CASE ConsumerDone
  BY <1>7 DEF ConsumerDone
<1>8. ASSUME NEW r \in Readers, ConnEnds(r) PROVE GInv'
  BY <1>8 DEF ConnEnds
<1>9. CASE CloseHub
  BY <1>9 DEF CloseHub, Cancel, serveVars
<1>10. CASE CloseBus
  BY <1>10 DEF CloseBus
<1>11. CASE BusClosed
  BY <1>11 DEF BusClosed
<1>12. CASE CancelBus
  BY <1>12 DEF CancelBus, serveVars
<1> QED
  BY <1>1, <1>2, <1>3, <1>4, <1>5, <1>6, <1>7, <1>8, <1>9, <1>10, <1>11, <1>12 DEF ServeSteps

(* The chain and what hangs on its links hold in every state. *)
THEOREM GatewayInvariance == GatewaySpec => []GInv
<1>1. GInv /\ [GatewayNext]_gatewayVars => GInv'
  <2>1. ASSUME GInv, UNCHANGED gatewayVars PROVE GInv'
    <3>1. UNCHANGED <<hands, applying, gone, run, phase, shutter, reconciler, busClose, sup, sock, reading>>
      BY <2>1 DEF gatewayVars, closerVars, consumerVars, serveVars, busVars
    <3> QED
      BY <2>1, <3>1 DEF GInv, HandsAreAFunction, LeftEmptyHanded, RunWaits, Chain, Unconnected,
                        ReturnedFirst, Goroutines
  <2>2. GInv /\ GatewayNext => GInv'
    BY BusKeeps, ConsumerKeeps, HubKeeps, ServeKeeps DEF GatewayNext
  <2> QED
    BY <2>1, <2>2
<1> QED
  BY <1>1, GInit, PTL DEF GatewaySpec

-----------------------------------------------------------------------------
(* What the invariant says of the code.                                     *)

(* docs/09-internals.md 8: when the hub is closed no worker is in Dispatch and    *)
(* the control goroutine is not in Control, and when the bus is closed the       *)
(* reconciler that calls Sync is gone.                                        *)
THEOREM TornDownInOrder == GatewaySpec => []TearDownOrder
<1>1. GInv => TearDownOrder
  BY DEF GInv, LeftEmptyHanded, RunWaits, Chain, TearDownOrder, Goroutines
<1> QED
  BY <1>1, GatewayInvariance, PTL

(* RedisBus.Close: the intake is closed when nobody can send on it and no         *)
(* connection is left open.                                                  *)
THEOREM IntakeClosedLast == GatewaySpec => []NoSendOnClosedIntake
<1>1. GInv => NoSendOnClosedIntake
  BY DEF GInv, Unconnected, ReturnedFirst, NoSendOnClosedIntake
<1> QED
  BY <1>1, GatewayInvariance, PTL

(* serve: the consumer outlives the connections.  No ordering of signals, listener  *)
(* failures and closing connections stops it under one that is still open without  *)
(* an exit code that says so.                                                 *)
THEOREM ConsumerOutlivesConnections == GatewaySpec => []DeliversUntilDrained
<1>1. GatewayInit => DeliversUntilDrained
  BY DEF GatewayInit, DeliversUntilDrained
<1>2. GInv /\ DeliversUntilDrained /\ [GatewayNext]_gatewayVars => DeliversUntilDrained'
  <2> SUFFICES ASSUME GInv, DeliversUntilDrained, [GatewayNext]_gatewayVars
               PROVE  DeliversUntilDrained'
    OBVIOUS
  <2> USE DEF DeliversUntilDrained, Stopped
  <2>1. CASE UNCHANGED serveVars
    BY <2>1 DEF serveVars
  <2>2. CASE BusSteps
    BY <2>1, <2>2 DEF BusSteps, Opens, OpenFails, Adopt, FirstAttemptDone, Disconnects,
                      ReaderLeaves, Lost, BackedOff, Arrives
  <2>3. CASE Built \/ BuildFails \/ SignalArrives \/ ListenerFails \/ BeginStop
    BY <2>3 DEF Built, BuildFails, SignalArrives, ListenerFails, BeginStop
  <2>4. ASSUME NEW r \in Readers, ConnEnds(r) PROVE DeliversUntilDrained'
    BY <2>4 DEF ConnEnds
  <2>5. CASE StopConsumer \/ ConsumerDone
    BY <2>5 DEF StopConsumer, ConsumerDone
  <2>6. CASE CloseHub \/ CancelBus
    BY <2>1, <2>6 DEF CloseHub, CancelBus
  <2>7. CASE CloseBus \/ BusClosed
    BY <2>7 DEF CloseBus, BusClosed, GInv, Chain
  <2>8. CASE ConsumerSteps
    BY <2>1, <2>8 DEF ConsumerSteps, Receives, HandsOver, Dispatched, WorkerLeaves,
                      ControlReceives, Applies, ControlLeaves, RunContinues
  <2>9. CASE HubSteps
    BY <2>1, <2>9 DEF HubSteps, Asks, HubWorks
  <2>10. CASE UNCHANGED gatewayVars
    BY <2>1, <2>10 DEF gatewayVars
  <2> QED
    BY <2>2, <2>3, <2>4, <2>5, <2>6, <2>7, <2>8, <2>9, <2>10 DEF GatewayNext, ServeSteps
<1> QED
  BY <1>1, <1>2, GatewayInvariance, PTL DEF GatewaySpec
=============================================================================
