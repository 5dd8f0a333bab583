----------------------------- MODULE SlowCloser -----------------------------
(***************************************************************************)
(* Ending slow consumers, and shutting the hub down around it                *)
(* (internal/hub: enqueueClose, closeLoop, Close).                          *)
(*                                                                         *)
(* A handler that had a frame refused hands the Sink over without waiting:   *)
(* to the closer goroutine's queue, to a goroutine of its own when the queue *)
(* is full, and to itself once Close has announced that nothing is left to    *)
(* hand to.  enqueueClose and the announcement are critical sections of        *)
(* closeMu; a closeSlow takes as long as it takes.  What closeSlow does to     *)
(* the registry is Registry's CloseSlowRemove and CloseSlowClose.             *)
(***************************************************************************)
EXTENDS Naturals, FiniteSets

CONSTANTS
  Handlers,     \* goroutines that may call enqueueClose while Close runs
  Sinks,        \* connections they find slow
  CloserQueue   \* capacity of h.closeq

ASSUME SlowCloserAssumption == CloserQueue \in Nat \ {0} /\ IsFiniteSet(Handlers \X Sinks)

VARIABLES
  job,         \* where the close that a handler asked for a Sink is
  loop,        \* closeLoop: "running" or "exited"
  reconciler,  \* the other goroutine Close waits for
  cancelled,   \* h.ctx is done
  closeDone,   \* h.closeDone
  shutter      \* how far Close is

closerVars == <<job, loop, reconciler, cancelled, closeDone, shutter>>

Jobs == Handlers \X Sinks

(* A close is asked once by each handler.  It waits in the queue, is being     *)
(* performed by one of four goroutines, or is done.                          *)
Performing == {"loop", "overflow", "inline", "shutter"}
Places     == {"unasked", "queued", "done"} \cup Performing

At(place) == {j \in Jobs : job[j] = place}

Put(j, place) == job' = [job EXCEPT ![j] = place]

-----------------------------------------------------------------------------
Init ==
  /\ job = [j \in Jobs |-> "unasked"]
  /\ loop = "running"
  /\ reconciler = "running"
  /\ cancelled = FALSE
  /\ closeDone = FALSE
  /\ shutter = "idle"

(* Mutant: a full queue drops the close. *)
HandOverOrDrop ==
  IF closeDone THEN "inline"
  ELSE IF Cardinality(At("queued")) < CloserQueue THEN "queued"
  ELSE "dropped"

(* Where enqueueClose puts a close, decided under closeMu. *)
HandOver ==
  IF closeDone THEN "inline"
  ELSE IF Cardinality(At("queued")) < CloserQueue THEN "queued"
  ELSE "overflow"

(* A handler performing a close inline calls nothing else meanwhile. *)
EnqueueClose(j) ==
  /\ job[j] = "unasked"
  /\ \A k \in At("inline") : k[1] # j[1]
  /\ Put(j, HandOver)
  /\ UNCHANGED <<loop, reconciler, cancelled, closeDone, shutter>>

(* closeSlow returns. *)
Closed(j) ==
  /\ job[j] \in Performing
  /\ Put(j, "done")
  /\ UNCHANGED <<loop, reconciler, cancelled, closeDone, shutter>>

(* closeLoop's select: with both ready, either may be chosen. *)
LoopTakes(j) ==
  /\ loop = "running"
  /\ At("loop") = {}
  /\ job[j] = "queued"
  /\ Put(j, "loop")
  /\ UNCHANGED <<loop, reconciler, cancelled, closeDone, shutter>>

LoopExits ==
  /\ loop = "running"
  /\ At("loop") = {}
  /\ cancelled
  /\ loop' = "exited"
  /\ UNCHANGED <<job, reconciler, cancelled, closeDone, shutter>>

ReconcilerExits ==
  /\ reconciler = "running"
  /\ cancelled
  /\ reconciler' = "exited"
  /\ UNCHANGED <<job, loop, cancelled, closeDone, shutter>>

-----------------------------------------------------------------------------
(* Close, statement by statement. *)

Cancel ==
  /\ shutter = "idle"
  /\ cancelled' = TRUE
  /\ shutter' = "waiting for both"
  /\ UNCHANGED <<job, loop, reconciler, closeDone>>

Announce ==
  /\ shutter = "waiting for both"
  /\ loop = "exited"
  /\ reconciler = "exited"
  /\ closeDone' = TRUE
  /\ shutter' = "waiting for closers"
  /\ UNCHANGED <<job, loop, reconciler, cancelled>>

ClosersWaited ==
  /\ shutter = "waiting for closers"
  /\ At("overflow") = {}
  /\ shutter' = "emptying"
  /\ UNCHANGED <<job, loop, reconciler, cancelled, closeDone>>

Empty(j) ==
  /\ shutter = "emptying"
  /\ At("shutter") = {}
  /\ job[j] = "queued"
  /\ Put(j, "shutter")
  /\ UNCHANGED <<loop, reconciler, cancelled, closeDone, shutter>>

(* Mutant: Close leaves what is still queued. *)
ReturnEarly ==
  /\ shutter = "emptying"
  /\ shutter' = "returned"
  /\ UNCHANGED <<job, loop, reconciler, cancelled, closeDone>>

Return ==
  /\ shutter = "emptying"
  /\ At("shutter") = {}
  /\ At("queued") = {}
  /\ shutter' = "returned"
  /\ UNCHANGED <<job, loop, reconciler, cancelled, closeDone>>

Shutdown == Cancel \/ Announce \/ ClosersWaited \/ (\E j \in Jobs : Empty(j)) \/ Return

Next ==
  \/ \E j \in Jobs : EnqueueClose(j) \/ Closed(j) \/ LoopTakes(j)
  \/ LoopExits
  \/ ReconcilerExits
  \/ Shutdown

Spec == Init /\ [][Next]_closerVars

-----------------------------------------------------------------------------
(* Correctness.                                                            *)

TypeOK ==
  /\ job \in [Jobs -> Places]
  /\ loop \in {"running", "exited"}
  /\ reconciler \in {"running", "exited"}
  /\ cancelled \in BOOLEAN
  /\ closeDone \in BOOLEAN
  /\ shutter \in {"idle", "waiting for both", "waiting for closers", "emptying", "returned"}

HasWaited == shutter \in {"waiting for closers", "emptying", "returned"}

(* hub.go, Close: nothing registers on the WaitGroup that Close is waiting on   *)
(* or has waited on, which would be the "Add called concurrently with Wait"    *)
(* panic that kills the process.                                             *)
NoLateSpawn ==
  [][HasWaited => At("overflow")' \subseteq At("overflow")]_closerVars

(* NFR-3: a hub that has returned from Close has leaked nothing.  Whatever was  *)
(* asked for is done, or is being done by the goroutine that asked.           *)
LeaksNothing ==
  shutter = "returned" =>
    /\ loop = "exited"
    /\ \A j \in Jobs : job[j] \in {"unasked", "inline", "done"}

(* FR-15: no close is dropped, whichever side of a shutdown it was asked on. *)
EveryCloseHappens == \A j \in Jobs : job[j] # "unasked" ~> job[j] = "done"
=============================================================================
