----------------------------- MODULE Reconciler -----------------------------
(***************************************************************************)
(* The desired-state reconciler (internal/hub/reconcile.go) against the bus  *)
(* it drives (internal/bus/redis.go).                                       *)
(*                                                                         *)
(* A caller moves `desired` under the hub's lock and only after unlocking     *)
(* runs markDirty: a store, then a non-blocking send on a channel of         *)
(* capacity one.  One goroutine waits for the token, swaps the flag, takes a  *)
(* snapshot and hands it to Bus.Sync, which may fail and is then retried      *)
(* after a backoff.                                                         *)
(*                                                                         *)
(* The bus is here at the grain the reconciler sees: a link that is up, has   *)
(* died and is not released yet, or is down; the set Sync last recorded; the   *)
(* set the bus believes applied; the set Redis really delivers.  A new link   *)
(* starts with nothing and is resynced from the recorded set.                *)
(***************************************************************************)
EXTENDS FiniteSets

CONSTANTS
  Keys,        \* bus keys
  ControlKey,  \* seeded by New, in no client's reach
  Callers      \* goroutines that mutate the hub

VARIABLES
  desired,   \* h.desired
  owing,     \* callers between unlocking and dirty.Store(true)
  waking,    \* callers between the store and the send on h.wake
  dirty,     \* h.dirty
  wake,      \* whether h.wake holds its token
  phase,     \* where the reconcile goroutine is
  snap,      \* the slice it handed to Sync
  link,      \* the Redis connection: "up", "dying", "down"
  resync,    \* the supervisor has adopted a link and not resynced it yet
  recorded,  \* RedisBus.desired
  current,   \* RedisBus.current
  upstream   \* what Redis has subscribed for this replica's live connection

hubSide == <<owing, waking, dirty, wake, phase, snap>>
busSide == <<link, resync, recorded, current, upstream>>
own     == <<waking, dirty, wake, phase, snap, link, resync, recorded, current, upstream>>
vars    == <<desired, owing, waking, dirty, wake, phase, snap,
             link, resync, recorded, current, upstream>>

-----------------------------------------------------------------------------
(* New marks the hub dirty itself, so the control key is subscribed before    *)
(* anything else happens; the bus may or may not have connected by then.     *)
Init ==
  /\ desired = {ControlKey}
  /\ owing = {}
  /\ waking = {}
  /\ dirty = TRUE
  /\ wake = TRUE
  /\ phase = "wait"
  /\ snap = {}
  /\ link \in {"up", "down"}
  /\ resync = (link = "up")
  /\ recorded = {}
  /\ current = {}
  /\ upstream = {}

(* The registry moves the set by any number of keys in one critical section. *)
Move(a, D) ==
  /\ a \notin owing \cup waking
  /\ ControlKey \in D
  /\ D # desired
  /\ desired' = D
  /\ owing' = owing \cup {a}
  /\ UNCHANGED own

(* markDirty, its two halves. *)
StoreDirty(a) ==
  /\ a \in owing
  /\ owing' = owing \ {a}
  /\ dirty' = TRUE
  /\ waking' = waking \cup {a}
  /\ UNCHANGED <<desired, wake, phase, snap, busSide>>

SendWake(a) ==
  /\ a \in waking
  /\ waking' = waking \ {a}
  /\ wake' = TRUE
  /\ UNCHANGED <<desired, owing, dirty, phase, snap, busSide>>

-----------------------------------------------------------------------------
(* reconcile *)

Woken ==
  /\ phase = "wait"
  /\ wake
  /\ wake' = FALSE
  /\ phase' = "swap"
  /\ UNCHANGED <<desired, owing, waking, dirty, snap, busSide>>

(* dirty.Swap(false): the flag is cleared before the snapshot is taken. *)
Swap ==
  /\ phase = "swap"
  /\ phase' = IF dirty THEN "snapshot" ELSE "wait"
  /\ dirty' = FALSE
  /\ UNCHANGED <<desired, owing, waking, wake, snap, busSide>>

Snapshot ==
  /\ phase = "snapshot"
  /\ snap' = desired
  /\ phase' = "sync"
  /\ UNCHANGED <<desired, owing, waking, dirty, wake, busSide>>

(* Bus.Sync returns nil: on a live link once every command is confirmed, and   *)
(* on one that has died unnoticed when there was nothing to send.             *)
SyncSucceeds ==
  /\ phase = "sync"
  /\ \/ link = "up" /\ upstream' = snap
     \/ link = "dying" /\ current = snap /\ UNCHANGED upstream
  /\ recorded' = snap
  /\ current' = snap
  /\ phase' = "swap"
  /\ UNCHANGED <<desired, owing, waking, dirty, wake, snap, link, resync>>

(* What the bus believes applied when a Sync towards `target` stops half-way:  *)
(* chunks are recorded as they are confirmed, removals before additions.      *)
Partial(target) ==
  {current \ R : R \in SUBSET (current \ target)}
  \cup {(current \cap target) \cup A : A \in SUBSET (target \ current)}

(* Sync fails.  Without a link it only records the set; on a link a command    *)
(* is refused or not confirmed, and the link is dropped.                      *)
SyncFails ==
  /\ phase = "sync"
  /\ recorded' = snap
  /\ \/ link = "down" /\ UNCHANGED <<link, current, upstream>>
     \/ /\ link = "dying"
        /\ current # snap
        /\ UNCHANGED <<link, current, upstream>>
     \/ /\ link = "up"
        /\ link' = "dying"
        /\ upstream' = {}
        /\ current' \in Partial(snap) \ {snap}
  /\ dirty' = TRUE
  /\ phase' = "backoff"
  /\ UNCHANGED <<desired, owing, waking, wake, snap, resync>>

BackoffEnds ==
  /\ phase = "backoff"
  /\ phase' = "swap"
  /\ UNCHANGED <<desired, owing, waking, dirty, wake, snap, busSide>>

-----------------------------------------------------------------------------
(* The bus on its own: the socket dies, the supervisor notices, dials again,   *)
(* adopts the new connection, and resyncs it from what Sync last recorded.    *)

Lose ==
  /\ link = "up"
  /\ link' = "dying"
  /\ upstream' = {}
  /\ UNCHANGED <<desired, hubSide, resync, recorded, current>>

Release ==
  /\ link = "dying"
  /\ ~resync
  /\ link' = "down"
  /\ UNCHANGED <<desired, hubSide, resync, recorded, current, upstream>>

(* Mutant: a new link is used without the resync. *)
AdoptBare ==
  /\ link = "down"
  /\ link' = "up"
  /\ current' = {}
  /\ upstream' = {}
  /\ UNCHANGED <<desired, hubSide, recorded, resync>>

Adopt ==
  /\ link = "down"
  /\ link' = "up"
  /\ resync' = TRUE
  /\ current' = {}
  /\ upstream' = {}
  /\ UNCHANGED <<desired, hubSide, recorded>>

Resync ==
  /\ resync
  /\ resync' = FALSE
  /\ \/ /\ link = "up"
        /\ current' = recorded
        /\ upstream' = recorded
        /\ UNCHANGED link
     \/ /\ link = "up"
        /\ link' = "dying"
        /\ upstream' = {}
        /\ current' \in Partial(recorded) \ {recorded}
     \/ link = "dying" /\ UNCHANGED <<link, current, upstream>>
  /\ UNCHANGED <<desired, hubSide, recorded>>

-----------------------------------------------------------------------------
Caller == \E a \in Callers : \/ \E D \in SUBSET Keys : Move(a, D)
                             \/ StoreDirty(a)
                             \/ SendWake(a)

Reconcile == Woken \/ Swap \/ Snapshot \/ SyncSucceeds \/ SyncFails \/ BackoffEnds

Supervise == Lose \/ Release \/ Adopt \/ Resync

Next == Caller \/ Reconcile \/ Supervise

Spec == Init /\ [][Next]_vars

(* Every goroutine runs; Redis stays lost only as long as it really is.      *)
Fairness ==
  /\ \A a \in Callers : WF_vars(StoreDirty(a)) /\ WF_vars(SendWake(a))
  /\ WF_vars(Woken) /\ WF_vars(Swap) /\ WF_vars(Snapshot)
  /\ WF_vars(SyncSucceeds \/ SyncFails)
  /\ WF_vars(BackoffEnds)
  /\ WF_vars(Release) /\ WF_vars(Adopt) /\ WF_vars(Resync)

-----------------------------------------------------------------------------
(* Correctness.                                                            *)

TypeOK ==
  /\ desired \subseteq Keys
  /\ owing \subseteq Callers
  /\ waking \subseteq Callers
  /\ dirty \in BOOLEAN
  /\ wake \in BOOLEAN
  /\ phase \in {"wait", "swap", "snapshot", "sync", "backoff"}
  /\ snap \subseteq Keys
  /\ link \in {"up", "dying", "down"}
  /\ resync \in BOOLEAN
  /\ recorded \subseteq Keys
  /\ current \subseteq Keys
  /\ upstream \subseteq Keys

(* No caller and no flag remembers a change the reconciler has not seen. *)
Quiet == owing = {} /\ ~dirty

(* M5, C7: an intent is never lost.  When nothing is owed and the flag is      *)
(* down, the set in flight, or else the set the bus last recorded, is the      *)
(* desired one; between the swap and the snapshot there is nothing to check.   *)
IntentKept ==
  Quiet =>
    /\ phase \in {"wait", "swap"} => recorded = desired
    /\ phase = "sync" => snap = desired

(* C7: a dropped wake token loses nothing.  The reconciler never sleeps on a   *)
(* raised flag unless the token is in the channel or a caller is sending it.   *)
NoLostWakeup == dirty /\ phase = "wait" => wake \/ waking # {}

(* M6: a link that is up and resynced delivers exactly the recorded set, so    *)
(* a reconnect needs no sweep of the hub.                                     *)
UpstreamIsRecorded == link = "up" /\ ~resync => upstream = recorded

(* C8: the bus is never told to leave the control channel. *)
ControlRecorded == recorded # {} => ControlKey \in recorded
=============================================================================
