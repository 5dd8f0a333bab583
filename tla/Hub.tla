-------------------------------- MODULE Hub --------------------------------
(***************************************************************************)
(* The hub whole: the registry's critical sections, the reconciler that      *)
(* follows `desired`, and the bus it drives.  The two halves share `desired`   *)
(* and `owing`; a caller that moved the set owes the reconciler a markDirty,   *)
(* which is the registry's Marked and the reconciler's StoreDirty in one step. *)
(***************************************************************************)
EXTENDS Registry

VARIABLES waking, dirty, wake, phase, snap, link, resync, recorded, current, upstream

R == INSTANCE Reconciler

reconcilerVars == <<waking, dirty, wake, phase, snap, link, resync, recorded, current, upstream>>

hubVars == <<regVars, reconcilerVars>>

HubInit == Init /\ R!Init

(* A critical section moves the registry and leaves the reconciler to itself.  *)
(* A caller still inside its last markDirty has not returned to move it again. *)
Critical ==
  /\ RegistryNext
  /\ (owing' \ owing) \cap waking = {}
  /\ UNCHANGED reconcilerVars

(* Mutant: a caller returns without marking the hub dirty. *)
MarkNothing == \E a \in Callers : Marked(a) /\ UNCHANGED <<maps, others, reconcilerVars>>

MarkDirty == \E a \in Callers : \/ R!StoreDirty(a) /\ Marked(a) /\ UNCHANGED <<maps, others>>
                                \/ R!SendWake(a) /\ UNCHANGED <<maps, others>>

Background == (R!Reconcile \/ R!Supervise) /\ UNCHANGED <<maps, others>>

HubNext == Critical \/ MarkDirty \/ Background

HubSpec == HubInit /\ [][HubNext]_hubVars

(* The registry's goroutines need not run; the markDirty a caller owes, the     *)
(* reconcile goroutine and the bus's supervisor do.                           *)
HubFairSpec == HubSpec /\ R!Fairness

-----------------------------------------------------------------------------
Held == {k \in Keys : \E c \in registered : k \in subs[c]}

(* FR-12, M5: with nothing in flight and the link up, Redis delivers to this    *)
(* replica exactly the control key and what its open connections hold.        *)
HeldIsUpstream ==
  (R!Quiet /\ phase = "wait" /\ link = "up" /\ ~resync)
    => upstream = {ControlKey} \cup Held

(* FR-10, FR-12, NFR-8: once the connections stop changing what they hold and   *)
(* the link stays up, Redis comes to deliver exactly that and the control key,  *)
(* and goes on: no wake-up, no failed Sync and no lost link strands a channel.  *)
Converges ==
  \A D \in SUBSET Keys :
    <>[](Held = D /\ link = "up") => <>[](upstream = {ControlKey} \cup D)

(* The registry is one of the environments the reconciler was verified in, so  *)
(* what holds of Reconciler holds of the hub.                                *)
ImplementsReconciler == R!Spec
=============================================================================
